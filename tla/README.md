# walspool: a verification project

TLA+ models of walspool, TLC runs that check them on small instances, and TLAPS
proofs of what matters most for every instance. Paths such as `engine.go:258` are
relative to the repository's root (`src/` in `PROJECT.json`). `PROJECT.json` lists
components, runs, mutants (plausible bugs each property is shown to catch), the map
from definitions to source lines, findings, hazards and theorems.

Run a model with `tlc -config X.cfg M`, a proof with `tlapm M_proofs.tla`.

## The system

walspool accepts records over HTTP or as a Go library, writes them to a write-ahead
log, and delivers them in batches to a downstream sink.

| Component | State | Operations | Interacts with |
|---|---|---|---|
| Engine (`engine.go`) | `closed`, ID counter, `notifyCh`, `flushCh`, `stopCh` | `Enqueue`, `Flush`, `Close`, the dispatcher goroutine | storage and sink by calls, callers by channels and `e.mu`, the hub by a callback in `Enqueue` |
| File log (`storage_file.go`, `record.go`) | index of frames, `bufio.Writer`, `active.wal`, `checkpoint.meta`, `checkpoint`, `maxID` | `Append`, `ReadBatch`, `Commit`, `Flush`, `Close`, rollback, recovery, periodic flusher | called by Enqueue goroutines and the dispatcher under `f.mu` |
| Segments (`storage_file.go`) | list of segment files | rotation, pruning, `recoverSegmented` | part of the file log when `MaxSegmentSize` is positive |
| Memory storage (`storage_memory.go`) | slice of records, checkpoint | the same port | as the file log |
| Log hub (`hub.go`) | ring of entries, a chain index by trace ID and one by service, subscribers | `Ingest`, `Query`, `Subscribe`/cancel, `Close`, `OnIngested` | called inside `Enqueue`; read by HTTP handlers; channels to stream handlers |
| Sidecar (`cmd/sidecar`) | counters, `shuttingDown`, one handler per request, the shutdown's deadline | single, batch, NDJSON and OTLP ingestion, `/flush`, streams, `HTTPSink.Deliver`, `GracefulShutdown` | calls engine and hub; the engine calls its sink |
| CLI (`cmd/walspool`) | none that lasts | client commands, monitor | HTTP |

What makes it hard:

* **Crashes.** Log and checkpoint are made durable at different times under three sync
  policies; a restart joins whatever survived of the two.
* **Failing I/O.** The buffered writer is shared by five operations and keeps its first
  error; a failed `Append` cuts the file while the dispatcher holds a batch read from it.
* **Interleaving.** Callers take IDs before they reach the storage; `Close` races with
  `Enqueue`, `Flush` and the dispatcher over a mutex, three channels and a wait group.
* **Streams.** `Ingest` sends to channels outside the hub's mutex while cancel and
  `Close` close them.
* **Torn frames and files.** A full buffer, a short write or a crash ends a file inside a
  frame; rotation and pruning spread the log over files that come and go one by one.
* **Requests of several items.** A batch, an NDJSON body or an OTLP request may fail in
  the middle, with some of its records in the spool and perhaps delivered.
* **Shutdown.** Handlers, streams, the dispatcher and `GracefulShutdown` share one deadline.
* **Intrusive chains.** Each ring slot is in two doubly linked chains that eviction and
  insertion relink in place.

What makes each component correct: the log never skips, loses or changes a record its
policy promises to keep; the engine closes the storage only when it is idle, answers a
flush only when it is done, and lets everyone out; the hub's indices always agree with
its ring, its streams get or are charged for every entry, and no send meets a closed
channel; the sidecar's answers and counters tell what the spool holds, a target lets records
go by a final answer only, and a shutdown without error has left nothing behind. The
hazards of `PROJECT.json` name the line where each could go wrong.

## Modules

| Module | Models | Runs | Proofs |
|---|---|---|---|
| `SpoolQueue` | the abstract at-least-once queue | (through refinement) | |
| `WalStorage` | the single-file log, its callers and the dispatcher's cycle, crashes and restarts | `wal_batch`, `wal_every`, `wal_interval_power` | `WalStorage_proofs` |
| `WalImplementsQueue` | the refinement of `SpoolQueue` by `WalStorage` | `wal_batch` | `WalStorage_proofs` |
| `WalSegments` | the segmented log, byte by byte: rotation, pruning, torn frames, recovery | `wal_segments`, `wal_torn` | `WalSegments_proofs` |
| `MemoryStorage` | the in-memory store, and its refinement of `SpoolQueue` | `memory` | `MemoryStorage_proofs` |
| `Engine` | Enqueue, Flush, Close and dispatcher goroutines over the storage port | `engine`, `engine_stuck_close` | `Engine_proofs` |
| `Backoff` | the waits of the dispatcher in wrapping arithmetic | `backoff` | `Backoff_proofs` |
| `LogHub`, `MCLogHub` | ring, chains, queries | `log_hub` | `LogHub_proofs` |
| `HubStream`, `MCHubStream` | subscribers, broadcast, cancel, Close | `hub` | `HubStream_proofs` |
| `Sidecar`, `MCSidecar` | HTTP handlers, sink, counters, GracefulShutdown | `sidecar` | `Sidecar_proofs` |

### SpoolQueue

Items wait in order. The first `hard` of them outlive every crash. An item leaves at the
head only, after the sink has taken it or when it cannot be read; the soft tail may be
lost or damaged. This is the contract of the `StorageEngine` and `Sink` ports and of the
README's delivery semantics.

### WalStorage

The log is one sequence `wal` cut by two marks: `synced` frames are on the medium,
`flushed` are in `active.wal` (page cache), the rest is in the `bufio.Writer`. `meta` is
`checkpoint.meta`, `checkpoint` its copy in memory. Offsets are 0-based in the code, so
`Commit(offset)` sets a count of `offset + 1`; the model uses the count.

* `TakeID` is `Enqueue` up to the atomic add, `AppendAcked`/`AppendRefused`/`AppendFailed`
  the outcomes of `Append`, rollback included. `ReadBatch`, `ReadNothing`, `SinkSettles`,
  `SinkFails`, `Commit`, `CommitNothing` are the dispatcher. `Flush` is the periodic
  flusher, `CloseBegin`/`CloseEnd` the two critical sections of `Close`, `Recover` the
  constructor together with `New`. `CloseEnd` keeps what the buffer could not flush out of
  the log.
* Each handler holds `f.mu` throughout and is one step; `Close` releases it in between and
  is two.
* `Commit` is one step although it renames a file: `checkpoint.tmp` is written, fsynced and
  renamed, so a crash sees the old number or the new one, and a crash in it is a crash
  before or after.
* `ProcessCrash` keeps the file, `PowerLoss` any prefix of it above `synced`, with damaged
  bodies. Both may catch an `Append` before its return, leaving a frame nobody was told of.

Abstractions: frames are whole (a torn tail is dropped by recovery as if it were not
there; what a torn frame in the *middle* does is in `WalSegments`); damage hits bodies
and not headers; the Stat, Truncate and Seek of a rollback, whose errors `rollbackTo` logs
and ignores, succeed, here and in `WalSegments` (a second failure on top of the one that is
rolled back); a failed fsync leaves the pages dirty, while some kernels drop them;
`checkpoint.meta` is never unreadable; an engine that is closed by `Close` and one still in
use by the dispatcher are allowed to overlap, which the engine itself prevents.

### WalSegments

`files` is the directory: each base offset maps to a sequence of bytes. A byte is
`[tkt, size, part]`: whose frame it belongs to, the length declared there, and which part
it is. Part 1 is the whole header. `buffer` is the `bufio.Writer`, `records` the index,
`f.writePos` the length of file and buffer together.

* `AppendAcked(n)` chooses a place (`Slot`, with a rotation where `NeedsRotation`) and hands
  over as many bytes as `bufio.Writer.Write` would (`Spilled`), so a full buffer may split a
  frame. `AppendFailed(n)` lets any part of them reach the file and then calls `RollbackTo`.
  `RotationFailed(n)` is `rotateSegment` with each of its errors, none of which is rolled back.
* `rotateSegment` opens the next segment by its name without asking whether there is one
  already; a file of that name would be written over from its start. `FreshName` is where
  the model ends instead.
* `Commit` replaces the checkpoint and removes committed segments one by one (`Pruned`); one
  removal may fail, and `CommitInterrupted` is a process crash between two of them (a power
  loss there may also undo removals: see *Gaps* under the findings). `MaxStrays` bounds how many segments that could not be removed lie in the directory at a time.
* `RecoverSegment` walks from header to header by the declared lengths, without the CRC, as
  the code does; `ReadBatch` applies the CRC (`IsFrame`).
* `ProcessCrash` may catch an Append with any part of its bytes written, or a rotation with
  an empty new segment; `PowerLoss` keeps any prefix above what is fsynced.

Abstractions: a header is written as one unit and payload bytes never look like one;
`close(2)` does not fail in a rotation; the fsync of the directory works; a power loss keeps
a prefix (damaged bodies are in `WalStorage`); a frame in flight at a crash is one without a
rotation; the pruning of a start removes what it should, and no crash comes in the middle of it
(pruning by `Commit` has both); the name `active.wal` of a log that was once unsegmented is
left out; IDs are in `WalStorage` only.

### Engine

The storage is reduced to the length of its queue: the dispatcher takes from its front
only, callers add at its end, so positions tell what is left of what. A step is what one
goroutine does between two points another can observe. `caller` holds the read lock of
`e.mu` from the test of `closed` to the return; a waiting `Close` keeps new readers out
(`ReadLockFree`) as `sync.RWMutex` does. `serving` says for whom `drainPendingBatches`
runs: the loop, a flusher, or the shutdown drain. `owed` and `mark` are history: what is
left of the records a flush was called for, and the position of one watched record.
The observer callback is a call that returns (`hub` checks that it does), arguments
rejected before any state is touched are left out, and durations are in `Backoff`.

### Backoff

`calculateNextBackoff` with products that wrap at `2 * Top`. All pairs of configured
bounds are initial states, negative ones and a maximum below the minimum included.

### LogHub

The trace and service functions of the code are the same, so a chain index is one record
`[prev, next, span]`, used twice. `Ingest` and `Query` hold `h.mu`, so each is one step.
`Query` walks the chains as the code does; `Answer` is the reference: a search through the
part of the history that the ring still holds, newest first. Both pick what fits with
`Filtered`. `ChainsExact` compares the links and spans with the slots in use,
`QueryExact` what the walk makes of them. IDs, timestamps and payload copies are left out.

### HubStream

What `Ingest` does after it releases `h.mu`: for each stream of its snapshot the filter,
the test of `sub.closed` under the read lock (`Test`), and the send or drop (`Send`). The
two are apart because a `close` in between would panic; `Unread` is the write lock of
`cancel` and `Close`. The handler is `handleLogsStream`. An entry is its number in the
order of ingestion.

### Sidecar

One record `req[r]` per request: its endpoint, its items, the next one, how many are
enqueued, the step of its handler, its answer, and whether its client is still there. Items
are `good`, `invalid` (fails a test of the handler), `long` (cannot be read as a line) or
`swells` (passes the tests, and is over the spooler's limit once enrichment has added to it).

* `Arrive` is a handler up to its first `Enqueue` or `Flush`: `Opening` holds the tests in
  front, which for a batch are the whole of phase 1. From there an item is a step of
  `Enqueue` (`EnqueueStores`, `EnqueueRefused`, `EnqueueFails`) and a step of the counter
  (`CountIngested`). `AnswerTo` maps each refusal to each endpoint's answer.
* `sink` is what `-sink-url` names; the configuration does not parse it. A `target` answers
  for itself. One that `moved` may answer 301, 302 or 303, which `http.Client` follows with a
  GET without the batch; what comes back is judged like any answer (`carried = FALSE`). For an
  `unusable` URL `http.NewRequestWithContext` fails, which `HTTPSink.Deliver` reports as
  `ErrPermanentRejection`, and with `none` it returns nil after a debug log: both are
  `DeliverNowhere`, and the dispatcher commits. A 307 or 308 sends the batch again, so its
  answer is a carried one; a 3xx that is not followed is "unavailable". Encoding a batch
  never fails, since a payload is JSON or quoted.
* `Verdict` is the classification in `HTTPSink.Deliver`; `Final` is what it should be, in
  terms of the status codes. The history variable `settled` takes the records a final answer
  was about, `astray` those that were let go of otherwise; `Released` admits the latter only
  where `sink` is no `target`.
* The dispatcher and the spooler appear as `Engine` shows them to behave: batches are taken
  from the front, a Flush returns nil when it has found the queue empty.
* `StreamEnds` takes it that a stream opened after `hub.Close` is given a closed channel; that
  `Subscribe` does so is `StreamsReleased` of `HubStream`.
* `GracefulShutdown` is one action per step. `ServerTimesOut` and `FlushTimesOut` are the
  shared deadline, which may come at any moment; a deadline that is over makes the Flush
  return at once.

Left out: `delivered_records_total` (it counts a batch twice when its Commit has failed); a
corrupt record that the log skips (in `Engine`), which `CleanShutdownDelivers` therefore says
nothing about; handlers that only read. An NDJSON body whose connection breaks ends like one
that is over. An empty body also stands for one that cannot be decoded or has too many
items. A failing `ReadBatch` changes nothing here. Connections that have sent no request yet
do not hold up the server.

### MemoryStorage

The port over a slice, with the dispatcher's use of it. It refines `SpoolQueue` with every
pending item hard.

## Runs

| Run | Question | Bounds | Shows |
|---|---|---|---|
| `wal_batch` | Is SyncBatchCommit safe under every crash and failing I/O? Does the log implement `SpoolQueue`? Is every durable record delivered? | quota 3, 4 appends, 2 restarts, 1 fault, buffer of 2, batch of 2 | pass under `FairSpec`: nothing skipped, batch in hand current, checkpoint monotone, durable frames kept, refinement, delivery |
| `wal_every` | Does SyncEveryRecord keep what it acknowledges under power loss, with concurrent callers? | 2 callers, 4 appends, 3 restarts, 2 faults | pass: acknowledged records kept, IDs unique |
| `wal_interval_power` | SyncInterval, the default, and power loss | 2 appends, 2 restarts | **violated**: the clamped checkpoint is not written back, a later restart skips synced records |
| `wal_segments` | Do rotation, pruning and recovery keep memory, index and files in agreement under crashes inside any of them? | frames of 1 or 2 bytes, segments of 3, buffer of 2, quota 3, batch of 2, 4 frames, 2 restarts, 2 faults, one segment at a time that could not be removed | pass: a restart finds the index it should, nothing skipped, removed unsettled, or lost from the medium unless a cut went through a frame |
| `wal_torn` | Does the log keep what is on the medium when a rollback has cut a frame in two? | as above, no crash, 1 restart, 1 fault | **violated**: a torn frame stays in the file and the next start throws away what is behind it |
| `engine` | Storage used after close? Flush answered early? Does everyone get out, is a wake-up ever lost? | 2 callers, 1 flusher with a context that may end, 1 Close, quota 2, batch 1 | pass under `FairSpec` |
| `engine_stuck_close` | Does Close end when the disk stays broken? | 1 caller, 1 Close | **violated**: reject, failing commit, start over, without a look at `stopCh` |
| `backoff` | Are waits in range in spite of overflow? | integers of -24 .. 23 | pass |
| `memory` | Does the memory store implement `SpoolQueue`? | 4 appends, quota 2, batch 2 | pass |
| `log_hub` | Do ring, chains and queries agree? | ring of 3, 6 ingests of 5 kinds of entry | pass |
| `hub` | No send on a closed channel, no leaked stream, every entry received or counted; does Ingest return, do streams end? | 1 publisher, 2 streams, 1 Close, 2 entries, channel of 1 | pass under `FairSpec` |
| `sidecar` | Are answers and counters true, does the sink let go only of what is settled, does a clean shutdown leave nothing behind, does it end? | one request of several items at any endpoint, whose client may hang up, one of a single record or a flush, 1 stream; a target, a redirecting one or an unusable URL; answers 200, 422 and 429; quota 2, batch 2, 1 fault | pass under `FairSpec`; with an unusable or redirecting URL records leave without the target having them (see the findings) |

Why the bounds are enough. In the log, the interesting length is that of a batch plus a
frame behind it plus one in flight: four appends with a batch of two reach every relation
of checkpoint, batch in hand, flushed, synced and end; two restarts let a stale checkpoint
meet new records, three also let it be written after a recovery. In the segments, frames of
one and two bytes in a buffer of two and segments of three give every position of a frame
against the end of a buffer and of a file; four frames fill three segments, so that
there are an old, a middle and the active one to prune or keep. One fault is enough to
tear, to fail a rotation or to leave a pruned segment behind; two let a rollback or a failed
rotation meet the segment that was left. In the engine one flusher and one caller
already meet every select; a second caller adds the races among callers and with a waiting
Close, and a batch of one against a queue of two is the first case where one batch is not
the drain (the theorems cover any number of each). A ring of three slots has first, middle
and last places in a chain, and six ingests wrap it twice. One slot in a stream's channel
makes full and empty one entry apart. In the sidecar a request of several items may fail at
its first, a middle or its last item against a quota of two while the dispatcher makes room,
and the other request races with it and with the shutdown; only the first has a client that
may hang up, since the other has one item at most. The target's answers are one of each
class, in any order; an unusable URL also stands for none, which differs in a log line. In
`backoff` the width covers every case of a product three times the range: no wrap, wrap to a
negative, wrap to a positive number (the proof covers all widths).

The engine, stream and sidecar models stop where the program stops (`Finished`), so deadlock
is checked in them, as it is in `WalStorage`. `log_hub` switches the check off: a closed hub
answers no more calls. So do `wal_segments` and `wal_torn`: once the writer keeps an error and
the next `Append` needs a rotation, no call of the log makes progress any more (see the
findings), and the attempts are bounded.

## Fairness

* `WalStorage`: the dispatcher keeps reading and committing while the engine is open, Close
  ends, somebody restarts the process, and a sink that is offered batches for ever settles
  one. No fairness for callers, flusher, crashes or faults. `DurableDelivered` exempts the
  writer stuck on its error: `ReadBatch` then fails until the next `Append` resets it.
* `Engine`: `Progress` says that goroutines that can run do, that a `select` that finds
  `stopCh` ready again and again takes it (Go chooses at random among ready cases), and
  that an `RWMutex` is granted in the end. Nothing is assumed of the clock: `RecordsLeave`
  shows that the flush interval is not needed; nor of contexts, none of which has to end.
  `WorldWorks` adds a storage and sink that work now and then; `engine_stuck_close` leaves
  it out.
* `WalSegments` states none: every property there is about safety.
* `Sidecar`: handlers and the dispatcher run, clients send the bodies they have begun, the
  handler of a stream ends once its stream is closed, and a target that is asked for ever
  takes or refuses a batch in the end. Nothing makes a client leave, and nothing is assumed of
  the deadline: `ShutdownEnds` holds whether it comes or not.
* `HubStream`: publishers, cancel and Close run; a writer waiting for a lock is not passed
  over for ever, which `sync.RWMutex` gives. No handler has to read.

## Proofs

All for every value of the constants, from the named assumptions of the modules only.

* **`WalStorage_proofs`.** `TypeCorrect`: types and the order `synced <= flushed <= Len(wal)`.
  `SafeInvariant`: under `SafeSetup`, `IndInv` always holds. `NothingSkipped` alone is not
  inductive: a restart could bring back an old checkpoint, or a crash could take frames in
  front of it. `IndInv` adds that the checkpoint on disk never counts more frames than a
  crash leaves (`meta <= Surviving`), that memory and disk agree while the process runs, and
  `HandInv`: the batch in hand starts at the checkpoint, lies in the file, and is settled
  before it is committed. `SafeSetup` says when that is so: no power loss, or
  SyncBatchCommit, or SyncEveryRecord without process crashes. `wal_interval_power` shows
  what happens elsewhere; SyncEveryRecord with both kinds of crash fails the same way
  (`WalEvery.cfg` with `CrashKinds = {"process", "power"}`): recovery takes over the frame
  of an Append a process crash cut short, the frame is delivered and committed unsynced, a
  power loss takes it, and its checkpoint then skips a record that was acknowledged.
  `NothingIsSkipped`, `HandStaysCurrent` and `MetaGrows` follow.
  `DurableStays` (a synced frame is never changed) needs no `SafeSetup`.
  The default policy, SyncInterval, is in `SafeSetup` as long as only processes die.

  About single records: `IdsAreUnique`: under `UniqueSetup`, what the sink has seen is
  always among the frames that survive a crash (`SeenSurvives`), so the counter that resumes
  past every header it finds resumes past every ID delivered; `IdsApart` keeps the frames, the
  records on their way to Append and the counter apart. Elsewhere IDs do repeat: see the
  findings. `AckedIsNotLost`: under `AckedSetup` (SyncEveryRecord within `SafeSetup`) an
  acknowledged record was taken or its frame is intact among the survivors (`AckedSurvives`).
  `LogImplementsQueue`: under `SafeSetup` each step of the log is a step of `SpoolQueue`. With
  `IndInv` the checkpoint on disk is the head of the queue and the survivors behind it its
  hard part (`View`); every failing write and every crash is a `Cut` of the soft tail, perhaps
  with one frame in flight (`LossCuts`), and a cut is `Lose`. `ItemInv` and `HandOffers` say
  that frames are items and that the sink is offered intact ones only.
* **`WalSegments_proofs`.** `TypeCorrect`, for every configuration: whatever bytes a directory
  holds, parsing, rotation, rollback and pruning yield an index of that shape (`W` is the
  inductive invariant). Four theorems hold under `SafeSetup`: `RestartFindsTheIndex`,
  `NothingIsSkipped`, `DurableStaysUnlessCut` and `OnlySettledIsRemoved`. `SafeSetup` asks that
  no frame is larger than recovery accepts, that at most one segment at a time could not be
  removed, whatever other calls `IOError` lets fail and how often, and the same of policy and crashes as in
  `WalStorage`. Each of these is needed: see the findings on gaps and on frames above 10 MB, and
  `wal_interval_power`.

  The invariant is `W /\ Firm /\ Keeps`. As long as no rollback has cut a frame in two, the
  log, files and buffer together, is tiled by frames (`Tiled`): a function `at` gives the place of
  the frame of each offset from the base on, each starts where the one in front of it ends or
  at the start of a new segment, and only the segment at the end may have a torn tail.
  `IndexIs` says that `recoverSegmented` reads exactly `at` back, so memory and what a restart
  would find cannot differ; it also shows that the next segment's name is free. `TiledRotated`,
  `TiledCut` and `TiledPruned` show that rotation, a rollback or crash, and pruning leave a tiled
  log. `Sound` adds that what is in front of the checkpoint is settled and what was acknowledged
  on the medium is still there; `Strays` that a segment that could not be removed lies below the
  log and is settled, so that a start reads it and prunes it; `Working` that index and batch in
  hand of a running engine are views of `at`; `Firm` that SyncEveryRecord without process
  crashes leaves nothing off the medium. Once a rollback has cut a frame in two (`cut`), the four
  properties claim nothing, and neither does `Keeps`: `wal_torn` shows why.

  The walk over bytes is a recursive function. Its value at each place follows from the least
  place at which it would be wrong (`Least`, from the library's `WFMin`), which needs no
  theorem with an operator as parameter.
* **`Engine_proofs`.** `TypeCorrect`; `FlushIsComplete`: a Flush that reports success was
  called on a queue all of which is committed; the strengthening ties `ack = "nil"` and the
  result to `owed = 0`, which only `FlushCall` raises. `StorageIsLeftAlone`: the storage is
  closed only when the dispatcher is done and no caller is past its test; the strengthening
  (`CloseInv`) follows a closer through its steps: one that is past the lock has set
  `closed`, under a write lock no caller held.
* **`LogHub_proofs`.** `RingIsRight`: the ring holds the newest entries in order, whatever the
  capacity, over any number of wraps. `ChainsAreExact`: both indices are exact. The lemmas on
  lists know nothing of the ring: slots have ages, `LinkIndex` takes in one younger than all
  others and `UnlinkIndex` lets go of the oldest (the links of the neighbour, the head of the
  span and the key of an emptied chain). `RingMoves` then says what Ingest does to the ages:
  all slots but the new one keep their order, and the slot a full ring gives up is the oldest.
  `QueriesAreExact`: a query answers what a search through the live history would, for every
  filter and limit. Ring and chains are each walked from the newest on and end because ages
  decrease (`WalkOrdered`); what the walk picks and what the search picks are one set of
  entries in one order, and only one sequence has both (`OrderedOnce`).
* **`Sidecar_proofs`.** `TypeCorrect`; `NothingIsDropped`: with a target that answers for itself
  a record leaves the queue only after a final answer to a request that carried it; with a
  redirecting one after any final answer, and without a target to ask, at once (`Released`);
  `CleanShutdownIsComplete`: once the Flush of the shutdown has returned nil no handler is left
  that could still enqueue (`ShutdownInv`, which follows `srv.Shutdown` and the stop of the
  streams before it), so nothing is pending and every record was released in that sense;
  `CounterIsExact` and `AnswersAreTrue`: the counter of ingested records and the answers tell
  what the spool took, for every number and mixture of requests (`AnswerInv` ties each
  handler's place in its loop to what it has stored).
* **`HubStream_proofs`.** `TypeCorrect`, `SendsAreSafe` and `StreamsAreReleased`, from an
  invariant that follows a subscriber's life: unborn, in the map and open, out of the map with an
  owner who will close it, closed. Only a `Close` that has emptied the map has streams to close.
  `EntriesAreAccounted`: an open stream has each entry it was due once, but for those on the
  way and those `droppedEvents` counts. `FlowInv` adds what the property needs of the
  publishers: no two in Ingest hand out the same entry (`EntriesApart`), and what is owed to a
  stream lies between its subscription and its leaving the map and is neither in its channel
  nor among the lost.
* **`MemoryStorage_proofs`.** `TypeCorrect`, `HandStaysCurrent`, and `StoreImplementsQueue`: each
  step of the store is a step of `SpoolQueue` under the mapping, or a stutter.
* **`Backoff_proofs`.** The test `high < current` catches exactly the products that do not
  fit (`TripleExact`), because the product of a wait and 3 is below three times `Top`, and
  the wrap then falls below the wait itself. From this: waits in range, no panic in `Int64N`,
  and growth that an overflow cannot reverse.

Only model-checked: liveness (`DurableDelivered`, `RecordsLeave`, `CloseReturns`,
`FlushEndsAtClose`, `IngestReturns`, `StreamsEnd`, `ShutdownEnds`), because fairness and
ENABLED are out of the prover's reach. Every invariant and every action property of a passing
run is stated by a theorem.

## Findings

The three runs that end in a violation each contradict a sentence of the repository, quoted
in `PROJECT.json`:

* `wal_interval_power`: `recoverSingle` clamps a checkpoint ahead of the log in memory only.
* `wal_torn`: `rollbackTo` keeps a torn frame in the middle of the file.
* `engine_stuck_close`: Close never returns while the sink rejects and Commit fails.

Other things the models show, or that were met while writing them, without a run of their own:

* **SyncEveryRecord with both kinds of crash** breaks `NothingSkipped` (see `SafeSetup`).
* **Reused IDs.** Outside `UniqueSetup` a record that was delivered, lost in a power failure
  and replaced gives its ID to the next: `WalEvery.cfg` with `SyncBatchCommit` has it after
  append, deliver, power loss, append, deliver. By reading, a segmented log whose segments are
  all pruned and whose active one is empty restarts its IDs at 1 as well; `UniqueIds` is
  about the single file and would not show it. The comment at
  `spooler_test.go:650` says that IDs never repeat after a crash or a planned restart.
* **Gaps.** Two removals that fail while segments are pruned, or a power loss among them, can
  leave an old segment in front of a gap; recovery then numbers offsets twice.
  `RestartFindsIndex` fails in `WalSegments` with SyncEveryRecord, no crashes, frames of two
  bytes in segments of three, quota 5, batch 4, seven attempts, one restart, two faults and
  `MaxStrays = 2`. With `MaxStrays = 1` the four theorems exclude it.
* **A wedged log.** `rotateSegment` flushes first, and its error is not rolled back
  (`storage_file.go:443`): once the writer keeps an error and the next frame needs a
  rotation, no Append succeeds before a restart.
* **Frames above 10 MB** are accepted by Append when the configuration allows them and
  truncated by recovery (`MaxRecoverable` in `WalSegments`).
* **"202 only after persisting"** (`README.md:489`) holds for SyncEveryRecord, for which
  `AckedNotLost` is checked and proved; SyncInterval, the default, answers from the buffer.
* **Batches.** Validation is all or nothing; the enqueueing behind it is not, and a refusal in
  the middle leaves the first records in the spool. `AnswersTrue` says what the answer tells.
* **Records that leave without a target.** With a `-sink-url` no request can be built for, say
  `127.0.0.1:9000/in`, every `Deliver` returns `ErrPermanentRejection`
  (`cmd/sidecar/main.go:88`), and the engine commits the batch as one the sink has refused
  (`engine.go:314`). A target that answers 301, 302 or 303 is left with a GET without the batch,
  whose 2xx counts as delivery and whose 4xx as a refusal. Either way the spool empties, the
  target has nothing, and `GracefulShutdown` returns nil. `README.md:489` says that checkpoints
  advance "after confirmed downstream delivery", and `README.md:494` promises "Zero In-Flight
  Loss". `NothingDropped` and `CleanShutdownDelivers` therefore hold with the exception that
  `Released` makes; with `settled` in its place both fail in this run.
* **A stream whose client does not read** holds up the server's shutdown until the deadline.

## Plan

Done: the single-file log with its proofs and refinement, the segmented log and its bytes
with their proofs, the memory store, the engine, the backoff, the hub's ring, chains, queries
and streams, the sidecar with its handlers, sink and shutdown.

Left, in this order:

1. Composition of `Engine` with `WalStorage`: both stand on the same dispatcher cycle, and
   `HandIsCurrent` and `StorageLeftAlone` are what each assumes of the other.
2. In `WalSegments`, a removal that fails and a crash while a start prunes, with the four
   theorems extended to them.

## Not modelled

* The metadata scanner (`OnIngested`, `scanTopLevelMeta`): a function of one payload without
  state. Its result is the input of `LogHub`; a model would spell payloads out byte by byte.
* Attributes, timestamps and enrichment texts of OTLP and the other endpoints: formatting.
* Handlers that only read (`/v1/logs`, statistics, health, Prometheus text), configuration.
* The CLI, the monitor and the stream viewer, the demo, preview, benchmarks, load generator,
  client examples and the documentation site: no part in keeping or delivering records.
