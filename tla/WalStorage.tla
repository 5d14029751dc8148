---------------------------- MODULE WalStorage ----------------------------
(***************************************************************************)
(* The single-file write-ahead log of walspool: FileStorageEngine opened   *)
(* with MaxSegmentSize <= 0 (storage_file.go), its callers of Append (the  *)
(* Enqueue goroutines of engine.go) and its only reader, the dispatcher's  *)
(* ReadBatch / Deliver / Commit cycle (engine.go, drainPendingBatches).    *)
(*                                                                         *)
(* The log is one sequence of frames.  Three marks cut it:                 *)
(*                                                                         *)
(*      1 .. synced        on the medium (fsync returned)                  *)
(*      synced+1 .. flushed  in active.wal, held by the page cache         *)
(*      flushed+1 .. Len(wal)  in the bufio.Writer                         *)
(*                                                                         *)
(* so f.writePos is Len(wal) and f.records is one entry per frame.  The    *)
(* 0-based offset of frame i is i-1, and Commit(offset) sets a checkpoint  *)
(* of offset+1: "upto" below is that number, the count of frames behind    *)
(* the checkpoint.  Every handler holds f.mu from its first test to its    *)
(* return, so each is one step, except Close, which releases the mutex     *)
(* between marking the engine closed and flushing it.                      *)
(***************************************************************************)
EXTENDS Naturals, Sequences, FiniteSets

CONSTANTS
  SyncPolicy,   \* "SyncEveryRecord", "SyncBatchCommit" or "SyncInterval"
  CrashKinds,   \* what may happen: "process" (SIGKILL, OOM), "power" (host)
  MaxCapacity,  \* quota of uncommitted records
  BufferFrames, \* frames the bufio.Writer holds before Write must flush
  BatchSize,    \* maxCount of ReadBatch
  Callers,      \* Enqueue calls between the ID counter and Append at once
  MaxAttempts,  \* bound: Enqueue calls in a behaviour
  MaxRestarts,  \* bound: crashes and clean closes in a behaviour
  MaxFaults     \* bound: failing I/O calls in a behaviour

ASSUME WalStorageAssumption ==
  /\ SyncPolicy \in {"SyncEveryRecord", "SyncBatchCommit", "SyncInterval"}
  /\ CrashKinds \subseteq {"process", "power"}
  /\ MaxCapacity \in Nat \ {0}
  /\ BufferFrames \in Nat \ {0}
  /\ BatchSize \in Nat \ {0}
  /\ Callers \in Nat \ {0}
  /\ MaxAttempts \in Nat
  /\ MaxRestarts \in Nat
  /\ MaxFaults \in Nat

VARIABLES
  wal,        \* frames in write order
  flushed,    \* frames of wal that are in active.wal
  synced,     \* frames of wal that an fsync has put on the medium
  meta,       \* the number in checkpoint.meta (replaced atomically, fsynced)
  mode,       \* "open", "closing", "closed" or "down"
  checkpoint, \* f.checkpoint
  writer,     \* bufio.Writer: "ready", or "failed" with its sticky error
  maxID,      \* f.maxID
  idCounter,  \* Engine.idCounter
  reserved,   \* frames whose ID is taken and whose Append has not run
  hand,       \* what the dispatcher holds between ReadBatch and Commit
  attempts,   \* history: Enqueue calls so far; numbers the frames
  acked,      \* history: frames whose Append returned success
  seen,       \* history: frames the sink accepted or rejected for good
  restarts,    \* bound counter
  faults      \* bound counter

disk    == <<wal, flushed, synced, meta>>
memory  == <<mode, checkpoint, writer, maxID>>
callers == <<idCounter, reserved, attempts, acked>>
vars    == <<disk, memory, callers, hand, seen, restarts, faults>>

(***************************************************************************)
(* A frame: the attempt it belongs to, the ID in its header, and whether   *)
(* its CRC still matches its body.                                         *)
(***************************************************************************)
Frame == [tkt : Nat, id : Nat, body : {"intact", "damaged"}]

Intact(f) == f.body = "intact"

Idle == [phase |-> "idle", upto |-> 0, frames |-> <<>>]

Min2(a, b) == IF a < b THEN a ELSE b
Total      == Len(wal)
Buffered   == Total > flushed
First(n)   == SubSeq(wal, 1, n)

\* A failing system call, within the bound of the model.
IOError == faults < MaxFaults /\ faults' = faults + 1

\* The IDs recoverSegment reads from the headers; 0 stands for an empty log.
HeaderIDs == {wal[i].id : i \in DOMAIN wal} \union {0}

\* Mutant: the ID of the last frame, as if frames were in ID order.
ResumesAtLast(id) == id = IF wal = <<>> THEN 0 ELSE wal[Total].id

\* The ID counter resumes at the highest ID found.
ResumesAt(id) == id \in HeaderIDs /\ \A other \in HeaderIDs : other <= id

Init ==
  /\ wal = <<>> /\ flushed = 0 /\ synced = 0 /\ meta = 0
  /\ mode = "open" /\ checkpoint = 0 /\ writer = "ready" /\ maxID = 0
  /\ idCounter = 0 /\ reserved = {} /\ attempts = 0 /\ acked = {}
  /\ hand = Idle /\ seen = {} /\ restarts = 0 /\ faults = 0

-----------------------------------------------------------------------------
(* Callers of Append *)

\* Enqueue takes the record's ID from the shared counter before it reaches
\* the storage mutex: callers may append in another order than their IDs.
TakeID ==
  /\ mode = "open"
  /\ attempts < MaxAttempts
  /\ Cardinality(reserved) < Callers
  /\ attempts' = attempts + 1
  /\ idCounter' = idCounter + 1
  /\ reserved' = reserved \union
                   {[tkt |-> attempts', id |-> idCounter', body |-> "intact"]}
  /\ UNCHANGED <<disk, memory, acked, hand, seen, restarts, faults>>

Uncommitted == Total - checkpoint

\* Append refuses at the quota (ErrSpoolFull) or after Close.  The ID is lost.
AppendRefused(r) ==
  /\ r \in reserved
  /\ mode = "closing" \/ mode = "closed" \/ (mode = "open" /\ Uncommitted >= MaxCapacity)
  /\ reserved' = reserved \ {r}
  /\ UNCHANGED <<disk, memory, idCounter, attempts, acked, hand, seen, restarts, faults>>

\* The conditions under which Append reaches the writer.
Admitted(r) == r \in reserved /\ mode = "open" /\ Uncommitted < MaxCapacity

\* Mutant: the fsync of SyncEveryRecord is left out.
WriteFrameUnsynced(r) ==
  /\ wal' = Append(wal, r) /\ flushed' = Total + 1 /\ UNCHANGED synced

\* The frame is written to the buffer, which spills first when it is full,
\* and under SyncEveryRecord flushed and fsynced before the call returns.
WriteFrame(r) ==
  /\ wal' = Append(wal, r)
  /\ IF SyncPolicy = "SyncEveryRecord"
     THEN flushed' = Total + 1 /\ synced' = Total + 1
     ELSE /\ flushed' = IF Total - flushed < BufferFrames THEN flushed ELSE Total
          /\ UNCHANGED synced

AppendAcked(r) ==
  /\ Admitted(r)
  /\ writer = "ready"
  /\ WriteFrame(r)
  /\ maxID' = IF r.id > maxID THEN r.id ELSE maxID
  /\ reserved' = reserved \ {r}
  /\ acked' = acked \union {r.tkt}
  /\ UNCHANGED <<meta, mode, checkpoint, writer, idCounter, attempts, hand, seen,
                 restarts, faults>>

\* Mutant: the whole unsynced tail goes, not only what never reached the file.
RollbackToSynced(target) ==
  wal' = First(synced) /\ flushed' = synced /\ writer' = "ready"

\* Mutant: the cut is one frame too low.
RollbackOneTooFar(target) ==
  /\ target > 0
  /\ wal' = First(target - 1) /\ flushed' = target - 1 /\ writer' = "ready"

\* rollbackTo(pos) with pos = Total: cut active.wal and the index at what is
\* physically in the file, forget the buffer and its error.
RollbackTo(target) ==
  /\ wal' = First(target)
  /\ flushed' = target
  /\ writer' = "ready"

\* Write, flush or fsync fails.  A sticky error fails the Write at once; a
\* fresh error may leave some buffered frames in the file.
AppendFailed(r) ==
  /\ Admitted(r)
  /\ \/ writer = "failed" /\ RollbackTo(flushed) /\ UNCHANGED faults
     \/ /\ writer = "ready"
        /\ SyncPolicy = "SyncEveryRecord" \/ Total - flushed >= BufferFrames
        /\ IOError
        /\ \E target \in flushed .. Total : RollbackTo(target)
  /\ reserved' = reserved \ {r}
  /\ UNCHANGED <<synced, meta, mode, checkpoint, maxID, idCounter, attempts, acked,
                 hand, seen, restarts>>

-----------------------------------------------------------------------------
(* bufio.Writer.Flush, shared by ReadBatch, Flush, Commit and Close *)

\* Mutant: the flush in front of a read is left out.
FlushWriterSkipped == UNCHANGED <<flushed, writer>>

FlushWriter == ~(Buffered /\ writer = "failed") /\ flushed' = Total /\ UNCHANGED writer

\* Only a prefix of the buffer reaches the file, and the error is kept: every
\* later flush fails without trying until rollbackTo resets the writer.
FlushWriterFails ==
  /\ Buffered
  /\ \/ writer = "failed" /\ UNCHANGED <<flushed, writer, faults>>
     \/ /\ writer = "ready"
        /\ IOError
        /\ flushed' \in flushed .. Total
        /\ writer' = "failed"

-----------------------------------------------------------------------------
(* The dispatcher *)

\* Mutant: the newest pending frame is never part of a batch.
BatchEndShort(upto) ==
  /\ upto \in checkpoint + 1 .. Min2(checkpoint + BatchSize, Total - 1)
  /\ \A i \in checkpoint + 1 .. upto : Intact(wal[i])

\* The last frame of the batch: at most BatchSize frames, cut before a frame
\* whose CRC does not match.
BatchEnd(upto) ==
  LET limit == Min2(checkpoint + BatchSize, Total)
  IN  /\ upto \in checkpoint + 1 .. limit
      /\ \A i \in checkpoint + 1 .. upto : Intact(wal[i])
      /\ upto < limit => ~Intact(wal[upto + 1])

\* ReadBatch flushes the buffer, then copies the frames behind the
\* checkpoint; a corrupt first frame is reported alone.
ReadBatch ==
  /\ mode = "open"
  /\ hand = Idle
  /\ FlushWriter
  /\ checkpoint < Total
  /\ IF Intact(wal[checkpoint + 1])
     THEN \E upto \in checkpoint + 1 .. Total :
            /\ BatchEnd(upto)
            /\ hand' = [phase |-> "deliver", upto |-> upto,
                        frames |-> SubSeq(wal, checkpoint + 1, upto)]
     ELSE hand' = [phase |-> "commit", upto |-> checkpoint + 1, frames |-> <<>>]
  /\ UNCHANGED <<wal, synced, meta, mode, checkpoint, maxID, callers, seen, restarts,
                 faults>>

\* Nothing pending, or an I/O error after or during the flush.
ReadNothing ==
  /\ mode = "open"
  /\ hand = Idle
  /\ \/ FlushWriter /\ checkpoint >= Total /\ UNCHANGED faults
     \/ FlushWriter /\ checkpoint < Total /\ IOError
     \/ FlushWriterFails
  /\ UNCHANGED <<wal, synced, meta, mode, checkpoint, maxID, callers, hand, seen,
                 restarts>>

\* Deliver returns nil or ErrPermanentRejection: the batch is to be committed.
SinkSettles ==
  /\ hand.phase = "deliver"
  /\ seen' = seen \union {hand.frames[i] : i \in DOMAIN hand.frames}
  /\ hand' = [hand EXCEPT !.phase = "commit"]
  /\ UNCHANGED <<disk, memory, callers, restarts, faults>>

\* Any other error, or the 10 s timeout: nothing is committed.
SinkFails ==
  /\ hand.phase = "deliver"
  /\ hand' = Idle
  /\ UNCHANGED <<disk, memory, callers, seen, restarts, faults>>

\* Mutant: flushed to the page cache but not fsynced.
CommitSyncFlushOnly == FlushWriter /\ UNCHANGED synced

\* Under SyncBatchCommit the log is on the medium before the checkpoint is.
CommitSync ==
  IF SyncPolicy = "SyncBatchCommit"
  THEN FlushWriter /\ synced' = Total
  ELSE UNCHANGED <<flushed, synced, writer>>

\* The checkpoint advances: checkpoint.tmp is written, fsynced and renamed.
Commit ==
  /\ hand.phase = "commit"
  /\ mode = "open"
  /\ hand.upto > checkpoint
  /\ CommitSync
  /\ meta' = hand.upto
  /\ checkpoint' = hand.upto
  /\ hand' = Idle
  /\ UNCHANGED <<wal, mode, maxID, callers, seen, restarts, faults>>

\* Commit returns without moving the checkpoint: closed, already past the
\* offset, or an I/O error at one of its steps.
CommitNothing ==
  /\ hand.phase = "commit"
  /\ \/ mode # "open" /\ UNCHANGED <<flushed, synced, writer, faults>>
     \/ mode = "open" /\ hand.upto <= checkpoint
        /\ UNCHANGED <<flushed, synced, writer, faults>>
     \/ /\ mode = "open" /\ hand.upto > checkpoint
        /\ IF SyncPolicy = "SyncBatchCommit"
           THEN \/ FlushWriterFails /\ UNCHANGED synced
                \/ FlushWriter /\ synced' \in {synced, Total} /\ IOError
           ELSE IOError /\ UNCHANGED <<flushed, synced, writer>>
  /\ hand' = Idle
  /\ UNCHANGED <<wal, meta, mode, checkpoint, maxID, callers, seen, restarts>>

-----------------------------------------------------------------------------
(* Flush, Close, restarts and restart *)

\* Flush: called by the periodic flusher every SyncInterval, or by a user.
Flush ==
  /\ mode = "open"
  /\ \/ FlushWriter /\ synced' = Total /\ UNCHANGED faults
     \/ FlushWriter /\ UNCHANGED synced /\ IOError
     \/ FlushWriterFails /\ UNCHANGED synced
  /\ UNCHANGED <<wal, meta, mode, checkpoint, maxID, callers, hand, seen, restarts>>

\* Close, first critical section: later calls get ErrStorageUnavailable.
CloseBegin ==
  /\ mode = "open" /\ restarts < MaxRestarts
  /\ mode' = "closing"
  /\ restarts' = restarts + 1
  /\ UNCHANGED <<disk, checkpoint, writer, maxID, callers, hand, seen, faults>>

\* Close, second critical section: flush, fsync, close.  What the writer
\* still holds after a failed flush goes away with it.
CloseEnd ==
  /\ mode = "closing"
  /\ \/ FlushWriter /\ synced' = Total /\ UNCHANGED <<wal, faults>>
     \/ FlushWriter /\ UNCHANGED <<wal, synced>> /\ IOError
     \/ /\ FlushWriterFails
        /\ wal' = First(flushed')
        /\ synced' \in {synced, flushed'}
  /\ mode' = "closed"
  /\ UNCHANGED <<meta, checkpoint, maxID, callers, hand, seen, restarts>>

\* Frames that an Append interrupted before its return may have written.
InFlight ==
  IF mode = "open" /\ Uncommitted < MaxCapacity
  THEN {<<>>} \union {<<r>> : r \in reserved}
  ELSE {<<>>}

\* The longest log the file can hold when the process dies now.
Reach(inflight) ==
  IF writer = "failed" \/ mode \in {"closed", "down"} THEN flushed ELSE Total + Len(inflight)

ProcessDies ==
  /\ mode' = "down"
  /\ checkpoint' = 0 /\ writer' = "ready" /\ maxID' = 0
  /\ idCounter' = 0 /\ reserved' = {} /\ hand' = Idle
  /\ restarts' = restarts + 1
  /\ UNCHANGED <<meta, attempts, acked, seen, faults>>

\* The process is killed: the page cache survives, the buffer does not.
ProcessCrash ==
  /\ "process" \in CrashKinds /\ restarts < MaxRestarts
  /\ mode \in {"open", "closing"}
  /\ \E inflight \in InFlight :
       \E n \in flushed .. Reach(inflight) :
         wal' = SubSeq(wal \o inflight, 1, n) /\ flushed' = n
  /\ UNCHANGED synced
  /\ ProcessDies

\* What is left of frame i of log s.
Spoil(s, damaged, i) ==
  IF i \in damaged THEN [s[i] EXCEPT !.body = "damaged"] ELSE s[i]

\* The host loses power: beyond what was fsynced any prefix survives, and
\* bodies in it may be damaged.
PowerLoss ==
  /\ "power" \in CrashKinds /\ restarts < MaxRestarts
  /\ \E inflight \in InFlight :
       \E n \in synced .. Reach(inflight) :
         \E damaged \in SUBSET (synced + 1 .. n) :
           /\ wal' = [i \in 1 .. n |-> Spoil(wal \o inflight, damaged, i)]
           /\ flushed' = n /\ synced' = n
  /\ ProcessDies

\* NewFileStorageEngine and New: rebuild the index from the headers, clamp the
\* checkpoint in memory, resume the ID counter at the highest ID found.
Recover ==
  /\ mode \in {"closed", "down"}
  /\ mode' = "open"
  /\ checkpoint' = Min2(meta, Total)
  /\ writer' = "ready"
  /\ \E id \in HeaderIDs : ResumesAt(id) /\ maxID' = id /\ idCounter' = id
  /\ reserved' = {}
  /\ hand' = Idle
  /\ UNCHANGED <<disk, attempts, acked, seen, restarts, faults>>

Next ==
  \/ TakeID
  \/ \E r \in reserved : AppendRefused(r) \/ AppendAcked(r) \/ AppendFailed(r)
  \/ ReadBatch \/ ReadNothing \/ SinkSettles \/ SinkFails
  \/ Commit \/ CommitNothing
  \/ Flush \/ CloseBegin \/ CloseEnd
  \/ ProcessCrash \/ PowerLoss \/ Recover

Spec == Init /\ [][Next]_vars

(***************************************************************************)
(* The dispatcher goroutine never stops while the engine is open, Close    *)
(* runs to its end, a supervisor restarts the process, and a sink that is  *)
(* offered batches for ever settles one.                                   *)
(***************************************************************************)
FairSpec ==
  /\ Spec
  /\ WF_vars(ReadBatch) /\ WF_vars(Commit) /\ WF_vars(CloseEnd) /\ WF_vars(Recover)
  /\ WF_vars(hand.phase = "deliver" /\ (SinkSettles \/ SinkFails))
  /\ SF_vars(SinkSettles)
-----------------------------------------------------------------------------
(* Properties *)

\* The checkpoint a reader of the log goes by: in memory while the engine is
\* open, otherwise the one the next start will read.
Behind == Min2(IF mode = "open" THEN checkpoint ELSE meta, Total)

\* A frame that needs no delivery any more: taken by the sink, or unreadable.
Settled(f) == f \in seen \/ ~Intact(f)

\* Every variable keeps its type, the three marks of the log their order.
TypeOK ==
  /\ wal \in Seq(Frame)
  /\ synced \in 0 .. flushed /\ flushed \in 0 .. Total /\ meta \in Nat
  /\ mode \in {"open", "closing", "closed", "down"}
  /\ checkpoint \in Nat /\ writer \in {"ready", "failed"} /\ maxID \in Nat
  /\ idCounter \in Nat /\ reserved \in SUBSET Frame
  /\ hand \in [phase : {"idle", "deliver", "commit"}, upto : Nat, frames : Seq(Frame)]
  /\ attempts \in Nat /\ acked \in SUBSET Nat /\ seen \in SUBSET Frame
  /\ restarts \in Nat /\ faults \in Nat

\* No record is ever behind the checkpoint without having been taken by the
\* sink (or being corrupt): neither a Commit nor a restart skips one.
NothingSkipped == \A i \in 1 .. Behind : Settled(wal[i])

\* A record whose Append succeeded was taken by the sink or is still pending
\* and readable, whatever failed or crashed since (SyncEveryRecord).
AckedNotLost ==
  \A t \in acked :
    \/ \E f \in seen : f.tkt = t
    \/ \E i \in Behind + 1 .. Total : wal[i].tkt = t /\ Intact(wal[i])

\* The sink is never given one ID for two different records, across restarts
\* that resume the counter from the log and callers that append out of order.
UniqueIds == \A f, g \in seen : f.id = g.id => f = g

\* An acknowledged record that reached the medium is not behind the
\* checkpoint before the sink has taken it.
AckedNotSkipped ==
  \A i \in 1 .. Min2(Behind, synced) : wal[i].tkt \in acked => Settled(wal[i])

\* What the dispatcher holds, read under an earlier hold of the mutex, is
\* still what the log has there and in the file: no rollback of a failing
\* Append cuts below a batch being delivered.
HandIsCurrent ==
  hand.phase # "idle" =>
    LET from == hand.upto - Len(hand.frames)
    IN  /\ hand.upto \in 1 .. flushed
        /\ hand.frames = SubSeq(wal, from + 1, hand.upto)
        /\ hand.frames = <<>> => ~Intact(wal[hand.upto])

\* The frames a crash leaves: the fsynced ones, or all that are in the file
\* when only processes die.
Surviving == IF "power" \in CrashKinds THEN synced ELSE flushed

\* The settings under which a checkpoint cannot outlive the frames in front
\* of it.  SyncEveryRecord is not enough if the process alone may die: the
\* frame of an interrupted Append is recovered, delivered and committed
\* without ever being fsynced.
SafeSetup ==
  \/ "power" \notin CrashKinds
  \/ SyncPolicy = "SyncBatchCommit"
  \/ SyncPolicy = "SyncEveryRecord" /\ "process" \notin CrashKinds

\* A batch in hand starts at the checkpoint, lies in the file, and once it is
\* to be committed every frame of it is settled.
HandInv ==
  hand.phase # "idle" =>
    /\ hand.upto \in checkpoint + 1 .. flushed
    /\ IF hand.frames = <<>>
       THEN hand.phase = "commit" /\ hand.upto = checkpoint + 1 /\ ~Intact(wal[hand.upto])
       ELSE hand.frames = SubSeq(wal, checkpoint + 1, hand.upto)
    /\ hand.phase = "commit" =>
         \A i \in checkpoint + 1 .. hand.upto : Settled(wal[i])

\* The inductive invariant behind NothingSkipped, HandIsCurrent and
\* MetaNeverRegresses: the checkpoint on disk never counts a frame that a
\* crash could take, so that Recover's clamp never changes it.
IndInv ==
  /\ TypeOK
  /\ meta <= Surviving
  /\ mode # "down" => checkpoint = meta
  /\ mode \in {"closed", "down"} => flushed = Total
  /\ SyncPolicy = "SyncEveryRecord" /\ "process" \notin CrashKinds => synced = Total
  /\ \A i \in 1 .. meta : Settled(wal[i])
  /\ HandInv

\* checkpoint.meta is never replaced by a smaller number: what was settled
\* before a crash stays settled.
MetaNeverRegresses == [][meta' >= meta]_vars

\* No step, crash or rollback changes a frame that is on the medium.
DurablePrefixKept ==
  [][Len(wal') >= synced /\ \A i \in 1 .. synced : wal'[i] = wal[i]]_vars

\* A record that is on the medium is delivered in the end, over any crashes
\* and failures, unless the writer is stuck on an error it will not retry.
DurableDelivered ==
  \A t \in 1 .. MaxAttempts :
    (\E i \in 1 .. synced : wal[i].tkt = t /\ Intact(wal[i]))
      ~> (writer = "failed" \/ \E f \in seen : f.tkt = t)
=============================================================================
