---------------------------- MODULE WalSegments ----------------------------
(***************************************************************************)
(* The segmented write-ahead log: FileStorageEngine with MaxSegmentSize    *)
(* positive (storage_file.go), down to the bytes of its files.  WalStorage *)
(* treats the log as one sequence of whole frames; here a frame may be cut *)
(* in the middle by a full buffer, a short write or a crash, the log is    *)
(* spread over files that are rotated and removed, and a start rebuilds    *)
(* the index by parsing what it finds in the directory.                    *)
(*                                                                         *)
(* A byte says which frame it belongs to and which part of it it is: part  *)
(* 1 is the header, from which recoverSegment learns the declared length,  *)
(* and the CRC matches exactly when the parts that follow are all its own. *)
(* A frame is the ticket of the call that wrote it.  f.writePos is the     *)
(* length of the active file plus that of the buffer.  Every handler holds *)
(* f.mu throughout, so each is one step.                                   *)
(***************************************************************************)
EXTENDS Integers, Sequences, FiniteSetsExt

CONSTANTS
  SyncPolicy,     \* "SyncEveryRecord", "SyncBatchCommit" or "SyncInterval"
  CrashKinds,     \* what may happen: "process" (SIGKILL, OOM), "power" (host)
  Sizes,          \* lengths of frames, header included
  MaxSegmentSize, \* a segment that would grow past it is closed first
  BufferSize,     \* capacity of the bufio.Writer
  MaxRecoverable, \* maxRecoverableRecordSize
  MaxCapacity,    \* quota of uncommitted records
  BatchSize,      \* maxCount of ReadBatch
  MaxAttempts,    \* bound: frames written in a behaviour
  MaxRestarts,    \* bound: crashes and clean closes in a behaviour
  MaxFaults,      \* bound: failing I/O calls in a behaviour
  MaxStrays       \* bound: segments at a time that could not be removed

ASSUME WalSegmentsAssumption ==
  /\ SyncPolicy \in {"SyncEveryRecord", "SyncBatchCommit", "SyncInterval"}
  /\ CrashKinds \subseteq {"process", "power"}
  /\ Sizes \subseteq Nat \ {0}
  /\ {MaxSegmentSize, BufferSize, MaxRecoverable, MaxCapacity, BatchSize} \subseteq Nat \ {0}
  /\ {MaxAttempts, MaxRestarts, MaxFaults, MaxStrays} \subseteq Nat

VARIABLES
  files,      \* the directory: base offset of a segment -> its bytes
  synced,     \* of each segment, how many bytes are on the medium
  meta,       \* the number in checkpoint.meta
  mode,       \* "open", "closed" or "down"
  buffer,     \* bytes in the bufio.Writer
  writer,     \* "ready", or "failed" with its sticky error
  active,     \* f.activeSegBase
  baseOffset, \* f.baseOffset
  records,    \* f.records, the index
  checkpoint, \* f.checkpoint
  hand,       \* what the dispatcher holds between ReadBatch and Commit
  attempts,   \* history: frames so far; numbers them
  hard,       \* history: frames that were acknowledged and on the medium at once
  seen,       \* history: frames the sink accepted or rejected for good
  cut,        \* history: a rollback has cut a segment inside a frame
  restarts,   \* bound counter
  faults      \* bound counter

disk    == <<files, synced, meta>>
memory  == <<mode, buffer, writer, active, baseOffset, records, checkpoint>>
bounds  == <<restarts, faults>>
vars    == <<disk, memory, hand, attempts, hard, seen, cut, bounds>>

Idle == [phase |-> "idle", upto |-> 0, frames |-> {}]

Min2(a, b) == IF a < b THEN a ELSE b

\* The bytes MarshalBinary makes of a record.
Bytes(tkt, size) == [k \in 1 .. size |-> [tkt |-> tkt, size |-> size, part |-> k]]

\* UnmarshalBinary accepts what MarshalBinary made, and nothing else.
IsFrame(bytes) == bytes # <<>> /\ bytes = Bytes(bytes[1].tkt, Len(bytes))

End(e)      == e.pos + e.len
Image(e, f) == SubSeq(f[e.seg], e.pos + 1, End(e))

\* A failing system call, within the bound of the model.
IOError == faults < MaxFaults /\ faults' = faults + 1

\* History: frames of the index that are on the medium.  All of them were acknowledged
\* or found by a start.
OnMedium ==
  {files[records[i].seg][records[i].pos + 1].tkt :
     i \in {j \in DOMAIN records : End(records[j]) <= synced[records[j].seg]}}

Harden == hard' = hard \union OnMedium'

Init ==
  /\ files = [b \in {0} |-> <<>>] /\ synced = [b \in {0} |-> 0] /\ meta = 0
  /\ mode = "open" /\ buffer = <<>> /\ writer = "ready"
  /\ active = 0 /\ baseOffset = 0 /\ records = <<>> /\ checkpoint = 0
  /\ hand = Idle /\ attempts = 0 /\ hard = {} /\ seen = {} /\ cut = FALSE
  /\ restarts = 0 /\ faults = 0

-----------------------------------------------------------------------------
(* Reading a directory *)

\* The entries of a segment, by the positions of their frames.
Entries(base, frames) ==
  [i \in DOMAIN frames |-> [off |-> base + i - 1, seg |-> base,
                            pos |-> frames[i].pos, len |-> frames[i].len]]

\* recoverSegment walks from header to header by the declared lengths, without
\* a look at the CRC, and stops at a header that is none, is too large, or
\* declares more bytes than the file has.  What follows is cut off.
Stops(bytes, p) ==
  \/ p > Len(bytes)
  \/ bytes[p].part # 1
  \/ bytes[p].size > MaxRecoverable
  \/ p + bytes[p].size - 1 > Len(bytes)

RecoverSegment(base, bytes) ==
  LET from[p \in 1 .. Len(bytes) + 1] ==
        IF Stops(bytes, p) THEN <<>>
        ELSE <<[pos |-> p - 1, len |-> bytes[p].size]>> \o from[p + bytes[p].size]
  IN  Entries(base, from[1])

ValidEnd(entries) == IF entries = <<>> THEN 0 ELSE End(entries[Len(entries)])

\* The index of a directory: the segments in the order of their base offsets,
\* one after the other.
Index(dir) ==
  LET upto[b \in 0 .. Max(DOMAIN dir)] ==
        (IF b = 0 THEN <<>> ELSE upto[b - 1])
          \o (IF b \in DOMAIN dir THEN RecoverSegment(b, dir[b]) ELSE <<>>)
  IN  upto[Max(DOMAIN dir)]

\* Mutant: a segment counts as committed by its first record.
PrunedByFirst(recs, chk, act) ==
  LET group(s) == {j \in DOMAIN recs : recs[j].seg = s}
      committed(i) == recs[i].seg # act /\ recs[Min(group(recs[i].seg))].off < chk
  IN  Max({0} \union {k \in DOMAIN recs : \A i \in 1 .. k : committed(i)})

\* How many leading entries pruneCommittedSegments drops: whole segments, none
\* of them the active one, whose last record is behind the checkpoint.
Pruned(recs, chk, act) ==
  LET group(s) == {j \in DOMAIN recs : recs[j].seg = s}
      committed(i) == recs[i].seg # act /\ recs[Max(group(recs[i].seg))].off < chk
  IN  Max({0} \union {k \in DOMAIN recs : \A i \in 1 .. k : committed(i)})

Dropped(recs, chk, act) == {recs[i].seg : i \in 1 .. Pruned(recs, chk, act)}

\* The index and the base offset after pruning.
Kept(recs, chk, act) == SubSeq(recs, Pruned(recs, chk, act) + 1, Len(recs))

BaseAfter(base, recs, chk, act) ==
  IF Pruned(recs, chk, act) = 0 THEN base
  ELSE IF Kept(recs, chk, act) = <<>> THEN act ELSE Kept(recs, chk, act)[1].off

\* What a start makes of the directory dir: the checkpoint is clamped to what
\* was found, then committed segments are pruned.
Opened(dir) ==
  LET found == Index(dir)
      act   == Max(DOMAIN dir)
      base  == Min(DOMAIN dir)
      chk   == Min2(meta, base + Len(found))
  IN  [active |-> act, checkpoint |-> chk, dropped |-> Dropped(found, chk, act),
       records |-> Kept(found, chk, act), base |-> BaseAfter(base, found, chk, act)]

\* ReadBatch's startIdx: entries of an index that are behind the checkpoint.
Start(base, chk) == IF chk > base THEN chk - base ELSE 0

\* A directory without the segments in gone.
Without(dir, gone) == [b \in DOMAIN dir \ gone |-> dir[b]]

\* A directory with one more segment.
With(dir, b, content) == [c \in DOMAIN dir \union {b} |-> IF c = b THEN content ELSE dir[c]]

-----------------------------------------------------------------------------
(* Append *)

NextOffset == baseOffset + Len(records)
WritePos   == Len(files[active]) + Len(buffer)

NeedsRotation(n) == WritePos > 0 /\ WritePos + n > MaxSegmentSize

\* The name of the next segment is free.  rotateSegment does not ask: it would
\* reopen the file that has the name and write over it, where this model ends.
FreshName == NextOffset \notin DOMAIN files

\* Append goes on to write when the quota allows one more.
Admitted(n) ==
  /\ mode = "open" /\ n \in Sizes /\ attempts < MaxAttempts
  /\ NextOffset - checkpoint < MaxCapacity
  /\ NeedsRotation(n) => FreshName

\* Mutant: the active segment is closed without flushing the buffer.
RotatedUnflushed ==
  [files  |-> With(files, NextOffset, <<>>),
   synced |-> With([synced EXCEPT ![active] = Len(files[active])], NextOffset, 0),
   active |-> NextOffset, buffer |-> <<>>]

\* rotateSegment: flush, fsync and close the active segment, open the next one
\* under the offset of its first record.
Rotated ==
  [files  |-> With([files EXCEPT ![active] = @ \o buffer], NextOffset, <<>>),
   synced |-> With([synced EXCEPT ![active] = WritePos], NextOffset, 0),
   active |-> NextOffset, buffer |-> <<>>]

\* Where a frame of n bytes goes.
Slot(n) ==
  IF NeedsRotation(n) THEN Rotated
  ELSE [files |-> files, synced |-> synced, active |-> active, buffer |-> buffer]

\* How many bytes bufio.Writer.Write hands to the file when b are in the
\* buffer and n arrive: none, one full buffer, or everything.
Spilled(b, n) ==
  IF b + n <= BufferSize THEN 0
  ELSE IF b = 0 \/ b + n > 2 * BufferSize THEN b + n
  ELSE BufferSize

\* How many bytes of the buffer and of a new frame an Append hands over.
HandedOver(b, n) == IF SyncPolicy = "SyncEveryRecord" THEN b + n ELSE Spilled(b, n)

\* The writer is usable: a rotation makes a new one.
WriterUsable(n) == writer = "ready" \/ (NeedsRotation(n) /\ buffer = <<>>)

AppendAcked(n) ==
  /\ Admitted(n)
  /\ WriterUsable(n)
  /\ LET s    == Slot(n)
         k    == HandedOver(Len(s.buffer), n)
         all  == s.buffer \o Bytes(attempts + 1, n)
         pos  == Len(s.files[s.active]) + Len(s.buffer)
     IN  /\ files' = [s.files EXCEPT ![s.active] = @ \o SubSeq(all, 1, k)]
         /\ buffer' = SubSeq(all, k + 1, Len(all))
         /\ synced' = IF SyncPolicy = "SyncEveryRecord"
                      THEN [s.synced EXCEPT ![s.active] = pos + n] ELSE s.synced
         /\ active' = s.active
         /\ records' = Append(records, [off |-> NextOffset, seg |-> s.active,
                                        pos |-> pos, len |-> n])
  /\ writer' = "ready"
  /\ attempts' = attempts + 1
  /\ UNCHANGED <<meta, mode, baseOffset, checkpoint, hand, seen, cut, bounds>>
  /\ Harden

\* Mutant: the file is cut, the index keeps its entries.
RollbackFileOnly(s, now, pos) ==
  LET target == Min2(pos, Len(now))
  IN  /\ files' = [s.files EXCEPT ![s.active] = SubSeq(now, 1, target)]
      /\ UNCHANGED <<records, cut>>
      /\ synced' = s.synced /\ active' = s.active
      /\ buffer' = <<>> /\ writer' = "ready"

\* Mutant: entries of closed segments are dropped by their positions too.
RollbackAnySegment(s, now, pos) ==
  LET target == Min2(pos, Len(now))
      kept   == SelectSeq(records, LAMBDA e : End(e) <= target)
  IN  /\ files' = [s.files EXCEPT ![s.active] = SubSeq(now, 1, target)]
      /\ records' = kept
      /\ cut' = (cut \/ (target > 0 /\ \A i \in DOMAIN kept :
                                         kept[i].seg # s.active \/ End(kept[i]) # target))
      /\ synced' = s.synced /\ active' = s.active
      /\ buffer' = <<>> /\ writer' = "ready"

\* rollbackTo(pos) when the active file holds the bytes "now": the file is cut
\* at pos or where it ends, the index loses its last entries that reach beyond.
RollbackTo(s, now, pos) ==
  LET target == Min2(pos, Len(now))
      beyond(e) == e.seg = s.active /\ End(e) > target
      kept   == SubSeq(records, 1, Max({0} \union {i \in DOMAIN records : ~beyond(records[i])}))
  IN  /\ files' = [s.files EXCEPT ![s.active] = SubSeq(now, 1, target)]
      /\ records' = kept
      /\ cut' = (cut \/ (target > 0 /\ \A i \in DOMAIN kept :
                                         kept[i].seg # s.active \/ End(kept[i]) # target))
      /\ synced' = s.synced /\ active' = s.active
      /\ buffer' = <<>> /\ writer' = "ready"

\* Write, flush or fsync fails, after a rotation or without: at once when the
\* error is sticky, else after some of the bytes have reached the file.
AppendFailed(n) ==
  /\ Admitted(n)
  /\ LET s   == Slot(n)
         k   == HandedOver(Len(s.buffer), n)
         all == s.buffer \o Bytes(attempts + 1, n)
         pos == Len(s.files[s.active]) + Len(s.buffer)
     IN  \/ /\ writer = "failed" /\ ~NeedsRotation(n)
            /\ RollbackTo(s, files[active], pos)
            /\ UNCHANGED faults
         \/ /\ WriterUsable(n) /\ k > 0
            /\ IOError
            /\ \E j \in 0 .. k :
                 RollbackTo(s, s.files[s.active] \o SubSeq(all, 1, j), pos)
  /\ UNCHANGED <<meta, mode, baseOffset, checkpoint, hand, attempts, seen, restarts>>
  /\ Harden

\* bufio.Writer.Flush fails: some bytes reach the file, the error is kept.
FlushBroken ==
  /\ buffer # <<>> /\ writer = "ready"
  /\ IOError
  /\ \E j \in 0 .. Len(buffer) :
       /\ files' = [files EXCEPT ![active] = @ \o SubSeq(buffer, 1, j)]
       /\ buffer' = SubSeq(buffer, j + 1, Len(buffer))
  /\ writer' = "failed"

\* The buffer is written to the file; a sticky error makes that fail.
FlushBuffer ==
  /\ ~(buffer # <<>> /\ writer = "failed")
  /\ files' = [files EXCEPT ![active] = @ \o buffer]
  /\ buffer' = <<>>
  /\ UNCHANGED writer

\* rotateSegment fails, and nothing is rolled back: at the flush, where an
\* error stays for ever, at the fsync, or at the opening of the next segment,
\* which closes the engine.
RotationFailed(n) ==
  /\ Admitted(n) /\ NeedsRotation(n)
  /\ \/ buffer # <<>> /\ writer = "failed"
        /\ UNCHANGED <<files, buffer, writer, synced, mode, active, faults>>
     \/ FlushBroken /\ UNCHANGED <<synced, mode, active>>
     \/ FlushBuffer /\ IOError /\ UNCHANGED <<synced, mode, active>>
     \/ /\ FlushBuffer /\ IOError
        /\ synced' = [synced EXCEPT ![active] = WritePos]
        /\ mode' = "closed"
        /\ UNCHANGED active
  /\ UNCHANGED <<meta, baseOffset, records, checkpoint, hand, attempts, seen, cut, restarts>>
  /\ Harden

-----------------------------------------------------------------------------
(* The dispatcher *)

\* ReadBatch flushes, then reads from the checkpoint on: up to BatchSize
\* records, fewer in front of a corrupt one, which is reported alone.
ReadBatch ==
  /\ mode = "open" /\ hand = Idle
  /\ FlushBuffer
  /\ LET from    == Start(baseOffset, checkpoint) + 1
         to      == Min2(from + BatchSize - 1, Len(records))
         good(i) == IsFrame(Image(records[i], files'))
         upto    == Max({from} \union {i \in from .. to : \A j \in from .. i : good(j)})
     IN  /\ from <= Len(records)
         /\ hand' = [phase  |-> IF good(from) THEN "deliver" ELSE "commit",
                     upto   |-> records[upto].off + 1,
                     frames |-> {Image(records[i], files')[1].tkt : i \in {j \in from .. upto : good(j)}}]
  /\ UNCHANGED <<synced, meta, mode, active, baseOffset, records, checkpoint, attempts,
                 seen, cut, bounds>>
  /\ Harden

\* Deliver returns nil or ErrPermanentRejection.
SinkSettles ==
  /\ hand.phase = "deliver"
  /\ seen' = seen \union hand.frames
  /\ hand' = [hand EXCEPT !.phase = "commit"]
  /\ UNCHANGED <<disk, memory, attempts, hard, cut, bounds>>

\* Any other error: nothing is committed.
SinkFails ==
  /\ hand.phase = "deliver"
  /\ hand' = Idle
  /\ UNCHANGED <<disk, memory, attempts, hard, seen, cut, bounds>>

\* Mutant: the log is not fsynced before the checkpoint is.
LoggedUnsynced ==
  IF SyncPolicy = "SyncBatchCommit"
  THEN [files |-> [files EXCEPT ![active] = @ \o buffer], synced |-> synced, buffer |-> <<>>]
  ELSE [files |-> files, synced |-> synced, buffer |-> buffer]

\* The log when the checkpoint is written: under SyncBatchCommit it has been
\* flushed and fsynced.
Logged ==
  IF SyncPolicy = "SyncBatchCommit"
  THEN [files |-> [files EXCEPT ![active] = @ \o buffer],
        synced |-> [synced EXCEPT ![active] = WritePos], buffer |-> <<>>]
  ELSE [files |-> files, synced |-> synced, buffer |-> buffer]

\* Commit gets as far as replacing the checkpoint.
Committing ==
  /\ hand.phase = "commit" /\ mode = "open" /\ hand.upto > checkpoint
  /\ SyncPolicy = "SyncBatchCommit" => ~(buffer # <<>> /\ writer = "failed")

\* Segments that could not be removed: they lie below the base offset.
StraySegments == {b \in DOMAIN files : b < baseOffset}

\* The checkpoint is replaced, then committed segments are removed one by one.
\* One that cannot be removed stays in the directory, unknown to the index.
Commit ==
  /\ Committing
  /\ meta' = hand.upto
  /\ checkpoint' = hand.upto
  /\ records' = Kept(records, hand.upto, active)
  /\ baseOffset' = BaseAfter(baseOffset, records, hand.upto, active)
  /\ LET dropped == Dropped(records, hand.upto, active)
     IN  \E gone \in SUBSET dropped :
           /\ \/ gone = dropped /\ UNCHANGED faults
              \/ /\ \E b \in dropped : gone = dropped \ {b}
                 /\ Cardinality(StraySegments) < MaxStrays
                 /\ IOError
           /\ files' = Without(Logged.files, gone)
           /\ synced' = Without(Logged.synced, gone)
  /\ buffer' = Logged.buffer
  /\ hand' = Idle
  /\ UNCHANGED <<mode, writer, active, attempts, seen, cut, restarts>>
  /\ Harden

\* Commit returns without moving the checkpoint: closed, already past the
\* offset, or an I/O error at one of its steps.
CommitNothing ==
  /\ hand.phase = "commit"
  /\ \/ /\ mode # "open" \/ hand.upto <= checkpoint
        /\ UNCHANGED <<files, synced, buffer, writer, faults>>
     \/ /\ Committing
        /\ IOError
        /\ files' = Logged.files /\ synced' = Logged.synced /\ buffer' = Logged.buffer
        /\ UNCHANGED writer
     \/ /\ mode = "open" /\ hand.upto > checkpoint /\ SyncPolicy = "SyncBatchCommit"
        /\ \/ FlushBroken
           \/ FlushBuffer /\ IOError
           \/ buffer # <<>> /\ writer = "failed" /\ UNCHANGED <<files, buffer, writer, faults>>
        /\ UNCHANGED synced
  /\ hand' = Idle
  /\ UNCHANGED <<meta, mode, active, baseOffset, records, checkpoint, attempts, seen,
                 cut, restarts>>
  /\ Harden

-----------------------------------------------------------------------------
(* Flush, Close, crashes and restart *)

\* Flush, or the flush in front of a read that finds nothing or fails.
Flush ==
  /\ mode = "open"
  /\ \/ FlushBuffer /\ synced' = [synced EXCEPT ![active] = WritePos] /\ UNCHANGED faults
     \/ FlushBuffer /\ UNCHANGED synced /\ IOError
     \/ FlushBroken /\ UNCHANGED synced
  /\ UNCHANGED <<meta, mode, active, baseOffset, records, checkpoint, hand, attempts,
                 seen, cut, restarts>>
  /\ Harden

\* The process is gone, with all it had in memory.
Gone ==
  /\ buffer' = <<>> /\ writer' = "ready" /\ records' = <<>>
  /\ baseOffset' = 0 /\ checkpoint' = 0 /\ hand' = Idle
  /\ UNCHANGED <<active, seen, cut>>

\* Close flushes and fsyncs; what a failed flush leaves in the buffer is lost.
Close ==
  /\ mode = "open" /\ restarts < MaxRestarts
  /\ restarts' = restarts + 1
  /\ \/ /\ ~(buffer # <<>> /\ writer = "failed")
        /\ files' = [files EXCEPT ![active] = @ \o buffer]
        /\ \/ synced' = [synced EXCEPT ![active] = WritePos] /\ UNCHANGED faults
           \/ UNCHANGED synced /\ IOError
     \/ /\ buffer # <<>> /\ writer = "failed"
        /\ UNCHANGED <<files, synced, faults>>
  /\ mode' = "closed"
  /\ Gone
  /\ UNCHANGED <<meta, attempts>>
  /\ Harden

\* What the process may have been writing when it dies: its buffer, and the
\* frame of an Append that has not returned.
InFlight ==
  IF mode # "open" \/ writer = "failed" THEN {<<>>}
  ELSE {buffer} \union
       {buffer \o Bytes(attempts + 1, n) : n \in {m \in Sizes : Admitted(m) /\ ~NeedsRotation(m)}}

\* The process is killed: what is in the files survives, with any part of what
\* was on its way; a rotation may just have made an empty segment.
ProcessCrash ==
  /\ "process" \in CrashKinds /\ restarts < MaxRestarts
  /\ mode = "open"
  /\ restarts' = restarts + 1
  /\ \/ /\ \E inflight \in InFlight : \E j \in 0 .. Len(inflight) :
             /\ files' = [files EXCEPT ![active] = @ \o SubSeq(inflight, 1, j)]
             /\ attempts' = IF Len(inflight) > Len(buffer) THEN attempts + 1 ELSE attempts
        /\ UNCHANGED synced
     \/ /\ \E n \in Sizes : Admitted(n) /\ NeedsRotation(n)
        /\ writer = "ready" \/ buffer = <<>>
        /\ files' = Rotated.files /\ synced' = Rotated.synced
        /\ UNCHANGED attempts
  /\ mode' = "down"
  /\ Gone
  /\ UNCHANGED <<meta, faults>>
  /\ Harden

\* The process is killed while Commit removes segments, lowest first.
CommitInterrupted ==
  /\ "process" \in CrashKinds /\ restarts < MaxRestarts
  /\ Committing
  /\ restarts' = restarts + 1
  /\ meta' = hand.upto
  /\ LET dropped == Dropped(records, hand.upto, active)
     IN  \E gone \in SUBSET dropped :
           /\ gone # dropped
           /\ \A b \in gone, c \in dropped \ gone : b < c
           /\ files' = Without(Logged.files, gone)
           /\ synced' = Without(Logged.synced, gone)
  /\ mode' = "down"
  /\ Gone
  /\ UNCHANGED <<attempts, faults>>
  /\ Harden

\* The host loses power: any prefix of the active segment that contains what
\* was fsynced survives.
PowerLoss ==
  /\ "power" \in CrashKinds /\ restarts < MaxRestarts
  /\ restarts' = restarts + 1
  /\ \E n \in synced[active] .. Len(files[active]) :
       /\ files' = [files EXCEPT ![active] = SubSeq(@, 1, n)]
       /\ synced' = [synced EXCEPT ![active] = n]
  /\ mode' = "down"
  /\ Gone
  /\ UNCHANGED <<meta, attempts, faults>>
  /\ Harden

\* NewFileStorageEngine: parse every segment, cut what follows its last frame,
\* rebuild the index, clamp the checkpoint, prune.
Recover ==
  /\ mode \in {"closed", "down"}
  /\ LET start == Opened(files)
         valid(b) == ValidEnd(RecoverSegment(b, files[b]))
     IN  /\ files' = Without([b \in DOMAIN files |-> SubSeq(files[b], 1, valid(b))], start.dropped)
         /\ synced' = Without([b \in DOMAIN files |-> Min2(synced[b], valid(b))], start.dropped)
         /\ active' = start.active
         /\ baseOffset' = start.base
         /\ records' = start.records
         /\ checkpoint' = start.checkpoint
  /\ mode' = "open" /\ buffer' = <<>> /\ writer' = "ready" /\ hand' = Idle
  /\ UNCHANGED <<meta, attempts, seen, cut, bounds>>
  /\ Harden

Next ==
  \/ \E n \in Sizes : AppendAcked(n) \/ AppendFailed(n) \/ RotationFailed(n)
  \/ ReadBatch \/ SinkSettles \/ SinkFails
  \/ Commit \/ CommitNothing \/ CommitInterrupted
  \/ Flush \/ Close \/ ProcessCrash \/ PowerLoss \/ Recover

Spec == Init /\ [][Next]_vars
-----------------------------------------------------------------------------
(* Properties *)

\* The bytes of segment b that a reader of the log finds, flushing first.
Content(b) == files[b] \o (IF b = active THEN buffer ELSE <<>>)

\* The log as the dispatcher sees it while the engine is open, otherwise as
\* the next start will: the index and how much of it is behind the checkpoint.
View ==
  IF mode = "open"
  THEN [records |-> records, start |-> Start(baseOffset, checkpoint)]
  ELSE LET o == Opened(files) IN [records |-> o.records, start |-> Start(o.base, o.checkpoint)]

FrameOf(e) == SubSeq(Content(e.seg), e.pos + 1, End(e))

\* The frame of an entry needs no delivery: taken by the sink, or unreadable.
Settled(e) == IsFrame(FrameOf(e)) => FrameOf(e)[1].tkt \in seen

\* Every variable keeps its type, and every entry of the index lies inside the
\* bytes of a segment that exists.
TypeOK ==
  /\ DOMAIN files \subseteq Nat /\ DOMAIN synced = DOMAIN files /\ active \in DOMAIN files
  /\ \A b \in DOMAIN files : synced[b] \in 0 .. Len(files[b])
  /\ mode \in {"open", "closed", "down"} /\ writer \in {"ready", "failed"}
  /\ Len(buffer) <= BufferSize
  /\ \A i \in DOMAIN records :
       /\ records[i] \in [off : Nat, seg : DOMAIN files, pos : Nat, len : Sizes]
       /\ End(records[i]) <= Len(Content(records[i].seg))
  /\ {meta, checkpoint, baseOffset, attempts, restarts, faults} \subseteq Nat
  /\ hand.phase \in {"idle", "deliver", "commit"}
  /\ hard \subseteq 1 .. MaxAttempts /\ seen \subseteq 1 .. MaxAttempts /\ cut \in BOOLEAN

\* The segments from the base offset on, as Close would leave them.
Live == [b \in {c \in DOMAIN files : baseOffset <= c} |-> Content(b)]

\* A clean restart would find in these the very index the engine works with,
\* offsets included: rotation, rollback, pruning and recovery agree on where
\* every frame is, and no rotation opens a segment that exists.
RestartFindsIndex ==
  mode = "open" /\ ~cut =>
    /\ Index(Live) = records
    /\ WritePos > 0 => FreshName

\* As long as no rollback has cut a segment inside a frame, no frame is behind
\* the checkpoint, in memory or for the next start, that the sink has not
\* settled.
NothingSkipped ==
  cut \/ \A i \in 1 .. Min2(View.start, Len(View.records)) : Settled(View.records[i])

\* A record that was acknowledged and on the medium is settled, or pending and
\* readable, over all crashes, rotations, removals and failed writes.
DurableKept ==
  \A t \in hard :
    \/ t \in seen
    \/ \E i \in View.start + 1 .. Len(View.records) : FrameOf(View.records[i]) # <<>> /\
         IsFrame(FrameOf(View.records[i])) /\ FrameOf(View.records[i])[1].tkt = t

\* The same, as long as no rollback has cut a segment inside a frame.
DurableUnlessCut == cut \/ DurableKept

\* A segment is removed only when the sink has settled every frame in it.
OnlySettledRemoved ==
  [][~cut => \A b \in DOMAIN files \ DOMAIN files' :
       \A i \in DOMAIN files[b] : files[b][i].tkt \in seen]_vars
=============================================================================
