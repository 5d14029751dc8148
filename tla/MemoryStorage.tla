--------------------------- MODULE MemoryStorage ---------------------------
(***************************************************************************)
(* The storage engine that keeps its records in memory                     *)
(* (storage_memory.go), used the way engine.go uses it: many callers       *)
(* append, one dispatcher reads a batch, hands it to the sink and commits  *)
(* its last offset.  Every method holds the mutex, so each is a step; what *)
(* the callers append while the dispatcher holds a batch happens between.  *)
(*                                                                         *)
(* Offsets count from 0: record i of the sequence has offset i - 1.        *)
(***************************************************************************)
EXTENDS Integers, Sequences

CONSTANTS
  Ids,         \* bound: record IDs, as many as there are calls of Append
  MaxCapacity, \* quota of uncommitted records
  BatchSize    \* records in a batch

ASSUME MemoryAssumption ==
  MaxCapacity \in Nat \ {0} /\ BatchSize \in Nat \ {0} /\ Ids \subseteq Nat

VARIABLES
  records,    \* every record appended; nothing is ever removed
  checkpoint, \* offset of the first uncommitted record
  closed,     \* whether Close was called
  hand,       \* the batch the dispatcher holds
  settled,    \* whether the sink has taken it
  seen        \* history: records the sink has taken

vars == <<records, checkpoint, closed, hand, settled, seen>>

Item == [id : Ids, body : {"intact"}]

Min2(a, b) == IF a < b THEN a ELSE b

Init ==
  /\ records = <<>> /\ checkpoint = 0 /\ closed = FALSE
  /\ hand = <<>> /\ settled = FALSE /\ seen = {}

Uncommitted == Len(records) - checkpoint

\* Mutant: the quota is off by one.
AppendOverQuota(id) ==
  /\ ~ closed /\ Uncommitted <= MaxCapacity
  /\ \A i \in DOMAIN records : records[i].id # id
  /\ records' = Append(records, [id |-> id, body |-> "intact"])
  /\ UNCHANGED <<checkpoint, closed, hand, settled, seen>>

\* Append; it refuses when the store is closed or the quota is used up.
\* Callers take their IDs before, so they arrive in any order.
AppendRecord(id) ==
  /\ ~ closed /\ Uncommitted < MaxCapacity
  /\ \A i \in DOMAIN records : records[i].id # id
  /\ records' = Append(records, [id |-> id, body |-> "intact"])
  /\ UNCHANGED <<checkpoint, closed, hand, settled, seen>>

\* Mutant: the batch is taken from the newest records.
ReadBatchAtEnd ==
  /\ ~ closed /\ hand = <<>> /\ Uncommitted > 0
  /\ hand' = SubSeq(records, Len(records), Len(records))
  /\ settled' = FALSE
  /\ UNCHANGED <<records, checkpoint, closed, seen>>

\* ReadBatch copies up to BatchSize uncommitted records.
ReadBatch ==
  /\ ~ closed /\ hand = <<>> /\ Uncommitted > 0
  /\ hand' = SubSeq(records, checkpoint + 1, Min2(checkpoint + BatchSize, Len(records)))
  /\ settled' = FALSE
  /\ UNCHANGED <<records, checkpoint, closed, seen>>

\* The sink accepts the batch or rejects it for good.
SinkSettles ==
  /\ hand # <<>> /\ ~ settled
  /\ settled' = TRUE
  /\ seen' = seen \union {hand[i] : i \in DOMAIN hand}
  /\ UNCHANGED <<records, checkpoint, closed, hand>>

\* The sink fails, or Commit finds the store closed: the batch is given up
\* and will be read again.
GiveUp ==
  /\ hand # <<>>
  /\ closed \/ ~ settled
  /\ hand' = <<>> /\ settled' = FALSE
  /\ UNCHANGED <<records, checkpoint, closed, seen>>

\* The offset that is committed: of the last record of the batch.
LastOffset == checkpoint + Len(hand) - 1

\* Mutant: the offset of the first record after the batch.
NextCheckpointBehind == LastOffset + 2

\* Commit never moves the checkpoint back.
NextCheckpoint == IF LastOffset + 1 > checkpoint THEN LastOffset + 1 ELSE checkpoint

Commit ==
  /\ ~ closed /\ hand # <<>> /\ settled
  /\ checkpoint' = NextCheckpoint
  /\ hand' = <<>> /\ settled' = FALSE
  /\ UNCHANGED <<records, closed, seen>>

Close ==
  /\ ~ closed
  /\ closed' = TRUE
  /\ UNCHANGED <<records, checkpoint, hand, settled, seen>>

\* Only the dispatcher's attempts are left of a closed store.
Finished == closed /\ hand = <<>> /\ UNCHANGED vars

Next ==
  \/ \E id \in Ids : AppendRecord(id)
  \/ ReadBatch \/ SinkSettles \/ GiveUp \/ Commit \/ Close
  \/ Finished

Spec == Init /\ [][Next]_vars

-----------------------------------------------------------------------------
(* Properties *)

TypeOK ==
  /\ records \in Seq(Item) /\ hand \in Seq(Item)
  /\ checkpoint \in 0 .. Len(records)
  /\ Uncommitted <= MaxCapacity
  /\ closed \in BOOLEAN /\ settled \in BOOLEAN
  /\ seen \subseteq Item

\* The batch the dispatcher holds is what the store has at the checkpoint,
\* whatever is appended meanwhile; a settled one has been taken.
HandIsCurrent ==
  /\ Len(hand) <= Uncommitted
  /\ \A i \in 1 .. Len(hand) : hand[i] = records[checkpoint + i]
  /\ settled => \A i \in 1 .. Len(hand) : hand[i] \in seen

Queue == INSTANCE SpoolQueue WITH
  Items   <- Item,
  pending <- SubSeq(records, checkpoint + 1, Len(records)),
  hard    <- Len(records) - checkpoint,
  taken   <- seen

\* The store implements the at-least-once queue, and as nothing crashes in
\* it, with nothing ever lost.
ImplementsQueue == Queue!Spec
=============================================================================
