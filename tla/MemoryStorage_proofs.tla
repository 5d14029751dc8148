------------------------ MODULE MemoryStorage_proofs ------------------------
(***************************************************************************)
(* The in-memory store, for every quota, batch size and set of IDs: the    *)
(* batch in hand stays the head of the queue, and the store implements     *)
(* SpoolQueue with nothing ever lost.                                      *)
(***************************************************************************)
EXTENDS MemoryStorage, SequenceTheorems, TLAPS

\* A slice of a sequence, which may be empty.
LEMMA Slice ==
  ASSUME NEW S, NEW s \in Seq(S), NEW m \in Nat, NEW n \in m .. Len(s)
  PROVE  /\ SubSeq(s, m + 1, n) \in Seq(S)
         /\ Len(SubSeq(s, m + 1, n)) = n - m
         /\ \A i \in 1 .. n - m : SubSeq(s, m + 1, n)[i] = s[m + i]
<1>1. \A i \in m + 1 .. n : s[i] \in S
  BY ElementOfSeq
<1> QED
  BY <1>1, SubSeqProperties

-----------------------------------------------------------------------------
(* The invariant *)

Inv == TypeOK /\ HandIsCurrent

\* Nothing is in hand after a start, a commit or a batch given up.
LEMMA NoHand ==
  /\ <<>> \in Seq(Item)
  /\ \A h : h = <<>> => h \in Seq(Item) /\ Len(h) = 0
  BY EmptySeq

LEMMA InitInv == Init => Inv
<1> SUFFICES ASSUME Init PROVE Inv
  OBVIOUS
<1>1. /\ records \in Seq(Item) /\ Len(records) = 0 /\ hand \in Seq(Item) /\ Len(hand) = 0
      /\ ~ settled /\ checkpoint = 0
  BY NoHand DEF Init
<1>2. Uncommitted <= MaxCapacity /\ checkpoint \in 0 .. Len(records)
  BY <1>1, MemoryAssumption DEF Uncommitted
<1>3. closed \in BOOLEAN /\ settled \in BOOLEAN /\ seen \subseteq Item
  BY DEF Init
<1>4. TypeOK
  BY <1>1, <1>2, <1>3 DEF TypeOK
<1> QED
  BY <1>1, <1>4 DEF Inv, HandIsCurrent, Uncommitted

\* Appending leaves the records there are where they are.
LEMMA AppendKeeps ==
  ASSUME TypeOK, NEW id \in Ids, AppendRecord(id)
  PROVE  /\ records' \in Seq(Item)
         /\ Len(records') = Len(records) + 1
         /\ \A i \in 1 .. Len(records) : records'[i] = records[i]
         /\ records' = Append(records, [id |-> id, body |-> "intact"])
         /\ [id |-> id, body |-> "intact"] \in Item
<1>1. [id |-> id, body |-> "intact"] \in Item
  BY DEF Item
<1> QED
  BY <1>1, AppendProperties DEF AppendRecord, TypeOK

LEMMA Inductive ==
  ASSUME Inv, [Next]_vars
  PROVE  Inv'
<1> USE DEF Inv
<1>0. Len(records) \in Nat /\ Len(hand) \in Nat
  BY LenProperties DEF TypeOK
<1>1. ASSUME NEW id \in Ids, AppendRecord(id)
      PROVE  Inv'
  <2>1. /\ records' \in Seq(Item) /\ Len(records') = Len(records) + 1
        /\ \A i \in 1 .. Len(records) : records'[i] = records[i]
    BY <1>1, AppendKeeps
  <2>2. TypeOK'
    <3>1. /\ checkpoint' \in 0 .. Len(records') /\ Uncommitted' <= MaxCapacity
      BY <1>0, <1>1, <2>1, MemoryAssumption DEF AppendRecord, TypeOK, Uncommitted
    <3> QED
      BY <1>1, <2>1, <3>1 DEF AppendRecord, TypeOK
  <2>3. HandIsCurrent'
    BY <1>0, <1>1, <2>1 DEF AppendRecord, TypeOK, HandIsCurrent, Uncommitted
  <2> QED
    BY <2>2, <2>3
<1>2. CASE ReadBatch
  <2> DEFINE last == Min2(checkpoint + BatchSize, Len(records))
  <2>1. checkpoint \in Nat /\ last \in checkpoint .. Len(records)
    BY <1>0, <1>2, MemoryAssumption DEF ReadBatch, TypeOK, Uncommitted, Min2
  <2>2. /\ hand' \in Seq(Item) /\ Len(hand') = last - checkpoint
        /\ \A i \in 1 .. last - checkpoint : hand'[i] = records[checkpoint + i]
    BY <1>2, <2>1, Slice DEF ReadBatch, TypeOK
  <2>3. TypeOK'
    BY <1>2, <2>2 DEF ReadBatch, TypeOK, Uncommitted
  <2>4. ~ settled' /\ records' = records /\ checkpoint' = checkpoint
    BY <1>2 DEF ReadBatch
  <2> QED
    BY <1>0, <2>1, <2>2, <2>3, <2>4 DEF HandIsCurrent, Uncommitted
<1>3. CASE SinkSettles
  <2>1. DOMAIN hand = 1 .. Len(hand) /\ \A i \in 1 .. Len(hand) : hand[i] \in Item
    BY LenProperties, ElementOfSeq DEF TypeOK
  <2> QED
    BY <1>3, <2>1 DEF SinkSettles, TypeOK, HandIsCurrent, Uncommitted
<1>4. CASE GiveUp
  <2>1. hand' \in Seq(Item) /\ Len(hand') = 0 /\ ~ settled'
    BY <1>4, NoHand DEF GiveUp
  <2>2. TypeOK'
    BY <1>4, <2>1 DEF GiveUp, TypeOK, Uncommitted
  <2> QED
    BY <1>0, <2>1, <2>2 DEF HandIsCurrent, Uncommitted, TypeOK
<1>5. CASE Commit
  <2>1. checkpoint' \in checkpoint .. Len(records)
    BY <1>0, <1>5 DEF Commit, NextCheckpoint, LastOffset, TypeOK, HandIsCurrent, Uncommitted
  <2>2. hand' \in Seq(Item) /\ Len(hand') = 0 /\ ~ settled'
    BY <1>5, NoHand DEF Commit
  <2>3. checkpoint' \in 0 .. Len(records) /\ Uncommitted' <= MaxCapacity /\ Uncommitted' \in Nat
    BY <1>0, <1>5, <2>1, MemoryAssumption DEF Commit, TypeOK, Uncommitted
  <2>4. TypeOK'
    BY <1>5, <2>2, <2>3 DEF Commit, TypeOK
  <2> QED
    BY <2>2, <2>3, <2>4 DEF HandIsCurrent
<1>6. CASE Close
  BY <1>6 DEF Close, TypeOK, HandIsCurrent, Uncommitted
<1>7. CASE UNCHANGED vars
  BY <1>7 DEF vars, TypeOK, HandIsCurrent, Uncommitted
<1> QED
  BY <1>1, <1>2, <1>3, <1>4, <1>5, <1>6, <1>7 DEF Next, Finished

\* The batch the dispatcher delivers and commits is the head of the store's
\* uncommitted records, whatever is appended meanwhile.
THEOREM HandStaysCurrent == Spec => [](TypeOK /\ HandIsCurrent)
  BY InitInv, Inductive, PTL DEF Spec, Inv

\* Whatever is appended, read, committed or given up, the checkpoint stays
\* inside the records and the quota of uncommitted records is kept.
THEOREM TypeCorrect == Spec => []TypeOK
  BY HandStaysCurrent, PTL

-----------------------------------------------------------------------------
(* The refinement *)

Pending == SubSeq(records, checkpoint + 1, Len(records))

\* What the uncommitted records are.
LEMMA PendingProps ==
  ASSUME Inv
  PROVE  /\ Pending \in Seq(Item)
         /\ Len(Pending) = Len(records) - checkpoint /\ Len(Pending) \in Nat
         /\ \A i \in 1 .. Len(Pending) : Pending[i] = records[checkpoint + i]
<1>1. Len(records) \in Nat /\ checkpoint \in Nat /\ Len(records) \in checkpoint .. Len(records)
  BY LenProperties DEF Inv, TypeOK
<1> QED
  BY <1>1, Slice DEF Inv, TypeOK, Pending

LEMMA QueueInit == Init => Queue!Init
<1> SUFFICES ASSUME Init PROVE Queue!Init
  OBVIOUS
<1>1. SubSeq(records, checkpoint + 1, Len(records)) = <<>>
  BY EmptySeq, SubSeqEmpty DEF Init
<1> QED
  BY <1>1, EmptySeq DEF Init, Queue!Init

\* An append is an item accepted and hard at once.
LEMMA AppendAccepts ==
  ASSUME Inv, Inv', NEW id \in Ids, AppendRecord(id)
  PROVE  Queue!Accept
<1> DEFINE x == [id |-> id, body |-> "intact"]
<1>0. Len(records) \in Nat /\ checkpoint \in 0 .. Len(records) /\ records \in Seq(Item)
  BY LenProperties DEF Inv, TypeOK
<1>1. /\ records' = Append(records, x) /\ x \in Item /\ checkpoint' = checkpoint
      /\ Len(records') = Len(records) + 1
      /\ \A i \in 1 .. Len(records) : records'[i] = records[i]
      /\ records'[Len(records) + 1] = x
  BY AppendKeeps, AppendProperties DEF Inv, TypeOK, AppendRecord
<1>2. /\ Pending \in Seq(Item) /\ Len(Pending) = Len(records) - checkpoint
      /\ Len(Pending) \in Nat
      /\ \A i \in 1 .. Len(Pending) : Pending[i] = records[checkpoint + i]
  BY PendingProps
<1>3. /\ Pending' \in Seq(Item) /\ Len(Pending') = Len(records) + 1 - checkpoint
      /\ \A i \in 1 .. Len(Pending') : Pending'[i] = records'[checkpoint + i]
  <2>1. records' \in Seq(Item) /\ checkpoint \in Nat
        /\ Len(records') \in checkpoint .. Len(records')
    BY <1>0, <1>1, AppendProperties
  <2>2. Pending' = SubSeq(records', checkpoint + 1, Len(records'))
    BY <1>1 DEF Pending
  <2>3. /\ SubSeq(records', checkpoint + 1, Len(records')) \in Seq(Item)
        /\ Len(SubSeq(records', checkpoint + 1, Len(records'))) = Len(records') - checkpoint
        /\ \A i \in 1 .. Len(records') - checkpoint :
             SubSeq(records', checkpoint + 1, Len(records'))[i] = records'[checkpoint + i]
    BY <2>1, Slice
  <2> QED
    BY <1>0, <1>1, <2>2, <2>3
<1>4. Append(Pending, x) \in Seq(Item) /\ Len(Append(Pending, x)) = Len(Pending) + 1
      /\ \A i \in 1 .. Len(Pending) : Append(Pending, x)[i] = Pending[i]
      /\ Append(Pending, x)[Len(Pending) + 1] = x
  BY <1>1, <1>2, AppendProperties
<1>5. Pending' = Append(Pending, x)
  <2>1. Len(Pending') = Len(Append(Pending, x))
    BY <1>0, <1>2, <1>3, <1>4
  <2>3. ASSUME NEW i \in 1 .. Len(Pending')
        PROVE  Pending'[i] = Append(Pending, x)[i]
    <3>1. i \in Nat /\ Pending'[i] = records'[checkpoint + i]
      BY <1>3
    <3>2. CASE i \in 1 .. Len(Pending)
      <4>1. checkpoint + i \in 1 .. Len(records)
        BY <1>0, <1>2, <3>2
      <4>2. Pending'[i] = records[checkpoint + i]
        BY <1>1, <3>1, <4>1
      <4> QED
        BY <1>2, <1>4, <3>2, <4>2
    <3>3. CASE i = Len(Pending) + 1
      <4>1. checkpoint + i = Len(records) + 1
        BY <1>0, <1>2, <3>3
      <4> QED
        BY <1>1, <1>4, <3>1, <3>3, <4>1
    <3>4. Len(Pending') = Len(Pending) + 1 /\ Len(Pending) \in Nat
      BY <1>2, <1>4, <2>1
    <3>5. i \in 1 .. Len(Pending) \/ i = Len(Pending) + 1
      BY <3>4
    <3> QED
      BY <3>2, <3>3, <3>5
  <2> QED
    BY <1>3, <1>4, <2>1, <2>3, SeqEqual
<1>6. Len(records') - checkpoint' \in Len(records) - checkpoint .. Len(Pending')
  BY <1>0, <1>1, <1>2, <1>3
<1> QED
  BY <1>1, <1>5, <1>6 DEF Queue!Accept, AppendRecord, Pending

\* The sink takes the head of the pending items.
LEMMA SinkTakes ==
  ASSUME Inv, SinkSettles
  PROVE  Queue!Take
<1>1. /\ Len(Pending) = Len(records) - checkpoint /\ Len(Pending) \in Nat
      /\ \A i \in 1 .. Len(Pending) : Pending[i] = records[checkpoint + i]
      /\ Pending \in Seq(Item)
  BY PendingProps
<1>2. /\ Len(hand) \in 1 .. Len(Pending) /\ DOMAIN hand = 1 .. Len(hand)
  BY <1>1, EmptySeq, LenProperties DEF Inv, TypeOK, HandIsCurrent, SinkSettles, Uncommitted
<1>3. \A i \in 1 .. Len(hand) : hand[i] = Pending[i] /\ Pending[i] \in Item
  BY <1>1, <1>2, ElementOfSeq DEF Inv, HandIsCurrent
<1>4. seen' = seen \union {Pending[i] : i \in 1 .. Len(hand)}
  BY <1>2, <1>3 DEF SinkSettles
<1>5. \A i \in 1 .. Len(hand) : Pending[i].body = "intact"
  BY <1>3 DEF Item
<1> QED
  BY <1>2, <1>4, <1>5 DEF Queue!Take, Pending, SinkSettles

\* A commit discharges the batch, all of which the sink has taken.
LEMMA CommitDischarges ==
  ASSUME Inv, Commit
  PROVE  Queue!Discharge
<1>1. /\ Len(Pending) = Len(records) - checkpoint /\ Len(Pending) \in Nat
      /\ \A i \in 1 .. Len(Pending) : Pending[i] = records[checkpoint + i]
      /\ Pending \in Seq(Item)
  BY PendingProps
<1>2. /\ Len(hand) \in 1 .. Len(Pending)
      /\ Len(records) \in Nat /\ checkpoint \in 0 .. Len(records)
  BY <1>1, EmptySeq, LenProperties DEF Inv, TypeOK, HandIsCurrent, Commit, Uncommitted
<1>3. records' = records /\ checkpoint' = checkpoint + Len(hand)
  BY <1>2 DEF Commit, NextCheckpoint, LastOffset
<1>4. \A i \in 1 .. Len(hand) : Pending[i] \in seen
  BY <1>1, <1>2 DEF Inv, HandIsCurrent, Commit
<1>5. Pending' = SubSeq(Pending, Len(hand) + 1, Len(Pending))
  <2> DEFINE rest == SubSeq(Pending, Len(hand) + 1, Len(Pending))
  <2>1. /\ rest \in Seq(Item) /\ Len(rest) = Len(Pending) - Len(hand)
        /\ \A i \in 1 .. Len(Pending) - Len(hand) : rest[i] = Pending[Len(hand) + i]
    <3>1. Len(hand) \in Nat /\ Len(Pending) \in Len(hand) .. Len(Pending)
      BY <1>1, <1>2
    <3> QED
      BY <1>1, <3>1, Slice
  <2>2. /\ checkpoint + Len(hand) \in Nat
        /\ Len(records) \in checkpoint + Len(hand) .. Len(records)
        /\ records \in Seq(Item)
    BY <1>1, <1>2 DEF Inv, TypeOK
  <2>3. /\ Pending' \in Seq(Item) /\ Len(Pending') = Len(records) - (checkpoint + Len(hand))
        /\ \A i \in 1 .. Len(records) - (checkpoint + Len(hand)) :
             Pending'[i] = records[checkpoint + Len(hand) + i]
    BY <1>3, <2>2, Slice DEF Pending
  <2>4. Len(Pending') = Len(rest) /\ Len(rest) \in Nat
    BY <1>1, <1>2, <2>1, <2>3
  <2>5. ASSUME NEW i \in 1 .. Len(Pending')
        PROVE  Pending'[i] = rest[i]
    <3>1. /\ Len(hand) + i \in 1 .. Len(Pending) /\ i \in 1 .. Len(Pending) - Len(hand)
          /\ i \in 1 .. Len(records) - (checkpoint + Len(hand))
          /\ checkpoint + (Len(hand) + i) = checkpoint + Len(hand) + i
      BY <1>1, <1>2, <2>1, <2>4
    <3> QED
      BY <1>1, <2>1, <2>3, <3>1
  <2> QED
    BY <2>1, <2>3, <2>4, <2>5, SeqEqual
<1>6. /\ Len(records') - checkpoint' = Len(Pending')
      /\ Len(records') - checkpoint' = (Len(records) - checkpoint) - Len(hand)
      /\ Len(Pending') \in Nat
  <2>1. Len(Pending') = Len(Pending) - Len(hand)
    <3>1. Len(hand) \in Nat /\ Len(Pending) \in Len(hand) .. Len(Pending)
      BY <1>1, <1>2
    <3> QED
      BY <1>1, <1>5, <3>1, Slice
  <2> QED
    BY <1>1, <1>2, <1>3, <2>1
<1>7. Len(records') - checkpoint' \in
        (IF Len(records) - checkpoint > Len(hand) THEN Len(records) - checkpoint - Len(hand) ELSE 0)
        .. Len(Pending')
  BY <1>1, <1>2, <1>6
<1> QED
  BY <1>2, <1>4, <1>5, <1>7 DEF Queue!Discharge, Pending, Commit

\* Every step of the store is a step of the queue or changes nothing it shows.
LEMMA StepRefines ==
  ASSUME Inv, Inv', [Next]_vars
  PROVE  [Queue!Next]_(Queue!vars)
<1> SUFFICES ASSUME UNCHANGED <<records, checkpoint, seen>> PROVE UNCHANGED Queue!vars
  BY AppendAccepts, SinkTakes, CommitDischarges
     DEF Next, Finished, vars, ReadBatch, GiveUp, Close, Queue!Next
<1> QED
  BY DEF Queue!vars

\* The in-memory store is an at-least-once queue that loses nothing: every
\* record leaves at the head, after the sink has taken it.
THEOREM StoreImplementsQueue == Spec => ImplementsQueue
<1>1. Spec => []Inv
  BY HandStaysCurrent, PTL DEF Inv
<1>2. Inv /\ Inv' /\ [Next]_vars => [Queue!Next]_(Queue!vars)
  BY StepRefines
<1> QED
  BY <1>1, <1>2, QueueInit, PTL DEF Spec, ImplementsQueue, Queue!Spec
=============================================================================
