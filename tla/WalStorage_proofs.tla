-------------------------- MODULE WalStorage_proofs --------------------------
(***************************************************************************)
(* Proofs about WalStorage for every value of its constants: TypeOK for    *)
(* every setting; NothingSkipped, HandIsCurrent and MetaNeverRegresses for *)
(* the settings of SafeSetup, from IndInv; DurablePrefixKept always.       *)
(*                                                                         *)
(* The second half is about single records, over crashes, restarts and     *)
(* failing calls: the sink never gets one ID for two records, and a record *)
(* whose Append succeeded is not lost.  Both rest on IndInv and on the     *)
(* frames that survive a crash: what the sink has seen, or a caller was    *)
(* told of, is among them and stays where it is.  As a whole the log is    *)
(* the at-least-once queue of SpoolQueue, whose soft tail is what a crash  *)
(* may cut.                                                                *)
(***************************************************************************)
EXTENDS WalImplementsQueue, SequenceTheorems, TLAPS

-----------------------------------------------------------------------------
(* Sequences *)

\* A prefix of a sequence has the length asked for and the same elements.
LEMMA PrefixProps ==
  ASSUME NEW S, NEW s \in Seq(S), NEW n \in 0 .. Len(s)
  PROVE  /\ SubSeq(s, 1, n) \in Seq(S)
         /\ Len(SubSeq(s, 1, n)) = n
         /\ \A i \in 1 .. n : SubSeq(s, 1, n)[i] = s[i]
<1>1. \A i \in 1 .. n : s[i] \in S
  BY ElementOfSeq
<1>2. QED
  BY <1>1, SubSeqProperties

\* A slice of a sequence is a sequence over the same set, element by element.
LEMMA SliceProps ==
  ASSUME NEW S, NEW s \in Seq(S), NEW m \in Nat, NEW n \in m + 1 .. Len(s)
  PROVE  /\ SubSeq(s, m + 1, n) \in Seq(S)
         /\ Len(SubSeq(s, m + 1, n)) = n - m
         /\ \A i \in 1 .. n - m : SubSeq(s, m + 1, n)[i] = s[m + i]
<1>1. \A i \in m + 1 .. n : s[i] \in S
  BY ElementOfSeq
<1>2. QED
  BY <1>1, SubSeqProperties

\* A slice that has a first element is not the empty sequence.
LEMMA SliceNotEmpty ==
  ASSUME NEW S, NEW s \in Seq(S), NEW m \in Nat, NEW n \in m + 1 .. Len(s)
  PROVE  SubSeq(s, m + 1, n) # <<>>
<1>1. Len(SubSeq(s, m + 1, n)) # 0
  BY SliceProps
<1>2. QED
  BY <1>1, EmptySeq

\* Slices that agree element by element are equal.
LEMMA SliceEqual ==
  ASSUME NEW S, NEW s \in Seq(S), NEW t \in Seq(S), NEW m \in Nat,
         NEW n \in m + 1 .. Len(s), n <= Len(t), \A i \in m + 1 .. n : s[i] = t[i]
  PROVE  SubSeq(s, m + 1, n) = SubSeq(t, m + 1, n)
<1>1. /\ SubSeq(s, m + 1, n) \in Seq(S) /\ Len(SubSeq(s, m + 1, n)) = n - m
      /\ \A i \in 1 .. n - m : SubSeq(s, m + 1, n)[i] = s[m + i]
  BY SliceProps
<1>2. /\ SubSeq(t, m + 1, n) \in Seq(S) /\ Len(SubSeq(t, m + 1, n)) = n - m
      /\ \A i \in 1 .. n - m : SubSeq(t, m + 1, n)[i] = t[m + i]
  BY SliceProps
<1>3. \A i \in 1 .. n - m : SubSeq(s, m + 1, n)[i] = SubSeq(t, m + 1, n)[i]
  BY <1>1, <1>2
<1>4. QED
  BY <1>1, <1>2, <1>3, SeqEqual
-----------------------------------------------------------------------------
(* Type correctness *)

\* What the flush of the writer does to the marks and the sticky error.
LEMMA FlushType ==
  ASSUME TypeOK, FlushWriter \/ FlushWriterFails
  PROVE  flushed' \in flushed .. Total /\ writer' \in {"ready", "failed"}
BY DEF TypeOK, FlushWriter, FlushWriterFails, Total

\* A bounded fault counter stays a number, whoever counts.
LEMMA FaultType ==
  ASSUME TypeOK, UNCHANGED faults \/ IOError \/ FlushWriterFails
  PROVE  faults' \in Nat
BY DEF TypeOK, IOError, FlushWriterFails

\* Damaging a frame leaves a frame.
LEMMA DamagedFrame ==
  ASSUME NEW f \in Frame
  PROVE  /\ [f EXCEPT !.body = "damaged"] \in Frame
         /\ ~Intact([f EXCEPT !.body = "damaged"])
BY DEF Frame, Intact

\* The frames an interrupted Append may add are frames, and a crash leaves no
\* more than the log with them.
LEMMA InFlightType ==
  ASSUME TypeOK, NEW inflight \in InFlight
  PROVE  /\ wal \o inflight \in Seq(Frame)
         /\ Reach(inflight) \in flushed .. Len(wal \o inflight)
         /\ \A i \in 1 .. Total : (wal \o inflight)[i] = wal[i]
<1>1. inflight \in Seq(Frame)
  <2>1. \A r \in reserved : <<r>> \in Seq(Frame)
    BY DEF TypeOK
  <2>2. <<>> \in Seq(Frame)
    BY EmptySeq
  <2>3. QED
    BY <2>1, <2>2 DEF InFlight
<1>2. QED
  BY <1>1, ConcatProperties DEF TypeOK, Reach, Total

\* Every step of the log and of its users keeps the types and the marks.
LEMMA TypeStep ==
  ASSUME TypeOK, [Next]_vars
  PROVE  TypeOK'
<1> USE DEF Total, disk, memory, callers
<1>1. CASE TakeID
  BY <1>1 DEF TakeID, TypeOK, Frame
<1>2. ASSUME NEW r \in reserved, AppendRefused(r)
      PROVE  TypeOK'
  BY <1>2 DEF AppendRefused, TypeOK
<1>3. ASSUME NEW r \in reserved, AppendAcked(r)
      PROVE  TypeOK'
  <2>1. r \in Frame /\ r.tkt \in Nat /\ r.id \in Nat
    BY DEF TypeOK, Frame
  <2>2. wal' \in Seq(Frame) /\ Len(wal') = Len(wal) + 1
    BY <1>3, <2>1, AppendProperties DEF AppendAcked, WriteFrame, TypeOK
  <2>3. synced' \in 0 .. flushed' /\ flushed' \in 0 .. Len(wal')
    BY <1>3, <2>2 DEF AppendAcked, WriteFrame, TypeOK
  <2>4. maxID' \in Nat /\ acked' \in SUBSET Nat /\ reserved' \in SUBSET Frame
    BY <1>3, <2>1 DEF AppendAcked, TypeOK
  <2>5. QED
    BY <1>3, <2>2, <2>3, <2>4 DEF AppendAcked, TypeOK
<1>4. ASSUME NEW r \in reserved, AppendFailed(r)
      PROVE  TypeOK'
  <2>1. PICK target \in flushed .. Total : RollbackTo(target)
    BY <1>4 DEF AppendFailed, TypeOK
  <2>2. wal' \in Seq(Frame) /\ Len(wal') = target
    BY <2>1, PrefixProps DEF RollbackTo, First, TypeOK
  <2>3. faults' \in Nat
    BY <1>4, FaultType DEF AppendFailed
  <2>4. /\ reserved' = reserved \ {r}
        /\ UNCHANGED <<synced, meta, mode, checkpoint, maxID, idCounter, attempts,
                       acked, hand, seen, restarts>>
    BY <1>4 DEF AppendFailed
  <2>5. flushed' = target /\ writer' = "ready" /\ synced <= target /\ target \in Nat
    BY <2>1 DEF RollbackTo, TypeOK
  <2>6. QED
    BY <2>2, <2>3, <2>4, <2>5 DEF TypeOK
<1>5. CASE ReadBatch
  <2>1. hand' \in [phase : {"idle", "deliver", "commit"}, upto : Nat, frames : Seq(Frame)]
    <3>1. CASE Intact(wal[checkpoint + 1])
      <4>1. PICK upto \in checkpoint + 1 .. Total :
              hand' = [phase |-> "deliver", upto |-> upto,
                       frames |-> SubSeq(wal, checkpoint + 1, upto)]
        BY <1>5, <3>1 DEF ReadBatch
      <4>2. SubSeq(wal, checkpoint + 1, upto) \in Seq(Frame)
        BY <4>1, SliceProps DEF TypeOK
      <4>3. QED
        BY <4>1, <4>2 DEF TypeOK
    <3>2. CASE ~Intact(wal[checkpoint + 1])
      <4>1. hand' = [phase |-> "commit", upto |-> checkpoint + 1, frames |-> <<>>]
        BY <1>5, <3>2 DEF ReadBatch
      <4>2. QED
        BY <4>1 DEF TypeOK
    <3>3. QED
      BY <3>1, <3>2
  <2>2. QED
    BY <1>5, <2>1, FlushType DEF ReadBatch, TypeOK
<1>6. CASE ReadNothing
  <2>1. flushed' \in flushed .. Total /\ writer' \in {"ready", "failed"}
    BY <1>6, FlushType DEF ReadNothing
  <2>2. faults' \in Nat
    BY <1>6, FaultType DEF ReadNothing
  <2>3. QED
    BY <1>6, <2>1, <2>2 DEF ReadNothing, TypeOK
<1>7. CASE SinkSettles
  <2>1. {hand.frames[i] : i \in DOMAIN hand.frames} \subseteq Frame
    BY ElementOfSeq DEF TypeOK
  <2>2. QED
    BY <1>7, <2>1 DEF SinkSettles, TypeOK
<1>8. CASE SinkFails
  BY <1>8 DEF SinkFails, TypeOK, Idle
<1>9. CASE Commit
  <2>1. flushed' \in flushed .. Total /\ writer' \in {"ready", "failed"} /\ synced' \in 0 .. flushed'
    BY <1>9, FlushType DEF Commit, CommitSync, FlushWriter, TypeOK
  <2>2. QED
    BY <1>9, <2>1 DEF Commit, TypeOK, Idle
<1>10. CASE CommitNothing
  <2>1. flushed' \in flushed .. Total /\ writer' \in {"ready", "failed"}
    <3>1. CASE UNCHANGED <<flushed, writer>>
      BY <3>1 DEF TypeOK
    <3>2. QED
      BY <1>10, <3>1, FlushType DEF CommitNothing
  <2>2. synced' \in 0 .. flushed'
    <3>1. CASE UNCHANGED synced
      BY <2>1, <3>1 DEF TypeOK
    <3>2. CASE FlushWriter /\ synced' \in {synced, Total}
      BY <3>2 DEF FlushWriter, TypeOK
    <3>3. QED
      BY <1>10, <3>1, <3>2 DEF CommitNothing
  <2>3. faults' \in Nat
    BY <1>10, FaultType DEF CommitNothing
  <2>4. /\ hand' = Idle
        /\ UNCHANGED <<wal, meta, mode, checkpoint, maxID, callers, seen, restarts>>
    BY <1>10 DEF CommitNothing
  <2>5. QED
    BY <2>1, <2>2, <2>3, <2>4 DEF TypeOK, Idle
<1>11. CASE Flush
  <2>1. flushed' \in flushed .. Total /\ writer' \in {"ready", "failed"}
    BY <1>11, FlushType DEF Flush
  <2>2. synced' \in 0 .. flushed'
    <3>1. CASE UNCHANGED synced
      BY <2>1, <3>1 DEF TypeOK
    <3>2. CASE FlushWriter /\ synced' = Total
      BY <3>2 DEF FlushWriter, TypeOK
    <3>3. QED
      BY <1>11, <3>1, <3>2 DEF Flush
  <2>3. faults' \in Nat
    BY <1>11, FaultType DEF Flush
  <2>4. QED
    BY <1>11, <2>1, <2>2, <2>3 DEF Flush, TypeOK
<1>12. CASE CloseBegin
  BY <1>12 DEF CloseBegin, TypeOK
<1>13. CASE CloseEnd
  <2>1. flushed' \in flushed .. Total /\ writer' \in {"ready", "failed"}
    BY <1>13, FlushType DEF CloseEnd
  <2>2. synced' \in 0 .. flushed' /\ faults' \in Nat
    BY <1>13, <2>1, FaultType DEF CloseEnd, FlushWriter, TypeOK
  <2>3. wal' \in Seq(Frame) /\ flushed' \in 0 .. Len(wal')
    <3>1. CASE wal' = wal
      BY <2>1, <3>1 DEF TypeOK
    <3>2. CASE wal' = First(flushed')
      <4>1. flushed' \in 0 .. Len(wal) /\ wal \in Seq(Frame)
        BY <2>1 DEF TypeOK
      <4>2. wal' \in Seq(Frame) /\ Len(wal') = flushed'
        BY <3>2, <4>1, PrefixProps DEF First
      <4>3. QED
        BY <4>1, <4>2
    <3>3. QED
      BY <1>13, <3>1, <3>2 DEF CloseEnd
  <2>4. QED
    BY <1>13, <2>1, <2>2, <2>3 DEF CloseEnd, TypeOK
<1>14. CASE ProcessCrash
  <2>1. PICK inflight \in InFlight :
          \E n \in flushed .. Reach(inflight) :
            wal' = SubSeq(wal \o inflight, 1, n) /\ flushed' = n
    BY <1>14 DEF ProcessCrash
  <2>2. PICK n \in flushed .. Reach(inflight) :
          wal' = SubSeq(wal \o inflight, 1, n) /\ flushed' = n
    BY <2>1
  <2>3. wal' \in Seq(Frame) /\ Len(wal') = n
    BY <2>2, InFlightType, PrefixProps DEF TypeOK
  <2>4. UNCHANGED synced /\ ProcessDies
    BY <1>14 DEF ProcessCrash
  <2>5. synced' \in 0 .. flushed' /\ flushed' \in 0 .. Len(wal')
    BY <2>2, <2>3, <2>4 DEF TypeOK
  <2>6. QED
    BY <2>3, <2>4, <2>5 DEF ProcessDies, TypeOK, Idle
<1>15. CASE PowerLoss
  <2>1. PICK inflight \in InFlight :
          \E n \in synced .. Reach(inflight) :
            \E damaged \in SUBSET (synced + 1 .. n) :
              /\ wal' = [i \in 1 .. n |-> Spoil(wal \o inflight, damaged, i)]
              /\ flushed' = n /\ synced' = n
    BY <1>15 DEF PowerLoss
  <2>2. PICK n \in synced .. Reach(inflight) :
          \E damaged \in SUBSET (synced + 1 .. n) :
            /\ wal' = [i \in 1 .. n |-> Spoil(wal \o inflight, damaged, i)]
            /\ flushed' = n /\ synced' = n
    BY <2>1
  <2>3. PICK damaged \in SUBSET (synced + 1 .. n) :
          /\ wal' = [i \in 1 .. n |-> Spoil(wal \o inflight, damaged, i)]
          /\ flushed' = n /\ synced' = n
    BY <2>2
  <2>4. n \in Nat /\ n <= Len(wal \o inflight) /\ wal \o inflight \in Seq(Frame)
    BY <2>2, InFlightType DEF TypeOK
  <2>5. ASSUME NEW i \in 1 .. n
        PROVE  Spoil(wal \o inflight, damaged, i) \in Frame
    <3>1. (wal \o inflight)[i] \in Frame
      BY <2>4, ElementOfSeq
    <3>2. QED
      BY <3>1, DamagedFrame DEF Spoil
  <2>6. wal' \in Seq(Frame) /\ Len(wal') = n
    BY <2>3, <2>4, <2>5
  <2>7. QED
    BY <1>15, <2>3, <2>4, <2>6 DEF PowerLoss, ProcessDies, TypeOK, Idle
<1>16. CASE Recover
  <2>1. HeaderIDs \subseteq Nat
    <3>1. ASSUME NEW i \in 1 .. Len(wal)
          PROVE  wal[i].id \in Nat
      <4>1. wal[i] \in Frame
        BY ElementOfSeq DEF TypeOK
      <4>2. QED
        BY <4>1 DEF Frame
    <3>2. DOMAIN wal = 1 .. Len(wal)
      BY LenProperties DEF TypeOK
    <3>3. QED
      BY <3>1, <3>2 DEF HeaderIDs
  <2>2. maxID' \in Nat /\ idCounter' \in Nat /\ checkpoint' \in Nat
    BY <1>16, <2>1 DEF Recover, Min2, TypeOK
  <2>3. /\ mode' = "open" /\ writer' = "ready" /\ reserved' = {} /\ hand' = Idle
        /\ UNCHANGED <<disk, attempts, acked, seen, restarts, faults>>
    BY <1>16 DEF Recover
  <2>4. QED
    BY <2>2, <2>3 DEF TypeOK, Idle
<1>17. CASE UNCHANGED vars
  BY <1>17 DEF vars, TypeOK
<1>18. QED
  BY <1>1, <1>2, <1>3, <1>4, <1>5, <1>6, <1>7, <1>8, <1>9, <1>10, <1>11, <1>12,
     <1>13, <1>14, <1>15, <1>16, <1>17 DEF Next

\* Every variable of the log keeps its type, and the marks their order, in
\* every setting.
THEOREM TypeCorrect == Spec => []TypeOK
<1>1. Init => TypeOK
  BY DEF Init, TypeOK, Idle, Total
<1>2. TypeOK /\ [Next]_vars => TypeOK'
  BY TypeStep
<1>3. QED
  BY <1>1, <1>2, PTL DEF Spec
-----------------------------------------------------------------------------
(* The inductive invariant *)

\* The arithmetic content of TypeOK.
Marks ==
  /\ wal \in Seq(Frame) /\ Len(wal) \in Nat /\ Total = Len(wal)
  /\ synced \in Nat /\ flushed \in Nat /\ synced <= flushed /\ flushed <= Len(wal)
  /\ meta \in Nat /\ checkpoint \in Nat /\ hand.upto \in Nat

\* TypeOK orders the marks, before a step and after it.
LEMMA MarksOrdered ==
  /\ TypeOK => Marks
  /\ TypeOK' => Marks'
<1>1. TypeOK => Marks
  BY LenProperties DEF TypeOK, Marks, Total
<1>2. TypeOK' => Marks'
  BY LenProperties DEF TypeOK, Marks, Total
<1>3. QED
  BY <1>1, <1>2

\* A batch in hand outlives any step that keeps what is in the file.
LEMMA HandKept ==
  ASSUME TypeOK, TypeOK', HandInv, hand' = hand, checkpoint' = checkpoint,
         flushed <= flushed', \A i \in 1 .. flushed : wal'[i] = wal[i], seen \subseteq seen'
  PROVE  HandInv'
<1> SUFFICES ASSUME hand.phase # "idle"
             PROVE  HandInv'
  BY DEF HandInv
<1>1. Marks /\ Marks'
  BY MarksOrdered
<1>2. hand.upto \in checkpoint + 1 .. flushed
  BY DEF HandInv
<1>3. hand'.upto \in checkpoint' + 1 .. flushed'
  BY <1>1, <1>2 DEF Marks
<1>4. \A i \in checkpoint + 1 .. hand.upto : wal'[i] = wal[i]
  BY <1>1, <1>2 DEF Marks
<1>5. SubSeq(wal, checkpoint + 1, hand.upto) = SubSeq(wal', checkpoint + 1, hand.upto)
  <2>1. hand.upto \in checkpoint + 1 .. Len(wal) /\ hand.upto <= Len(wal')
    BY <1>1, <1>2, <1>3 DEF Marks
  <2>2. QED
    BY <1>1, <1>4, <2>1, SliceEqual DEF Marks
<1>6. IF hand'.frames = <<>>
      THEN hand'.phase = "commit" /\ hand'.upto = checkpoint' + 1 /\ ~Intact(wal'[hand'.upto])
      ELSE hand'.frames = SubSeq(wal', checkpoint' + 1, hand'.upto)
  <2>1. wal'[hand.upto] = wal[hand.upto]
    BY <1>1, <1>2, <1>4 DEF Marks
  <2>2. QED
    BY <1>5, <2>1 DEF HandInv
<1>7. hand'.phase = "commit" =>
        \A i \in checkpoint' + 1 .. hand'.upto : wal'[i] \in seen' \/ ~Intact(wal'[i])
  BY <1>4 DEF HandInv, Settled
<1>8. QED
  BY <1>3, <1>6, <1>7 DEF HandInv, Settled

\* The rest of the invariant outlives any step that keeps what is in the file
\* and what is on the medium, and leaves both checkpoints alone.
LEMMA LogKept ==
  ASSUME IndInv, TypeOK', HandInv', meta' = meta, checkpoint' = checkpoint,
         flushed <= flushed', \A i \in 1 .. flushed : wal'[i] = wal[i],
         synced <= synced', seen \subseteq seen',
         mode' # "down" => mode # "down", mode' \in {"closed", "down"} => flushed' = Total',
         SyncPolicy = "SyncEveryRecord" /\ "process" \notin CrashKinds => synced' = Total'
  PROVE  IndInv'
<1>1. Marks /\ Marks'
  BY MarksOrdered DEF IndInv
<1>2. meta <= flushed
  BY <1>1 DEF IndInv, Marks, Surviving
<1>3. meta' <= Surviving'
  BY <1>1 DEF IndInv, Marks, Surviving
<1>4. \A i \in 1 .. meta' : wal'[i] \in seen' \/ ~Intact(wal'[i])
  BY <1>1, <1>2 DEF IndInv, Marks, Settled
<1>5. mode' # "down" => checkpoint' = meta'
  BY DEF IndInv
<1>6. QED
  BY <1>3, <1>4, <1>5 DEF IndInv, Settled
\* A step that leaves the dispatcher, the sink and both checkpoints alone.
LEMMA QuietStep ==
  ASSUME IndInv, TypeOK', hand' = hand, meta' = meta, checkpoint' = checkpoint, seen' = seen,
         flushed <= flushed', \A i \in 1 .. flushed : wal'[i] = wal[i],
         synced <= synced', mode # "down", mode' # "down",
         mode' = "closed" => flushed' = Total',
         SyncPolicy = "SyncEveryRecord" /\ "process" \notin CrashKinds => synced' = Total'
  PROVE  IndInv'
<1>1. HandInv'
  BY HandKept DEF IndInv
<1>2. QED
  BY <1>1, LogKept

\* A step that leaves the dispatcher with nothing in hand, and the log as it
\* was but for flushing and fsync.
LEMMA DropStep ==
  ASSUME IndInv, TypeOK', hand' = Idle, wal' = wal, meta' = meta, checkpoint' = checkpoint,
         seen' = seen, flushed <= flushed', synced <= synced', mode' = mode
  PROVE  IndInv'
<1>1. HandInv'
  BY DEF HandInv, Idle
<1>2. Marks /\ Marks'
  BY MarksOrdered DEF IndInv
<1>3. mode' \in {"closed", "down"} => flushed' = Total'
  BY <1>2 DEF IndInv, Marks
<1>4. SyncPolicy = "SyncEveryRecord" /\ "process" \notin CrashKinds => synced' = Total'
  BY <1>2 DEF IndInv, Marks
<1>5. QED
  BY <1>1, <1>3, <1>4, LogKept
\* Every step keeps IndInv under the settings of SafeSetup.  Commit is where
\* they are needed: what it puts behind the checkpoint must be among the
\* frames that survive.
LEMMA IndStep ==
  ASSUME SafeSetup, IndInv, [Next]_vars
  PROVE  IndInv'
<1> USE DEF Total, disk, memory, callers
<1>1. TypeOK /\ TypeOK' /\ Marks /\ Marks'
  BY TypeStep, MarksOrdered DEF IndInv
<1>2. CASE TakeID
  BY <1>1, <1>2, QuietStep DEF TakeID, Marks, IndInv
<1>3. ASSUME NEW r \in reserved, AppendRefused(r)
      PROVE  IndInv'
  BY <1>1, <1>3, QuietStep DEF AppendRefused, Marks, IndInv
<1>4. ASSUME NEW r \in reserved, AppendAcked(r)
      PROVE  IndInv'
  <2>1. r \in Frame
    BY <1>1 DEF TypeOK
  <2>2. Len(wal') = Len(wal) + 1 /\ \A i \in 1 .. Len(wal) : wal'[i] = wal[i]
    BY <1>1, <1>4, <2>1, AppendProperties DEF AppendAcked, WriteFrame, Marks
  <2>3. flushed <= flushed' /\ synced <= synced'
    BY <1>1, <1>4 DEF AppendAcked, WriteFrame, Marks
  <2>4. SyncPolicy = "SyncEveryRecord" => synced' = Len(wal')
    BY <1>4, <2>2 DEF AppendAcked, WriteFrame
  <2>5. /\ mode = "open" /\ mode' = mode /\ meta' = meta /\ checkpoint' = checkpoint
        /\ hand' = hand /\ seen' = seen
    BY <1>4 DEF AppendAcked, Admitted
  <2>6. \A i \in 1 .. flushed : wal'[i] = wal[i]
    BY <1>1, <2>2 DEF Marks
  <2>7. QED
    BY <1>1, <2>3, <2>4, <2>5, <2>6, QuietStep
<1>5. ASSUME NEW r \in reserved, AppendFailed(r)
      PROVE  IndInv'
  <2>1. PICK target \in flushed .. Total : RollbackTo(target)
    BY <1>1, <1>5 DEF AppendFailed, Marks
  <2>2. Len(wal') = target /\ \A i \in 1 .. target : wal'[i] = wal[i]
    BY <1>1, <2>1, PrefixProps DEF RollbackTo, First, Marks
  <2>3. /\ mode = "open" /\ mode' = mode /\ meta' = meta /\ checkpoint' = checkpoint
        /\ hand' = hand /\ seen' = seen /\ synced' = synced
    BY <1>5 DEF AppendFailed, Admitted
  <2>4. flushed' = target /\ flushed <= flushed' /\ \A i \in 1 .. flushed : wal'[i] = wal[i]
    BY <1>1, <2>1, <2>2 DEF RollbackTo, Marks
  <2>5. SyncPolicy = "SyncEveryRecord" /\ "process" \notin CrashKinds => synced' = Len(wal')
    BY <1>1, <2>1, <2>2, <2>3 DEF IndInv, Marks
  <2>6. synced <= synced' /\ mode # "down" /\ mode' # "closed" /\ mode' # "down"
    BY <1>1, <2>3 DEF Marks
  <2>7. QED
    BY <1>1, <2>3, <2>4, <2>5, <2>6, QuietStep
<1>6. CASE ReadBatch
  <2>1. flushed' = Len(wal) /\ flushed <= flushed'
    BY <1>1, <1>6 DEF ReadBatch, FlushWriter, Marks
  <2>2. /\ mode = "open" /\ mode' = mode /\ meta' = meta /\ checkpoint' = checkpoint
        /\ seen' = seen /\ synced' = synced /\ wal' = wal
    BY <1>6 DEF ReadBatch
  <2>3. HandInv'
    <3>1. CASE Intact(wal[checkpoint + 1])
      <4>1. PICK upto \in checkpoint + 1 .. Total :
              hand' = [phase |-> "deliver", upto |-> upto,
                       frames |-> SubSeq(wal, checkpoint + 1, upto)]
        BY <1>6, <3>1 DEF ReadBatch
      <4>2. SubSeq(wal, checkpoint + 1, upto) # <<>>
        BY <1>1, <4>1, SliceNotEmpty DEF Marks
      <4>3. /\ hand'.phase = "deliver" /\ hand'.upto = upto
            /\ hand'.frames = SubSeq(wal, checkpoint + 1, upto)
        BY <4>1
      <4>4. upto \in checkpoint + 1 .. flushed'
        BY <1>1, <2>1, <4>1 DEF Marks
      <4>5. QED
        BY <2>2, <4>2, <4>3, <4>4 DEF HandInv
    <3>2. CASE ~Intact(wal[checkpoint + 1])
      <4>1. hand' = [phase |-> "commit", upto |-> checkpoint + 1, frames |-> <<>>]
        BY <1>6, <3>2 DEF ReadBatch
      <4>2. checkpoint + 1 \in checkpoint + 1 .. flushed'
        BY <1>1, <1>6, <2>1 DEF ReadBatch, Marks
      <4>3. /\ hand'.phase = "commit" /\ hand'.upto = checkpoint + 1 /\ hand'.frames = <<>>
        BY <4>1
      <4>4. \A i \in checkpoint + 1 .. hand'.upto : ~Intact(wal[i])
        BY <1>1, <3>2, <4>3 DEF Marks
      <4>5. QED
        BY <2>2, <3>2, <4>2, <4>3, <4>4 DEF HandInv, Settled
    <3>3. QED
      BY <3>1, <3>2
  <2>4. SyncPolicy = "SyncEveryRecord" /\ "process" \notin CrashKinds => synced' = Len(wal')
    BY <2>2 DEF IndInv
  <2>5. QED
    BY <1>1, <2>1, <2>2, <2>3, <2>4, LogKept DEF Marks
<1>7. CASE ReadNothing
  <2>1. flushed' \in flushed .. Total
    BY <1>1, <1>7, FlushType DEF ReadNothing
  <2>2. /\ mode = "open" /\ mode' = mode /\ meta' = meta /\ checkpoint' = checkpoint
        /\ hand' = hand /\ seen' = seen /\ synced' = synced /\ wal' = wal
    BY <1>7 DEF ReadNothing
  <2>3. SyncPolicy = "SyncEveryRecord" /\ "process" \notin CrashKinds => synced' = Len(wal')
    BY <2>2 DEF IndInv
  <2>4. QED
    BY <1>1, <2>1, <2>2, <2>3, QuietStep DEF Marks
<1>8. CASE SinkSettles
  <2>1. /\ hand.phase = "deliver" /\ hand' = [hand EXCEPT !.phase = "commit"]
        /\ seen' = seen \union {hand.frames[i] : i \in DOMAIN hand.frames}
        /\ UNCHANGED <<wal, flushed, synced, meta, mode, checkpoint>>
    BY <1>8 DEF SinkSettles
  <2>2. /\ hand'.phase = "commit" /\ hand'.upto = hand.upto /\ hand'.frames = hand.frames
    BY <1>1, <2>1 DEF TypeOK
  <2>3. /\ hand.upto \in checkpoint + 1 .. flushed
        /\ hand.frames # <<>> /\ hand.frames = SubSeq(wal, checkpoint + 1, hand.upto)
    BY <1>1, <2>1 DEF IndInv, HandInv
  <2>4. ASSUME NEW i \in checkpoint + 1 .. hand.upto
        PROVE  wal[i] \in seen'
    <3>1. /\ hand.frames \in Seq(Frame) /\ Len(hand.frames) = hand.upto - checkpoint
          /\ \A j \in 1 .. hand.upto - checkpoint : hand.frames[j] = wal[checkpoint + j]
      <4>1. hand.upto \in checkpoint + 1 .. Len(wal) /\ checkpoint \in Nat /\ wal \in Seq(Frame)
        BY <1>1, <2>3 DEF Marks
      <4>2. LET t == SubSeq(wal, checkpoint + 1, hand.upto)
            IN  /\ t \in Seq(Frame) /\ Len(t) = hand.upto - checkpoint
                /\ \A j \in 1 .. hand.upto - checkpoint : t[j] = wal[checkpoint + j]
        BY <4>1, SliceProps
      <4>3. QED
        BY <2>3, <4>2
    <3>2. DOMAIN hand.frames = 1 .. hand.upto - checkpoint
      BY <3>1, LenProperties
    <3>3. i - checkpoint \in DOMAIN hand.frames /\ hand.frames[i - checkpoint] = wal[i]
      BY <1>1, <3>1, <3>2 DEF Marks
    <3>4. QED
      BY <2>1, <3>3
  <2>5. HandInv'
    BY <2>1, <2>2, <2>3, <2>4 DEF HandInv, Settled
  <2>6. seen \subseteq seen'
    BY <2>1
  <2>7. /\ mode' \in {"closed", "down"} => flushed' = Total'
        /\ SyncPolicy = "SyncEveryRecord" /\ "process" \notin CrashKinds => synced' = Total'
    BY <2>1 DEF IndInv
  <2>8. QED
    BY <1>1, <2>1, <2>5, <2>6, <2>7, LogKept DEF Marks
<1>9. CASE SinkFails
  BY <1>1, <1>9, DropStep DEF SinkFails, Marks
<1>10. CASE Commit
  <2>1. /\ hand.phase = "commit" /\ mode = "open" /\ hand.upto > checkpoint /\ CommitSync
        /\ meta' = hand.upto /\ checkpoint' = hand.upto /\ hand' = Idle
        /\ UNCHANGED <<wal, mode, seen>>
    BY <1>10 DEF Commit
  <2>2. flushed' \in flushed .. Len(wal) /\ synced <= synced' /\ synced' \in {synced, Len(wal)}
    BY <1>1, <2>1 DEF CommitSync, FlushWriter, Marks
  <2>3. hand.upto \in checkpoint + 1 .. flushed
    BY <2>1 DEF IndInv, HandInv
  <2>4. meta' <= Surviving'
    <3>1. CASE "power" \notin CrashKinds
      BY <1>1, <2>1, <2>2, <2>3, <3>1 DEF Surviving, Marks
    <3>2. CASE SyncPolicy = "SyncBatchCommit"
      <4>1. synced' = Len(wal) /\ flushed' = Len(wal)
        BY <2>1, <3>2 DEF CommitSync, FlushWriter
      <4>2. QED
        BY <1>1, <2>1, <2>3, <4>1 DEF Surviving, Marks
    <3>3. CASE SyncPolicy = "SyncEveryRecord" /\ "process" \notin CrashKinds
      <4>1. synced = Len(wal)
        BY <3>3 DEF IndInv
      <4>2. QED
        BY <1>1, <2>1, <2>2, <2>3, <4>1 DEF Surviving, Marks
    <3>4. QED
      BY <3>1, <3>2, <3>3 DEF SafeSetup
  <2>5. \A i \in 1 .. hand.upto : Settled(wal[i])
    <3>1. \A i \in checkpoint + 1 .. hand.upto : Settled(wal[i])
      BY <2>1 DEF IndInv, HandInv
    <3>2. \A i \in 1 .. checkpoint : Settled(wal[i])
      BY <2>1 DEF IndInv
    <3>3. QED
      BY <1>1, <3>1, <3>2 DEF Marks
  <2>6. \A i \in 1 .. meta' : wal'[i] \in seen' \/ ~Intact(wal'[i])
    BY <2>1, <2>5 DEF Settled
  <2>7. SyncPolicy = "SyncEveryRecord" /\ "process" \notin CrashKinds => synced' = Len(wal')
    BY <2>1, <2>2 DEF IndInv
  <2>8. HandInv'
    BY <2>1 DEF HandInv, Idle
  <2>9. QED
    BY <1>1, <2>1, <2>4, <2>6, <2>7, <2>8 DEF IndInv, Settled
<1>11. CASE CommitNothing
  <2>1. flushed' \in flushed .. Len(wal)
    <3>1. CASE UNCHANGED <<flushed, writer>>
      BY <1>1, <3>1 DEF Marks
    <3>2. QED
      BY <1>1, <1>11, <3>1, FlushType DEF CommitNothing
  <2>2. synced <= synced'
    BY <1>1, <1>11 DEF CommitNothing, Marks
  <2>3. hand' = Idle /\ UNCHANGED <<wal, meta, mode, checkpoint, seen>>
    BY <1>11 DEF CommitNothing
  <2>4. QED
    BY <1>1, <2>1, <2>2, <2>3, DropStep DEF Marks
<1>12. CASE Flush
  <2>1. flushed' \in flushed .. Total
    BY <1>1, <1>12, FlushType DEF Flush
  <2>2. /\ mode = "open" /\ mode' = mode /\ meta' = meta /\ checkpoint' = checkpoint
        /\ hand' = hand /\ seen' = seen /\ wal' = wal
    BY <1>12 DEF Flush
  <2>3. synced' = synced \/ synced' = Len(wal)
    BY <1>12 DEF Flush
  <2>4. SyncPolicy = "SyncEveryRecord" /\ "process" \notin CrashKinds => synced' = Len(wal')
    BY <2>2, <2>3 DEF IndInv
  <2>5. QED
    BY <1>1, <2>1, <2>2, <2>3, <2>4, QuietStep DEF Marks
<1>13. CASE CloseBegin
  BY <1>1, <1>13, QuietStep DEF CloseBegin, Marks, IndInv
<1>14. CASE CloseEnd
  <2>1. flushed' \in flushed .. Len(wal)
    BY <1>1, <1>14, FlushType DEF CloseEnd
  <2>2. /\ mode = "closing" /\ mode' = "closed"
        /\ UNCHANGED <<meta, checkpoint, hand, seen>>
    BY <1>14 DEF CloseEnd
  <2>3. /\ flushed' = Len(wal') /\ \A i \in 1 .. flushed : wal'[i] = wal[i]
        /\ synced' \in {synced, flushed'}
    <3>1. CASE FlushWriter /\ wal' = wal
      BY <1>14, <3>1 DEF CloseEnd, FlushWriter, FlushWriterFails
    <3>2. CASE FlushWriterFails /\ wal' = First(flushed') /\ synced' \in {synced, flushed'}
      <4>1. Len(wal') = flushed' /\ \A i \in 1 .. flushed' : wal'[i] = wal[i]
        BY <1>1, <2>1, <3>2, PrefixProps DEF First, Marks
      <4>2. QED
        BY <1>1, <2>1, <3>2, <4>1 DEF Marks
    <3>3. QED
      BY <1>14, <3>1, <3>2 DEF CloseEnd
  <2>4. synced <= synced'
    BY <1>1, <2>1, <2>3 DEF Marks
  <2>5. SyncPolicy = "SyncEveryRecord" /\ "process" \notin CrashKinds => synced' = Len(wal')
    BY <1>1, <2>1, <2>3 DEF IndInv, Marks
  <2>6. QED
    BY <1>1, <2>1, <2>2, <2>3, <2>4, <2>5, QuietStep DEF Marks
<1>15. CASE ProcessCrash
  <2>1. PICK inflight \in InFlight :
          \E n \in flushed .. Reach(inflight) :
            wal' = SubSeq(wal \o inflight, 1, n) /\ flushed' = n
    BY <1>15 DEF ProcessCrash
  <2>2. PICK n \in flushed .. Reach(inflight) :
          wal' = SubSeq(wal \o inflight, 1, n) /\ flushed' = n
    BY <2>1
  <2>3. Len(wal') = n /\ \A i \in 1 .. n : wal'[i] = (wal \o inflight)[i]
    BY <1>1, <2>2, InFlightType, PrefixProps DEF Marks
  <2>4. /\ mode' = "down" /\ hand' = Idle /\ "process" \in CrashKinds
        /\ UNCHANGED <<synced, meta, seen>>
    BY <1>15 DEF ProcessCrash, ProcessDies
  <2>5. flushed <= n /\ n \in Nat
    BY <1>1, <2>2, InFlightType DEF Marks
  <2>6. \A i \in 1 .. flushed : wal'[i] = wal[i]
    BY <1>1, <2>3, <2>5, InFlightType DEF Marks
  <2>7. meta <= flushed /\ meta' <= Surviving'
    BY <1>1, <2>2, <2>4, <2>5 DEF IndInv, Marks, Surviving
  <2>8. \A i \in 1 .. meta' : wal'[i] \in seen' \/ ~Intact(wal'[i])
    BY <1>1, <2>4, <2>6, <2>7 DEF IndInv, Marks, Settled
  <2>9. flushed' = Len(wal') /\ HandInv'
    BY <2>2, <2>3, <2>4 DEF HandInv, Idle
  <2>10. QED
    BY <1>1, <2>4, <2>7, <2>8, <2>9 DEF IndInv, Settled
<1>16. CASE PowerLoss
  <2>1. PICK inflight \in InFlight :
          \E n \in synced .. Reach(inflight) :
            \E damaged \in SUBSET (synced + 1 .. n) :
              /\ wal' = [i \in 1 .. n |-> Spoil(wal \o inflight, damaged, i)]
              /\ flushed' = n /\ synced' = n
    BY <1>16 DEF PowerLoss
  <2>2. PICK n \in synced .. Reach(inflight) :
          \E damaged \in SUBSET (synced + 1 .. n) :
            /\ wal' = [i \in 1 .. n |-> Spoil(wal \o inflight, damaged, i)]
            /\ flushed' = n /\ synced' = n
    BY <2>1
  <2>3. PICK damaged \in SUBSET (synced + 1 .. n) :
          /\ wal' = [i \in 1 .. n |-> Spoil(wal \o inflight, damaged, i)]
          /\ flushed' = n /\ synced' = n
    BY <2>2
  <2>4. /\ mode' = "down" /\ hand' = Idle /\ "power" \in CrashKinds
        /\ UNCHANGED <<meta, seen>>
    BY <1>16 DEF PowerLoss, ProcessDies
  <2>5. synced <= n /\ n \in Nat /\ Len(wal') = n
    BY <1>1, <2>2, <2>3, InFlightType DEF Marks
  <2>6. \A i \in 1 .. synced : wal'[i] = wal[i]
    BY <1>1, <2>3, <2>5, InFlightType DEF Marks, Spoil
  <2>7. meta <= synced /\ meta' <= Surviving'
    BY <1>1, <2>3, <2>4, <2>5 DEF IndInv, Marks, Surviving
  <2>8. \A i \in 1 .. meta' : wal'[i] \in seen' \/ ~Intact(wal'[i])
    BY <1>1, <2>4, <2>6, <2>7 DEF IndInv, Marks, Settled
  <2>9. flushed' = Len(wal') /\ synced' = Len(wal') /\ HandInv'
    BY <2>3, <2>4, <2>5 DEF HandInv, Idle
  <2>10. QED
    BY <1>1, <2>4, <2>7, <2>8, <2>9 DEF IndInv, Settled
<1>17. CASE Recover
  <2>1. /\ mode \in {"closed", "down"} /\ mode' = "open" /\ hand' = Idle
        /\ checkpoint' = Min2(meta, Len(wal))
        /\ UNCHANGED <<wal, flushed, synced, meta, seen>>
    BY <1>17 DEF Recover
  <2>2. meta <= Surviving /\ flushed = Len(wal)
    BY <2>1 DEF IndInv
  <2>3. checkpoint' = meta'
    BY <1>1, <2>1, <2>2 DEF Min2, Marks, Surviving
  <2>4. meta' <= Surviving' /\ HandInv'
    BY <2>1, <2>2 DEF Surviving, HandInv, Idle
  <2>5. \A i \in 1 .. meta' : wal'[i] \in seen' \/ ~Intact(wal'[i])
    BY <2>1 DEF IndInv, Settled
  <2>6. SyncPolicy = "SyncEveryRecord" /\ "process" \notin CrashKinds => synced' = Len(wal')
    BY <2>1 DEF IndInv
  <2>7. QED
    BY <1>1, <2>1, <2>3, <2>4, <2>5, <2>6 DEF IndInv, Settled
<1>18. CASE UNCHANGED vars
  BY <1>1, <1>18 DEF vars, IndInv, Marks, Surviving, Settled, HandInv
<1>19. QED
  BY <1>2, <1>3, <1>4, <1>5, <1>6, <1>7, <1>8, <1>9, <1>10, <1>11, <1>12, <1>13, <1>14,
     <1>15, <1>16, <1>17, <1>18 DEF Next

\* The inductive invariant holds in every state of the safe settings.
THEOREM SafeInvariant ==
  ASSUME SafeSetup
  PROVE  Spec => []IndInv
<1>1. Init => IndInv
  <2> SUFFICES ASSUME Init
               PROVE  IndInv
    OBVIOUS
  <2>1. TypeOK /\ HandInv
    BY DEF Init, TypeOK, HandInv, Idle, Total
  <2>2. QED
    BY <2>1 DEF Init, IndInv, Surviving, Total
<1>2. IndInv /\ [Next]_vars => IndInv'
  BY IndStep
<1>3. QED
  BY <1>1, <1>2, PTL DEF Spec

\* No Commit and no restart skips a record the sink has not taken, in the
\* settings where the checkpoint cannot outlive the log.
THEOREM NothingIsSkipped ==
  ASSUME SafeSetup
  PROVE  Spec => []NothingSkipped
<1>1. IndInv => NothingSkipped
  <2> SUFFICES ASSUME IndInv
               PROVE  NothingSkipped
    OBVIOUS
  <2>1. Marks
    BY MarksOrdered DEF IndInv
  <2>2. mode = "open" => checkpoint = meta
    BY DEF IndInv
  <2>3. Behind <= meta /\ Behind \in Nat
    BY <2>1, <2>2 DEF Behind, Min2, Marks
  <2>4. QED
    BY <2>1, <2>3 DEF IndInv, NothingSkipped, Marks
<1>2. QED
  BY <1>1, SafeInvariant, PTL

\* What the dispatcher delivers is what the log holds when it commits.
THEOREM HandStaysCurrent ==
  ASSUME SafeSetup
  PROVE  Spec => []HandIsCurrent
<1>1. IndInv => HandIsCurrent
  <2> SUFFICES ASSUME IndInv, hand.phase # "idle"
               PROVE  LET from == hand.upto - Len(hand.frames)
                      IN  /\ hand.upto \in 1 .. flushed
                          /\ hand.frames = SubSeq(wal, from + 1, hand.upto)
                          /\ hand.frames = <<>> => ~Intact(wal[hand.upto])
    BY DEF HandIsCurrent
  <2>1. Marks /\ hand.upto \in checkpoint + 1 .. flushed
    BY MarksOrdered DEF IndInv, HandInv
  <2>2. CASE hand.frames = <<>>
    <3>1. hand.upto - Len(hand.frames) = hand.upto
      BY <2>1, <2>2, EmptySeq DEF Marks
    <3>2. SubSeq(wal, hand.upto + 1, hand.upto) = <<>>
      BY <2>1, SubSeqProperties DEF Marks
    <3>3. QED
      BY <2>1, <2>2, <3>1, <3>2 DEF IndInv, HandInv, Marks
  <2>3. CASE hand.frames # <<>>
    <3>1. hand.frames = SubSeq(wal, checkpoint + 1, hand.upto)
      BY <2>3 DEF IndInv, HandInv
    <3>2. hand.upto \in checkpoint + 1 .. Len(wal)
      BY <2>1 DEF Marks
    <3>3. Len(hand.frames) = hand.upto - checkpoint
      BY <2>1, <3>1, <3>2, SliceProps DEF Marks
    <3>4. hand.upto - Len(hand.frames) = checkpoint
      BY <2>1, <3>3 DEF Marks
    <3>5. hand.upto \in 1 .. flushed
      BY <2>1 DEF Marks
    <3>6. QED
      BY <2>3, <3>1, <3>4, <3>5
  <2>4. QED
    BY <2>2, <2>3
<1>2. QED
  BY <1>1, SafeInvariant, PTL

\* checkpoint.meta only grows: a Commit moves it forward, and no restart ever
\* makes a later Commit start lower.
THEOREM MetaGrows ==
  ASSUME SafeSetup
  PROVE  Spec => MetaNeverRegresses
<1>1. IndInv /\ [Next]_vars => [meta' >= meta]_vars
  <2> SUFFICES ASSUME IndInv, Next
               PROVE  meta' >= meta
    OBVIOUS
  <2>1. Marks
    BY MarksOrdered DEF IndInv
  <2>2. CASE Commit
    <3>1. mode = "open" /\ meta' = hand.upto /\ hand.upto > checkpoint
      BY <2>2 DEF Commit
    <3>2. QED
      BY <2>1, <3>1 DEF IndInv, Marks
  <2>3. CASE ~Commit
    <3>1. meta' = meta
      BY <2>3 DEF Next, disk, TakeID, AppendRefused, AppendAcked, AppendFailed, ReadBatch,
         ReadNothing, SinkSettles, SinkFails, CommitNothing, Flush, CloseBegin, CloseEnd,
         ProcessCrash, PowerLoss, ProcessDies, Recover
    <3>2. QED
      BY <2>1, <3>1 DEF Marks
  <2>4. QED
    BY <2>2, <2>3
<1>2. QED
  BY <1>1, SafeInvariant, PTL DEF Spec, MetaNeverRegresses

\* What an fsync put on the medium stays as it is, in every setting: no
\* rollback, Close or crash reaches below the synced mark.
THEOREM DurableStays == Spec => DurablePrefixKept
<1>1. TypeOK /\ [Next]_vars =>
        [Len(wal') >= synced /\ \A i \in 1 .. synced : wal'[i] = wal[i]]_vars
  <2> SUFFICES ASSUME TypeOK, Next
               PROVE  Len(wal') >= synced /\ \A i \in 1 .. synced : wal'[i] = wal[i]
    OBVIOUS
  <2>1. Marks
    BY MarksOrdered
  <2>2. CASE \E r \in reserved : AppendAcked(r)
    <3>1. PICK r \in reserved : AppendAcked(r)
      BY <2>2
    <3>2. wal' = Append(wal, r) /\ r \in Frame
      BY <3>1 DEF AppendAcked, WriteFrame, TypeOK
    <3>3. QED
      BY <2>1, <3>2, AppendProperties DEF Marks
  <2>3. CASE \E r \in reserved : AppendFailed(r)
    <3>1. PICK target \in flushed .. Total : wal' = First(target)
      BY <2>1, <2>3 DEF AppendFailed, RollbackTo, Marks
    <3>2. QED
      BY <2>1, <3>1, PrefixProps DEF First, Marks
  <2>4. CASE CloseEnd
    <3>1. flushed' \in flushed .. Total
      BY <2>4, FlushType DEF CloseEnd
    <3>2. wal' = wal \/ wal' = First(flushed')
      BY <2>4 DEF CloseEnd
    <3>3. QED
      BY <2>1, <3>1, <3>2, PrefixProps DEF First, Marks
  <2>5. CASE ProcessCrash
    <3>1. PICK inflight \in InFlight :
            \E n \in flushed .. Reach(inflight) : wal' = SubSeq(wal \o inflight, 1, n)
      BY <2>5 DEF ProcessCrash
    <3>2. PICK n \in flushed .. Reach(inflight) : wal' = SubSeq(wal \o inflight, 1, n)
      BY <3>1
    <3>3. Len(wal') = n /\ \A i \in 1 .. n : wal'[i] = (wal \o inflight)[i]
      BY <2>1, <3>2, InFlightType, PrefixProps DEF Marks
    <3>4. QED
      BY <2>1, <3>2, <3>3, InFlightType DEF Marks
  <2>6. CASE PowerLoss
    <3>1. PICK inflight \in InFlight :
            \E n \in synced .. Reach(inflight) :
              \E damaged \in SUBSET (synced + 1 .. n) :
                wal' = [i \in 1 .. n |-> Spoil(wal \o inflight, damaged, i)]
      BY <2>6 DEF PowerLoss
    <3>2. PICK n \in synced .. Reach(inflight) :
            \E damaged \in SUBSET (synced + 1 .. n) :
              wal' = [i \in 1 .. n |-> Spoil(wal \o inflight, damaged, i)]
      BY <3>1
    <3>3. PICK damaged \in SUBSET (synced + 1 .. n) :
            wal' = [i \in 1 .. n |-> Spoil(wal \o inflight, damaged, i)]
      BY <3>2
    <3>4. synced <= n /\ n \in Nat /\ Len(wal') = n
      BY <2>1, <3>2, <3>3, InFlightType DEF Marks
    <3>5. QED
      BY <2>1, <3>3, <3>4, InFlightType DEF Marks, Spoil
  <2>7. CASE UNCHANGED wal
    BY <2>1, <2>7 DEF Marks
  <2>8. QED
    BY <2>2, <2>3, <2>4, <2>5, <2>6, <2>7 DEF Next, disk, TakeID, AppendRefused, ReadBatch,
       ReadNothing, SinkSettles, SinkFails, Commit, CommitNothing, Flush, CloseBegin, Recover
<1>2. QED
  BY <1>1, TypeCorrect, PTL DEF Spec, DurablePrefixKept

-----------------------------------------------------------------------------
(* Single records, and the log as a queue *)

\* The settings in which a delivered record is never cut from the log:
\* SyncBatchCommit is not among them when the host may fail, because a batch
\* is delivered before the Commit that fsyncs it.
UniqueSetup ==
  \/ "power" \notin CrashKinds
  \/ SyncPolicy = "SyncEveryRecord" /\ "process" \notin CrashKinds

\* The settings in which Append returns after its frame is out of reach of
\* any crash.
AckedSetup == SafeSetup /\ SyncPolicy = "SyncEveryRecord"

-----------------------------------------------------------------------------
(* How the log changes *)

\* The frames a crash leaves are never moved, damaged or removed.
LEMMA SurvivorsKept ==
  ASSUME TypeOK, [Next]_vars
  PROVE  Surviving <= Surviving' /\ \A i \in 1 .. Surviving : wal'[i] = wal[i]
<1> USE DEF Surviving
<1>1. Marks /\ Marks'
  BY TypeStep, MarksOrdered
<1>2. CASE \E r \in reserved : AppendAcked(r)
  <2>1. PICK r \in reserved : AppendAcked(r)
    BY <1>2
  <2>2. wal' = Append(wal, r) /\ r \in Frame
    BY <2>1 DEF AppendAcked, WriteFrame, TypeOK
  <2>3. \A i \in 1 .. Total : wal'[i] = wal[i]
    BY <1>1, <2>2, AppendProperties DEF Marks
  <2>4. synced <= synced' /\ flushed <= flushed'
    BY <1>1, <2>1 DEF AppendAcked, WriteFrame, Marks
  <2> QED
    BY <1>1, <2>3, <2>4 DEF Marks
<1>3. CASE \E r \in reserved : AppendFailed(r)
  <2>1. PICK target \in flushed .. Total : RollbackTo(target)
    BY <1>1, <1>3 DEF AppendFailed, Marks
  <2>2. \A i \in 1 .. target : wal'[i] = wal[i]
    BY <1>1, <2>1, PrefixProps DEF RollbackTo, First, Marks
  <2>3. synced' = synced /\ flushed' = target
    BY <1>3, <2>1 DEF AppendFailed, RollbackTo
  <2> QED
    BY <1>1, <2>2, <2>3 DEF Marks
<1>4. CASE CloseEnd
  <2>1. flushed' \in flushed .. Total /\ synced <= synced'
    BY <1>1, <1>4, FlushType DEF CloseEnd, Marks, FlushWriter
  <2>2. wal' = wal \/ wal' = First(flushed')
    BY <1>4 DEF CloseEnd
  <2>3. \A i \in 1 .. flushed : wal'[i] = wal[i]
    BY <1>1, <2>1, <2>2, PrefixProps DEF First, Marks
  <2> QED
    BY <1>1, <2>1, <2>3 DEF Marks
<1>5. CASE ProcessCrash
  <2>1. PICK inflight \in InFlight :
          \E n \in flushed .. Reach(inflight) :
            wal' = SubSeq(wal \o inflight, 1, n) /\ flushed' = n
    BY <1>5 DEF ProcessCrash
  <2>2. PICK n \in flushed .. Reach(inflight) :
          wal' = SubSeq(wal \o inflight, 1, n) /\ flushed' = n
    BY <2>1
  <2>3. \A i \in 1 .. n : wal'[i] = (wal \o inflight)[i]
    BY <1>1, <2>2, InFlightType, PrefixProps DEF Marks
  <2>4. synced' = synced
    BY <1>5 DEF ProcessCrash
  <2> QED
    BY <1>1, <2>2, <2>3, <2>4, InFlightType DEF Marks
<1>6. CASE PowerLoss
  <2>1. PICK inflight \in InFlight :
          \E n \in synced .. Reach(inflight) :
            \E damaged \in SUBSET (synced + 1 .. n) :
              /\ wal' = [i \in 1 .. n |-> Spoil(wal \o inflight, damaged, i)]
              /\ synced' = n
    BY <1>6 DEF PowerLoss
  <2>2. PICK n \in synced .. Reach(inflight) :
          \E damaged \in SUBSET (synced + 1 .. n) :
            /\ wal' = [i \in 1 .. n |-> Spoil(wal \o inflight, damaged, i)]
            /\ synced' = n
    BY <2>1
  <2>3. PICK damaged \in SUBSET (synced + 1 .. n) :
          wal' = [i \in 1 .. n |-> Spoil(wal \o inflight, damaged, i)] /\ synced' = n
    BY <2>2
  <2>4. \A i \in 1 .. synced : wal'[i] = wal[i]
    BY <1>1, <2>2, <2>3, InFlightType DEF Marks, Spoil
  <2> QED
    <3>1. "power" \in CrashKinds
      BY <1>6 DEF PowerLoss
    <3>2. synced <= synced'
      BY <1>1, <2>2, <2>3, InFlightType DEF Marks
    <3> QED
      BY <2>4, <3>1, <3>2
<1>7. CASE UNCHANGED wal /\ synced <= synced' /\ flushed <= flushed'
  BY <1>1, <1>7 DEF Marks
<1>8. CASE ReadBatch \/ ReadNothing \/ Commit \/ CommitNothing \/ Flush
  <2>1. UNCHANGED wal
    BY <1>8 DEF ReadBatch, ReadNothing, Commit, CommitNothing, Flush
  <2>2. flushed' \in flushed .. Total
    <3>1. UNCHANGED flushed \/ FlushWriter \/ FlushWriterFails
      BY <1>8 DEF ReadBatch, ReadNothing, Commit, CommitSync, CommitNothing, Flush
    <3> QED
      BY <1>1, <3>1, FlushType DEF Marks
  <2>3. synced' \in {synced, Total}
    BY <1>8 DEF ReadBatch, ReadNothing, Commit, CommitSync, CommitNothing, Flush
  <2> QED
    BY <1>1, <1>7, <2>1, <2>2, <2>3 DEF Marks
<1>9. CASE TakeID \/ (\E r \in reserved : AppendRefused(r)) \/ SinkSettles \/ SinkFails \/ CloseBegin
           \/ Recover \/ UNCHANGED vars
  BY <1>1, <1>7, <1>9
     DEF TakeID, AppendRefused, SinkSettles, SinkFails, CloseBegin, Recover, vars, disk, Marks
<1> QED
  BY <1>2, <1>3, <1>4, <1>5, <1>6, <1>8, <1>9 DEF Next

\* A frame that is in the log after a step was in it before, perhaps with
\* another body, or is that of one Append.
KeptId(i) == i \in DOMAIN wal /\ wal'[i].id = wal[i].id

LEMMA LogStep ==
  ASSUME TypeOK, [Next]_vars
  PROVE  \/ \A i \in DOMAIN wal' : KeptId(i)
         \/ \E r \in reserved :
              /\ mode = "open" /\ (r \notin reserved' \/ mode' # "open")
              /\ \A i \in DOMAIN wal' : KeptId(i) \/ (i = Total + 1 /\ wal'[i].id = r.id)
<1>1. Marks /\ Marks' /\ DOMAIN wal = 1 .. Total /\ DOMAIN wal' = 1 .. Len(wal')
  BY TypeStep, MarksOrdered, LenProperties DEF Marks
<1>2. CASE \E r \in reserved : AppendAcked(r)
  <2>1. PICK r \in reserved : AppendAcked(r)
    BY <1>2
  <2>2. wal' = Append(wal, r) /\ r \in Frame
    BY <2>1 DEF AppendAcked, WriteFrame, TypeOK
  <2>3. /\ Len(wal') = Total + 1 /\ wal'[Total + 1] = r
        /\ \A i \in 1 .. Total : wal'[i] = wal[i]
    BY <1>1, <2>2, AppendProperties DEF Marks
  <2>4. mode = "open" /\ r \notin reserved'
    BY <2>1 DEF AppendAcked, Admitted
  <2>5. ASSUME NEW i \in DOMAIN wal'
        PROVE  KeptId(i) \/ (i = Total + 1 /\ wal'[i].id = r.id)
    <3>1. i \in 1 .. Total \/ i = Total + 1
      BY <1>1, <2>3 DEF Marks
    <3> QED
      BY <1>1, <2>3, <3>1 DEF KeptId
  <2> QED
    BY <2>4, <2>5
<1>3. CASE \E n \in 0 .. Total : wal' = First(n)
  <2>1. PICK n \in 0 .. Total : wal' = First(n)
    BY <1>3
  <2>2. Len(wal') = n /\ \A i \in 1 .. n : wal'[i] = wal[i]
    BY <1>1, <2>1, PrefixProps DEF First, Marks
  <2> QED
    BY <1>1, <2>1, <2>2 DEF KeptId, Marks
<1>4. CASE UNCHANGED wal
  BY <1>4 DEF KeptId
<1>5. CASE ProcessCrash \/ PowerLoss
  <2>1. PICK inflight \in InFlight :
          \A i \in DOMAIN wal' : i \in 1 .. Reach(inflight) /\ wal'[i].id = (wal \o inflight)[i].id
    <3>1. CASE ProcessCrash
      <4>1. PICK inflight \in InFlight :
              \E n \in flushed .. Reach(inflight) : wal' = SubSeq(wal \o inflight, 1, n)
        BY <3>1 DEF ProcessCrash
      <4>2. PICK n \in flushed .. Reach(inflight) : wal' = SubSeq(wal \o inflight, 1, n)
        BY <4>1
      <4>3. Len(wal') = n /\ \A i \in 1 .. n : wal'[i] = (wal \o inflight)[i]
        BY <1>1, <4>2, InFlightType, PrefixProps DEF Marks
      <4>4. n <= Reach(inflight) /\ Reach(inflight) \in Nat /\ n \in Nat
        BY <1>1, <4>2, InFlightType DEF Marks
      <4>5. ASSUME NEW i \in DOMAIN wal'
            PROVE  i \in 1 .. Reach(inflight) /\ wal'[i] = (wal \o inflight)[i]
        <5>1. i \in 1 .. n
          BY <1>1, <4>3
        <5>2. i \in 1 .. Reach(inflight)
          BY <4>4, <5>1
        <5> QED
          BY <4>3, <5>1, <5>2
      <4> QED
        BY <4>5
    <3>2. CASE PowerLoss
      <4>1. PICK inflight \in InFlight :
              \E n \in synced .. Reach(inflight) :
                \E damaged \in SUBSET (synced + 1 .. n) :
                  wal' = [i \in 1 .. n |-> Spoil(wal \o inflight, damaged, i)]
        BY <3>2 DEF PowerLoss
      <4>2. PICK n \in synced .. Reach(inflight) :
              \E damaged \in SUBSET (synced + 1 .. n) :
                wal' = [i \in 1 .. n |-> Spoil(wal \o inflight, damaged, i)]
        BY <4>1
      <4>3. PICK damaged \in SUBSET (synced + 1 .. n) :
              wal' = [i \in 1 .. n |-> Spoil(wal \o inflight, damaged, i)]
        BY <4>2
      <4>4. n \in 0 .. Reach(inflight) /\ DOMAIN wal' = 1 .. n /\ Reach(inflight) \in Nat
            /\ Reach(inflight) <= Len(wal \o inflight) /\ wal \o inflight \in Seq(Frame)
        BY <1>1, <4>2, <4>3, InFlightType DEF Marks
      <4>5. ASSUME NEW i \in 1 .. n
            PROVE  wal'[i].id = (wal \o inflight)[i].id
        <5>1. (wal \o inflight)[i] \in Frame
          BY <4>4, ElementOfSeq
        <5>2. wal'[i] = Spoil(wal \o inflight, damaged, i)
          BY <4>3
        <5>3. [(wal \o inflight)[i] EXCEPT !.body = "damaged"].id = (wal \o inflight)[i].id
          BY <5>1 DEF Frame
        <5> QED
          BY <5>2, <5>3 DEF Spoil
      <4> QED
        BY <4>4, <4>5
    <3> QED
      BY <1>5, <3>1, <3>2
  <2>2. mode' = "down"
    BY <1>5 DEF ProcessCrash, PowerLoss, ProcessDies
  <2>3. CASE inflight = <<>>
    <3>1. wal \o inflight = wal /\ Reach(inflight) <= Total /\ Reach(inflight) \in Nat
      BY <1>1, <2>3, InFlightType, ConcatEmptySeq DEF Marks
    <3> QED
      BY <1>1, <2>1, <3>1 DEF KeptId, Marks
  <2>4. CASE inflight # <<>>
    <3>1. PICK r \in reserved : inflight = <<r>> /\ mode = "open"
      BY <2>4 DEF InFlight
    <3>2. r \in Frame /\ <<r>> \in Seq(Frame) /\ Len(<<r>>) = 1 /\ <<r>>[1] = r
      BY DEF TypeOK
    <3>3. /\ Len(wal \o inflight) = Total + 1 /\ (wal \o inflight)[Total + 1] = r
          /\ \A i \in 1 .. Total : (wal \o inflight)[i] = wal[i]
          /\ Reach(inflight) \in Nat /\ Reach(inflight) <= Total + 1
      <4>1. /\ Len(wal \o <<r>>) = Len(wal) + 1
            /\ (wal \o <<r>>)[Len(wal) + 1] = <<r>>[Len(wal) + 1 - Len(wal)]
        BY <1>1, <3>2, ConcatProperties DEF Marks
      <4>2. Len(wal) + 1 - Len(wal) = 1
        BY <1>1 DEF Marks
      <4>3. /\ Reach(inflight) \in flushed .. Len(wal \o inflight)
            /\ \A i \in 1 .. Total : (wal \o inflight)[i] = wal[i]
        BY InFlightType
      <4> QED
        BY <1>1, <3>1, <3>2, <4>1, <4>2, <4>3 DEF Marks
    <3>4. ASSUME NEW i \in DOMAIN wal'
          PROVE  KeptId(i) \/ (i = Total + 1 /\ wal'[i].id = r.id)
      <4>1. i \in 1 .. Reach(inflight) /\ wal'[i].id = (wal \o inflight)[i].id
        BY <2>1
      <4>2. i \in 1 .. Total \/ i = Total + 1
        BY <1>1, <3>3, <4>1 DEF Marks
      <4> QED
        BY <1>1, <3>3, <4>1, <4>2 DEF KeptId
    <3> QED
      BY <2>2, <3>1, <3>4
  <2> QED
    BY <2>3, <2>4
<1>6. CASE (\E r \in reserved : AppendFailed(r)) \/ CloseEnd
  <2>1. UNCHANGED wal \/ \E n \in 0 .. Total : wal' = First(n)
    <3>1. CASE CloseEnd
      BY <1>1, <3>1, FlushType DEF CloseEnd, Marks
    <3>2. CASE \E r \in reserved : AppendFailed(r)
      BY <1>1, <3>2 DEF AppendFailed, RollbackTo, Marks
    <3> QED
      BY <1>6, <3>1, <3>2
  <2> QED
    BY <1>3, <1>4, <2>1
<1> QED
  BY <1>2, <1>4, <1>5, <1>6
     DEF Next, vars, disk, TakeID, AppendRefused, ReadBatch, ReadNothing, SinkSettles, SinkFails,
         Commit, CommitNothing, Flush, CloseBegin, Recover

-----------------------------------------------------------------------------
(* One ID, one record *)

\* What the sink has seen is among the frames that survive.
SeenSurvives == \A f \in seen : \E i \in 1 .. Surviving : wal[i] = f

\* No two frames have one ID, nor a frame and a record on its way to Append,
\* and the counter is past them all.
IdsApart ==
  /\ \A i, j \in DOMAIN wal : wal[i].id = wal[j].id => i = j
  /\ mode = "open" =>
       /\ \A r \in reserved :
            /\ r.id <= idCounter
            /\ \A i \in DOMAIN wal : wal[i].id # r.id
            /\ \A q \in reserved : q.id = r.id => q = r
       /\ \A i \in DOMAIN wal : wal[i].id <= idCounter

\* A restart resumes the counter past every header it finds; in between the
\* counter hands out each ID once.
LEMMA IdsStep ==
  ASSUME TypeOK, IdsApart, [Next]_vars
  PROVE  IdsApart'
<1>1. /\ \A i \in DOMAIN wal : wal[i].id \in Nat
      /\ \A r \in reserved : r.id \in Nat
      /\ idCounter \in Nat /\ Total \in Nat /\ DOMAIN wal = 1 .. Total
  <2>1. \A i \in DOMAIN wal : wal[i] \in Frame
    BY LenProperties, ElementOfSeq DEF TypeOK
  <2> QED
    BY <2>1, LenProperties DEF TypeOK, Frame, Total
<1>2. \A i, j \in DOMAIN wal' : wal'[i].id = wal'[j].id => i = j
  <2> SUFFICES ASSUME NEW i \in DOMAIN wal', NEW j \in DOMAIN wal', wal'[i].id = wal'[j].id
               PROVE  i = j
    OBVIOUS
  <2>1. CASE \A n \in DOMAIN wal' : KeptId(n)
    BY <2>1 DEF KeptId, IdsApart
  <2>2. ASSUME NEW r \in reserved, mode = "open",
               \A n \in DOMAIN wal' : KeptId(n) \/ (n = Total + 1 /\ wal'[n].id = r.id)
        PROVE  i = j
    BY <2>2 DEF KeptId, IdsApart
  <2> QED
    BY <2>1, <2>2, LogStep
<1>3. CASE TakeID
  <2> DEFINE new == [tkt |-> attempts', id |-> idCounter', body |-> "intact"]
  <2>1. /\ wal' = wal /\ mode = "open" /\ idCounter' = idCounter + 1
        /\ reserved' = reserved \union {new} /\ new.id = idCounter + 1
    BY <1>3 DEF TakeID, disk
  <2> QED
    BY <1>1, <1>2, <2>1 DEF IdsApart
<1>4. CASE Recover
  <2>1. /\ wal' = wal /\ reserved' = {}
        /\ \A other \in HeaderIDs : other <= idCounter'
    BY <1>4 DEF Recover, ResumesAt, disk
  <2> QED
    BY <1>2, <2>1 DEF HeaderIDs, IdsApart
<1>5. CASE mode' = "open" /\ ~ TakeID /\ ~ Recover
  <2>1. mode = "open" /\ idCounter' = idCounter /\ reserved' \subseteq reserved
    BY <1>5
       DEF Next, vars, callers, memory, AppendRefused, AppendAcked, AppendFailed, ReadBatch,
           ReadNothing, SinkSettles, SinkFails, Commit, CommitNothing, Flush, CloseBegin, CloseEnd,
           ProcessCrash, PowerLoss, ProcessDies
  <2>2. CASE \A n \in DOMAIN wal' : KeptId(n)
    BY <1>1, <1>2, <2>1, <2>2 DEF KeptId, IdsApart
  <2>3. ASSUME NEW r \in reserved, r \notin reserved',
               \A n \in DOMAIN wal' : KeptId(n) \/ (n = Total + 1 /\ wal'[n].id = r.id)
        PROVE  IdsApart'
    BY <1>1, <1>2, <2>1, <2>3 DEF KeptId, IdsApart
  <2> QED
    BY <1>5, <2>2, <2>3, LogStep
<1> QED
  BY <1>2, <1>3, <1>4, <1>5 DEF IdsApart

\* A batch in hand lies among the frames that survive, so a record the sink
\* settles stays in the log.
LEMMA SeenStep ==
  ASSUME UniqueSetup, IndInv, SeenSurvives, [Next]_vars
  PROVE  SeenSurvives'
<1>1. TypeOK /\ Marks /\ TypeOK' /\ Marks'
  BY TypeStep, MarksOrdered DEF IndInv
<1>2. Surviving <= Surviving' /\ \A i \in 1 .. Surviving : wal'[i] = wal[i]
  BY <1>1, SurvivorsKept
<1>3. Surviving \in Nat /\ Surviving' \in Nat
  BY <1>1 DEF Surviving, Marks
<1>4. CASE seen' = seen
  BY <1>2, <1>3, <1>4 DEF SeenSurvives
<1>5. CASE SinkSettles
  <2>1. /\ hand.phase = "deliver" /\ wal' = wal
        /\ seen' = seen \union {hand.frames[i] : i \in DOMAIN hand.frames}
    BY <1>5 DEF SinkSettles, disk
  <2>2. /\ hand.upto \in checkpoint + 1 .. flushed
        /\ hand.frames = SubSeq(wal, checkpoint + 1, hand.upto)
    BY <2>1 DEF IndInv, HandInv
  <2>3. hand.upto <= Surviving
    BY <1>1, <2>2 DEF UniqueSetup, IndInv, Surviving, Marks
  <2>4. /\ Len(hand.frames) = hand.upto - checkpoint
        /\ \A i \in 1 .. hand.upto - checkpoint : hand.frames[i] = wal[checkpoint + i]
        /\ hand.frames \in Seq(Frame)
    <3>1. checkpoint \in Nat /\ hand.upto \in checkpoint + 1 .. Len(wal)
      BY <1>1, <2>2 DEF Marks
    <3>2. wal \in Seq(Frame)
      BY <1>1 DEF TypeOK
    <3>3. /\ SubSeq(wal, checkpoint + 1, hand.upto) \in Seq(Frame)
          /\ Len(SubSeq(wal, checkpoint + 1, hand.upto)) = hand.upto - checkpoint
          /\ \A i \in 1 .. hand.upto - checkpoint :
               SubSeq(wal, checkpoint + 1, hand.upto)[i] = wal[checkpoint + i]
      BY <3>1, <3>2, SliceProps
    <3> QED
      BY <2>2, <3>3
  <2>5. ASSUME NEW i \in DOMAIN hand.frames
        PROVE  \E j \in 1 .. Surviving : wal[j] = hand.frames[i]
    <3>1. i \in 1 .. hand.upto - checkpoint
      BY <2>4, LenProperties
    <3>2. checkpoint \in Nat /\ hand.upto \in Nat
      BY <1>1, <2>2 DEF Marks
    <3>3. i \in Nat /\ 1 <= i /\ checkpoint + i <= hand.upto
      BY <3>1, <3>2
    <3>4. checkpoint + i \in 1 .. Surviving
      BY <1>3, <2>3, <3>2, <3>3
    <3> QED
      BY <2>4, <3>1, <3>4
  <2> QED
    BY <1>2, <1>3, <2>1, <2>5 DEF SeenSurvives
<1> QED
  BY <1>4, <1>5
     DEF Next, vars, TakeID, AppendRefused, AppendAcked, AppendFailed, ReadBatch, ReadNothing,
         SinkFails, Commit, CommitNothing, Flush, CloseBegin, CloseEnd, ProcessCrash, PowerLoss,
         ProcessDies, Recover

\* The sink never gets one ID for two records, in the settings where what it
\* has seen outlives any crash.
THEOREM IdsAreUnique ==
  ASSUME UniqueSetup
  PROVE  Spec => []UniqueIds
<1>1. SafeSetup
  BY DEF UniqueSetup, SafeSetup
<1>2. Spec => []IndInv
  BY <1>1, SafeInvariant
<1>3. Init => SeenSurvives /\ IdsApart
  <2>1. Init => DOMAIN wal = {}
    BY EmptySeq, LenProperties DEF Init
  <2> QED
    BY <2>1 DEF Init, SeenSurvives, IdsApart
<1>4. IndInv /\ SeenSurvives /\ IdsApart /\ [Next]_vars => SeenSurvives' /\ IdsApart'
  BY SeenStep, IdsStep DEF IndInv
<1>5. IndInv /\ SeenSurvives /\ IdsApart => UniqueIds
  <2> SUFFICES ASSUME IndInv, SeenSurvives, IdsApart, NEW f \in seen, NEW g \in seen, f.id = g.id
               PROVE  f = g
    BY DEF UniqueIds
  <2>1. PICK i \in 1 .. Surviving : wal[i] = f
    BY DEF SeenSurvives
  <2>2. PICK j \in 1 .. Surviving : wal[j] = g
    BY DEF SeenSurvives
  <2>3. i \in DOMAIN wal /\ j \in DOMAIN wal
    BY MarksOrdered, LenProperties DEF IndInv, Marks, Surviving
  <2> QED
    BY <2>1, <2>2, <2>3 DEF IdsApart
<1> QED
  BY <1>2, <1>3, <1>4, <1>5, PTL DEF Spec

-----------------------------------------------------------------------------
(* What a caller was told of is not lost *)

\* A record whose Append succeeded was taken by the sink, or its frame is
\* readable among those that survive.
AckedSurvives ==
  \A t \in acked :
    \/ \E f \in seen : f.tkt = t
    \/ \E i \in 1 .. Surviving : wal[i].tkt = t /\ Intact(wal[i])

ReservedIntact == \A r \in reserved : Intact(r)

LEMMA ReservedStep ==
  ASSUME ReservedIntact, [Next]_vars
  PROVE  ReservedIntact'
<1>1. CASE TakeID
  BY <1>1 DEF TakeID, ReservedIntact, Intact
<1>2. CASE ~ TakeID
  <2>1. reserved' \subseteq reserved
    BY <1>2
       DEF Next, vars, callers, AppendRefused, AppendAcked, AppendFailed, ReadBatch, ReadNothing,
           SinkSettles, SinkFails, Commit, CommitNothing, Flush, CloseBegin, CloseEnd,
           ProcessCrash, PowerLoss, ProcessDies, Recover
  <2> QED
    BY <2>1 DEF ReservedIntact
<1> QED
  BY <1>1, <1>2

\* Under SyncEveryRecord the frame of an Append that returns survives.
LEMMA AckedStep ==
  ASSUME AckedSetup, TypeOK, ReservedIntact, AckedSurvives, [Next]_vars
  PROVE  AckedSurvives'
<1>1. Marks /\ Marks'
  BY TypeStep, MarksOrdered
<1>2. Surviving <= Surviving' /\ \A i \in 1 .. Surviving : wal'[i] = wal[i]
  BY SurvivorsKept
<1>3. Surviving \in Nat /\ Surviving' \in Nat
  BY <1>1 DEF Surviving, Marks
<1>4. seen \subseteq seen'
  BY DEF Next, vars, TakeID, AppendRefused, AppendAcked, AppendFailed, ReadBatch, ReadNothing,
         SinkSettles, SinkFails, Commit, CommitNothing, Flush, CloseBegin, CloseEnd, ProcessCrash,
         PowerLoss, ProcessDies, Recover
<1>5. ASSUME NEW t \in acked
      PROVE  \/ \E f \in seen' : f.tkt = t
             \/ \E i \in 1 .. Surviving' : wal'[i].tkt = t /\ Intact(wal'[i])
  BY <1>2, <1>3, <1>4 DEF AckedSurvives
<1>6. CASE acked' = acked
  BY <1>5, <1>6 DEF AckedSurvives, Intact
<1>7. ASSUME NEW r \in reserved, AppendAcked(r)
      PROVE  AckedSurvives'
  <2>1. /\ wal' = Append(wal, r) /\ flushed' = Total + 1 /\ synced' = Total + 1
        /\ acked' = acked \union {r.tkt}
    BY <1>7 DEF AppendAcked, WriteFrame, AckedSetup
  <2>2. wal'[Total + 1] = r /\ Total + 1 \in 1 .. Surviving'
    BY <1>1, <2>1, AppendProperties DEF Marks, Surviving, TypeOK
  <2> QED
    BY <1>5, <2>1, <2>2 DEF AckedSurvives, ReservedIntact, Intact
<1> QED
  BY <1>6, <1>7
     DEF Next, vars, callers, TakeID, AppendRefused, AppendFailed, ReadBatch, ReadNothing,
         SinkSettles, SinkFails, Commit, CommitNothing, Flush, CloseBegin, CloseEnd, ProcessCrash,
         PowerLoss, ProcessDies, Recover

\* Under SyncEveryRecord, in the safe settings, no acknowledged record is
\* lost: it was taken by the sink or is still pending and readable.
THEOREM AckedIsNotLost ==
  ASSUME AckedSetup
  PROVE  Spec => []AckedNotLost
<1>1. Spec => []IndInv
  BY SafeInvariant DEF AckedSetup
<1>2. Init => AckedSurvives /\ ReservedIntact
  BY DEF Init, AckedSurvives, ReservedIntact
<1>3. IndInv /\ AckedSurvives /\ ReservedIntact /\ [Next]_vars =>
        AckedSurvives' /\ ReservedIntact'
  BY AckedStep, ReservedStep DEF IndInv
<1>4. IndInv /\ AckedSurvives => AckedNotLost
  <2> SUFFICES ASSUME IndInv, AckedSurvives, NEW t \in acked, ~ \E f \in seen : f.tkt = t
               PROVE  \E i \in Behind + 1 .. Total : wal[i].tkt = t /\ Intact(wal[i])
    BY DEF AckedNotLost
  <2>1. PICK i \in 1 .. Surviving : wal[i].tkt = t /\ Intact(wal[i])
    BY DEF AckedSurvives
  <2>2. Marks
    BY MarksOrdered DEF IndInv
  <2>3. Behind <= meta /\ Behind \in Nat /\ i \in 1 .. Total
    BY <2>2 DEF IndInv, Behind, Min2, Marks, Surviving
  <2>4. i \notin 1 .. meta
    BY <2>1 DEF IndInv, Settled
  <2> QED
    BY <2>1, <2>2, <2>3, <2>4 DEF Marks
<1> QED
  BY <1>1, <1>2, <1>3, <1>4, PTL DEF Spec

-----------------------------------------------------------------------------
(* The log implements the at-least-once queue *)

\* What is not behind a mark of a sequence of frames.
LEMMA RestProps ==
  ASSUME NEW s \in Seq(Frame), NEW m \in 0 .. Len(s)
  PROVE  /\ SubSeq(s, m + 1, Len(s)) \in Seq(Frame)
         /\ Len(SubSeq(s, m + 1, Len(s))) = Len(s) - m
         /\ \A i \in 1 .. Len(s) - m : SubSeq(s, m + 1, Len(s))[i] = s[m + i]
<1>1. Len(s) \in Nat /\ m \in Nat /\ m <= Len(s)
  BY LenProperties
<1>2. \A i \in m + 1 .. Len(s) : s[i] \in Frame
  BY <1>1, ElementOfSeq
<1> QED
  BY <1>1, <1>2, SubSeqProperties

\* A failed write or a crash cuts the log behind the survivors, perhaps with
\* the frame of an Append at its end, and damages nothing among them.
Cut(inflight, n) ==
  /\ inflight = <<>> \/ (mode = "open" /\ \E r \in reserved : inflight = <<r>>)
  /\ wal \o inflight \in Seq(Frame)
  /\ n \in Surviving .. Len(wal \o inflight)
  /\ Len(wal') = n
  /\ \A i \in 1 .. n :
       \/ wal'[i] = (wal \o inflight)[i]
       \/ i > Surviving /\ wal'[i] = [(wal \o inflight)[i] EXCEPT !.body = "damaged"]
  /\ Surviving' \in Surviving .. n

\* A log cut to a prefix that holds all of the file.
LEMMA PrefixCut ==
  ASSUME TypeOK, TypeOK', NEW n \in flushed .. Total, wal' = First(n),
         flushed' = n, synced <= synced'
  PROVE  Cut(<<>>, n)
<1>1. Marks /\ Marks'
  BY MarksOrdered
<1>2. wal \o <<>> = wal
  BY <1>1, ConcatEmptySeq DEF Marks
<1>3. Len(wal') = n /\ \A i \in 1 .. n : wal'[i] = wal[i]
  BY <1>1, PrefixProps DEF First, Marks
<1> QED
  BY <1>1, <1>2, <1>3 DEF Cut, Surviving, Marks

LEMMA InFlightIs ==
  ASSUME NEW inflight \in InFlight
  PROVE  inflight = <<>> \/ (mode = "open" /\ \E r \in reserved : inflight = <<r>>)
BY DEF InFlight

LEMMA ProcessCrashCuts ==
  ASSUME TypeOK, TypeOK', ProcessCrash
  PROVE  \E inflight, n : Cut(inflight, n)
<1>1. Marks /\ Marks'
  BY MarksOrdered
<1>2. PICK inflight \in InFlight :
        \E n \in flushed .. Reach(inflight) :
          wal' = SubSeq(wal \o inflight, 1, n) /\ flushed' = n
  BY DEF ProcessCrash
<1>3. PICK n \in flushed .. Reach(inflight) :
        wal' = SubSeq(wal \o inflight, 1, n) /\ flushed' = n
  BY <1>2
<1>4. /\ wal \o inflight \in Seq(Frame) /\ n \in 0 .. Len(wal \o inflight) /\ n >= flushed
      /\ Len(wal \o inflight) \in Nat
  BY <1>1, <1>3, InFlightType, LenProperties DEF Marks
<1>5. Len(wal') = n /\ \A i \in 1 .. n : wal'[i] = (wal \o inflight)[i]
  BY <1>3, <1>4, PrefixProps
<1>6. synced' = synced
  BY DEF ProcessCrash
<1>7. Surviving <= n /\ Surviving' \in Surviving .. n /\ Surviving \in Nat
  BY <1>1, <1>3, <1>4, <1>6 DEF Surviving, Marks
<1> QED
  BY <1>4, <1>5, <1>7, InFlightIs DEF Cut

LEMMA PowerLossCuts ==
  ASSUME TypeOK, TypeOK', PowerLoss
  PROVE  \E inflight, n : Cut(inflight, n)
<1>1. Marks /\ Marks' /\ Surviving = synced /\ Surviving' = synced'
  BY MarksOrdered DEF PowerLoss, Surviving
<1>2. PICK inflight \in InFlight :
        \E n \in synced .. Reach(inflight) :
          \E damaged \in SUBSET (synced + 1 .. n) :
            /\ wal' = [i \in 1 .. n |-> Spoil(wal \o inflight, damaged, i)]
            /\ synced' = n
  BY DEF PowerLoss
<1>3. PICK n \in synced .. Reach(inflight) :
        \E damaged \in SUBSET (synced + 1 .. n) :
          /\ wal' = [i \in 1 .. n |-> Spoil(wal \o inflight, damaged, i)]
          /\ synced' = n
  BY <1>2
<1>4. PICK damaged \in SUBSET (synced + 1 .. n) :
        /\ wal' = [i \in 1 .. n |-> Spoil(wal \o inflight, damaged, i)]
        /\ synced' = n
  BY <1>3
<1>5. /\ wal \o inflight \in Seq(Frame) /\ Len(wal \o inflight) \in Nat
      /\ n \in synced .. Len(wal \o inflight) /\ n \in Nat
  BY <1>1, <1>3, InFlightType, LenProperties DEF Marks
<1>6. Len(wal') = n
  <2>1. DOMAIN wal' = 1 .. n /\ DOMAIN wal' = 1 .. Len(wal') /\ Len(wal') \in Nat
    BY <1>1, <1>4, LenProperties DEF Marks
  <2> QED
    BY <1>5, <2>1
<1>7. ASSUME NEW i \in 1 .. n
      PROVE  \/ wal'[i] = (wal \o inflight)[i]
             \/ i > synced /\ wal'[i] = [(wal \o inflight)[i] EXCEPT !.body = "damaged"]
  <2>1. wal'[i] = Spoil(wal \o inflight, damaged, i)
    BY <1>4
  <2>2. i \in damaged => i > synced
    BY <1>1, <1>4 DEF Marks
  <2> QED
    BY <2>1, <2>2 DEF Spoil
<1>8. n \in Surviving .. Len(wal \o inflight) /\ Surviving' \in Surviving .. n
  BY <1>1, <1>4, <1>5 DEF Marks
<1>9. \A i \in 1 .. n :
        \/ wal'[i] = (wal \o inflight)[i]
        \/ i > Surviving /\ wal'[i] = [(wal \o inflight)[i] EXCEPT !.body = "damaged"]
  BY <1>1, <1>7
<1>10. inflight = <<>> \/ (mode = "open" /\ \E r \in reserved : inflight = <<r>>)
  BY InFlightIs
<1>11. Cut(inflight, n)
  BY <1>5, <1>6, <1>8, <1>9, <1>10 DEF Cut
<1> QED
  BY <1>11

\* The steps that may take frames from the log, or leave one nobody was told of.
LEMMA LossCuts ==
  ASSUME TypeOK, TypeOK',
         (\E r \in reserved : AppendFailed(r)) \/ CloseEnd \/ ProcessCrash \/ PowerLoss
  PROVE  \/ wal' = wal /\ CloseEnd
         \/ \E inflight, n : Cut(inflight, n)
<1>1. Marks /\ Marks'
  BY MarksOrdered
<1>2. CASE \E r \in reserved : AppendFailed(r)
  <2>1. PICK target \in flushed .. Total : RollbackTo(target)
    BY <1>1, <1>2 DEF AppendFailed, Marks
  <2>2. synced' = synced
    BY <1>2 DEF AppendFailed
  <2> QED
    BY <1>1, <2>1, <2>2, PrefixCut DEF RollbackTo, Marks
<1>3. CASE CloseEnd
  <2>1. CASE wal' # wal
    <3>1. FlushWriterFails /\ wal' = First(flushed') /\ synced' \in {synced, flushed'}
      BY <1>3, <2>1 DEF CloseEnd
    <3>2. flushed' \in flushed .. Total
      BY <3>1, FlushType
    <3>3. synced <= synced'
      BY <1>1, <3>1, <3>2 DEF Marks
    <3> QED
      BY <3>1, <3>2, <3>3, PrefixCut
  <2> QED
    BY <1>3, <2>1
<1> QED
  BY <1>2, <1>3, ProcessCrashCuts, PowerLossCuts

-----------------------------------------------------------------------------
(* The frames are items of the queue *)

\* The frames carry numbers of Enqueue calls.
Numbered(f) == f.tkt \in 1 .. attempts /\ f.id \in 1 .. attempts

ItemInv ==
  /\ attempts <= MaxAttempts
  /\ idCounter <= attempts
  /\ \A r \in reserved : Numbered(r)
  /\ \A i \in 1 .. Len(wal) : Numbered(wal[i])

\* The numbers of a log that was cut were there before.
LEMMA CutNumbers ==
  ASSUME TypeOK, ItemInv, attempts' = attempts, NEW inflight, NEW n, Cut(inflight, n)
  PROVE  \A i \in 1 .. Len(wal') : Numbered(wal'[i])
<1> SUFFICES ASSUME NEW i \in 1 .. n
             PROVE  Numbered(wal'[i])
  BY DEF Cut
<1> DEFINE all == wal \o inflight
<1>1. Marks
  BY MarksOrdered
<1>2. all \in Seq(Frame) /\ i \in 1 .. Len(all) /\ all[i] \in Frame
  <2>1. all \in Seq(Frame) /\ n \in Surviving .. Len(all) /\ Surviving \in Nat
    BY <1>1 DEF Cut, Surviving, Marks
  <2>2. i \in 1 .. Len(all)
    BY <2>1, LenProperties
  <2> QED
    BY <2>1, <2>2, ElementOfSeq
<1>3. Numbered(all[i])
  <2>1. CASE inflight = <<>>
    <3>1. all = wal
      BY <1>1, <2>1, ConcatEmptySeq DEF Marks
    <3> QED
      BY <1>2, <3>1 DEF ItemInv
  <2>2. ASSUME NEW r \in reserved, inflight = <<r>>
        PROVE  Numbered(all[i])
    <3>1. r \in Frame /\ <<r>> \in Seq(Frame) /\ Len(<<r>>) = 1 /\ <<r>>[1] = r
      BY DEF TypeOK
    <3>2. Len(all) = Len(wal) + 1 /\ \A j \in 1 .. Len(wal) : all[j] = wal[j]
      BY <1>1, <2>2, <3>1, ConcatProperties DEF Marks
    <3>3. all[Len(wal) + 1] = r
      <4>1. all[Len(wal) + 1] = <<r>>[Len(wal) + 1 - Len(wal)]
        BY <1>1, <2>2, <3>1, ConcatProperties DEF Marks
      <4>2. Len(wal) + 1 - Len(wal) = 1
        BY <1>1 DEF Marks
      <4> QED
        BY <3>1, <4>1, <4>2
    <3>4. i \in 1 .. Len(wal) \/ i = Len(wal) + 1
      BY <1>1, <1>2, <3>2 DEF Marks
    <3> QED
      BY <3>2, <3>3, <3>4 DEF ItemInv
  <2> QED
    BY <2>1, <2>2 DEF Cut
<1>4. wal'[i] = all[i] \/ wal'[i] = [all[i] EXCEPT !.body = "damaged"]
  BY DEF Cut
<1>5. [all[i] EXCEPT !.body = "damaged"].tkt = all[i].tkt
      /\ [all[i] EXCEPT !.body = "damaged"].id = all[i].id
  BY <1>2 DEF Frame
<1> QED
  BY <1>3, <1>4, <1>5 DEF Numbered

\* Each step hands out at most one number, the next.
LEMMA ItemStep ==
  ASSUME TypeOK, ItemInv, [Next]_vars
  PROVE  ItemInv'
<1>1. TypeOK' /\ Marks /\ Marks'
  BY TypeStep, MarksOrdered
<1>2. idCounter \in Nat /\ attempts \in Nat /\ MaxAttempts \in Nat
  BY WalStorageAssumption DEF TypeOK
<1>3. CASE TakeID
  <2> DEFINE new == [tkt |-> attempts', id |-> idCounter', body |-> "intact"]
  <2>1. /\ wal' = wal /\ attempts < MaxAttempts /\ attempts' = attempts + 1
        /\ idCounter' = idCounter + 1 /\ reserved' = reserved \union {new}
        /\ new.tkt = attempts + 1 /\ new.id = idCounter + 1
    BY <1>3 DEF TakeID, disk
  <2>2. \A f : Numbered(f) => f.tkt \in 1 .. attempts' /\ f.id \in 1 .. attempts'
    BY <1>2, <2>1 DEF Numbered
  <2>3. new.tkt \in 1 .. attempts' /\ new.id \in 1 .. attempts'
    BY <1>2, <2>1 DEF ItemInv
  <2> QED
    BY <1>2, <2>1, <2>2, <2>3 DEF ItemInv, Numbered
<1>4. ASSUME NEW r \in reserved, AppendAcked(r)
      PROVE  ItemInv'
  <2>1. /\ wal' = Append(wal, r) /\ reserved' = reserved \ {r} /\ r \in Frame
        /\ attempts' = attempts /\ idCounter' = idCounter
    BY <1>4 DEF AppendAcked, WriteFrame, TypeOK
  <2>2. /\ Len(wal') = Len(wal) + 1 /\ wal'[Len(wal) + 1] = r
        /\ \A i \in 1 .. Len(wal) : wal'[i] = wal[i]
    BY <1>1, <2>1, AppendProperties DEF Marks
  <2>3. ASSUME NEW i \in 1 .. Len(wal')
        PROVE  Numbered(wal'[i])
    <3>1. i \in 1 .. Len(wal) \/ i = Len(wal) + 1
      BY <1>1, <2>2 DEF Marks
    <3> QED
      BY <2>2, <3>1 DEF ItemInv
  <2> QED
    BY <2>1, <2>3 DEF ItemInv, Numbered
<1>5. CASE (\E r \in reserved : AppendFailed(r)) \/ CloseEnd \/ ProcessCrash \/ PowerLoss
  <2>1. attempts' = attempts /\ idCounter' \in {idCounter, 0} /\ reserved' \subseteq reserved
    BY <1>5 DEF AppendFailed, CloseEnd, ProcessCrash, PowerLoss, ProcessDies, callers
  <2>2. \A i \in 1 .. Len(wal') : Numbered(wal'[i])
    BY <1>1, <1>5, <2>1, LossCuts, CutNumbers DEF ItemInv
  <2> QED
    BY <1>2, <2>1, <2>2 DEF ItemInv, Numbered
<1>6. CASE Recover
  <2>1. /\ wal' = wal /\ reserved' = {} /\ attempts' = attempts /\ idCounter' \in HeaderIDs
    BY <1>6 DEF Recover, disk
  <2>2. HeaderIDs \subseteq 0 .. attempts
    <3>1. DOMAIN wal = 1 .. Len(wal)
      BY <1>1, LenProperties DEF Marks
    <3> QED
      BY <1>2, <3>1 DEF HeaderIDs, ItemInv, Numbered
  <2> QED
    BY <1>2, <2>1, <2>2 DEF ItemInv, Numbered
<1>7. CASE UNCHANGED <<wal, attempts, idCounter>> /\ reserved' \subseteq reserved
  BY <1>7 DEF ItemInv, Numbered
<1> QED
  BY <1>3, <1>4, <1>5, <1>6, <1>7
     DEF Next, vars, disk, callers, AppendRefused, ReadBatch, ReadNothing, SinkSettles, SinkFails,
         Commit, CommitNothing, Flush, CloseBegin

\* The dispatcher offers the sink intact frames, and holds none when the
\* process is down.
HandOffers ==
  hand.phase = "deliver" =>
    mode # "down" /\ \A i \in DOMAIN hand.frames : Intact(hand.frames[i])

LEMMA OfferStep ==
  ASSUME TypeOK, HandOffers, [Next]_vars
  PROVE  HandOffers'
<1>1. CASE hand' = hand /\ (mode' = "down" => mode = "down")
  BY <1>1 DEF HandOffers, Intact
<1>2. CASE hand'.phase # "deliver"
  BY <1>2 DEF HandOffers
<1>3. CASE ReadBatch
  <2>1. mode' = "open"
    BY <1>3 DEF ReadBatch
  <2>2. CASE Intact(wal[checkpoint + 1])
    <3>1. PICK upto \in checkpoint + 1 .. Total :
            /\ BatchEnd(upto)
            /\ hand' = [phase |-> "deliver", upto |-> upto,
                        frames |-> SubSeq(wal, checkpoint + 1, upto)]
      BY <1>3, <2>2 DEF ReadBatch
    <3>2. \A i \in checkpoint + 1 .. upto : Intact(wal[i])
      BY <3>1 DEF BatchEnd
    <3>3. checkpoint \in Nat /\ upto \in checkpoint + 1 .. Len(wal) /\ wal \in Seq(Frame)
      BY <3>1 DEF TypeOK, Total
    <3>4. /\ Len(hand'.frames) = upto - checkpoint /\ hand'.frames \in Seq(Frame)
          /\ \A i \in 1 .. upto - checkpoint : hand'.frames[i] = wal[checkpoint + i]
      BY <3>1, <3>3, SliceProps
    <3>5. ASSUME NEW i \in DOMAIN hand'.frames
          PROVE  Intact(hand'.frames[i])
      <4>1. i \in 1 .. upto - checkpoint
        BY <3>4, LenProperties
      <4>2. checkpoint + i \in checkpoint + 1 .. upto
        BY <3>3, <4>1
      <4> QED
        BY <3>2, <3>4, <4>1, <4>2
    <3> QED
      BY <2>1, <3>5 DEF HandOffers, Intact
  <2>3. CASE ~ Intact(wal[checkpoint + 1])
    BY <1>2, <1>3, <2>3 DEF ReadBatch
  <2> QED
    BY <2>2, <2>3
<1>4. CASE SinkSettles
  BY <1>2, <1>4 DEF SinkSettles, TypeOK
<1> QED
  BY <1>1, <1>2, <1>3, <1>4
     DEF Next, vars, memory, TakeID, AppendRefused, AppendAcked, AppendFailed, ReadNothing,
         SinkFails, Commit, CommitNothing, Flush, CloseBegin, CloseEnd, ProcessCrash,
         PowerLoss, ProcessDies, Recover, Idle

-----------------------------------------------------------------------------
(* What the queue shows of the log *)

RefInv == IndInv /\ ItemInv /\ HandOffers

QItem == [tkt : 1 .. MaxAttempts, id : 1 .. MaxAttempts, body : {"intact", "damaged"}]

Pend == SubSeq(wal, meta + 1, Len(wal))
Hard == Surviving - meta

\* A numbered frame is an item of the queue.
LEMMA FrameIsItem ==
  ASSUME ItemInv, attempts \in Nat, NEW f \in Frame, Numbered(f)
  PROVE  f \in QItem
<1>1. f.tkt \in 1 .. MaxAttempts /\ f.id \in 1 .. MaxAttempts
  BY WalStorageAssumption DEF ItemInv, Numbered
<1> QED
  BY <1>1 DEF Frame, QItem

\* Under IndInv the log behind the checkpoint on disk is pending, and what
\* survives of it is hard.
LEMMA View ==
  ASSUME RefInv
  PROVE  /\ SubSeq(wal, Behind + 1, Total) = Pend
         /\ (IF Surviving > Behind THEN Surviving - Behind ELSE 0) = Hard
         /\ meta \in 0 .. Surviving /\ Surviving \in 0 .. Len(wal) /\ Len(wal) \in Nat
         /\ Pend \in Seq(Frame) /\ Len(Pend) = Len(wal) - meta
         /\ \A i \in 1 .. Len(wal) - meta : Pend[i] = wal[meta + i]
<1>1. Marks
  BY MarksOrdered DEF RefInv, IndInv
<1>2. meta \in 0 .. Surviving /\ Surviving \in 0 .. Len(wal) /\ Len(wal) \in Nat
  BY <1>1 DEF RefInv, IndInv, Surviving, Marks
<1>3. Behind = meta
  BY <1>1, <1>2 DEF RefInv, IndInv, Behind, Min2, Marks
<1>4. (IF Surviving > meta THEN Surviving - meta ELSE 0) = Hard
  BY <1>2 DEF Hard
<1>5. meta \in 0 .. Len(wal) /\ wal \in Seq(Frame) /\ Total = Len(wal)
  BY <1>1, <1>2 DEF Marks
<1> QED
  BY <1>2, <1>3, <1>4, <1>5, RestProps DEF Pend

LEMMA ViewAfter ==
  ASSUME RefInv'
  PROVE  /\ SubSeq(wal', Behind' + 1, Total') = Pend'
         /\ (IF Surviving' > Behind' THEN Surviving' - Behind' ELSE 0) = Hard'
         /\ meta' \in 0 .. Surviving' /\ Surviving' \in 0 .. Len(wal') /\ Len(wal') \in Nat
         /\ Pend' \in Seq(Frame) /\ Len(Pend') = Len(wal') - meta'
         /\ \A i \in 1 .. Len(wal') - meta' : Pend'[i] = wal'[meta' + i]
<1>1. Marks'
  BY MarksOrdered DEF RefInv, IndInv
<1>2. meta' \in 0 .. Surviving' /\ Surviving' \in 0 .. Len(wal') /\ Len(wal') \in Nat
  BY <1>1 DEF RefInv, IndInv, Surviving, Marks
<1>3. Behind' = meta'
  BY <1>1, <1>2 DEF RefInv, IndInv, Behind, Min2, Marks
<1>4. (IF Surviving' > meta' THEN Surviving' - meta' ELSE 0) = Hard'
  <2> SUFFICES ASSUME NEW s \in Nat, NEW m \in 0 .. s
               PROVE  (IF s > m THEN s - m ELSE 0) = s - m
    <3>1. Surviving' \in Nat /\ meta' \in 0 .. Surviving'
      BY <1>2
    <3> QED
      BY <3>1 DEF Hard
  <2> QED
    OBVIOUS
<1>5. meta' \in 0 .. Len(wal') /\ wal' \in Seq(Frame) /\ Total' = Len(wal')
  BY <1>1, <1>2 DEF Marks
<1> QED
  BY <1>2, <1>3, <1>4, <1>5, RestProps DEF Pend

LEMMA QueueInit == Init => Queue!Init
<1> SUFFICES ASSUME Init PROVE Queue!Init
  OBVIOUS
<1>1. wal = <<>> /\ Total = 0 /\ Behind = 0 /\ Surviving = 0
  BY EmptySeq DEF Init, Total, Behind, Surviving, Min2
<1>2. SubSeq(wal, Behind + 1, Total) = <<>>
  BY <1>1, EmptySeq, SubSeqEmpty
<1> QED
  BY <1>1, <1>2 DEF Init, Queue!Init

\* A step that changes nothing but what survives hardens items.
LEMMA QuietHardens ==
  ASSUME RefInv, RefInv', wal' = wal, meta' = meta, seen' = seen, Surviving <= Surviving'
  PROVE  Queue!Harden
<1>1. Pend' = Pend
  BY DEF Pend
<1>2. Hard' \in Hard .. Len(Pend)
  BY View, ViewAfter DEF Hard
<1> QED
  BY <1>1, <1>2, View, ViewAfter DEF Queue!Harden

\* An append that succeeds is an item accepted.
LEMMA AppendAccepts ==
  ASSUME RefInv, RefInv', Surviving <= Surviving', NEW r \in reserved, AppendAcked(r)
  PROVE  Queue!Accept
<1>1. /\ wal' = Append(wal, r) /\ meta' = meta /\ seen' = seen /\ r \in Frame /\ wal \in Seq(Frame)
  BY DEF AppendAcked, WriteFrame, RefInv, IndInv, TypeOK
<1>2. r \in QItem
  BY <1>1, FrameIsItem DEF RefInv, IndInv, ItemInv, TypeOK
<1>3. /\ Len(wal') = Len(wal) + 1 /\ wal'[Len(wal) + 1] = r
      /\ \A i \in 1 .. Len(wal) : wal'[i] = wal[i]
  BY <1>1, AppendProperties
<1>4. Pend' = Append(Pend, r)
  <2>1. /\ Append(Pend, r) \in Seq(Frame) /\ Len(Append(Pend, r)) = Len(Pend) + 1
        /\ \A i \in 1 .. Len(Pend) : Append(Pend, r)[i] = Pend[i]
        /\ Append(Pend, r)[Len(Pend) + 1] = r
    BY <1>1, View, AppendProperties
  <2>2. Len(Pend') = Len(Pend) + 1 /\ Len(Pend) \in Nat /\ Len(Pend) = Len(wal) - meta
        /\ meta \in Nat /\ Len(wal) \in Nat
    BY <1>1, <1>3, View, ViewAfter
  <2>3. ASSUME NEW i \in 1 .. Len(Pend')
        PROVE  Pend'[i] = Append(Pend, r)[i]
    <3>1. Pend'[i] = wal'[meta + i]
      BY <1>1, ViewAfter
    <3>2. CASE i = Len(Pend) + 1
      <4>1. meta + i = Len(wal) + 1
        BY <2>2, <3>2
      <4> QED
        BY <1>3, <2>1, <3>1, <3>2, <4>1
    <3>3. CASE i \in 1 .. Len(Pend)
      <4>1. meta + i \in 1 .. Len(wal)
        BY <2>2, <3>3
      <4>2. Pend[i] = wal[meta + i]
        BY <2>2, <3>3, View
      <4> QED
        BY <1>3, <2>1, <3>1, <3>3, <4>1, <4>2
    <3> QED
      BY <2>2, <3>2, <3>3
  <2> QED
    BY <2>1, <2>2, <2>3, ViewAfter, SeqEqual
<1>5. Hard' \in Hard .. Len(Pend')
  BY <1>1, <1>3, View, ViewAfter DEF Hard
<1> QED
  BY <1>1, <1>2, <1>4, <1>5, View, ViewAfter DEF Queue!Accept, QItem

\* A cut takes items of the soft tail, or damages them, or leaves one that
\* was in flight.
LEMMA CutLoses ==
  ASSUME RefInv, RefInv', meta' = meta, seen' = seen, NEW inflight, NEW n, Cut(inflight, n)
  PROVE  Queue!Lose
<1> DEFINE all == Pend \o inflight
           full == wal \o inflight
<1>1. inflight \in {<<>>} \union {<<x>> : x \in QItem}
  <2>1. ASSUME NEW r \in reserved
        PROVE  r \in QItem
    BY FrameIsItem DEF RefInv, IndInv, ItemInv, TypeOK
  <2> QED
    BY <2>1 DEF Cut
<1>2. inflight \in Seq(Frame)
  <2>1. \A r \in reserved : <<r>> \in Seq(Frame)
    BY DEF RefInv, IndInv, TypeOK
  <2> QED
    BY <2>1, EmptySeq DEF Cut
<1>3. /\ wal \in Seq(Frame) /\ Len(wal) \in Nat /\ meta \in 0 .. Len(wal) /\ Len(inflight) \in Nat
      /\ Len(Pend) \in Nat
      /\ Pend \in Seq(Frame) /\ Len(Pend) = Len(wal) - meta
      /\ \A i \in 1 .. Len(wal) - meta : Pend[i] = wal[meta + i]
      /\ Surviving \in meta .. Len(wal)
  <2>1. Len(inflight) \in Nat
    BY <1>2, LenProperties
  <2>2. wal \in Seq(Frame)
    BY DEF RefInv, IndInv, TypeOK
  <2>3. meta \in 0 .. Surviving /\ Surviving \in 0 .. Len(wal) /\ Len(wal) \in Nat
    BY View
  <2>4. meta \in 0 .. Len(wal) /\ Surviving \in meta .. Len(wal)
    BY <2>3
  <2>5. /\ Pend \in Seq(Frame) /\ Len(Pend) = Len(wal) - meta
        /\ \A i \in 1 .. Len(wal) - meta : Pend[i] = wal[meta + i]
    BY View
  <2>6. Len(Pend) \in Nat
    BY <2>5, LenProperties
  <2> QED
    BY <2>1, <2>2, <2>3, <2>4, <2>5, <2>6
<1>4. /\ Len(full) = Len(wal) + Len(inflight)
      /\ \A i \in 1 .. Len(wal) : full[i] = wal[i]
      /\ \A i \in Len(wal) + 1 .. Len(wal) + Len(inflight) : full[i] = inflight[i - Len(wal)]
  BY <1>2, <1>3, ConcatProperties
<1> HIDE DEF full
<1>5. /\ Len(all) = Len(Pend) + Len(inflight)
      /\ \A i \in 1 .. Len(Pend) : all[i] = Pend[i]
      /\ \A i \in Len(Pend) + 1 .. Len(Pend) + Len(inflight) : all[i] = inflight[i - Len(Pend)]
  <2>1. Pend \in Seq(Frame)
    BY <1>3
  <2> HIDE DEF Pend
  <2> QED
    BY <1>2, <2>1, ConcatProperties
<1> HIDE DEF all
<1>6. ASSUME NEW i \in 1 .. Len(all)
      PROVE  all[i] = full[meta + i]
  <2>1. CASE i \in 1 .. Len(Pend)
    <3>1. meta + i \in 1 .. Len(wal) /\ i \in 1 .. Len(wal) - meta
      BY <1>3, <2>1
    <3> QED
      BY <1>3, <1>4, <1>5, <2>1, <3>1
  <2>2. CASE i \in Len(Pend) + 1 .. Len(Pend) + Len(inflight)
    <3>1. PICK j \in Len(wal) + 1 .. Len(wal) + Len(inflight) :
            j = meta + i /\ j - Len(wal) = i - Len(Pend)
      BY <1>3, <2>2
    <3>2. full[j] = inflight[j - Len(wal)]
      BY <1>4
    <3>3. all[i] = inflight[i - Len(Pend)]
      BY <1>5, <2>2
    <3> QED
      BY <3>1, <3>2, <3>3
  <2>3. i \in 1 .. Len(Pend) \/ i \in Len(Pend) + 1 .. Len(Pend) + Len(inflight)
    <3>1. Len(Pend) \in Nat /\ Len(inflight) \in Nat /\ i \in 1 .. Len(Pend) + Len(inflight)
      BY <1>3, <1>5
    <3> QED
      BY <3>1
  <2> QED
    BY <2>1, <2>2, <2>3
<1>7. n \in Surviving .. Len(full) /\ Len(wal') = n /\ Surviving' \in Surviving .. n
  BY DEF Cut, full
<1>8. /\ n - meta \in Hard .. Len(all) /\ Len(Pend') = n - meta
      /\ Hard' \in Hard .. n - meta
  <2>1. Len(Pend') = n - meta /\ Hard' = Surviving' - meta /\ Hard = Surviving - meta
    BY <1>7, ViewAfter DEF Hard
  <2>2. n \in Surviving .. Len(wal) + Len(inflight) /\ Len(all) = Len(wal) - meta + Len(inflight)
    BY <1>3, <1>4, <1>5, <1>7
  <2>3. n \in Nat /\ Surviving \in Nat /\ meta \in Nat
    BY <1>3, <2>2
  <2>4. n - meta \in Hard .. Len(all)
    BY <1>3, <2>1, <2>2, <2>3
  <2>5. Hard' \in Hard .. n - meta
    <3>1. PICK s \in Surviving .. n : Surviving' = s
      BY <1>7
    <3>2. s - meta \in Surviving - meta .. n - meta
      BY <2>2, <2>3
    <3>3. Hard' = s - meta
      BY <2>1, <3>1
    <3> QED
      BY <2>1, <3>2, <3>3
  <2> QED
    BY <2>1, <2>4, <2>5
<1>9. ASSUME NEW i \in 1 .. n - meta
      PROVE  \/ Pend'[i] = all[i]
             \/ i > Hard /\ Pend'[i] = [all[i] EXCEPT !.body = "damaged"]
  <2>1. meta + i \in 1 .. n /\ i \in 1 .. Len(all) /\ (meta + i > Surviving => i > Hard)
    BY <1>3, <1>4, <1>5, <1>7 DEF Hard
  <2>2. Pend'[i] = wal'[meta + i]
    BY <1>7, ViewAfter
  <2>3. \/ wal'[meta + i] = full[meta + i]
        \/ meta + i > Surviving /\ wal'[meta + i] = [full[meta + i] EXCEPT !.body = "damaged"]
    BY <2>1 DEF Cut, full
  <2> QED
    BY <1>6, <2>1, <2>2, <2>3
<1>10. \E m \in Hard .. Len(all) :
         /\ Len(Pend') = m
         /\ \A i \in 1 .. m :
              Pend'[i] = all[i] \/ (i > Hard /\ Pend'[i] = [all[i] EXCEPT !.body = "damaged"])
         /\ Hard' \in Hard .. m
  BY <1>8, <1>9
<1> DEFINE qp == SubSeq(wal, Behind + 1, Total)
           qh == IF Surviving > Behind THEN Surviving - Behind ELSE 0
<1>11. qp = Pend /\ qp' = Pend' /\ qh = Hard /\ qh' = Hard'
  BY View, ViewAfter
<1> HIDE DEF qp, qh
<1>12. \E m \in qh .. Len(qp \o inflight) :
         /\ Len(qp') = m
         /\ \A i \in 1 .. m :
              qp'[i] = (qp \o inflight)[i]
                \/ (i > qh /\ qp'[i] = [(qp \o inflight)[i] EXCEPT !.body = "damaged"])
         /\ qh' \in qh .. m
  BY <1>10, <1>11 DEF all
<1> USE DEF qp, qh
<1> QED
  BY <1>1, <1>12 DEF Queue!Lose, QItem

\* The sink takes the batch in hand, the head of the pending items.
LEMMA SinkTakes ==
  ASSUME RefInv, RefInv', SinkSettles
  PROVE  Queue!Take
<1>1. /\ hand.phase = "deliver" /\ wal' = wal /\ meta' = meta
      /\ seen' = seen \union {hand.frames[i] : i \in DOMAIN hand.frames}
      /\ UNCHANGED <<flushed, synced>>
  BY DEF SinkSettles, disk
<1>2. /\ Marks /\ checkpoint = meta
      /\ hand.upto \in meta + 1 .. flushed
      /\ hand.frames = SubSeq(wal, meta + 1, hand.upto)
  BY <1>1, MarksOrdered DEF RefInv, IndInv, HandInv, HandOffers
<1>3. PICK n \in 1 .. Len(wal) - meta : hand.upto = meta + n
  <2>1. Marks /\ hand.upto \in meta + 1 .. flushed
    BY <1>2
  <2> QED
    BY <2>1 DEF Marks
<1>4. /\ Len(hand.frames) = n /\ DOMAIN hand.frames = 1 .. n
      /\ \A i \in 1 .. n : hand.frames[i] = wal[meta + i]
  <2>1. hand.upto \in meta + 1 .. Len(wal) /\ meta \in Nat /\ wal \in Seq(Frame)
        /\ hand.upto - meta = n
    BY <1>2, <1>3 DEF Marks
  <2>2. /\ hand.frames \in Seq(Frame) /\ Len(hand.frames) = hand.upto - meta
        /\ \A i \in 1 .. hand.upto - meta : hand.frames[i] = wal[meta + i]
    BY <1>2, <2>1, SliceProps
  <2>3. DOMAIN hand.frames = 1 .. Len(hand.frames)
    BY <2>2, LenProperties
  <2> QED
    BY <2>1, <2>2, <2>3
<1>5. ASSUME NEW i \in 1 .. n
      PROVE  Pend[i] = hand.frames[i] /\ Pend[i].body = "intact"
  <2>1. i \in 1 .. Len(wal) - meta
    BY <1>2, <1>3 DEF Marks
  <2>2. Pend[i] = hand.frames[i]
    BY <1>4, <2>1, View
  <2> QED
    BY <1>1, <1>4, <2>2 DEF RefInv, HandOffers, Intact
<1>6. n \in 1 .. Len(Pend) /\ seen' = seen \union {Pend[i] : i \in 1 .. n}
  <2>1. n \in 1 .. Len(Pend)
    BY <1>3, View
  <2>2. {hand.frames[i] : i \in DOMAIN hand.frames} = {Pend[i] : i \in 1 .. n}
    BY <1>4, <1>5
  <2> QED
    BY <1>1, <2>1, <2>2
<1>7. Pend' = Pend /\ Hard' = Hard
  BY <1>1 DEF Pend, Hard, Surviving
<1> DEFINE qp == SubSeq(wal, Behind + 1, Total)
           qh == IF Surviving > Behind THEN Surviving - Behind ELSE 0
<1>8. qp = Pend /\ qp' = Pend' /\ qh = Hard /\ qh' = Hard'
  BY View, ViewAfter
<1> HIDE DEF qp, qh
<1>9. /\ n \in 1 .. Len(qp) /\ seen' = seen \union {qp[i] : i \in 1 .. n}
      /\ \A i \in 1 .. n : qp[i].body = "intact"
      /\ qp' = qp /\ qh' = qh
  BY <1>5, <1>6, <1>7, <1>8
<1> USE DEF qp, qh
<1> QED
  BY <1>9 DEF Queue!Take

\* A commit discharges the batch, every frame of which was taken or cannot
\* be read.
LEMMA CommitDischarges ==
  ASSUME RefInv, RefInv', Surviving <= Surviving', Commit
  PROVE  Queue!Discharge
<1>1. /\ hand.phase = "commit" /\ mode = "open" /\ wal' = wal /\ meta' = hand.upto /\ seen' = seen
  BY DEF Commit
<1>2. /\ Marks /\ checkpoint = meta
      /\ hand.upto \in meta + 1 .. flushed
      /\ \A i \in meta + 1 .. hand.upto : Settled(wal[i])
  BY <1>1, MarksOrdered DEF RefInv, IndInv, HandInv
<1>3. PICK n \in 1 .. Len(wal) - meta : hand.upto = meta + n
  BY <1>2 DEF Marks
<1>4. /\ meta \in Nat /\ Len(wal) \in Nat /\ wal \in Seq(Frame) /\ n \in Nat
      /\ Pend \in Seq(Frame) /\ Len(Pend) = Len(wal) - meta /\ Len(Pend) \in Nat
      /\ \A i \in 1 .. Len(Pend) : Pend[i] = wal[meta + i]
      /\ n \in 0 .. Len(Pend)
  <2>1. Pend \in Seq(Frame) /\ Len(Pend) = Len(wal) - meta
        /\ \A i \in 1 .. Len(wal) - meta : Pend[i] = wal[meta + i]
    BY View
  <2>2. Len(Pend) \in Nat
    BY <2>1, LenProperties
  <2> QED
    BY <1>2, <1>3, <2>1, <2>2 DEF Marks
<1>5. ASSUME NEW i \in 1 .. n
      PROVE  Pend[i] \in seen \/ Pend[i].body = "damaged"
  <2>1. i \in 1 .. Len(Pend) /\ meta + i \in meta + 1 .. hand.upto /\ meta + i \in 1 .. Len(wal)
    BY <1>3, <1>4
  <2>2. Pend[i] = wal[meta + i] /\ Settled(wal[meta + i]) /\ wal[meta + i] \in Frame
    BY <1>2, <1>4, <2>1, ElementOfSeq
  <2> QED
    BY <2>2 DEF Settled, Intact, Frame
<1>6. Pend' = SubSeq(Pend, n + 1, Len(Pend))
  <2> DEFINE rest == SubSeq(Pend, n + 1, Len(Pend))
  <2>1. /\ rest \in Seq(Frame) /\ Len(rest) = Len(Pend) - n
        /\ \A i \in 1 .. Len(Pend) - n : rest[i] = Pend[n + i]
    BY <1>4, RestProps
  <2>2. /\ Pend' \in Seq(Frame) /\ Len(Pend') = Len(wal) - (meta + n)
        /\ \A i \in 1 .. Len(wal) - (meta + n) : Pend'[i] = wal[meta + n + i]
    BY <1>1, <1>3, ViewAfter
  <2>3. Len(Pend) - n = Len(wal) - (meta + n)
    BY <1>4
  <2>4. ASSUME NEW i \in 1 .. Len(Pend')
        PROVE  Pend'[i] = rest[i]
    <3>1. /\ i \in 1 .. Len(Pend) - n /\ i \in 1 .. Len(wal) - (meta + n)
          /\ n + i \in 1 .. Len(Pend) /\ meta + (n + i) = meta + n + i
      BY <1>4, <2>2, <2>3
    <3>2. rest[i] = wal[meta + (n + i)]
      BY <1>4, <2>1, <3>1
    <3> QED
      BY <2>2, <3>1, <3>2
  <2> QED
    BY <2>1, <2>2, <2>3, <2>4, SeqEqual
<1>7. Hard' \in (IF Hard > n THEN Hard - n ELSE 0) .. Len(Pend')
  <2>1. Len(Pend') = Len(wal) - (meta + n) /\ Surviving' \in meta + n .. Len(wal)
    BY <1>1, <1>3, ViewAfter
  <2>2. PICK s \in meta + n .. Len(wal) : Surviving' = s
    BY <2>1
  <2>3. Surviving \in 0 .. Len(wal) /\ Surviving <= s /\ Hard = Surviving - meta
    BY <2>2, View DEF Hard
  <2>4. Hard' = s - (meta + n)
    BY <1>1, <1>3, <2>2 DEF Hard
  <2>5. s - (meta + n) \in (IF Hard > n THEN Hard - n ELSE 0) .. Len(wal) - (meta + n)
    BY <1>4, <2>2, <2>3
  <2> QED
    BY <2>1, <2>4, <2>5
<1> DEFINE qp == SubSeq(wal, Behind + 1, Total)
           qh == IF Surviving > Behind THEN Surviving - Behind ELSE 0
<1>8. qp = Pend /\ qp' = Pend' /\ qh = Hard /\ qh' = Hard'
  BY View, ViewAfter
<1> HIDE DEF qp, qh
<1>9. /\ n \in 1 .. Len(qp)
      /\ \A i \in 1 .. n : qp[i] \in seen \/ qp[i].body = "damaged"
      /\ qp' = SubSeq(qp, n + 1, Len(qp))
      /\ qh' \in (IF qh > n THEN qh - n ELSE 0) .. Len(qp')
  BY <1>3, <1>4, <1>5, <1>6, <1>7, <1>8
<1> USE DEF qp, qh
<1> QED
  BY <1>1, <1>9 DEF Queue!Discharge

\* Every step of the log, whatever fails or crashes, is a step of the queue.
LEMMA StepRefines ==
  ASSUME RefInv, RefInv', [Next]_vars
  PROVE  [Queue!Next]_(Queue!vars)
<1>1. TypeOK /\ TypeOK'
  BY DEF RefInv, IndInv
<1>2. Surviving <= Surviving'
  BY <1>1, SurvivorsKept
<1>3. CASE \E r \in reserved : AppendAcked(r)
  BY <1>2, <1>3, AppendAccepts DEF Queue!Next
<1>4. CASE (\E r \in reserved : AppendFailed(r)) \/ CloseEnd \/ ProcessCrash \/ PowerLoss
  <2>1. meta' = meta /\ seen' = seen
    BY <1>4 DEF AppendFailed, CloseEnd, ProcessCrash, PowerLoss, ProcessDies
  <2>2. CASE wal' = wal
    BY <1>2, <2>1, <2>2, QuietHardens DEF Queue!Next
  <2>3. CASE \E inflight, n : Cut(inflight, n)
    BY <2>1, <2>3, CutLoses DEF Queue!Next
  <2> QED
    BY <1>1, <1>4, <2>2, <2>3, LossCuts
<1>5. CASE SinkSettles
  BY <1>5, SinkTakes DEF Queue!Next
<1>6. CASE Commit
  BY <1>2, <1>6, CommitDischarges DEF Queue!Next
<1>7. CASE UNCHANGED <<wal, meta, seen>>
  BY <1>2, <1>7, QuietHardens DEF Queue!Next
<1> QED
  BY <1>3, <1>4, <1>5, <1>6, <1>7
     DEF Next, vars, disk, TakeID, AppendRefused, ReadBatch, ReadNothing, SinkFails, CommitNothing,
         Flush, CloseBegin, Recover

\* The write-ahead log is an at-least-once queue, over failing writes, cut
\* logs, crashes and restarts, in the settings where the checkpoint cannot
\* outlive the frames in front of it.
THEOREM LogImplementsQueue ==
  ASSUME SafeSetup
  PROVE  Spec => ImplementsQueue
<1>1. Spec => []IndInv
  BY SafeInvariant
<1>2. Init => ItemInv /\ HandOffers
  BY EmptySeq, WalStorageAssumption DEF Init, ItemInv, HandOffers, Idle
<1>3. IndInv /\ ItemInv /\ HandOffers /\ [Next]_vars => ItemInv' /\ HandOffers'
  BY ItemStep, OfferStep DEF IndInv
<1>4. IndInv /\ ItemInv /\ HandOffers /\ IndInv' /\ ItemInv' /\ HandOffers' /\ [Next]_vars =>
        [Queue!Next]_(Queue!vars)
  BY StepRefines DEF RefInv
<1> QED
  BY <1>1, <1>2, <1>3, <1>4, QueueInit, PTL DEF Spec, ImplementsQueue, Queue!Spec
=============================================================================
