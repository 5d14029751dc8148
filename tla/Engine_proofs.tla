--------------------------- MODULE Engine_proofs ---------------------------
(***************************************************************************)
(* Proofs about Engine for any number of callers, flushers and closers:    *)
(* its types, FlushMeansDrained and StorageLeftAlone.                      *)
(***************************************************************************)
EXTENDS Engine, TLAPS

-----------------------------------------------------------------------------
(* What the helpers of the dispatcher do to its types *)

\* The states of the dispatcher that DrainAllReturns, Drained and DrainFails
\* lead to are among its states.
LEMMA DrainType ==
  ASSUME TypeOK, NEW error,
         Drained \/ DrainFails(error) \/ DrainAllReturns("nil") \/ DrainAllReturns("error")
  PROVE  /\ pc' \in {"drain", "more", "backoff", "done"}
         /\ serving' \in {"loop", "shutdown"} \union Flushers
         /\ ack' \in [Flushers -> {"empty", "nil", "error"}]
BY DEF TypeOK, Drained, DrainFails, DrainAllReturns

\* Every step keeps the types.
LEMMA TypeStep ==
  ASSUME TypeOK, [Next]_vars
  PROVE  TypeOK'
<1> USE EngineAssumption DEF channels, flushing, dispatcher, queue
<1>1. ASSUME NEW c \in Callers, Enqueue(c)
      PROVE  TypeOK'
  <2>1. CASE EnqueueLock(c)
    BY <2>1 DEF EnqueueLock, TypeOK
  <2>2. CASE EnqueueAppend(c)
    BY <2>2 DEF EnqueueAppend, TypeOK
  <2>3. CASE EnqueueFails(c)
    BY <2>3 DEF EnqueueFails, TypeOK
  <2>4. CASE EnqueueNotify(c)
    BY <2>4 DEF EnqueueNotify, TypeOK
  <2>5. QED
    BY <1>1, <2>1, <2>2, <2>3, <2>4 DEF Enqueue
<1>2. ASSUME NEW f \in Flushers, FlushCall(f)
      PROVE  TypeOK'
  BY <1>2 DEF FlushCall, TypeOK
<1>3. ASSUME NEW f \in Flushers, ContextEnds(f) \/ FlushLeaves(f) \/ FlushAcked(f)
      PROVE  TypeOK'
  BY <1>3 DEF ContextEnds, FlushLeaves, FlushAcked, TypeOK
<1>4. ASSUME NEW k \in Closers, CloseCall(k) \/ Close(k)
      PROVE  TypeOK'
  BY <1>4 DEF CloseCall, Close, CloseLock, CloseStop, CloseJoin, TypeOK
<1>5. CASE DrainCancelled \/ ReadEmpty \/ ReadFails \/ BackoffStopped \/ BackoffCancelled
  <2>1. /\ pc' \in {"drain", "more", "backoff", "done", "idle"}
        /\ serving' \in {"loop", "shutdown"} \union Flushers
        /\ ack' \in [Flushers -> {"empty", "nil", "error"}]
    BY <1>5, DrainType
       DEF DrainCancelled, ReadEmpty, ReadFails, BackoffStopped, BackoffCancelled, TypeOK
  <2>2. UNCHANGED <<status, stopCh, notifyCh, caller, flushing, closer, batch, queue, storage>>
    BY <1>5 DEF DrainCancelled, ReadEmpty, ReadFails, BackoffStopped, BackoffCancelled
  <2>3. QED
    BY <2>1, <2>2 DEF TypeOK
<1>6. CASE Read \/ ReadCorrupt
  BY <1>6 DEF Read, ReadCorrupt, TypeOK, Min2
<1>7. CASE SinkSettles("accepted") \/ SinkSettles("rejected")
  BY <1>7 DEF SinkSettles, TypeOK
<1>8. ASSUME NEW error, SinkFails(error)
      PROVE  TypeOK'
  BY <1>8, DrainType DEF SinkFails, TypeOK
<1>9. CASE Commit
  <2>1. batch \in 0 .. pending /\ pending \in 0 .. MaxCapacity
    BY DEF TypeOK
  <2>2. ASSUME NEW n \in 0 .. pending
        PROVE  Minus(n, batch) \in 0 .. pending - batch
    BY <2>1 DEF Minus
  <2>3. owed' \in [Flushers -> 0 .. pending'] /\ mark' \in 0 .. pending'
    BY <1>9, <2>2 DEF Commit, TypeOK
  <2>4. pending' \in 0 .. MaxCapacity /\ batch' \in 0 .. pending'
    BY <1>9, <2>1 DEF Commit
  <2>5. QED
    BY <1>9, <2>3, <2>4, DrainType DEF Commit, TypeOK
<1>10. CASE CommitFails
  BY <1>10, DrainType DEF CommitFails, TypeOK
<1>11. CASE AcceptFlush
  BY <1>11 DEF AcceptFlush, Accept, TypeOK
<1>12. CASE NoFlush \/ WakeUp \/ Tick \/ StopWaiting \/ BackoffEnds
  BY <1>12 DEF NoFlush, WakeUp, Tick, StopWaiting, BackoffEnds, TypeOK
<1>13. CASE Finished \/ UNCHANGED vars
  BY <1>13 DEF Finished, vars, TypeOK
<1>14. QED
  BY <1>1, <1>2, <1>3, <1>4, <1>5, <1>6, <1>7, <1>8, <1>9, <1>10, <1>11, <1>12, <1>13
     DEF Next, Dispatcher

\* The types of the engine, for any number of goroutines.
THEOREM TypeCorrect == Spec => []TypeOK
<1>1. Init => TypeOK
  BY EngineAssumption DEF Init, TypeOK
<1>2. TypeOK /\ [Next]_vars => TypeOK'
  BY TypeStep
<1>3. QED
  BY <1>1, <1>2, PTL DEF Spec
-----------------------------------------------------------------------------
(* Flush *)

\* An ack of success is only ever put in the channel of a flusher when the
\* queue is empty.
LEMMA NilAck ==
  ASSUME TypeOK, [Next]_vars, NEW f \in Flushers, ack'[f] = "nil"
  PROVE  ack[f] = "nil" \/ (pending = 0 /\ UNCHANGED queue)
<1> USE DEF channels, flushing, dispatcher, queue
<1>1. CASE UNCHANGED ack
  BY <1>1
<1>2. ASSUME NEW g \in Flushers, FlushCall(g)
      PROVE  ack[f] = "nil"
  BY <1>2 DEF FlushCall, TypeOK
<1>3. CASE ReadEmpty
  BY <1>3 DEF ReadEmpty
<1>4. ASSUME NEW error, Drained \/ DrainFails(error) \/ DrainAllReturns("error")
      PROVE  ack[f] = "nil"
  BY <1>4 DEF Drained, DrainFails, DrainAllReturns, TypeOK
<1>5. CASE DrainCancelled \/ ReadFails \/ Commit \/ CommitFails \/ BackoffStopped
           \/ BackoffCancelled \/ \E error : SinkFails(error)
  BY <1>1, <1>4, <1>5 DEF DrainCancelled, ReadFails, Commit, CommitFails, BackoffStopped,
     BackoffCancelled, SinkFails
<1>6. QED
  <2>1. CASE \E c \in Callers : Enqueue(c)
    BY <1>1, <2>1 DEF Enqueue, EnqueueLock, EnqueueAppend, EnqueueFails, EnqueueNotify
  <2>2. CASE \E g \in Flushers : ContextEnds(g) \/ FlushLeaves(g) \/ FlushAcked(g)
    BY <1>1, <2>2 DEF ContextEnds, FlushLeaves, FlushAcked
  <2>3. CASE \E k \in Closers : CloseCall(k) \/ Close(k)
    BY <1>1, <2>3 DEF CloseCall, Close, CloseLock, CloseStop, CloseJoin
  <2>4. CASE \/ Read \/ ReadCorrupt \/ SinkSettles("accepted") \/ SinkSettles("rejected")
             \/ AcceptFlush \/ NoFlush \/ WakeUp \/ Tick \/ StopWaiting \/ BackoffEnds
             \/ Finished \/ UNCHANGED vars
    BY <1>1, <2>4 DEF Read, ReadCorrupt, SinkSettles, AcceptFlush, NoFlush, WakeUp, Tick,
       StopWaiting, BackoffEnds, Finished, vars
  <2>5. QED
    BY <1>2, <1>3, <1>5, <2>1, <2>2, <2>3, <2>4 DEF Next, Dispatcher

\* What a flusher is owed only grows when it calls Flush, which empties its
\* ack channel and clears its result.
LEMMA OwedStep ==
  ASSUME TypeOK, [Next]_vars, NEW f \in Flushers, owed[f] = 0
  PROVE  owed'[f] = 0 \/ (ack'[f] = "empty" /\ result'[f] = "none")
<1> USE DEF channels, flushing, dispatcher, queue
<1>1. ASSUME NEW g \in Flushers, FlushCall(g)
      PROVE  owed'[f] = 0 \/ (ack'[f] = "empty" /\ result'[f] = "none")
  BY <1>1 DEF FlushCall, TypeOK
<1>2. CASE Commit
  <2>1. batch \in Nat
    BY DEF TypeOK
  <2>2. QED
    BY <1>2, <2>1 DEF Commit, Minus
<1>3. CASE UNCHANGED owed
  BY <1>3
<1>4. QED
  <2>1. CASE \E c \in Callers : Enqueue(c)
    BY <1>3, <2>1 DEF Enqueue, EnqueueLock, EnqueueAppend, EnqueueFails, EnqueueNotify
  <2>2. CASE \E g \in Flushers : ContextEnds(g) \/ FlushLeaves(g) \/ FlushAcked(g)
    BY <1>3, <2>2 DEF ContextEnds, FlushLeaves, FlushAcked
  <2>3. CASE \E k \in Closers : CloseCall(k) \/ Close(k)
    BY <1>3, <2>3 DEF CloseCall, Close, CloseLock, CloseStop, CloseJoin
  <2>4. CASE Dispatcher /\ ~Commit
    BY <1>3, <2>4 DEF Dispatcher, DrainCancelled, Read, ReadCorrupt, ReadEmpty, ReadFails,
       SinkSettles, SinkFails, CommitFails, AcceptFlush, NoFlush, WakeUp, StopWaiting,
       BackoffEnds, BackoffStopped, BackoffCancelled
  <2>5. CASE Tick \/ Finished \/ UNCHANGED vars
    BY <1>3, <2>5 DEF Tick, Finished, vars
  <2>6. QED
    BY <1>1, <1>2, <2>1, <2>2, <2>3, <2>4, <2>5 DEF Next

\* A result of success comes out of the ack channel.
LEMMA NilResult ==
  ASSUME TypeOK, [Next]_vars, NEW f \in Flushers, result'[f] = "nil"
  PROVE  result[f] = "nil" \/ (ack[f] = "nil" /\ UNCHANGED <<ack, owed>>)
<1> USE DEF channels, flushing, dispatcher, queue
<1>1. ASSUME NEW g \in Flushers, FlushCall(g) \/ FlushLeaves(g) \/ FlushAcked(g)
      PROVE  result[f] = "nil" \/ (ack[f] = "nil" /\ UNCHANGED <<ack, owed>>)
  BY <1>1 DEF FlushCall, FlushLeaves, FlushAcked, TypeOK
<1>2. CASE UNCHANGED result
  BY <1>2
<1>3. QED
  <2>1. CASE \E c \in Callers : Enqueue(c)
    BY <1>2, <2>1 DEF Enqueue, EnqueueLock, EnqueueAppend, EnqueueFails, EnqueueNotify
  <2>2. CASE \E g \in Flushers : ContextEnds(g)
    BY <1>2, <2>2 DEF ContextEnds
  <2>3. CASE \E k \in Closers : CloseCall(k) \/ Close(k)
    BY <1>2, <2>3 DEF CloseCall, Close, CloseLock, CloseStop, CloseJoin
  <2>4. CASE Dispatcher
    BY <1>2, <2>4 DEF Dispatcher, DrainCancelled, Read, ReadCorrupt, ReadEmpty, ReadFails,
       SinkSettles, SinkFails, Commit, CommitFails, AcceptFlush, NoFlush, WakeUp, StopWaiting,
       BackoffEnds, BackoffStopped, BackoffCancelled
  <2>5. CASE Tick \/ Finished \/ UNCHANGED vars
    BY <1>2, <2>5 DEF Tick, Finished, vars
  <2>6. QED
    BY <1>1, <2>1, <2>2, <2>3, <2>4, <2>5 DEF Next

\* A Flush that reports success leaves no record behind that was pending when
\* it was called, whoever enqueues, flushes and closes meanwhile.
THEOREM FlushIsComplete == Spec => []FlushMeansDrained
<1>1. Init => FlushMeansDrained
  BY DEF Init, FlushMeansDrained
<1>2. TypeOK /\ FlushMeansDrained /\ [Next]_vars => FlushMeansDrained'
  <2> SUFFICES ASSUME TypeOK, FlushMeansDrained, [Next]_vars,
                      NEW f \in Flushers, ack'[f] = "nil" \/ result'[f] = "nil"
               PROVE  owed'[f] = 0
    BY DEF FlushMeansDrained
  <2>1. owed[f] \in 0 .. pending
    BY DEF TypeOK
  <2>2. CASE pending = 0 /\ UNCHANGED queue
    BY <2>1, <2>2 DEF queue
  <2>3. CASE ack[f] = "nil" \/ result[f] = "nil"
    <3>1. owed[f] = 0
      BY <2>3 DEF FlushMeansDrained
    <3>2. QED
      BY <3>1, OwedStep
  <2>4. QED
    BY <2>2, <2>3, NilAck, NilResult
<1>3. QED
  BY <1>1, <1>2, TypeCorrect, PTL DEF Spec
-----------------------------------------------------------------------------
(* Close *)

\* Whoever has got past the lock of Close has closed the engine with no
\* caller inside, and storage.Close comes after the end of the dispatcher.
CloseInv ==
  /\ \A k \in Closers : closer[k] \in {"stop", "join"} => status = "closed"
  /\ status = "closed" => \A c \in Callers : caller[c] = "out"
  /\ storage = "closed" => status = "closed" /\ pc = "done"

\* No step of the engine reopens it or brings the dispatcher back.
LEMMA CloseStep ==
  ASSUME TypeOK, CloseInv, [Next]_vars
  PROVE  CloseInv'
<1> USE DEF channels, flushing, dispatcher, queue
<1>1. CASE \E c \in Callers : Enqueue(c)
  BY <1>1 DEF Enqueue, EnqueueLock, EnqueueAppend, EnqueueFails, EnqueueNotify, CloseInv, TypeOK
<1>2. CASE \E g \in Flushers : FlushCall(g) \/ ContextEnds(g) \/ FlushLeaves(g) \/ FlushAcked(g)
  BY <1>2 DEF FlushCall, ContextEnds, FlushLeaves, FlushAcked, CloseInv
<1>3. ASSUME NEW k \in Closers, CloseCall(k) \/ Close(k)
      PROVE  CloseInv'
  BY <1>3 DEF CloseCall, Close, CloseLock, WriteLockFree, CloseStop, CloseJoin, Joined,
     CloseInv, TypeOK
<1>4. CASE Dispatcher \/ Tick
  <2>1. pc # "done" /\ UNCHANGED <<status, caller, closer, storage>>
    BY <1>4 DEF Dispatcher, DrainCancelled, Read, ReadCorrupt, ReadEmpty, ReadFails,
       SinkSettles, SinkFails, Commit, Committing, CommitFails, AcceptFlush, NoFlush, WakeUp,
       Tick, StopWaiting, BackoffEnds, BackoffStopped, BackoffCancelled
  <2>2. QED
    BY <2>1 DEF CloseInv
<1>5. CASE Finished \/ UNCHANGED vars
  BY <1>5 DEF Finished, vars, CloseInv
<1>6. QED
  BY <1>1, <1>2, <1>3, <1>4, <1>5 DEF Next

\* storage.Close never meets an Append, a ReadBatch or a Commit in progress,
\* and none of them comes after it.
THEOREM StorageIsLeftAlone == Spec => []StorageLeftAlone
<1>1. Init => CloseInv
  BY DEF Init, CloseInv
<1>2. TypeOK /\ CloseInv /\ [Next]_vars => CloseInv'
  BY CloseStep
<1>3. CloseInv => StorageLeftAlone
  BY DEF CloseInv, StorageLeftAlone
<1>4. QED
  BY <1>1, <1>2, <1>3, TypeCorrect, PTL DEF Spec
=============================================================================
