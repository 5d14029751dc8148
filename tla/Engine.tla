------------------------------- MODULE Engine -------------------------------
(***************************************************************************)
(* The spooler engine (engine.go): its dispatcher goroutine, and the       *)
(* goroutines that call Enqueue, Flush and Close on it, over any storage   *)
(* that keeps the contract of the StorageEngine port.                      *)
(*                                                                         *)
(* A step is what one goroutine does between two points where another can  *)
(* see it: a lock or channel operation, or a call of the storage or sink.  *)
(* The queue is its length, "pending": the dispatcher only takes from its  *)
(* front and callers only add at its end, so the records behind a point of *)
(* it are known by their number.                                           *)
(***************************************************************************)
EXTENDS Naturals, FiniteSets

CONSTANTS
  Callers,     \* goroutines that call Enqueue
  Flushers,    \* goroutines that call Flush
  Closers,     \* goroutines that call Close, once each
  Impatient,   \* the flushers whose context may be done
  MaxCapacity, \* quota of uncommitted records
  BatchSize    \* cfg.BatchSize

ASSUME EngineAssumption ==
  /\ Impatient \subseteq Flushers
  /\ Flushers \intersect {"loop", "shutdown"} = {}
  /\ MaxCapacity \in Nat \ {0} /\ BatchSize \in Nat \ {0}

VARIABLES
  status,   \* e.closed: "open" or "closed"
  stopCh,   \* "open" or "closed"
  notifyCh, \* the one-slot wake-up channel: "empty" or "full"
  caller,   \* Enqueue: "out", "locked" (e.mu read-locked), "stored"
  flusher,  \* Flush: "out", "send" (on flushCh) or "wait" (for the ack)
  ctx,      \* a flusher's context: "live" or "done"
  ack,      \* its one-slot ack channel: "empty", "nil" or "error"
  result,   \* what its last Flush returned: "none", "nil" or "error"
  closer,   \* Close: "out", "lock", "stop", "join" or "back"
  pc,       \* where the dispatcher is
  serving,  \* whose drain it runs: "loop", "shutdown" or a flusher
  batch,    \* records of the batch between ReadBatch and Commit
  pending,  \* uncommitted records in the storage
  storage,  \* "open" or "closed"
  owed,     \* history: of the records pending when a Flush began, those left
  mark      \* history: position of one watched record, 0 when committed

channels   == <<stopCh, notifyCh, ack>>
flushing   == <<flusher, ctx, result>>
dispatcher == <<pc, serving, batch>>
queue      == <<pending, owed, mark>>
vars == <<status, channels, caller, flushing, closer, dispatcher, queue, storage>>

Min2(a, b)   == IF a < b THEN a ELSE b
Minus(a, b)  == IF a < b THEN 0 ELSE a - b

Init ==
  /\ status = "open" /\ stopCh = "open" /\ notifyCh = "empty"
  /\ caller = [c \in Callers |-> "out"]
  /\ flusher = [f \in Flushers |-> "out"] /\ ctx = [f \in Flushers |-> "live"]
  /\ ack = [f \in Flushers |-> "empty"] /\ result = [f \in Flushers |-> "none"]
  /\ closer = [k \in Closers |-> "out"]
  /\ pc = "drain" /\ serving = "loop" /\ batch = 0
  /\ pending = 0 /\ storage = "open"
  /\ owed = [f \in Flushers |-> 0] /\ mark = 0

-----------------------------------------------------------------------------
(* Enqueue: e.mu is read-locked from the test of e.closed to the return.   *)

\* A pending Lock of a closer keeps new readers of e.mu out.
ReadLockFree == \A k \in Closers : closer[k] # "lock"

EnqueueLock(c) ==
  /\ caller[c] = "out"
  /\ ReadLockFree /\ status = "open"
  /\ caller' = [caller EXCEPT ![c] = "locked"]
  /\ UNCHANGED <<status, channels, flushing, closer, dispatcher, queue, storage>>

\* Mutant: the quota is not tested.
EnqueueAppendUnbounded(c) ==
  /\ caller[c] = "locked"
  /\ pending' = pending + 1
  /\ mark' \in IF mark = 0 THEN {0, pending'} ELSE {mark}
  /\ caller' = [caller EXCEPT ![c] = "stored"]
  /\ UNCHANGED <<status, channels, flushing, closer, dispatcher, owed, storage>>

\* storage.Append, below the quota; the record may be the watched one.
EnqueueAppend(c) ==
  /\ caller[c] = "locked"
  /\ pending < MaxCapacity
  /\ pending' = pending + 1
  /\ mark' \in IF mark = 0 THEN {0, pending'} ELSE {mark}
  /\ caller' = [caller EXCEPT ![c] = "stored"]
  /\ UNCHANGED <<status, channels, flushing, closer, dispatcher, owed, storage>>

\* Append returns ErrSpoolFull or ErrStorageUnavailable.
EnqueueFails(c) ==
  /\ caller[c] = "locked"
  /\ caller' = [caller EXCEPT ![c] = "out"]
  /\ UNCHANGED <<status, channels, flushing, closer, dispatcher, queue, storage>>

\* Mutant: no wake-up.
EnqueueNotifyForgotten(c) ==
  /\ caller[c] = "stored"
  /\ caller' = [caller EXCEPT ![c] = "out"]
  /\ UNCHANGED <<status, channels, flushing, closer, dispatcher, queue, storage>>

\* The wake-up is sent unless one is waiting already; e.mu is released.
EnqueueNotify(c) ==
  /\ caller[c] = "stored"
  /\ notifyCh' = "full"
  /\ caller' = [caller EXCEPT ![c] = "out"]
  /\ UNCHANGED <<status, stopCh, ack, flushing, closer, dispatcher, queue, storage>>

-----------------------------------------------------------------------------
(* Flush.  A flusher stands for one call at a time, so it calls again only *)
(* when the dispatcher has let go of the request of its last call.         *)

FlushCall(f) ==
  /\ flusher[f] = "out" /\ serving # f
  /\ ReadLockFree /\ status = "open"
  /\ flusher' = [flusher EXCEPT ![f] = "send"]
  /\ ctx' = [ctx EXCEPT ![f] = "live"]
  /\ ack' = [ack EXCEPT ![f] = "empty"]
  /\ result' = [result EXCEPT ![f] = "none"]
  /\ owed' = [owed EXCEPT ![f] = pending]
  /\ UNCHANGED <<status, stopCh, notifyCh, caller, closer, dispatcher, pending, mark, storage>>

ContextEnds(f) ==
  /\ f \in Impatient /\ ctx[f] = "live"
  /\ flusher[f] # "out"
  /\ ctx' = [ctx EXCEPT ![f] = "done"]
  /\ UNCHANGED <<status, channels, caller, flusher, result, closer, dispatcher, queue, storage>>

\* Mutant: Flush does not listen to stopCh.
FlushLeavesOnContext(f) ==
  /\ flusher[f] \in {"send", "wait"}
  /\ ctx[f] = "done"
  /\ flusher' = [flusher EXCEPT ![f] = "out"]
  /\ result' = [result EXCEPT ![f] = "error"]
  /\ UNCHANGED <<status, channels, caller, ctx, closer, dispatcher, queue, storage>>

FlushLeaves(f) ==
  /\ flusher[f] \in {"send", "wait"}
  /\ ctx[f] = "done" \/ stopCh = "closed"
  /\ flusher' = [flusher EXCEPT ![f] = "out"]
  /\ result' = [result EXCEPT ![f] = "error"]
  /\ UNCHANGED <<status, channels, caller, ctx, closer, dispatcher, queue, storage>>

FlushAcked(f) ==
  /\ flusher[f] = "wait" /\ ack[f] # "empty"
  /\ flusher' = [flusher EXCEPT ![f] = "out"]
  /\ result' = [result EXCEPT ![f] = ack[f]]
  /\ UNCHANGED <<status, channels, caller, ctx, closer, dispatcher, queue, storage>>

-----------------------------------------------------------------------------
(* Close *)

CloseCall(k) ==
  /\ closer[k] = "out"
  /\ closer' = [closer EXCEPT ![k] = "lock"]
  /\ UNCHANGED <<status, channels, caller, flushing, dispatcher, queue, storage>>

\* Mutant: Enqueue releases e.mu after its test of e.closed.
WriteLockFreeAlways == TRUE

\* e.mu.Lock returns when no caller holds the read lock any more.
WriteLockFree == \A c \in Callers : caller[c] = "out"

\* Only the first of several calls goes on; the others return at once.
CloseLock(k) ==
  /\ closer[k] = "lock"
  /\ WriteLockFree
  /\ status' = "closed"
  /\ closer' = [closer EXCEPT ![k] = IF status = "open" THEN "stop" ELSE "back"]
  /\ UNCHANGED <<channels, caller, flushing, dispatcher, queue, storage>>

\* Mutant: the stop channel stays open.
CloseStopForgotten(k) ==
  /\ closer[k] = "stop"
  /\ closer' = [closer EXCEPT ![k] = "join"]
  /\ UNCHANGED <<status, channels, caller, flushing, dispatcher, queue, storage>>

CloseStop(k) ==
  /\ closer[k] = "stop"
  /\ stopCh' = "closed"
  /\ closer' = [closer EXCEPT ![k] = "join"]
  /\ UNCHANGED <<status, notifyCh, ack, caller, flushing, dispatcher, queue, storage>>

\* doneWg.Wait.
Joined == pc = "done"

CloseJoin(k) ==
  /\ closer[k] = "join"
  /\ Joined
  /\ storage' = "closed"
  /\ closer' = [closer EXCEPT ![k] = "back"]
  /\ UNCHANGED <<status, channels, caller, flushing, dispatcher, queue>>

-----------------------------------------------------------------------------
(* The dispatcher.  drainPendingBatches runs for the loop, for a flusher   *)
(* or for the shutdown; the last two from drainAll.                        *)

\* drainAll returns r: to a flusher through its ack channel, and the loop
\* starts over; or to runDispatcher at its end.
DrainAllReturns(r) ==
  IF serving = "shutdown"
  THEN pc' = "done" /\ UNCHANGED <<serving, ack>>
  ELSE pc' = "drain" /\ serving' = "loop" /\ ack' = [ack EXCEPT ![serving] = r]

\* Mutant: a flush is answered after one batch.
DrainedOnce ==
  IF serving = "loop"
  THEN pc' = "more" /\ UNCHANGED <<serving, ack>>
  ELSE DrainAllReturns("nil")

\* drainPendingBatches returns (true, nil).
Drained ==
  /\ pc' = IF serving = "loop" THEN "more" ELSE "drain"
  /\ UNCHANGED <<serving, ack>>

\* drainPendingBatches returns an error: the loop backs off whatever it is,
\* drainAll when it is transient.
DrainFails(error) ==
  IF serving = "loop" \/ error = "transient"
  THEN pc' = "backoff" /\ UNCHANGED <<serving, ack>>
  ELSE DrainAllReturns("error")

\* The shutdown context may run out of its five seconds at any time.
ContextDone == serving = "shutdown" \/ (serving \in Flushers /\ ctx[serving] = "done")
ContextLive == serving \in Flushers => ctx[serving] = "live"

DrainCancelled ==
  /\ pc = "drain" /\ ContextDone
  /\ DrainAllReturns("error")
  /\ UNCHANGED <<status, stopCh, notifyCh, caller, flushing, closer, batch, queue, storage>>

\* ReadBatch returns records, fewer when a corrupt one follows, ...
Read ==
  /\ pc = "drain" /\ ContextLive
  /\ batch' \in 1 .. Min2(BatchSize, pending)
  /\ pc' = "deliver"
  /\ UNCHANGED <<status, channels, caller, flushing, closer, serving, queue, storage>>

\* ... or names the corrupt record at the front, ...
ReadCorrupt ==
  /\ pc = "drain" /\ ContextLive
  /\ pending > 0
  /\ batch' = 1
  /\ pc' = "skip"
  /\ UNCHANGED <<status, channels, caller, flushing, closer, serving, queue, storage>>

\* ... or nothing, ...
ReadEmpty ==
  /\ pc = "drain" /\ ContextLive
  /\ pending = 0
  /\ IF serving = "loop"
     THEN pc' = "idle" /\ UNCHANGED <<serving, ack>>
     ELSE DrainAllReturns("nil")
  /\ UNCHANGED <<status, stopCh, notifyCh, caller, flushing, closer, batch, queue, storage>>

\* ... or fails.
ReadFails ==
  /\ pc = "drain" /\ ContextLive
  /\ DrainFails("other")
  /\ UNCHANGED <<status, stopCh, notifyCh, caller, flushing, closer, batch, queue, storage>>

\* Deliver returns nil or ErrPermanentRejection: Commit comes next.
SinkSettles(answer) ==
  /\ pc = "deliver"
  /\ pc' = answer
  /\ UNCHANGED <<status, channels, caller, flushing, closer, serving, batch, queue, storage>>

\* Deliver returns ErrSinkUnavailable, or an error of no known class.
SinkFails(error) ==
  /\ pc = "deliver"
  /\ DrainFails(error)
  /\ batch' = 0
  /\ UNCHANGED <<status, stopCh, notifyCh, caller, flushing, closer, queue, storage>>

Committing == pc \in {"accepted", "rejected", "skip"}

Commit ==
  /\ Committing
  /\ pending' = pending - batch
  /\ owed' = [f \in Flushers |-> Minus(owed[f], batch)]
  /\ mark' = Minus(mark, batch)
  /\ batch' = 0
  /\ Drained
  /\ UNCHANGED <<status, stopCh, notifyCh, caller, flushing, closer, storage>>

\* The error of Commit is dropped when the batch was rejected for good.
CommitFails ==
  /\ Committing
  /\ IF pc = "rejected" THEN Drained ELSE DrainFails("other")
  /\ batch' = 0
  /\ UNCHANGED <<status, stopCh, notifyCh, caller, flushing, closer, queue, storage>>

\* A receive on flushCh meets the send of a flusher.
Accept(f) ==
  /\ flusher[f] = "send"
  /\ flusher' = [flusher EXCEPT ![f] = "wait"]
  /\ serving' = f
  /\ pc' = "drain"

AcceptFlush ==
  /\ pc \in {"more", "idle", "wait"}
  /\ \E f \in Flushers : Accept(f)
  /\ UNCHANGED <<status, channels, caller, ctx, result, closer, batch, queue, storage>>

\* The select with a default: no flusher is at its send.
NoFlush ==
  /\ pc \in {"more", "idle"}
  /\ \A f \in Flushers : flusher[f] # "send"
  /\ pc' = IF pc = "more" THEN "drain" ELSE "wait"
  /\ UNCHANGED <<status, channels, caller, flushing, closer, serving, batch, queue, storage>>

WakeUp ==
  /\ pc = "wait" /\ notifyCh = "full"
  /\ notifyCh' = "empty"
  /\ pc' = "drain"
  /\ UNCHANGED <<status, stopCh, ack, caller, flushing, closer, serving, batch, queue, storage>>

\* clock.After(FlushInterval).
Tick ==
  /\ pc = "wait"
  /\ pc' = "drain"
  /\ UNCHANGED <<status, channels, caller, flushing, closer, serving, batch, queue, storage>>

StopWaiting ==
  /\ pc = "wait" /\ stopCh = "closed"
  /\ serving' = "shutdown"
  /\ pc' = "drain"
  /\ UNCHANGED <<status, channels, caller, flushing, closer, batch, queue, storage>>

BackoffEnds ==
  /\ pc = "backoff"
  /\ pc' = "drain"
  /\ UNCHANGED <<status, channels, caller, flushing, closer, serving, batch, queue, storage>>

\* The loop returns without another drain, drainAll with ErrSpoolerClosed.
BackoffStopped ==
  /\ pc = "backoff" /\ stopCh = "closed"
  /\ IF serving = "loop" THEN pc' = "done" /\ UNCHANGED <<serving, ack>>
                         ELSE DrainAllReturns("error")
  /\ UNCHANGED <<status, stopCh, notifyCh, caller, flushing, closer, batch, queue, storage>>

BackoffCancelled ==
  /\ pc = "backoff" /\ ContextDone
  /\ DrainAllReturns("error")
  /\ UNCHANGED <<status, stopCh, notifyCh, caller, flushing, closer, batch, queue, storage>>

-----------------------------------------------------------------------------
Enqueue(c) == EnqueueLock(c) \/ EnqueueAppend(c) \/ EnqueueFails(c) \/ EnqueueNotify(c)
Close(k)   == CloseLock(k) \/ CloseStop(k) \/ CloseJoin(k)

\* Every step of the dispatcher but the one that waits for the clock.
Dispatcher ==
  \/ DrainCancelled \/ Read \/ ReadCorrupt \/ ReadEmpty \/ ReadFails
  \/ SinkSettles("accepted") \/ SinkSettles("rejected")
  \/ SinkFails("transient") \/ SinkFails("other")
  \/ Commit \/ CommitFails
  \/ AcceptFlush \/ NoFlush \/ WakeUp \/ StopWaiting
  \/ BackoffEnds \/ BackoffStopped \/ BackoffCancelled

\* The program may stop when every Close is back.
Finished ==
  /\ \A k \in Closers : closer[k] = "back"
  /\ pc = "done"
  /\ UNCHANGED vars

Next ==
  \/ \E c \in Callers : Enqueue(c)
  \/ \E f \in Flushers : FlushCall(f) \/ ContextEnds(f) \/ FlushLeaves(f) \/ FlushAcked(f)
  \/ \E k \in Closers : CloseCall(k) \/ Close(k)
  \/ Dispatcher \/ Tick
  \/ Finished

Spec == Init /\ [][Next]_vars

(***************************************************************************)
(* Goroutines that can run do run, and a select that finds stopCh closed   *)
(* again and again chooses it (Go chooses among the ready cases at         *)
(* random).  Nothing is assumed of the clock, and nobody has to call       *)
(* anything, nor does a context have to end.  WorldWorks adds that the     *)
(* storage and the sink, asked for ever, work now and then.                *)
(***************************************************************************)
Progress ==
  /\ WF_vars(Dispatcher) /\ SF_vars(StopWaiting) /\ SF_vars(BackoffStopped)
  /\ \A c \in Callers : WF_vars(Enqueue(c) /\ caller[c] # "out")
  /\ \A f \in Flushers : WF_vars(FlushLeaves(f) \/ FlushAcked(f))
  /\ \A k \in Closers : WF_vars(Close(k))

WorldWorks ==
  SF_vars(Read \/ ReadEmpty) /\ SF_vars(SinkSettles("accepted")) /\ SF_vars(Commit)

FairSpec == Spec /\ Progress /\ WorldWorks

\* The same with a storage whose Commit never has to succeed.
BrokenDiskSpec == Spec /\ Progress

-----------------------------------------------------------------------------
(* Properties *)

TypeOK ==
  /\ status \in {"open", "closed"} /\ stopCh \in {"open", "closed"}
  /\ notifyCh \in {"empty", "full"} /\ storage \in {"open", "closed"}
  /\ caller \in [Callers -> {"out", "locked", "stored"}]
  /\ flusher \in [Flushers -> {"out", "send", "wait"}]
  /\ ctx \in [Flushers -> {"live", "done"}]
  /\ ack \in [Flushers -> {"empty", "nil", "error"}]
  /\ result \in [Flushers -> {"none", "nil", "error"}]
  /\ closer \in [Closers -> {"out", "lock", "stop", "join", "back"}]
  /\ pc \in {"drain", "deliver", "accepted", "rejected", "skip", "more", "idle", "wait",
             "backoff", "done"}
  /\ serving \in {"loop", "shutdown"} \union Flushers
  /\ pending \in 0 .. MaxCapacity
  /\ batch \in 0 .. pending
  /\ owed \in [Flushers -> 0 .. pending] /\ mark \in 0 .. pending

\* Nobody is inside the storage when Close closes it, nor calls it after:
\* the dispatcher has returned and no Enqueue is past its test of e.closed.
StorageLeftAlone ==
  storage = "closed" => pc = "done" /\ \A c \in Callers : caller[c] = "out"

\* A Flush that reports success was given a queue in which every record
\* pending when it was called is committed.
FlushMeansDrained ==
  \A f \in Flushers : ack[f] = "nil" \/ result[f] = "nil" => owed[f] = 0

\* Every record Append took is committed in the end unless Close is called,
\* woken for by notifyCh alone: the flush interval is not needed for it.
RecordsLeave == mark > 0 ~> (mark = 0 \/ status = "closed")

\* Close comes to its end whatever the others do.
CloseReturns == \A k \in Closers : closer[k] = "lock" ~> closer[k] = "back"

\* A Flush in progress when the engine closes ends, whoever called it and
\* however long its context lasts.
FlushEndsAtClose ==
  \A f \in Flushers : (flusher[f] # "out" /\ status = "closed") ~> flusher[f] = "out"
=============================================================================
