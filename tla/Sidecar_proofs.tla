--------------------------- MODULE Sidecar_proofs ---------------------------
(***************************************************************************)
(* For any set of requests and streams, any quota and any -sink-url:       *)
(* types, no record dropped (but where no target can be asked), the        *)
(* counter exact, the answers true, and a clean shutdown that has left     *)
(* nothing behind.  The argument has three parts, the handlers, the spool  *)
(* and the shutdown, each with an invariant of its own over the types.     *)
(***************************************************************************)
EXTENDS Sidecar, FiniteSetTheorems, SequenceTheorems, TLAPS

-----------------------------------------------------------------------------
(* Types of the handlers *)

Requested == req \in [Requests -> Request]

\* Every answer a handler can give, and none.
Answers == {"none", "accepted", "rejected", "unavailable", "failed"}

\* What a request is before its handler runs and after it has answered.
LEMMA NoHandlerType ==
  ASSUME NEW step \in {"out", "over"}, NEW answer \in Answers
  PROVE  NoHandler(step, answer) \in Request
<1>1. <<>> \in Seq(Items)
  BY EmptySeq
<1> QED
  BY <1>1 DEF NoHandler, Request, Endpoints, Answers

LEMMA AnswerType ==
  ASSUME Requested, NEW r \in Requests, NEW answer \in Answers, Answer(r, answer)
  PROVE  Requested'
BY NoHandlerType DEF Requested, Answer

LEMMA ArriveType == ASSUME Requested, NEW r \in Requests, Arrive(r) PROVE Requested'
<1>1. PICK ask \in Asks[r] :
        IF Opening(ask.route, ask.body) # "none" THEN Answer(r, Opening(ask.route, ask.body))
        ELSE req' = [req EXCEPT ![r] =
                      [@ EXCEPT !.route = ask.route, !.body = ask.body,
                                !.step = IF ask.route = "flush" THEN "flush" ELSE "item"]]
  BY DEF Arrive
<1>2. CASE Opening(ask.route, ask.body) # "none"
  BY <1>1, <1>2, AnswerType DEF Opening, Answers
<1>3. CASE Opening(ask.route, ask.body) = "none"
  <2>1. ask.route \in Endpoints /\ ask.body \in Seq(Items)
    BY SidecarAssumption
  <2>2. [req[r] EXCEPT !.route = ask.route, !.body = ask.body,
                       !.step = IF ask.route = "flush" THEN "flush" ELSE "item"] \in Request
    BY <2>1 DEF Requested, Request
  <2> QED
    BY <1>1, <1>3, <2>2 DEF Requested
<1> QED
  BY <1>2, <1>3

\* Every step leaves the handlers of their type.
LEMMA RequestedStep == ASSUME TypeOK, [Next]_vars PROVE Requested'
<1> USE DEF TypeOK, Requested
<1>1. ASSUME NEW r \in Requests, HangUp(r) \/ Handler(r)
      PROVE  Requested'
  <2>0. /\ req[r] \in Request
        /\ req[r].next + 1 \in Nat \ {0} /\ req[r].enqueued + 1 \in Nat
    BY DEF Request
  <2>1. CASE HangUp(r)
    <3>1. [req[r] EXCEPT !.client = "gone"] \in Request
      BY DEF Request
    <3> QED
      BY <2>1, <3>1 DEF HangUp
  <2>2. CASE SkipLine(r)
    <3>1. [req[r] EXCEPT !.next = @ + 1] \in Request
      BY <2>0 DEF Request
    <3> QED
      BY <2>2, <3>1 DEF SkipLine
  <2>3. CASE EnqueueStores(r)
    <3>1. [req[r] EXCEPT !.step = "count"] \in Request
      BY DEF Request
    <3> QED
      BY <2>3, <3>1 DEF EnqueueStores
  <2>4. CASE CountIngested(r)
    <3>1. [req[r] EXCEPT !.step = "item", !.next = req[r].next + 1, !.enqueued = req[r].enqueued + 1] \in Request
      BY <2>0 DEF Request
    <3>2. req' = [req EXCEPT ![r] = [req[r] EXCEPT !.step = "item", !.next = req[r].next + 1, !.enqueued = req[r].enqueued + 1]]
      BY <2>4 DEF CountIngested
    <3> QED
      BY <3>2, <3>1
  <2>5. CASE \E answer \in Answers : Answer(r, answer)
    BY <2>5, AnswerType
  <2>6. CASE RefuseLine(r) \/ EnqueueFails(r) \/ FinishItems(r) \/ FlushAnswered(r)
    BY <2>6, <2>5 DEF RefuseLine, EnqueueFails, FinishItems, LastAnswer, FlushAnswered, Answers
  <2>7. CASE EnqueueRefused(r)
    <3>1. AnswerTo(req[r].route, Refusal(r)) \in Answers
      BY DEF AnswerTo, Answers
    <3> QED
      BY <2>7, <3>1, <2>5 DEF EnqueueRefused
  <2> QED
    BY <1>1, <2>1, <2>2, <2>3, <2>4, <2>6, <2>7 DEF Handler
<1>2. CASE \E s \in Streams : StreamArrives(s) \/ StreamEnds(s) \/ StreamLeft(s)
  BY <1>2 DEF StreamArrives, StreamEnds, StreamLeft
<1>3. CASE Dispatcher
  BY <1>3 DEF Dispatcher, ReadBatch, Deliver, DeliverNowhere, Commit, CommitFails, DispatcherStops
<1>4. CASE Signal \/ GracefulShutdown \/ ServerTimesOut \/ FlushTimesOut \/ FlushFails
  BY <1>4 DEF Signal, GracefulShutdown, ServerTimesOut, FlushTimesOut, FlushFails, HubClose,
              ServerCloses, ServerDone, FlushDone, SpoolCloses, SpoolClosed
<1> QED
  BY <1>1, <1>2, <1>3, <1>4, ArriveType DEF Next, Finished, vars
-----------------------------------------------------------------------------
(* The spool: what is in the queue has been stored, and what is about to   *)
(* leave it has been answered for.                                         *)

QueueStored   == \A i \in DOMAIN queue : queue[i] \in stored
CommitReleased == dispatcher = "commit" => InHand \subseteq Released

SpoolInv == TypeOK /\ QueueStored /\ CommitReleased /\ NothingDropped

Stored == Requests \X (Nat \ {0})

LEMMA InitSpool == Init => SpoolInv
<1> SUFFICES ASSUME Init PROVE SpoolInv
  OBVIOUS
<1>1. req \in [Requests -> Request]
  BY NoHandlerType DEF Init, Answers
<1>2. queue \in Seq(Requests \X (Nat \ {0})) /\ Len(queue) = 0
  BY EmptySeq DEF Init
<1>3. MaxCapacity \in Nat /\ MaxFaults \in Nat
  BY SidecarAssumption
<1>4. Len(queue) <= MaxCapacity /\ hand \in 0 .. Len(queue) /\ ingested \in Nat /\ faults \in 0 .. MaxFaults
  BY <1>2, <1>3 DEF Init
<1>5. /\ stored \subseteq Requests \X (Nat \ {0}) /\ settled \subseteq stored
      /\ astray \subseteq stored /\ sink \in SinkURLs
  BY SidecarAssumption DEF Init
<1>6. TypeOK
  BY <1>1, <1>2, <1>4, <1>5 DEF Init, TypeOK
<1>7. DOMAIN queue = {}
  BY <1>2, LenProperties
<1> QED
  BY <1>6, <1>7 DEF Init, SpoolInv, QueueStored, CommitReleased, NothingDropped

\* Enqueue puts a record that no one has seen before behind the others.
LEMMA StoresSpool ==
  ASSUME SpoolInv, NEW r \in Requests, EnqueueStores(r), Requested'
  PROVE  SpoolInv'
<1> DEFINE x == <<r, req[r].next>>
<1> USE DEF SpoolInv, TypeOK
<1>1. x \in Stored
  BY DEF Request, Stored
<1>2. /\ queue' \in Seq(Stored) /\ Len(queue') = Len(queue) + 1
      /\ \A i \in 1 .. Len(queue) : queue'[i] = queue[i]
      /\ queue'[Len(queue) + 1] = x
  BY <1>1, AppendProperties DEF EnqueueStores, Stored
<1>3. Len(queue) < MaxCapacity /\ Len(queue) \in Nat /\ MaxCapacity \in Nat
  BY SidecarAssumption DEF EnqueueStores, Refusal
<1>4. DOMAIN queue = 1 .. Len(queue) /\ DOMAIN queue' = 1 .. Len(queue) + 1
  BY <1>2, LenProperties
<1>5. TypeOK'
  BY <1>1, <1>2, <1>3 DEF EnqueueStores, stopping, Stored, Requested
<1>6. QueueStored'
  BY <1>2, <1>3, <1>4 DEF EnqueueStores, QueueStored
<1>7. CommitReleased'
  <2>1. InHand' = InHand
    BY <1>2, <1>3 DEF EnqueueStores, InHand
  <2> QED
    BY <2>1 DEF EnqueueStores, CommitReleased, Released
<1>8. NothingDropped'
  <2> SUFFICES ASSUME NEW y \in stored', y \notin Released
               PROVE  \E i \in DOMAIN queue' : queue'[i] = y
    BY DEF EnqueueStores, NothingDropped, Released
  <2>1. CASE y = x
    <3>1. Len(queue) + 1 \in DOMAIN queue'
      BY <1>3, <1>4
    <3> QED
      BY <1>2, <2>1, <3>1
  <2>2. CASE y \in stored
    <3>1. PICK i \in 1 .. Len(queue) : queue[i] = y
      BY <1>4, <2>2 DEF NothingDropped, EnqueueStores, Released
    <3>2. i \in DOMAIN queue'
      BY <1>3, <1>4
    <3> QED
      BY <1>2, <3>1, <3>2
  <2> QED
    BY <2>1, <2>2 DEF EnqueueStores
<1> QED
  BY <1>5, <1>6, <1>7, <1>8

\* An answer of the target that is not taken for "try again" is final.
LEMMA VerdictIsFinal ==
  ASSUME NEW status \in Statuses, Verdict(status) # "unavailable"
  PROVE  Final(status)
<1>1. status \in Nat
  BY SidecarAssumption
<1> QED
  BY <1>1 DEF Verdict, Final

LEMMA HandStored == ASSUME SpoolInv PROVE InHand \subseteq stored
<1>1. \A i \in 1 .. hand : i \in DOMAIN queue
  BY LenProperties DEF SpoolInv, TypeOK
<1> QED
  BY <1>1 DEF SpoolInv, InHand, QueueStored

\* A batch that the target sees is settled by a final answer; one that a
\* redirect has emptied may go astray.
LEMMA DeliverSpool ==
  ASSUME SpoolInv, NEW status \in Statuses, NEW carried \in BOOLEAN, Deliver(status, carried)
  PROVE  SpoolInv'
<1> USE DEF SpoolInv, TypeOK
<1>1. InHand \subseteq stored
  BY HandStored
<1>2. /\ settled \subseteq settled' /\ settled' \subseteq stored /\ astray' \subseteq stored
      /\ astray \subseteq settled' \union astray' /\ sink' = sink /\ stored' = stored
  BY <1>1 DEF Deliver
<1>3. Released \subseteq Released'
  BY <1>2 DEF Released
<1>4. TypeOK'
  BY <1>2 DEF Deliver, stopping
<1>5. QueueStored' /\ NothingDropped'
  BY <1>2 DEF Deliver, QueueStored, NothingDropped, Released
<1>6. CommitReleased'
  <2>1. CASE Verdict(status) = "unavailable"
    BY <2>1 DEF Deliver, CommitReleased
  <2>2. CASE Verdict(status) # "unavailable"
    <3>1. InHand' = InHand
      BY <2>2 DEF Deliver, InHand
    <3>2. Final(status)
      BY <2>2, VerdictIsFinal
    <3>3. InHand \subseteq Released'
      BY <3>2 DEF Deliver, Released
    <3> QED
      BY <3>1, <3>3 DEF CommitReleased
  <2> QED
    BY <2>1, <2>2
<1> QED
  BY <1>4, <1>5, <1>6

\* Without a target the batch goes astray as a whole.
LEMMA NowhereSpool ==
  ASSUME SpoolInv, DeliverNowhere
  PROVE  SpoolInv'
<1> USE DEF SpoolInv, TypeOK
<1>1. InHand \subseteq stored
  BY HandStored
<1>2. TypeOK'
  BY <1>1 DEF DeliverNowhere, stopping
<1>3. QueueStored' /\ NothingDropped'
  BY DEF DeliverNowhere, QueueStored, NothingDropped, Released
<1>4. CommitReleased'
  BY DEF DeliverNowhere, CommitReleased, Released, InHand
<1> QED
  BY <1>2, <1>3, <1>4

\* Commit takes the batch off the queue, all of which may leave.
LEMMA CommitSpool ==
  ASSUME SpoolInv, Commit
  PROVE  SpoolInv'
<1> DEFINE rest == Len(queue) - hand
<1> USE DEF SpoolInv, TypeOK
<1>1. /\ Len(queue) \in Nat /\ hand \in Nat /\ hand <= Len(queue) /\ rest \in Nat
      /\ DOMAIN queue = 1 .. Len(queue) /\ \A i \in 1 .. Len(queue) : queue[i] \in Stored
  BY LenProperties DEF Stored
<1>2. /\ queue' \in Seq(Stored) /\ Len(queue') = rest
      /\ \A i \in 1 .. rest : queue'[i] = queue[hand + i]
  <2>1. \A i \in hand + 1 .. Len(queue) : queue[i] \in Stored
    BY <1>1
  <2>2. /\ SubSeq(queue, hand + 1, Len(queue)) \in Seq(Stored)
        /\ Len(SubSeq(queue, hand + 1, Len(queue))) =
             IF hand + 1 <= Len(queue) THEN Len(queue) - (hand + 1) + 1 ELSE 0
        /\ \A i \in 1 .. Len(queue) - (hand + 1) + 1 :
             SubSeq(queue, hand + 1, Len(queue))[i] = queue[hand + 1 + i - 1]
    <3>1. hand + 1 \in Int /\ Len(queue) \in Int
      BY <1>1
    <3> HIDE DEF SpoolInv, TypeOK
    <3> QED
      BY <2>1, <3>1, SubSeqProperties
  <2>3. \A i \in 1 .. rest : i \in 1 .. Len(queue) - (hand + 1) + 1 /\ hand + 1 + i - 1 = hand + i
    BY <1>1
  <2>4. Len(SubSeq(queue, hand + 1, Len(queue))) = rest
    <3>1. ASSUME NEW m \in Nat, NEW h \in Nat, h <= m
          PROVE  (IF h + 1 <= m THEN m - (h + 1) + 1 ELSE 0) = m - h
      BY <3>1
    <3>2. (IF hand + 1 <= Len(queue) THEN Len(queue) - (hand + 1) + 1 ELSE 0) = rest
      BY <1>1, <3>1
    <3> QED
      BY <2>2, <3>2
  <2>5. ASSUME NEW i \in 1 .. rest
        PROVE  SubSeq(queue, hand + 1, Len(queue))[i] = queue[hand + i]
    BY <2>2, <2>3, <2>5
  <2> QED
    BY <2>2, <2>4, <2>5 DEF Commit
<1>3. DOMAIN queue' = 1 .. rest
  BY <1>2, LenProperties
<1>4. TypeOK'
  <2>1. Len(queue') <= MaxCapacity
    BY <1>1, <1>2, SidecarAssumption
  <2>2. hand' \in 0 .. Len(queue')
    <3>1. hand' = 0 /\ Len(queue') \in Nat
      BY <1>1, <1>2 DEF Commit
    <3> QED
      BY <3>1
  <2>3. queue' \in Seq(Requests \X (Nat \ {0}))
    BY <1>2 DEF Stored
  <2> QED
    BY <2>1, <2>2, <2>3 DEF Commit, stopping, history
<1>5. QueueStored'
  <2>1. \A i \in 1 .. rest : hand + i \in DOMAIN queue
    BY <1>1
  <2>2. \A i \in 1 .. rest : queue'[i] \in stored
    BY <1>2, <2>1 DEF QueueStored
  <2> QED
    BY <1>3, <2>2 DEF Commit, history, QueueStored
<1>6. NothingDropped'
  <2> SUFFICES ASSUME NEW x \in stored, x \notin Released
               PROVE  \E i \in DOMAIN queue' : queue'[i] = x
    BY DEF Commit, history, NothingDropped, Released
  <2>1. PICK i \in 1 .. Len(queue) : queue[i] = x
    BY <1>1 DEF NothingDropped, Released
  <2>2. i \notin 1 .. hand
    BY <2>1 DEF Commit, CommitReleased, InHand
  <2>3. i - hand \in 1 .. rest /\ hand + (i - hand) = i
    BY <1>1, <2>2
  <2> QED
    BY <1>2, <1>3, <2>1, <2>3
<1> QED
  BY <1>4, <1>5, <1>6 DEF Commit, CommitReleased, Released

\* All other steps leave records, queue and verdicts alone.
LEMMA SpoolStep == ASSUME SpoolInv, [Next]_vars PROVE SpoolInv'
<1>0. Requested'
  BY RequestedStep DEF SpoolInv
<1> USE <1>0 DEF SpoolInv
<1>1. ASSUME NEW r \in Requests, Arrive(r) \/ HangUp(r) \/ Handler(r)
      PROVE  SpoolInv'
  <2>1. CASE EnqueueStores(r)
    BY <2>1, StoresSpool
  <2>2. CASE CountIngested(r)
    BY <2>2 DEF CountIngested, spool, stopping, history, TypeOK, Requested, QueueStored,
                CommitReleased, Released, NothingDropped, InHand
  <2>3. CASE UNCHANGED <<spool, stopping, ingested, history, stream>> /\ faults' \in 0 .. MaxFaults
    <3>1. TypeOK'
      BY <2>3 DEF spool, stopping, history, TypeOK, Requested
    <3>2. InHand' = InHand
      BY <2>3 DEF spool, InHand
    <3>3. QueueStored' /\ CommitReleased' /\ NothingDropped'
      BY <2>3, <3>2 DEF spool, history, QueueStored, CommitReleased, Released, NothingDropped
    <3> QED
      BY <3>1, <3>3
  <2>4. ASSUME IOError
        PROVE  faults' \in 0 .. MaxFaults
    BY <2>4, SidecarAssumption DEF IOError, TypeOK
  <2>5. CASE Arrive(r) \/ HangUp(r) \/ SkipLine(r) \/ RefuseLine(r) \/ EnqueueRefused(r)
               \/ EnqueueFails(r) \/ FinishItems(r) \/ FlushAnswered(r)
    <3>1. UNCHANGED <<spool, stopping, ingested, history, stream>> /\ (UNCHANGED faults \/ IOError)
      BY <2>5 DEF Arrive, HangUp, SkipLine, RefuseLine, EnqueueRefused, EnqueueFails,
                  FinishItems, FlushAnswered
    <3> QED
      BY <3>1, <2>3, <2>4 DEF TypeOK
  <2> QED
    BY <1>1, <2>1, <2>2, <2>5 DEF Handler
<1>2. ASSUME NEW s \in Streams, StreamArrives(s) \/ StreamEnds(s) \/ StreamLeft(s)
      PROVE  SpoolInv'
  <2>1. UNCHANGED <<spool, stopping, ingested, faults, history>>
    BY <1>2 DEF StreamArrives, StreamEnds, StreamLeft
  <2>2. stream' \in [Streams -> {"out", "open", "over"}]
    BY <1>2 DEF StreamArrives, StreamEnds, StreamLeft, TypeOK
  <2> QED
    BY <2>1, <2>2 DEF spool, stopping, history, TypeOK, Requested, QueueStored, CommitReleased,
                      Released, NothingDropped, InHand
<1>3. CASE Dispatcher
  <2>1. CASE ReadBatch
    BY <2>1, SidecarAssumption
       DEF ReadBatch, stopping, history, TypeOK, QueueStored, CommitReleased, Released,
           NothingDropped
  <2>2. CASE CommitFails \/ DispatcherStops
    BY <2>2, SidecarAssumption
       DEF CommitFails, DispatcherStops, IOError, stopping, history, TypeOK, QueueStored,
           CommitReleased, Released, NothingDropped
  <2> QED
    BY <1>3, <2>1, <2>2, DeliverSpool, NowhereSpool, CommitSpool DEF Dispatcher
<1>4. CASE Signal \/ GracefulShutdown \/ ServerTimesOut \/ FlushTimesOut \/ FlushFails
  <2>1. /\ UNCHANGED <<req, stream, sink, queue, hand, dispatcher, ingested, history>>
        /\ UNCHANGED faults \/ IOError
    BY <1>4 DEF Signal, GracefulShutdown, ServerTimesOut, FlushTimesOut, FlushFails, HubClose,
                ServerCloses, ServerDone, FlushDone, SpoolCloses, SpoolClosed, spool
  <2>2. /\ spooler' \in {"open", "closed"} /\ hub' \in {"open", "closed"}
        /\ listener' \in {"open", "closed"}
        /\ shutdown' \in {"none", "hub", "listener", "idle", "flush", "close", "join", "over"}
        /\ marked' \in BOOLEAN /\ deadline' \in BOOLEAN /\ clean' \in BOOLEAN
    BY <1>4 DEF Signal, GracefulShutdown, ServerTimesOut, FlushTimesOut, FlushFails, HubClose,
                ServerCloses, ServerDone, FlushDone, SpoolCloses, SpoolClosed, spool, TypeOK
  <2>3. faults' \in 0 .. MaxFaults
    BY <2>1, SidecarAssumption DEF IOError, TypeOK
  <2> QED
    BY <2>1, <2>2, <2>3
       DEF history, TypeOK, QueueStored, CommitReleased, Released, NothingDropped, InHand
<1>5. CASE UNCHANGED vars
  BY <1>5 DEF vars, spool, stopping, history, TypeOK, QueueStored, CommitReleased, Released,
              NothingDropped, InHand
<1> QED
  BY <1>1, <1>2, <1>3, <1>4, <1>5 DEF Next, Finished

LEMMA SpoolAlways == Spec => []SpoolInv
  BY InitSpool, SpoolStep, PTL DEF Spec

\* Types hold, the quota among them.
THEOREM TypeCorrect == Spec => []TypeOK
<1>1. SpoolInv => TypeOK
  BY DEF SpoolInv
<1> QED
  BY <1>1, SpoolAlways, PTL

\* At-least-once through HTTPSink.Deliver: with a target that answers for itself,
\* whatever it answers, a record the spool took is in the queue until the target
\* has taken it or refused it for good.  With any other -sink-url it is, until it
\* has or a batch that no target could take or refuse was let go with it.
THEOREM NothingIsDropped == Spec => []NothingDropped
<1>1. SpoolInv => NothingDropped
  BY DEF SpoolInv
<1> QED
  BY <1>1, SpoolAlways, PTL

-----------------------------------------------------------------------------
(* The shutdown: a handler that has returned does not come back once the   *)
(* listener is closed, and without handlers an empty queue stays empty.    *)

ShutdownInv ==
  /\ shutdown \notin {"none", "hub", "listener"} => listener = "closed"
  /\ shutdown \in {"flush", "close", "join", "over"} /\ clean => Idle
  /\ shutdown \in {"close", "join", "over"} /\ clean => queue = <<>>

\* Idle handlers make no step but to hang up or arrive, and none arrives
\* through a closed listener.
LEMMA HandlersShutdown ==
  ASSUME TypeOK, ShutdownInv, NEW r \in Requests, Arrive(r) \/ HangUp(r) \/ Handler(r)
  PROVE  ShutdownInv'
<1> USE DEF ShutdownInv
<1>1. UNCHANGED <<stream, shutdown, clean, listener>>
  BY DEF Arrive, HangUp, Handler, SkipLine, RefuseLine, EnqueueRefused, EnqueueFails, EnqueueStores,
         CountIngested, FinishItems, FlushAnswered, stopping
<1>2. CASE listener = "open"
  BY <1>1, <1>2
<1>3. CASE listener = "closed" /\ ~ Idle
  BY <1>1, <1>3
<1>4. CASE listener = "closed" /\ Idle
  <2>1. req[r].step \in {"out", "over"}
    BY <1>4 DEF Idle
  <2>2. FALSE
    BY <1>4, <2>1
       DEF Arrive, HangUp, Handler, SkipLine, RefuseLine, EnqueueRefused, EnqueueFails,
           EnqueueStores, CountIngested, FinishItems, FlushAnswered, AtItem
  <2> QED
    BY <2>2
<1> QED
  BY <1>2, <1>3, <1>4 DEF TypeOK

LEMMA ShutdownStep == ASSUME TypeOK, ShutdownInv, [Next]_vars PROVE ShutdownInv'
<1> USE DEF ShutdownInv
<1>1. ASSUME NEW s \in Streams, StreamArrives(s) \/ StreamEnds(s) \/ StreamLeft(s)
      PROVE  ShutdownInv'
  <2>1. UNCHANGED <<req, queue, shutdown, clean, listener>>
    BY <1>1 DEF StreamArrives, StreamEnds, StreamLeft, spool, stopping
  <2>2. listener = "open" \/ (Idle => Idle')
    BY <1>1 DEF StreamArrives, StreamEnds, StreamLeft, Idle, TypeOK
  <2> QED
    BY <2>1, <2>2
<1>2. CASE Dispatcher
  <2>1. UNCHANGED <<req, stream, shutdown, clean, listener>>
    BY <1>2 DEF Dispatcher, ReadBatch, Deliver, DeliverNowhere, Commit, CommitFails,
                DispatcherStops, stopping
  <2>2. queue = <<>> => queue' = <<>>
    <3>1. CASE Commit
      <4>1. queue = <<>> => Len(queue) = 0 /\ hand = 0
        BY EmptySeq DEF TypeOK
      <4> QED
        BY <3>1, <4>1, SubSeqEmpty DEF Commit
    <3> QED
      BY <1>2, <3>1 DEF Dispatcher, ReadBatch, Deliver, DeliverNowhere, CommitFails, DispatcherStops
  <2> QED
    BY <2>1, <2>2 DEF Idle
<1>3. CASE Signal \/ GracefulShutdown \/ ServerTimesOut \/ FlushTimesOut \/ FlushFails
  <2>1. UNCHANGED <<req, stream, queue>>
    BY <1>3 DEF Signal, GracefulShutdown, ServerTimesOut, FlushTimesOut, FlushFails, HubClose,
                ServerCloses, ServerDone, FlushDone, SpoolCloses, SpoolClosed, spool
  <2> QED
    BY <1>3, <2>1 DEF Signal, GracefulShutdown, ServerTimesOut, FlushTimesOut, FlushFails, HubClose,
                ServerCloses, ServerDone, FlushDone, SpoolCloses, SpoolClosed, Idle, Drained
<1>4. CASE UNCHANGED vars
  BY <1>4 DEF vars, spool, stopping, Idle
<1> QED
  BY <1>1, <1>2, <1>3, <1>4, HandlersShutdown DEF Next, Finished

\* A GracefulShutdown without an error has left no record behind that was ever
\* stored, and no handler that could have stored another.  With a target that
\* answers for itself, the target took or refused every one of them.
THEOREM CleanShutdownIsComplete == Spec => []CleanShutdownDelivers
<1>1. Init => ShutdownInv
  BY DEF Init, ShutdownInv
<1>2. SpoolInv /\ ShutdownInv /\ [Next]_vars => ShutdownInv'
  BY ShutdownStep DEF SpoolInv
<1>3. SpoolInv /\ ShutdownInv => CleanShutdownDelivers
  <2>1. queue = <<>> => DOMAIN queue = {}
    BY EmptySeq, LenProperties
  <2> QED
    BY <2>1 DEF SpoolInv, ShutdownInv, NothingDropped, CleanShutdownDelivers
<1> QED
  BY <1>1, <1>2, <1>3, SpoolAlways, PTL DEF Spec

-----------------------------------------------------------------------------
(* The counter and the answers: what a handler has stored so far are the   *)
(* good items before the one it is at.                                     *)

GoodBefore(r, n) ==
  {<<r, i>> : i \in {j \in DOMAIN req[r].body : req[r].body[j] = "good" /\ j < n}}

\* A handler that is at an item, or between Enqueue and RecordIngested.
Storing(r) ==
  /\ req[r].route # "flush"
  /\ req[r].route = "batch" => ~ Flawed(req[r].body)
  /\ req[r].next <= Len(req[r].body) + 1
  /\ IF req[r].step = "item"
     THEN /\ StoredOf(r) = GoodBefore(r, req[r].next)
          /\ Cardinality(StoredOf(r)) = req[r].enqueued
     ELSE /\ StoredOf(r) = GoodBefore(r, req[r].next + 1)
          /\ Cardinality(StoredOf(r)) = req[r].enqueued + 1
          /\ req[r].next \in DOMAIN req[r].body

\* One that stores nothing: it has not begun, or it waits for a flush.
Empty(r) ==
  /\ req[r].next = 1 /\ req[r].enqueued = 0 /\ req[r].body = <<>> /\ StoredOf(r) = {}
  /\ req[r].step = "flush" => req[r].route = "flush"

Told(r) ==
  /\ req[r].step \in {"item", "count"} => Storing(r)
  /\ req[r].step \in {"out", "flush"} => Empty(r)

AnswerInv ==
  /\ IsFiniteSet(stored) /\ IngestedExact
  /\ \A r \in Requests : Told(r)

LEMMA InitAnswers == Init => AnswerInv
<1> SUFFICES ASSUME Init PROVE AnswerInv
  OBVIOUS
<1>1. Counting = {} /\ stored = {} /\ ingested = 0
  BY DEF Init, Counting, NoHandler
<1>2. IsFiniteSet(stored) /\ IngestedExact
  BY <1>1, FS_EmptySet DEF IngestedExact
<1>3. \A r \in Requests : Told(r)
  BY <1>1 DEF Init, Told, Empty, NoHandler, StoredOf
<1> QED
  BY <1>2, <1>3 DEF AnswerInv

\* A step of one request changes what another has been told only by storing
\* a record of its own.
LEMMA OthersTold ==
  ASSUME AnswerInv, TypeOK, NEW r \in Requests, NEW q,
         req' = [req EXCEPT ![r] = q],
         \A x \in Requests \ {r} : StoredOf(x)' = StoredOf(x)
  PROVE  \A x \in Requests \ {r} : Told(x)'
<1> SUFFICES ASSUME NEW x \in Requests \ {r} PROVE Told(x)'
  OBVIOUS
<1>1. req'[x] = req[x] /\ StoredOf(x)' = StoredOf(x)
  BY DEF TypeOK
<1> QED
  BY <1>1 DEF AnswerInv, Told, Storing, Empty, GoodBefore

\* A step that stores nothing and leaves r outside "count".
LEMMA PlainStep ==
  ASSUME AnswerInv, TypeOK, NEW r \in Requests, NEW q,
         req' = [req EXCEPT ![r] = q], UNCHANGED <<stored, ingested>>,
         req[r].step = "count" <=> q.step = "count", Told(r)'
  PROVE  AnswerInv'
<1>1. \A x \in Requests : req'[x].step = "count" <=> req[x].step = "count"
  BY DEF TypeOK
<1>2. Counting' = Counting
  BY <1>1 DEF Counting
<1>3. \A x \in Requests \ {r} : Told(x)'
  BY OthersTold DEF StoredOf
<1> QED
  BY <1>2, <1>3 DEF AnswerInv, IngestedExact

\* An answer ends the request before or between its items.
LEMMA AnswerStep ==
  ASSUME AnswerInv, TypeOK, NEW r \in Requests, NEW answer, Answer(r, answer),
         req[r].step # "count", UNCHANGED <<stored, ingested>>
  PROVE  AnswerInv'
<1>1. req'[r].step = "over"
  BY DEF Answer, NoHandler, TypeOK
<1>2. Told(r)'
  BY <1>1 DEF Told
<1> QED
  BY <1>1, <1>2, PlainStep DEF Answer, NoHandler

LEMMA ArriveStep ==
  ASSUME AnswerInv, TypeOK, NEW r \in Requests, Arrive(r)
  PROVE  AnswerInv'
<1>1. PICK ask \in Asks[r] :
        IF Opening(ask.route, ask.body) # "none" THEN Answer(r, Opening(ask.route, ask.body))
        ELSE req' = [req EXCEPT ![r] =
                      [@ EXCEPT !.route = ask.route, !.body = ask.body,
                                !.step = IF ask.route = "flush" THEN "flush" ELSE "item"]]
  BY DEF Arrive
<1>2. UNCHANGED <<stored, ingested>> /\ req[r].step = "out"
  BY DEF Arrive, history
<1>3. CASE Opening(ask.route, ask.body) # "none"
  BY <1>1, <1>2, <1>3, AnswerStep
<1>4. CASE Opening(ask.route, ask.body) = "none"
  <2> DEFINE q == [req[r] EXCEPT !.route = ask.route, !.body = ask.body,
                                 !.step = IF ask.route = "flush" THEN "flush" ELSE "item"]
  <2>1. /\ ask.route \in Endpoints /\ ask.body \in Seq(Items)
        /\ ask.route = "flush" => ask.body = <<>>
    BY SidecarAssumption
  <2>2. req' = [req EXCEPT ![r] = q] /\ req'[r] = q
    BY <1>1, <1>4 DEF TypeOK
  <2>3. /\ q.route = ask.route /\ q.body = ask.body /\ q.next = 1 /\ q.enqueued = 0
        /\ q.step = IF ask.route = "flush" THEN "flush" ELSE "item"
    BY <1>2 DEF TypeOK, Request, AnswerInv, Told, Empty
  <2>4. StoredOf(r)' = {}
    BY <1>2 DEF AnswerInv, Told, Empty, StoredOf
  <2>5. CASE ask.route = "flush"
    <3>1. Told(r)'
      BY <2>1, <2>2, <2>3, <2>4, <2>5 DEF Told, Empty
    <3> QED
      BY <1>2, <2>2, <2>3, <2>5, <3>1, PlainStep
  <2>6. CASE ask.route # "flush"
    <3>1. ask.route = "batch" => ~ Flawed(ask.body)
      BY <1>4 DEF Opening
    <3>2. GoodBefore(r, 1)' = {}
      <4>1. DOMAIN ask.body = 1 .. Len(ask.body) /\ Len(ask.body) \in Nat
        BY <2>1, LenProperties
      <4>2. \A j \in DOMAIN req'[r].body : ~ (j < 1)
        <5>1. req'[r].body = ask.body
          BY <2>2, <2>3
        <5>2. \A j \in 1 .. Len(ask.body) : ~ (j < 1)
          BY <4>1
        <5> QED
          BY <4>1, <5>1, <5>2
      <4> QED
        BY <4>2 DEF GoodBefore
    <3>3. 1 <= Len(ask.body) + 1
      BY <2>1, LenProperties
    <3>4. Storing(r)'
      BY <2>2, <2>3, <2>4, <2>6, <3>1, <3>2, <3>3, FS_EmptySet DEF Storing, GoodBefore
    <3>5. req'[r].step = "item"
      BY <2>2, <2>3, <2>6
    <3>6. Told(r)'
      BY <3>4, <3>5 DEF Told
    <3>7. req[r].step # "count" /\ q.step # "count"
      BY <1>2, <2>3, <2>6
    <3> QED
      BY <1>2, <2>2, <3>6, <3>7, PlainStep
  <2> QED
    BY <2>5, <2>6
<1> QED
  BY <1>3, <1>4

LEMMA HangUpStep ==
  ASSUME AnswerInv, TypeOK, NEW r \in Requests, HangUp(r)
  PROVE  AnswerInv'
<1> DEFINE q == [req[r] EXCEPT !.client = "gone"]
<1>1. req' = [req EXCEPT ![r] = q] /\ req'[r] = q /\ UNCHANGED <<stored, ingested>>
  BY DEF HangUp, history, TypeOK
<1>2. /\ q.route = req[r].route /\ q.body = req[r].body /\ q.next = req[r].next
      /\ q.enqueued = req[r].enqueued /\ q.step = req[r].step
  BY DEF TypeOK, Request
<1>3. StoredOf(r)' = StoredOf(r)
  BY <1>1 DEF StoredOf
<1>4. Told(r)'
  BY <1>1, <1>2, <1>3 DEF AnswerInv, Told, Storing, Empty, GoodBefore
<1> QED
  BY <1>1, <1>2, <1>4, PlainStep

\* What is good before the next item: one more if this one is good.
LEMMA GoodNext ==
  ASSUME TypeOK, NEW r \in Requests, req[r].next \in DOMAIN req[r].body
  PROVE  /\ GoodBefore(r, req[r].next + 1) =
              IF Item(r) = "good" THEN GoodBefore(r, req[r].next) \union {<<r, req[r].next>>}
              ELSE GoodBefore(r, req[r].next)
         /\ req[r].next + 1 <= Len(req[r].body) + 1
         /\ <<r, req[r].next>> \notin GoodBefore(r, req[r].next)
<1>1. /\ req[r].body \in Seq(Items) /\ req[r].next \in Nat
  BY DEF TypeOK, Request
<1>2. /\ DOMAIN req[r].body = 1 .. Len(req[r].body) /\ Len(req[r].body) \in Nat
  BY <1>1, LenProperties
<1>3. \A j \in DOMAIN req[r].body : j < req[r].next + 1 <=> (j < req[r].next \/ j = req[r].next)
  BY <1>1, <1>2
<1> QED
  BY <1>1, <1>2, <1>3 DEF GoodBefore, Item

LEMMA SkipStep ==
  ASSUME AnswerInv, TypeOK, NEW r \in Requests, SkipLine(r)
  PROVE  AnswerInv'
<1> DEFINE q == [req[r] EXCEPT !.next = req[r].next + 1]
<1>1. req' = [req EXCEPT ![r] = q] /\ req'[r] = q /\ UNCHANGED <<stored, ingested>>
  BY DEF SkipLine, history, TypeOK
<1>2. /\ q.route = req[r].route /\ q.body = req[r].body /\ q.next = req[r].next + 1
      /\ q.enqueued = req[r].enqueued /\ q.step = "item" /\ req[r].step = "item"
      /\ req[r].next \in DOMAIN req[r].body /\ Item(r) = "invalid"
  BY DEF TypeOK, Request, SkipLine, AtItem
<1>3. StoredOf(r)' = StoredOf(r)
  BY <1>1 DEF StoredOf
<1>4. GoodBefore(r, req[r].next)' = GoodBefore(r, req[r].next + 1)
  BY <1>1, <1>2 DEF GoodBefore
<1>5. Storing(r)'
  BY <1>1, <1>2, <1>3, <1>4, GoodNext DEF AnswerInv, Told, Storing
<1> QED
  BY <1>1, <1>2, <1>5, PlainStep DEF Told

\* Enqueue stores a good item that was not there, and the handler is about to
\* count it.
LEMMA StoresStep ==
  ASSUME AnswerInv, TypeOK, NEW r \in Requests, EnqueueStores(r)
  PROVE  AnswerInv'
<1> DEFINE x == <<r, req[r].next>>
           q == [req[r] EXCEPT !.step = "count"]
<1>1. /\ req' = [req EXCEPT ![r] = q] /\ req'[r] = q
      /\ stored' = stored \union {x} /\ ingested' = ingested
  BY DEF EnqueueStores, TypeOK
<1>2. /\ q.route = req[r].route /\ q.body = req[r].body /\ q.next = req[r].next
      /\ q.enqueued = req[r].enqueued /\ q.step = "count" /\ req[r].step = "item"
      /\ req[r].next \in DOMAIN req[r].body /\ Item(r) = "good"
  BY DEF TypeOK, Request, EnqueueStores, AtItem, Refusal
<1>3. Storing(r)
  BY <1>2 DEF AnswerInv, Told
<1>4. x \notin stored
  <2>1. x \notin StoredOf(r)
    BY <1>2, <1>3, GoodNext DEF Storing
  <2> QED
    BY <2>1 DEF StoredOf
<1>5. StoredOf(r)' = StoredOf(r) \union {x} /\ x \notin StoredOf(r)
  BY <1>1, <1>4 DEF StoredOf
<1>6. IsFiniteSet(StoredOf(r))
  BY FS_Subset DEF AnswerInv, StoredOf
<1>7. Cardinality(StoredOf(r)') = Cardinality(StoredOf(r)) + 1
  BY <1>5, <1>6, FS_AddElement
<1>8. GoodBefore(r, req[r].next + 1)' = GoodBefore(r, req[r].next) \union {x}
  <2>1. GoodBefore(r, req[r].next + 1)' = GoodBefore(r, req[r].next + 1)
    BY <1>1, <1>2 DEF GoodBefore
  <2> QED
    BY <1>2, <2>1, GoodNext
<1>9. Told(r)'
  BY <1>1, <1>2, <1>3, <1>5, <1>7, <1>8 DEF Told, Storing
<1>10. \A y \in Requests \ {r} : Told(y)'
  <2>1. \A y \in Requests \ {r} : StoredOf(y)' = StoredOf(y)
    BY <1>1 DEF StoredOf
  <2> QED
    BY <1>1, <2>1, OthersTold
<1>11. IngestedExact' /\ IsFiniteSet(stored)'
  <2>1. Counting' = Counting \union {r} /\ r \notin Counting /\ IsFiniteSet(Counting)
    <3>1. IsFiniteSet(Counting)
      BY SidecarAssumption, FS_Subset DEF Counting
    <3> QED
      BY <1>1, <1>2, <3>1 DEF Counting, TypeOK
  <2>2. Cardinality(Counting') = Cardinality(Counting) + 1
    BY <2>1, FS_AddElement
  <2>3. IsFiniteSet(stored') /\ Cardinality(stored') = Cardinality(stored) + 1
    BY <1>1, <1>4, FS_AddElement DEF AnswerInv
  <2>4. Cardinality(Counting) \in Nat /\ Cardinality(stored) \in Nat
    BY <2>1, FS_CardinalityType DEF AnswerInv
  <2> QED
    BY <1>1, <2>2, <2>3, <2>4 DEF AnswerInv, IngestedExact, TypeOK
<1> QED
  BY <1>9, <1>10, <1>11 DEF AnswerInv

\* RecordIngested counts it.
LEMMA CountStep ==
  ASSUME AnswerInv, TypeOK, NEW r \in Requests, CountIngested(r)
  PROVE  AnswerInv'
<1> DEFINE q == [req[r] EXCEPT !.step = "item", !.next = req[r].next + 1,
                               !.enqueued = req[r].enqueued + 1]
<1>1. /\ req' = [req EXCEPT ![r] = q] /\ req'[r] = q
      /\ stored' = stored /\ ingested' = ingested + 1 /\ req[r].step = "count"
  BY DEF CountIngested, history, TypeOK
<1>2. /\ q.route = req[r].route /\ q.body = req[r].body /\ q.next = req[r].next + 1
      /\ q.enqueued = req[r].enqueued + 1 /\ q.step = "item"
  BY DEF TypeOK, Request
<1>3. Storing(r)
  BY <1>1 DEF AnswerInv, Told
<1>4. StoredOf(r)' = StoredOf(r) /\ GoodBefore(r, req[r].next)' = GoodBefore(r, req[r].next + 1)
  <2>1. StoredOf(r)' = StoredOf(r)
    BY <1>1 DEF StoredOf
  <2>2. GoodBefore(r, req[r].next)' = GoodBefore(r, req[r].next + 1)
    <3>1. req'[r].body = req[r].body /\ req'[r].next = req[r].next + 1
      BY <1>1, <1>2
    <3> QED
      BY <3>1 DEF GoodBefore
  <2> QED
    BY <2>1, <2>2
<1>5. Told(r)'
  BY <1>1, <1>2, <1>3, <1>4, GoodNext DEF Told, Storing
<1>6. \A y \in Requests \ {r} : Told(y)'
  BY <1>1, OthersTold DEF StoredOf
<1>7. IngestedExact'
  <2>1. Counting' = Counting \ {r} /\ r \in Counting /\ IsFiniteSet(Counting)
    <3>1. IsFiniteSet(Counting)
      BY SidecarAssumption, FS_Subset DEF Counting
    <3> QED
      BY <1>1, <1>2, <3>1 DEF Counting, TypeOK
  <2>2. Cardinality(Counting') = Cardinality(Counting) - 1 /\ Cardinality(Counting) \in Nat
    BY <2>1, FS_RemoveElement, FS_CardinalityType
  <2>3. Cardinality(stored) \in Nat
    BY FS_CardinalityType DEF AnswerInv
  <2> QED
    BY <1>1, <2>2, <2>3 DEF AnswerInv, IngestedExact, TypeOK
<1> QED
  BY <1>1, <1>5, <1>6, <1>7 DEF AnswerInv

LEMMA AnswerInvStep == ASSUME AnswerInv, TypeOK, [Next]_vars PROVE AnswerInv'
<1>1. ASSUME NEW r \in Requests, Arrive(r) \/ HangUp(r) \/ Handler(r)
      PROVE  AnswerInv'
  <2>1. CASE RefuseLine(r) \/ EnqueueRefused(r) \/ EnqueueFails(r) \/ FinishItems(r)
               \/ FlushAnswered(r)
    <3>1. /\ \E answer : Answer(r, answer)
          /\ req[r].step # "count" /\ UNCHANGED <<stored, ingested>>
      BY <2>1 DEF RefuseLine, EnqueueRefused, EnqueueFails, FinishItems, FlushAnswered, AtItem,
                  history
    <3> QED
      BY <3>1, AnswerStep
  <2> QED
    BY <1>1, <2>1, ArriveStep, HangUpStep, SkipStep, StoresStep, CountStep DEF Handler
<1>2. CASE UNCHANGED <<req, stored, ingested>>
  BY <1>2 DEF AnswerInv, IngestedExact, Counting, Told, Storing, Empty, StoredOf, GoodBefore
<1>3. CASE \E s \in Streams : StreamArrives(s) \/ StreamEnds(s) \/ StreamLeft(s)
  BY <1>2, <1>3 DEF StreamArrives, StreamEnds, StreamLeft, history
<1>4. CASE Dispatcher
  BY <1>2, <1>4 DEF Dispatcher, ReadBatch, Deliver, DeliverNowhere, Commit, CommitFails,
                    DispatcherStops, history
<1>5. CASE Signal \/ GracefulShutdown \/ ServerTimesOut \/ FlushTimesOut \/ FlushFails
  BY <1>2, <1>5 DEF Signal, GracefulShutdown, ServerTimesOut, FlushTimesOut, FlushFails, HubClose,
                ServerCloses, ServerDone, FlushDone, SpoolCloses, SpoolClosed, history
<1>6. CASE UNCHANGED vars
  BY <1>2, <1>6 DEF vars, history
<1> QED
  BY <1>1, <1>3, <1>4, <1>5, <1>6 DEF Next, Finished

LEMMA AnswersAlways == Spec => [](TypeOK /\ AnswerInv)
  BY TypeCorrect, InitAnswers, AnswerInvStep, PTL DEF Spec

\* The counter of ingested records is exact.
THEOREM CounterIsExact == Spec => []IngestedExact
<1>1. AnswerInv => IngestedExact
  BY DEF AnswerInv
<1> QED
  BY <1>1, AnswersAlways, PTL

\* An answer of which all three parts hold before it is given.
LEMMA AnswerIsTrue ==
  ASSUME AnswerInv, TypeOK, [Next]_vars, NEW r \in Requests,
         req[r].step # "over", req'[r].step = "over"
  PROVE  /\ req'[r].answer = "accepted" => StoredOf(r) = Good(r)
         /\ Cardinality(StoredOf(r)) = req[r].enqueued
         /\ req[r].route = "batch" /\ Flawed(req[r].body) => StoredOf(r) = {}
<1>1. /\ req[r].step \in {"out", "item", "flush"}
      /\ req'[r].answer = "accepted" =>
           \/ req[r].step = "flush"
           \/ req[r].step = "item" /\ req[r].next \notin DOMAIN req[r].body
  <2>1. PICK x \in Requests : Arrive(x) \/ HangUp(x) \/ Handler(x)
    <3>1. req' # req
      OBVIOUS
    <3> QED
      BY <3>1 DEF Next, Finished, vars, StreamArrives, StreamEnds, StreamLeft, Dispatcher, ReadBatch,
                  Deliver, DeliverNowhere, Commit, CommitFails, DispatcherStops, Signal,
                  GracefulShutdown, ServerTimesOut, FlushTimesOut, FlushFails, HubClose, ServerCloses, ServerDone,
                  FlushDone, SpoolCloses, SpoolClosed
  <2>2. x = r
    <3>1. \E q : req' = [req EXCEPT ![x] = q]
      BY <2>1 DEF Arrive, HangUp, Handler, SkipLine, RefuseLine, EnqueueRefused, EnqueueFails,
                  EnqueueStores, CountIngested, FinishItems, FlushAnswered, Answer
    <3> QED
      BY <3>1 DEF TypeOK
  <2>3. req[r] \in Request /\ req \in [Requests -> Request]
    BY DEF TypeOK
  <2>4. CASE Arrive(r)
    <3>1. PICK ask \in Asks[r] :
            IF Opening(ask.route, ask.body) # "none"
            THEN Answer(r, Opening(ask.route, ask.body))
            ELSE req' = [req EXCEPT ![r] =
                          [@ EXCEPT !.route = ask.route, !.body = ask.body,
                                    !.step = IF ask.route = "flush" THEN "flush" ELSE "item"]]
      BY <2>4 DEF Arrive
    <3>2. Opening(ask.route, ask.body) # "none"
      <4>1. SUFFICES ASSUME Opening(ask.route, ask.body) = "none"
                     PROVE  FALSE
        OBVIOUS
      <4>2. req'[r] = [req[r] EXCEPT !.route = ask.route, !.body = ask.body,
                                     !.step = IF ask.route = "flush" THEN "flush" ELSE "item"]
        BY <2>3, <3>1, <4>1
      <4>3. req'[r].step = IF ask.route = "flush" THEN "flush" ELSE "item"
        BY <2>3, <4>2 DEF Request
      <4> QED
        BY <4>3
    <3>3. req'[r].answer = Opening(ask.route, ask.body)
      BY <2>3, <3>1, <3>2 DEF Answer, NoHandler
    <3> QED
      BY <2>4, <3>3 DEF Arrive, Opening
  <2>5. CASE HangUp(r) \/ SkipLine(r) \/ EnqueueStores(r) \/ CountIngested(r)
    <3>1. CASE HangUp(r)
      BY <2>3, <3>1 DEF HangUp, Request
    <3>2. CASE SkipLine(r)
      BY <2>3, <3>2 DEF SkipLine, AtItem, Request
    <3>3. CASE EnqueueStores(r)
      BY <2>3, <3>3 DEF EnqueueStores, Request
    <3>4. CASE CountIngested(r)
      BY <2>3, <3>4 DEF CountIngested, Request
    <3> QED
      BY <2>5, <3>1, <3>2, <3>3, <3>4
  <2>6. CASE RefuseLine(r) \/ EnqueueFails(r)
    BY <2>3, <2>6 DEF RefuseLine, EnqueueFails, AtItem, Answer, NoHandler
  <2>7. CASE EnqueueRefused(r)
    <3>1. req'[r].answer = AnswerTo(req[r].route, Refusal(r)) /\ req[r].step = "item"
      BY <2>3, <2>7 DEF EnqueueRefused, AtItem, Answer, NoHandler
    <3> QED
      BY <3>1 DEF AnswerTo
  <2>8. CASE FinishItems(r) \/ FlushAnswered(r)
    BY <2>8 DEF FinishItems, FlushAnswered
  <2> QED
    BY <2>1, <2>2, <2>4, <2>5, <2>6, <2>7, <2>8 DEF Handler
<1>2. CASE req[r].step \in {"out", "flush"}
  <2>1. Empty(r)
    BY <1>2 DEF AnswerInv, Told
  <2>2. Good(r) = {} /\ StoredOf(r) = {} /\ Cardinality(StoredOf(r)) = 0
    BY <2>1, FS_EmptySet, EmptySeq, LenProperties DEF Empty, Good
  <2> QED
    BY <2>1, <2>2 DEF Empty
<1>3. CASE req[r].step = "item"
  <2>1. Storing(r)
    BY <1>3 DEF AnswerInv, Told
  <2>2. req[r].next \notin DOMAIN req[r].body => GoodBefore(r, req[r].next) = Good(r)
    <3>1. req[r].body \in Seq(Items) /\ req[r].next \in Nat \ {0}
      BY DEF TypeOK, Request
    <3>2. DOMAIN req[r].body = 1 .. Len(req[r].body) /\ Len(req[r].body) \in Nat
      BY <3>1, LenProperties
    <3>3. req[r].next \notin DOMAIN req[r].body =>
            \A j \in DOMAIN req[r].body : j < req[r].next
      BY <2>1, <3>1, <3>2 DEF Storing
    <3> QED
      BY <3>3 DEF GoodBefore, Good
  <2> QED
    BY <1>1, <1>3, <2>1, <2>2 DEF Storing
<1> QED
  BY <1>1, <1>2, <1>3

\* What clients are told is true: accepted items are stored, counts are
\* exact, and a batch that validation refuses leaves nothing behind.
THEOREM AnswersAreTrue == Spec => AnswersTrue
<1>1. TypeOK /\ AnswerInv /\ [Next]_vars =>
        [\A r \in Requests : req[r].step # "over" /\ req'[r].step = "over" =>
           /\ req'[r].answer = "accepted" => StoredOf(r) = Good(r)
           /\ Cardinality(StoredOf(r)) = req[r].enqueued
           /\ req[r].route = "batch" /\ Flawed(req[r].body) => StoredOf(r) = {}]_vars
  BY AnswerIsTrue
<1> QED
  BY <1>1, AnswersAlways, PTL DEF Spec, AnswersTrue
=============================================================================
