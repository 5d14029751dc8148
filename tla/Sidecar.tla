------------------------------ MODULE Sidecar ------------------------------
(***************************************************************************)
(* The sidecar process (cmd/sidecar/main.go, otlp.go): the HTTP handlers   *)
(* that put records into the spool, the sink that posts them downstream,   *)
(* the counters of both, and GracefulShutdown against requests, streams    *)
(* and a flush that are still running.                                     *)
(*                                                                         *)
(* The spooler is used as module Engine shows it to behave: Enqueue stores *)
(* one record or refuses it, the dispatcher delivers and commits batches   *)
(* from the front of the queue, and Flush returns nil only after finding   *)
(* the queue empty.  The log hub is open or closed (module HubStream).     *)
(***************************************************************************)
EXTENDS Naturals, Sequences, FiniteSets

CONSTANTS
  Requests,    \* HTTP requests, once each
  Streams,     \* requests for /v1/logs/stream
  Impatient,   \* those whose client may hang up
  Asks,        \* for a request, what it may be: an endpoint and its items
  Sinks,       \* how the sink may be configured
  Statuses,    \* the answer http.Client.Do may come back with; 0: an error
  MaxCapacity, \* quota of uncommitted records
  BatchSize,   \* records of a delivery
  MaxFaults    \* bound: failing calls of the storage

\* An item passes every test ("good"), fails the parser or a test of its
\* fields ("invalid"), is too long to be read ("long"), or passes them and is
\* over the limit of the spooler once enrichPayloadMetadata or OTLP
\* normalisation has added to it ("swells").
Items == {"good", "invalid", "long", "swells"}
Endpoints == {"single", "batch", "ndjson", "strict", "otlp", "flush"}

\* What -sink-url names, which no test of the configuration parses: a target; one
\* that may send a request elsewhere with a 301, 302 or 303; nothing a request can
\* be built for ("127.0.0.1:9000/in"); or no target, only the debug log.
SinkURLs == {"target", "moved", "unusable", "none"}

ASSUME SidecarAssumption ==
  /\ IsFiniteSet(Requests)
  /\ Impatient \subseteq Requests
  /\ \A r \in Requests :
       /\ Asks[r] \subseteq [route : Endpoints, body : Seq(Items)]
       /\ \A ask \in Asks[r] : ask.route = "flush" => ask.body = <<>>
  /\ Sinks \subseteq SinkURLs
  /\ Statuses \subseteq Nat
  /\ MaxCapacity \in Nat \ {0} /\ BatchSize \in Nat \ {0} /\ MaxFaults \in Nat

VARIABLES
  req,        \* the handlers: route, body, next item, enqueued, step, answer, client
  stream,     \* SSE handlers: "out", "open" or "over"
  queue,      \* records not committed, each <<request, item>>
  sink,       \* what -sink-url names
  hand,       \* how many of them are in the batch in hand
  dispatcher, \* "read", "deliver", "commit" or "stopped"
  spooler,    \* "open" or "closed"
  hub,        \* "open" or "closed"
  listener,   \* "open" or "closed"
  shutdown,   \* where GracefulShutdown is
  marked,     \* shuttingDown
  deadline,   \* its ten seconds are over
  clean,      \* it has met no error so far
  ingested,   \* walspool_ingested_records_total, all topics
  faults,     \* storage calls that have failed
  stored,     \* history: records Append took
  settled,    \* history: records the target took or refused for good
  astray      \* history: other records that the sink let go of

spool    == <<sink, queue, hand, dispatcher, spooler>>
stopping == <<hub, listener, shutdown, marked, deadline, clean>>
history  == <<stored, settled, astray>>
vars == <<req, stream, spool, stopping, ingested, faults, history>>

\* No handler runs: before the request, and after its answer.
NoHandler(step, answer) ==
  [route |-> "single", body |-> <<>>, next |-> 1, enqueued |-> 0,
   step |-> step, answer |-> answer, client |-> "there"]

Init ==
  /\ req = [r \in Requests |-> NoHandler("out", "none")]
  /\ stream = [s \in Streams |-> "out"]
  /\ sink \in Sinks
  /\ queue = <<>> /\ hand = 0 /\ dispatcher = "read" /\ spooler = "open"
  /\ hub = "open" /\ listener = "open" /\ shutdown = "none"
  /\ marked = FALSE /\ deadline = FALSE /\ clean = TRUE
  /\ ingested = 0 /\ faults = 0
  /\ stored = {} /\ settled = {} /\ astray = {}

IOError == faults < MaxFaults /\ faults' = faults + 1

-----------------------------------------------------------------------------
(* The handlers of /enqueue, /enqueue/batch, POST /v1/logs and /flush.     *)

Flawed(body) == \E i \in DOMAIN body : body[i] \in {"invalid", "long"}

\* Mutant: a batch is validated up to its first item only.
OpeningOfFirst(route, body) ==
  IF route = "batch" /\ marked THEN "unavailable"
  ELSE IF \/ route \in {"single", "batch"} /\ body = <<>>
          \/ route \in {"single", "batch", "otlp"} /\ body # <<>> /\ body[1] \in {"invalid", "long"}
       THEN "rejected"
       ELSE "none"

\* The answer given before any record is enqueued, if any.  An empty body
\* also stands for one that cannot be decoded or has too many items.
Opening(route, body) ==
  IF route = "batch" /\ marked THEN "unavailable"
  ELSE IF \/ route \in {"single", "batch"} /\ body = <<>>
          \/ route \in {"single", "batch", "otlp"} /\ Flawed(body)
       THEN "rejected"
       ELSE "none"

\* The handler returns.
Answer(r, answer) == req' = [req EXCEPT ![r] = NoHandler("over", answer)]

\* A request comes in and its handler runs up to its first Enqueue or Flush.
Arrive(r) ==
  /\ req[r].step = "out" /\ listener = "open"
  /\ \E ask \in Asks[r] :
       LET answer == Opening(ask.route, ask.body)
       IN  IF answer # "none" THEN Answer(r, answer)
           ELSE req' = [req EXCEPT ![r] =
                         [@ EXCEPT !.route = ask.route, !.body = ask.body,
                                   !.step = IF ask.route = "flush" THEN "flush" ELSE "item"]]
  /\ UNCHANGED <<stream, spool, stopping, ingested, faults, history>>

\* The client of a running request hangs up, which ends r.Context().
HangUp(r) ==
  /\ r \in Impatient
  /\ req[r].step \notin {"out", "over"} /\ req[r].client = "there"
  /\ req' = [req EXCEPT ![r].client = "gone"]
  /\ UNCHANGED <<stream, spool, stopping, ingested, faults, history>>

Item(r)   == req[r].body[req[r].next]
AtItem(r) == req[r].step = "item" /\ req[r].next \in DOMAIN req[r].body

LineByLine(r) == req[r].route \in {"ndjson", "strict"}
BadLine(r)    == LineByLine(r) /\ Item(r) \in {"invalid", "long"}

\* Mutant: a line that is skipped is counted as ingested.
SkipLineCounted(r) ==
  /\ AtItem(r) /\ req[r].route = "ndjson" /\ Item(r) = "invalid"
  /\ req' = [req EXCEPT ![r].next = @ + 1]
  /\ ingested' = ingested + 1
  /\ UNCHANGED <<stream, spool, stopping, faults, history>>

\* NDJSON reads line by line: a bad line is passed over, ...
SkipLine(r) ==
  /\ AtItem(r) /\ req[r].route = "ndjson" /\ Item(r) = "invalid"
  /\ req' = [req EXCEPT ![r].next = @ + 1]
  /\ UNCHANGED <<stream, spool, stopping, ingested, faults, history>>

\* ... or ends the request, in strict mode or when it is too long.
RefuseLine(r) ==
  /\ AtItem(r) /\ BadLine(r)
  /\ req[r].route = "strict" \/ Item(r) = "long"
  /\ Answer(r, "rejected")
  /\ UNCHANGED <<stream, spool, stopping, ingested, faults, history>>

\* Mutant: the quota is tested one record too late.
RefusalLate(r) ==
  IF req[r].client = "gone" THEN "context"
  ELSE IF Item(r) # "good" THEN "precondition"
  ELSE IF spooler = "closed" THEN "closed"
  ELSE IF Len(queue) > MaxCapacity THEN "full"
  ELSE "none"

\* Why Enqueue refuses a record, in the order of its tests.
Refusal(r) ==
  IF req[r].client = "gone" THEN "context"
  ELSE IF Item(r) # "good" THEN "precondition"
  ELSE IF spooler = "closed" THEN "closed"
  ELSE IF Len(queue) >= MaxCapacity THEN "full"
  ELSE "none"

\* How an endpoint answers it; items enqueued before stay in the spool.
AnswerTo(route, refusal) ==
  CASE refusal = "full" -> "unavailable"
    [] refusal = "precondition" /\ route \in {"single", "ndjson", "strict"} -> "rejected"
    [] refusal = "closed" /\ route = "otlp" -> "unavailable"
    [] refusal = "context" /\ route \in {"ndjson", "strict"} -> "none"
    [] OTHER -> "failed"

EnqueueRefused(r) ==
  /\ AtItem(r) /\ ~ BadLine(r)
  /\ Refusal(r) # "none"
  /\ Answer(r, AnswerTo(req[r].route, Refusal(r)))
  /\ UNCHANGED <<stream, spool, stopping, ingested, faults, history>>

\* Append fails.
EnqueueFails(r) ==
  /\ AtItem(r) /\ ~ BadLine(r) /\ Refusal(r) = "none"
  /\ IOError
  /\ Answer(r, "failed")
  /\ UNCHANGED <<stream, spool, stopping, ingested, history>>

EnqueueStores(r) ==
  /\ AtItem(r) /\ ~ BadLine(r) /\ Refusal(r) = "none"
  /\ queue' = Append(queue, <<r, req[r].next>>)
  /\ stored' = stored \union {<<r, req[r].next>>}
  /\ req' = [req EXCEPT ![r].step = "count"]
  /\ UNCHANGED <<stream, sink, hand, dispatcher, spooler, stopping, ingested, faults, settled,
                 astray>>

\* RecordIngested, and on to the next item.
CountIngested(r) ==
  /\ req[r].step = "count"
  /\ ingested' = ingested + 1
  /\ LET q == req[r]
     IN  req' = [req EXCEPT ![r] = [q EXCEPT !.step = "item", !.next = q.next + 1,
                                             !.enqueued = q.enqueued + 1]]
  /\ UNCHANGED <<stream, spool, stopping, faults, history>>

\* The items are through.  An NDJSON body must have had a good line.
LastAnswer(r) ==
  IF LineByLine(r) /\ req[r].enqueued = 0 THEN "rejected" ELSE "accepted"

FinishItems(r) ==
  /\ req[r].step = "item" /\ req[r].next \notin DOMAIN req[r].body
  /\ Answer(r, LastAnswer(r))
  /\ UNCHANGED <<stream, spool, stopping, ingested, faults, history>>

\* Flush has found the queue empty.
Drained == queue = <<>> /\ hand = 0

FlushAnswered(r) ==
  /\ req[r].step = "flush"
  /\ \/ spooler = "open" /\ Drained /\ Answer(r, "accepted") /\ UNCHANGED faults
     \/ spooler = "closed" /\ Answer(r, "failed") /\ UNCHANGED faults
     \/ req[r].client = "gone" /\ Answer(r, "failed") /\ UNCHANGED faults
     \/ IOError /\ Answer(r, "failed")
  /\ UNCHANGED <<stream, spool, stopping, ingested, history>>

-----------------------------------------------------------------------------
(* /v1/logs/stream *)

StreamArrives(s) ==
  /\ stream[s] = "out" /\ listener = "open"
  /\ stream' = [stream EXCEPT ![s] = "open"]
  /\ UNCHANGED <<req, spool, stopping, ingested, faults, history>>

\* The hub closes the channel, or hands out a closed one: the loop ends.
StreamEnds(s) ==
  /\ stream[s] = "open" /\ hub = "closed"
  /\ stream' = [stream EXCEPT ![s] = "over"]
  /\ UNCHANGED <<req, spool, stopping, ingested, faults, history>>

StreamLeft(s) ==
  /\ stream[s] = "open"
  /\ stream' = [stream EXCEPT ![s] = "over"]
  /\ UNCHANGED <<req, spool, stopping, ingested, faults, history>>

-----------------------------------------------------------------------------
(* The dispatcher and the sink. *)

ReadBatch ==
  /\ dispatcher = "read" /\ queue # <<>>
  /\ hand' \in {n \in 1 .. BatchSize : n <= Len(queue)}
  /\ dispatcher' = "deliver"
  /\ UNCHANGED <<req, stream, sink, queue, spooler, stopping, ingested, faults, history>>

\* Mutant: every 4xx is taken for a permanent rejection.
VerdictOfClass(status) ==
  IF status \in 200 .. 299 THEN "accepted"
  ELSE IF status \in 400 .. 499 THEN "rejected"
  ELSE "unavailable"

\* What HTTPSink.Deliver makes of the answer.
Verdict(status) ==
  IF status \in 200 .. 299 THEN "accepted"
  ELSE IF status \in (400 .. 499) \ {408, 429} THEN "rejected"
  ELSE "unavailable"

InHand == {queue[i] : i \in 1 .. hand}

\* The server that answers took the request, or will never take it.
Final(status) == status \in 200 .. 299 \/ status \in 400 .. 407 \/ status \in 409 .. 428
                   \/ status \in 430 .. 499

\* Deliver posts the batch.  http.Client follows redirects by itself: behind a
\* 301, 302 or 303 its request is a GET, which carries no batch, and the answer
\* to that is judged like any other.  3xx is left where none is followed.
Deliver(status, carried) ==
  /\ dispatcher = "deliver" /\ sink \in {"target", "moved"}
  /\ carried \/ sink = "moved"
  /\ settled' = settled \union (IF Final(status) /\ carried THEN InHand ELSE {})
  /\ astray' = (astray \union (IF Final(status) THEN InHand ELSE {})) \ settled'
  /\ IF Verdict(status) = "unavailable"
     THEN dispatcher' = "read" /\ hand' = 0
     ELSE dispatcher' = "commit" /\ UNCHANGED hand
  /\ UNCHANGED <<req, stream, sink, queue, spooler, stopping, ingested, faults, stored>>

\* Deliver returns nil without a target, and ErrPermanentRejection when no
\* request can be built: the batch is committed either way.  Encoding it never
\* fails, each payload being JSON or quoted.
DeliverNowhere ==
  /\ dispatcher = "deliver" /\ sink \in {"unusable", "none"}
  /\ astray' = astray \union InHand
  /\ dispatcher' = "commit"
  /\ UNCHANGED <<req, stream, sink, queue, hand, spooler, stopping, ingested, faults, stored,
                 settled>>

Commit ==
  /\ dispatcher = "commit"
  /\ queue' = SubSeq(queue, hand + 1, Len(queue))
  /\ hand' = 0 /\ dispatcher' = "read"
  /\ UNCHANGED <<req, stream, sink, spooler, stopping, ingested, faults, history>>

\* The batch will be read again.
CommitFails ==
  /\ dispatcher = "commit" /\ IOError
  /\ hand' = 0 /\ dispatcher' = "read"
  /\ UNCHANGED <<req, stream, sink, queue, spooler, stopping, ingested, history>>

\* After Close: at once from a backoff, else when the queue is empty or the
\* five seconds of the last drain are over.
DispatcherStops ==
  /\ spooler = "closed" /\ dispatcher \in {"read", "deliver"}
  /\ dispatcher' = "stopped" /\ hand' = 0
  /\ UNCHANGED <<req, stream, sink, queue, spooler, stopping, ingested, faults, history>>

-----------------------------------------------------------------------------
(* GracefulShutdown *)

Signal ==
  /\ shutdown = "none"
  /\ marked' = TRUE
  /\ shutdown' = "hub"
  /\ UNCHANGED <<req, stream, spool, hub, listener, deadline, clean, ingested, faults, history>>

\* Mutant: the hub stays open.
HubCloseForgotten ==
  /\ shutdown = "hub"
  /\ shutdown' = "listener"
  /\ UNCHANGED <<req, stream, spool, hub, listener, marked, deadline, clean, ingested, faults, history>>

HubClose ==
  /\ shutdown = "hub"
  /\ hub' = "closed"
  /\ shutdown' = "listener"
  /\ UNCHANGED <<req, stream, spool, listener, marked, deadline, clean, ingested, faults, history>>

\* http.Server.Shutdown closes the listener, ...
ServerCloses ==
  /\ shutdown = "listener"
  /\ listener' = "closed"
  /\ shutdown' = "idle"
  /\ UNCHANGED <<req, stream, spool, hub, marked, deadline, clean, ingested, faults, history>>

Idle ==
  /\ \A r \in Requests : req[r].step \in {"out", "over"}
  /\ \A s \in Streams : stream[s] \in {"out", "over"}

\* ... and waits for the handlers, ...
ServerDone ==
  /\ shutdown = "idle" /\ Idle
  /\ shutdown' = "flush"
  /\ UNCHANGED <<req, stream, spool, hub, listener, marked, deadline, clean, ingested, faults,
                 history>>

\* ... or until the deadline.
ServerTimesOut ==
  /\ shutdown = "idle" /\ ~ Idle
  /\ deadline' = TRUE /\ clean' = FALSE
  /\ shutdown' = "flush"
  /\ UNCHANGED <<req, stream, spool, hub, listener, marked, ingested, faults, history>>

\* Mutant: a deadline that is over does not fail the Flush.
FlushDoneAnyway ==
  /\ shutdown = "flush"
  /\ shutdown' = "close"
  /\ UNCHANGED <<req, stream, spool, hub, listener, marked, deadline, clean, ingested, faults,
                 history>>

\* spool.Flush returns nil, ...
FlushDone ==
  /\ shutdown = "flush" /\ Drained /\ ~ deadline
  /\ shutdown' = "close"
  /\ UNCHANGED <<req, stream, spool, hub, listener, marked, deadline, clean, ingested, faults,
                 history>>

\* ... the error of the deadline, whether over by now or before, ...
FlushTimesOut ==
  /\ shutdown = "flush"
  /\ deadline' = TRUE /\ clean' = FALSE
  /\ shutdown' = "close"
  /\ UNCHANGED <<req, stream, spool, hub, listener, marked, ingested, faults, history>>

\* ... or an error of the storage.
FlushFails ==
  /\ shutdown = "flush" /\ IOError
  /\ clean' = FALSE
  /\ shutdown' = "close"
  /\ UNCHANGED <<req, stream, spool, hub, listener, marked, deadline, ingested, history>>

SpoolCloses ==
  /\ shutdown = "close"
  /\ spooler' = "closed"
  /\ shutdown' = "join"
  /\ UNCHANGED <<req, stream, sink, queue, hand, dispatcher, hub, listener, marked, deadline,
                 clean, ingested, faults, history>>

\* The dispatcher has returned and the storage is closed.
SpoolClosed ==
  /\ shutdown = "join" /\ dispatcher = "stopped"
  /\ \/ UNCHANGED <<clean, faults>>
     \/ IOError /\ clean' = FALSE
  /\ shutdown' = "over"
  /\ UNCHANGED <<req, stream, spool, hub, listener, marked, deadline, ingested, history>>

-----------------------------------------------------------------------------
Handler(r) ==
  \/ SkipLine(r) \/ RefuseLine(r)
  \/ EnqueueRefused(r) \/ EnqueueFails(r) \/ EnqueueStores(r) \/ CountIngested(r)
  \/ FinishItems(r) \/ FlushAnswered(r)

Dispatcher ==
  \/ ReadBatch
  \/ (\E status \in Statuses, carried \in BOOLEAN : Deliver(status, carried)) \/ DeliverNowhere
  \/ Commit \/ CommitFails \/ DispatcherStops

GracefulShutdown ==
  \/ HubClose \/ ServerCloses \/ ServerDone \/ FlushDone
  \/ SpoolCloses \/ SpoolClosed

\* main returns; requests still running end with the process.
Finished == shutdown = "over" /\ UNCHANGED vars

Next ==
  \/ \E r \in Requests : Arrive(r) \/ HangUp(r) \/ Handler(r)
  \/ \E s \in Streams : StreamArrives(s) \/ StreamEnds(s) \/ StreamLeft(s)
  \/ Dispatcher
  \/ Signal \/ GracefulShutdown \/ ServerTimesOut \/ FlushTimesOut \/ FlushFails
  \/ Finished

Spec == Init /\ [][Next]_vars

(***************************************************************************)
(* Goroutines run, clients send the bodies they have begun, and a target   *)
(* asked for ever takes or refuses a batch in the end.  Nothing makes a    *)
(* client leave its stream, and nothing is assumed of the deadline.        *)
(***************************************************************************)
FairSpec ==
  /\ Spec
  /\ \A r \in Requests : WF_vars(Handler(r))
  /\ \A s \in Streams : WF_vars(StreamEnds(s))
  /\ WF_vars(Dispatcher)
  /\ SF_vars(\E status \in Statuses, carried \in BOOLEAN :
               Final(status) /\ Deliver(status, carried))
  /\ WF_vars(GracefulShutdown \/ (deadline /\ FlushTimesOut))

-----------------------------------------------------------------------------
(* Properties *)

Request ==
  [route : Endpoints, body : Seq(Items), next : Nat \ {0}, enqueued : Nat,
   step : {"out", "item", "count", "flush", "over"},
   answer : {"none", "accepted", "rejected", "unavailable", "failed"},
   client : {"there", "gone"}]

TypeOK ==
  /\ req \in [Requests -> Request]
  /\ stream \in [Streams -> {"out", "open", "over"}]
  /\ queue \in Seq(Requests \X (Nat \ {0})) /\ Len(queue) <= MaxCapacity
  /\ hand \in 0 .. Len(queue)
  /\ sink \in SinkURLs
  /\ dispatcher \in {"read", "deliver", "commit", "stopped"}
  /\ spooler \in {"open", "closed"} /\ hub \in {"open", "closed"}
  /\ listener \in {"open", "closed"}
  /\ shutdown \in {"none", "hub", "listener", "idle", "flush", "close", "join", "over"}
  /\ marked \in BOOLEAN /\ deadline \in BOOLEAN /\ clean \in BOOLEAN
  /\ ingested \in Nat /\ faults \in 0 .. MaxFaults
  /\ stored \subseteq Requests \X (Nat \ {0}) /\ settled \subseteq stored /\ astray \subseteq stored

StoredOf(r) == {x \in stored : x[1] = r}
Good(r)     == {<<r, i>> : i \in {j \in DOMAIN req[r].body : req[r].body[j] = "good"}}
Counting    == {r \in Requests : req[r].step = "count"}

\* What a client is told agrees with what the spool took: a request answered
\* 200 or 202 has all its good items stored, the number of items a batch or
\* NDJSON answer gives is the number stored, and a batch leaves nothing behind
\* when its validation can tell that one of its items is invalid, wherever in
\* the batch it is.
AnswersTrue ==
  [][\A r \in Requests : req[r].step # "over" /\ req'[r].step = "over" =>
       /\ req'[r].answer = "accepted" => StoredOf(r) = Good(r)
       /\ Cardinality(StoredOf(r)) = req[r].enqueued
       /\ req[r].route = "batch" /\ Flawed(req[r].body) => StoredOf(r) = {}]_vars

\* The counter of /metrics counts what the spool took, no more and no less,
\* but for handlers between Enqueue and RecordIngested.
IngestedExact == ingested + Cardinality(Counting) = Cardinality(stored)

\* What may leave the queue: what the target has taken or refused for good and,
\* only where -sink-url names no target that answers for itself, what went astray.
Released == settled \union (IF sink = "target" THEN {} ELSE astray)

\* At-least-once: a record the spool took stays in its queue until it may leave;
\* 408, 429, 5xx and a broken connection release nothing, and nothing is lost at
\* any point of a shutdown.
NothingDropped ==
  \A x \in stored : x \in Released \/ \E i \in DOMAIN queue : queue[i] = x

\* A GracefulShutdown that reports no error has lost no one: every handler has
\* returned, and every record that was ever stored is committed and was taken or
\* refused by the target ("Zero In-Flight Loss", README), with the same exception.
CleanShutdownDelivers ==
  shutdown = "over" /\ clean => Idle /\ queue = <<>> /\ stored \subseteq Released

\* Once it has begun, a shutdown comes to its end without its deadline:
\* neither an open stream nor one opened meanwhile holds it up.
ShutdownEnds == shutdown = "hub" ~> shutdown = "over"
=============================================================================
