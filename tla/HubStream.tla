----------------------------- MODULE HubStream -----------------------------
(***************************************************************************)
(* The live streams of the log hub (hub.go): Ingest hands each entry to    *)
(* the subscribers after it has released h.mu, while stream handlers       *)
(* (cmd/sidecar, handleLogsStream) subscribe, read and cancel, and Close   *)
(* ends all streams.                                                       *)
(*                                                                         *)
(* A step is what happens under h.mu or under one sub.mu; between its test *)
(* of sub.closed and its send Ingest holds sub.mu for reading, and the     *)
(* steps are kept apart, because a channel may not be closed in between.   *)
(* An entry is known by its number in the order of ingestion.              *)
(***************************************************************************)
EXTENDS Integers, Sequences, FiniteSets

CONSTANTS
  Publishers, \* goroutines that call Ingest
  Streams,    \* subscriptions, one for each stream request
  Closers,    \* goroutines that call Close, once each
  Nobody,     \* no stream
  Kinds,      \* entries, as far as filters tell them apart
  Wanted,     \* the kinds that the filter of each stream lets through
  ChanCap,    \* slots of a subscriber's channel (256 in the code)
  MaxIngest   \* bound: entries ingested in a behaviour

ASSUME HubStreamAssumption ==
  /\ Nobody \notin Streams
  /\ Wanted \in [Streams -> SUBSET Kinds]
  /\ ChanCap \in Nat \ {0} /\ MaxIngest \in Nat

VARIABLES
  hub,        \* h.closed: "open" or "closed"
  registered, \* h.subscribers
  ingested,   \* history: kind of every entry ingested
  entry,      \* the entry a publisher hands out
  todo,       \* streams of its snapshot it has not come to
  to,         \* the stream whose sub.mu it holds for reading, or Nobody
  sub,        \* sub.closed: "none" before Subscribe, "open" or "closed"
  ch,         \* entries in the channel of each stream
  handler,    \* its handler: "out", "reading", "leaving", "deleted", "gone"
  got,        \* history: the entries it has read
  closer,     \* Close: "out", "busy" or "back"
  closing,    \* streams a Close has still to close
  dropped,    \* h.droppedEvents
  lost,       \* history: entries dropped, for each stream
  since,      \* history: entries ingested before a stream subscribed,
  until       \* ... and before it left h.subscribers

publishing == <<entry, todo, to>>
history    == <<ingested, since, until>>
channels   == <<ch, got, lost, dropped>>
vars == <<hub, registered, publishing, sub, handler, channels, closer, closing, history>>

Init ==
  /\ hub = "open" /\ registered = {} /\ ingested = <<>>
  /\ entry = [p \in Publishers |-> 0]
  /\ todo = [p \in Publishers |-> {}] /\ to = [p \in Publishers |-> Nobody]
  /\ sub = [s \in Streams |-> "none"] /\ ch = [s \in Streams |-> <<>>]
  /\ handler = [s \in Streams |-> "out"] /\ got = [s \in Streams |-> <<>>]
  /\ closer = [k \in Closers |-> "out"] /\ closing = [k \in Closers |-> {}]
  /\ dropped = 0 /\ lost = [s \in Streams |-> {}]
  /\ since = [s \in Streams |-> 0] /\ until = [s \in Streams |-> 0]

-----------------------------------------------------------------------------
(* Ingest *)

Returned(p) == todo[p] = {} /\ to[p] = Nobody

\* Under h.mu: the entry is indexed and the subscribers are copied.
Ingest(p, kind) ==
  /\ Returned(p) /\ hub = "open"
  /\ Len(ingested) < MaxIngest
  /\ ingested' = Append(ingested, kind)
  /\ entry' = [entry EXCEPT ![p] = Len(ingested')]
  /\ todo' = [todo EXCEPT ![p] = registered]
  /\ UNCHANGED <<hub, registered, to, sub, handler, channels, closer, closing, since, until>>

\* Mutant: the loop ends at the first stream whose filter does not match.
SkipTheRest(p, s) ==
  /\ to[p] = Nobody /\ s \in todo[p]
  /\ ingested[entry[p]] \notin Wanted[s]
  /\ todo' = [todo EXCEPT ![p] = {}]
  /\ UNCHANGED <<hub, registered, entry, to, sub, handler, channels, closer, closing, history>>

\* The map is copied in no particular order.  The filter of s does not match.
Skip(p, s) ==
  /\ to[p] = Nobody /\ s \in todo[p]
  /\ ingested[entry[p]] \notin Wanted[s]
  /\ todo' = [todo EXCEPT ![p] = @ \ {s}]
  /\ UNCHANGED <<hub, registered, entry, to, sub, handler, channels, closer, closing, history>>

\* sub.mu.RLock and the test of sub.closed.
Test(p, s) ==
  /\ to[p] = Nobody /\ s \in todo[p]
  /\ ingested[entry[p]] \in Wanted[s]
  /\ todo' = [todo EXCEPT ![p] = @ \ {s}]
  /\ to' = [to EXCEPT ![p] = IF sub[s] = "open" THEN s ELSE Nobody]
  /\ UNCHANGED <<hub, registered, entry, sub, handler, channels, closer, closing, history>>

\* Mutant: a full channel is tried again until there is room.
SendRetrying(p) ==
  /\ to[p] # Nobody
  /\ LET s == to[p]
     IN  IF Len(ch[s]) < ChanCap
         THEN /\ ch' = [ch EXCEPT ![s] = Append(@, entry[p])]
              /\ to' = [to EXCEPT ![p] = Nobody]
         ELSE UNCHANGED <<ch, to>>
  /\ UNCHANGED <<hub, registered, entry, todo, sub, handler, got, lost, dropped, closer,
                 closing, history>>

\* The send, or the count of an entry a full channel has no room for; then
\* sub.mu.RUnlock.
Send(p) ==
  /\ to[p] # Nobody
  /\ LET s == to[p]
     IN  IF Len(ch[s]) < ChanCap
         THEN ch' = [ch EXCEPT ![s] = Append(@, entry[p])] /\ UNCHANGED <<dropped, lost>>
         ELSE /\ dropped' = dropped + 1
              /\ lost' = [lost EXCEPT ![s] = @ \union {entry[p]}]
              /\ UNCHANGED ch
  /\ to' = [to EXCEPT ![p] = Nobody]
  /\ UNCHANGED <<hub, registered, entry, todo, sub, handler, got, closer, closing, history>>

-----------------------------------------------------------------------------
(* The stream handler: Subscribe, read, and the deferred cancel.           *)

\* Mutant: Subscribe does not ask whether the hub is closed.
SubscribeAnyway(s) ==
  /\ handler[s] = "out"
  /\ registered' = registered \union {s}
  /\ sub' = [sub EXCEPT ![s] = "open"] /\ handler' = [handler EXCEPT ![s] = "reading"]
  /\ since' = [since EXCEPT ![s] = Len(ingested)]
  /\ UNCHANGED <<hub, ingested, publishing, channels, closer, closing, until>>

\* A closed hub gives a closed channel, at which the handler returns.
Subscribe(s) ==
  /\ handler[s] = "out"
  /\ IF hub = "open"
     THEN /\ registered' = registered \union {s}
          /\ sub' = [sub EXCEPT ![s] = "open"]
          /\ handler' = [handler EXCEPT ![s] = "reading"]
          /\ since' = [since EXCEPT ![s] = Len(ingested)]
     ELSE /\ sub' = [sub EXCEPT ![s] = "closed"]
          /\ handler' = [handler EXCEPT ![s] = "gone"]
          /\ UNCHANGED <<registered, since>>
  /\ UNCHANGED <<hub, ingested, publishing, channels, closer, closing, until>>

Receive(s) ==
  /\ handler[s] = "reading" /\ ch[s] # <<>>
  /\ got' = [got EXCEPT ![s] = Append(@, Head(ch[s]))]
  /\ ch' = [ch EXCEPT ![s] = Tail(@)]
  /\ UNCHANGED <<hub, registered, publishing, sub, handler, lost, dropped, closer, closing,
                 history>>

\* The request ends at any time, or the channel is closed and empty.
Leave(s) ==
  /\ handler[s] = "reading"
  /\ handler' = [handler EXCEPT ![s] = "leaving"]
  /\ UNCHANGED <<hub, registered, publishing, sub, channels, closer, closing, history>>

\* cancel, under h.mu.
CancelDelete(s) ==
  /\ handler[s] = "leaving"
  /\ registered' = registered \ {s}
  /\ until' = [until EXCEPT ![s] = IF s \in registered THEN Len(ingested) ELSE @]
  /\ handler' = [handler EXCEPT ![s] = "deleted"]
  /\ UNCHANGED <<hub, publishing, sub, channels, closer, closing, ingested, since>>

\* Mutant: the channel is closed without sub.mu.
UnreadAlways(s) == TRUE

\* sub.mu.Lock returns when no Ingest holds it for reading.
Unread(s) == \A p \in Publishers : to[p] # s

\* cancel, under sub.mu: closes the channel unless Close has.
CancelClose(s) ==
  /\ handler[s] = "deleted"
  /\ Unread(s)
  /\ sub' = [sub EXCEPT ![s] = "closed"]
  /\ handler' = [handler EXCEPT ![s] = "gone"]
  /\ UNCHANGED <<hub, registered, publishing, channels, closer, closing, history>>

-----------------------------------------------------------------------------
(* Close *)

\* Mutant: Close forgets the streams it has taken out of the map.
CloseBeginOnly(k) ==
  /\ closer[k] = "out"
  /\ hub' = "closed" /\ registered' = {}
  /\ closer' = [closer EXCEPT ![k] = "back"]
  /\ until' = [s \in Streams |-> IF s \in registered THEN Len(ingested) ELSE until[s]]
  /\ UNCHANGED <<publishing, sub, handler, channels, closing, ingested, since>>

\* Under h.mu.  Another call has nothing to do.
CloseBegin(k) ==
  /\ closer[k] = "out"
  /\ IF hub = "open"
     THEN /\ hub' = "closed" /\ registered' = {}
          /\ closing' = [closing EXCEPT ![k] = registered]
          /\ closer' = [closer EXCEPT ![k] = "busy"]
          /\ until' = [s \in Streams |-> IF s \in registered THEN Len(ingested) ELSE until[s]]
     ELSE /\ closer' = [closer EXCEPT ![k] = "back"]
          /\ UNCHANGED <<hub, registered, closing, until>>
  /\ UNCHANGED <<publishing, sub, handler, channels, ingested, since>>

CloseStream(k, s) ==
  /\ s \in closing[k]
  /\ Unread(s)
  /\ sub' = [sub EXCEPT ![s] = "closed"]
  /\ closing' = [closing EXCEPT ![k] = @ \ {s}]
  /\ UNCHANGED <<hub, registered, publishing, handler, channels, closer, history>>

CloseReturns(k) ==
  /\ closer[k] = "busy" /\ closing[k] = {}
  /\ closer' = [closer EXCEPT ![k] = "back"]
  /\ UNCHANGED <<hub, registered, publishing, sub, handler, channels, closing, history>>

-----------------------------------------------------------------------------
Publish(p) == Send(p) \/ \E s \in Streams : Skip(p, s) \/ Test(p, s)
Cancel(s)  == CancelDelete(s) \/ CancelClose(s)

\* All may be over: the hub is closed and nobody is in it.
Finished ==
  /\ \A k \in Closers : closer[k] = "back"
  /\ \A s \in Streams : handler[s] = "gone"
  /\ \A p \in Publishers : Returned(p)
  /\ UNCHANGED vars

Next ==
  \/ \E p \in Publishers : Publish(p) \/ \E kind \in Kinds : Ingest(p, kind)
  \/ \E s \in Streams : Subscribe(s) \/ Receive(s) \/ Leave(s) \/ Cancel(s)
  \/ \E k \in Closers : CloseBegin(k) \/ CloseReturns(k) \/ \E s \in Streams : CloseStream(k, s)
  \/ Finished

Spec == Init /\ [][Next]_vars

(***************************************************************************)
(* Goroutines in Ingest, cancel and Close run; a writer that waits for a   *)
(* sync.RWMutex is not passed over for ever.  Nothing makes a handler      *)
(* read: a slow client may never come back to its channel.                 *)
(***************************************************************************)
FairSpec ==
  /\ Spec
  /\ \A p \in Publishers : WF_vars(Publish(p))
  /\ \A s \in Streams : WF_vars(CancelDelete(s)) /\ SF_vars(CancelClose(s))
  /\ \A k \in Closers : /\ WF_vars(CloseReturns(k))
                        /\ \A s \in Streams : SF_vars(CloseStream(k, s))

-----------------------------------------------------------------------------
(* Properties *)

\* The types of the control state; EntriesAccounted says what the channels and
\* the histories hold.
TypeOK ==
  /\ hub \in {"open", "closed"}
  /\ registered \subseteq Streams
  /\ todo \in [Publishers -> SUBSET Streams]
  /\ to \in [Publishers -> Streams \union {Nobody}]
  /\ sub \in [Streams -> {"none", "open", "closed"}]
  /\ handler \in [Streams -> {"out", "reading", "leaving", "deleted", "gone"}]
  /\ closer \in [Closers -> {"out", "busy", "back"}]
  /\ closing \in [Closers -> SUBSET Streams]

\* Nobody sends on a closed channel: between the test of sub.closed and the
\* send neither cancel nor Close can close it.
NoSendOnClosed == \A p \in Publishers : to[p] # Nobody => sub[to[p]] = "open"

\* Streams do not leak: one whose handler is gone is closed and out of the
\* map, and once the hub is closed every stream still open is about to be
\* closed by Close or by its own handler.
StreamsReleased ==
  /\ \A s \in Streams : handler[s] = "gone" => s \notin registered /\ sub[s] = "closed"
  /\ \A s \in Streams :
       hub = "closed" /\ sub[s] = "open" =>
         handler[s] = "deleted" \/ \E k \in Closers : s \in closing[k]

\* What a stream was due: the entries its filter lets through, of those
\* ingested while it was in the map.
Due(s) ==
  LET last == IF s \in registered THEN Len(ingested) ELSE until[s]
  IN  {n \in since[s] + 1 .. last : ingested[n] \in Wanted[s]}

Delivered(s) == got[s] \o ch[s]

\* Entries a publisher has still to hand to the stream.
OnTheWay(s) == {entry[p] : p \in {q \in Publishers : s \in todo[q] \/ to[q] = s}}

\* An open stream has, once each, all the entries it was due, but for those
\* on the way and those its full channel had no room for; and droppedEvents
\* counts just these.
EntriesAccounted ==
  /\ \A s \in Streams : sub[s] = "open" =>
       LET seen == {Delivered(s)[i] : i \in DOMAIN Delivered(s)}
       IN  /\ Due(s) \subseteq seen \union lost[s] \union OnTheWay(s)
           /\ seen \subseteq Due(s) \ lost[s]
           /\ Cardinality(seen) = Len(Delivered(s))
  /\ dropped = Cardinality(UNION {{s} \X lost[s] : s \in Streams})

\* Ingest returns although no client ever reads its stream.
IngestReturns == \A p \in Publishers : ~ Returned(p) ~> Returned(p)

\* A stream that is open when the hub closes is closed in the end, so that
\* its handler can return.
StreamsEnd == \A s \in Streams : (hub = "closed" /\ sub[s] = "open") ~> sub[s] = "closed"
=============================================================================
