-------------------------- MODULE HubStream_proofs --------------------------
(***************************************************************************)
(* For any number of publishers, streams and Close calls: nobody sends on  *)
(* a closed channel, no stream leaks, and no entry is lost or repeated     *)
(* without being counted.  The first invariant says where a subscriber is  *)
(* in its life: registered and open, then out of the map with someone      *)
(* about to close it, then closed.  The second follows an entry from       *)
(* Ingest to the channel of a stream or to the account of the dropped.     *)
(***************************************************************************)
EXTENDS HubStream, SequenceTheorems, FiniteSetTheorems, TLAPS

\* A stream has no subscriber before its handler has subscribed.
Unborn ==
  \A s \in Streams : handler[s] = "out" =>
    sub[s] = "none" /\ s \notin registered /\ \A k \in Closers : s \notin closing[k]

\* A subscriber in the map is open and its handler has not cancelled it.
MapIsOpen ==
  \A s \in registered : sub[s] = "open" /\ handler[s] \in {"reading", "leaving"}

\* One that is open is in the map, or cancel or Close will close it.
OpenIsOwned ==
  \A s \in Streams : sub[s] = "open" =>
    s \in registered \/ handler[s] = "deleted" \/ \E k \in Closers : s \in closing[k]

\* A handler leaves a closed channel behind, a closed hub an empty map.
LeftClosed ==
  /\ \A s \in Streams : handler[s] = "gone" => sub[s] = "closed"
  /\ hub = "closed" => registered = {}

\* Only Close, once it has emptied the map, has streams to close.
ClosingAfterClose ==
  \A k \in Closers : closing[k] # {} => closer[k] # "out" /\ hub = "closed"

IndInv ==
  /\ TypeOK /\ Unborn /\ MapIsOpen /\ OpenIsOwned /\ LeftClosed /\ ClosingAfterClose
  /\ NoSendOnClosed

LEMMA InitInd == Init => IndInv
  BY HubStreamAssumption
     DEF Init, IndInv, TypeOK, Unborn, MapIsOpen, OpenIsOwned, LeftClosed, ClosingAfterClose,
         NoSendOnClosed

\* The steps of a publisher change no stream.
LEMMA PublishStep ==
  ASSUME IndInv, NEW p \in Publishers, Publish(p) \/ \E kind \in Kinds : Ingest(p, kind)
  PROVE  IndInv'
<1> USE DEF IndInv
<1>1. /\ hub' = hub /\ registered' = registered /\ sub' = sub /\ handler' = handler
      /\ closing' = closing /\ closer' = closer
  BY DEF Publish, Skip, Test, Send, Ingest
<1>2. TypeOK' /\ NoSendOnClosed'
  <2>1. CASE \E kind \in Kinds : Ingest(p, kind)
    BY <1>1, <2>1 DEF Ingest, TypeOK, NoSendOnClosed
  <2>2. ASSUME NEW s \in Streams, Skip(p, s)
        PROVE  TypeOK' /\ NoSendOnClosed'
    BY <1>1, <2>2 DEF Skip, TypeOK, NoSendOnClosed
  <2>3. ASSUME NEW s \in Streams, Test(p, s)
        PROVE  TypeOK' /\ NoSendOnClosed'
    BY <1>1, <2>3 DEF Test, TypeOK, NoSendOnClosed
  <2>4. CASE Send(p)
    BY <1>1, <2>4 DEF Send, TypeOK, NoSendOnClosed
  <2> QED
    BY <2>1, <2>2, <2>3, <2>4 DEF Publish
<1> QED
  BY <1>1, <1>2 DEF ClosingAfterClose, Unborn, MapIsOpen, OpenIsOwned, LeftClosed

\* The steps of a handler.  Nobody can be about to send to a stream that
\* subscribes, nor to one that cancel closes.
LEMMA HandlerStep ==
  ASSUME IndInv, NEW s \in Streams, Subscribe(s) \/ Receive(s) \/ Leave(s) \/ Cancel(s)
  PROVE  IndInv'
<1> USE DEF IndInv
<1>1. CASE Subscribe(s)
  <2>1. \A p \in Publishers : to[p] # s
    BY <1>1, HubStreamAssumption DEF Subscribe, Unborn, NoSendOnClosed
  <2>2. to' = to /\ todo' = todo /\ closing' = closing /\ hub' = hub /\ closer' = closer
    BY <1>1 DEF Subscribe, publishing
  <2>3. TypeOK' /\ NoSendOnClosed'
    BY <1>1, <2>1, <2>2 DEF Subscribe, TypeOK, NoSendOnClosed
  <2>4. Unborn' /\ MapIsOpen' /\ OpenIsOwned' /\ LeftClosed' /\ ClosingAfterClose'
    BY <1>1, <2>2 DEF Subscribe, TypeOK, Unborn, MapIsOpen, OpenIsOwned, LeftClosed,
          ClosingAfterClose
  <2> QED
    BY <2>3, <2>4
<1>2. CASE Receive(s)
  BY <1>2 DEF Receive, publishing, TypeOK, Unborn, MapIsOpen, OpenIsOwned, LeftClosed,
              ClosingAfterClose, NoSendOnClosed
<1>3. CASE Leave(s)
  BY <1>3 DEF Leave, publishing, TypeOK, Unborn, MapIsOpen, OpenIsOwned, LeftClosed,
              ClosingAfterClose, NoSendOnClosed
<1>4. CASE CancelDelete(s)
  BY <1>4 DEF CancelDelete, publishing, TypeOK, Unborn, MapIsOpen, OpenIsOwned, LeftClosed,
              ClosingAfterClose, NoSendOnClosed
<1>5. CASE CancelClose(s)
  <2>1. to' = to /\ todo' = todo /\ closing' = closing /\ hub' = hub /\ registered' = registered
        /\ closer' = closer
    BY <1>5 DEF CancelClose, publishing
  <2>2. s \notin registered
    BY <1>5 DEF CancelClose, MapIsOpen
  <2>3. TypeOK' /\ NoSendOnClosed'
    BY <1>5, <2>1 DEF CancelClose, Unread, TypeOK, NoSendOnClosed
  <2>4. Unborn' /\ MapIsOpen' /\ OpenIsOwned' /\ LeftClosed' /\ ClosingAfterClose'
    BY <1>5, <2>1, <2>2 DEF CancelClose, TypeOK, Unborn, MapIsOpen, OpenIsOwned, LeftClosed,
          ClosingAfterClose
  <2> QED
    BY <2>3, <2>4
<1> QED
  BY <1>1, <1>2, <1>3, <1>4, <1>5 DEF Cancel

\* The steps of Close: it takes the whole map before it closes any channel.
LEMMA CloseStep ==
  ASSUME IndInv, NEW k \in Closers,
         CloseBegin(k) \/ CloseReturns(k) \/ \E s \in Streams : CloseStream(k, s)
  PROVE  IndInv'
<1> USE DEF IndInv
<1>1. CASE CloseBegin(k)
  <2>1. to' = to /\ todo' = todo /\ sub' = sub /\ handler' = handler /\ hub' = "closed"
    BY <1>1 DEF CloseBegin, publishing, TypeOK
  <2>2. CASE hub = "open"
    <3>1. closing[k] = {} /\ closing' = [closing EXCEPT ![k] = registered]
      BY <1>1, <2>2 DEF CloseBegin, ClosingAfterClose
    <3> QED
      BY <1>1, <2>1, <2>2, <3>1 DEF CloseBegin, TypeOK, Unborn, MapIsOpen, OpenIsOwned, LeftClosed,
                              ClosingAfterClose, NoSendOnClosed
  <2>3. CASE hub # "open"
    BY <1>1, <2>1, <2>3 DEF CloseBegin, TypeOK, Unborn, MapIsOpen, OpenIsOwned, LeftClosed,
                            ClosingAfterClose, NoSendOnClosed
  <2> QED
    BY <2>2, <2>3
<1>2. CASE CloseReturns(k)
  BY <1>2 DEF CloseReturns, publishing, TypeOK, Unborn, MapIsOpen, OpenIsOwned, LeftClosed,
              ClosingAfterClose, NoSendOnClosed
<1>3. ASSUME NEW s \in Streams, CloseStream(k, s)
      PROVE  IndInv'
  <2>1. to' = to /\ todo' = todo /\ hub' = hub /\ registered' = registered /\ handler' = handler
        /\ closer' = closer
    BY <1>3 DEF CloseStream, publishing
  <2>2. registered = {}
    BY <1>3 DEF CloseStream, ClosingAfterClose, LeftClosed
  <2>3. TypeOK' /\ NoSendOnClosed'
    BY <1>3, <2>1 DEF CloseStream, Unread, TypeOK, NoSendOnClosed
  <2>4. Unborn' /\ MapIsOpen' /\ OpenIsOwned' /\ LeftClosed' /\ ClosingAfterClose'
    BY <1>3, <2>1, <2>2 DEF CloseStream, TypeOK, Unborn, MapIsOpen, OpenIsOwned, LeftClosed,
          ClosingAfterClose
  <2> QED
    BY <2>3, <2>4
<1> QED
  BY <1>1, <1>2, <1>3

LEMMA IndStep ==
  ASSUME IndInv, [Next]_vars
  PROVE  IndInv'
<1>1. CASE UNCHANGED vars
  BY <1>1 DEF vars, publishing, IndInv, TypeOK, Unborn, MapIsOpen, OpenIsOwned, LeftClosed,
              ClosingAfterClose, NoSendOnClosed
<1> QED
  BY <1>1, PublishStep, HandlerStep, CloseStep DEF Next, Finished

LEMMA Always == Spec => []IndInv
  BY InitInd, IndStep, PTL DEF Spec

\* The control state has its types for any number of goroutines.
THEOREM TypeCorrect == Spec => []TypeOK
<1>1. IndInv => TypeOK
  BY DEF IndInv
<1> QED
  BY <1>1, Always, PTL

\* Between the test of sub.closed and the send neither cancel nor Close
\* closes the channel, however many goroutines there are.
THEOREM SendsAreSafe == Spec => []NoSendOnClosed
<1>1. IndInv => NoSendOnClosed
  BY DEF IndInv
<1> QED
  BY <1>1, Always, PTL

\* No stream leaks: not from a handler that is gone, nor over Close.
THEOREM StreamsAreReleased == Spec => []StreamsReleased
<1>1. IndInv => StreamsReleased
  BY DEF IndInv, TypeOK, MapIsOpen, OpenIsOwned, LeftClosed, StreamsReleased
<1> QED
  BY <1>1, Always, PTL

-----------------------------------------------------------------------------
(* No entry is lost without being counted *)

FlowTypes ==
  /\ ingested \in Seq(Kinds) /\ entry \in [Publishers -> Nat]
  /\ since \in [Streams -> Nat] /\ until \in [Streams -> Nat]
  /\ ch \in [Streams -> Seq(Nat)] /\ got \in [Streams -> Seq(Nat)]
  /\ lost \in [Streams -> SUBSET Nat] /\ dropped \in Nat

\* The publishers that are in Ingest hand out different entries.
EntriesApart ==
  \A p \in Publishers : ~ Returned(p) =>
    /\ entry[p] \in 1 .. Len(ingested)
    /\ \A q \in Publishers : ~ Returned(q) /\ entry[q] = entry[p] => q = p

\* Nothing has reached a stream nobody has subscribed to.
Untouched ==
  \A s \in Streams : sub[s] = "none" =>
    /\ ch[s] = <<>> /\ got[s] = <<>> /\ lost[s] = {}
    /\ \A p \in Publishers : s \notin todo[p] /\ to[p] # s

\* The last entry ingested while the stream was in the map.
LastDue(s) == IF s \in registered THEN Len(ingested) ELSE until[s]

Seen(s) == {Delivered(s)[i] : i \in DOMAIN Delivered(s)}

\* An open stream has got, lost or is still to be handed every entry it is
\* due, each of them in one way only.
Accounted(s) ==
  /\ since[s] <= LastDue(s) /\ LastDue(s) <= Len(ingested)
  /\ Due(s) \subseteq Seen(s) \union lost[s] \union OnTheWay(s)
  /\ Seen(s) \subseteq Due(s) \ lost[s]
  /\ IsFiniteSet(Seen(s)) /\ Cardinality(Seen(s)) = Len(Delivered(s))
  /\ lost[s] \subseteq 1 .. Len(ingested)
  /\ \A p \in Publishers : s \in todo[p] \/ to[p] = s =>
       entry[p] \in since[s] + 1 .. LastDue(s) /\ entry[p] \notin Seen(s) \union lost[s]
  /\ \A p \in Publishers : to[p] = s => ingested[entry[p]] \in Wanted[s] /\ s \notin todo[p]

Lost == UNION {{s} \X lost[s] : s \in Streams}

FlowInv ==
  /\ FlowTypes /\ EntriesApart /\ Untouched
  /\ \A s \in Streams : sub[s] = "open" => Accounted(s)
  /\ IsFiniteSet(Lost) /\ dropped = Cardinality(Lost)

LEMMA DeliveredType ==
  ASSUME FlowTypes, NEW s \in Streams
  PROVE  /\ ch[s] \in Seq(Nat) /\ got[s] \in Seq(Nat) /\ Delivered(s) \in Seq(Nat)
         /\ Len(Delivered(s)) \in Nat /\ DOMAIN Delivered(s) = 1 .. Len(Delivered(s))
         /\ lost[s] \subseteq Nat /\ since[s] \in Nat /\ until[s] \in Nat
         /\ Len(ingested) \in Nat /\ LastDue(s) \in Nat
<1>1. ch[s] \in Seq(Nat) /\ got[s] \in Seq(Nat) /\ lost[s] \subseteq Nat /\ since[s] \in Nat
      /\ until[s] \in Nat /\ ingested \in Seq(Kinds)
  BY DEF FlowTypes
<1>2. Delivered(s) \in Seq(Nat)
  BY <1>1, ConcatProperties DEF Delivered
<1> QED
  BY <1>1, <1>2, LenProperties DEF LastDue

\* A stream for which a step moves nothing stays accounted for.
LEMMA SameStream ==
  ASSUME NEW t \in Streams, Accounted(t), ingested' = ingested, since'[t] = since[t],
         lost'[t] = lost[t], Delivered(t)' = Delivered(t), LastDue(t)' = LastDue(t),
         \A p \in Publishers :
           /\ entry'[p] = entry[p]
           /\ t \in todo'[p] \/ to'[p] = t <=> t \in todo[p] \/ to[p] = t
           /\ to'[p] = t => ingested[entry[p]] \in Wanted[t] /\ t \notin todo'[p]
  PROVE  Accounted(t)'
<1>1. Seen(t)' = Seen(t)
  BY DEF Seen
<1>2. Due(t)' = Due(t)
  BY DEF Due, LastDue
<1>3. OnTheWay(t)' = OnTheWay(t)
  BY DEF OnTheWay
<1>4. \A p \in Publishers : t \in todo'[p] \/ to'[p] = t =>
        /\ entry'[p] \in since'[t] + 1 .. LastDue(t)'
        /\ entry'[p] \notin Seen(t)' \union lost'[t]
  BY <1>1 DEF Accounted
<1> QED
  BY <1>1, <1>2, <1>3, <1>4 DEF Accounted

\* A step that touches no channel and no publisher.
LEMMA QuietFlow ==
  ASSUME FlowInv, UNCHANGED <<ingested, entry, todo, to, ch, got, lost, dropped, since>>,
         until' \in [Streams -> Nat],
         \A s \in Streams :
           /\ sub'[s] = "open" => sub[s] = "open" /\ LastDue(s)' = LastDue(s)
           /\ sub'[s] = "none" => sub[s] = "none"
  PROVE  FlowInv'
<1>1. FlowTypes' /\ EntriesApart' /\ Untouched' /\ Lost' = Lost
  BY DEF FlowInv, FlowTypes, EntriesApart, Returned, Untouched, Lost
<1>2. ASSUME NEW s \in Streams, sub'[s] = "open"
      PROVE  Accounted(s)'
  <2>1. Accounted(s) /\ LastDue(s)' = LastDue(s) /\ Delivered(s)' = Delivered(s)
    BY <1>2 DEF FlowInv, Delivered
  <2>2. \A p \in Publishers : to[p] = s => ingested[entry[p]] \in Wanted[s] /\ s \notin todo[p]
    BY <2>1 DEF Accounted
  <2> QED
    BY <2>1, <2>2, SameStream
<1> QED
  BY <1>1, <1>2 DEF FlowInv

LEMMA InitFlow == Init => FlowInv
<1> SUFFICES ASSUME Init PROVE FlowInv
  OBVIOUS
<1>1. <<>> \in Seq(Nat) /\ <<>> \in Seq(Kinds)
  BY EmptySeq
<1>2. FlowTypes
  BY <1>1 DEF Init, FlowTypes
<1>3. Untouched
  BY HubStreamAssumption DEF Init, Untouched
<1>4. EntriesApart /\ \A s \in Streams : sub[s] # "open"
  BY DEF Init, EntriesApart, Returned
<1>5. Lost = {} /\ dropped = 0
  BY DEF Init, Lost
<1> QED
  BY <1>2, <1>3, <1>4, <1>5, FS_EmptySet DEF FlowInv

\* A new entry is due to the streams in the map, and on its way to them.
LEMMA IngestFlow ==
  ASSUME IndInv, FlowInv, NEW p \in Publishers, NEW kind \in Kinds, Ingest(p, kind)
  PROVE  FlowInv'
<1> DEFINE new == Len(ingested) + 1
<1>1. /\ todo[p] = {} /\ to[p] = Nobody /\ to' = to /\ sub' = sub /\ registered' = registered
      /\ UNCHANGED <<ch, got, lost, dropped, since, until>>
      /\ ingested' = Append(ingested, kind)
  BY DEF Ingest, Returned, channels
<1>2. /\ ingested' \in Seq(Kinds) /\ Len(ingested') = new /\ Len(ingested) \in Nat /\ new \in Nat
      /\ \A n \in 1 .. Len(ingested) : ingested'[n] = ingested[n]
  <2>1. ingested \in Seq(Kinds)
    BY DEF FlowInv, FlowTypes
  <2> QED
    BY <1>1, <2>1, AppendProperties, LenProperties
<1>3. /\ entry' = [entry EXCEPT ![p] = new] /\ todo' = [todo EXCEPT ![p] = registered]
      /\ entry \in [Publishers -> Nat] /\ todo \in [Publishers -> SUBSET Streams]
  BY <1>2 DEF Ingest, FlowInv, FlowTypes, IndInv, TypeOK
<1>4. FlowTypes'
  BY <1>1, <1>2, <1>3 DEF FlowInv, FlowTypes
<1>5. EntriesApart'
  <2>1. \A q \in Publishers : ~ Returned(q) => entry[q] \in 1 .. Len(ingested)
    BY DEF FlowInv, EntriesApart
  <2>2. \A q \in Publishers : q # p => (Returned(q)' <=> Returned(q)) /\ entry'[q] = entry[q]
    BY <1>1, <1>3 DEF Returned
  <2>3. entry'[p] = new
    BY <1>3
  <2> QED
    BY <1>2, <2>1, <2>2, <2>3 DEF FlowInv, EntriesApart
<1>6. Untouched'
  BY <1>1, <1>3 DEF FlowInv, Untouched, IndInv, MapIsOpen
<1>7. ASSUME NEW s \in Streams, sub[s] = "open"
      PROVE  Accounted(s)'
  <2>1. /\ Accounted(s) /\ Delivered(s)' = Delivered(s) /\ Seen(s)' = Seen(s)
        /\ lost'[s] = lost[s] /\ since'[s] = since[s]
    BY <1>1, <1>7 DEF FlowInv, Delivered, Seen
  <2>2. /\ since[s] \in Nat /\ until[s] \in Nat /\ LastDue(s) \in Nat
        /\ since[s] <= LastDue(s) /\ LastDue(s) <= Len(ingested)
    BY <2>1, DeliveredType DEF Accounted, FlowInv
  <2>3. \A n \in since[s] + 1 .. LastDue(s) : ingested'[n] = ingested[n]
    BY <1>2, <2>2
  <2>4. /\ \A q \in Publishers : q # p => entry'[q] = entry[q] /\ todo'[q] = todo[q]
        /\ entry'[p] = new /\ todo'[p] = registered /\ to[p] # s
    BY <1>1, <1>3, HubStreamAssumption
  <2>5. OnTheWay(s) \subseteq OnTheWay(s)'
    BY <1>1, <2>4 DEF OnTheWay
  <2>6. \A q \in Publishers : to'[q] = s => ingested'[entry'[q]] \in Wanted[s] /\ s \notin todo'[q]
    BY <1>1, <2>1, <2>3, <2>4 DEF Accounted
  <2>7. CASE s \in registered
    <3>1. LastDue(s) = Len(ingested) /\ LastDue(s)' = new
      BY <1>1, <1>2, <2>7 DEF LastDue
    <3>2. Due(s)' = Due(s) \union (IF ingested'[new] \in Wanted[s] THEN {new} ELSE {})
      <4>1. Due(s) = {n \in since[s] + 1 .. Len(ingested) : ingested[n] \in Wanted[s]}
        BY <2>7 DEF Due
      <4>2. Due(s)' = {n \in since[s] + 1 .. new : ingested'[n] \in Wanted[s]}
        BY <1>1, <1>2, <2>1, <2>7 DEF Due
      <4>3. since[s] + 1 .. new = (since[s] + 1 .. Len(ingested)) \union {new}
        BY <1>2, <2>2, <3>1
      <4> QED
        BY <2>3, <3>1, <4>1, <4>2, <4>3
    <3>3. new \in OnTheWay(s)'
      BY <2>4, <2>7 DEF OnTheWay
    <3>4. new \notin Seen(s) \union lost[s]
      <4>1. Seen(s) \subseteq since[s] + 1 .. Len(ingested) /\ lost[s] \subseteq 1 .. Len(ingested)
        BY <2>1, <2>7 DEF Accounted, Due
      <4> QED
        BY <1>2, <2>2, <4>1
    <3>5. new \in since[s] + 1 .. new /\ since[s] + 1 .. LastDue(s) \subseteq since[s] + 1 .. new
      BY <1>2, <2>2, <3>1
    <3>6. \A q \in Publishers : s \in todo'[q] \/ to'[q] = s =>
            /\ entry'[q] \in since'[s] + 1 .. LastDue(s)'
            /\ entry'[q] \notin Seen(s)' \union lost'[s]
      BY <1>1, <2>1, <2>4, <3>1, <3>4, <3>5 DEF Accounted
    <3>7. /\ since'[s] <= LastDue(s)' /\ LastDue(s)' <= Len(ingested')
          /\ lost'[s] \subseteq 1 .. Len(ingested')
      <4>1. lost[s] \subseteq 1 .. Len(ingested)
        BY <2>1 DEF Accounted
      <4> QED
        BY <1>2, <2>1, <2>2, <3>1, <4>1
    <3>8. Due(s)' \subseteq Seen(s)' \union lost'[s] \union OnTheWay(s)'
      BY <2>1, <2>5, <3>2, <3>3 DEF Accounted
    <3>9. Seen(s)' \subseteq Due(s)' \ lost'[s]
      BY <2>1, <3>2 DEF Accounted
    <3> QED
      BY <2>1, <2>6, <3>6, <3>7, <3>8, <3>9 DEF Accounted
  <2>8. CASE s \notin registered
    <3>1. LastDue(s)' = LastDue(s) /\ LastDue(s) = until[s]
      BY <1>1, <2>8 DEF LastDue
    <3>2. Due(s)' = Due(s)
      <4>1. Due(s) = {n \in since[s] + 1 .. until[s] : ingested[n] \in Wanted[s]}
        BY <2>8 DEF Due
      <4>2. Due(s)' = {n \in since[s] + 1 .. until[s] : ingested'[n] \in Wanted[s]}
        BY <1>1, <2>1, <2>8 DEF Due
      <4> QED
        BY <2>3, <3>1, <4>1, <4>2
    <3>3. \A q \in Publishers : s \in todo'[q] \/ to'[q] = s =>
            /\ entry'[q] \in since'[s] + 1 .. LastDue(s)'
            /\ entry'[q] \notin Seen(s)' \union lost'[s]
      BY <1>1, <2>1, <2>4, <2>8, <3>1 DEF Accounted
    <3>4. /\ since'[s] <= LastDue(s)' /\ LastDue(s)' <= Len(ingested')
          /\ lost'[s] \subseteq 1 .. Len(ingested')
      <4>1. lost[s] \subseteq 1 .. Len(ingested)
        BY <2>1 DEF Accounted
      <4> QED
        BY <1>2, <2>1, <2>2, <3>1, <4>1
    <3> QED
      BY <2>1, <2>5, <2>6, <3>2, <3>3, <3>4 DEF Accounted
  <2> QED
    BY <2>7, <2>8
<1> QED
  BY <1>1, <1>4, <1>5, <1>6, <1>7 DEF FlowInv, Lost

\* An entry the filter does not let through is not due; one that is let
\* through is still to be handed to an open stream once sub.closed is tested.
LEMMA TestFlow ==
  ASSUME IndInv, FlowInv, NEW p \in Publishers, NEW s \in Streams, Skip(p, s) \/ Test(p, s)
  PROVE  FlowInv'
<1>1. /\ to[p] = Nobody /\ s \in todo[p] /\ entry' = entry /\ sub' = sub /\ registered' = registered
      /\ UNCHANGED <<ingested, ch, got, lost, dropped, since, until>>
      /\ todo' = [todo EXCEPT ![p] = @ \ {s}]
      /\ todo \in [Publishers -> SUBSET Streams]
      /\ to \in [Publishers -> Streams \union {Nobody}]
  BY DEF Skip, Test, channels, history, IndInv, TypeOK
<1>2. /\ \A q \in Publishers : q # p => todo'[q] = todo[q] /\ to'[q] = to[q]
      /\ todo'[p] = todo[p] \ {s}
      /\ to'[p] = Nobody \/ (to'[p] = s /\ sub[s] = "open" /\ ingested[entry[p]] \in Wanted[s])
  BY <1>1 DEF Skip, Test
<1>3. ~ Returned(p) /\ \A q \in Publishers : ~ Returned(q)' => ~ Returned(q)
  BY <1>1, <1>2 DEF Returned
<1>4. FlowTypes' /\ EntriesApart' /\ Lost' = Lost
  BY <1>1, <1>3 DEF FlowInv, FlowTypes, EntriesApart, Lost
<1>5. Untouched'
  BY <1>1, <1>2, HubStreamAssumption DEF FlowInv, Untouched
<1>6. ASSUME NEW t \in Streams, sub[t] = "open"
      PROVE  Accounted(t)'
  <2>1. Accounted(t) /\ Delivered(t)' = Delivered(t) /\ LastDue(t)' = LastDue(t)
    BY <1>1, <1>6 DEF FlowInv, Delivered, LastDue
  <2>2. \A q \in Publishers : to'[q] = t => ingested[entry[q]] \in Wanted[t] /\ t \notin todo'[q]
    BY <1>1, <1>2, <2>1, HubStreamAssumption DEF Accounted
  <2>3. CASE t # s \/ to'[p] = s
    <3>1. \A q \in Publishers : t \in todo'[q] \/ to'[q] = t <=> t \in todo[q] \/ to[q] = t
      BY <1>1, <1>2, <2>3, HubStreamAssumption
    <3> QED
      BY <1>1, <2>1, <2>2, <3>1, SameStream
  <2>4. CASE t = s /\ to'[p] = Nobody
    <3>1. ingested[entry[p]] \notin Wanted[s]
      BY <1>1, <1>6, <2>4, HubStreamAssumption DEF Skip, Test
    <3>2. Due(s)' = Due(s) /\ Seen(s)' = Seen(s) /\ entry[p] \notin Due(s)
      BY <1>1, <2>1, <2>4, <3>1 DEF Due, LastDue, Seen
    <3>3. OnTheWay(s) \ {entry[p]} \subseteq OnTheWay(s)'
      BY <1>1, <1>2 DEF OnTheWay
    <3>4. Due(s)' \subseteq Seen(s)' \union lost'[s] \union OnTheWay(s)'
      BY <1>1, <2>1, <2>4, <3>2, <3>3 DEF Accounted
    <3>5. \A q \in Publishers : s \in todo'[q] \/ to'[q] = s => s \in todo[q] \/ to[q] = s
      BY <1>1, <1>2, <2>4, HubStreamAssumption
    <3>6. \A q \in Publishers : s \in todo'[q] \/ to'[q] = s =>
            /\ entry'[q] \in since'[s] + 1 .. LastDue(s)'
            /\ entry'[q] \notin Seen(s)' \union lost'[s]
      BY <1>1, <2>1, <2>4, <3>2, <3>5 DEF Accounted
    <3> QED
      BY <1>1, <2>1, <2>2, <2>4, <3>2, <3>4, <3>6 DEF Accounted
  <2> QED
    BY <1>2, <2>3, <2>4
<1> QED
  BY <1>1, <1>4, <1>5, <1>6 DEF FlowInv

\* What follows in the channel follows in what the stream has been given.
LEMMA ConcatAppend ==
  ASSUME NEW a \in Seq(Nat), NEW b \in Seq(Nat), NEW e \in Nat
  PROVE  /\ Len(a \o b) \in Nat /\ Len(a \o Append(b, e)) = Len(a \o b) + 1
         /\ \A i \in 1 .. Len(a \o b) : (a \o Append(b, e))[i] = (a \o b)[i]
         /\ (a \o Append(b, e))[Len(a \o b) + 1] = e
<1>1. /\ Append(b, e) \in Seq(Nat) /\ Len(Append(b, e)) = Len(b) + 1 /\ Append(b, e)[Len(b) + 1] = e
      /\ \A i \in 1 .. Len(b) : Append(b, e)[i] = b[i]
      /\ Len(a) \in Nat /\ Len(b) \in Nat
  BY AppendProperties, LenProperties
<1>2. /\ Len(a \o b) = Len(a) + Len(b)
      /\ \A i \in 1 .. Len(a) + Len(b) : (a \o b)[i] = IF i <= Len(a) THEN a[i] ELSE b[i - Len(a)]
  BY ConcatProperties
<1>3. /\ Len(a \o Append(b, e)) = Len(a) + (Len(b) + 1)
      /\ \A i \in 1 .. Len(a) + (Len(b) + 1) :
           (a \o Append(b, e))[i] = IF i <= Len(a) THEN a[i] ELSE Append(b, e)[i - Len(a)]
  <2>1. ASSUME NEW c \in Seq(Nat), Len(c) = Len(b) + 1
        PROVE  /\ Len(a \o c) = Len(a) + (Len(b) + 1)
               /\ \A i \in 1 .. Len(a) + (Len(b) + 1) :
                    (a \o c)[i] = IF i <= Len(a) THEN a[i] ELSE c[i - Len(a)]
    <3>1. /\ Len(a \o c) = Len(a) + Len(c)
          /\ \A i \in 1 .. Len(a) + Len(c) :
               (a \o c)[i] = IF i <= Len(a) THEN a[i] ELSE c[i - Len(a)]
      BY ConcatProperties
    <3> QED
      BY <2>1, <3>1
  <2> QED
    BY <1>1, <2>1
<1>4. ASSUME NEW i \in 1 .. Len(a) + Len(b)
      PROVE  (a \o Append(b, e))[i] = (a \o b)[i]
  <2>1. i \in 1 .. Len(a) + (Len(b) + 1) /\ (i <= Len(a) \/ i - Len(a) \in 1 .. Len(b))
    BY <1>1
  <2> QED
    BY <1>1, <1>2, <1>3, <2>1
<1>5. (a \o Append(b, e))[Len(a) + Len(b) + 1] = e
  <2>1. /\ Len(a) + Len(b) + 1 \in 1 .. Len(a) + (Len(b) + 1) /\ ~ (Len(a) + Len(b) + 1 <= Len(a))
        /\ Len(a) + Len(b) + 1 - Len(a) = Len(b) + 1
    BY <1>1
  <2> QED
    BY <1>1, <1>3, <2>1
<1>6. Len(a) + Len(b) \in Nat /\ Len(a) + (Len(b) + 1) = Len(a) + Len(b) + 1
  BY <1>1
<1> QED
  BY <1>2, <1>3, <1>4, <1>5, <1>6

\* The entry goes into the channel, or into the account of what was dropped.
LEMMA SendFlow ==
  ASSUME IndInv, FlowInv, NEW p \in Publishers, Send(p)
  PROVE  FlowInv'
<1>0. PICK s \in Streams, e \in Nat : to[p] = s /\ entry[p] = e
  BY DEF Send, IndInv, TypeOK, FlowInv, FlowTypes
<1>1. /\ s # Nobody /\ sub[s] = "open" /\ sub' = sub /\ entry' = entry /\ todo' = todo
      /\ UNCHANGED <<ingested, got, since, until, registered>> /\ to' = [to EXCEPT ![p] = Nobody]
      /\ to \in [Publishers -> Streams \union {Nobody}] /\ to[p] = s /\ entry[p] = e
  BY <1>0 DEF Send, history, IndInv, TypeOK, NoSendOnClosed
<1>2. Accounted(s) /\ FlowTypes
  BY <1>1 DEF FlowInv
<1>3. (\A q \in Publishers : q # p => to'[q] = to[q]) /\ to'[p] = Nobody
  BY <1>1
<1>4. ~ Returned(p) /\ \A q \in Publishers : ~ Returned(q)' => ~ Returned(q)
  BY <1>1, <1>3, HubStreamAssumption DEF Returned
<1>5. EntriesApart'
  BY <1>1, <1>4 DEF FlowInv, EntriesApart
<1>6. /\ e \in Due(s) /\ e \notin Seen(s) \union lost[s] /\ s \notin todo[p]
      /\ e \in 1 .. Len(ingested)
  <2>1. e \in since[s] + 1 .. LastDue(s) /\ ingested[e] \in Wanted[s]
    BY <1>1, <1>2 DEF Accounted
  <2>2. ~ Returned(p) => e \in 1 .. Len(ingested)
    BY <1>1 DEF FlowInv, EntriesApart
  <2> QED
    BY <1>1, <1>2, <1>4, <2>1, <2>2 DEF Accounted, Due, LastDue
<1>7. \A q \in Publishers : s \in todo'[q] \/ to'[q] = s =>
        (s \in todo[q] \/ to[q] = s) /\ q # p /\ entry[q] # e
  <2>1. \A q \in Publishers : s \in todo[q] \/ to[q] = s => ~ Returned(q)
    BY <1>1, HubStreamAssumption DEF Returned
  <2> QED
    BY <1>1, <1>3, <1>4, <1>6, <2>1, HubStreamAssumption DEF FlowInv, EntriesApart
<1>8. Due(s)' = Due(s) /\ LastDue(s)' = LastDue(s)
  BY <1>1 DEF Due, LastDue
<1>9. OnTheWay(s) \ {e} \subseteq OnTheWay(s)'
  BY <1>1, <1>3 DEF OnTheWay
<1>10. ASSUME NEW t \in Streams, t # s, sub[t] = "open", ch'[t] = ch[t], lost'[t] = lost[t]
       PROVE  Accounted(t)'
  <2>1. Accounted(t) /\ Delivered(t)' = Delivered(t) /\ LastDue(t)' = LastDue(t)
    BY <1>1, <1>10 DEF FlowInv, Delivered, LastDue
  <2>2. \A q \in Publishers :
          /\ to'[q] = t => ingested[entry[q]] \in Wanted[t] /\ t \notin todo'[q]
          /\ t \in todo'[q] \/ to'[q] = t <=> t \in todo[q] \/ to[q] = t
    BY <1>1, <1>3, <1>10, <2>1, HubStreamAssumption DEF Accounted
  <2> QED
    BY <1>1, <1>10, <2>1, <2>2, SameStream
<1>11. \A q \in Publishers : to'[q] = s => ingested'[entry'[q]] \in Wanted[s] /\ s \notin todo'[q]
  BY <1>1, <1>2, <1>7 DEF Accounted
<1>12. \A q \in Publishers : s \in todo'[q] \/ to'[q] = s =>
         /\ entry'[q] \in since'[s] + 1 .. LastDue(s)'
         /\ entry'[q] \notin Seen(s) \union lost[s] \union {e}
  BY <1>1, <1>2, <1>7, <1>8 DEF Accounted
<1>13. /\ since'[s] <= LastDue(s)' /\ LastDue(s)' <= Len(ingested')
       /\ lost[s] \subseteq 1 .. Len(ingested')
  BY <1>1, <1>2, <1>8 DEF Accounted
<1>14. CASE Len(ch[s]) < ChanCap
  <2>1. ch' = [ch EXCEPT ![s] = Append(@, e)] /\ dropped' = dropped /\ lost' = lost
    BY <1>1, <1>14 DEF Send
  <2>2. /\ ch[s] \in Seq(Nat) /\ got[s] \in Seq(Nat) /\ Delivered(s) \in Seq(Nat)
        /\ Len(Delivered(s)) \in Nat /\ DOMAIN Delivered(s) = 1 .. Len(Delivered(s))
        /\ ch \in [Streams -> Seq(Nat)]
    BY <1>1, <1>2, DeliveredType DEF FlowTypes
  <2>3. ch'[s] = Append(ch[s], e) /\ (\A t \in Streams : t # s => ch'[t] = ch[t])
        /\ Append(ch[s], e) \in Seq(Nat)
    BY <1>1, <1>2, <2>1, <2>2, AppendProperties
  <2>4. FlowTypes'
    BY <1>1, <1>2, <2>1, <2>3 DEF FlowTypes
  <2>5. /\ Delivered(s)' = got[s] \o Append(ch[s], e)
        /\ Len(Delivered(s)') = Len(Delivered(s)) + 1
        /\ \A i \in 1 .. Len(Delivered(s)) : Delivered(s)'[i] = Delivered(s)[i]
        /\ Delivered(s)'[Len(Delivered(s)) + 1] = e
    <3>1. Delivered(s) = got[s] \o ch[s] /\ Delivered(s)' = got[s] \o Append(ch[s], e)
      BY <1>1, <2>3 DEF Delivered
    <3>2. PICK a \in Seq(Nat), b \in Seq(Nat) : a = got[s] /\ b = ch[s]
      BY <2>2
    <3>3. /\ Len(a \o Append(b, e)) = Len(a \o b) + 1
          /\ \A i \in 1 .. Len(a \o b) : (a \o Append(b, e))[i] = (a \o b)[i]
          /\ (a \o Append(b, e))[Len(a \o b) + 1] = e
      BY ConcatAppend
    <3>4. Delivered(s) = a \o b /\ Delivered(s)' = a \o Append(b, e)
      BY <3>1, <3>2
    <3> QED
      BY <3>1, <3>3, <3>4
  <2>6. DOMAIN Delivered(s)' = DOMAIN Delivered(s) \union {Len(Delivered(s)) + 1}
    <3>1. Delivered(s)' \in Seq(Nat)
      BY <1>2, <2>2, <2>3, <2>5, ConcatProperties
    <3>2. DOMAIN Delivered(s)' = 1 .. Len(Delivered(s)) + 1
      BY <2>5, <3>1, LenProperties
    <3> QED
      BY <2>2, <3>2
  <2>7. Seen(s)' = Seen(s) \union {e}
    BY <2>2, <2>5, <2>6 DEF Seen
  <2>8. /\ IsFiniteSet(Seen(s)') /\ Cardinality(Seen(s)') = Len(Delivered(s)')
    <3>1. IsFiniteSet(Seen(s)) /\ Cardinality(Seen(s)) = Len(Delivered(s))
      BY <1>2 DEF Accounted
    <3> QED
      BY <1>6, <2>5, <2>7, <3>1, FS_AddElement
  <2>9. Due(s)' \subseteq Seen(s)' \union lost'[s] \union OnTheWay(s)'
    BY <1>2, <1>8, <1>9, <2>1, <2>7 DEF Accounted
  <2>10. Seen(s)' \subseteq Due(s)' \ lost'[s]
    BY <1>2, <1>6, <1>8, <2>1, <2>7 DEF Accounted
  <2>11. Accounted(s)'
    BY <1>11, <1>12, <1>13, <2>1, <2>7, <2>8, <2>9, <2>10 DEF Accounted
  <2>12. \A t \in Streams : sub[t] = "open" => Accounted(t)'
    BY <1>10, <2>1, <2>3, <2>11
  <2>13. Untouched'
    BY <1>1, <1>3, <2>1, <2>3, HubStreamAssumption DEF FlowInv, Untouched
  <2> QED
    BY <1>1, <1>5, <2>1, <2>4, <2>12, <2>13 DEF FlowInv, Lost
<1>15. CASE ~ (Len(ch[s]) < ChanCap)
  <2>1. /\ dropped' = dropped + 1 /\ lost' = [lost EXCEPT ![s] = @ \union {e}] /\ ch' = ch
        /\ lost \in [Streams -> SUBSET Nat]
    BY <1>1, <1>2, <1>15 DEF Send, FlowTypes
  <2>2. lost'[s] = lost[s] \union {e} /\ \A t \in Streams : t # s => lost'[t] = lost[t]
    BY <1>1, <2>1
  <2>3. FlowTypes'
    <3>1. lost' \in [Streams -> SUBSET Nat] /\ dropped' \in Nat
      BY <1>2, <2>1 DEF FlowTypes
    <3> QED
      BY <1>1, <1>2, <2>1, <3>1 DEF FlowTypes
  <2>4. Seen(s)' = Seen(s) /\ Delivered(s)' = Delivered(s)
    BY <1>1, <2>1 DEF Seen, Delivered
  <2>5. Due(s)' \subseteq Seen(s)' \union lost'[s] \union OnTheWay(s)'
    BY <1>2, <1>8, <1>9, <2>2, <2>4 DEF Accounted
  <2>6. Seen(s)' \subseteq Due(s)' \ lost'[s]
    BY <1>2, <1>6, <1>8, <2>2, <2>4 DEF Accounted
  <2>7. lost'[s] \subseteq 1 .. Len(ingested')
    BY <1>1, <1>6, <1>13, <2>2
  <2>8. IsFiniteSet(Seen(s)') /\ Cardinality(Seen(s)') = Len(Delivered(s)')
    BY <1>2, <2>4 DEF Accounted
  <2>9. Accounted(s)'
    BY <1>11, <1>12, <1>13, <2>2, <2>4, <2>5, <2>6, <2>7, <2>8 DEF Accounted
  <2>10. \A t \in Streams : sub[t] = "open" => Accounted(t)'
    BY <1>10, <2>1, <2>2, <2>9
  <2>11. Untouched'
    BY <1>1, <1>3, <2>1, <2>2, HubStreamAssumption DEF FlowInv, Untouched
  <2>12. Lost' = Lost \union {<<s, e>>} /\ <<s, e>> \notin Lost
    BY <1>1, <1>6, <2>2 DEF Lost
  <2>13. IsFiniteSet(Lost') /\ dropped' = Cardinality(Lost')
    BY <2>1, <2>12, FS_AddElement DEF FlowInv
  <2> QED
    BY <1>1, <1>5, <2>3, <2>10, <2>11, <2>13 DEF FlowInv
<1> QED
  BY <1>14, <1>15

\* A stream that subscribes is due nothing yet.
LEMMA SubscribeFlow ==
  ASSUME IndInv, FlowInv, NEW s \in Streams, Subscribe(s)
  PROVE  FlowInv'
<1>1. /\ sub[s] = "none" /\ UNCHANGED <<ingested, entry, todo, to, ch, got, lost, dropped, until>>
      /\ sub \in [Streams -> {"none", "open", "closed"}] /\ FlowTypes
  BY DEF Subscribe, publishing, channels, IndInv, Unborn, FlowInv, TypeOK
<1>2. CASE hub = "open"
  <2>1. /\ registered' = registered \union {s} /\ sub' = [sub EXCEPT ![s] = "open"]
        /\ since' = [since EXCEPT ![s] = Len(ingested)] /\ Len(ingested) \in Nat
        /\ since \in [Streams -> Nat] /\ lost[s] \subseteq Nat
    BY <1>1, <1>2, DeliveredType DEF Subscribe, FlowTypes
  <2>2. /\ since'[s] = Len(ingested) /\ sub'[s] = "open"
        /\ \A t \in Streams : t # s => since'[t] = since[t] /\ sub'[t] = sub[t]
    BY <1>1, <2>1
  <2>3. FlowTypes' /\ EntriesApart' /\ Untouched' /\ Lost' = Lost
    BY <1>1, <2>1, <2>2 DEF FlowInv, FlowTypes, EntriesApart, Returned, Untouched, Lost
  <2>4. Accounted(s)'
    <3>1. /\ ch'[s] = <<>> /\ got'[s] = <<>> /\ lost'[s] = {}
          /\ \A p \in Publishers : s \notin todo'[p] /\ to'[p] # s
      BY <1>1 DEF FlowInv, Untouched
    <3>2. Delivered(s)' = <<>>
      BY <3>1 DEF Delivered
    <3>3. Seen(s)' = {} /\ Len(Delivered(s)') = 0
      BY <3>2 DEF Seen
    <3>4. LastDue(s)' = Len(ingested)
      BY <1>1, <2>1 DEF LastDue
    <3>5. Due(s)' = {}
      <4>1. Due(s)' \subseteq since'[s] + 1 .. Len(ingested)
        BY <1>1, <2>1 DEF Due
      <4> QED
        BY <2>1, <2>2, <4>1
    <3>6. IsFiniteSet(Seen(s)') /\ Cardinality(Seen(s)') = Len(Delivered(s)')
      BY <3>3, FS_EmptySet
    <3> QED
      BY <1>1, <2>1, <2>2, <3>1, <3>3, <3>4, <3>5, <3>6 DEF Accounted
  <2>5. ASSUME NEW t \in Streams, t # s, sub'[t] = "open"
        PROVE  Accounted(t)'
    <3>1. Accounted(t) /\ Delivered(t)' = Delivered(t) /\ LastDue(t)' = LastDue(t)
      BY <1>1, <2>1, <2>2, <2>5 DEF FlowInv, Delivered, LastDue
    <3>2. \A p \in Publishers : to[p] = t => ingested[entry[p]] \in Wanted[t] /\ t \notin todo[p]
      BY <3>1 DEF Accounted
    <3> QED
      BY <1>1, <2>2, <2>5, <3>1, <3>2, SameStream
  <2> QED
    BY <1>1, <2>3, <2>4, <2>5 DEF FlowInv
<1>3. CASE hub # "open"
  <2>1. /\ registered' = registered /\ since' = since
        /\ \A t \in Streams : sub'[t] = "open" => sub[t] = "open"
        /\ \A t \in Streams : sub'[t] = "none" => sub[t] = "none"
    BY <1>1, <1>3 DEF Subscribe
  <2>2. \A t \in Streams : LastDue(t)' = LastDue(t)
    BY <1>1, <2>1 DEF LastDue
  <2>3. until' \in [Streams -> Nat]
    BY <1>1 DEF FlowTypes
  <2> QED
    BY <1>1, <2>1, <2>2, <2>3, QuietFlow
<1> QED
  BY <1>2, <1>3

\* What is read moves from the channel to what was read before.
LEMMA HeadMoves ==
  ASSUME NEW a \in Seq(Nat), NEW b \in Seq(Nat), b # <<>>
  PROVE  /\ Append(a, Head(b)) \in Seq(Nat) /\ Tail(b) \in Seq(Nat)
         /\ Append(a, Head(b)) \o Tail(b) = a \o b
<1>1. /\ Len(a) \in Nat /\ Len(b) \in Nat /\ Head(b) \in Nat /\ Head(b) = b[1]
      /\ Tail(b) \in Seq(Nat) /\ Len(Tail(b)) = Len(b) - 1
      /\ \A i \in 1 .. Len(b) - 1 : Tail(b)[i] = b[i + 1]
  BY HeadTailProperties, LenProperties
<1>2. Len(b) >= 1
  BY <1>1, EmptySeq
<1>3. /\ Append(a, Head(b)) \in Seq(Nat) /\ Len(Append(a, Head(b))) = Len(a) + 1
      /\ Append(a, Head(b))[Len(a) + 1] = b[1]
      /\ \A i \in 1 .. Len(a) : Append(a, Head(b))[i] = a[i]
  BY <1>1, AppendProperties
<1> DEFINE c == Append(a, Head(b))
           d == Tail(b)
<1>4. /\ c \o d \in Seq(Nat) /\ Len(c \o d) = Len(c) + Len(d)
      /\ \A i \in 1 .. Len(c) + Len(d) : (c \o d)[i] = IF i <= Len(c) THEN c[i] ELSE d[i - Len(c)]
  BY <1>1, <1>3, ConcatProperties
<1>5. /\ a \o b \in Seq(Nat) /\ Len(a \o b) = Len(a) + Len(b)
      /\ \A i \in 1 .. Len(a) + Len(b) : (a \o b)[i] = IF i <= Len(a) THEN a[i] ELSE b[i - Len(a)]
  BY ConcatProperties
<1>6. Len(c) = Len(a) + 1 /\ Len(d) = Len(b) - 1 /\ Len(c) + Len(d) = Len(a) + Len(b)
  BY <1>1, <1>3
<1> HIDE DEF c, d
<1>7. ASSUME NEW i \in 1 .. Len(a) + Len(b)
      PROVE  (c \o d)[i] = (a \o b)[i]
  <2>1. CASE i <= Len(a)
    <3>1. i \in 1 .. Len(a) /\ i <= Len(c)
      BY <1>1, <1>6, <2>1
    <3> QED
      BY <1>3, <1>4, <1>5, <1>6, <3>1, <2>1 DEF c
  <2>2. CASE i = Len(a) + 1
    <3>1. i <= Len(c) /\ ~ (i <= Len(a)) /\ i - Len(a) = 1
      BY <1>1, <1>6, <2>2
    <3> QED
      BY <1>3, <1>4, <1>5, <1>6, <2>2, <3>1 DEF c
  <2>3. CASE ~ (i <= Len(a) + 1)
    <3>1. /\ ~ (i <= Len(c)) /\ ~ (i <= Len(a)) /\ i - Len(c) \in 1 .. Len(b) - 1
          /\ (i - Len(c)) + 1 = i - Len(a)
      BY <1>1, <1>6, <2>3
    <3>2. d[i - Len(c)] = b[i - Len(a)]
      BY <1>1, <3>1 DEF d
    <3> QED
      BY <1>4, <1>5, <1>6, <3>1, <3>2
  <2>4. i <= Len(a) \/ i = Len(a) + 1 \/ ~ (i <= Len(a) + 1)
    BY <1>1
  <2> QED
    BY <2>1, <2>2, <2>3, <2>4
<1>8. c \o d = a \o b
  BY <1>4, <1>5, <1>6, <1>7, SeqEqual
<1> QED
  BY <1>1, <1>3, <1>8 DEF c, d

LEMMA ReceiveFlow ==
  ASSUME FlowInv, NEW s \in Streams, Receive(s)
  PROVE  FlowInv'
<1>1. /\ UNCHANGED <<ingested, entry, todo, to, lost, dropped, since, until, sub, registered>>
      /\ ch' = [ch EXCEPT ![s] = Tail(@)] /\ got' = [got EXCEPT ![s] = Append(@, Head(ch[s]))]
      /\ ch[s] # <<>> /\ FlowTypes
  BY DEF Receive, publishing, history, FlowInv
<1>2. ch \in [Streams -> Seq(Nat)] /\ got \in [Streams -> Seq(Nat)]
  BY <1>1 DEF FlowTypes
<1>3. /\ Append(got[s], Head(ch[s])) \in Seq(Nat) /\ Tail(ch[s]) \in Seq(Nat)
      /\ Append(got[s], Head(ch[s])) \o Tail(ch[s]) = got[s] \o ch[s]
  BY <1>1, <1>2, HeadMoves
<1>4. /\ ch'[s] = Tail(ch[s]) /\ got'[s] = Append(got[s], Head(ch[s]))
      /\ \A t \in Streams : t # s => ch'[t] = ch[t] /\ got'[t] = got[t]
  BY <1>1, <1>2
<1>5. FlowTypes'
  <2>1. ch' \in [Streams -> Seq(Nat)] /\ got' \in [Streams -> Seq(Nat)]
    BY <1>1, <1>2, <1>3
  <2> QED
    BY <1>1, <2>1 DEF FlowTypes
<1>6. EntriesApart' /\ Lost' = Lost
  BY <1>1 DEF FlowInv, EntriesApart, Returned, Lost
<1>7. Untouched'
  BY <1>1, <1>4 DEF FlowInv, Untouched
<1>8. ASSUME NEW t \in Streams, sub[t] = "open"
      PROVE  Accounted(t)'
  <2>1. Accounted(t) /\ LastDue(t)' = LastDue(t)
    BY <1>1, <1>8 DEF FlowInv, LastDue
  <2>2. Delivered(t)' = Delivered(t)
    BY <1>3, <1>4 DEF Delivered
  <2>3. \A p \in Publishers : to[p] = t => ingested[entry[p]] \in Wanted[t] /\ t \notin todo[p]
    BY <2>1 DEF Accounted
  <2> QED
    BY <1>1, <2>1, <2>2, <2>3, SameStream
<1> QED
  BY <1>1, <1>5, <1>6, <1>7, <1>8 DEF FlowInv

\* Leaving the map fixes what a stream is due; closing takes it out of account.
LEMMA CloseFlow ==
  ASSUME IndInv, FlowInv,
         \/ \E s \in Streams : Leave(s) \/ Cancel(s)
         \/ \E k \in Closers :
              CloseBegin(k) \/ CloseReturns(k) \/ \E s \in Streams : CloseStream(k, s)
  PROVE  FlowInv'
<1>1. FlowTypes /\ Len(ingested) \in Nat /\ until \in [Streams -> Nat]
  <2>1. ingested \in Seq(Kinds) /\ until \in [Streams -> Nat] /\ FlowTypes
    BY DEF FlowInv, FlowTypes
  <2> QED
    BY <2>1, LenProperties
<1>2. ASSUME UNCHANGED <<ingested, entry, todo, to, ch, got, lost, dropped, since, until>>,
             registered' = registered,
             \A t \in Streams :
               (sub'[t] = "open" => sub[t] = "open") /\ (sub'[t] = "none" => sub[t] = "none")
      PROVE  FlowInv'
  BY <1>1, <1>2, QuietFlow DEF LastDue
<1>3. ASSUME NEW s \in Streams, Leave(s)
      PROVE  FlowInv'
  BY <1>2, <1>3 DEF Leave, publishing, channels, history
<1>4. ASSUME NEW s \in Streams, CancelDelete(s)
      PROVE  FlowInv'
  <2>1. /\ UNCHANGED <<ingested, entry, todo, to, ch, got, lost, dropped, since, sub>>
        /\ registered' = registered \ {s}
        /\ until' = [until EXCEPT ![s] = IF s \in registered THEN Len(ingested) ELSE @]
    BY <1>4 DEF CancelDelete, publishing, channels
  <2>2. /\ until' \in [Streams -> Nat]
        /\ \A t \in Streams :
             until'[t] = IF t = s /\ s \in registered THEN Len(ingested) ELSE until[t]
    BY <1>1, <2>1
  <2>3. \A t \in Streams : LastDue(t)' = LastDue(t)
    BY <2>1, <2>2 DEF LastDue
  <2> QED
    BY <2>1, <2>2, <2>3, QuietFlow
<1>5. ASSUME NEW s \in Streams, CancelClose(s)
      PROVE  FlowInv'
  BY <1>2, <1>5 DEF CancelClose, publishing, channels, history, IndInv, TypeOK
<1>6. ASSUME NEW k \in Closers, CloseBegin(k)
      PROVE  FlowInv'
  <2>1. CASE hub = "open"
    <3>1. /\ UNCHANGED <<ingested, entry, todo, to, ch, got, lost, dropped, since, sub>>
          /\ registered' = {}
          /\ until' = [t \in Streams |-> IF t \in registered THEN Len(ingested) ELSE until[t]]
      BY <1>6, <2>1 DEF CloseBegin, publishing, channels
    <3>2. until' \in [Streams -> Nat]
      BY <1>1, <3>1
    <3>3. \A t \in Streams : LastDue(t)' = LastDue(t)
      BY <3>1 DEF LastDue
    <3> QED
      BY <3>1, <3>2, <3>3, QuietFlow
  <2>2. CASE hub # "open"
    BY <1>2, <1>6, <2>2 DEF CloseBegin, publishing, channels
  <2> QED
    BY <2>1, <2>2
<1>7. ASSUME NEW k \in Closers, CloseReturns(k)
      PROVE  FlowInv'
  BY <1>2, <1>7 DEF CloseReturns, publishing, channels, history
<1>8. ASSUME NEW k \in Closers, NEW s \in Streams, CloseStream(k, s)
      PROVE  FlowInv'
  BY <1>2, <1>8 DEF CloseStream, publishing, channels, history, IndInv, TypeOK
<1> QED
  BY <1>3, <1>4, <1>5, <1>6, <1>7, <1>8 DEF Cancel

LEMMA FlowStep == ASSUME IndInv, FlowInv, [Next]_vars PROVE FlowInv'
<1>1. ASSUME NEW p \in Publishers, Publish(p) \/ \E kind \in Kinds : Ingest(p, kind)
      PROVE  FlowInv'
  BY <1>1, IngestFlow, TestFlow, SendFlow DEF Publish
<1>2. ASSUME NEW s \in Streams, Subscribe(s) \/ Receive(s) \/ Leave(s) \/ Cancel(s)
      PROVE  FlowInv'
  BY <1>2, SubscribeFlow, ReceiveFlow, CloseFlow
<1>3. CASE UNCHANGED vars
  <2>1. UNCHANGED <<ingested, entry, todo, to, ch, got, lost, dropped, since, until,
                    registered, sub>>
    BY <1>3 DEF vars, publishing, channels, history
  <2>2. until' \in [Streams -> Nat]
    BY <2>1 DEF FlowInv, FlowTypes
  <2> QED
    BY <2>1, <2>2, QuietFlow DEF LastDue
<1> QED
  BY <1>1, <1>2, <1>3, CloseFlow DEF Next, Finished

\* Ingest and the streams (hub.go): whatever the publishers, subscribers,
\* readers and Close do, an open stream has, once each, the entries it was due,
\* but for those on the way and those its full channel had no room for, and
\* droppedEvents counts just these.
THEOREM EntriesAreAccounted == Spec => []EntriesAccounted
<1>1. IndInv /\ FlowInv => EntriesAccounted
  BY DEF FlowInv, Accounted, Seen, Lost, EntriesAccounted
<1> QED
  BY InitInd, IndStep, InitFlow, FlowStep, <1>1, PTL DEF Spec
=============================================================================
