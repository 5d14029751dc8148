------------------------------- MODULE LogHub -------------------------------
(***************************************************************************)
(* The in-memory log index of hub.go: a ring of "capacity" slots, and for  *)
(* each trace ID and each service a doubly linked chain through the slots  *)
(* that hold its entries, oldest first.  Ingest holds h.mu over all of its *)
(* work on them and Query reads them under the same mutex, so each is one  *)
(* step here; what Ingest does for subscribers after it has released the   *)
(* mutex is in HubStream.                                                  *)
(*                                                                         *)
(* Slots are numbered from 0 as in the code, and Nowhere stands for its    *)
(* sentinel -1.  The code has the same functions for traces and services;  *)
(* here a chain index is a record of its three parts,                      *)
(*     prev, next  the links of each slot                                  *)
(*     span        the head, tail and count of each key in use.            *)
(***************************************************************************)
EXTENDS Integers, Sequences, FiniteSets

CONSTANTS
  Capacity,  \* slots of the ring
  Inputs,    \* entries handed to Ingest, before it normalises them
  Empty,     \* the empty string
  Blank,     \* a string of white space only
  Info,      \* the default level
  MaxIngest  \* bound: entries ingested in a behaviour

ASSUME LogHubAssumption ==
  /\ Capacity \in Nat \ {0} /\ MaxIngest \in Nat
  /\ \A e \in Inputs : DOMAIN e = {"topic", "service", "trace", "level"}
  /\ Empty # Blank /\ Info \notin {Empty, Blank}

Slots   == 0 .. Capacity - 1
Nowhere == -1

VARIABLES
  head,     \* slot of the oldest entry
  count,    \* entries in the ring
  entries,  \* what each slot holds
  traces,   \* chains by trace ID
  services, \* chains by service
  status,   \* h.closed: "open" or "closed"
  history   \* history: every entry ingested, oldest first

vars == <<head, count, entries, traces, services, status, history>>

\* A slot that no entry has been put in: nil in the code.
Vacant == [topic |-> Empty, service |-> Empty, trace |-> Empty, level |-> Empty]

NoChains == [prev |-> [s \in Slots |-> Nowhere], next |-> [s \in Slots |-> Nowhere],
             span |-> <<>>]

Init ==
  /\ head = 0 /\ count = 0
  /\ entries = [s \in Slots |-> Vacant]
  /\ traces = NoChains /\ services = NoChains
  /\ status = "open" /\ history = <<>>

-----------------------------------------------------------------------------
(* Chains *)

\* A key that no span is kept for any more.
Without(span, key) == [k \in DOMAIN span \ {key} |-> span[k]]

\* A span that is stored under a key.
With(span, key, value) ==
  [k \in DOMAIN span \union {key} |-> IF k = key THEN value ELSE span[k]]

\* The links with the one of a slot redirected; there is none of Nowhere.
Redirect(links, slot, to) == [s \in Slots |-> IF s = slot THEN to ELSE links[s]]

\* linkTrace, linkService: the slot becomes the tail of the key's chain.
Link(chains, slot, key) ==
  IF key = Empty THEN chains
  ELSE IF key \notin DOMAIN chains.span
  THEN [prev |-> Redirect(chains.prev, slot, Nowhere),
        next |-> Redirect(chains.next, slot, Nowhere),
        span |-> With(chains.span, key, [head |-> slot, tail |-> slot, count |-> 1])]
  ELSE LET old == chains.span[key]
       IN  [prev |-> Redirect(chains.prev, slot, old.tail),
            next |-> Redirect(Redirect(chains.next, old.tail, slot), slot, Nowhere),
            span |-> With(chains.span, key,
                          [old EXCEPT !.tail = slot, !.count = old.count + 1])]

\* Mutant: the neighbour after the slot keeps its link to it.
UnlinkOneSided(chains, slot, key) ==
  IF key = Empty \/ key \notin DOMAIN chains.span THEN chains
  ELSE LET old == chains.span[key]
       IN  IF old.count <= 1 THEN [chains EXCEPT !.span = Without(chains.span, key)]
           ELSE [chains EXCEPT !.next = Redirect(chains.next, slot, Nowhere),
                               !.span = With(chains.span, key,
                                             [old EXCEPT !.head = chains.next[slot],
                                                         !.count = old.count - 1])]

\* Mutant: the key of the last entry stays in the map.
UnlinkKeepingKey(chains, slot, key) ==
  IF key = Empty \/ key \notin DOMAIN chains.span THEN chains
  ELSE LET old == chains.span[key]
       IN  [prev |-> Redirect(chains.prev, chains.next[slot], Nowhere),
            next |-> Redirect(chains.next, slot, Nowhere),
            span |-> With(chains.span, key,
                          [old EXCEPT !.head = chains.next[slot], !.count = old.count - 1])]

\* unlinkTrace, unlinkService: the slot leaves the key's chain, and a key
\* without entries leaves the map.
Unlink(chains, slot, key) ==
  IF key = Empty \/ key \notin DOMAIN chains.span THEN chains
  ELSE LET old    == chains.span[key]
           before == chains.prev[slot]
           after  == chains.next[slot]
       IN  IF old.count <= 1 \/ (old.head = slot /\ old.tail = slot)
           THEN [prev |-> Redirect(chains.prev, slot, Nowhere),
                 next |-> Redirect(chains.next, slot, Nowhere),
                 span |-> Without(chains.span, key)]
           ELSE [prev |-> Redirect(Redirect(chains.prev, after, before), slot, Nowhere),
                 next |-> Redirect(Redirect(chains.next, before, after), slot, Nowhere),
                 span |-> With(chains.span, key,
                               [head  |-> IF before = Nowhere THEN after ELSE old.head,
                                tail  |-> IF after = Nowhere THEN before ELSE old.tail,
                                count |-> old.count - 1])]

-----------------------------------------------------------------------------
(* Ingest and Close *)

Trimmed(text) == IF text = Blank THEN Empty ELSE text

\* Missing fields are filled in before the key fields are trimmed, so that a
\* blank service is not replaced by the topic.
Normalised(e) ==
  [topic   |-> IF e.topic = Empty THEN e.service ELSE e.topic,
   service |-> Trimmed(IF e.service = Empty THEN e.topic ELSE e.service),
   trace   |-> Trimmed(e.trace),
   level   |-> IF Trimmed(e.level) = Empty THEN Info ELSE e.level]

\* Mutant: a full ring overwrites the slot after its oldest entry.
SlotAfterHead == IF count = Capacity THEN (head + 1) % Capacity ELSE (head + count) % Capacity

\* The slot of the next entry: the oldest one's when the ring is full.
NextSlot == IF count = Capacity THEN head ELSE (head + count) % Capacity

\* Ingest: evict the oldest entry from a full ring and from its chains, put
\* the new one in a slot, and make it the tail of its chains.
Ingest(e) ==
  /\ status = "open" /\ Len(history) < MaxIngest
  /\ e.topic # Empty \/ e.service # Empty
  /\ LET item == Normalised(e)
         slot == NextSlot
         full == count = Capacity
         old  == IF full THEN entries[slot] ELSE Vacant
     IN  /\ traces'   = Link(Unlink(traces, slot, old.trace), slot, item.trace)
         /\ services' = Link(Unlink(services, slot, old.service), slot, item.service)
         /\ entries'  = [entries EXCEPT ![slot] = item]
         /\ head'     = IF full THEN (head + 1) % Capacity ELSE head
         /\ count'    = IF full THEN count ELSE count + 1
         /\ history'  = Append(history, item)
  /\ UNCHANGED status

\* Close only marks the hub; the ring is kept but no longer answers.
Close ==
  /\ status = "open"
  /\ status' = "closed"
  /\ UNCHANGED <<head, count, entries, traces, services, history>>

Next == Close \/ \E e \in Inputs : Ingest(e)

Spec == Init /\ [][Next]_vars

-----------------------------------------------------------------------------
(* Query *)

Min2(a, b) == IF a < b THEN a ELSE b

\* The slots from one on, following a link; cut off where a chain that runs
\* in a circle would make the loop of the code run for ever.
Walk(links, from) ==
  LET step[n \in 0 .. Capacity] ==
        IF n = 0 THEN from
        ELSE IF step[n - 1] = Nowhere THEN Nowhere ELSE links[step[n - 1]]
      visited == {n \in 0 .. Capacity : step[n] # Nowhere}
  IN  [i \in 1 .. Cardinality(visited) |-> step[i - 1]]

\* The ring from its newest entry to its oldest.
Newest == [i \in 1 .. count |-> (head + count - i + Capacity) % Capacity]

\* The slots Query looks at, newest first: the chain of the trace if one is
\* given, else the chain of the service, else the whole ring.
Candidates(trace, service) ==
  IF trace # Empty
  THEN IF trace \in DOMAIN traces.span THEN Walk(traces.prev, traces.span[trace].tail) ELSE <<>>
  ELSE IF service # Empty
  THEN IF service \in DOMAIN services.span
       THEN Walk(services.prev, services.span[service].tail) ELSE <<>>
  ELSE Newest

\* A criterion that is given must be met.
Meets(item, trace, service, level) ==
  /\ trace = Empty \/ item.trace = trace
  /\ service = Empty \/ item.service = service
  /\ level = Empty \/ item.level = level

Limit(q) == IF q.limit <= 0 THEN 100 ELSE Min2(q.limit, 10000)

Backwards(s) == [i \in DOMAIN s |-> s[Len(s) + 1 - i]]

\* The elements of a sequence that belong to a set, in their order.
Filtered(s, S) ==
  LET kept[n \in 0 .. Len(s)] ==
        IF n = 0 THEN <<>>
        ELSE IF s[n] \in S THEN Append(kept[n - 1], s[n]) ELSE kept[n - 1]
  IN  kept[Len(s)]

\* Query: the newest candidates that meet the other criteria, up to the
\* limit, in chronological order.  What a chain is for is not looked at again.
Query(q) ==
  LET trace     == Trimmed(q.trace)
      service   == Trimmed(q.service)
      level     == Trimmed(q.level)
      fitting   == {s \in Slots : /\ entries[s] # Vacant
                                  /\ \/ trace = Empty \/ service = Empty
                                     \/ entries[s].service = service
                                  /\ level = Empty \/ entries[s].level = level}
      found     == Filtered(Candidates(trace, service), fitting)
      matched   == SubSeq(found, 1, Min2(Limit(q), Len(found)))
  IN  IF status = "closed" THEN <<>>
      ELSE Backwards([i \in DOMAIN matched |-> entries[matched[i]]])

-----------------------------------------------------------------------------
(* Properties *)

\* The last n entries of a sequence.
Last(s, n) == SubSeq(s, Len(s) - Min2(n, Len(s)) + 1, Len(s))

\* What the hub must hold: the newest entries ingested, up to its capacity.
Live == Last(history, Capacity)

\* The ring, read from its head, holds the newest entries in the order of
\* their ingestion, however often it has wrapped around.
RingHoldsNewest ==
  /\ count = Len(Live)
  /\ \A i \in 1 .. count : entries[(head + i - 1) % Capacity] = Live[i]

\* The entries of the ring older than the one in a slot, and the slots in use.
Age(slot) == (slot - head + Capacity) % Capacity
Held == {s \in Slots : Age(s) < count}

\* Each slot of a chain has its link to the next younger one, the last none.
NextRight(next, slots, last, age) ==
  \A s \in slots :
    IF s = last THEN next[s] = Nowhere
    ELSE /\ next[s] \in slots /\ age[s] < age[next[s]]
         /\ \A t \in slots : ~ (age[s] < age[t] /\ age[t] < age[next[s]])

\* ... and to the next older one, the head none.
PrevRight(prev, slots, first, age) ==
  \A s \in slots :
    IF s = first THEN prev[s] = Nowhere
    ELSE /\ prev[s] \in slots /\ age[prev[s]] < age[s]
         /\ \A t \in slots : ~ (age[prev[s]] < age[t] /\ age[t] < age[s])

\* The span and the links of one key are those of its slots, oldest first.
ChainOf(chains, span, slots, age) ==
  /\ span.count = Cardinality(slots)
  /\ span.head \in slots /\ \A s \in slots : ~ (age[s] < age[span.head])
  /\ span.tail \in slots /\ \A s \in slots : ~ (age[span.tail] < age[s])
  /\ NextRight(chains.next, slots, span.tail, age)
  /\ PrevRight(chains.prev, slots, span.head, age)

\* A chain index is exact: it has a span for the keys of the ring and for no
\* other (an evicted key leaves the map), and each chain runs through just
\* the slots of its key, in order, from both of its ends.
ExactFor(chains, key, held, age) ==
  /\ DOMAIN chains.span = {key[s] : s \in held} \ {Empty}
  /\ \A k \in DOMAIN chains.span :
       ChainOf(chains, chains.span[k], {s \in held : key[s] = k}, age)

\* Both indices agree with the ring after any sequence of evictions.
ChainsExact ==
  LET age == [s \in Slots |-> Age(s)]
  IN  /\ ExactFor(traces, [s \in Slots |-> entries[s].trace], Held, age)
      /\ ExactFor(services, [s \in Slots |-> entries[s].service], Held, age)

\* The queries compared: every text an entry has, an unknown one, none, and
\* limits around the capacity.
Queries ==
  [trace   : {e.trace : e \in Inputs} \union {Empty, Blank},
   service : {e.service : e \in Inputs} \union {Empty, Blank},
   level   : {e.level : e \in Inputs} \union {Empty, Blank},
   limit   : 0 .. Capacity]

\* What a query must answer: the newest live entries that meet all of its
\* criteria, in chronological order.
Answer(q) ==
  LET meeting == {e \in {Live[i] : i \in DOMAIN Live} :
                    Meets(e, Trimmed(q.trace), Trimmed(q.service), Trimmed(q.level))}
  IN  IF status = "closed" THEN <<>> ELSE Last(Filtered(Live, meeting), Limit(q))

\* Query by trace, by service, by both or over the ring always gives what a
\* search through everything ingested would give.
QueryExact == \A q \in Queries : Query(q) = Answer(q)
=============================================================================
