---------------------------- MODULE LogHub_proofs ----------------------------
(***************************************************************************)
(* For every capacity and every sequence of entries, the ring of the log   *)
(* hub holds the newest entries in the order of their ingestion, the       *)
(* chains of both indices run through the slots of their keys, and a query *)
(* answers what a search through the history would.                        *)
(*                                                                         *)
(* The lemmas on chains know nothing of the ring: a slot has an age, the   *)
(* youngest joins a chain and the oldest leaves it.  For the query, both   *)
(* the walk of the code and the search of the reference are shown to run   *)
(* through one set in one order (Ordered), and there is one way to do so   *)
(* (OrderedOnce).                                                          *)
(***************************************************************************)
EXTENDS LogHub, SequenceTheorems, FiniteSetTheorems, WellFoundedInduction, TLAPS

-----------------------------------------------------------------------------
(* Slot arithmetic *)

LEMMA ModBelow ==
  ASSUME NEW c \in Nat \ {0}, NEW x \in 0 .. c - 1
  PROVE  x % c = x
OBVIOUS

LEMMA ModAround ==
  ASSUME NEW c \in Nat \ {0}, NEW x \in c .. 2 * c - 1
  PROVE  x % c = x - c
OBVIOUS

\* The slot i places after h: the way round the ring is gone once at most.
Place(h, i) == IF h + i < Capacity THEN h + i ELSE h + i - Capacity

LEMMA PlaceIs ==
  ASSUME NEW h \in Slots, NEW i \in 0 .. Capacity
  PROVE  (h + i) % Capacity = Place(h, i) /\ Place(h, i) \in Slots
<1> USE LogHubAssumption
<1>1. CASE h + i < Capacity
  BY <1>1, ModBelow DEF Place, Slots
<1>2. CASE h + i >= Capacity
  <2>1. h + i \in Capacity .. 2 * Capacity - 1
    BY <1>2 DEF Slots
  <2> QED
    BY <1>2, <2>1, ModAround DEF Place, Slots
<1> QED
  BY <1>1, <1>2 DEF Slots

-----------------------------------------------------------------------------
(* The invariant *)

\* The entries Ingest can put in the ring.
Stored == {Normalised(e) : e \in Inputs}

\* A ring that is not full has not moved its head, and place by place it
\* holds the last entries of the history.
RingInv ==
  /\ head \in Slots /\ count \in 0 .. Capacity
  /\ history \in Seq(Stored) /\ DOMAIN entries = Slots
  /\ count = Min2(Capacity, Len(history))
  /\ count < Capacity => head = 0
  /\ \A i \in 1 .. count : entries[Place(head, i - 1)] = history[Len(history) - count + i]

LEMMA InitRing == Init => RingInv
  BY LogHubAssumption, EmptySeq DEF Init, RingInv, Slots, Min2

\* A full ring: the newest entry takes the place of the oldest, which becomes
\* the last place as the head moves on.
LEMMA IngestFull ==
  ASSUME RingInv, NEW e \in Inputs, Ingest(e), count = Capacity
  PROVE  RingInv'
<1> USE LogHubAssumption
<1> DEFINE item == Normalised(e)
           last == Len(history)
<1>1. /\ head' = Place(head, 1) /\ head' \in Slots
      /\ count' = Capacity /\ history' = Append(history, item)
      /\ entries' = [entries EXCEPT ![head] = item]
  BY PlaceIs DEF Ingest, NextSlot, RingInv
<1>2. /\ item \in Stored /\ last \in Nat /\ last >= Capacity
      /\ history' \in Seq(Stored) /\ Len(history') = last + 1
      /\ history'[last + 1] = item
      /\ \A i \in 1 .. last : history'[i] = history[i]
  BY <1>1, LenProperties, AppendProperties DEF RingInv, Stored, Min2
<1>3. ASSUME NEW i \in 1 .. Capacity
      PROVE  entries'[Place(head', i - 1)] = history'[Len(history') - Capacity + i]
  <2>1. CASE i = Capacity
    <3>1. Place(head', i - 1) = head
      BY <1>1, <2>1 DEF Place, RingInv, Slots
    <3> QED
      BY <1>1, <1>2, <2>1, <3>1 DEF RingInv
  <2>2. CASE i < Capacity
    <3>1. /\ Place(head', i - 1) = Place(head, i) /\ Place(head, i) # head
          /\ Place(head, i) \in Slots
      BY <1>1, <2>2, PlaceIs DEF Place, RingInv, Slots
    <3>2. entries'[Place(head, i)] = entries[Place(head, i)]
      BY <1>1, <3>1 DEF RingInv
    <3>3. i + 1 \in 1 .. count /\ (i + 1) - 1 = i
      BY <2>2
    <3>4. entries[Place(head, i)] = history[last - count + (i + 1)]
      BY <3>3 DEF RingInv
    <3>5. /\ last - count + (i + 1) \in 1 .. last
          /\ Len(history') - Capacity + i = last - count + (i + 1)
      <4>1. last \in Nat /\ last >= Capacity /\ i \in Nat /\ i + 1 <= Capacity
        BY <1>2, <2>2
      <4>2. Len(history') = last + 1
        BY <1>2
      <4> HIDE DEF last
      <4> QED
        BY <4>1, <4>2
    <3> QED
      BY <1>2, <3>1, <3>2, <3>4, <3>5
  <2> QED
    BY <2>1, <2>2
<1> QED
  BY <1>1, <1>2, <1>3 DEF RingInv, Min2

\* A ring that is filling: the newest entry takes the first free slot.
LEMMA IngestFilling ==
  ASSUME RingInv, NEW e \in Inputs, Ingest(e), count # Capacity
  PROVE  RingInv'
<1> USE LogHubAssumption
<1> DEFINE item == Normalised(e)
<1>1. count < Capacity /\ head = 0 /\ count = Len(history) /\ count \in Nat
  BY LenProperties DEF RingInv, Min2
<1>2. (head + count) % Capacity = count /\ count \in Slots
  BY <1>1, ModBelow DEF Slots
<1>3. /\ head' = 0 /\ count' = count + 1 /\ history' = Append(history, item)
      /\ entries' = [entries EXCEPT ![count] = item]
  BY <1>1, <1>2 DEF Ingest, NextSlot
<1>4. /\ item \in Stored /\ history' \in Seq(Stored) /\ Len(history') = count + 1
      /\ history'[count + 1] = item
      /\ \A i \in 1 .. count : history'[i] = history[i]
  BY <1>1, <1>3, AppendProperties DEF RingInv, Stored
<1>5. ASSUME NEW i \in 1 .. count + 1
      PROVE  entries'[Place(0, i - 1)] = history'[i]
  <2>1. Place(0, i - 1) = i - 1 /\ i - 1 \in Slots
    BY <1>1 DEF Place, Slots
  <2>2. CASE i = count + 1
    BY <1>1, <1>2, <1>3, <1>4, <2>1, <2>2 DEF RingInv
  <2>3. CASE i # count + 1
    <3>1. i \in 1 .. count /\ i - 1 # count
      BY <1>1, <2>3
    <3>2. entries[i - 1] = history[i]
      BY <1>1, <2>1, <3>1 DEF RingInv
    <3> QED
      BY <1>3, <1>4, <2>1, <3>1, <3>2 DEF RingInv
  <2> QED
    BY <2>2, <2>3
<1>6. \A i \in 1 .. count' : entries'[Place(head', i - 1)] = history'[Len(history') - count' + i]
  BY <1>1, <1>3, <1>4, <1>5
<1> QED
  BY <1>1, <1>3, <1>4, <1>6 DEF RingInv, Min2, Slots

LEMMA RingStep == ASSUME RingInv, [Next]_vars PROVE RingInv'
<1>1. CASE Close
  BY <1>1 DEF Close, RingInv
<1>2. CASE UNCHANGED vars
  BY <1>2 DEF vars, RingInv
<1> QED
  BY <1>1, <1>2, IngestFull, IngestFilling DEF Next

\* The live entries are those of the ring, from its head on.
LEMMA RingIsLive ==
  ASSUME RingInv
  PROVE  /\ RingHoldsNewest /\ Len(Live) = count
         /\ DOMAIN Live = 1 .. count
         /\ \A i \in 1 .. count : Live[i] = entries[Place(head, i - 1)] /\ Live[i] \in Stored
<1> DEFINE from == Len(history) - count
<1>1. /\ Len(history) \in Nat /\ count = Min2(Capacity, Len(history))
      /\ from \in Nat /\ from <= Len(history)
      /\ \A i \in from + 1 .. Len(history) : history[i] \in Stored
  BY LogHubAssumption, LenProperties, ElementOfSeq DEF RingInv, Min2
<1>2. Live = SubSeq(history, from + 1, Len(history))
  BY <1>1 DEF Live, Last
<1>3. /\ Len(Live) = count
      /\ \A i \in 1 .. count : Live[i] = history[from + i]
  <2>1. history \in Seq(Stored) /\ from + 1 \in 1 .. Len(history) + 1
    BY <1>1 DEF RingInv
  <2>2. count \in Nat /\ Len(history) - (from + 1) + 1 = count
    BY <1>1, LogHubAssumption DEF RingInv
  <2> HIDE DEF from
  <2> QED
    BY <1>1, <1>2, <2>1, <2>2, SubSeqProperties
<1>4. ASSUME NEW i \in 1 .. count
      PROVE  (head + i - 1) % Capacity = Place(head, i - 1)
  <2>1. i - 1 \in 0 .. Capacity /\ head \in Slots /\ head + i - 1 = head + (i - 1)
    BY LogHubAssumption DEF RingInv, Slots
  <2> QED
    BY <2>1, PlaceIs
<1>5. \A i \in 1 .. count : Live[i] = entries[Place(head, i - 1)] /\ Live[i] \in Stored
  <2>1. \A i \in 1 .. count : entries[Place(head, i - 1)] = history[from + i]
    BY <1>1 DEF RingInv
  <2>2. \A i \in 1 .. count : from + i \in from + 1 .. Len(history)
    <3>1. count \in Nat /\ Len(history) \in Nat /\ from = Len(history) - count
      BY <1>1, LogHubAssumption DEF RingInv
    <3> HIDE DEF from
    <3> QED
      BY <1>1, <3>1
  <2> HIDE DEF from
  <2> QED
    BY <1>1, <1>3, <2>1, <2>2
<1>6. DOMAIN Live = 1 .. count
  <2>1. history \in Seq(Stored)
    BY DEF RingInv
  <2>2. Live \in Seq(Stored)
    BY <1>1, <1>2, <2>1, SubSeqProperties
  <2> QED
    BY <1>3, <2>2
<1> QED
  BY <1>3, <1>4, <1>5, <1>6 DEF RingHoldsNewest

\* For every capacity, any number of wraps and any entries, the ring read
\* from its head is the newest part of the history.
THEOREM RingIsRight == Spec => []RingHoldsNewest
<1>1. RingInv => RingHoldsNewest
  BY RingIsLive
<1>2. Spec => []RingInv
  BY InitRing, RingStep, PTL DEF Spec
<1> QED
  BY <1>1, <1>2, PTL

-----------------------------------------------------------------------------
(* Chains *)

\* No two slots have the same age.
Ages == {age \in [Slots -> Int] : \A s, t \in Slots : age[s] = age[t] => s = t}

\* A chain stands as long as its links and the order of its slots do.
LEMMA SameChain ==
  ASSUME NEW c, NEW d, NEW span, NEW slots, NEW age, NEW later,
         ChainOf(c, span, slots, age),
         \A s \in slots : d.next[s] = c.next[s] /\ d.prev[s] = c.prev[s],
         \A s, t \in slots : later[s] < later[t] <=> age[s] < age[t]
  PROVE  ChainOf(d, span, slots, later)
<1>1. NextRight(d.next, slots, span.tail, later)
  BY DEF ChainOf, NextRight, PrevRight
<1>2. PrevRight(d.prev, slots, span.head, later)
  BY DEF ChainOf, NextRight, PrevRight
<1> QED
  BY <1>1, <1>2 DEF ChainOf

\* A slot younger than all others joins a chain behind its tail.
LEMMA TailChain ==
  ASSUME NEW c, NEW d, NEW old, NEW new, NEW slots \in SUBSET Slots, NEW age \in Ages,
         NEW slot \in Slots \ slots, IsFiniteSet(slots),
         ChainOf(c, old, slots, age),
         \A t \in slots : age[t] < age[slot],
         d.prev = Redirect(c.prev, slot, old.tail),
         d.next = Redirect(Redirect(c.next, old.tail, slot), slot, Nowhere),
         new.head = old.head, new.tail = slot, new.count = old.count + 1
  PROVE  ChainOf(d, new, slots \union {slot}, age)
<1>1. /\ old.head \in slots /\ old.tail \in slots /\ slot \notin slots /\ age \in [Slots -> Int]
      /\ old.head \in Slots /\ old.tail \in Slots
  BY DEF ChainOf, Ages
<1>2. /\ d.next[slot] = Nowhere /\ d.next[old.tail] = slot
      /\ \A s \in slots : s # old.tail => d.next[s] = c.next[s]
      /\ d.prev[slot] = old.tail /\ \A s \in slots : d.prev[s] = c.prev[s]
  BY <1>1 DEF Redirect
<1>3. new.count = Cardinality(slots \union {slot})
  BY FS_AddElement DEF ChainOf
<1>4. \A s \in slots \union {slot} : ~ (age[s] < age[new.head]) /\ ~ (age[new.tail] < age[s])
  BY <1>1 DEF ChainOf
<1>5. NextRight(d.next, slots \union {slot}, new.tail, age)
  <2>1. \A s \in slots : s # old.tail =>
          /\ c.next[s] \in slots /\ age[s] < age[c.next[s]]
          /\ \A t \in slots : ~ (age[s] < age[t] /\ age[t] < age[c.next[s]])
    BY DEF ChainOf, NextRight, PrevRight
  <2>2. \A s \in slots : ~ (age[slot] < age[s]) /\ ~ (age[old.tail] < age[s])
    BY <1>1 DEF ChainOf
  <2>3. ~ (age[slot] < age[slot])
    BY <1>1
  <2> QED
    BY <1>1, <1>2, <2>1, <2>2, <2>3 DEF NextRight, PrevRight
<1>6. PrevRight(d.prev, slots \union {slot}, new.head, age)
  <2>1. \A s \in slots :
          IF s = old.head THEN c.prev[s] = Nowhere
          ELSE /\ c.prev[s] \in slots /\ age[c.prev[s]] < age[s]
               /\ \A t \in slots : ~ (age[c.prev[s]] < age[t] /\ age[t] < age[s])
    BY DEF ChainOf, NextRight, PrevRight
  <2>2. \A s \in slots : ~ (age[slot] < age[s]) /\ ~ (age[old.tail] < age[s])
    BY <1>1 DEF ChainOf
  <2>3. ~ (age[slot] < age[slot])
    BY <1>1
  <2> QED
    BY <1>1, <1>2, <2>1, <2>2, <2>3 DEF NextRight, PrevRight
<1> QED
  BY <1>1, <1>3, <1>4, <1>5, <1>6 DEF ChainOf

\* The oldest slot of a chain is its head, and another one its tail.
LEMMA OldestIsHead ==
  ASSUME NEW c, NEW old, NEW slots \in SUBSET Slots, NEW age \in Ages,
         NEW slot \in slots, slots # {slot}, ChainOf(c, old, slots, age),
         \A t \in slots \ {slot} : age[slot] < age[t]
  PROVE  /\ old.head = slot /\ old.tail # slot
         /\ c.prev[slot] = Nowhere /\ c.next[slot] \in slots \ {slot}
         /\ age[slot] < age[c.next[slot]]
         /\ \A t \in slots : ~ (age[slot] < age[t] /\ age[t] < age[c.next[slot]])
<1>1. /\ old.head \in slots /\ old.tail \in slots /\ age \in [Slots -> Int]
      /\ \A s \in slots : ~ (age[s] < age[old.head]) /\ ~ (age[old.tail] < age[s])
      /\ slot \in Slots
  BY DEF ChainOf, Ages
<1>2. old.head = slot /\ old.tail # slot
  <2>1. PICK t \in slots : t # slot
    OBVIOUS
  <2> QED
    BY <1>1, <2>1
<1>3. /\ c.prev[slot] = Nowhere
      /\ c.next[slot] \in slots /\ age[slot] < age[c.next[slot]]
      /\ \A t \in slots : ~ (age[slot] < age[t] /\ age[t] < age[c.next[slot]])
  BY <1>1, <1>2 DEF ChainOf, NextRight, PrevRight
<1> QED
  BY <1>1, <1>2, <1>3

\* It leaves the chain, and the one after it is the new head.
LEMMA HeadChain ==
  ASSUME NEW c, NEW d, NEW old, NEW new, NEW slots \in SUBSET Slots, NEW age \in Ages,
         NEW slot \in slots, IsFiniteSet(slots), slots # {slot},
         ChainOf(c, old, slots, age),
         \A t \in slots \ {slot} : age[slot] < age[t],
         d.prev = Redirect(Redirect(c.prev, c.next[slot], c.prev[slot]), slot, Nowhere),
         d.next = Redirect(Redirect(c.next, c.prev[slot], c.next[slot]), slot, Nowhere),
         new.head = c.next[slot], new.tail = old.tail, new.count = old.count - 1
  PROVE  ChainOf(d, new, slots \ {slot}, age)
<1> DEFINE after == c.next[slot]
<1>1. /\ old.tail \in slots /\ age \in [Slots -> Int] /\ slot \in Slots /\ Nowhere \notin Slots
      /\ \A s \in slots : ~ (age[old.tail] < age[s])
  BY DEF ChainOf, Ages, Nowhere, Slots
<1>2. /\ old.head = slot /\ old.tail # slot /\ c.prev[slot] = Nowhere
      /\ after \in slots /\ after # slot /\ after \in Slots /\ age[slot] < age[after]
      /\ \A t \in slots : ~ (age[slot] < age[t] /\ age[t] < age[after])
  BY OldestIsHead
<1>3. /\ \A s \in slots \ {slot} : d.next[s] = c.next[s]
      /\ d.prev[after] = Nowhere
      /\ \A s \in slots \ {slot} : s # after => d.prev[s] = c.prev[s]
  BY <1>1, <1>2 DEF Redirect
<1>4. \A s \in slots \ {slot} : ~ (age[s] < age[after])
  BY <1>2
<1>5. new.count = Cardinality(slots \ {slot})
  BY FS_RemoveElement DEF ChainOf
<1>6. NextRight(d.next, slots \ {slot}, new.tail, age)
  <2>1. \A s \in slots :
          IF s = old.tail THEN c.next[s] = Nowhere
          ELSE /\ c.next[s] \in slots /\ age[s] < age[c.next[s]]
               /\ \A t \in slots : ~ (age[s] < age[t] /\ age[t] < age[c.next[s]])
    BY DEF ChainOf, NextRight
  <2>2. \A s \in slots : ~ (age[s] < age[slot])
    BY <1>1
  <2> QED
    BY <1>3, <2>1, <2>2 DEF NextRight
<1>7. PrevRight(d.prev, slots \ {slot}, new.head, age)
  <2>1. \A s \in slots : s # slot =>
               /\ c.prev[s] \in slots /\ age[c.prev[s]] < age[s]
               /\ \A t \in slots : ~ (age[c.prev[s]] < age[t] /\ age[t] < age[s])
    BY <1>2 DEF ChainOf, PrevRight
  <2>2. ASSUME NEW s \in slots, s # slot, s # after
        PROVE  c.prev[s] # slot
    <3>1. s \in Slots /\ age[s] # age[after] /\ ~ (age[s] < age[after])
      BY <1>2, <1>4, <2>2 DEF Ages
    <3>2. age[after] < age[s]
      BY <1>1, <1>2, <3>1
    <3> QED
      BY <1>2, <2>1, <2>2, <3>2
  <2> QED
    BY <1>3, <2>1, <2>2 DEF PrevRight
<1> QED
  BY <1>1, <1>2, <1>4, <1>5, <1>6, <1>7 DEF ChainOf

-----------------------------------------------------------------------------
(* Indices *)

\* What an index keeps for each key in use.
Span == [head : Slots, tail : Slots, count : Nat]

\* The chains are those of the slots in use, and so are the spans.
Index(chains, key, held, age) ==
  /\ ExactFor(chains, key, held, age)
  /\ \A k \in DOMAIN chains.span : chains.span[k] \in Span

LEMMA SlotsFinite ==
  ASSUME NEW S \in SUBSET Slots
  PROVE  IsFiniteSet(S)
<1>1. IsFiniteSet(Slots)
  BY LogHubAssumption, FS_Interval DEF Slots
<1> QED
  BY <1>1, FS_Subset

\* An index is as good with other names for the keys of unused slots, and
\* with other ages in the same order.
LEMMA SameIndex ==
  ASSUME NEW c, NEW key, NEW other, NEW held \in SUBSET Slots, NEW age, NEW later,
         Index(c, key, held, age),
         \A s \in held : other[s] = key[s],
         \A s, t \in held : later[s] < later[t] <=> age[s] < age[t]
  PROVE  Index(c, other, held, later)
<1>1. {other[s] : s \in held} = {key[s] : s \in held}
  OBVIOUS
<1>2. ASSUME NEW k \in DOMAIN c.span
      PROVE  ChainOf(c, c.span[k], {s \in held : other[s] = k}, later)
  <2>1. {s \in held : other[s] = k} = {s \in held : key[s] = k}
    OBVIOUS
  <2>2. ChainOf(c, c.span[k], {s \in held : key[s] = k}, age)
    BY DEF Index, ExactFor
  <2> QED
    BY <2>1, <2>2, SameChain
<1> QED
  BY <1>1, <1>2 DEF Index, ExactFor

\* linkTrace, linkService: the index takes in a slot younger than all others.
LEMMA LinkIndex ==
  ASSUME NEW c, NEW key, NEW held \in SUBSET Slots, NEW age \in Ages,
         NEW slot \in Slots \ held, Index(c, key, held, age),
         \A t \in held : age[t] < age[slot]
  PROVE  Index(Link(c, slot, key[slot]), key, held \union {slot}, age)
<1> DEFINE k == key[slot]
           d == Link(c, slot, k)
           Now(l)  == {s \in held : key[s] = l}
           Then(l) == {s \in held \union {slot} : key[s] = l}
<1>1. /\ DOMAIN c.span = {key[s] : s \in held} \ {Empty}
      /\ \A l \in DOMAIN c.span : ChainOf(c, c.span[l], Now(l), age) /\ c.span[l] \in Span
  BY DEF Index, ExactFor
<1>2. \A l : l # k => Then(l) = Now(l)
  OBVIOUS
<1>3. Then(k) = Now(k) \union {slot}
  OBVIOUS
<1>4. \A l \in DOMAIN c.span : Now(l) \in SUBSET Slots /\ IsFiniteSet(Now(l))
  BY SlotsFinite
<1>5. CASE k = Empty
  <2>1. d = c
    BY <1>5 DEF Link
  <2>2. DOMAIN c.span = {key[s] : s \in held \union {slot}} \ {Empty}
    BY <1>1, <1>5
  <2>3. \A l \in DOMAIN c.span : l # k
    BY <1>1, <1>5
  <2> QED
    BY <1>1, <1>2, <2>1, <2>2, <2>3 DEF Index, ExactFor
<1>6. CASE k # Empty /\ k \notin DOMAIN c.span
  <2>1. /\ d.prev = Redirect(c.prev, slot, Nowhere) /\ d.next = Redirect(c.next, slot, Nowhere)
        /\ d.span = With(c.span, k, [head |-> slot, tail |-> slot, count |-> 1])
    BY <1>6 DEF Link
  <2>2. /\ DOMAIN d.span = DOMAIN c.span \union {k}
        /\ d.span[k] = [head |-> slot, tail |-> slot, count |-> 1]
        /\ \A l \in DOMAIN c.span : d.span[l] = c.span[l] /\ l # k
    BY <1>6, <2>1 DEF With
  <2>3. DOMAIN d.span = {key[s] : s \in held \union {slot}} \ {Empty}
    BY <1>1, <1>6, <2>2
  <2>4. ASSUME NEW l \in DOMAIN c.span
        PROVE  ChainOf(d, d.span[l], Then(l), age)
    <3>1. \A s \in Now(l) : d.next[s] = c.next[s] /\ d.prev[s] = c.prev[s]
      BY <2>1 DEF Redirect
    <3>2. ChainOf(c, c.span[l], Now(l), age) /\ d.span[l] = c.span[l] /\ Then(l) = Now(l)
      BY <1>1, <1>2, <2>2
    <3> HIDE DEF Now, Then, d, k
    <3> QED
      BY <3>1, <3>2, SameChain
  <2>5. ChainOf(d, d.span[k], Then(k), age)
    <3>1. Now(k) = {} /\ Then(k) = {slot}
      BY <1>1, <1>3, <1>6
    <3>2. d.next[slot] = Nowhere /\ d.prev[slot] = Nowhere /\ Cardinality({slot}) = 1
      BY <2>1, FS_Singleton DEF Redirect
    <3>3. ~ (age[slot] < age[slot])
      <4>1. age[slot] \in Int
        BY DEF Ages
      <4> QED
        BY <4>1
    <3>4. d.span[k].head = slot /\ d.span[k].tail = slot /\ d.span[k].count = 1
      BY <2>2
    <3> HIDE DEF Now, Then, d, k
    <3>5. NextRight(d.next, {slot}, slot, age) /\ PrevRight(d.prev, {slot}, slot, age)
      BY <3>2 DEF NextRight, PrevRight
    <3> QED
      BY <3>1, <3>2, <3>3, <3>4, <3>5 DEF ChainOf
  <2>6. d.span[k] \in Span
    BY <2>2 DEF Span
  <2> QED
    BY <1>1, <2>2, <2>3, <2>4, <2>5, <2>6 DEF Index, ExactFor
<1>7. CASE k # Empty /\ k \in DOMAIN c.span
  <2> DEFINE old == c.span[k]
             new == [old EXCEPT !.tail = slot, !.count = old.count + 1]
  <2>1. /\ d.prev = Redirect(c.prev, slot, old.tail)
        /\ d.next = Redirect(Redirect(c.next, old.tail, slot), slot, Nowhere)
        /\ d.span = With(c.span, k, new)
    BY <1>7 DEF Link
  <2>2. /\ DOMAIN d.span = DOMAIN c.span /\ d.span[k] = new
        /\ \A l \in DOMAIN c.span : l # k => d.span[l] = c.span[l]
    BY <1>7, <2>1 DEF With
  <2>3. old \in Span /\ ChainOf(c, old, Now(k), age)
    BY <1>1, <1>7
  <2>4. new.head = old.head /\ new.tail = slot /\ new.count = old.count + 1 /\ new \in Span
    <3>1. /\ old \in [head : Slots, tail : Slots, count : Nat] /\ slot \in Slots
          /\ old.count + 1 \in Nat
      BY <2>3 DEF Span
    <3> HIDE DEF old
    <3> QED
      BY <3>1 DEF Span
  <2>5. DOMAIN d.span = {key[s] : s \in held \union {slot}} \ {Empty}
    BY <1>1, <1>7, <2>2
  <2>6. old.tail \in Now(k)
    BY <2>3 DEF ChainOf
  <2>7. ASSUME NEW l \in DOMAIN c.span, l # k
        PROVE  ChainOf(d, d.span[l], Then(l), age)
    <3>1. \A s \in Now(l) : s # slot /\ s # old.tail /\ s \in Slots
      BY <2>6, <2>7
    <3>2. \A s \in Now(l) : d.next[s] = c.next[s] /\ d.prev[s] = c.prev[s]
      BY <2>1, <3>1 DEF Redirect
    <3>3. ChainOf(c, c.span[l], Now(l), age)
      BY <1>1
    <3> QED
      BY <1>2, <2>2, <2>7, <3>2, <3>3, SameChain
  <2>8. ChainOf(d, d.span[k], Then(k), age)
    <3>1. Now(k) \in SUBSET Slots /\ IsFiniteSet(Now(k)) /\ slot \in Slots \ Now(k)
          /\ \A t \in Now(k) : age[t] < age[slot]
      BY <1>4, <1>7
    <3> HIDE DEF Now, Then, new, old, d, k
    <3> QED
      BY <1>3, <2>1, <2>2, <2>3, <2>4, <3>1, TailChain
  <2> QED
    BY <1>1, <2>2, <2>4, <2>5, <2>7, <2>8 DEF Index, ExactFor
<1> QED
  BY <1>5, <1>6, <1>7

\* unlinkTrace, unlinkService: the oldest slot leaves the index.
LEMMA UnlinkIndex ==
  ASSUME NEW c, NEW key, NEW held \in SUBSET Slots, NEW age \in Ages,
         NEW slot \in held, Index(c, key, held, age),
         \A t \in held \ {slot} : age[slot] < age[t]
  PROVE  Index(Unlink(c, slot, key[slot]), key, held \ {slot}, age)
<1> DEFINE k == key[slot]
           d == Unlink(c, slot, k)
           old == c.span[k]
           Now(l)  == {s \in held : key[s] = l}
           Then(l) == {s \in held \ {slot} : key[s] = l}
<1>1. /\ DOMAIN c.span = {key[s] : s \in held} \ {Empty}
      /\ \A l \in DOMAIN c.span : ChainOf(c, c.span[l], Now(l), age) /\ c.span[l] \in Span
  BY DEF Index, ExactFor
<1>2. \A l : l # k => Then(l) = Now(l)
  OBVIOUS
<1>3. Then(k) = Now(k) \ {slot}
  OBVIOUS
<1>4. \A l \in DOMAIN c.span : Now(l) \in SUBSET Slots /\ IsFiniteSet(Now(l))
  BY SlotsFinite
<1>5. CASE k = Empty
  <2>1. d = c
    BY <1>5 DEF Unlink
  <2>2. DOMAIN c.span = {key[s] : s \in held \ {slot}} \ {Empty}
    BY <1>1, <1>5
  <2>3. \A l \in DOMAIN c.span : ChainOf(c, c.span[l], Then(l), age)
    BY <1>1, <1>2, <1>5
  <2>4. Index(c, key, held \ {slot}, age)
    BY <1>1, <2>2, <2>3 DEF Index, ExactFor
  <2> QED
    BY <2>1, <2>4
<1>6. ASSUME k # Empty
      PROVE  /\ k \in DOMAIN c.span /\ old \in Span /\ ChainOf(c, old, Now(k), age)
             /\ old.count = Cardinality(Now(k)) /\ slot \in Now(k)
             /\ IsFiniteSet(Now(k)) /\ Now(k) \in SUBSET Slots
  <2>1. k \in DOMAIN c.span
    BY <1>1, <1>6
  <2> QED
    BY <1>1, <1>4, <2>1 DEF ChainOf
<1>7. CASE k # Empty /\ Now(k) = {slot}
  <2>1. old.count = 1
    BY <1>6, <1>7, FS_Singleton
  <2>2. /\ d.prev = Redirect(c.prev, slot, Nowhere) /\ d.next = Redirect(c.next, slot, Nowhere)
        /\ d.span = Without(c.span, k)
    BY <1>6, <1>7, <2>1 DEF Unlink
  <2>3. /\ DOMAIN d.span = DOMAIN c.span \ {k}
        /\ \A l \in DOMAIN d.span : d.span[l] = c.span[l]
    BY <2>2 DEF Without
  <2>4. DOMAIN d.span = {key[s] : s \in held \ {slot}} \ {Empty}
    BY <1>1, <1>7, <2>3
  <2>5. ASSUME NEW l \in DOMAIN d.span
        PROVE  ChainOf(d, d.span[l], Then(l), age)
    <3>1. l \in DOMAIN c.span /\ l # k
      BY <2>3
    <3>2. \A s \in Now(l) : d.next[s] = c.next[s] /\ d.prev[s] = c.prev[s]
      BY <2>2, <3>1 DEF Redirect
    <3>3. ChainOf(c, c.span[l], Now(l), age)
      BY <1>1, <3>1
    <3>4. d.span[l] = c.span[l] /\ Then(l) = Now(l)
      BY <1>2, <2>3, <3>1
    <3> HIDE DEF Now, Then, d, k
    <3> QED
      BY <3>2, <3>3, <3>4, SameChain
  <2> QED
    BY <1>1, <2>3, <2>4, <2>5 DEF Index, ExactFor
<1>8. CASE k # Empty /\ Now(k) # {slot}
  <2> DEFINE before == c.prev[slot]
             after == c.next[slot]
             new == [head  |-> IF before = Nowhere THEN after ELSE old.head,
                     tail  |-> IF after = Nowhere THEN before ELSE old.tail,
                     count |-> old.count - 1]
  <2>1. \A t \in Now(k) \ {slot} : age[slot] < age[t]
    OBVIOUS
  <2>2. /\ old.head = slot /\ old.tail # slot /\ before = Nowhere
        /\ after \in Now(k) \ {slot}
    <3>1. /\ Now(k) \in SUBSET Slots /\ slot \in Now(k) /\ Now(k) # {slot}
          /\ ChainOf(c, old, Now(k), age)
      BY <1>6, <1>8
    <3> HIDE DEF Now, k, old
    <3>2. PICK S \in SUBSET Slots : S = Now(k)
      BY <3>1
    <3>3. /\ old.head = slot /\ old.tail # slot
          /\ c.prev[slot] = Nowhere /\ c.next[slot] \in S \ {slot}
          /\ age[slot] < age[c.next[slot]]
          /\ \A t \in S : ~ (age[slot] < age[t] /\ age[t] < age[c.next[slot]])
      <4>1. /\ slot \in S /\ S # {slot} /\ ChainOf(c, old, S, age)
            /\ \A t \in S \ {slot} : age[slot] < age[t]
        BY <2>1, <3>1, <3>2
      <4> HIDE DEF before, after, new
      <4> QED
        BY <4>1, OldestIsHead
    <3> QED
      BY <3>2, <3>3
  <2>3. old.count \in Nat /\ old.count > 1
    <3>1. PICK t \in Now(k) : t # slot
      BY <1>6, <1>8
    <3>2. IsFiniteSet(Now(k) \ {slot}) /\ Cardinality(Now(k)) = Cardinality(Now(k) \ {slot}) + 1
      <4>1. IsFiniteSet(Now(k)) /\ slot \in Now(k)
        BY <1>6, <1>8
      <4>2. Cardinality(Now(k)) \in Nat
        BY <4>1, FS_CardinalityType
      <4>3. IsFiniteSet(Now(k) \ {slot}) /\ Cardinality(Now(k) \ {slot}) = Cardinality(Now(k)) - 1
        BY <4>1, FS_RemoveElement
      <4> HIDE DEF Now, k
      <4> QED
        BY <4>2, <4>3
    <3>3. Cardinality(Now(k) \ {slot}) \in Nat /\ Cardinality(Now(k) \ {slot}) # 0
      <4>1. Now(k) \ {slot} # {}
        BY <3>1
      <4> QED
        BY <3>2, <4>1, FS_CardinalityType, FS_EmptySet
    <3>4. old.count = Cardinality(Now(k))
      BY <1>6, <1>8
    <3> HIDE DEF Now, k, old
    <3> QED
      BY <3>2, <3>3, <3>4
  <2>4. after # Nowhere /\ after \in Slots /\ slot \in Slots
    BY <2>2 DEF Nowhere, Slots
  <2>5. /\ d.prev = Redirect(Redirect(c.prev, after, before), slot, Nowhere)
        /\ d.next = Redirect(Redirect(c.next, before, after), slot, Nowhere)
        /\ d.span = With(c.span, k, new)
    BY <1>6, <1>8, <2>2, <2>3 DEF Unlink
  <2>6. /\ DOMAIN d.span = DOMAIN c.span /\ d.span[k] = new
        /\ \A l \in DOMAIN c.span : l # k => d.span[l] = c.span[l]
    BY <1>6, <1>8, <2>5 DEF With
  <2>7. new.head = after /\ new.tail = old.tail /\ new.count = old.count - 1
    BY <2>2, <2>4
  <2>8. new \in Span
    <3>1. old.tail \in Slots /\ old.count - 1 \in Nat
      BY <1>6, <1>8, <2>3 DEF Span
    <3> QED
      BY <2>2, <2>4, <3>1 DEF Span
  <2>9. DOMAIN d.span = {key[s] : s \in held \ {slot}} \ {Empty}
    <3>1. after \in held \ {slot} /\ key[after] = k
      BY <2>2
    <3> QED
      BY <1>1, <2>6, <3>1
  <2>10. ASSUME NEW l \in DOMAIN c.span, l # k
         PROVE  ChainOf(d, d.span[l], Then(l), age)
    <3>1. \A s \in Now(l) : s # slot /\ s # after /\ s # before /\ s \in Slots
      BY <2>2, <2>10 DEF Nowhere, Slots
    <3>2. \A s \in Now(l) : d.next[s] = c.next[s] /\ d.prev[s] = c.prev[s]
      BY <2>5, <3>1 DEF Redirect
    <3>3. ChainOf(c, c.span[l], Now(l), age)
      BY <1>1
    <3>4. d.span[l] = c.span[l] /\ Then(l) = Now(l)
      BY <1>2, <2>6, <2>10
    <3> HIDE DEF Now, Then, d, k
    <3> QED
      BY <3>2, <3>3, <3>4, SameChain
  <2>11. ChainOf(d, d.span[k], Then(k), age)
    <3>1. /\ Now(k) \in SUBSET Slots /\ slot \in Now(k) /\ Now(k) # {slot} /\ IsFiniteSet(Now(k))
          /\ ChainOf(c, old, Now(k), age)
      BY <1>6, <1>8
    <3> HIDE DEF Now, Then, new, old, d, k
    <3>2. ChainOf(d, new, Now(k) \ {slot}, age)
      BY <2>1, <2>5, <2>7, <3>1, HeadChain
    <3> QED
      BY <1>3, <2>6, <3>2
  <2> QED
    BY <1>1, <2>6, <2>8, <2>9, <2>10, <2>11 DEF Index, ExactFor
<1> QED
  BY <1>5, <1>7, <1>8

\* A new entry in an unused slot joins the index.
LEMMA IndexGrows ==
  ASSUME NEW c, NEW key, NEW new, NEW held \in SUBSET Slots, NEW age \in Ages, NEW later \in Ages,
         NEW slot \in Slots \ held, Index(c, key, held, age),
         \A s \in held : new[s] = key[s],
         \A s, t \in held : later[s] < later[t] <=> age[s] < age[t],
         \A t \in held : later[t] < later[slot]
  PROVE  Index(Link(c, slot, new[slot]), new, held \union {slot}, later)
<1>1. Index(c, new, held, later)
  BY SameIndex
<1> QED
  BY <1>1, LinkIndex

\* A new entry in the slot of the oldest takes its place in the index.
LEMMA IndexTurns ==
  ASSUME NEW c, NEW key, NEW new, NEW age \in Ages, NEW later \in Ages, NEW slot \in Slots,
         Index(c, key, Slots, age),
         \A t \in Slots \ {slot} : age[slot] < age[t],
         \A s \in Slots \ {slot} : new[s] = key[s],
         \A s, t \in Slots \ {slot} : later[s] < later[t] <=> age[s] < age[t],
         \A t \in Slots \ {slot} : later[t] < later[slot]
  PROVE  Index(Link(Unlink(c, slot, key[slot]), slot, new[slot]), new, Slots, later)
<1>1. PICK d : d = Unlink(c, slot, key[slot])
  OBVIOUS
<1>2. Index(d, key, Slots \ {slot}, age)
  BY <1>1, UnlinkIndex
<1>3. PICK held \in SUBSET Slots : held = Slots \ {slot}
  OBVIOUS
<1>4. slot \in Slots \ held /\ held \union {slot} = Slots
  BY <1>3
<1>5. Index(Link(d, slot, new[slot]), new, held \union {slot}, later)
  BY <1>2, <1>3, <1>4, IndexGrows
<1> QED
  BY <1>1, <1>4, <1>5

\* How far a slot is behind the head of the ring.
Behind(h, s) == IF s >= h THEN s - h ELSE s - h + Capacity

LEMMA BehindIs ==
  ASSUME NEW h \in Slots, NEW s \in Slots
  PROVE  (s - h + Capacity) % Capacity = Behind(h, s) /\ Behind(h, s) \in 0 .. Capacity - 1
<1> USE LogHubAssumption
<1>1. CASE s >= h
  <2>1. PICK x \in Capacity .. 2 * Capacity - 1 : x = s - h + Capacity
    BY <1>1 DEF Slots
  <2>2. x % Capacity = x - Capacity
    BY ModAround
  <2>3. x - Capacity = s - h /\ s - h \in 0 .. Capacity - 1
    BY <1>1, <2>1 DEF Slots
  <2> QED
    BY <1>1, <2>1, <2>2, <2>3 DEF Behind
<1>2. CASE ~ (s >= h)
  <2>1. s - h + Capacity \in 0 .. Capacity - 1
    BY <1>2 DEF Slots
  <2>2. (s - h + Capacity) % Capacity = s - h + Capacity
    BY <2>1, ModBelow
  <2> QED
    BY <1>2, <2>1, <2>2 DEF Behind
<1> QED
  BY <1>1, <1>2

\* The ages and the keys of the slots, as the indices see them.
AgeOf      == [s \in Slots |-> Age(s)]
TraceKey   == [s \in Slots |-> entries[s].trace]
ServiceKey == [s \in Slots |-> entries[s].service]

LEMMA RingAges ==
  ASSUME head \in Slots
  PROVE  /\ AgeOf \in Ages
         /\ \A s \in Slots : AgeOf[s] = Behind(head, s) /\ Age(s) = Behind(head, s)
         /\ \A s \in Slots : Behind(head, s) \in 0 .. Capacity - 1
<1>1. \A s \in Slots : Age(s) = Behind(head, s) /\ Behind(head, s) \in 0 .. Capacity - 1
  BY BehindIs DEF Age
<1>2. \A s \in Slots : AgeOf[s] = Behind(head, s)
  BY <1>1 DEF AgeOf
<1>3. AgeOf \in [Slots -> Int]
  BY <1>1 DEF AgeOf
<1>4. \A s, t \in Slots : Behind(head, s) = Behind(head, t) => s = t
  BY LogHubAssumption DEF Behind, Slots
<1> QED
  BY <1>1, <1>2, <1>3, <1>4 DEF Ages

\* The ring is right, and both indices are those of its slots.
ChainInv ==
  /\ RingInv
  /\ Index(traces, TraceKey, Held, AgeOf)
  /\ Index(services, ServiceKey, Held, AgeOf)

LEMMA InitChains == Init => ChainInv
<1> SUFFICES ASSUME Init PROVE ChainInv
  OBVIOUS
<1>1. RingInv
  BY InitRing
<1>2. Held = {}
  <2>1. \A s \in Slots : Age(s) = Behind(head, s) /\ Behind(head, s) \in 0 .. Capacity - 1
    BY <1>1, RingAges DEF RingInv
  <2>2. \A s \in Slots : ~ (Age(s) < count)
    BY <2>1 DEF Init
  <2> QED
    BY <2>2 DEF Held
<1>3. DOMAIN traces.span = {} /\ DOMAIN services.span = {}
  BY DEF Init, NoChains
<1> QED
  BY <1>1, <1>2, <1>3 DEF ChainInv, Index, ExactFor

\* What Ingest does to the slots and their ages, whichever index.
LEMMA RingMoves ==
  ASSUME RingInv, RingInv', NEW e \in Inputs, Ingest(e)
  PROVE  /\ NextSlot \in Slots /\ AgeOf \in Ages /\ AgeOf' \in Ages
         /\ Held \in SUBSET Slots
         /\ \A s, t \in Held \ {NextSlot} : AgeOf'[s] < AgeOf'[t] <=> AgeOf[s] < AgeOf[t]
         /\ \A t \in Held \ {NextSlot} : AgeOf'[t] < AgeOf'[NextSlot]
         /\ Held' = Held \union {NextSlot}
         /\ count = Capacity => /\ Held = Slots
                                /\ \A t \in Slots \ {NextSlot} : AgeOf[NextSlot] < AgeOf[t]
         /\ count # Capacity => NextSlot \notin Held
<1> USE LogHubAssumption
<1>1. head \in Slots /\ head' \in Slots /\ count \in 0 .. Capacity
  BY DEF RingInv
<1>2. /\ AgeOf \in Ages /\ AgeOf' \in Ages
      /\ \A s \in Slots : AgeOf[s] = Behind(head, s) /\ Age(s) = Behind(head, s)
      /\ \A s \in Slots : AgeOf'[s] = Behind(head', s) /\ Age(s)' = Behind(head', s)
      /\ \A s \in Slots : /\ Behind(head, s) \in 0 .. Capacity - 1
                          /\ Behind(head', s) \in 0 .. Capacity - 1
  <2>1. /\ AgeOf \in Ages
        /\ \A s \in Slots : AgeOf[s] = Behind(head, s) /\ Age(s) = Behind(head, s)
        /\ \A s \in Slots : Behind(head, s) \in 0 .. Capacity - 1
    BY <1>1, RingAges
  <2>2. /\ AgeOf' \in Ages
        /\ \A s \in Slots : AgeOf'[s] = Behind(head', s) /\ Age(s)' = Behind(head', s)
    <3>1. \A s \in Slots : Age(s)' = Behind(head', s) /\ Behind(head', s) \in 0 .. Capacity - 1
      BY <1>1, BehindIs DEF Age
    <3>2. AgeOf' = [s \in Slots |-> Age(s)']
      BY DEF AgeOf
    <3>3. \A s \in Slots : AgeOf'[s] = Behind(head', s)
      BY <3>1, <3>2
    <3>4. AgeOf' \in [Slots -> Int]
      BY <3>1, <3>2
    <3>5. \A s, t \in Slots : Behind(head', s) = Behind(head', t) => s = t
      BY <1>1 DEF Behind, Slots
    <3> QED
      BY <3>1, <3>3, <3>4, <3>5 DEF Ages
  <2> QED
    BY <1>1, <2>1, <2>2, BehindIs
<1>3. /\ Held = {s \in Slots : Behind(head, s) < count}
      /\ Held' = {s \in Slots : Behind(head', s) < count'}
  BY <1>2 DEF Held
<1>4. CASE count = Capacity
  <2>1. NextSlot = head /\ count' = Capacity /\ head' = Place(head, 1)
    BY <1>1, <1>4, PlaceIs DEF Ingest, NextSlot
  <2>2. Held = Slots /\ Held' = Slots
    BY <1>2, <1>3, <1>4, <2>1
  <2>3. /\ Behind(head, head) = 0 /\ Behind(head', head) = Capacity - 1
        /\ \A s \in Slots \ {head} : Behind(head', s) = Behind(head, s) - 1 /\ Behind(head, s) > 0
    BY <1>1, <2>1 DEF Behind, Place, Slots
  <2>4. /\ \A s, t \in Slots \ {head} :
             Behind(head', s) < Behind(head', t) <=> Behind(head, s) < Behind(head, t)
        /\ \A t \in Slots \ {head} : Behind(head', t) < Behind(head', head)
    BY <1>2, <2>3
  <2> QED
    BY <1>1, <1>2, <1>4, <2>1, <2>2, <2>3, <2>4
<1>5. CASE count # Capacity
  <2>1. head = 0 /\ count < Capacity /\ count \in Slots
    BY <1>1, <1>5 DEF RingInv, Slots
  <2>2. NextSlot = count /\ head' = 0 /\ count' = count + 1
    <3>1. (head + count) % Capacity = count
      BY <1>1, <2>1, ModBelow DEF Slots
    <3> QED
      BY <1>5, <2>1, <3>1 DEF Ingest, NextSlot
  <2>3. \A s \in Slots : Behind(0, s) = s
    BY DEF Behind, Slots
  <2>4. Held = {s \in Slots : s < count} /\ Held' = {s \in Slots : s < count + 1}
    BY <1>3, <2>1, <2>2, <2>3
  <2>5. Held' = Held \union {count}
    BY <1>1, <2>1, <2>4 DEF Slots
  <2> QED
    BY <1>1, <1>2, <1>5, <2>1, <2>2, <2>3, <2>4, <2>5
<1> QED
  BY <1>4, <1>5

\* What Ingest does to one of the indices.
LEMMA IndexStep ==
  ASSUME RingInv, RingInv', NEW e \in Inputs, Ingest(e), NEW c, NEW key, NEW new,
         Index(c, key, Held, AgeOf), \A s \in Slots \ {NextSlot} : new[s] = key[s]
  PROVE  /\ count = Capacity =>
              Index(Link(Unlink(c, NextSlot, key[NextSlot]), NextSlot, new[NextSlot]), new, Held', AgeOf')
         /\ count # Capacity => Index(Link(c, NextSlot, new[NextSlot]), new, Held', AgeOf')
<1>1. PICK slot \in Slots, age \in Ages, later \in Ages, held \in SUBSET Slots :
        slot = NextSlot /\ age = AgeOf /\ later = AgeOf' /\ held = Held
  BY RingMoves
<1>2. /\ \A s, t \in held \ {slot} : later[s] < later[t] <=> age[s] < age[t]
      /\ \A t \in held \ {slot} : later[t] < later[slot]
      /\ Held' = held \union {slot}
      /\ count = Capacity => held = Slots /\ \A t \in Slots \ {slot} : age[slot] < age[t]
      /\ count # Capacity => slot \notin held
      /\ Index(c, key, held, age) /\ \A s \in Slots \ {slot} : new[s] = key[s]
  BY <1>1, RingMoves
<1>3. CASE count = Capacity
  <2>1. Index(Link(Unlink(c, slot, key[slot]), slot, new[slot]), new, Slots, later)
    BY <1>2, <1>3, IndexTurns
  <2> QED
    BY <1>1, <1>2, <1>3, <2>1
<1>4. CASE count # Capacity
  <2>1. /\ slot \in Slots \ held /\ \A s \in held : new[s] = key[s]
        /\ \A s, t \in held : later[s] < later[t] <=> age[s] < age[t]
        /\ \A t \in held : later[t] < later[slot]
    BY <1>2, <1>4
  <2>2. Index(Link(c, slot, new[slot]), new, held \union {slot}, later)
    BY <1>2, <2>1, IndexGrows
  <2> QED
    BY <1>1, <1>2, <1>4, <2>2
<1> QED
  BY <1>3, <1>4

LEMMA IngestChains ==
  ASSUME ChainInv, NEW e \in Inputs, Ingest(e)
  PROVE  ChainInv'
<1> DEFINE item == Normalised(e)
<1>1. RingInv /\ RingInv' /\ NextSlot \in Slots /\ DOMAIN entries = Slots
  <2>1. RingInv'
    BY IngestFull, IngestFilling DEF ChainInv
  <2> QED
    BY <2>1, RingMoves DEF ChainInv, RingInv
<1>2. /\ entries' = [entries EXCEPT ![NextSlot] = item]
      /\ count = Capacity =>
           /\ traces' = Link(Unlink(traces, NextSlot, entries[NextSlot].trace), NextSlot, item.trace)
           /\ services' = Link(Unlink(services, NextSlot, entries[NextSlot].service), NextSlot,
                               item.service)
      /\ count # Capacity =>
           /\ traces' = Link(Unlink(traces, NextSlot, Vacant.trace), NextSlot, item.trace)
           /\ services' = Link(Unlink(services, NextSlot, Vacant.service), NextSlot, item.service)
  BY DEF Ingest
<1>3. \A c : Unlink(c, NextSlot, Vacant.trace) = c /\ Unlink(c, NextSlot, Vacant.service) = c
  BY DEF Unlink, Vacant
<1>4. entries'[NextSlot] = item /\ \A s \in Slots \ {NextSlot} : entries'[s] = entries[s]
  BY <1>1, <1>2
<1>5. Index(traces, TraceKey, Held, AgeOf)'
  <2>1. PICK key, new : key = TraceKey /\ new = TraceKey'
    OBVIOUS
  <2>2. /\ key[NextSlot] = entries[NextSlot].trace /\ new[NextSlot] = item.trace
        /\ \A s \in Slots \ {NextSlot} : new[s] = key[s]
    BY <1>1, <1>4, <2>1 DEF TraceKey
  <2>3. Index(traces, key, Held, AgeOf)
    BY <2>1 DEF ChainInv
  <2>4. Index(traces', new, Held', AgeOf')
    BY <1>1, <1>2, <1>3, <2>2, <2>3, IndexStep
  <2> QED
    BY <2>1, <2>4 DEF Index, ExactFor
<1>6. Index(services, ServiceKey, Held, AgeOf)'
  <2>1. PICK key, new : key = ServiceKey /\ new = ServiceKey'
    OBVIOUS
  <2>2. /\ key[NextSlot] = entries[NextSlot].service /\ new[NextSlot] = item.service
        /\ \A s \in Slots \ {NextSlot} : new[s] = key[s]
    BY <1>1, <1>4, <2>1 DEF ServiceKey
  <2>3. Index(services, key, Held, AgeOf)
    BY <2>1 DEF ChainInv
  <2>4. Index(services', new, Held', AgeOf')
    BY <1>1, <1>2, <1>3, <2>2, <2>3, IndexStep
  <2> QED
    BY <2>1, <2>4 DEF Index, ExactFor
<1> QED
  BY <1>1, <1>5, <1>6 DEF ChainInv

LEMMA ChainStep == ASSUME ChainInv, [Next]_vars PROVE ChainInv'
<1>1. ASSUME UNCHANGED <<head, count, entries, traces, services, history>>
      PROVE  ChainInv'
  <2>1. RingInv' /\ Held' = Held /\ AgeOf' = AgeOf /\ TraceKey' = TraceKey /\ ServiceKey' = ServiceKey
    BY <1>1 DEF ChainInv, RingInv, Held, AgeOf, Age, TraceKey, ServiceKey
  <2> QED
    BY <1>1, <2>1 DEF ChainInv, Index, ExactFor
<1>2. CASE Close
  BY <1>1, <1>2 DEF Close
<1>3. CASE UNCHANGED vars
  BY <1>1, <1>3 DEF vars
<1> QED
  BY <1>2, <1>3, IngestChains DEF Next

\* For every capacity, any number of wraps and any entries, both indices hold
\* the keys of the ring and no others, and the chain of a key runs through its
\* slots and no others, from the oldest to the newest and back.
THEOREM ChainsAreExact == Spec => []ChainsExact
<1>1. ChainInv => ChainsExact
  BY DEF ChainInv, Index, TraceKey, ServiceKey, AgeOf, ChainsExact
<1>2. Spec => []ChainInv
  BY InitChains, ChainStep, PTL DEF Spec
<1> QED
  BY <1>1, <1>2, PTL

-----------------------------------------------------------------------------
(* Natural numbers *)

\* Every set of natural numbers has a least element.
LEMMA Least ==
  ASSUME NEW T \in SUBSET Nat, T # {}
  PROVE  \E m \in T : \A n \in T : m <= n
<1> DEFINE less == {ss \in Nat \X Nat : ss[1] < ss[2]}
<1>1. IsWellFoundedOn(less, Nat)
  BY NatLessThanWellFounded, Zenon DEF OpToRel
<1>2. PICK x \in T : \A y \in T : ~ (<<y, x>> \in less)
  <2> HIDE DEF less
  <2> QED
    BY <1>1, WFMin
<1>3. \A y \in T : ~ (y < x)
  BY <1>2
<1> QED
  BY <1>3

\* Induction: a set that holds zero and every successor is all of them.
LEMMA Upward ==
  ASSUME NEW T \in SUBSET Nat, 0 \in T, \A n \in T : n + 1 \in T
  PROVE  T = Nat
<1> SUFFICES ASSUME Nat \ T # {} PROVE FALSE
  OBVIOUS
<1>1. PICK m \in Nat \ T : \A n \in Nat \ T : m <= n
  BY Least
<1>2. m # 0 /\ m - 1 \in Nat /\ m - 1 \in T
  BY <1>1
<1> QED
  BY <1>1, <1>2

-----------------------------------------------------------------------------
(* Sequences in order *)

\* A sequence that runs once through a set, from the lowest rank up.
Ordered(s, S, rank) ==
  /\ s \in Seq(S)
  /\ \A x \in S : \E i \in 1 .. Len(s) : s[i] = x
  /\ \A i, j \in 1 .. Len(s) : i < j => rank[s[i]] < rank[s[j]]

LEMMA OrderedSeq ==
  ASSUME NEW S, NEW rank, NEW s, Ordered(s, S, rank)
  PROVE  Len(s) \in Nat /\ \A i \in 1 .. Len(s) : s[i] \in S
<1>1. s \in Seq(S)
  BY DEF Ordered
<1> QED
  BY <1>1

\* There is one such sequence: none goes on where another ends,
LEMMA OrderedNotLonger ==
  ASSUME NEW S, NEW rank, \A x \in S : rank[x] \in Int,
         NEW s, NEW t, Ordered(s, S, rank), Ordered(t, S, rank),
         \A i \in 1 .. Len(s) : i <= Len(t) => s[i] = t[i]
  PROVE  Len(t) <= Len(s)
<1>1. Len(s) \in Nat /\ Len(t) \in Nat /\ \A i \in 1 .. Len(t) : t[i] \in S
  BY DEF Ordered
<1> SUFFICES ASSUME Len(s) < Len(t) PROVE FALSE
  BY <1>1
<1>2. Len(s) + 1 \in 1 .. Len(t)
  BY <1>1
<1>3. PICK j \in 1 .. Len(s) : s[j] = t[Len(s) + 1]
  BY <1>1, <1>2 DEF Ordered
<1>4. j \in 1 .. Len(t) /\ j < Len(s) + 1 /\ t[j] = t[Len(s) + 1]
  BY <1>1, <1>3
<1>5. rank[t[j]] < rank[t[Len(s) + 1]]
  BY <1>2, <1>4 DEF Ordered
<1> QED
  BY <1>1, <1>2, <1>4, <1>5

\* and no two of them first differ anywhere.
LEMMA OrderedAgree ==
  ASSUME NEW S, NEW rank, \A x \in S : rank[x] \in Int,
         NEW s, NEW t, Ordered(s, S, rank), Ordered(t, S, rank),
         NEW i \in 1 .. Len(s), i <= Len(t), \A j \in 1 .. i - 1 : s[j] = t[j]
  PROVE  s[i] = t[i]
<1>0. /\ Len(s) \in Nat /\ \A k \in 1 .. Len(s) : s[k] \in S
      /\ Len(t) \in Nat /\ \A k \in 1 .. Len(t) : t[k] \in S
  BY OrderedSeq
<1>1. /\ Len(s) \in Nat /\ Len(t) \in Nat /\ i \in 1 .. Len(t) /\ i \in Nat
      /\ s[i] \in S /\ t[i] \in S
  BY <1>0
<1>2. PICK j \in 1 .. Len(t) : t[j] = s[i]
  BY <1>1 DEF Ordered
<1>3. PICK k \in 1 .. Len(s) : s[k] = t[i]
  BY <1>1 DEF Ordered
<1>4. rank[s[i]] \in Int /\ rank[t[i]] \in Int
  BY <1>1
<1>5. ~ (j < i)
  <2> SUFFICES ASSUME j < i PROVE FALSE
    OBVIOUS
  <2>1. j \in 1 .. i - 1 /\ j \in 1 .. Len(s)
    BY <1>1
  <2>2. rank[s[j]] < rank[s[i]] /\ s[j] = s[i]
    BY <1>2, <2>1 DEF Ordered
  <2> QED
    BY <1>4, <2>2
<1>6. ~ (k < i)
  <2> SUFFICES ASSUME k < i PROVE FALSE
    OBVIOUS
  <2>1. k \in 1 .. i - 1 /\ k \in 1 .. Len(t)
    BY <1>1
  <2>2. rank[t[k]] < rank[t[i]] /\ t[k] = t[i]
    BY <1>1, <1>3, <2>1 DEF Ordered
  <2> QED
    BY <1>4, <2>2
<1>7. i < j => rank[t[i]] < rank[s[i]]
  BY <1>1, <1>2 DEF Ordered
<1>8. i < k => rank[s[i]] < rank[t[i]]
  BY <1>1, <1>3 DEF Ordered
<1> QED
  BY <1>1, <1>2, <1>3, <1>4, <1>5, <1>6, <1>7, <1>8

LEMMA OrderedOnce ==
  ASSUME NEW S, NEW rank, \A x \in S : rank[x] \in Int,
         NEW s, NEW t, Ordered(s, S, rank), Ordered(t, S, rank)
  PROVE  s = t
<1>1. Len(s) \in Nat /\ Len(t) \in Nat /\ s \in Seq(S) /\ t \in Seq(S)
  BY DEF Ordered
<1> DEFINE Apart == {i \in Nat : i \in 1 .. Len(s) /\ i <= Len(t) /\ s[i] # t[i]}
<1>2. Apart = {}
  <2> SUFFICES ASSUME Apart # {} PROVE FALSE
    OBVIOUS
  <2>1. PICK i \in Apart : \A j \in Apart : i <= j
    <3>1. Apart \in SUBSET Nat
      OBVIOUS
    <3> HIDE DEF Apart
    <3> QED
      BY <3>1, Least
  <2>2. i \in 1 .. Len(s) /\ i <= Len(t) /\ s[i] # t[i] /\ i \in Nat
    OBVIOUS
  <2>3. \A j \in 1 .. i - 1 : s[j] = t[j]
    BY <1>1, <2>1, <2>2
  <2> QED
    BY <2>2, <2>3, OrderedAgree
<1>3. /\ \A i \in 1 .. Len(s) : i <= Len(t) => s[i] = t[i]
      /\ \A i \in 1 .. Len(t) : i <= Len(s) => t[i] = s[i]
  <2>1. \A i \in Nat : i \in 1 .. Len(s) /\ i <= Len(t) => s[i] = t[i]
    BY <1>2
  <2> QED
    BY <1>1, <2>1
<1>4. Len(t) <= Len(s) /\ Len(s) <= Len(t)
  BY <1>3, OrderedNotLonger
<1>5. Len(s) = Len(t)
  BY <1>1, <1>4
<1> QED
  BY <1>1, <1>3, <1>5, SeqEqual

-----------------------------------------------------------------------------
(* Filtered *)

\* The recursion of Filtered.
Keeps(f, s, S) ==
  f = [n \in 0 .. Len(s) |->
         IF n = 0 THEN <<>>
         ELSE IF s[n] \in S THEN Append(f[n - 1], s[n]) ELSE f[n - 1]]

LEMMA KeepsExists ==
  ASSUME NEW s, Len(s) \in Nat, NEW S
  PROVE  \E f : Keeps(f, s, S)
<1> DEFINE more(v, n) == IF s[n] \in S THEN Append(v, s[n]) ELSE v
           body(f, n) == IF n = 0 THEN <<>> ELSE more(f[n - 1], n)
           From(m) == \E f : f = [n \in 0 .. m |-> body(f, n)]
           T == {m \in Nat : From(m)}
<1> HIDE DEF more
<1>1. 0 \in T
  <2> DEFINE e == [n \in 0 .. 0 |-> <<>>]
  <2>1. e = [n \in 0 .. 0 |-> body(e, n)]
    OBVIOUS
  <2> QED
    BY <2>1
<1>2. ASSUME NEW m \in T PROVE m + 1 \in T
  <2>1. PICK f : f = [n \in 0 .. m |-> body(f, n)]
    OBVIOUS
  <2>2. m \in Nat
    OBVIOUS
  <2> DEFINE g == [n \in 0 .. m + 1 |-> IF n = m + 1 THEN more(f[m], m + 1) ELSE f[n]]
  <2>3. ASSUME NEW n \in 0 .. m + 1 PROVE g[n] = body(g, n)
    <3>1. CASE n = m + 1
      <4>1. g[n - 1] = f[m] /\ n # 0 /\ g[n] = more(f[m], n)
        BY <2>2, <3>1
      <4> HIDE DEF g
      <4> QED
        BY <4>1
    <3>2. CASE n # m + 1
      <4>1. n \in 0 .. m /\ (n # 0 => n - 1 \in 0 .. m)
        BY <2>2, <3>2
      <4>2. (n # 0 => g[n - 1] = f[n - 1]) /\ f[n] = body(f, n) /\ g[n] = f[n]
        BY <2>1, <2>2, <3>2, <4>1
      <4> HIDE DEF g
      <4> QED
        BY <4>2
    <3> QED
      BY <3>1, <3>2
  <2>4. g = [n \in 0 .. m + 1 |-> body(g, n)]
    <3> DEFINE h == [n \in 0 .. m + 1 |-> body(g, n)]
    <3>1. \A n \in 0 .. m + 1 : g[n] = h[n]
      BY <2>3
    <3>2. DOMAIN g = 0 .. m + 1 /\ DOMAIN h = 0 .. m + 1
      OBVIOUS
    <3> QED
      BY <3>1, <3>2
  <2>5. From(m + 1)
    BY <2>4
  <2> HIDE DEF From
  <2> QED
    BY <2>2, <2>5
<1>3. T = Nat
  <2>1. T \in SUBSET Nat
    OBVIOUS
  <2> HIDE DEF T
  <2> QED
    BY <1>1, <1>2, <2>1, Upward
<1>4. From(Len(s))
  BY <1>3
<1> QED
  BY <1>4 DEF Keeps, more

\* The places of a sequence up to n whose elements belong to a set.
Places(s, S, n) == {i \in 1 .. n : s[i] \in S}

Itself == [i \in Nat |-> i]

\* What is kept of a sequence are its elements at these places, in order.
Picked(v, s, S, n) ==
  \E g : Ordered(g, Places(s, S, n), Itself) /\ v = [i \in 1 .. Len(g) |-> s[g[i]]]

LEMMA PickedMore ==
  ASSUME NEW s, NEW S, NEW n \in Nat, NEW v, Picked(v, s, S, n), s[n + 1] \in S
  PROVE  Picked(Append(v, s[n + 1]), s, S, n + 1)
<1>1. PICK g : Ordered(g, Places(s, S, n), Itself) /\ v = [i \in 1 .. Len(g) |-> s[g[i]]]
  BY DEF Picked
<1>2. PICK P : P = Places(s, S, n)
  OBVIOUS
<1>3. /\ g \in Seq(P) /\ Len(g) \in Nat /\ \A i \in 1 .. Len(g) : g[i] \in P
      /\ \A x \in P : \E i \in 1 .. Len(g) : g[i] = x
      /\ \A i, j \in 1 .. Len(g) : i < j => Itself[g[i]] < Itself[g[j]]
  BY <1>1, <1>2 DEF Ordered
<1>4. PICK Q : Q = Places(s, S, n + 1)
  OBVIOUS
<1>5. Q = P \union {n + 1} /\ \A x \in P : x \in Nat /\ x <= n
  BY <1>2, <1>4 DEF Places
<1>6. PICK h : h = Append(g, n + 1)
  OBVIOUS
<1>7. PICK k \in Nat : k = Len(g)
  BY <1>3
<1>8. /\ h \in Seq(Q) /\ Len(h) = k + 1 /\ h[k + 1] = n + 1
      /\ \A i \in 1 .. k : h[i] = g[i]
  <2>1. g \in Seq(Q) /\ n + 1 \in Q
    BY <1>3, <1>5
  <2> QED
    BY <1>6, <1>7, <2>1, AppendProperties
<1>9. \A x \in Q : \E i \in 1 .. Len(h) : h[i] = x
  <2> SUFFICES ASSUME NEW x \in Q PROVE \E i \in 1 .. k + 1 : h[i] = x
    BY <1>8
  <2>1. CASE x = n + 1
    BY <1>8, <2>1
  <2>2. CASE x # n + 1
    <3>1. PICK i \in 1 .. k : g[i] = x
      BY <1>3, <1>5, <1>7, <2>2
    <3> QED
      BY <1>8, <3>1
  <2> QED
    BY <2>1, <2>2
<1>10. ASSUME NEW i \in 1 .. Len(h), NEW j \in 1 .. Len(h), i < j
       PROVE  Itself[h[i]] < Itself[h[j]]
  <2>1. i \in 1 .. k /\ j \in 1 .. k + 1 /\ h[i] = g[i] /\ g[i] \in P
    BY <1>3, <1>7, <1>8, <1>10
  <2>2. CASE j = k + 1
    <3>1. h[j] = n + 1 /\ h[i] \in Nat /\ h[i] <= n
      BY <1>5, <1>8, <2>1, <2>2
    <3> QED
      BY <3>1 DEF Itself
  <2>3. CASE j # k + 1
    <3>1. j \in 1 .. k
      BY <1>7, <1>8, <2>3
    <3>2. h[j] = g[j] /\ Itself[g[i]] < Itself[g[j]]
      BY <1>3, <1>7, <1>8, <1>10, <2>1, <3>1
    <3> QED
      BY <2>1, <3>2
  <2> QED
    BY <2>2, <2>3
<1>11. Ordered(h, Q, Itself)
  BY <1>8, <1>9, <1>10 DEF Ordered
<1>12. Append(v, s[n + 1]) = [i \in 1 .. Len(h) |-> s[h[i]]]
  <2>1. Len(v) = k /\ DOMAIN v = 1 .. k /\ \A i \in 1 .. k : v[i] = s[g[i]]
    BY <1>1, <1>7
  <2>2. Append(v, s[n + 1]) = [i \in 1 .. k + 1 |-> IF i \in 1 .. k THEN v[i] ELSE s[n + 1]]
    BY <2>1, <1>7
  <2>3. \A i \in 1 .. k + 1 : (IF i \in 1 .. k THEN v[i] ELSE s[n + 1]) = s[h[i]]
    BY <1>7, <1>8, <2>1
  <2> QED
    BY <1>8, <2>2, <2>3
<1> QED
  BY <1>4, <1>11, <1>12 DEF Picked

LEMMA FilteredIs ==
  ASSUME NEW s, Len(s) \in Nat, NEW S
  PROVE  Picked(Filtered(s, S), s, S, Len(s))
<1> DEFINE f == CHOOSE f : Keeps(f, s, S)
           T == {n \in Nat : n <= Len(s) => Picked(f[n], s, S, n)}
<1>1. Filtered(s, S) = f[Len(s)]
  BY DEF Filtered, Keeps
<1>2. Keeps(f, s, S)
  BY KeepsExists
<1> HIDE DEF f
<1>3. 0 \in T
  <2>1. f[0] = <<>> /\ Places(s, S, 0) = {}
    BY <1>2 DEF Keeps, Places
  <2>2. Ordered(<<>>, {}, Itself) /\ <<>> = [i \in 1 .. Len(<<>>) |-> s[<<>>[i]]]
    BY DEF Ordered
  <2> QED
    BY <2>1, <2>2 DEF Picked
<1>4. ASSUME NEW n \in T PROVE n + 1 \in T
  <2> SUFFICES ASSUME n + 1 <= Len(s) PROVE Picked(f[n + 1], s, S, n + 1)
    OBVIOUS
  <2>1. n \in Nat /\ Picked(f[n], s, S, n)
    OBVIOUS
  <2>2. f[n + 1] = IF s[n + 1] \in S THEN Append(f[n], s[n + 1]) ELSE f[n]
    <3>1. n + 1 \in 0 .. Len(s) /\ n + 1 # 0 /\ (n + 1) - 1 = n
      BY <2>1
    <3> QED
      BY <1>2, <3>1 DEF Keeps
  <2>3. CASE s[n + 1] \in S
    BY <2>1, <2>2, <2>3, PickedMore
  <2>4. CASE s[n + 1] \notin S
    <3>1. Places(s, S, n + 1) = Places(s, S, n)
      BY <2>1, <2>4 DEF Places
    <3> QED
      BY <2>1, <2>2, <2>4, <3>1 DEF Picked
  <2> QED
    BY <2>3, <2>4
<1>5. T = Nat
  <2>1. T \in SUBSET Nat
    OBVIOUS
  <2> HIDE DEF T
  <2> QED
    BY <1>3, <1>4, <2>1, Upward
<1> QED
  BY <1>1, <1>5

\* What is kept of an ordered sequence is in the same order.
LEMMA FilteredOrdered ==
  ASSUME NEW c, NEW S, NEW F, NEW rank, Ordered(c, S, rank)
  PROVE  Ordered(Filtered(c, F), {x \in S : x \in F}, rank)
<1>1. /\ Len(c) \in Nat /\ \A i \in 1 .. Len(c) : c[i] \in S
      /\ \A x \in S : \E i \in 1 .. Len(c) : c[i] = x
      /\ \A i, j \in 1 .. Len(c) : i < j => rank[c[i]] < rank[c[j]]
  BY DEF Ordered
<1>2. PICK g, v : /\ v = Filtered(c, F) /\ v = [i \in 1 .. Len(g) |-> c[g[i]]]
                  /\ Ordered(g, Places(c, F, Len(c)), Itself)
  BY <1>1, FilteredIs DEF Picked
<1>3. PICK P : P = Places(c, F, Len(c))
  OBVIOUS
<1>4. /\ Len(g) \in Nat /\ \A i \in 1 .. Len(g) : g[i] \in P
      /\ \A x \in P : \E i \in 1 .. Len(g) : g[i] = x
      /\ \A i, j \in 1 .. Len(g) : i < j => g[i] < g[j]
  <2>1. P \in SUBSET Nat
    BY <1>1, <1>3 DEF Places
  <2>2. /\ Len(g) \in Nat /\ \A i \in 1 .. Len(g) : g[i] \in P
        /\ \A x \in P : \E i \in 1 .. Len(g) : g[i] = x
        /\ \A i, j \in 1 .. Len(g) : i < j => Itself[g[i]] < Itself[g[j]]
    <3>1. Ordered(g, P, Itself)
      BY <1>2, <1>3
    <3>2. Len(g) \in Nat /\ \A i \in 1 .. Len(g) : g[i] \in P
      BY <3>1, OrderedSeq
    <3> QED
      BY <3>1, <3>2 DEF Ordered
  <2> QED
    BY <2>1, <2>2 DEF Itself
<1>5. /\ Len(v) = Len(g) /\ \A i \in 1 .. Len(v) : v[i] = c[g[i]]
      /\ \A x \in P : x \in 1 .. Len(c) /\ c[x] \in F
  BY <1>2, <1>3, <1>4 DEF Places
<1>6. v \in Seq({x \in S : x \in F})
  <2>1. \A i \in 1 .. Len(g) : c[g[i]] \in {x \in S : x \in F}
    BY <1>1, <1>4, <1>5
  <2> QED
    BY <1>2, <1>4, <2>1
<1>7. ASSUME NEW x \in S, x \in F PROVE \E i \in 1 .. Len(v) : v[i] = x
  <2>1. PICK j \in 1 .. Len(c) : c[j] = x
    BY <1>1
  <2>2. j \in P
    BY <1>3, <1>7, <2>1 DEF Places
  <2> QED
    BY <1>4, <1>5, <2>1, <2>2
<1>8. \A i, j \in 1 .. Len(v) : i < j => rank[v[i]] < rank[v[j]]
  BY <1>1, <1>4, <1>5
<1> QED
  BY <1>2, <1>6, <1>7, <1>8 DEF Ordered

-----------------------------------------------------------------------------
(* Walk *)

\* The recursion of Walk.
Walks(f, links, from) ==
  f = [n \in 0 .. Capacity |->
         IF n = 0 THEN from
         ELSE IF f[n - 1] = Nowhere THEN Nowhere ELSE links[f[n - 1]]]

LEMMA WalksExists ==
  ASSUME NEW links, NEW from
  PROVE  \E f : Walks(f, links, from)
<1> DEFINE onto(v) == IF v = Nowhere THEN Nowhere ELSE links[v]
           body(f, n) == IF n = 0 THEN from ELSE onto(f[n - 1])
           From(m) == \E f : f = [n \in 0 .. m |-> body(f, n)]
           T == {m \in Nat : From(m)}
<1> HIDE DEF onto
<1>1. 0 \in T
  <2> DEFINE e == [n \in 0 .. 0 |-> from]
  <2>1. e = [n \in 0 .. 0 |-> body(e, n)]
    OBVIOUS
  <2> QED
    BY <2>1
<1>2. ASSUME NEW m \in T PROVE m + 1 \in T
  <2>1. PICK f : f = [n \in 0 .. m |-> body(f, n)]
    OBVIOUS
  <2>2. m \in Nat
    OBVIOUS
  <2> DEFINE g == [n \in 0 .. m + 1 |-> IF n = m + 1 THEN onto(f[m]) ELSE f[n]]
  <2>3. ASSUME NEW n \in 0 .. m + 1 PROVE g[n] = body(g, n)
    <3>1. CASE n = m + 1
      <4>1. g[n - 1] = f[m] /\ n # 0 /\ g[n] = onto(f[m])
        BY <2>2, <3>1
      <4> HIDE DEF g
      <4> QED
        BY <4>1
    <3>2. CASE n # m + 1
      <4>1. n \in 0 .. m /\ (n # 0 => n - 1 \in 0 .. m)
        BY <2>2, <3>2
      <4>2. (n # 0 => g[n - 1] = f[n - 1]) /\ f[n] = body(f, n) /\ g[n] = f[n]
        BY <2>1, <2>2, <3>2, <4>1
      <4> HIDE DEF g
      <4> QED
        BY <4>2
    <3> QED
      BY <3>1, <3>2
  <2>4. g = [n \in 0 .. m + 1 |-> body(g, n)]
    <3> DEFINE h == [n \in 0 .. m + 1 |-> body(g, n)]
    <3>1. \A n \in 0 .. m + 1 : g[n] = h[n]
      BY <2>3
    <3>2. DOMAIN g = 0 .. m + 1 /\ DOMAIN h = 0 .. m + 1
      OBVIOUS
    <3> QED
      BY <3>1, <3>2
  <2>5. From(m + 1)
    BY <2>4
  <2> HIDE DEF From
  <2> QED
    BY <2>2, <2>5
<1>3. T = Nat
  <2>1. T \in SUBSET Nat
    OBVIOUS
  <2> HIDE DEF T
  <2> QED
    BY <1>1, <1>2, <2>1, Upward
<1>4. From(Capacity)
  BY <1>3, LogHubAssumption
<1> QED
  BY <1>4 DEF Walks, onto

\* After n links the walk has met all slots that are younger than the one it is
\* at, from the youngest on, and at its end all slots.  A slot is younger by one
\* link at least than the next, so that no more than the ring has are met.
Passed(f, slots, age, n) ==
  /\ f[n] = Nowhere \/ (f[n] \in slots /\ age[f[n]] < Capacity - n)
  /\ f[n] = Nowhere => \A x \in slots : \E m \in 0 .. n - 1 : f[m] = x
  /\ f[n] # Nowhere => /\ \A m \in 0 .. n - 1 : f[m] \in slots /\ age[f[n]] < age[f[m]]
                       /\ \A x \in slots : age[f[n]] < age[x] => \E m \in 0 .. n - 1 : f[m] = x

LEMMA PassedOn ==
  ASSUME NEW f, NEW links, NEW slots \in SUBSET Slots, NEW age \in Ages, NEW oldest \in slots,
         \A s \in slots : age[s] \in 0 .. Capacity - 1 /\ ~ (age[s] < age[oldest]),
         PrevRight(links, slots, oldest, age),
         NEW n \in 0 .. Capacity - 1, Passed(f, slots, age, n),
         f[n + 1] = IF f[n] = Nowhere THEN Nowhere ELSE links[f[n]]
  PROVE  Passed(f, slots, age, n + 1)
<1> USE LogHubAssumption
<1>1. \A s \in slots : s \in Slots /\ s # Nowhere /\ age[s] \in Int
  BY DEF Slots, Nowhere
<1>2. n \in Nat /\ \A m : m \in 0 .. (n + 1) - 1 <=> (m \in 0 .. n - 1 \/ m = n)
  OBVIOUS
<1>3. CASE f[n] = Nowhere
  <2>1. f[n + 1] = Nowhere
    BY <1>3
  <2>2. \A x \in slots : \E m \in 0 .. (n + 1) - 1 : f[m] = x
    BY <1>2, <1>3 DEF Passed
  <2> QED
    BY <2>1, <2>2 DEF Passed
<1>4. CASE f[n] # Nowhere
  <2>1. PICK s \in slots : s = f[n]
    BY <1>4 DEF Passed
  <2>2. /\ age[s] < Capacity - n
        /\ \A m \in 0 .. n - 1 : f[m] \in slots /\ age[s] < age[f[m]]
        /\ \A x \in slots : age[s] < age[x] => \E m \in 0 .. n - 1 : f[m] = x
    BY <1>4, <2>1 DEF Passed
  <2>3. f[n + 1] = links[s]
    BY <1>4, <2>1
  <2>4. ASSUME NEW x \in slots, ~ (age[x] < age[s])
        PROVE  \E m \in 0 .. (n + 1) - 1 : f[m] = x
    <3>1. CASE x = s
      BY <1>2, <2>1, <3>1
    <3>2. CASE x # s
      <4>1. age[s] < age[x]
        BY <1>1, <2>4, <3>2 DEF Ages
      <4> QED
        BY <1>2, <2>2, <4>1
    <3> QED
      BY <3>1, <3>2
  <2>5. CASE s = oldest
    <3>1. f[n + 1] = Nowhere
      BY <2>3, <2>5 DEF PrevRight
    <3>2. \A x \in slots : ~ (age[x] < age[s])
      BY <2>5
    <3>3. \A x \in slots : \E m \in 0 .. (n + 1) - 1 : f[m] = x
      BY <2>4, <3>2
    <3> QED
      BY <3>1, <3>3 DEF Passed
  <2>6. CASE s # oldest
    <3>1. PICK p \in slots : p = links[s]
      BY <2>6 DEF PrevRight
    <3>2. age[p] < age[s] /\ \A x \in slots : ~ (age[p] < age[x] /\ age[x] < age[s])
      BY <2>6, <3>1 DEF PrevRight
    <3>3. f[n + 1] = p /\ p # Nowhere
      BY <1>1, <2>3, <3>1
    <3>4. age[p] < Capacity - (n + 1)
      BY <1>1, <1>2, <2>2, <3>2
    <3>5. \A m \in 0 .. (n + 1) - 1 : f[m] \in slots /\ age[p] < age[f[m]]
      BY <1>1, <1>2, <2>1, <2>2, <3>2
    <3>6. \A x \in slots : age[p] < age[x] => \E m \in 0 .. (n + 1) - 1 : f[m] = x
      BY <2>4, <3>2
    <3> QED
      BY <3>3, <3>4, <3>5, <3>6 DEF Passed
  <2> QED
    BY <2>5, <2>6
<1> QED
  BY <1>3, <1>4

\* The order of slots from the youngest to the oldest.
Recent(age) == [s \in Slots |-> 0 - age[s]]

\* The walk from the tail of a chain meets just the slots of the chain,
\* youngest first.
LEMMA WalkOrdered ==
  ASSUME NEW links, NEW slots \in SUBSET Slots, NEW age \in Ages, NEW oldest \in slots,
         NEW tail \in slots,
         \A s \in slots : /\ age[s] \in 0 .. Capacity - 1
                          /\ ~ (age[s] < age[oldest]) /\ ~ (age[tail] < age[s]),
         PrevRight(links, slots, oldest, age)
  PROVE  Ordered(Walk(links, tail), slots, Recent(age))
<1> USE LogHubAssumption
<1> DEFINE f == CHOOSE f : Walks(f, links, tail)
           visited == {n \in 0 .. Capacity : f[n] # Nowhere}
           T == {n \in Nat : n <= Capacity => Passed(f, slots, age, n)}
           Ends == {n \in Nat : n <= Capacity /\ f[n] = Nowhere}
<1>1. Walk(links, tail) = [i \in 1 .. Cardinality(visited) |-> f[i - 1]]
  BY DEF Walk, Walks
<1>2. Walks(f, links, tail)
  BY WalksExists
<1> HIDE DEF f
<1>3. \A s \in slots : s \in Slots /\ s # Nowhere /\ age[s] \in Int
  BY DEF Slots, Nowhere
<1>4. T = Nat
  <2>1. 0 \in T
    <3>1. f[0] = tail
      BY <1>2 DEF Walks
    <3>2. tail # Nowhere /\ age[tail] < Capacity - 0 /\ \A x \in slots : ~ (age[tail] < age[x])
      BY <1>3
    <3> QED
      BY <3>1, <3>2 DEF Passed
  <2>2. ASSUME NEW n \in T PROVE n + 1 \in T
    <3> SUFFICES ASSUME n + 1 <= Capacity PROVE Passed(f, slots, age, n + 1)
      OBVIOUS
    <3>1. n \in 0 .. Capacity - 1 /\ Passed(f, slots, age, n)
      OBVIOUS
    <3>2. n + 1 \in 0 .. Capacity /\ n + 1 # 0 /\ (n + 1) - 1 = n
      BY <3>1
    <3>3. f[n + 1] = IF f[n] = Nowhere THEN Nowhere ELSE links[f[n]]
      BY <1>2, <3>2 DEF Walks
    <3> QED
      BY <3>1, <3>3, PassedOn
  <2>3. T \in SUBSET Nat
    OBVIOUS
  <2> HIDE DEF T
  <2> QED
    BY <2>1, <2>2, <2>3, Upward
<1>5. \A n \in 0 .. Capacity : Passed(f, slots, age, n)
  BY <1>4
<1>6. PICK k \in Ends : \A n \in Ends : k <= n
  <2>1. f[Capacity] = Nowhere
    <3>1. Passed(f, slots, age, Capacity) /\ Capacity - Capacity = 0
      BY <1>5
    <3>2. \A s \in slots : ~ (age[s] < 0)
      OBVIOUS
    <3> QED
      BY <3>1, <3>2 DEF Passed
  <2>2. Ends \in SUBSET Nat /\ Ends # {}
    BY <2>1
  <2> HIDE DEF Ends
  <2> QED
    BY <2>2, Least
<1>7. k \in Nat /\ k <= Capacity /\ f[k] = Nowhere /\ k \in 0 .. Capacity
  OBVIOUS
<1>8. visited = 0 .. k - 1
  <2>1. ASSUME NEW n \in 0 .. Capacity, n < k PROVE f[n] # Nowhere
    BY <1>6, <1>7, <2>1
  <2>2. ASSUME NEW n \in 0 .. Capacity, ~ (n < k) PROVE f[n] = Nowhere
    <3> SUFFICES ASSUME f[n] # Nowhere PROVE FALSE
      OBVIOUS
    <3>1. n # k /\ k \in 0 .. n - 1
      BY <1>7, <2>2
    <3>2. f[k] \in slots
      BY <1>5, <3>1 DEF Passed
    <3> QED
      BY <1>3, <1>7, <3>2
  <2> QED
    BY <1>7, <2>1, <2>2
<1>9. Cardinality(visited) = k
  <2>1. Cardinality(0 .. k - 1) = IF 0 > k - 1 THEN 0 ELSE (k - 1) - 0 + 1
    BY <1>7, FS_Interval
  <2> HIDE DEF visited
  <2> QED
    BY <1>7, <1>8, <2>1
<1>10. PICK w : w = [i \in 1 .. k |-> f[i - 1]]
  OBVIOUS
<1>11. Walk(links, tail) = w /\ Len(w) = k
  BY <1>1, <1>7, <1>9, <1>10
<1>12. ASSUME NEW n \in 0 .. k - 1
       PROVE  /\ f[n] \in slots
              /\ \A m \in 0 .. n - 1 : age[f[n]] < age[f[m]]
  <2>1. f[n] # Nowhere /\ n \in 0 .. Capacity
    BY <1>7, <1>8
  <2> QED
    BY <1>5, <2>1 DEF Passed
<1>13. w \in Seq(slots)
  BY <1>7, <1>10, <1>12
<1>14. ASSUME NEW x \in slots PROVE \E i \in 1 .. k : w[i] = x
  <2>1. PICK m \in 0 .. k - 1 : f[m] = x
    BY <1>5, <1>7 DEF Passed
  <2>2. m + 1 \in 1 .. k /\ w[m + 1] = x
    BY <1>7, <1>10, <2>1
  <2> QED
    BY <2>2
<1>15. ASSUME NEW i \in 1 .. k, NEW j \in 1 .. k, i < j
       PROVE  Recent(age)[w[i]] < Recent(age)[w[j]]
  <2>1. /\ w[i] = f[i - 1] /\ w[j] = f[j - 1]
        /\ i - 1 \in 0 .. k - 1 /\ j - 1 \in 0 .. k - 1 /\ i - 1 \in 0 .. (j - 1) - 1
    BY <1>7, <1>10, <1>15
  <2>2. age[w[j]] < age[w[i]] /\ w[i] \in slots /\ w[j] \in slots
    BY <1>12, <2>1
  <2>3. age[w[i]] \in Int /\ age[w[j]] \in Int /\ w[i] \in Slots /\ w[j] \in Slots
    BY <1>3, <2>2
  <2>4. Recent(age)[w[i]] = 0 - age[w[i]] /\ Recent(age)[w[j]] = 0 - age[w[j]]
    BY <2>3 DEF Recent
  <2> QED
    BY <2>2, <2>3, <2>4
<1> QED
  BY <1>11, <1>13, <1>14, <1>15 DEF Ordered

-----------------------------------------------------------------------------
(* Query *)

LEMMA ModTwice ==
  ASSUME NEW c \in Nat \ {0}, NEW x \in 2 * c .. 3 * c - 1
  PROVE  x % c = x - 2 * c
OBVIOUS

\* Slots in use and places of the ring: one each.
LEMMA RingPlaces ==
  ASSUME RingInv
  PROVE  /\ \A s \in Held : /\ s \in Slots /\ AgeOf[s] \in 0 .. count - 1
                            /\ Place(head, AgeOf[s]) = s
         /\ \A p \in 1 .. count : /\ Place(head, p - 1) \in Held
                                  /\ AgeOf[Place(head, p - 1)] = p - 1
<1> USE LogHubAssumption
<1>1. head \in Slots /\ count \in 0 .. Capacity
  BY DEF RingInv
<1>2. /\ \A s \in Slots : AgeOf[s] = Behind(head, s) /\ Age(s) = Behind(head, s)
      /\ \A s \in Slots : Behind(head, s) \in 0 .. Capacity - 1
  BY <1>1, RingAges
<1>3. ASSUME NEW s \in Held
      PROVE  s \in Slots /\ AgeOf[s] \in 0 .. count - 1 /\ Place(head, AgeOf[s]) = s
  <2>1. s \in Slots /\ Behind(head, s) < count /\ Behind(head, s) \in 0 .. Capacity - 1
    BY <1>2 DEF Held
  <2>2. Place(head, Behind(head, s)) = s
    BY <1>1, <2>1 DEF Place, Behind, Slots
  <2> QED
    BY <1>1, <1>2, <2>1, <2>2
<1>4. ASSUME NEW p \in 1 .. count
      PROVE  Place(head, p - 1) \in Held /\ AgeOf[Place(head, p - 1)] = p - 1
  <2>1. p - 1 \in 0 .. Capacity - 1 /\ p - 1 < count
    BY <1>1
  <2>2. Place(head, p - 1) \in Slots /\ Behind(head, Place(head, p - 1)) = p - 1
    BY <1>1, <2>1 DEF Place, Behind, Slots
  <2> QED
    BY <1>2, <2>1, <2>2 DEF Held
<1> QED
  BY <1>3, <1>4

\* Places of the ring in order, read backwards, are slots from the youngest on.
Mirrored(w) == [i \in 1 .. Len(w) |-> Place(head, w[Len(w) + 1 - i] - 1)]

LEMMA MirroredOrdered ==
  ASSUME RingInv, NEW P \in SUBSET (1 .. count), NEW w, Ordered(w, P, Itself)
  PROVE  Ordered(Mirrored(w), {Place(head, p - 1) : p \in P}, Recent(AgeOf))
<1>1. PICK at, age, n : /\ at = [p \in 1 .. count |-> Place(head, p - 1)]
                        /\ age = AgeOf /\ n = count
  OBVIOUS
<1>2. \A p \in 1 .. n : at[p] \in Slots /\ age[at[p]] = p - 1
  BY <1>1, RingPlaces
<1>3. PICK S : S = {at[p] : p \in P}
  OBVIOUS
<1>4. PICK k \in Nat : k = Len(w)
  BY OrderedSeq
<1>5. /\ \A i \in 1 .. k : w[i] \in P
      /\ \A x \in P : \E i \in 1 .. k : w[i] = x
      /\ \A i, j \in 1 .. k : i < j => Itself[w[i]] < Itself[w[j]]
  BY <1>4, OrderedSeq DEF Ordered
<1>6. \A x \in P : x \in 1 .. n /\ x \in Nat /\ Itself[x] = x
  BY <1>1 DEF Itself
<1>7. PICK v : v = [i \in 1 .. k |-> at[w[k + 1 - i]]]
  OBVIOUS
<1>8. \A i \in 1 .. k : k + 1 - i \in 1 .. k
  BY <1>4
<1>9. v \in Seq(S) /\ Len(v) = k /\ \A i \in 1 .. k : v[i] = at[w[k + 1 - i]]
  <2>1. \A i \in 1 .. k : at[w[k + 1 - i]] \in S
    BY <1>3, <1>5, <1>8
  <2> QED
    BY <1>4, <1>7, <2>1
<1>10. ASSUME NEW x \in S PROVE \E i \in 1 .. k : v[i] = x
  <2>1. PICK p \in P : x = at[p]
    BY <1>3
  <2>2. PICK j \in 1 .. k : w[j] = p
    BY <1>5
  <2>3. k + 1 - j \in 1 .. k /\ k + 1 - (k + 1 - j) = j
    BY <1>4
  <2>4. v[k + 1 - j] = x
    BY <1>9, <2>1, <2>2, <2>3
  <2> QED
    BY <2>3, <2>4
<1>11. ASSUME NEW i \in 1 .. k, NEW j \in 1 .. k, i < j
       PROVE  Recent(age)[v[i]] < Recent(age)[v[j]]
  <2>1. PICK a, b : a = w[k + 1 - i] /\ b = w[k + 1 - j]
    OBVIOUS
  <2>2. k + 1 - i \in 1 .. k /\ k + 1 - j \in 1 .. k /\ k + 1 - j < k + 1 - i
    BY <1>4, <1>11
  <2>3. a \in P /\ b \in P /\ Itself[b] < Itself[a]
    BY <1>5, <2>1, <2>2
  <2>4. a \in Nat /\ b \in Nat /\ b < a /\ a \in 1 .. n /\ b \in 1 .. n
    BY <1>6, <2>3
  <2>5. v[i] = at[a] /\ v[j] = at[b]
    BY <1>9, <2>1
  <2>6. /\ at[a] \in Slots /\ age[at[a]] = a - 1 /\ at[b] \in Slots /\ age[at[b]] = b - 1
    BY <1>2, <2>4
  <2>7. Recent(age)[at[a]] = 0 - (a - 1) /\ Recent(age)[at[b]] = 0 - (b - 1)
    BY <2>6 DEF Recent
  <2> QED
    BY <2>4, <2>5, <2>7
<1>12. Ordered(v, S, Recent(age))
  BY <1>9, <1>10, <1>11 DEF Ordered
<1>13. S = {Place(head, p - 1) : p \in P}
  <2>1. \A p \in P : at[p] = Place(head, p - 1)
    BY <1>1
  <2> QED
    BY <1>3, <2>1
<1>14. Mirrored(w) = v
  <2>1. \A i \in 1 .. k : Place(head, w[k + 1 - i] - 1) = at[w[k + 1 - i]]
    BY <1>1, <1>5, <1>6, <1>8
  <2> QED
    BY <1>4, <1>7, <2>1 DEF Mirrored
<1> QED
  BY <1>1, <1>12, <1>13, <1>14

\* The ring read from its newest entry.
LEMMA NewestOrdered ==
  ASSUME RingInv
  PROVE  Ordered(Newest, Held, Recent(AgeOf))
<1> USE LogHubAssumption
<1>1. PICK n \in Nat : n = count
  BY DEF RingInv
<1>2. PICK w : w = [i \in 1 .. n |-> i]
  OBVIOUS
<1>3. w \in Seq(1 .. n) /\ Len(w) = n
  BY <1>1, <1>2
<1>4. Ordered(w, 1 .. n, Itself)
  <2>1. \A x \in 1 .. n : \E i \in 1 .. n : w[i] = x
    BY <1>2
  <2>2. \A i, j \in 1 .. n : i < j => Itself[w[i]] < Itself[w[j]]
    BY <1>2 DEF Itself
  <2> QED
    BY <1>3, <2>1, <2>2 DEF Ordered
<1>5. Ordered(Mirrored(w), {Place(head, p - 1) : p \in 1 .. n}, Recent(AgeOf))
  BY <1>1, <1>4, MirroredOrdered
<1>6. {Place(head, p - 1) : p \in 1 .. n} = Held
  <2>1. \A p \in 1 .. n : Place(head, p - 1) \in Held
    BY <1>1, RingPlaces
  <2>2. ASSUME NEW s \in Held PROVE \E p \in 1 .. n : Place(head, p - 1) = s
    <3>1. AgeOf[s] \in 0 .. n - 1 /\ Place(head, AgeOf[s]) = s
      BY <1>1, RingPlaces
    <3>2. AgeOf[s] + 1 \in 1 .. n /\ (AgeOf[s] + 1) - 1 = AgeOf[s]
      BY <1>1, <3>1
    <3> QED
      BY <3>1, <3>2
  <2> QED
    BY <2>1, <2>2
<1>7. ASSUME NEW i \in 1 .. n
      PROVE  (head + count - i + Capacity) % Capacity = Place(head, w[n + 1 - i] - 1)
  <2>1. w[n + 1 - i] = n + 1 - i /\ (n + 1 - i) - 1 = n - i
    BY <1>1, <1>2
  <2>2. head \in Slots /\ n - i \in 0 .. Capacity - 1
    <3>1. head \in Slots /\ n <= Capacity
      BY <1>1 DEF RingInv
    <3> QED
      BY <3>1
  <2>3. PICK x \in Capacity .. 3 * Capacity - 1 :
          x = head + count - i + Capacity /\ x = head + (n - i) + Capacity
    BY <1>1, <2>2 DEF Slots
  <2>4. CASE head + (n - i) < Capacity
    <3>1. x \in Capacity .. 2 * Capacity - 1
      BY <2>2, <2>3, <2>4 DEF Slots
    <3>2. x % Capacity = x - Capacity
      BY <3>1, ModAround
    <3>3. x - Capacity = head + (n - i)
      BY <2>2, <2>3 DEF Slots
    <3> QED
      BY <2>1, <2>3, <2>4, <3>2, <3>3 DEF Place
  <2>5. CASE ~ (head + (n - i) < Capacity)
    <3>1. x \in 2 * Capacity .. 3 * Capacity - 1
      BY <2>2, <2>3, <2>5 DEF Slots
    <3>2. x % Capacity = x - 2 * Capacity
      BY <3>1, ModTwice
    <3>3. x - 2 * Capacity = head + (n - i) - Capacity
      BY <2>2, <2>3 DEF Slots
    <3> QED
      BY <2>1, <2>3, <2>5, <3>2, <3>3 DEF Place
  <2> QED
    BY <2>4, <2>5
<1>8. Newest = Mirrored(w)
  BY <1>1, <1>3, <1>7 DEF Newest, Mirrored
<1> QED
  BY <1>5, <1>6, <1>8

\* The chain of a key read from its tail; a key without one has no slots.
ChainFrom(c, k) == IF k \in DOMAIN c.span THEN Walk(c.prev, c.span[k].tail) ELSE <<>>

LEMMA ChainOrdered ==
  ASSUME NEW c, NEW key, NEW held \in SUBSET Slots, NEW age \in Ages,
         \A s \in held : age[s] \in 0 .. Capacity - 1, Index(c, key, held, age),
         NEW k, k # Empty
  PROVE  Ordered(ChainFrom(c, k), {s \in held : key[s] = k}, Recent(age))
<1>1. PICK slots \in SUBSET Slots : slots = {s \in held : key[s] = k}
  OBVIOUS
<1>2. CASE k \in DOMAIN c.span
  <2>1. ChainOf(c, c.span[k], slots, age)
    BY <1>1, <1>2 DEF Index, ExactFor
  <2>2. PICK oldest, tail : oldest = c.span[k].head /\ tail = c.span[k].tail
    OBVIOUS
  <2>3. /\ oldest \in slots /\ tail \in slots
        /\ \A s \in slots : ~ (age[s] < age[oldest]) /\ ~ (age[tail] < age[s])
        /\ PrevRight(c.prev, slots, oldest, age)
    BY <2>1, <2>2 DEF ChainOf
  <2>4. \A s \in slots : age[s] \in 0 .. Capacity - 1
    BY <1>1
  <2>5. Ordered(Walk(c.prev, tail), slots, Recent(age))
    BY <2>3, <2>4, WalkOrdered
  <2> QED
    BY <1>1, <1>2, <2>2, <2>5 DEF ChainFrom
<1>3. CASE k \notin DOMAIN c.span
  <2>1. slots = {}
    BY <1>1, <1>3 DEF Index, ExactFor
  <2>2. Ordered(<<>>, {}, Recent(age))
    BY DEF Ordered
  <2> QED
    BY <1>1, <1>3, <2>1, <2>2 DEF ChainFrom
<1> QED
  BY <1>2, <1>3

\* The slots Candidates is to find.
Sought(trace, service) ==
  {s \in Held : IF trace # Empty THEN entries[s].trace = trace
                ELSE service = Empty \/ entries[s].service = service}

LEMMA CandidatesOrdered ==
  ASSUME ChainInv, NEW trace, NEW service
  PROVE  Ordered(Candidates(trace, service), Sought(trace, service), Recent(AgeOf))
<1>1. PICK held, age, c, d, key, kind :
        /\ held = Held /\ age = AgeOf /\ c = traces /\ d = services
        /\ key = TraceKey /\ kind = ServiceKey
  OBVIOUS
<1>2. /\ held \in SUBSET Slots /\ age \in Ages /\ RingInv
      /\ Index(c, key, held, age) /\ Index(d, kind, held, age)
  BY <1>1, RingAges DEF ChainInv, RingInv, Held
<1>3. \A s \in held : age[s] \in 0 .. Capacity - 1
  <2>1. \A s \in held : AgeOf[s] \in 0 .. count - 1
    BY <1>1, <1>2, RingPlaces
  <2>2. count \in Nat /\ count <= Capacity /\ Capacity \in Nat
    BY <1>2, LogHubAssumption DEF RingInv
  <2> QED
    BY <1>1, <2>1, <2>2
<1>4. \A s \in held : key[s] = entries[s].trace /\ kind[s] = entries[s].service
  BY <1>1, <1>2 DEF TraceKey, ServiceKey
<1>5. CASE trace # Empty
  <2>1. Sought(trace, service) = {s \in held : key[s] = trace}
    BY <1>1, <1>4, <1>5 DEF Sought
  <2>2. Candidates(trace, service) = ChainFrom(c, trace)
    BY <1>1, <1>5 DEF Candidates, ChainFrom
  <2>3. Ordered(ChainFrom(c, trace), {s \in held : key[s] = trace}, Recent(age))
    BY <1>2, <1>3, <1>5, ChainOrdered
  <2> QED
    BY <1>1, <2>1, <2>2, <2>3
<1>6. CASE trace = Empty /\ service # Empty
  <2>1. Sought(trace, service) = {s \in held : kind[s] = service}
    BY <1>1, <1>4, <1>6 DEF Sought
  <2>2. Candidates(trace, service) = ChainFrom(d, service)
    BY <1>1, <1>6 DEF Candidates, ChainFrom
  <2>3. Ordered(ChainFrom(d, service), {s \in held : kind[s] = service}, Recent(age))
    BY <1>2, <1>3, <1>6, ChainOrdered
  <2> QED
    BY <1>1, <2>1, <2>2, <2>3
<1>7. CASE trace = Empty /\ service = Empty
  <2>1. Sought(trace, service) = Held /\ Candidates(trace, service) = Newest
    BY <1>7 DEF Sought, Candidates
  <2> QED
    BY <1>2, <2>1, NewestOrdered
<1> QED
  BY <1>5, <1>6, <1>7

\* Ingest puts no entry in the ring that Query takes for a vacant slot.
LEMMA StoredNotVacant == \A e \in Stored : e # Vacant
<1> SUFFICES ASSUME NEW i \in Inputs PROVE Normalised(i).level # Empty
  BY DEF Stored, Vacant
<1>1. Normalised(i).level = IF Trimmed(i.level) = Empty THEN Info ELSE i.level
  BY DEF Normalised
<1>2. Trimmed(Empty) = Empty /\ Info # Empty
  BY LogHubAssumption DEF Trimmed
<1> QED
  BY <1>1, <1>2

\* The slots of the entries that meet the criteria, and their places.
Hits(trace, service, level) == {s \in Held : Meets(entries[s], trace, service, level)}

HitPlaces(trace, service, level) ==
  {p \in 1 .. count : Meets(Live[p], trace, service, level)}

LEMMA HitsAre ==
  ASSUME RingInv, NEW trace, NEW service, NEW level
  PROVE  /\ {Place(head, p - 1) : p \in HitPlaces(trace, service, level)}
              = Hits(trace, service, level)
         /\ \A s \in Held : entries[s] # Vacant
<1> DEFINE fits(e) == Meets(e, trace, service, level)
<1> HIDE DEF fits
<1>1. \A p \in 1 .. count : /\ Place(head, p - 1) \in Held
                            /\ Live[p] = entries[Place(head, p - 1)] /\ Live[p] \in Stored
  BY RingIsLive, RingPlaces
<1>2. ASSUME NEW s \in Held
      PROVE  \E p \in 1 .. count : Place(head, p - 1) = s
  <2>1. PICK n \in Nat : n = count
    BY DEF RingInv
  <2>2. PICK a : a = AgeOf[s]
    OBVIOUS
  <2>3. a \in 0 .. n - 1 /\ Place(head, a) = s
    BY <2>1, <2>2, RingPlaces
  <2>4. a + 1 \in 1 .. n /\ (a + 1) - 1 = a
    BY <2>1, <2>3
  <2> QED
    BY <2>1, <2>3, <2>4
<1>3. {Place(head, p - 1) : p \in {p \in 1 .. count : fits(Live[p])}}
        = {s \in Held : fits(entries[s])}
  BY <1>1, <1>2
<1>4. \A s \in Held : entries[s] # Vacant
  BY <1>1, <1>2, StoredNotVacant
<1> QED
  BY <1>3, <1>4 DEF Hits, HitPlaces, fits

\* The sets by which Query and Answer pick.
Fitting(trace, service, level) ==
  {s \in Slots : /\ entries[s] # Vacant
                 /\ trace = Empty \/ service = Empty \/ entries[s].service = service
                 /\ level = Empty \/ entries[s].level = level}

Meeting(trace, service, level) ==
  {e \in {Live[i] : i \in DOMAIN Live} : Meets(e, trace, service, level)}

\* The entries Answer picks, and the slots Query finds: the same, in opposite
\* orders.
LEMMA FoundMirrorsPicked ==
  ASSUME ChainInv, NEW trace, NEW service, NEW level, NEW fitting, NEW meeting,
         fitting = Fitting(trace, service, level), meeting = Meeting(trace, service, level)
  PROVE  \E w : /\ Len(w) \in Nat /\ \A i \in 1 .. Len(w) : w[i] \in 1 .. count
                /\ Filtered(Live, meeting) = [i \in 1 .. Len(w) |-> Live[w[i]]]
                /\ Filtered(Candidates(trace, service), fitting) = Mirrored(w)
<1>1. /\ RingInv /\ Len(Live) = count /\ count \in Nat /\ DOMAIN Live = 1 .. count
      /\ Held \in SUBSET Slots
  <2>1. RingInv
    BY DEF ChainInv
  <2>2. Len(Live) = count /\ DOMAIN Live = 1 .. count /\ count \in Nat
    BY <2>1, RingIsLive DEF RingInv
  <2> QED
    BY <2>1, <2>2 DEF Held
<1>2. PICK w : /\ Ordered(w, Places(Live, meeting, count), Itself)
               /\ Filtered(Live, meeting) = [i \in 1 .. Len(w) |-> Live[w[i]]]
  <2>1. PICK s : s = Live
    OBVIOUS
  <2>2. Picked(Filtered(s, meeting), s, meeting, Len(s))
    BY <1>1, <2>1, FilteredIs
  <2> QED
    BY <1>1, <2>1, <2>2 DEF Picked
<1>3. Places(Live, meeting, count) = HitPlaces(trace, service, level)
  BY <1>1 DEF Places, HitPlaces, Meeting
<1>4. PICK P : P = HitPlaces(trace, service, level)
  OBVIOUS
<1>5. P \in SUBSET (1 .. count) /\ Ordered(w, P, Itself)
  BY <1>2, <1>3, <1>4 DEF HitPlaces
<1>6. Ordered(Mirrored(w), Hits(trace, service, level), Recent(AgeOf))
  BY <1>1, <1>4, <1>5, MirroredOrdered, HitsAre
<1>7. Ordered(Filtered(Candidates(trace, service), fitting), Hits(trace, service, level),
              Recent(AgeOf))
  <2>1. PICK c, S, rank : /\ c = Candidates(trace, service) /\ S = Sought(trace, service)
                          /\ rank = Recent(AgeOf)
    OBVIOUS
  <2>2. Ordered(c, S, rank)
    BY <2>1, CandidatesOrdered
  <2>3. Ordered(Filtered(c, fitting), {s \in S : s \in fitting}, rank)
    BY <2>2, FilteredOrdered
  <2>4. {s \in S : s \in fitting} = Hits(trace, service, level)
    <3>1. \A s \in Held : entries[s] # Vacant /\ s \in Slots
      BY <1>1, HitsAre
    <3> QED
      BY <2>1, <3>1 DEF Sought, Hits, Meets, Fitting
  <2> QED
    BY <2>1, <2>3, <2>4
<1>8. Filtered(Candidates(trace, service), fitting) = Mirrored(w)
  <2>1. PICK S, rank, s, t : /\ S = Hits(trace, service, level) /\ rank = Recent(AgeOf)
                             /\ s = Filtered(Candidates(trace, service), fitting)
                             /\ t = Mirrored(w)
    OBVIOUS
  <2>2. Ordered(s, S, rank) /\ Ordered(t, S, rank)
    BY <1>6, <1>7, <2>1
  <2>3. \A x \in S : rank[x] \in Int
    <3>1. \A x \in Held : x \in Slots /\ AgeOf[x] \in 0 .. count - 1
      BY <1>1, RingPlaces
    <3>2. \A x \in Held : Recent(AgeOf)[x] \in Int
      BY <3>1 DEF Recent
    <3> QED
      BY <2>1, <3>2 DEF Hits
  <2>4. s = t
    BY <2>2, <2>3, OrderedOnce
  <2> QED
    BY <2>1, <2>4
<1>9. Len(w) \in Nat /\ \A i \in 1 .. Len(w) : w[i] \in 1 .. count
  BY <1>5, OrderedSeq
<1> QED
  BY <1>2, <1>8, <1>9

\* The first of the slots found, turned round, hold the last of the entries.
Listed(s, k) == s = [i \in 1 .. k |-> s[i]]

FirstOf(s, limit) == SubSeq(s, 1, Min2(limit, Len(s)))

Opposite(held, found, hits, k) == \A i \in 1 .. k : held[found[i]] = hits[k + 1 - i]

Turned(held, matched) == Backwards([i \in DOMAIN matched |-> held[matched[i]]])

LEMMA FirstAreLast ==
  ASSUME NEW k \in Nat, NEW limit \in Nat, NEW found, NEW hits, NEW held,
         Listed(found, k), Listed(hits, k), Opposite(held, found, hits, k)
  PROVE  Turned(held, FirstOf(found, limit)) = Last(hits, limit)
<1>0. found = [i \in 1 .. k |-> found[i]] /\ hits = [i \in 1 .. k |-> hits[i]]
  BY DEF Listed
<1>1. Len(found) = k /\ Len(hits) = k
  BY <1>0
<1>2. PICK n \in Nat : n = Min2(limit, k) /\ n <= k
  BY DEF Min2
<1>3. PICK matched : matched = FirstOf(found, limit) /\ matched = [i \in 1 .. n |-> found[i]]
  <2>1. FirstOf(found, limit) = SubSeq(found, 1, n)
    BY <1>1, <1>2 DEF FirstOf
  <2>2. SubSeq(found, 1, n) = [i \in 1 .. n |-> found[i]]
    BY <1>0, <1>2
  <2> QED
    BY <2>1, <2>2
<1>4. PICK m : m = [i \in DOMAIN matched |-> held[matched[i]]]
  OBVIOUS
<1>t. \A i \in 1 .. k : held[found[i]] = hits[k + 1 - i]
  BY DEF Opposite
<1>5. /\ m = [i \in 1 .. n |-> held[found[i]]] /\ Len(m) = n /\ DOMAIN m = 1 .. n
  BY <1>2, <1>3, <1>4
<1>6. \A i \in 1 .. n : m[n + 1 - i] = hits[k + 1 - (n + 1 - i)]
  <2> SUFFICES ASSUME NEW i \in 1 .. n PROVE m[n + 1 - i] = hits[k + 1 - (n + 1 - i)]
    OBVIOUS
  <2>1. PICK j \in 1 .. n : j = n + 1 - i
    BY <1>2
  <2>2. j \in 1 .. k
    BY <1>2
  <2> QED
    BY <1>5, <1>t, <2>1, <2>2
<1>7. Backwards(m) = [i \in 1 .. n |-> hits[k - n + i]]
  <2>1. \A i \in 1 .. n : k + 1 - (n + 1 - i) = k - n + i
    BY <1>2
  <2>2. Backwards(m) = [i \in 1 .. n |-> m[n + 1 - i]]
    BY <1>5 DEF Backwards
  <2> QED
    BY <1>6, <2>1, <2>2
<1>8. Last(hits, limit) = SubSeq(hits, k - n + 1, k)
  BY <1>1, <1>2 DEF Last
<1>9. SubSeq(hits, k - n + 1, k) = [i \in 1 .. n |-> hits[k - n + i]]
  <2>1. PICK a \in Nat : a = k - n
    BY <1>2
  <2>2. SubSeq(hits, a + 1, k) = [i \in 1 .. k - a |-> hits[a + i]]
    BY <1>0, <2>1
  <2>3. k - n + 1 = a + 1 /\ k - a = n /\ \A i \in 1 .. n : k - n + i = a + i
    BY <1>2, <2>1
  <2> QED
    BY <2>2, <2>3
<1> QED
  BY <1>3, <1>4, <1>7, <1>8, <1>9 DEF Turned

LEMMA QueryAnswers ==
  ASSUME ChainInv, NEW q, q.limit \in Int
  PROVE  Query(q) = Answer(q)
<1>1. CASE status = "closed"
  BY <1>1 DEF Query, Answer
<1>2. CASE status # "closed"
  <2>1. PICK trace, service, level, limit :
          /\ trace = Trimmed(q.trace) /\ service = Trimmed(q.service)
          /\ level = Trimmed(q.level) /\ limit = Limit(q)
    OBVIOUS
  <2>2. PICK fitting, meeting :
          fitting = Fitting(trace, service, level) /\ meeting = Meeting(trace, service, level)
    OBVIOUS
  <2>3. PICK found, hits, held, matched :
          /\ found = Filtered(Candidates(trace, service), fitting)
          /\ hits = Filtered(Live, meeting) /\ held = entries
          /\ matched = FirstOf(found, limit)
    OBVIOUS
  <2>4. Query(q) = Turned(held, matched)
    BY <1>2, <2>1, <2>2, <2>3 DEF Query, Fitting, Turned, FirstOf
  <2>5. Answer(q) = Last(hits, limit)
    BY <1>2, <2>1, <2>2, <2>3 DEF Answer, Meeting
  <2>6. limit \in Nat
    BY <2>1 DEF Limit, Min2
  <2>7. PICK w : /\ Len(w) \in Nat /\ \A i \in 1 .. Len(w) : w[i] \in 1 .. count
                 /\ hits = [i \in 1 .. Len(w) |-> Live[w[i]]] /\ found = Mirrored(w)
    <3>1. \E w : /\ Len(w) \in Nat /\ \A i \in 1 .. Len(w) : w[i] \in 1 .. count
                 /\ Filtered(Live, meeting) = [i \in 1 .. Len(w) |-> Live[w[i]]]
                 /\ Filtered(Candidates(trace, service), fitting) = Mirrored(w)
      BY <2>2, FoundMirrorsPicked
    <3> QED
      BY <2>3, <3>1
  <2>8. PICK k \in Nat : k = Len(w)
    BY <2>7
  <2>9. /\ found = [i \in 1 .. k |-> found[i]] /\ hits = [i \in 1 .. k |-> hits[i]]
        /\ \A i \in 1 .. k : hits[i] = Live[w[i]]
        /\ \A i \in 1 .. k : found[i] = Place(head, w[k + 1 - i] - 1)
    BY <2>7, <2>8 DEF Mirrored
  <2>10. ASSUME NEW i \in 1 .. k PROVE held[found[i]] = hits[k + 1 - i]
    <3>1. PICK j \in 1 .. k : j = k + 1 - i
      OBVIOUS
    <3>2. w[j] \in 1 .. count
      BY <2>7, <2>8
    <3>3. Live[w[j]] = entries[Place(head, w[j] - 1)]
      BY <3>2, RingIsLive DEF ChainInv
    <3> QED
      BY <2>3, <2>9, <3>1, <3>3
  <2>11. Turned(held, matched) = Last(hits, limit)
    <3>1. Listed(found, k)
      BY <2>9 DEF Listed
    <3>2. Listed(hits, k)
      BY <2>9 DEF Listed
    <3>3. Opposite(held, found, hits, k)
      BY <2>10 DEF Opposite
    <3> QED
      BY <2>3, <2>6, <3>1, <3>2, <3>3, FirstAreLast
  <2> QED
    BY <2>4, <2>5, <2>11
<1> QED
  BY <1>1, <1>2

\* Query by trace, by service, by both or over the whole ring gives what a
\* search through everything ingested would give, whatever has been evicted.
THEOREM QueriesAreExact == Spec => []QueryExact
<1>1. ChainInv => QueryExact
  <2> SUFFICES ASSUME ChainInv, NEW q \in Queries PROVE Query(q) = Answer(q)
    BY DEF QueryExact
  <2>1. q.limit \in Int
    BY LogHubAssumption DEF Queries
  <2> QED
    BY <2>1, QueryAnswers
<1>2. Spec => []ChainInv
  BY InitChains, ChainStep, PTL DEF Spec
<1> QED
  BY <1>1, <1>2, PTL
=============================================================================
