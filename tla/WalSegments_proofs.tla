------------------------- MODULE WalSegments_proofs -------------------------
(***************************************************************************)
(* Theorems about WalSegments, the segmented log of storage_file.go.       *)
(*                                                                         *)
(* TypeCorrect holds of every configuration.  It needs to know what a      *)
(* parse of arbitrary bytes can yield, so the first part is about          *)
(* recoverSegment, the index of a directory, and pruning; W is the         *)
(* inductive invariant.                                                    *)
(*                                                                         *)
(* The four theorems at the end hold under SafeSetup.  Their invariant is  *)
(* Inv: beyond W, the whole log, files and buffer together, is Tiled by    *)
(* frames, one for each offset from the base offset on, at positions that  *)
(* a function "at" gives; a restart reads back exactly that function       *)
(* (IndexIs), and rotation, rollback, pruning and a crash each leave a     *)
(* tiled log (TiledRotated, TiledCut, TiledPruned).  Sound adds what is on *)
(* the medium and what is settled, Strays the segment that could not be    *)
(* removed, Working the index and the dispatcher of an engine that runs.   *)
(***************************************************************************)
EXTENDS WalSegments, FiniteSetTheorems, SequenceTheorems, WellFoundedInduction, TLAPS

-----------------------------------------------------------------------------
(* Natural numbers *)

\* Every set of natural numbers has a least element.
LEMMA Least ==
  ASSUME NEW T \in SUBSET Nat, T # {}
  PROVE  \E m \in T : \A n \in T : m <= n
<1> DEFINE less == {ss \in Nat \X Nat : ss[1] < ss[2]}
<1>1. IsWellFoundedOn(less, Nat)
  BY NatLessThanWellFounded, Zenon DEF OpToRel
<1>2. PICK x \in T : \A y \in T : ~ (<<y, x>> \in less)
  <2> HIDE DEF less
  <2> QED BY <1>1, WFMin
<1>3. \A y \in T : ~ (y < x)
  BY <1>2
<1> QED
  BY <1>3

\* Induction: a set that holds zero and every successor is all of them.
LEMMA Upward ==
  ASSUME NEW T \in SUBSET Nat, 0 \in T, \A n \in T : n + 1 \in T
  PROVE  T = Nat
<1> SUFFICES ASSUME Nat \ T # {} PROVE FALSE
  OBVIOUS
<1>1. PICK m \in Nat \ T : \A n \in Nat \ T : m <= n
  BY Least
<1>2. m # 0 /\ m - 1 \in Nat /\ m - 1 \in T
  BY <1>1
<1> QED
  BY <1>1, <1>2

\* The largest of a bounded set.
LEMMA MaxBounded ==
  ASSUME NEW S \in SUBSET Nat, S # {}, NEW n \in Nat, \A x \in S : x <= n
  PROVE  Max(S) \in S /\ \A x \in S : x <= Max(S)
<1> DEFINE T == {u \in Nat : \A x \in S : x <= u}
<1>1. PICK m \in T : \A u \in T : m <= u
  <2>1. T \in SUBSET Nat /\ T # {}
    OBVIOUS
  <2> HIDE DEF T
  <2> QED BY <2>1, Least
<1>2. m \in S
  <2> SUFFICES ASSUME m \notin S PROVE FALSE
    OBVIOUS
  <2>1. \A x \in S : x \in Nat /\ m \in Nat /\ x <= m /\ x # m
    OBVIOUS
  <2>2. \A x \in S : x <= m - 1
    BY <2>1
  <2>3. m - 1 \in Nat
    <3>1. PICK x \in S : TRUE
      OBVIOUS
    <3> QED BY <3>1, <2>1
  <2>4. m - 1 \in T
    BY <2>2, <2>3
  <2> QED BY <1>1, <2>4, <2>3
<1> QED
  BY <1>1, <1>2 DEF Max

LEMMA MaxIs ==
  ASSUME NEW S \in SUBSET Nat, NEW m \in S, \A x \in S : x <= m
  PROVE  Max(S) = m
<1>1. \A x \in S : x \in Nat
  OBVIOUS
<1>2. Max(S) \in S /\ \A x \in S : Max(S) >= x
  BY <1>1 DEF Max
<1> DEFINE k == Max(S)
<1>3. k \in S /\ k >= m
  BY <1>2
<1> HIDE DEF k
<1>4. k \in Nat /\ m \in Nat /\ k = m
  BY <1>3, <1>1
<1> QED
  BY <1>4 DEF k

LEMMA MinNat ==
  ASSUME NEW S \in SUBSET Nat, S # {}
  PROVE  Min(S) \in S /\ \A x \in S : Min(S) <= x
BY Least DEF Min

LEMMA MinIs ==
  ASSUME NEW S \in SUBSET Nat, NEW m \in S, \A x \in S : m <= x
  PROVE  Min(S) = m
<1>1. \A x \in S : x \in Nat
  OBVIOUS
<1>2. Min(S) \in S /\ \A x \in S : Min(S) <= x
  BY <1>1 DEF Min
<1> DEFINE k == Min(S)
<1>3. k \in S /\ k <= m
  BY <1>2
<1> HIDE DEF k
<1>4. k \in Nat /\ m \in Nat /\ k = m
  BY <1>3, <1>1
<1> QED
  BY <1>4 DEF k

-----------------------------------------------------------------------------
(* recoverSegment *)

Byte == [tkt : 1 .. MaxAttempts, size : Sizes, part : Nat]

\* The recursion of recoverSegment.
Walks(f, bytes) ==
  f = [p \in 1 .. Len(bytes) + 1 |->
         IF Stops(bytes, p) THEN <<>>
         ELSE <<[pos |-> p - 1, len |-> bytes[p].size]>> \o f[p + bytes[p].size]]

\* A header that does not stop the walk leads on, within the file.
LEMMA WalkStep ==
  ASSUME NEW bytes \in Seq(Byte), NEW p \in Nat \ {0}, ~ Stops(bytes, p)
  PROVE  /\ p <= Len(bytes) /\ bytes[p] \in Byte
         /\ bytes[p].size \in Sizes /\ bytes[p].size \in Nat \ {0}
         /\ p + bytes[p].size <= Len(bytes) + 1
<1>1. p \in 1 .. Len(bytes)
  BY DEF Stops
<1>2. bytes[p] \in Byte
  BY <1>1
<1>3. bytes[p].size \in Sizes /\ bytes[p].size \in Nat \ {0}
  BY <1>2, WalSegmentsAssumption DEF Byte
<1> QED
  BY <1>1, <1>2, <1>3 DEF Stops

LEMMA WalkExists ==
  ASSUME NEW bytes \in Seq(Byte)
  PROVE  \E f : Walks(f, bytes)
<1> DEFINE L == Len(bytes)
           body(f, p) == IF Stops(bytes, p) THEN <<>>
                         ELSE <<[pos |-> p - 1, len |-> bytes[p].size]>> \o f[p + bytes[p].size]
           From(q) == \E f : f = [p \in q .. L + 1 |-> body(f, p)]
           T == {n \in Nat : \A q \in 1 .. L + 2 : q = L + 2 - n => From(q)}
<1>0. L \in Nat
  OBVIOUS
<1>1. 0 \in T
  <2>1. From(L + 2)
    <3>1. L + 2 .. L + 1 = {}
      BY <1>0
    <3> DEFINE e == [p \in {} |-> <<>>]
    <3>2. e = [p \in L + 2 .. L + 1 |-> body(e, p)]
      BY <3>1
    <3> QED BY <3>2
  <2> HIDE DEF From
  <2> QED BY <2>1, <1>0
<1>2. ASSUME NEW n \in T PROVE n + 1 \in T
  <2> SUFFICES ASSUME NEW q \in 1 .. L + 2, q = L + 2 - (n + 1) PROVE From(q)
    <3> HIDE DEF From
    <3> QED OBVIOUS
  <2>1. q \in 1 .. L + 1 /\ q + 1 \in 1 .. L + 2 /\ q + 1 = L + 2 - n
    BY <1>0
  <2>0. From(q + 1)
    <3> HIDE DEF From
    <3> QED BY <2>1
  <2>2. PICK f : f = [p \in q + 1 .. L + 1 |-> body(f, p)]
    BY <2>0
  <2> DEFINE g == [p \in q .. L + 1 |-> IF p = q THEN body(f, p) ELSE f[p]]
  <2>3. ASSUME NEW p \in q .. L + 1 PROVE g[p] = body(g, p)
    <3>1. CASE Stops(bytes, p)
      <4>1. p # q => p \in q + 1 .. L + 1
        BY <2>1, <1>0
      <4> QED BY <3>1, <4>1, <2>2
    <3>2. CASE ~ Stops(bytes, p)
      <4>1. p \in Nat \ {0}
        BY <2>1
      <4>2. bytes[p].size \in Nat \ {0} /\ p + bytes[p].size <= L + 1
        BY <3>2, <4>1, WalkStep
      <4>3. p + bytes[p].size \in q + 1 .. L + 1
        <5>1. p >= q /\ q \in Nat
          BY <2>1
        <5> HIDE DEF L
        <5> QED BY <4>1, <4>2, <5>1, <1>0
      <4>4. g[p + bytes[p].size] = f[p + bytes[p].size]
        BY <4>3, <2>1
      <4>5. p # q => p \in q + 1 .. L + 1
        BY <2>1, <1>0
      <4>6. g[p] = body(f, p)
        BY <4>5, <2>2
      <4> QED BY <4>6, <4>4
    <3> QED BY <3>1, <3>2
  <2>4. g = [p \in q .. L + 1 |-> body(g, p)]
    <3> DEFINE h == [p \in q .. L + 1 |-> body(g, p)]
    <3>1. \A p \in q .. L + 1 : g[p] = h[p]
      BY <2>3
    <3>2. DOMAIN g = q .. L + 1 /\ DOMAIN h = q .. L + 1
      OBVIOUS
    <3> QED BY <3>1, <3>2
  <2> QED BY <2>4
<1>3. L + 1 \in T
  <2>1. T \in SUBSET Nat
    OBVIOUS
  <2> HIDE DEF T
  <2> QED BY <1>0, <1>1, <1>2, <2>1, Upward
<1>4. From(1)
  <2> HIDE DEF From
  <2> QED BY <1>3, <1>0
<1> QED
  BY <1>4 DEF Walks

Step == [pos : Nat, len : Sizes]

\* Where a walk from p on ends that has found es.
Reached(p, es) == IF es = <<>> THEN p ELSE End(es[Len(es)]) + 1

\* es is what a walk from p on finds: frame after frame, up to the first
\* position where it stops.
Chain(es, bytes, p) ==
  /\ es \in Seq(Step)
  /\ \A i \in 1 .. Len(es) : /\ ~ Stops(bytes, es[i].pos + 1)
                            /\ es[i].len = bytes[es[i].pos + 1].size
                            /\ End(es[i]) <= Len(bytes)
  /\ es # <<>> => es[1].pos = p - 1
  /\ \A i \in 2 .. Len(es) : es[i].pos = End(es[i - 1])
  /\ Stops(bytes, Reached(p, es))

LEMMA ChainLonger ==
  ASSUME NEW bytes \in Seq(Byte), NEW p \in Nat \ {0}, ~ Stops(bytes, p),
         NEW es, Chain(es, bytes, p + bytes[p].size)
  PROVE  Chain(<<[pos |-> p - 1, len |-> bytes[p].size]>> \o es, bytes, p)
<1> DEFINE e  == [pos |-> p - 1, len |-> bytes[p].size]
           fs == <<e>> \o es
<1>1. /\ p <= Len(bytes) /\ bytes[p].size \in Sizes /\ bytes[p].size \in Nat \ {0}
      /\ p + bytes[p].size <= Len(bytes) + 1
  BY WalkStep
<1>2. e \in Step /\ e.pos = p - 1 /\ e.len = bytes[p].size /\ End(e) = p + bytes[p].size - 1
  BY <1>1 DEF Step, End
<1>3. es \in Seq(Step)
  BY DEF Chain
<1> HIDE DEF e
<1>4. /\ fs \in Seq(Step) /\ Len(fs) = Len(es) + 1 /\ fs[1] = e /\ fs # <<>>
      /\ \A i \in 2 .. Len(fs) : fs[i] = es[i - 1] /\ i - 1 \in 1 .. Len(es)
  BY <1>2, <1>3
<1> HIDE DEF fs
<1>5. \A i \in 1 .. Len(fs) : /\ ~ Stops(bytes, fs[i].pos + 1)
                             /\ fs[i].len = bytes[fs[i].pos + 1].size
                             /\ End(fs[i]) <= Len(bytes)
  <2> SUFFICES ASSUME NEW i \in 1 .. Len(fs)
               PROVE  /\ ~ Stops(bytes, fs[i].pos + 1)
                      /\ fs[i].len = bytes[fs[i].pos + 1].size
                      /\ End(fs[i]) <= Len(bytes)
    OBVIOUS
  <2>1. CASE i = 1
    <3>1. fs[i].pos + 1 = p /\ fs[i] = e
      BY <2>1, <1>4, <1>2
    <3> QED BY <3>1, <1>1, <1>2
  <2>2. CASE i # 1
    BY <2>2, <1>4, <1>3 DEF Chain
  <2> QED BY <2>1, <2>2
<1>6. \A i \in 2 .. Len(fs) : fs[i].pos = End(fs[i - 1])
  <2> SUFFICES ASSUME NEW i \in 2 .. Len(fs) PROVE fs[i].pos = End(fs[i - 1])
    OBVIOUS
  <2>0. Len(es) \in Nat /\ i - 1 \in 1 .. Len(es) /\ fs[i] = es[i - 1]
    BY <1>3, <1>4
  <2>1. CASE i = 2
    <3>1. fs[i - 1] = e /\ fs[i] = es[1] /\ es # <<>>
      <4>1. i - 1 = 1 /\ Len(es) > 0
        BY <2>1, <2>0
      <4> QED BY <4>1, <1>4, <2>0
    <3>2. es[1].pos = (p + bytes[p].size) - 1
      BY <3>1 DEF Chain
    <3>3. End(fs[i - 1]) = p + bytes[p].size - 1 /\ fs[i].pos = es[1].pos
      BY <3>1, <1>2
    <3>4. (p + bytes[p].size) - 1 = p + bytes[p].size - 1
      BY <1>1
    <3> QED BY <3>2, <3>3, <3>4
  <2>2. CASE i # 2
    <3>1. i - 1 \in 2 .. Len(es) /\ (i - 1) - 1 = i - 2 /\ i - 1 \in 2 .. Len(fs)
      BY <2>2, <2>0, <1>4
    <3>2. fs[i - 1] = es[i - 2]
      BY <3>1, <1>4
    <3> QED BY <3>1, <3>2, <2>0 DEF Chain
  <2> QED BY <2>1, <2>2
<1>7. Reached(p, fs) = Reached(p + bytes[p].size, es)
  <2>1. CASE es = <<>>
    <3>1. Len(es) = 0 /\ Len(fs) = 1
      BY <2>1, <1>4
    <3> QED BY <2>1, <3>1, <1>4, <1>2, <1>1 DEF Reached
  <2>2. CASE es # <<>>
    <3>1. Len(es) \in Nat \ {0}
      BY <2>2, <1>3
    <3>2. fs[Len(fs)] = es[Len(es)]
      BY <3>1, <1>4
    <3> QED BY <2>2, <3>2, <1>4 DEF Reached
  <2> QED BY <2>1, <2>2
<1>8. fs[1].pos = p - 1
  BY <1>4, <1>2
<1> QED
  BY <1>4, <1>5, <1>6, <1>7, <1>8 DEF Chain, e, fs

LEMMA WalkShape ==
  ASSUME NEW bytes \in Seq(Byte), NEW f, Walks(f, bytes), NEW p \in 1 .. Len(bytes) + 1
  PROVE  Chain(f[p], bytes, p)
<1> DEFINE L == Len(bytes)
           T == {n \in Nat : \A q \in 1 .. L + 1 : L + 1 - q <= n => Chain(f[q], bytes, q)}
<1>0. L \in Nat
  OBVIOUS
<1>e. ASSUME NEW q \in 1 .. L + 1, Stops(bytes, q) PROVE Chain(f[q], bytes, q)
  <2>1. f[q] = <<>>
    BY <1>e DEF Walks
  <2> QED BY <2>1, <1>e DEF Chain, Reached
<1>1. 0 \in T
  <2> SUFFICES ASSUME NEW q \in 1 .. L + 1, L + 1 - q <= 0 PROVE Chain(f[q], bytes, q)
    OBVIOUS
  <2>1. Stops(bytes, q)
    BY <1>0 DEF Stops
  <2> QED BY <2>1, <1>e
<1>2. ASSUME NEW n \in T PROVE n + 1 \in T
  <2> SUFFICES ASSUME NEW q \in 1 .. L + 1, L + 1 - q <= n + 1 PROVE Chain(f[q], bytes, q)
    OBVIOUS
  <2>1. CASE Stops(bytes, q)
    BY <2>1, <1>e
  <2>2. CASE ~ Stops(bytes, q)
    <3>0. q \in Nat \ {0}
      OBVIOUS
    <3>1. bytes[q].size \in Nat \ {0} /\ q + bytes[q].size <= L + 1
      BY <2>2, <3>0, WalkStep
    <3>2. q + bytes[q].size \in 1 .. L + 1 /\ L + 1 - (q + bytes[q].size) <= n
      BY <3>0, <3>1, <1>0
    <3>3. Chain(f[q + bytes[q].size], bytes, q + bytes[q].size)
      BY <3>2
    <3>4. f[q] = <<[pos |-> q - 1, len |-> bytes[q].size]>> \o f[q + bytes[q].size]
      BY <2>2 DEF Walks
    <3> HIDE DEF T
    <3> QED BY <3>0, <3>3, <3>4, <2>2, ChainLonger
  <2> QED BY <2>1, <2>2
<1>3. L + 1 - p \in T
  <2>1. T \in SUBSET Nat /\ L + 1 - p \in Nat
    BY <1>0
  <2> HIDE DEF T
  <2> QED BY <1>1, <1>2, <2>1, Upward
<1> QED
  BY <1>3, <1>0

\* What recoverSegment makes of a file: one entry per frame, from the first
\* byte on, each where the one before it ends, up to the first position where
\* no frame begins.
Recovered(es, base, bytes) ==
  /\ \A i \in 1 .. Len(es) : es[i].off = base + i - 1 /\ es[i].seg = base
  /\ \A i \in 1 .. Len(es) : es[i] \in [off : Nat, seg : {base}, pos : Nat, len : Sizes]
  /\ es # <<>> => es[1].pos = 0
  /\ \A i \in 2 .. Len(es) : es[i].pos = End(es[i - 1])
  /\ \A i \in 1 .. Len(es) : /\ ~ Stops(bytes, es[i].pos + 1)
                            /\ es[i].len = bytes[es[i].pos + 1].size
  /\ ValidEnd(es) \in 0 .. Len(bytes)
  /\ Stops(bytes, ValidEnd(es) + 1)

LEMMA RecoverSegmentShape ==
  ASSUME NEW base \in Nat, NEW bytes \in Seq(Byte)
  PROVE  /\ RecoverSegment(base, bytes)
              \in Seq([off : Nat, seg : {base}, pos : Nat, len : Sizes])
         /\ Recovered(RecoverSegment(base, bytes), base, bytes)
<1> DEFINE f == CHOOSE f : Walks(f, bytes)
<1>1. RecoverSegment(base, bytes) = Entries(base, f[1])
  BY DEF RecoverSegment, Walks
<1>2. Walks(f, bytes)
  BY WalkExists
<1> HIDE DEF f
<1>3. PICK fs : fs = f[1]
  OBVIOUS
<1>4. Chain(fs, bytes, 1)
  BY <1>2, <1>3, WalkShape
<1>5. PICK es : es = Entries(base, fs)
  OBVIOUS
<1>6. fs \in Seq(Step) /\ Len(fs) \in Nat /\ DOMAIN fs = 1 .. Len(fs)
  BY <1>4 DEF Chain
<1>t. \A e \in Step : e.pos \in Nat /\ e.len \in Sizes /\ e.len \in Nat
  BY WalSegmentsAssumption DEF Step
<1>7. /\ Len(es) = Len(fs) /\ es \in Seq([off : Nat, seg : {base}, pos : Nat, len : Sizes])
      /\ \A i \in 1 .. Len(es) : /\ es[i].off = base + i - 1 /\ es[i].seg = base
                                /\ es[i].pos = fs[i].pos /\ es[i].len = fs[i].len
  <2>1. \A i \in 1 .. Len(fs) : fs[i].pos \in Nat /\ fs[i].len \in Sizes
    BY <1>6, <1>t
  <2>2. es = [i \in 1 .. Len(fs) |-> [off |-> base + i - 1, seg |-> base,
                                     pos |-> fs[i].pos, len |-> fs[i].len]]
    BY <1>5, <1>6 DEF Entries
  <2> QED BY <2>1, <2>2, <1>6
<1>8. \A i \in 1 .. Len(es) : End(es[i]) = End(fs[i])
  BY <1>7 DEF End
<1>9. ValidEnd(es) + 1 = Reached(1, fs) /\ ValidEnd(es) \in 0 .. Len(bytes)
  <2>1. CASE Len(fs) = 0
    BY <2>1, <1>6, <1>7 DEF ValidEnd, Reached
  <2>2. CASE Len(fs) # 0
    <3>1. Len(fs) \in 1 .. Len(fs) /\ Len(bytes) \in Nat
      BY <2>2, <1>6
    <3>2. End(fs[Len(fs)]) <= Len(bytes)
      BY <3>1, <1>4 DEF Chain
    <3>3. fs[Len(fs)].pos \in Nat /\ fs[Len(fs)].len \in Nat
      BY <3>1, <1>6, <1>t
    <3>4. fs # <<>> /\ es # <<>>
      BY <2>2, <1>7
    <3>5. ValidEnd(es) = End(fs[Len(fs)]) /\ Reached(1, fs) = End(fs[Len(fs)]) + 1
      BY <3>1, <3>4, <1>7, <1>8 DEF ValidEnd, Reached
    <3>6. End(fs[Len(fs)]) \in Nat
      BY <3>3 DEF End
    <3> QED BY <3>1, <3>2, <3>5, <3>6
  <2> QED BY <2>1, <2>2
<1>10. Recovered(es, base, bytes)
  <2>1. es # <<>> => es[1].pos = 0
    BY <1>4, <1>6, <1>7 DEF Chain
  <2>2. \A i \in 2 .. Len(es) : es[i].pos = End(es[i - 1])
    <3> SUFFICES ASSUME NEW i \in 2 .. Len(es) PROVE es[i].pos = End(es[i - 1])
      OBVIOUS
    <3>1. i \in 1 .. Len(es) /\ i - 1 \in 1 .. Len(es)
      BY <1>6, <1>7
    <3> QED BY <3>1, <1>4, <1>7, <1>8 DEF Chain
  <2>3. \A i \in 1 .. Len(es) : /\ ~ Stops(bytes, es[i].pos + 1)
                               /\ es[i].len = bytes[es[i].pos + 1].size
    BY <1>4, <1>7 DEF Chain
  <2>4. Stops(bytes, ValidEnd(es) + 1)
    BY <1>4, <1>9 DEF Chain
  <2>5. \A i \in 1 .. Len(es) : es[i] \in [off : Nat, seg : {base}, pos : Nat, len : Sizes]
    <3> DEFINE R == [off : Nat, seg : {base}, pos : Nat, len : Sizes]
    <3>1. es \in Seq(R)
      BY <1>7
    <3> HIDE DEF R
    <3>2. \A i \in 1 .. Len(es) : es[i] \in R
      BY <3>1
    <3> QED BY <3>2 DEF R
  <2> QED BY <2>1, <2>2, <2>3, <2>4, <2>5, <1>7, <1>9 DEF Recovered
<1> QED
  BY <1>1, <1>3, <1>5, <1>7, <1>10

LEMMA LeqThrough ==
  ASSUME NEW x \in Nat, NEW y \in Nat, NEW z \in Nat, x <= y, y <= z
  PROVE  x <= z
OBVIOUS

LEMMA EndNat ==
  ASSUME NEW e, e.pos \in Nat, e.len \in Nat
  PROVE  End(e) \in Nat /\ e.pos <= End(e) /\ e.len <= End(e)
BY DEF End

\* The frames of one segment do not overlap.
LEMMA RecoveredOrdered ==
  ASSUME NEW base \in Nat, NEW bytes \in Seq(Byte), NEW es,
         es \in Seq([off : Nat, seg : {base}, pos : Nat, len : Sizes]),
         Recovered(es, base, bytes)
  PROVE  /\ \A j \in 1 .. Len(es) : \A i \in 1 .. j - 1 : End(es[i]) <= es[j].pos
         /\ \A i \in 1 .. Len(es) : End(es[i]) <= ValidEnd(es)
<1>0. Len(es) \in Nat
  OBVIOUS
<1>1. \A i \in 1 .. Len(es) : es[i].pos \in Nat /\ es[i].len \in Nat
  BY WalSegmentsAssumption DEF Recovered
<1>2. ASSUME NEW i \in 1 .. Len(es) PROVE End(es[i]) \in Nat /\ es[i].pos <= End(es[i])
  <2>1. es[i].pos \in Nat /\ es[i].len \in Nat
    BY <1>1
  <2> QED BY <2>1, EndNat
<1> DEFINE T == {n \in Nat : \A j \in 1 .. Len(es) : j <= n =>
                    \A i \in 1 .. j - 1 : End(es[i]) <= es[j].pos}
<1>3. 0 \in T
  OBVIOUS
<1>4. ASSUME NEW n \in T PROVE n + 1 \in T
  <2> SUFFICES ASSUME NEW j \in 1 .. Len(es), j <= n + 1, NEW i \in 1 .. j - 1
               PROVE  End(es[i]) <= es[j].pos
    OBVIOUS
  <2>0. CASE j <= n
    BY <2>0
  <2> SUFFICES ASSUME j = n + 1 PROVE End(es[i]) <= es[j].pos
    BY <2>0, <1>0
  <2>n. n \in Nat
    OBVIOUS
  <2>1. j \in 2 .. Len(es) /\ j - 1 \in 1 .. Len(es) /\ i \in 1 .. Len(es) /\ j - 1 <= n
    <3> HIDE DEF T
    <3> QED BY <1>0, <2>n
  <2>2. es[j].pos = End(es[j - 1])
    BY <2>1 DEF Recovered
  <2>5. End(es[j - 1]) \in Nat
    BY <2>1, <1>2
  <2>3. CASE i = j - 1
    BY <2>3, <2>2, <2>5
  <2>4. CASE i # j - 1
    <3>1. i \in 1 .. (j - 1) - 1
      BY <2>4, <2>1
    <3>2. End(es[i]) <= es[j - 1].pos
      BY <3>1, <2>1
    <3>3. es[j - 1].pos <= End(es[j - 1]) /\ es[j - 1].pos \in Nat /\ End(es[i]) \in Nat
      BY <2>1, <1>1, <1>2
    <3>4. End(es[i]) <= End(es[j - 1])
      BY <3>2, <3>3, <2>5, LeqThrough
    <3> QED BY <2>2, <3>4
  <2> QED BY <2>3, <2>4
<1>5. Len(es) \in T
  <2>1. T \in SUBSET Nat
    OBVIOUS
  <2> HIDE DEF T
  <2> QED BY <1>0, <1>3, <1>4, <2>1, Upward
<1>6. \A j \in 1 .. Len(es) : \A i \in 1 .. j - 1 : End(es[i]) <= es[j].pos
  BY <1>5
<1>7. ASSUME NEW i \in 1 .. Len(es) PROVE End(es[i]) <= ValidEnd(es)
  <2>1. es # <<>> /\ Len(es) \in 1 .. Len(es)
    BY <1>0
  <2>2. ValidEnd(es) = End(es[Len(es)])
    BY <2>1 DEF ValidEnd
  <2>3. CASE i = Len(es)
    BY <2>3, <2>2, <1>2
  <2>4. CASE i # Len(es)
    <3>1. i \in 1 .. Len(es) - 1
      BY <2>4
    <3>2. End(es[i]) <= es[Len(es)].pos
      BY <3>1, <2>1, <1>6
    <3>3. es[Len(es)].pos <= End(es[Len(es)]) /\ es[Len(es)].pos \in Nat /\ End(es[i]) \in Nat
      BY <2>1, <1>1, <1>2
    <3>4. End(es[Len(es)]) \in Nat
      BY <2>1, <1>2
    <3> QED BY <2>2, <3>2, <3>3, <3>4
  <2> QED BY <2>3, <2>4
<1> QED
  BY <1>6, <1>7

-----------------------------------------------------------------------------
(* The index of a directory *)

Entry == [off : Nat, seg : Nat, pos : Nat, len : Sizes]

\* Directories: finitely many segments.
Bounded(S) == \E n \in Nat : \A b \in S : b <= n

Directory(dir) ==
  /\ dir = [b \in DOMAIN dir |-> dir[b]]
  /\ DOMAIN dir \in SUBSET Nat /\ DOMAIN dir # {} /\ Bounded(DOMAIN dir)
  /\ \A b \in DOMAIN dir : dir[b] \in Seq(Byte)


\* The recursion of recoverSegmented over the segments.
Gathers(f, dir, n) ==
  f = [b \in 0 .. n |-> (IF b = 0 THEN <<>> ELSE f[b - 1])
                          \o (IF b \in DOMAIN dir THEN RecoverSegment(b, dir[b]) ELSE <<>>)]

LEMMA GatherExists ==
  ASSUME NEW dir, NEW n \in Nat
  PROVE  \E f : Gathers(f, dir, n)
<1> DEFINE seg(b) == IF b \in DOMAIN dir THEN RecoverSegment(b, dir[b]) ELSE <<>>
           body(f, b) == (IF b = 0 THEN <<>> ELSE f[b - 1]) \o seg(b)
           From(m) == \E f : f = [b \in 0 .. m |-> body(f, b)]
           T == {m \in Nat : From(m)}
<1> HIDE DEF seg
<1>1. 0 \in T
  <2> DEFINE e == [b \in {0} |-> <<>> \o seg(b)]
  <2>1. 0 .. 0 = {0}
    OBVIOUS
  <2>2. e = [b \in 0 .. 0 |-> body(e, b)]
    BY <2>1
  <2> QED BY <2>2
<1>2. ASSUME NEW m \in T PROVE m + 1 \in T
  <2>1. PICK f : f = [b \in 0 .. m |-> body(f, b)]
    OBVIOUS
  <2>2. m \in Nat
    OBVIOUS
  <2> DEFINE g == [b \in 0 .. m + 1 |-> IF b = m + 1 THEN f[m] \o seg(m + 1) ELSE f[b]]
  <2>3. ASSUME NEW b \in 0 .. m + 1 PROVE g[b] = body(g, b)
    <3>1. CASE b = m + 1
      <4>1. g[b - 1] = f[m]
        BY <3>1, <2>2
      <4>2. b # 0
        BY <3>1, <2>2
      <4>3. g[b] = f[m] \o seg(m + 1)
        BY <3>1
      <4>4. seg(m + 1) = seg(b)
        BY <3>1
      <4> HIDE DEF g
      <4> QED BY <4>1, <4>2, <4>3, <4>4
    <3>2. CASE b # m + 1
      <4>1. b \in 0 .. m /\ (b # 0 => b - 1 \in 0 .. m)
        BY <3>2, <2>2
      <4>2. b # 0 => g[b - 1] = f[b - 1]
        BY <4>1, <2>2
      <4>3. f[b] = body(f, b)
        BY <4>1, <2>1
      <4>4. g[b] = f[b]
        BY <3>2
      <4> QED BY <4>2, <4>3, <4>4
    <3> QED BY <3>1, <3>2
  <2>4. g = [b \in 0 .. m + 1 |-> body(g, b)]
    <3> DEFINE h == [b \in 0 .. m + 1 |-> body(g, b)]
    <3>1. \A b \in 0 .. m + 1 : g[b] = h[b]
      BY <2>3
    <3>2. DOMAIN g = 0 .. m + 1 /\ DOMAIN h = 0 .. m + 1
      OBVIOUS
    <3> QED BY <3>1, <3>2
  <2>5. From(m + 1)
    BY <2>4
  <2> HIDE DEF From
  <2> QED BY <2>5, <2>2
<1>3. T = Nat
  <2>1. T \in SUBSET Nat
    OBVIOUS
  <2> HIDE DEF T
  <2> QED BY <1>1, <1>2, <2>1, Upward
<1>4. From(n)
  BY <1>3
<1> QED
  BY <1>4 DEF Gathers, seg

\* An index of the segments up to b: every entry lies in the part of its segment
\* that a start keeps, segments follow each other, and their frames too.
Indexed(es, b, dir) ==
  /\ es \in Seq(Entry)
  /\ \A i \in 1 .. Len(es) :
       /\ es[i].seg \in DOMAIN dir /\ es[i].seg <= b
       /\ End(es[i]) <= ValidEnd(RecoverSegment(es[i].seg, dir[es[i].seg]))
  /\ \A j \in 1 .. Len(es) : \A i \in 1 .. j - 1 :
       /\ es[i].seg <= es[j].seg
       /\ es[i].seg = es[j].seg => End(es[i]) <= es[j].pos

LEMMA IndexedOne ==
  ASSUME NEW dir, Directory(dir), NEW c \in DOMAIN dir,
         NEW xs, Indexed(xs, c - 1, dir)
  PROVE  Indexed(xs \o RecoverSegment(c, dir[c]), c, dir)
<1>0. c \in Nat /\ dir[c] \in Seq(Byte)
  BY DEF Directory
<1>1. PICK ys : ys = RecoverSegment(c, dir[c])
  OBVIOUS
<1>2. /\ ys \in Seq([off : Nat, seg : {c}, pos : Nat, len : Sizes])
      /\ Recovered(ys, c, dir[c])
  BY <1>0, <1>1, RecoverSegmentShape
<1>3. Len(ys) \in Nat /\ \A i \in 1 .. Len(ys) : ys[i] \in Entry /\ ys[i].seg = c
  <2>1. ASSUME NEW y \in [off : Nat, seg : {c}, pos : Nat, len : Sizes]
        PROVE  y \in Entry /\ y.seg = c
    BY <1>0 DEF Entry
  <2> DEFINE R == [off : Nat, seg : {c}, pos : Nat, len : Sizes]
  <2>2. ys \in Seq(R)
    BY <1>2
  <2>3. \A y \in R : y \in Entry /\ y.seg = c
    BY <2>1
  <2> HIDE DEF R
  <2> QED BY <2>2, <2>3
<1>4. ys \in Seq(Entry)
  <2>1. ys = [i \in 1 .. Len(ys) |-> ys[i]]
    BY <1>2
  <2> QED BY <2>1, <1>3
<1>5. xs \in Seq(Entry) /\ Len(xs) \in Nat
  BY DEF Indexed
<1>6. PICK es : es = xs \o ys
  OBVIOUS
<1>7. /\ es \in Seq(Entry) /\ Len(es) = Len(xs) + Len(ys)
      /\ \A i \in 1 .. Len(xs) : es[i] = xs[i]
      /\ \A i \in Len(xs) + 1 .. Len(es) : es[i] = ys[i - Len(xs)] /\ i - Len(xs) \in 1 .. Len(ys)
  BY <1>4, <1>5, <1>6
<1>8. ASSUME NEW i \in 1 .. Len(es)
      PROVE  /\ es[i].seg \in DOMAIN dir /\ es[i].seg <= c
             /\ End(es[i]) <= ValidEnd(RecoverSegment(es[i].seg, dir[es[i].seg]))
  <2>1. CASE i \in 1 .. Len(xs)
    <3>1. /\ xs[i].seg \in DOMAIN dir /\ xs[i].seg <= c - 1
          /\ End(xs[i]) <= ValidEnd(RecoverSegment(xs[i].seg, dir[xs[i].seg]))
      BY <2>1 DEF Indexed
    <3>2. xs[i].seg \in Nat
      BY <3>1 DEF Directory
    <3> QED BY <3>1, <3>2, <2>1, <1>7, <1>0
  <2>2. CASE i \in Len(xs) + 1 .. Len(es)
    <3>1. i - Len(xs) \in 1 .. Len(ys) /\ es[i] = ys[i - Len(xs)]
      BY <2>2, <1>7
    <3>2. es[i].seg = c
      BY <3>1, <1>3
    <3>3. End(es[i]) <= ValidEnd(ys)
      BY <3>1, <1>0, <1>2, RecoveredOrdered
    <3> QED BY <3>2, <3>3, <1>1, <1>0
  <2> QED BY <2>1, <2>2, <1>7, <1>5, <1>3
<1>9. ASSUME NEW j \in 1 .. Len(es), NEW i \in 1 .. j - 1
      PROVE  /\ es[i].seg <= es[j].seg
             /\ es[i].seg = es[j].seg => End(es[i]) <= es[j].pos
  <2>0. i \in 1 .. Len(es)
    BY <1>7, <1>5, <1>3
  <2>1. CASE j \in 1 .. Len(xs)
    <3>1. i \in 1 .. Len(xs) /\ es[i] = xs[i] /\ es[j] = xs[j]
      BY <2>1, <1>7, <1>5
    <3> QED BY <3>1, <2>1 DEF Indexed
  <2>2. CASE j \in Len(xs) + 1 .. Len(es)
    <3>1. j - Len(xs) \in 1 .. Len(ys) /\ es[j] = ys[j - Len(xs)]
      BY <2>2, <1>7
    <3>2. es[j].seg = c
      BY <3>1, <1>3
    <3>3. CASE i \in 1 .. Len(xs)
      <4>1. es[i] = xs[i] /\ xs[i].seg \in DOMAIN dir /\ xs[i].seg <= c - 1
        BY <3>3, <1>7 DEF Indexed
      <4>2. es[i].seg \in Nat
        BY <4>1 DEF Directory
      <4>3. es[i].seg < c
        BY <4>1, <4>2, <1>0
      <4> QED BY <4>2, <4>3, <3>2, <1>0
    <3>4. CASE i \in Len(xs) + 1 .. Len(es)
      <4>1. i - Len(xs) \in 1 .. Len(ys) /\ es[i] = ys[i - Len(xs)]
        BY <3>4, <1>7
      <4>2. i - Len(xs) \in 1 .. (j - Len(xs)) - 1
        BY <4>1, <3>1, <1>5
      <4>3. End(es[i]) <= es[j].pos
        BY <4>1, <4>2, <3>1, <1>0, <1>2, RecoveredOrdered
      <4>4. es[i].seg = c
        BY <4>1, <1>3
      <4> QED BY <4>3, <4>4, <3>2, <1>0
    <3> QED BY <3>3, <3>4, <2>0, <1>5
  <2> QED BY <2>1, <2>2, <1>7, <1>5, <1>3
<1>10. Indexed(es, c, dir)
  BY <1>7, <1>8, <1>9 DEF Indexed
<1> QED
  BY <1>10, <1>6, <1>1

LEMMA IndexedNone ==
  ASSUME NEW dir, Directory(dir), NEW c \in Nat, c \notin DOMAIN dir,
         NEW xs, Indexed(xs, c - 1, dir)
  PROVE  Indexed(xs \o <<>>, c, dir)
<1>1. xs \in Seq(Entry) /\ xs \o <<>> = xs
  BY DEF Indexed
<1>2. ASSUME NEW i \in 1 .. Len(xs) PROVE xs[i].seg <= c
  <2>1. xs[i].seg \in DOMAIN dir /\ xs[i].seg <= c - 1
    BY DEF Indexed
  <2>2. xs[i].seg \in Nat
    BY <2>1 DEF Directory
  <2> QED BY <2>1, <2>2
<1> QED
  BY <1>1, <1>2 DEF Indexed

\* What the index of a directory is like, whatever is in the files.
LEMMA IndexShape ==
  ASSUME NEW dir, Directory(dir)
  PROVE  Indexed(Index(dir), Max(DOMAIN dir), dir)
<1> DEFINE M == Max(DOMAIN dir)
           f == CHOOSE f : Gathers(f, dir, M)
<1>0. M \in Nat /\ M \in DOMAIN dir
  <2>1. PICK n \in Nat : \A b \in DOMAIN dir : b <= n
    BY DEF Directory, Bounded
  <2>2. DOMAIN dir \in SUBSET Nat /\ DOMAIN dir # {}
    BY DEF Directory
  <2>3. M \in DOMAIN dir
    BY <2>1, <2>2, MaxBounded
  <2> QED BY <2>2, <2>3
<1>1. Index(dir) = f[M]
  BY DEF Index, Gathers
<1> HIDE DEF M
<1>2. Gathers(f, dir, M)
  BY <1>0, GatherExists
<1> HIDE DEF f
<1> DEFINE T == {n \in Nat : n <= M => Indexed(f[n], n, dir)}
<1>3. ASSUME NEW n \in 0 .. M, NEW xs, Indexed(xs, n - 1, dir),
             f[n] = xs \o (IF n \in DOMAIN dir THEN RecoverSegment(n, dir[n]) ELSE <<>>)
      PROVE  Indexed(f[n], n, dir)
  <2>1. CASE n \in DOMAIN dir
    <3>1. f[n] = xs \o RecoverSegment(n, dir[n])
      BY <2>1, <1>3
    <3> QED BY <2>1, <3>1, <1>3, IndexedOne
  <2>2. CASE n \notin DOMAIN dir
    <3>1. f[n] = xs \o <<>>
      BY <2>2, <1>3
    <3> QED BY <2>2, <3>1, <1>3, IndexedNone
  <2> QED BY <2>1, <2>2
<1>4. 0 \in T
  <2>1. 0 \in 0 .. M
    BY <1>0
  <2>2. Indexed(<<>>, 0 - 1, dir)
    BY DEF Indexed
  <2>3. f[0] = <<>> \o (IF 0 \in DOMAIN dir THEN RecoverSegment(0, dir[0]) ELSE <<>>)
    BY <2>1, <1>2 DEF Gathers
  <2>4. Indexed(f[0], 0, dir)
    BY <2>1, <2>2, <2>3, <1>3
  <2> QED BY <2>4
<1>5. ASSUME NEW n \in T PROVE n + 1 \in T
  <2> SUFFICES ASSUME n + 1 <= M PROVE Indexed(f[n + 1], n + 1, dir)
    BY <1>0
  <2>1. n + 1 \in 0 .. M /\ n \in 0 .. M /\ n + 1 # 0 /\ (n + 1) - 1 = n
    BY <1>0
  <2>2. Indexed(f[n], (n + 1) - 1, dir)
    BY <2>1
  <2>3. f[n + 1] = f[n] \o (IF n + 1 \in DOMAIN dir THEN RecoverSegment(n + 1, dir[n + 1])
                            ELSE <<>>)
    BY <2>1, <1>2 DEF Gathers
  <2> QED BY <2>1, <2>2, <2>3, <1>3
<1>6. T = Nat
  <2>1. T \in SUBSET Nat
    OBVIOUS
  <2> HIDE DEF T
  <2> QED BY <1>4, <1>5, <2>1, Upward
<1>7. Indexed(f[M], M, dir)
  BY <1>6, <1>0
<1> QED
  BY <1>7, <1>1 DEF M

-----------------------------------------------------------------------------
(* pruneCommittedSegments *)

\* Entry i is of a closed segment whose last record is behind the checkpoint.
Done(recs, chk, act, i) ==
  /\ recs[i].seg # act
  /\ recs[Max({j \in DOMAIN recs : recs[j].seg = recs[i].seg})].off < chk

LEMMA PrunedShape ==
  ASSUME NEW recs \in Seq(Entry), NEW chk \in Nat, NEW act \in Nat
  PROVE  /\ Pruned(recs, chk, act) \in 0 .. Len(recs)
         /\ \A i \in 1 .. Pruned(recs, chk, act) : Done(recs, chk, act, i)
         /\ Pruned(recs, chk, act) < Len(recs) =>
               ~ Done(recs, chk, act, Pruned(recs, chk, act) + 1)
<1> DEFINE S == {0} \union {k \in DOMAIN recs : \A i \in 1 .. k : Done(recs, chk, act, i)}
<1>1. Pruned(recs, chk, act) = Max(S)
  BY DEF Pruned, Done
<1>2. Len(recs) \in Nat /\ DOMAIN recs = 1 .. Len(recs)
  OBVIOUS
<1>3. PICK p : p = Max(S)
  OBVIOUS
<1>4. p \in S /\ \A x \in S : x <= p
  <2>1. S \in SUBSET Nat /\ S # {} /\ \A x \in S : x <= Len(recs)
    BY <1>2
  <2> HIDE DEF S
  <2> QED BY <1>2, <1>3, <2>1, MaxBounded
<1>5. p \in 0 .. Len(recs) /\ \A i \in 1 .. p : Done(recs, chk, act, i)
  BY <1>2, <1>4
<1>6. ASSUME p < Len(recs), Done(recs, chk, act, p + 1) PROVE FALSE
  <2>1. p + 1 \in DOMAIN recs
    BY <1>2, <1>5, <1>6
  <2>2. \A i \in 1 .. p + 1 : i \in 1 .. p \/ i = p + 1
    BY <1>5
  <2>3. p + 1 \in S
    BY <2>1, <2>2, <1>5, <1>6
  <2> HIDE DEF S
  <2>4. p + 1 <= p
    BY <2>3, <1>4
  <2> QED BY <2>4, <1>5
<1> HIDE DEF S
<1> QED
  BY <1>1, <1>3, <1>5, <1>6

\* The entries of a segment are neighbours and do not overlap; those of the
\* active segment are the last.
Ordered(recs, act) ==
  \A j \in 1 .. Len(recs) : \A i \in 1 .. j - 1 :
    /\ recs[i].seg = recs[j].seg =>
         /\ End(recs[i]) <= recs[j].pos
         /\ \A k \in i .. j : recs[k].seg = recs[i].seg
    /\ recs[i].seg = act => recs[j].seg = act

\* Pruning drops whole segments.
LEMMA KeptApart ==
  ASSUME NEW recs \in Seq(Entry), NEW chk \in Nat, NEW act \in Nat, Ordered(recs, act),
         NEW i \in 1 .. Pruned(recs, chk, act),
         NEW j \in Pruned(recs, chk, act) + 1 .. Len(recs)
  PROVE  recs[i].seg # recs[j].seg
<1> SUFFICES ASSUME recs[i].seg = recs[j].seg PROVE FALSE
  OBVIOUS
<1>1. PICK p : p = Pruned(recs, chk, act)
  OBVIOUS
<1>2. /\ p \in 0 .. Len(recs) /\ \A k \in 1 .. p : Done(recs, chk, act, k)
      /\ p < Len(recs) => ~ Done(recs, chk, act, p + 1)
  BY <1>1, PrunedShape
<1>3. i \in 1 .. p /\ j \in p + 1 .. Len(recs) /\ Len(recs) \in Nat
  BY <1>1
<1>4. p < Len(recs) /\ p + 1 \in i .. j /\ j \in 1 .. Len(recs) /\ i \in 1 .. j - 1
  BY <1>2, <1>3
<1>5. recs[p + 1].seg = recs[i].seg
  BY <1>4 DEF Ordered
<1>6. Done(recs, chk, act, i)
  BY <1>2, <1>3
<1>7. Done(recs, chk, act, p + 1)
  BY <1>5, <1>6 DEF Done
<1> QED
  BY <1>2, <1>4, <1>7

LEMMA KeptShape ==
  ASSUME NEW recs \in Seq(Entry), NEW chk \in Nat, NEW act \in Nat
  PROVE  /\ Kept(recs, chk, act) \in Seq(Entry)
         /\ Len(Kept(recs, chk, act)) = Len(recs) - Pruned(recs, chk, act)
         /\ \A i \in 1 .. Len(recs) - Pruned(recs, chk, act) :
               Kept(recs, chk, act)[i] = recs[Pruned(recs, chk, act) + i]
<1>1. PICK p : p = Pruned(recs, chk, act)
  OBVIOUS
<1>2. p \in 0 .. Len(recs) /\ Len(recs) \in Nat
  BY <1>1, PrunedShape
<1>3. Kept(recs, chk, act) = SubSeq(recs, p + 1, Len(recs))
  BY <1>1 DEF Kept
<1>4. Len(SubSeq(recs, p + 1, Len(recs))) = Len(recs) - p
  BY <1>2
<1>5. \A i \in 1 .. Len(recs) - p : SubSeq(recs, p + 1, Len(recs))[i] = recs[p + i]
  BY <1>2
<1>6. SubSeq(recs, p + 1, Len(recs)) \in Seq(Entry)
  BY <1>2
<1> QED
  BY <1>1, <1>3, <1>4, <1>5, <1>6

-----------------------------------------------------------------------------
(* What holds whatever goes wrong *)

\* The directory, and what of it is on the medium.
Disk(fs, sy) ==
  /\ Directory(fs)
  /\ sy \in [DOMAIN fs -> Nat]
  /\ \A b \in DOMAIN fs : sy[b] <= Len(fs[b])

\* The index points into the segments.
Indexes(recs, fs, act, buf) ==
  /\ recs \in Seq(Entry)
  /\ \A i \in 1 .. Len(recs) :
       /\ recs[i].seg \in DOMAIN fs
       /\ End(recs[i]) <= Len(fs[recs[i].seg]) + (IF recs[i].seg = act THEN Len(buf) ELSE 0)
  /\ Ordered(recs, act)

WCore ==
  /\ Disk(files, synced) /\ active \in DOMAIN files
  /\ buffer \in Seq(Byte) /\ Len(buffer) <= BufferSize
  /\ Indexes(records, files, active, buffer)

WRest ==
  /\ mode \in {"open", "closed", "down"} /\ writer \in {"ready", "failed"}
  /\ meta \in Nat /\ checkpoint \in Nat /\ baseOffset \in Nat
  /\ restarts \in Nat /\ faults \in Nat /\ attempts \in 0 .. MaxAttempts
  /\ hand \in [phase : {"idle", "deliver", "commit"}, upto : Nat, frames : SUBSET (1 .. MaxAttempts)]
  /\ seen \in SUBSET (1 .. MaxAttempts) /\ cut \in BOOLEAN

WHard == hard \in SUBSET (1 .. MaxAttempts)

W == WCore /\ WRest /\ WHard

LEMMA EntryEnd ==
  ASSUME NEW e \in Entry
  PROVE  /\ e.pos \in Nat /\ e.len \in Nat \ {0} /\ e.len \in Sizes /\ e.seg \in Nat /\ e.off \in Nat
         /\ End(e) \in Nat /\ e.pos < End(e) /\ End(e) = e.pos + e.len
<1>1. e.pos \in Nat /\ e.len \in Nat \ {0} /\ e.len \in Sizes /\ e.seg \in Nat /\ e.off \in Nat
  BY WalSegmentsAssumption DEF Entry
<1> QED
  BY <1>1 DEF End

\* The same as OnMedium, for any state.
Medium(fs, sy, recs) ==
  {fs[recs[i].seg][recs[i].pos + 1].tkt :
     i \in {j \in DOMAIN recs : End(recs[j]) <= sy[recs[j].seg]}}

LEMMA MediumTyped ==
  ASSUME NEW fs, NEW sy, Disk(fs, sy), NEW recs, NEW act, NEW buf, Indexes(recs, fs, act, buf)
  PROVE  Medium(fs, sy, recs) \in SUBSET (1 .. MaxAttempts)
<1> SUFFICES ASSUME NEW i \in DOMAIN recs, End(recs[i]) <= sy[recs[i].seg]
             PROVE  fs[recs[i].seg][recs[i].pos + 1].tkt \in 1 .. MaxAttempts
  BY DEF Medium
<1>0. recs \in Seq(Entry) /\ i \in 1 .. Len(recs)
  BY DEF Indexes
<1>1. recs[i] \in Entry /\ recs[i].seg \in DOMAIN fs
  <2>1. recs[i] \in Entry
    BY <1>0
  <2> QED BY <1>0, <2>1 DEF Indexes
<1>2. PICK b : b = recs[i].seg
  OBVIOUS
<1>3. b \in DOMAIN fs /\ fs[b] \in Seq(Byte) /\ sy[b] \in Nat /\ sy[b] <= Len(fs[b])
  BY <1>1, <1>2 DEF Disk, Directory
<1>4. /\ recs[i].pos \in Nat /\ End(recs[i]) \in Nat /\ recs[i].pos < End(recs[i])
      /\ Len(fs[b]) \in Nat
  BY <1>1, <1>3, EntryEnd
<1>5. recs[i].pos + 1 \in 1 .. Len(fs[b])
  BY <1>2, <1>3, <1>4
<1>6. fs[b][recs[i].pos + 1] \in Byte
  BY <1>3, <1>5
<1> QED
  BY <1>6, <1>2 DEF Byte

LEMMA HardenTyped == WHard /\ WCore' /\ Harden => WHard'
<1> SUFFICES ASSUME WHard, WCore', Harden PROVE WHard'
  OBVIOUS
<1>1. OnMedium' = Medium(files', synced', records')
  BY DEF OnMedium, Medium
<1>2. Disk(files', synced') /\ Indexes(records', files', active', buffer')
  BY DEF WCore
<1>3. OnMedium' \in SUBSET (1 .. MaxAttempts)
  BY <1>1, <1>2, MediumTyped
<1> QED
  BY <1>3 DEF WHard, Harden

\* One segment is given other bytes, at least those on the medium.
LEMMA DiskReplaced ==
  ASSUME NEW fs, NEW sy, Disk(fs, sy), NEW act \in DOMAIN fs, NEW x \in Seq(Byte), sy[act] <= Len(x)
  PROVE  Disk([fs EXCEPT ![act] = x], sy)
<1>1. PICK gs : gs = [fs EXCEPT ![act] = x]
  OBVIOUS
<1>2. /\ fs = [b \in DOMAIN fs |-> fs[b]] /\ DOMAIN fs \in SUBSET Nat /\ DOMAIN fs # {}
      /\ Bounded(DOMAIN fs) /\ \A b \in DOMAIN fs : fs[b] \in Seq(Byte)
  BY DEF Disk, Directory
<1>3. /\ DOMAIN gs = DOMAIN fs /\ gs[act] = x /\ \A b \in DOMAIN fs : b # act => gs[b] = fs[b]
      /\ gs = [b \in DOMAIN gs |-> gs[b]]
  BY <1>1, <1>2
<1>4. Directory(gs)
  BY <1>2, <1>3 DEF Directory
<1>5. sy \in [DOMAIN gs -> Nat] /\ \A b \in DOMAIN gs : sy[b] <= Len(gs[b])
  BY <1>3 DEF Disk
<1> QED
  BY <1>1, <1>4, <1>5 DEF Disk

\* A segment grows.
LEMMA DiskWritten ==
  ASSUME NEW fs, NEW sy, Disk(fs, sy), NEW act \in DOMAIN fs, NEW more \in Seq(Byte)
  PROVE  Disk([fs EXCEPT ![act] = @ \o more], sy)
<1>1. fs[act] \in Seq(Byte) /\ sy[act] \in Nat /\ sy[act] <= Len(fs[act])
  BY DEF Disk, Directory
<1>2. PICK x : x = fs[act] \o more
  OBVIOUS
<1>3. x \in Seq(Byte) /\ sy[act] <= Len(x)
  BY <1>1, <1>2
<1>4. Disk([fs EXCEPT ![act] = x], sy)
  BY <1>3, DiskReplaced
<1> QED
  BY <1>2, <1>4

\* A segment is fsynced.
LEMMA DiskSynced ==
  ASSUME NEW fs, NEW sy, Disk(fs, sy), NEW act \in DOMAIN fs, NEW n \in Nat, n <= Len(fs[act])
  PROVE  Disk(fs, [sy EXCEPT ![act] = n])
BY DEF Disk

\* A segment is opened.
LEMMA DiskOpened ==
  ASSUME NEW fs, NEW sy, Disk(fs, sy), NEW new \in Nat \ DOMAIN fs
  PROVE  Disk(With(fs, new, <<>>), With(sy, new, 0))
<1>1. PICK gs : gs = With(fs, new, <<>>)
  OBVIOUS
<1>2. /\ DOMAIN fs \in SUBSET Nat /\ DOMAIN fs # {} /\ Bounded(DOMAIN fs)
      /\ \A b \in DOMAIN fs : fs[b] \in Seq(Byte) /\ sy[b] \in Nat /\ sy[b] <= Len(fs[b])
  BY DEF Disk, Directory
<1>3. /\ DOMAIN gs = DOMAIN fs \union {new} /\ gs[new] = <<>>
      /\ \A b \in DOMAIN fs : gs[b] = fs[b]
      /\ gs = [b \in DOMAIN gs |-> gs[b]]
  BY <1>1 DEF With
<1>4. Bounded(DOMAIN gs)
  <2>1. PICK n \in Nat : \A b \in DOMAIN fs : b <= n
    BY <1>2 DEF Bounded
  <2>2. \A b \in DOMAIN gs : b <= n + new
    BY <1>2, <1>3, <2>1
  <2>3. n + new \in Nat
    OBVIOUS
  <2> QED BY <2>2, <2>3 DEF Bounded
<1>5. Directory(gs)
  <2>0. <<>> \in Seq(Byte)
    OBVIOUS
  <2>1. \A b \in DOMAIN gs : gs[b] \in Seq(Byte)
    BY <1>2, <1>3, <2>0
  <2> QED BY <1>2, <1>3, <1>4, <2>1 DEF Directory
<1>6. PICK sz : sz = With(sy, new, 0)
  OBVIOUS
<1>7. DOMAIN sy = DOMAIN fs
  BY DEF Disk
<1>8. /\ sz = [b \in DOMAIN gs |-> IF b = new THEN 0 ELSE sy[b]]
  BY <1>3, <1>6, <1>7 DEF With
<1>9. sz \in [DOMAIN gs -> Nat] /\ \A b \in DOMAIN gs : sz[b] <= Len(gs[b])
  BY <1>2, <1>3, <1>8
<1> QED
  BY <1>1, <1>5, <1>6, <1>9 DEF Disk

\* Segments are removed.
LEMMA DiskWithout ==
  ASSUME NEW fs, NEW sy, Disk(fs, sy), NEW gone, NEW act \in DOMAIN fs, act \notin gone
  PROVE  Disk(Without(fs, gone), Without(sy, gone))
<1>1. PICK gs : gs = Without(fs, gone)
  OBVIOUS
<1>2. PICK sz : sz = Without(sy, gone)
  OBVIOUS
<1>3. /\ DOMAIN fs \in SUBSET Nat /\ Bounded(DOMAIN fs) /\ DOMAIN sy = DOMAIN fs
      /\ \A b \in DOMAIN fs : fs[b] \in Seq(Byte) /\ sy[b] \in Nat /\ sy[b] <= Len(fs[b])
  BY DEF Disk, Directory
<1>4. /\ DOMAIN gs = DOMAIN fs \ gone /\ \A b \in DOMAIN gs : gs[b] = fs[b]
      /\ gs = [b \in DOMAIN gs |-> gs[b]]
  BY <1>1 DEF Without
<1>5. DOMAIN gs # {} /\ Bounded(DOMAIN gs)
  BY <1>3, <1>4 DEF Bounded
<1>6. Directory(gs)
  <2>1. \A b \in DOMAIN gs : gs[b] \in Seq(Byte)
    BY <1>3, <1>4
  <2> QED BY <1>3, <1>4, <1>5, <2>1 DEF Directory
<1>7. sz = [b \in DOMAIN gs |-> sy[b]]
  BY <1>2, <1>3, <1>4 DEF Without
<1>8. sz \in [DOMAIN gs -> Nat] /\ \A b \in DOMAIN gs : sz[b] <= Len(gs[b])
  BY <1>3, <1>4, <1>7
<1> QED
  BY <1>1, <1>2, <1>6, <1>8 DEF Disk

\* The index stays good as long as no segment shrinks, its buffer counted.
LEMMA IndexesGrown ==
  ASSUME NEW recs, NEW fs, NEW act, NEW buf, Indexes(recs, fs, act, buf),
         NEW gs, NEW new, DOMAIN fs \subseteq DOMAIN gs,
         \A b \in DOMAIN fs :
           /\ Len(fs[b]) + (IF b = act THEN Len(buf) ELSE 0) \in Nat
           /\ Len(gs[b]) + (IF b = act THEN Len(new) ELSE 0) \in Nat
           /\ Len(fs[b]) + (IF b = act THEN Len(buf) ELSE 0)
                <= Len(gs[b]) + (IF b = act THEN Len(new) ELSE 0)
  PROVE  Indexes(recs, gs, act, new)
<1> SUFFICES ASSUME NEW i \in 1 .. Len(recs)
             PROVE  End(recs[i]) <= Len(gs[recs[i].seg])
                                      + (IF recs[i].seg = act THEN Len(new) ELSE 0)
  BY DEF Indexes
<1>1. PICK b : b = recs[i].seg
  OBVIOUS
<1>2. recs[i] \in Entry /\ b \in DOMAIN fs
  <2>1. recs \in Seq(Entry)
    BY DEF Indexes
  <2>2. recs[i] \in Entry
    BY <2>1
  <2> QED BY <1>1, <2>2 DEF Indexes
<1>3. End(recs[i]) \in Nat
  BY <1>2, EntryEnd
<1>4. End(recs[i]) <= Len(fs[b]) + (IF b = act THEN Len(buf) ELSE 0)
  BY <1>1 DEF Indexes
<1> QED
  BY <1>1, <1>2, <1>3, <1>4, LeqThrough

LEMMA IndexesEmpty ==
  ASSUME NEW fs, NEW act, NEW buf
  PROVE  Indexes(<<>>, fs, act, buf)
BY DEF Indexes, Ordered

LEMMA BytesTyped ==
  ASSUME NEW tkt \in 1 .. MaxAttempts, NEW n \in Sizes
  PROVE  /\ n \in Nat \ {0} /\ Bytes(tkt, n) \in Seq(Byte) /\ Len(Bytes(tkt, n)) = n
         /\ \A k \in 1 .. n : Bytes(tkt, n)[k] = [tkt |-> tkt, size |-> n, part |-> k]
<1>1. n \in Nat \ {0}
  BY WalSegmentsAssumption
<1>2. \A k \in 1 .. n : [tkt |-> tkt, size |-> n, part |-> k] \in Byte
  BY <1>1 DEF Byte
<1> QED
  BY <1>1, <1>2 DEF Bytes

\* What bufio.Writer hands over leaves no more than fits into its buffer.
LEMMA HandedOverFits ==
  ASSUME NEW b \in Nat, b <= BufferSize, NEW n \in Nat \ {0}
  PROVE  HandedOver(b, n) \in 0 .. b + n /\ b + n - HandedOver(b, n) <= BufferSize
<1>1. BufferSize \in Nat \ {0}
  BY WalSegmentsAssumption
<1> QED
  BY <1>1 DEF HandedOver, Spilled

\* An order is kept when an entry of the active segment comes last.
LEMMA OrderedAppend ==
  ASSUME NEW recs \in Seq(Entry), NEW act \in Nat, Ordered(recs, act), NEW e \in Entry, e.seg = act,
         \A i \in 1 .. Len(recs) : recs[i].seg = act => End(recs[i]) <= e.pos
  PROVE  Ordered(Append(recs, e), act)
<1>1. PICK rs : rs = Append(recs, e)
  OBVIOUS
<1>2. /\ Len(recs) \in Nat /\ Len(rs) = Len(recs) + 1 /\ rs[Len(recs) + 1] = e
      /\ \A i \in 1 .. Len(recs) : rs[i] = recs[i]
  BY <1>1
<1>3. ASSUME NEW j \in 1 .. Len(rs), NEW i \in 1 .. j - 1
      PROVE  /\ rs[i].seg = rs[j].seg =>
                  /\ End(rs[i]) <= rs[j].pos
                  /\ \A k \in i .. j : rs[k].seg = rs[i].seg
             /\ rs[i].seg = act => rs[j].seg = act
  <2>0. i \in 1 .. Len(recs) /\ rs[i] = recs[i]
    BY <1>2
  <2>1. CASE j = Len(recs) + 1
    <3>1. rs[j] = e
      BY <2>1, <1>2
    <3>2. ASSUME rs[i].seg = e.seg PROVE \A k \in i .. j : rs[k].seg = act
      <4> SUFFICES ASSUME NEW k \in i .. j PROVE rs[k].seg = act
        OBVIOUS
      <4>1. CASE k = j
        BY <4>1, <3>1
      <4>2. CASE k = i
        BY <4>2, <3>2
      <4>3. CASE k # j /\ k # i
        <5>1. k \in 1 .. Len(recs) /\ i \in 1 .. k - 1
          BY <4>3, <2>0, <2>1
        <5>2. recs[k].seg = act
          BY <5>1, <2>0, <3>2 DEF Ordered
        <5> QED BY <5>1, <5>2, <1>2
      <4> QED BY <4>1, <4>2, <4>3
    <3> QED BY <2>0, <3>1, <3>2
  <2>2. CASE j # Len(recs) + 1
    <3>1. j \in 1 .. Len(recs) /\ rs[j] = recs[j]
      BY <2>2, <1>2
    <3>2. \A k \in i .. j : rs[k] = recs[k]
      BY <3>1, <2>0, <1>2
    <3> QED BY <2>0, <3>1, <3>2 DEF Ordered
  <2> QED BY <2>1, <2>2
<1> QED
  BY <1>1, <1>3 DEF Ordered

LEMMA SplitBytes ==
  ASSUME NEW x \in Seq(Byte), NEW all \in Seq(Byte), NEW k \in 0 .. Len(all)
  PROVE  /\ SubSeq(all, 1, k) \in Seq(Byte) /\ Len(SubSeq(all, 1, k)) = k
         /\ SubSeq(all, k + 1, Len(all)) \in Seq(Byte)
         /\ Len(SubSeq(all, k + 1, Len(all))) = Len(all) - k
         /\ (x \o SubSeq(all, 1, k)) \o SubSeq(all, k + 1, Len(all)) = x \o all
<1>0. Len(all) \in Nat /\ Len(x) \in Nat
  OBVIOUS
<1>1. PICK a : a = SubSeq(all, 1, k)
  OBVIOUS
<1>2. PICK b : b = SubSeq(all, k + 1, Len(all))
  OBVIOUS
<1>3. /\ a \in Seq(Byte) /\ Len(a) = k /\ \A i \in 1 .. k : a[i] = all[i]
  BY <1>0, <1>1
<1>4. /\ b \in Seq(Byte) /\ Len(b) = Len(all) - k
      /\ \A i \in 1 .. Len(all) - k : b[i] = all[k + i]
  BY <1>0, <1>2
<1>5. (x \o a) \o b = x \o all
  <2>a. PICK xa : xa = x \o a
    OBVIOUS
  <2>b. PICK u : u = xa \o b
    OBVIOUS
  <2>c. PICK v : v = x \o all
    OBVIOUS
  <2>1. /\ xa \in Seq(Byte) /\ Len(xa) = Len(x) + k
        /\ \A i \in 1 .. Len(x) : xa[i] = x[i]
        /\ \A i \in Len(x) + 1 .. Len(x) + k : xa[i] = a[i - Len(x)]
    <3>1. a \in Seq(Byte) /\ Len(a) = k
      BY <1>3
    <3>2. /\ xa \in Seq(Byte) /\ Len(xa) = Len(x) + Len(a)
          /\ \A i \in 1 .. Len(x) + Len(a) :
               xa[i] = IF i <= Len(x) THEN x[i] ELSE a[i - Len(x)]
      BY <3>1, <2>a, ConcatProperties
    <3> QED BY <3>1, <3>2, <1>0
  <2>e. xa \in Seq(Byte) /\ b \in Seq(Byte)
    BY <2>1, <1>4
  <2>f. /\ u \in Seq(Byte) /\ Len(u) = Len(xa) + Len(b)
        /\ \A i \in 1 .. Len(xa) + Len(b) :
             u[i] = IF i <= Len(xa) THEN xa[i] ELSE b[i - Len(xa)]
    BY <2>e, <2>b, ConcatProperties
  <2>d. u \in Seq(Byte) /\ Len(u) = Len(xa) + Len(b)
    BY <2>f
  <2>g. /\ v \in Seq(Byte) /\ Len(v) = Len(x) + Len(all)
        /\ \A i \in 1 .. Len(x) + Len(all) :
             v[i] = IF i <= Len(x) THEN x[i] ELSE all[i - Len(x)]
    BY <2>c, ConcatProperties
  <2>2. v \in Seq(Byte) /\ Len(v) = Len(x) + Len(all)
    BY <2>g
  <2>4. Len(u) = Len(x) + Len(all)
    BY <2>d, <2>1, <1>4, <1>0
  <2>n. Len(xa) \in Nat /\ Len(b) \in Nat
    BY <2>e
  <2>5. \A i \in 1 .. Len(xa) : u[i] = xa[i]
    BY <2>f, <2>n
  <2>6. \A i \in Len(xa) + 1 .. Len(xa) + Len(b) : u[i] = b[i - Len(xa)]
    BY <2>f, <2>n
  <2>7. \A i \in 1 .. Len(x) : v[i] = x[i]
    BY <1>0, <2>g
  <2>8. \A i \in Len(x) + 1 .. Len(x) + Len(all) : v[i] = all[i - Len(x)]
    BY <1>0, <2>g
  <2>3. ASSUME NEW i \in 1 .. Len(x) + Len(all) PROVE u[i] = v[i]
    <3>1. CASE i <= Len(x)
      <4>1. i \in 1 .. Len(x) /\ i \in 1 .. Len(xa)
        BY <3>1, <2>1, <1>0
      <4> QED BY <4>1, <2>1, <2>5, <2>7
    <3>2. CASE i > Len(x) /\ i <= Len(x) + k
      <4>1. i - Len(x) \in 1 .. k /\ i \in Len(x) + 1 .. Len(x) + k /\ i \in 1 .. Len(xa)
            /\ i \in Len(x) + 1 .. Len(x) + Len(all)
        BY <3>2, <1>0, <2>1
      <4> QED BY <4>1, <1>3, <2>1, <2>5, <2>8
    <3>3. CASE i > Len(x) + k
      <4>1. i - Len(xa) \in 1 .. Len(all) - k /\ k + (i - Len(xa)) = i - Len(x)
            /\ i \in Len(xa) + 1 .. Len(xa) + Len(b)
            /\ i \in Len(x) + 1 .. Len(x) + Len(all)
        BY <3>3, <1>0, <2>1, <1>4
      <4> QED BY <4>1, <1>4, <2>6, <2>8
    <3> QED BY <3>1, <3>2, <3>3, <1>0
  <2>9. u = v
    BY <2>d, <2>2, <2>3, <2>4
  <2> QED BY <2>9, <2>a, <2>b, <2>c
<1> QED
  BY <1>1, <1>2, <1>3, <1>4, <1>5

\* Of the bytes "all", k are handed to the active file and the rest is left.
Handed(fs, act, all, k) == [fs EXCEPT ![act] = @ \o SubSeq(all, 1, k)]
Left(all, k)            == SubSeq(all, k + 1, Len(all))

\* A frame is appended, and k bytes of buffer and frame are handed to the file.
LEMMA IndexesAppended ==
  ASSUME NEW fs, NEW sy, Disk(fs, sy), NEW act \in DOMAIN fs, NEW buf \in Seq(Byte),
         NEW recs, Indexes(recs, fs, act, buf),
         NEW new \in Seq(Byte), NEW k \in 0 .. Len(buf) + Len(new), NEW e \in Entry, e.seg = act,
         e.pos = Len(fs[act]) + Len(buf), e.len = Len(new)
  PROVE  /\ Disk(Handed(fs, act, buf \o new, k), sy)
         /\ k = Len(buf) + Len(new) =>
              Disk(Handed(fs, act, buf \o new, k),
                   [sy EXCEPT ![act] = Len(fs[act]) + Len(buf) + Len(new)])
         /\ Left(buf \o new, k) \in Seq(Byte)
         /\ Len(Left(buf \o new, k)) = Len(buf) + Len(new) - k
         /\ Indexes(Append(recs, e), Handed(fs, act, buf \o new, k), act, Left(buf \o new, k))
<1>1. PICK all : all = buf \o new
  OBVIOUS
<1>2. all \in Seq(Byte) /\ Len(all) = Len(buf) + Len(new) /\ k \in 0 .. Len(all)
  BY <1>1
<1>3. fs[act] \in Seq(Byte) /\ act \in Nat /\ Len(fs[act]) \in Nat /\ Len(buf) \in Nat
      /\ Len(new) \in Nat /\ DOMAIN fs \in SUBSET Nat /\ \A b \in DOMAIN fs : fs[b] \in Seq(Byte)
  BY DEF Disk, Directory
<1>4. PICK a : a = SubSeq(all, 1, k)
  OBVIOUS
<1>5. PICK c : c = SubSeq(all, k + 1, Len(all))
  OBVIOUS
<1>6. /\ a \in Seq(Byte) /\ Len(a) = k /\ c \in Seq(Byte) /\ Len(c) = Len(all) - k
  BY <1>2, <1>3, <1>4, <1>5, SplitBytes
<1>7. PICK gs : gs = [fs EXCEPT ![act] = @ \o a]
  OBVIOUS
<1>8. Disk(gs, sy)
  BY <1>6, <1>7, DiskWritten
<1>9. gs[act] = fs[act] \o a /\ DOMAIN gs = DOMAIN fs /\ \A b \in DOMAIN fs : b # act => gs[b] = fs[b]
  BY <1>7
<1>10. Len(gs[act]) = Len(fs[act]) + k
  <2>1. fs[act] \in Seq(Byte) /\ a \in Seq(Byte) /\ Len(a) = k
    BY <1>3, <1>6
  <2>2. Len(fs[act] \o a) = Len(fs[act]) + k
    BY <2>1, ConcatProperties
  <2> QED BY <2>2, <1>9
<1>11. ASSUME k = Len(all) PROVE Disk(gs, [sy EXCEPT ![act] = Len(fs[act]) + Len(all)])
  <2>1. act \in DOMAIN gs /\ Len(fs[act]) + Len(all) \in Nat
        /\ Len(fs[act]) + Len(all) <= Len(gs[act])
    BY <1>9, <1>10, <1>11, <1>3, <1>2
  <2> QED BY <2>1, <1>8, DiskSynced
<1>12. recs \in Seq(Entry) /\ Ordered(recs, act)
  BY DEF Indexes
<1>13. ASSUME NEW i \in 1 .. Len(recs)
       PROVE  /\ recs[i] \in Entry /\ recs[i].seg \in DOMAIN fs
              /\ End(recs[i]) <= Len(fs[recs[i].seg]) + (IF recs[i].seg = act THEN Len(buf) ELSE 0)
  <2>1. recs[i] \in Entry
    BY <1>12
  <2> QED BY <2>1 DEF Indexes
<1>14. Ordered(Append(recs, e), act)
  BY <1>12, <1>13, <1>3, OrderedAppend
<1>15. ASSUME NEW i \in 1 .. Len(Append(recs, e))
       PROVE  /\ Append(recs, e)[i].seg \in DOMAIN gs
              /\ End(Append(recs, e)[i]) <= Len(gs[Append(recs, e)[i].seg])
                   + (IF Append(recs, e)[i].seg = act THEN Len(c) ELSE 0)
  <2>1. CASE i = Len(recs) + 1
    <3>1. Append(recs, e)[i] = e
      BY <2>1, <1>12
    <3>2. End(e) = Len(fs[act]) + Len(all)
      BY <1>2, <1>3 DEF End
    <3>3. Len(gs[act]) + Len(c) = Len(fs[act]) + Len(all) /\ act \in DOMAIN gs
      BY <1>10, <1>6, <1>9, <1>3, <1>2
    <3>4. Len(fs[act]) + Len(all) \in Nat
      BY <1>2, <1>3
    <3> QED BY <3>1, <3>2, <3>3, <3>4
  <2>2. CASE i # Len(recs) + 1
    <3>1. i \in 1 .. Len(recs) /\ Append(recs, e)[i] = recs[i]
      BY <2>2, <1>12
    <3>2. PICK b : b = recs[i].seg
      OBVIOUS
    <3>3. b \in DOMAIN fs /\ End(recs[i]) \in Nat /\ fs[b] \in Seq(Byte)
          /\ End(recs[i]) <= Len(fs[b]) + (IF b = act THEN Len(buf) ELSE 0)
      BY <3>1, <3>2, <1>13, <1>3, EntryEnd
    <3>4. CASE b = act
      <4>1. Len(gs[b]) + Len(c) = Len(fs[act]) + Len(buf) + Len(new)
        BY <3>4, <1>10, <1>6, <1>2, <1>3
      <4> QED BY <3>1, <3>2, <3>3, <3>4, <4>1, <1>3, <1>9
    <3>5. CASE b # act
      BY <3>1, <3>2, <3>3, <3>5, <1>9
    <3> QED BY <3>4, <3>5
  <2> QED BY <2>1, <2>2, <1>12
<1>16. Indexes(Append(recs, e), gs, act, c)
  <2>1. Append(recs, e) \in Seq(Entry)
    BY <1>12
  <2> QED BY <2>1, <1>14, <1>15 DEF Indexes
<1>17. Len(fs[act]) + Len(all) = Len(fs[act]) + Len(buf) + Len(new)
  BY <1>2, <1>3
<1>18. k = Len(buf) + Len(new) => Disk(gs, [sy EXCEPT ![act] = Len(fs[act]) + Len(buf) + Len(new)])
  BY <1>2, <1>11, <1>17
<1>24. Len(c) = Len(buf) + Len(new) - k
  BY <1>2, <1>6, <1>3
<1>19. gs = Handed(fs, act, buf \o new, k) /\ c = Left(buf \o new, k)
  BY <1>1, <1>4, <1>5, <1>7 DEF Handed, Left
<1> QED
  BY <1>6, <1>8, <1>16, <1>18, <1>19, <1>24

\* Where a frame goes: the active segment, or a new one.
LEMMA SlotShape ==
  ASSUME WCore, baseOffset \in Nat, NEW n, NeedsRotation(n) => FreshName
  PROVE  /\ Disk(Slot(n).files, Slot(n).synced)
         /\ Slot(n).active \in DOMAIN Slot(n).files
         /\ Slot(n).buffer \in Seq(Byte) /\ Len(Slot(n).buffer) <= BufferSize
         /\ Indexes(records, Slot(n).files, Slot(n).active, Slot(n).buffer)
<1>1. /\ Disk(files, synced) /\ active \in DOMAIN files
      /\ buffer \in Seq(Byte) /\ Len(buffer) <= BufferSize
      /\ Indexes(records, files, active, buffer)
  BY DEF WCore
<1>2. CASE ~ NeedsRotation(n)
  BY <1>1, <1>2 DEF Slot
<1>3. CASE NeedsRotation(n)
  <2>1. PICK new : new = NextOffset
    OBVIOUS
  <2>2. new \in Nat \ DOMAIN files
    BY <1>1, <1>3, <2>1 DEF NextOffset, FreshName, Indexes
  <2>3. PICK fs : fs = [files EXCEPT ![active] = @ \o buffer]
    OBVIOUS
  <2>4. PICK sy : sy = [synced EXCEPT ![active] = WritePos]
    OBVIOUS
  <2>5. Disk(fs, synced)
    BY <1>1, <2>3, DiskWritten
  <2>6. files[active] \in Seq(Byte) /\ DOMAIN fs = DOMAIN files /\ fs[active] = files[active] \o buffer
        /\ \A b \in DOMAIN files : b # active => fs[b] = files[b]
    BY <1>1, <2>3 DEF Disk, Directory
  <2>7. WritePos \in Nat /\ WritePos <= Len(fs[active])
    BY <1>1, <2>6 DEF WritePos
  <2>8. Disk(fs, sy)
    BY <1>1, <2>4, <2>5, <2>6, <2>7, DiskSynced
  <2>9. PICK gs : gs = With(fs, new, <<>>)
    OBVIOUS
  <2>10. PICK sz : sz = With(sy, new, 0)
    OBVIOUS
  <2>11. Disk(gs, sz)
    BY <2>2, <2>6, <2>8, <2>9, <2>10, DiskOpened
  <2>12. Slot(n) = [files |-> gs, synced |-> sz, active |-> new, buffer |-> <<>>]
    BY <1>3, <2>1, <2>3, <2>4, <2>9, <2>10 DEF Slot, Rotated
  <2>13. DOMAIN gs = DOMAIN files \union {new} /\ \A b \in DOMAIN files : gs[b] = fs[b]
    BY <2>2, <2>6, <2>9 DEF With
  <2>14. ASSUME NEW i \in 1 .. Len(records)
         PROVE  /\ records[i].seg \in DOMAIN gs /\ records[i].seg # new
                /\ End(records[i]) <= Len(gs[records[i].seg])
    <3>1. PICK b : b = records[i].seg
      OBVIOUS
    <3>2. b \in DOMAIN files
          /\ End(records[i]) <= Len(files[b]) + (IF b = active THEN Len(buffer) ELSE 0)
      BY <1>1, <3>1 DEF Indexes
    <3>3. Len(gs[b]) = Len(files[b]) + (IF b = active THEN Len(buffer) ELSE 0)
      <4>1. CASE b = active
        BY <4>1, <1>1, <2>6, <2>13
      <4>2. CASE b # active
        <5>1. gs[b] = files[b] /\ files[b] \in Seq(Byte)
          BY <4>2, <1>1, <2>6, <2>13, <3>2 DEF Disk, Directory
        <5> QED BY <4>2, <5>1
      <4> QED BY <4>1, <4>2
    <3> QED BY <3>1, <3>2, <3>3, <2>2, <2>13
  <2>15. Ordered(records, new)
    <3>1. Ordered(records, active)
      BY <1>1 DEF Indexes
    <3>2. \A j \in 1 .. Len(records) : \A i \in 1 .. j - 1 : i \in 1 .. Len(records)
      BY <1>1 DEF Indexes
    <3> QED BY <3>1, <3>2, <2>14 DEF Ordered
  <2>16. Indexes(records, gs, new, <<>>)
    BY <2>14, <2>15, <1>1 DEF Indexes
  <2>17. <<>> \in Seq(Byte) /\ Len(<<>>) <= BufferSize
    BY WalSegmentsAssumption
  <2>18. new \in DOMAIN gs
    BY <2>13
  <2> QED BY <2>11, <2>12, <2>16, <2>17, <2>18
<1> QED
  BY <1>2, <1>3

LEMMA AppendAckedTyped == WCore /\ WRest /\ (\E n \in Sizes : AppendAcked(n)) => WCore' /\ WRest'
<1> SUFFICES ASSUME WCore, WRest, NEW n \in Sizes, AppendAcked(n) PROVE WCore' /\ WRest'
  OBVIOUS
<1>0. PICK fs, sy, act, buf : /\ fs = Slot(n).files /\ sy = Slot(n).synced
                             /\ act = Slot(n).active /\ buf = Slot(n).buffer
  OBVIOUS
<1>2. /\ Disk(fs, sy) /\ act \in DOMAIN fs
      /\ buf \in Seq(Byte) /\ Len(buf) <= BufferSize
      /\ Indexes(records, fs, act, buf)
  BY <1>0, SlotShape DEF AppendAcked, Admitted, WRest
<1>3. attempts + 1 \in 1 .. MaxAttempts
  <2>1. attempts \in 0 .. MaxAttempts /\ attempts < MaxAttempts
    BY DEF AppendAcked, Admitted, WRest
  <2> QED BY <2>1, WalSegmentsAssumption
<1>4. PICK new : new = Bytes(attempts + 1, n)
  OBVIOUS
<1>5. n \in Nat \ {0} /\ new \in Seq(Byte) /\ Len(new) = n
  BY <1>3, <1>4, BytesTyped
<1>6. PICK k : k = HandedOver(Len(buf), n)
  OBVIOUS
<1>7. /\ Len(buf) \in Nat /\ k \in 0 .. Len(buf) + n
      /\ Len(buf) + n - k <= BufferSize
  BY <1>2, <1>5, <1>6, HandedOverFits
<1>8. PICK e : e = [off |-> NextOffset, seg |-> act,
                    pos |-> Len(fs[act]) + Len(buf), len |-> n]
  OBVIOUS
<1>9. act \in Nat /\ fs[act] \in Seq(Byte)
  BY <1>2 DEF Disk, Directory
<1>10. e \in Entry /\ e.seg = act /\ e.pos = Len(fs[act]) + Len(buf)
       /\ e.len = Len(new)
  <2>1. NextOffset \in Nat
    BY <1>2 DEF NextOffset, Indexes, WRest
  <2>2. Len(fs[act]) + Len(buf) \in Nat
    BY <1>7, <1>9
  <2> QED BY <2>1, <2>2, <1>5, <1>8, <1>9 DEF Entry
<1>11. /\ files' = Handed(fs, act, buf \o new, k)
       /\ buffer' = Left(buf \o new, k)
       /\ synced' = IF SyncPolicy = "SyncEveryRecord"
                    THEN [sy EXCEPT ![act] = Len(fs[act]) + Len(buf) + n]
                    ELSE sy
       /\ active' = act
       /\ records' = Append(records, e)
  BY <1>0, <1>4, <1>6, <1>8 DEF AppendAcked, Handed, Left
<1>12. k \in 0 .. Len(buf) + Len(new)
  BY <1>5, <1>7
<1>13. /\ Disk(files', sy)
       /\ k = Len(buf) + Len(new) =>
            Disk(files', [sy EXCEPT ![act] = Len(fs[act]) + Len(buf)
                                                          + Len(new)])
       /\ buffer' \in Seq(Byte) /\ Len(buffer') = Len(buf) + Len(new) - k
       /\ Indexes(records', files', active', buffer')
  <2>1. PICK recs : recs = records
    OBVIOUS
  <2>2. Indexes(recs, fs, act, buf)
    BY <1>2, <2>1
  <2>3. /\ Disk(Handed(fs, act, buf \o new, k), sy)
        /\ k = Len(buf) + Len(new) =>
             Disk(Handed(fs, act, buf \o new, k),
                  [sy EXCEPT ![act] = Len(fs[act]) + Len(buf) + Len(new)])
        /\ Left(buf \o new, k) \in Seq(Byte)
        /\ Len(Left(buf \o new, k)) = Len(buf) + Len(new) - k
        /\ Indexes(Append(recs, e), Handed(fs, act, buf \o new, k), act, Left(buf \o new, k))
    <3>1. /\ Disk(fs, sy) /\ act \in DOMAIN fs /\ buf \in Seq(Byte)
          /\ Indexes(recs, fs, act, buf) /\ new \in Seq(Byte)
      BY <1>2, <1>5, <2>2
    <3>2. k \in 0 .. Len(buf) + Len(new)
      BY <1>12
    <3>3. e \in Entry /\ e.seg = act /\ e.pos = Len(fs[act]) + Len(buf) /\ e.len = Len(new)
      BY <1>10
    <3> QED BY <3>1, <3>2, <3>3, IndexesAppended
  <2> QED BY <1>11, <2>1, <2>3
<1>14. Disk(files', synced')
  <2>1. CASE SyncPolicy = "SyncEveryRecord"
    <3>1. k = Len(buf) + Len(new)
      BY <2>1, <1>5, <1>6 DEF HandedOver
    <3> QED BY <2>1, <3>1, <1>5, <1>11, <1>13
  <2>2. CASE SyncPolicy # "SyncEveryRecord"
    BY <2>2, <1>11, <1>13
  <2> QED BY <2>1, <2>2
<1>15. active' \in DOMAIN files'
  BY <1>2, <1>11 DEF Handed
<1>16. Len(buffer') <= BufferSize
  BY <1>5, <1>7, <1>13
<1>17. WCore'
  BY <1>13, <1>14, <1>15, <1>16 DEF WCore
<1>18. WRest'
  BY <1>3 DEF AppendAcked, bounds, WRest
<1> QED
  BY <1>17, <1>18

\* The index after rollbackTo cut the active segment to target bytes.
CutTo(recs, act, target) ==
  SubSeq(recs, 1, Max({0} \union {i \in DOMAIN recs : ~ (recs[i].seg = act /\ End(recs[i]) > target)}))

LEMMA CutShape ==
  ASSUME NEW recs \in Seq(Entry), NEW act, NEW target
  PROVE  \E m \in 0 .. Len(recs) :
           /\ CutTo(recs, act, target) = SubSeq(recs, 1, m)
           /\ m > 0 => ~ (recs[m].seg = act /\ End(recs[m]) > target)
           /\ \A i \in m + 1 .. Len(recs) : recs[i].seg = act /\ End(recs[i]) > target
<1> DEFINE S == {0} \union {i \in DOMAIN recs : ~ (recs[i].seg = act /\ End(recs[i]) > target)}
<1>1. PICK m : m = Max(S)
  OBVIOUS
<1>2. Len(recs) \in Nat /\ DOMAIN recs = 1 .. Len(recs)
  OBVIOUS
<1>3. m \in S /\ \A x \in S : x <= m
  <2>1. S \in SUBSET Nat /\ S # {} /\ \A x \in S : x <= Len(recs)
    BY <1>2
  <2> HIDE DEF S
  <2> QED BY <1>1, <1>2, <2>1, MaxBounded
<1>4. m \in 0 .. Len(recs) /\ (m > 0 => ~ (recs[m].seg = act /\ End(recs[m]) > target))
  BY <1>2, <1>3
<1>5. ASSUME NEW i \in m + 1 .. Len(recs) PROVE recs[i].seg = act /\ End(recs[i]) > target
  <2>1. i \in DOMAIN recs /\ i > m
    BY <1>2, <1>4
  <2>2. i \notin S
    <3> HIDE DEF S
    <3> QED BY <2>1, <1>3, <1>4
  <2> QED BY <2>1, <2>2
<1>6. CutTo(recs, act, target) = SubSeq(recs, 1, m)
  BY <1>1 DEF CutTo
<1> QED
  BY <1>4, <1>5, <1>6

LEMMA Prefix ==
  ASSUME NEW S, NEW q \in Seq(S), NEW m \in 0 .. Len(q)
  PROVE  /\ SubSeq(q, 1, m) \in Seq(S) /\ Len(SubSeq(q, 1, m)) = m
         /\ \A i \in 1 .. m : SubSeq(q, 1, m)[i] = q[i]
OBVIOUS

\* The active segment with the first target bytes of now.
Truncated(fs, act, now, target) == [fs EXCEPT ![act] = SubSeq(now, 1, target)]

LEMMA RolledBack ==
  ASSUME NEW fs, NEW sy, Disk(fs, sy), NEW act \in DOMAIN fs,
         NEW recs, NEW buf, Indexes(recs, fs, act, buf),
         NEW now \in Seq(Byte), NEW target \in Nat, target <= Len(now), sy[act] <= target
  PROVE  /\ Disk(Truncated(fs, act, now, target), sy)
         /\ Indexes(CutTo(recs, act, target), Truncated(fs, act, now, target), act, <<>>)
<1>1. PICK x : x = SubSeq(now, 1, target)
  OBVIOUS
<1>2. x \in Seq(Byte) /\ Len(x) = target
  BY <1>1, Prefix
<1>3. PICK gs : gs = [fs EXCEPT ![act] = x]
  OBVIOUS
<1>4. Disk(gs, sy)
  BY <1>2, <1>3, DiskReplaced
<1>5. /\ gs[act] = x /\ DOMAIN gs = DOMAIN fs /\ \A b \in DOMAIN fs : b # act => gs[b] = fs[b]
      /\ \A b \in DOMAIN fs : Len(fs[b]) \in Nat
  BY <1>3 DEF Disk, Directory
<1>6. recs \in Seq(Entry) /\ Ordered(recs, act) /\ Len(recs) \in Nat
  BY DEF Indexes
<1>7. PICK m \in 0 .. Len(recs) :
           /\ CutTo(recs, act, target) = SubSeq(recs, 1, m)
           /\ m > 0 => ~ (recs[m].seg = act /\ End(recs[m]) > target)
  BY <1>6, CutShape
<1>8. PICK rs : rs = SubSeq(recs, 1, m)
  OBVIOUS
<1>9. rs \in Seq(Entry) /\ Len(rs) = m /\ \A i \in 1 .. m : rs[i] = recs[i]
  BY <1>6, <1>8, Prefix
<1>10. \A i \in 1 .. Len(recs) : recs[i] \in Entry
  BY <1>6
<1>11. ASSUME NEW i \in 1 .. m
       PROVE  rs[i].seg \in DOMAIN gs
              /\ End(rs[i]) <= Len(gs[rs[i].seg]) + (IF rs[i].seg = act THEN Len(<<>>) ELSE 0)
  <2>0. i \in 1 .. Len(recs) /\ rs[i] = recs[i] /\ recs[i] \in Entry /\ End(recs[i]) \in Nat
    BY <1>7, <1>9, <1>10, EntryEnd
  <2>1. recs[i].seg \in DOMAIN fs
        /\ End(recs[i]) <= Len(fs[recs[i].seg]) + (IF recs[i].seg = act THEN Len(buf) ELSE 0)
    BY <2>0 DEF Indexes
  <2>2. CASE recs[i].seg = act
    <3>1. End(recs[i]) <= target
      <4>0. m \in 1 .. Len(recs) /\ recs[m] \in Entry
        BY <1>7, <1>10
      <4>1. CASE i = m
        BY <4>1, <1>7, <2>2, <2>0
      <4>2. CASE i # m
        <5>1. i \in 1 .. m - 1
          BY <4>2, <1>7
        <5>2. recs[m].seg = act
          BY <5>1, <4>0, <1>6, <2>2 DEF Ordered
        <5>3. End(recs[i]) <= recs[m].pos
          BY <5>1, <5>2, <4>0, <1>6, <2>2 DEF Ordered
        <5>4. /\ recs[m].pos \in Nat /\ End(recs[m]) \in Nat
              /\ recs[m].pos < End(recs[m])
          BY <4>0, EntryEnd
        <5>5. End(recs[m]) <= target
          BY <5>2, <5>4, <4>0, <1>7
        <5> QED BY <5>3, <5>4, <5>5, <2>0
      <4> QED BY <4>1, <4>2
    <3> QED BY <3>1, <2>0, <2>1, <2>2, <1>2, <1>5
  <2>3. CASE recs[i].seg # act
    BY <2>0, <2>1, <2>3, <1>5
  <2> QED BY <2>2, <2>3
<1>12. Ordered(rs, act)
  <2>1. ASSUME NEW j \in 1 .. m, NEW i \in 1 .. j - 1
        PROVE  /\ rs[i].seg = rs[j].seg =>
                    /\ End(rs[i]) <= rs[j].pos
                    /\ \A k \in i .. j : rs[k].seg = rs[i].seg
               /\ rs[i].seg = act => rs[j].seg = act
    <3>1. j \in 1 .. Len(recs) /\ i \in 1 .. m /\ \A k \in i .. j : k \in 1 .. m
      BY <1>7
    <3>2. rs[i] = recs[i] /\ rs[j] = recs[j] /\ \A k \in i .. j : rs[k] = recs[k]
      <4>1. \A k \in 1 .. m : rs[k] = recs[k]
        BY <1>9
      <4> QED BY <3>1, <4>1
    <3>3. /\ recs[i].seg = recs[j].seg =>
               /\ End(recs[i]) <= recs[j].pos
               /\ \A k \in i .. j : recs[k].seg = recs[i].seg
          /\ recs[i].seg = act => recs[j].seg = act
      BY <3>1, <1>6 DEF Ordered
    <3>4. \A k \in i .. j : rs[k].seg = recs[k].seg
      BY <3>2
    <3> QED BY <3>2, <3>3, <3>4
  <2> QED BY <2>1, <1>9 DEF Ordered
<1>13. Indexes(rs, gs, act, <<>>)
  BY <1>9, <1>11, <1>12 DEF Indexes
<1> QED
  BY <1>1, <1>3, <1>4, <1>7, <1>8, <1>13 DEF Truncated

LEMMA RollbackTyped ==
  ASSUME NEW fs, NEW sy, Disk(fs, sy), NEW act \in DOMAIN fs,
         NEW buf \in Seq(Byte), Indexes(records, fs, act, buf), cut \in BOOLEAN,
         NEW now \in Seq(Byte), Len(fs[act]) <= Len(now), NEW b2,
         RollbackTo([files |-> fs, synced |-> sy, active |-> act, buffer |-> b2],
                    now, Len(fs[act]) + Len(buf))
  PROVE  WCore' /\ writer' = "ready" /\ cut' \in BOOLEAN
<1>1. PICK target : target = Min2(Len(fs[act]) + Len(buf), Len(now))
  OBVIOUS
<1>2. fs[act] \in Seq(Byte) /\ sy[act] \in Nat /\ sy[act] <= Len(fs[act])
  BY DEF Disk, Directory
<1>3. target \in Nat /\ target <= Len(now) /\ sy[act] <= target
  BY <1>1, <1>2 DEF Min2
<1>4. /\ files' = Truncated(fs, act, now, target)
      /\ records' = CutTo(records, act, target)
      /\ synced' = sy /\ active' = act /\ buffer' = <<>> /\ writer' = "ready"
      /\ cut' \in BOOLEAN
  BY <1>1 DEF RollbackTo, Truncated, CutTo
<1>5. PICK recs : recs = records
  OBVIOUS
<1>6. Indexes(recs, fs, act, buf)
  BY <1>5
<1>7. /\ Disk(Truncated(fs, act, now, target), sy)
      /\ Indexes(CutTo(recs, act, target), Truncated(fs, act, now, target), act, <<>>)
  BY <1>3, <1>6, RolledBack
<1>8. active' \in DOMAIN files'
  BY <1>4 DEF Truncated
<1>9. <<>> \in Seq(Byte) /\ Len(<<>>) <= BufferSize
  BY WalSegmentsAssumption
<1> QED
  BY <1>4, <1>5, <1>7, <1>8, <1>9 DEF WCore

LEMMA AppendFailedTyped == WCore /\ WRest /\ (\E n \in Sizes : AppendFailed(n)) => WCore' /\ WRest'
<1> SUFFICES ASSUME WCore, WRest, NEW n \in Sizes, AppendFailed(n) PROVE WCore' /\ WRest'
  OBVIOUS
<1>0. PICK fs, sy, act, buf : /\ fs = Slot(n).files /\ sy = Slot(n).synced
                             /\ act = Slot(n).active /\ buf = Slot(n).buffer
  OBVIOUS
<1>1. Slot(n) = [files |-> fs, synced |-> sy, active |-> act, buffer |-> buf]
  BY <1>0 DEF Slot, Rotated
<1>2. /\ Disk(fs, sy) /\ act \in DOMAIN fs
      /\ buf \in Seq(Byte) /\ Len(buf) <= BufferSize
      /\ Indexes(records, fs, act, buf)
  BY <1>0, SlotShape DEF AppendFailed, Admitted, WRest
<1>3. fs[act] \in Seq(Byte)
  BY <1>2 DEF Disk, Directory
<1>4. attempts + 1 \in 1 .. MaxAttempts
  BY WalSegmentsAssumption DEF AppendFailed, Admitted, WRest
<1>5. PICK all : all = buf \o Bytes(attempts + 1, n)
  OBVIOUS
<1>6. all \in Seq(Byte) /\ Len(all) = Len(buf) + n
  <2>1. PICK new : new = Bytes(attempts + 1, n)
    OBVIOUS
  <2>2. new \in Seq(Byte) /\ Len(new) = n
    BY <1>4, <2>1, BytesTyped
  <2> QED BY <1>2, <1>5, <2>1, <2>2
<1>7. PICK k : k = HandedOver(Len(buf), n)
  OBVIOUS
<1>8. k \in 0 .. Len(all)
  <2>1. Len(buf) \in Nat /\ n \in Nat \ {0}
    BY <1>2, WalSegmentsAssumption
  <2> QED BY <2>1, <1>2, <1>6, <1>7, HandedOverFits
<1>9. WCore' /\ writer' = "ready" /\ cut' \in BOOLEAN
  <2>1. CASE /\ writer = "failed" /\ ~ NeedsRotation(n)
             /\ RollbackTo(Slot(n), files[active], Len(fs[act]) + Len(buf))
    <3>1. fs = files /\ act = active
      BY <2>1, <1>0 DEF Slot
    <3>2. files[active] \in Seq(Byte) /\ Len(fs[act]) <= Len(files[active])
      BY <3>1, <1>3
    <3> QED BY <1>1, <1>2, <2>1, <3>2, RollbackTyped DEF WRest
  <2>2. CASE \E j \in 0 .. k : RollbackTo(Slot(n), fs[act] \o SubSeq(all, 1, j), Len(fs[act]) + Len(buf))
    <3>1. PICK j \in 0 .. k : RollbackTo(Slot(n), fs[act] \o SubSeq(all, 1, j), Len(fs[act]) + Len(buf))
      BY <2>2
    <3>2. PICK more : more = SubSeq(all, 1, j)
      OBVIOUS
    <3>3. j \in 0 .. Len(all)
      BY <1>8, <1>6
    <3>4. more \in Seq(Byte)
      BY <3>2, <3>3, <1>6, Prefix
    <3>5. PICK now : now = fs[act] \o more
      OBVIOUS
    <3>6. now \in Seq(Byte) /\ Len(fs[act]) <= Len(now)
      BY <3>4, <3>5, <1>3
    <3>7. RollbackTo(Slot(n), now, Len(fs[act]) + Len(buf))
      BY <3>1, <3>2, <3>5
    <3> QED BY <1>1, <1>2, <3>6, <3>7, RollbackTyped DEF WRest
  <2> QED BY <2>1, <2>2, <1>0, <1>5, <1>7 DEF AppendFailed
<1>10. WRest'
  <2>0. UNCHANGED faults \/ IOError
    BY DEF AppendFailed
  <2>1. faults' \in Nat
    BY <2>0 DEF IOError, WRest
  <2>2. UNCHANGED <<meta, mode, baseOffset, checkpoint, hand, attempts, seen, restarts>>
    BY DEF AppendFailed
  <2> QED BY <1>9, <2>1, <2>2 DEF WRest
<1> QED
  BY <1>9, <1>10

Flushed(fs, act, buf) == [fs EXCEPT ![act] = @ \o buf]

LEMMA FlushedTyped ==
  ASSUME NEW fs, NEW sy, Disk(fs, sy), NEW act \in DOMAIN fs, NEW buf \in Seq(Byte),
         NEW recs, Indexes(recs, fs, act, buf)
  PROVE  /\ Disk(Flushed(fs, act, buf), sy) /\ act \in DOMAIN Flushed(fs, act, buf)
         /\ Disk(Flushed(fs, act, buf), [sy EXCEPT ![act] = Len(fs[act]) + Len(buf)])
         /\ Indexes(recs, Flushed(fs, act, buf), act, <<>>)
<1>1. PICK gs : gs = [fs EXCEPT ![act] = @ \o buf]
  OBVIOUS
<1>2. \A b \in DOMAIN fs : fs[b] \in Seq(Byte) /\ Len(fs[b]) \in Nat
  BY DEF Disk, Directory
<1>3. /\ DOMAIN gs = DOMAIN fs /\ gs[act] = fs[act] \o buf
      /\ \A b \in DOMAIN fs : b # act => gs[b] = fs[b]
  BY <1>1
<1>4. Len(gs[act]) = Len(fs[act]) + Len(buf) /\ Len(gs[act]) \in Nat
  <2>1. fs[act] \in Seq(Byte)
    BY <1>2
  <2> QED BY <2>1, <1>3
<1>5. Disk(gs, sy)
  BY <1>1, DiskWritten
<1>6. PICK n : n = Len(fs[act]) + Len(buf)
  OBVIOUS
<1>7. n \in Nat /\ n <= Len(gs[act])
  BY <1>4, <1>6
<1>8. Disk(gs, [sy EXCEPT ![act] = n])
  BY <1>3, <1>5, <1>7, DiskSynced
<1>9. Indexes(recs, gs, act, <<>>)
  <2>1. \A b \in DOMAIN fs :
           /\ Len(fs[b]) + (IF b = act THEN Len(buf) ELSE 0) \in Nat
           /\ Len(gs[b]) + (IF b = act THEN Len(<<>>) ELSE 0) \in Nat
           /\ Len(fs[b]) + (IF b = act THEN Len(buf) ELSE 0)
                <= Len(gs[b]) + (IF b = act THEN Len(<<>>) ELSE 0)
    BY <1>2, <1>3, <1>4
  <2> QED BY <1>3, <2>1, IndexesGrown
<1>10. gs = Flushed(fs, act, buf)
  BY <1>1 DEF Flushed
<1> QED
  BY <1>3, <1>5, <1>6, <1>8, <1>9, <1>10

LEMMA PartFlushedTyped ==
  ASSUME NEW fs, NEW sy, Disk(fs, sy), NEW act \in DOMAIN fs, NEW buf \in Seq(Byte),
         NEW recs, Indexes(recs, fs, act, buf), NEW k \in 0 .. Len(buf)
  PROVE  /\ Disk(Handed(fs, act, buf, k), sy) /\ act \in DOMAIN Handed(fs, act, buf, k)
         /\ Left(buf, k) \in Seq(Byte) /\ Len(Left(buf, k)) <= Len(buf)
         /\ Indexes(recs, Handed(fs, act, buf, k), act, Left(buf, k))
<1>1. PICK a : a = SubSeq(buf, 1, k)
  OBVIOUS
<1>2. PICK c : c = SubSeq(buf, k + 1, Len(buf))
  OBVIOUS
<1>3. \A b \in DOMAIN fs : fs[b] \in Seq(Byte) /\ Len(fs[b]) \in Nat
  BY DEF Disk, Directory
<1>4. /\ a \in Seq(Byte) /\ Len(a) = k /\ c \in Seq(Byte) /\ Len(c) = Len(buf) - k
  BY <1>1, <1>2, <1>3, SplitBytes
<1>5. PICK gs : gs = [fs EXCEPT ![act] = @ \o a]
  OBVIOUS
<1>6. /\ DOMAIN gs = DOMAIN fs /\ gs[act] = fs[act] \o a
      /\ \A b \in DOMAIN fs : b # act => gs[b] = fs[b]
  BY <1>5
<1>7. Len(gs[act]) = Len(fs[act]) + k
  <2>1. fs[act] \in Seq(Byte) /\ a \in Seq(Byte) /\ Len(a) = k
    BY <1>3, <1>4
  <2>2. Len(fs[act] \o a) = Len(fs[act]) + k
    BY <2>1, ConcatProperties
  <2> QED BY <2>2, <1>6
<1>8. Disk(gs, sy)
  BY <1>4, <1>5, DiskWritten
<1>9. Len(c) \in Nat /\ Len(buf) \in Nat /\ Len(c) = Len(buf) - k
  BY <1>4
<1>10. Indexes(recs, gs, act, c)
  <2>1. \A b \in DOMAIN fs :
           /\ Len(fs[b]) + (IF b = act THEN Len(buf) ELSE 0) \in Nat
           /\ Len(gs[b]) + (IF b = act THEN Len(c) ELSE 0) \in Nat
           /\ Len(fs[b]) + (IF b = act THEN Len(buf) ELSE 0)
                <= Len(gs[b]) + (IF b = act THEN Len(c) ELSE 0)
    BY <1>3, <1>6, <1>7, <1>9
  <2> QED BY <1>6, <2>1, IndexesGrown
<1>11. gs = Handed(fs, act, buf, k) /\ c = Left(buf, k)
  BY <1>1, <1>2, <1>5 DEF Handed, Left
<1> QED
  BY <1>4, <1>6, <1>8, <1>9, <1>10, <1>11

LEMMA FlushBufferTyped ==
  ASSUME WCore, FlushBuffer
  PROVE  /\ files' = Flushed(files, active, buffer) /\ buffer' = <<>> /\ writer' = writer
         /\ Disk(files', synced) /\ active \in DOMAIN files'
         /\ Disk(files', [synced EXCEPT ![active] = WritePos])
         /\ buffer' \in Seq(Byte) /\ Len(buffer') <= BufferSize
         /\ Indexes(records, files', active, buffer')
<1>1. files' = Flushed(files, active, buffer) /\ buffer' = <<>> /\ writer' = writer
  BY DEF FlushBuffer, Flushed
<1>2. PICK fs, act, buf, recs, sy : /\ fs = files /\ act = active /\ buf = buffer
                                    /\ recs = records /\ sy = synced
  OBVIOUS
<1>3. Disk(fs, sy) /\ act \in DOMAIN fs /\ buf \in Seq(Byte) /\ Indexes(recs, fs, act, buf)
  BY <1>2 DEF WCore
<1>4. /\ Disk(Flushed(fs, act, buf), sy) /\ act \in DOMAIN Flushed(fs, act, buf)
      /\ Disk(Flushed(fs, act, buf), [sy EXCEPT ![act] = Len(fs[act]) + Len(buf)])
      /\ Indexes(recs, Flushed(fs, act, buf), act, <<>>)
  BY <1>3, FlushedTyped
<1>5. <<>> \in Seq(Byte) /\ Len(<<>>) <= BufferSize
  BY WalSegmentsAssumption
<1> QED
  BY <1>1, <1>2, <1>4, <1>5 DEF WritePos

LEMMA FlushBrokenTyped ==
  ASSUME WCore, faults \in Nat, FlushBroken
  PROVE  /\ Disk(files', synced) /\ active \in DOMAIN files'
         /\ buffer' \in Seq(Byte) /\ Len(buffer') <= BufferSize
         /\ Indexes(records, files', active, buffer')
         /\ writer' = "failed" /\ faults' \in Nat
<1>1. PICK j \in 0 .. Len(buffer) : files' = Handed(files, active, buffer, j) /\ buffer' = Left(buffer, j)
  BY DEF FlushBroken, Handed, Left
<1>2. PICK fs, act, buf, recs, sy : /\ fs = files /\ act = active /\ buf = buffer
                                    /\ recs = records /\ sy = synced
  OBVIOUS
<1>3. /\ Disk(fs, sy) /\ act \in DOMAIN fs /\ buf \in Seq(Byte) /\ Indexes(recs, fs, act, buf)
      /\ Len(buf) <= BufferSize
  BY <1>2 DEF WCore
<1>4. /\ Disk(Handed(fs, act, buf, j), sy) /\ act \in DOMAIN Handed(fs, act, buf, j)
      /\ Left(buf, j) \in Seq(Byte) /\ Len(Left(buf, j)) <= Len(buf)
      /\ Indexes(recs, Handed(fs, act, buf, j), act, Left(buf, j))
  BY <1>2, <1>3, PartFlushedTyped
<1>5. Len(Left(buf, j)) <= BufferSize
  <2>1. Len(Left(buf, j)) \in Nat /\ Len(buf) \in Nat /\ BufferSize \in Nat
    BY <1>3, <1>4, WalSegmentsAssumption
  <2> QED BY <2>1, <1>3, <1>4
<1>6. writer' = "failed" /\ faults' \in Nat
  BY DEF FlushBroken, IOError
<1> QED
  BY <1>1, <1>2, <1>4, <1>5, <1>6

LEMMA RotationFailedTyped ==
  WCore /\ WRest /\ (\E n \in Sizes : RotationFailed(n)) => WCore' /\ WRest'
<1> SUFFICES ASSUME WCore, WRest, NEW n \in Sizes, RotationFailed(n) PROVE WCore' /\ WRest'
  OBVIOUS
<1>1. /\ UNCHANGED <<meta, baseOffset, records, checkpoint, hand, attempts, seen, cut, restarts, active>>
  BY DEF RotationFailed
<1>2. faults \in Nat /\ mode \in {"open", "closed", "down"} /\ writer \in {"ready", "failed"}
  BY DEF WRest
<1>3. WCore' /\ faults' \in Nat /\ mode' \in {"open", "closed", "down"} /\ writer' \in {"ready", "failed"}
  <2>1. CASE UNCHANGED <<files, buffer, writer, synced, mode, active, faults>>
    BY <2>1, <1>1, <1>2 DEF WCore
  <2>2. CASE FlushBroken /\ UNCHANGED <<synced, mode, active>>
    BY <2>2, <1>1, <1>2, FlushBrokenTyped DEF WCore
  <2>3. CASE FlushBuffer /\ IOError /\ UNCHANGED <<synced, mode, active>>
    <3>1. faults' \in Nat
      BY <2>3, <1>2 DEF IOError
    <3> QED BY <2>3, <3>1, <1>1, <1>2, FlushBufferTyped DEF WCore
  <2>4. CASE FlushBuffer /\ IOError /\ synced' = [synced EXCEPT ![active] = WritePos]
             /\ mode' = "closed" /\ UNCHANGED active
    <3>1. faults' \in Nat
      BY <2>4, <1>2 DEF IOError
    <3> QED BY <2>4, <3>1, <1>1, <1>2, FlushBufferTyped DEF WCore
  <2> QED BY <2>1, <2>2, <2>3, <2>4 DEF RotationFailed
<1> QED
  BY <1>1, <1>3 DEF WRest

LEMMA FlushTyped == WCore /\ WRest /\ Flush => WCore' /\ WRest'
<1> SUFFICES ASSUME WCore, WRest, Flush PROVE WCore' /\ WRest'
  OBVIOUS
<1>1. UNCHANGED <<meta, mode, active, baseOffset, records, checkpoint, hand, attempts, seen, cut,
                  restarts>>
  BY DEF Flush
<1>2. faults \in Nat /\ mode \in {"open", "closed", "down"} /\ writer \in {"ready", "failed"}
  BY DEF WRest
<1>3. WCore' /\ faults' \in Nat /\ writer' \in {"ready", "failed"}
  <2>1. CASE FlushBuffer /\ synced' = [synced EXCEPT ![active] = WritePos] /\ UNCHANGED faults
    BY <2>1, <1>1, <1>2, FlushBufferTyped DEF WCore
  <2>2. CASE FlushBuffer /\ UNCHANGED synced /\ IOError
    <3>1. faults' \in Nat
      BY <2>2, <1>2 DEF IOError
    <3> QED BY <2>2, <3>1, <1>1, <1>2, FlushBufferTyped DEF WCore
  <2>3. CASE FlushBroken /\ UNCHANGED synced
    BY <2>3, <1>1, <1>2, FlushBrokenTyped DEF WCore
  <2> QED BY <2>1, <2>2, <2>3 DEF Flush
<1> QED
  BY <1>1, <1>3 DEF WRest

LEMMA ImageTyped ==
  ASSUME NEW fs, Directory(fs), NEW e \in Entry, e.seg \in DOMAIN fs, End(e) <= Len(fs[e.seg])
  PROVE  /\ Image(e, fs) \in Seq(Byte) /\ Len(Image(e, fs)) = e.len
         /\ \A k \in 1 .. e.len : Image(e, fs)[k] = fs[e.seg][e.pos + k]
         /\ e.pos + 1 \in 1 .. Len(fs[e.seg]) /\ fs[e.seg][e.pos + 1].tkt \in 1 .. MaxAttempts
<1>1. PICK q : q = fs[e.seg]
  OBVIOUS
<1>2. q \in Seq(Byte)
  BY <1>1 DEF Directory
<1>3. PICK p, l : p = e.pos /\ l = e.len
  OBVIOUS
<1>4. p \in Nat /\ l \in Nat \ {0} /\ p + l <= Len(q) /\ Len(q) \in Nat /\ End(e) = p + l
  BY <1>1, <1>2, <1>3, EntryEnd
<1>5. /\ SubSeq(q, p + 1, p + l) \in Seq(Byte) /\ Len(SubSeq(q, p + 1, p + l)) = l
      /\ \A k \in 1 .. l : SubSeq(q, p + 1, p + l)[k] = q[p + k]
  BY <1>2, <1>4
<1>6. Image(e, fs) = SubSeq(q, p + 1, p + l)
  BY <1>1, <1>3, <1>4 DEF Image
<1>7. p + 1 \in 1 .. Len(q)
  BY <1>4
<1>8. q[p + 1] \in Byte
  BY <1>2, <1>7
<1>9. q[p + 1].tkt \in 1 .. MaxAttempts
  BY <1>8 DEF Byte
<1> QED
  BY <1>1, <1>3, <1>5, <1>6, <1>7, <1>9

LEMMA ReadBatchTyped == WCore /\ WRest /\ ReadBatch => WCore' /\ WRest'
<1> SUFFICES ASSUME WCore, WRest, ReadBatch PROVE WCore' /\ WRest'
  OBVIOUS
<1>1. /\ FlushBuffer
      /\ UNCHANGED <<synced, meta, mode, active, baseOffset, records, checkpoint, attempts,
                     seen, cut, restarts, faults>>
  BY DEF ReadBatch, bounds
<1>2. WCore'
  BY <1>1, FlushBufferTyped DEF WCore
<1>3. PICK from : from = Start(baseOffset, checkpoint) + 1
  OBVIOUS
<1>4. PICK to : to = Min2(from + BatchSize - 1, Len(records))
  OBVIOUS
<1>5. PICK S : S = {from} \union {i \in from .. to : \A j \in from .. i : IsFrame(Image(records[j], files'))}
  OBVIOUS
<1>6. PICK upto : upto = Max(S)
  OBVIOUS
<1>7. PICK G : G = {i \in from .. upto : IsFrame(Image(records[i], files'))}
  OBVIOUS
<1>8. /\ from <= Len(records)
      /\ hand' = [phase  |-> IF IsFrame(Image(records[from], files')) THEN "deliver" ELSE "commit",
                  upto   |-> records[upto].off + 1,
                  frames |-> {Image(records[i], files')[1].tkt : i \in G}]
  BY <1>3, <1>4, <1>5, <1>6, <1>7 DEF ReadBatch
<1>9. records \in Seq(Entry) /\ Len(records) \in Nat
  BY DEF WCore, Indexes
<1>10. from \in Nat \ {0} /\ to \in Int /\ to <= Len(records)
  <2>1. baseOffset \in Nat /\ checkpoint \in Nat /\ BatchSize \in Nat \ {0}
    BY WalSegmentsAssumption DEF WRest
  <2>2. from \in Nat \ {0}
    BY <2>1, <1>3 DEF Start
  <2> QED BY <2>1, <2>2, <1>4, <1>9 DEF Min2
<1>11. upto \in from .. Len(records)
  <2>1. S \in SUBSET Nat /\ S # {} /\ \A x \in S : x <= Len(records) /\ from <= x
    BY <1>5, <1>8, <1>10
  <2>2. upto \in S
    BY <2>1, <1>6, <1>9, MaxBounded
  <2>3. upto \in Nat /\ upto <= Len(records) /\ from <= upto
    BY <2>1, <2>2
  <2> QED BY <2>3, <1>9, <1>10
<1>12. records[upto].off + 1 \in Nat
  <2>1. records[upto] \in Entry
    BY <1>9, <1>10, <1>11
  <2> QED BY <2>1, EntryEnd
<1>13. ASSUME NEW i \in G PROVE Image(records[i], files')[1].tkt \in 1 .. MaxAttempts
  <2>1. i \in 1 .. Len(records)
    BY <1>7, <1>9, <1>10, <1>11
  <2>2. records[i] \in Entry
    BY <2>1, <1>9
  <2>3. PICK fs, e : fs = files' /\ e = records[i]
    OBVIOUS
  <2>4. Disk(fs, synced) /\ Indexes(records, fs, active, <<>>)
    BY <1>1, <2>3, FlushBufferTyped
  <2>5. e.seg \in DOMAIN fs /\ End(e) <= Len(fs[e.seg]) + (IF e.seg = active THEN Len(<<>>) ELSE 0)
    BY <2>1, <2>3, <2>4 DEF Indexes
  <2>6. Directory(fs)
    BY <2>4 DEF Disk
  <2>7. fs[e.seg] \in Seq(Byte)
    BY <2>5, <2>6 DEF Directory
  <2>8. End(e) <= Len(fs[e.seg])
    BY <2>5, <2>7
  <2>9. /\ \A k \in 1 .. e.len : Image(e, fs)[k] = fs[e.seg][e.pos + k]
        /\ fs[e.seg][e.pos + 1].tkt \in 1 .. MaxAttempts
        /\ e.len \in Nat \ {0}
    <3>1. e \in Entry /\ e.seg \in DOMAIN fs
      BY <2>2, <2>3, <2>5
    <3> QED BY <3>1, <2>6, <2>8, ImageTyped, EntryEnd
  <2>10. Image(e, fs)[1] = fs[e.seg][e.pos + 1]
    BY <2>9
  <2> QED BY <2>3, <2>9, <2>10
<1>14. hand' \in [phase : {"idle", "deliver", "commit"}, upto : Nat, frames : SUBSET (1 .. MaxAttempts)]
  BY <1>8, <1>12, <1>13
<1>15. writer' = writer
  BY <1>1 DEF FlushBuffer
<1> QED
  BY <1>1, <1>2, <1>14, <1>15 DEF WRest

LEMMA SinkSettlesTyped == WCore /\ WRest /\ SinkSettles => WCore' /\ WRest'
<1> SUFFICES ASSUME WCore, WRest, SinkSettles PROVE WCore' /\ WRest'
  OBVIOUS
<1>1. /\ UNCHANGED <<files, synced, meta, mode, buffer, writer, active, baseOffset, records,
                     checkpoint, attempts, cut, restarts, faults>>
      /\ seen' = seen \union hand.frames /\ hand' = [hand EXCEPT !.phase = "commit"]
  BY DEF SinkSettles, disk, memory, bounds
<1>2. WCore'
  BY <1>1 DEF WCore
<1>3. hand' \in [phase : {"idle", "deliver", "commit"}, upto : Nat, frames : SUBSET (1 .. MaxAttempts)]
      /\ seen' \in SUBSET (1 .. MaxAttempts)
  BY <1>1 DEF WRest
<1> QED
  BY <1>1, <1>2, <1>3 DEF WRest

LEMMA IdleTyped ==
  Idle \in [phase : {"idle", "deliver", "commit"}, upto : Nat, frames : SUBSET (1 .. MaxAttempts)]
BY DEF Idle

LEMMA SinkFailsTyped == WCore /\ WRest /\ SinkFails => WCore' /\ WRest'
<1> SUFFICES ASSUME WCore, WRest, SinkFails PROVE WCore' /\ WRest'
  OBVIOUS
<1>1. /\ UNCHANGED <<files, synced, meta, mode, buffer, writer, active, baseOffset, records,
                     checkpoint, attempts, seen, cut, restarts, faults>>
      /\ hand' = Idle
  BY DEF SinkFails, disk, memory, bounds
<1>2. WCore'
  BY <1>1 DEF WCore
<1> QED
  BY <1>1, <1>2, IdleTyped DEF WRest

LEMMA LoggedTyped ==
  ASSUME WCore
  PROVE  /\ Disk(Logged.files, Logged.synced)
         /\ DOMAIN Logged.files = DOMAIN files
         /\ Logged.buffer \in Seq(Byte) /\ Len(Logged.buffer) <= BufferSize
         /\ Indexes(records, Logged.files, active, Logged.buffer)
<1>1. CASE SyncPolicy = "SyncBatchCommit"
  <2>1. PICK fs, act, buf, recs, sy : /\ fs = files /\ act = active /\ buf = buffer
                                      /\ recs = records /\ sy = synced
    OBVIOUS
  <2>2. Disk(fs, sy) /\ act \in DOMAIN fs /\ buf \in Seq(Byte) /\ Indexes(recs, fs, act, buf)
    BY <2>1 DEF WCore
  <2>3. /\ Disk(Flushed(fs, act, buf), sy) /\ act \in DOMAIN Flushed(fs, act, buf)
        /\ Disk(Flushed(fs, act, buf), [sy EXCEPT ![act] = Len(fs[act]) + Len(buf)])
        /\ Indexes(recs, Flushed(fs, act, buf), act, <<>>)
    BY <2>2, FlushedTyped
  <2>4. /\ Logged.files = Flushed(fs, act, buf) /\ Logged.buffer = <<>>
        /\ Logged.synced = [sy EXCEPT ![act] = Len(fs[act]) + Len(buf)]
    BY <1>1, <2>1 DEF Logged, Flushed, WritePos
  <2>5. <<>> \in Seq(Byte) /\ Len(<<>>) <= BufferSize
    BY WalSegmentsAssumption
  <2>6. DOMAIN Flushed(fs, act, buf) = DOMAIN fs
    BY DEF Flushed
  <2> QED BY <2>1, <2>3, <2>4, <2>5, <2>6
<1>2. CASE SyncPolicy # "SyncBatchCommit"
  BY <1>2 DEF Logged, WCore
<1> QED
  BY <1>1, <1>2

LEMMA CommitNothingTyped == WCore /\ WRest /\ CommitNothing => WCore' /\ WRest'
<1> SUFFICES ASSUME WCore, WRest, CommitNothing PROVE WCore' /\ WRest'
  OBVIOUS
<1>1. /\ UNCHANGED <<meta, mode, active, baseOffset, records, checkpoint, attempts, seen,
                     cut, restarts>>
      /\ hand' = Idle
  BY DEF CommitNothing
<1>2. faults \in Nat /\ writer \in {"ready", "failed"}
  BY DEF WRest
<1>3. WCore' /\ faults' \in Nat /\ writer' \in {"ready", "failed"}
  <2>1. CASE UNCHANGED <<files, synced, buffer, writer, faults>>
    BY <2>1, <1>1, <1>2 DEF WCore
  <2>2. CASE /\ IOError /\ UNCHANGED writer
             /\ files' = Logged.files /\ synced' = Logged.synced /\ buffer' = Logged.buffer
    <3>1. faults' \in Nat
      BY <2>2, <1>2 DEF IOError
    <3>2. active \in DOMAIN files
      BY DEF WCore
    <3> QED BY <2>2, <3>1, <3>2, <1>1, <1>2, LoggedTyped DEF WCore
  <2>3. CASE FlushBroken /\ UNCHANGED synced
    BY <2>3, <1>1, <1>2, FlushBrokenTyped DEF WCore
  <2>4. CASE FlushBuffer /\ IOError /\ UNCHANGED synced
    <3>1. faults' \in Nat
      BY <2>4, <1>2 DEF IOError
    <3> QED BY <2>4, <3>1, <1>1, <1>2, FlushBufferTyped DEF WCore
  <2> QED BY <2>1, <2>2, <2>3, <2>4 DEF CommitNothing
<1> QED
  BY <1>1, <1>3, IdleTyped DEF WRest

LEMMA PrunedTyped ==
  ASSUME NEW fs, NEW sy, Disk(fs, sy), NEW act \in DOMAIN fs, NEW buf,
         NEW recs, Indexes(recs, fs, act, buf), NEW chk \in Nat,
         NEW gone, gone \subseteq Dropped(recs, chk, act)
  PROVE  /\ Disk(Without(fs, gone), Without(sy, gone)) /\ act \in DOMAIN Without(fs, gone)
         /\ Indexes(Kept(recs, chk, act), Without(fs, gone), act, buf)
<1>0. act \in Nat /\ recs \in Seq(Entry) /\ Ordered(recs, act) /\ Len(recs) \in Nat
  BY DEF Disk, Directory, Indexes
<1>1. PICK p : p = Pruned(recs, chk, act)
  OBVIOUS
<1>2. p \in 0 .. Len(recs) /\ \A i \in 1 .. p : Done(recs, chk, act, i)
  BY <1>0, <1>1, PrunedShape
<1>3. Dropped(recs, chk, act) = {recs[i].seg : i \in 1 .. p}
  BY <1>1 DEF Dropped
<1>4. act \notin gone
  BY <1>2, <1>3 DEF Done
<1>5. \A j \in p + 1 .. Len(recs) : recs[j].seg \notin gone
  <2> SUFFICES ASSUME NEW j \in p + 1 .. Len(recs), NEW i \in 1 .. p, recs[i].seg = recs[j].seg
               PROVE  FALSE
    BY <1>3
  <2> QED BY <1>0, <1>1, KeptApart
<1>6. PICK gs : gs = Without(fs, gone)
  OBVIOUS
<1>7. DOMAIN gs = DOMAIN fs \ gone /\ \A b \in DOMAIN gs : gs[b] = fs[b]
  BY <1>6 DEF Without
<1>8. PICK rs : rs = Kept(recs, chk, act)
  OBVIOUS
<1>9. rs \in Seq(Entry) /\ Len(rs) = Len(recs) - p /\ \A i \in 1 .. Len(rs) : rs[i] = recs[p + i]
  <2>1. /\ Kept(recs, chk, act) \in Seq(Entry)
        /\ Len(Kept(recs, chk, act)) = Len(recs) - Pruned(recs, chk, act)
        /\ \A i \in 1 .. Len(recs) - Pruned(recs, chk, act) :
              Kept(recs, chk, act)[i] = recs[Pruned(recs, chk, act) + i]
    BY <1>0, KeptShape
  <2> QED BY <2>1, <1>1, <1>8
<1>10. ASSUME NEW i \in 1 .. Len(rs)
       PROVE  rs[i].seg \in DOMAIN gs
              /\ End(rs[i]) <= Len(gs[rs[i].seg]) + (IF rs[i].seg = act THEN Len(buf) ELSE 0)
  <2>1. p + i \in p + 1 .. Len(recs) /\ p + i \in 1 .. Len(recs) /\ rs[i] = recs[p + i]
    BY <1>0, <1>2, <1>9
  <2>2. recs[p + i].seg \in DOMAIN gs
    BY <2>1, <1>5, <1>7 DEF Indexes
  <2> QED BY <2>1, <2>2, <1>7 DEF Indexes
<1>11. Ordered(rs, act)
  <2> SUFFICES ASSUME NEW j \in 1 .. Len(rs), NEW i \in 1 .. j - 1
               PROVE  /\ rs[i].seg = rs[j].seg =>
                           /\ End(rs[i]) <= rs[j].pos
                           /\ \A k \in i .. j : rs[k].seg = rs[i].seg
                      /\ rs[i].seg = act => rs[j].seg = act
    BY DEF Ordered
  <2>1. p + j \in 1 .. Len(recs) /\ p + i \in 1 .. (p + j) - 1
    BY <1>0, <1>2, <1>9
  <2>2. rs[i] = recs[p + i] /\ rs[j] = recs[p + j]
    BY <1>0, <1>2, <1>9
  <2>3. \A k \in i .. j : rs[k] = recs[p + k] /\ p + k \in p + i .. p + j
    BY <1>0, <1>2, <1>9
  <2>4. /\ recs[p + i].seg = recs[p + j].seg =>
             /\ End(recs[p + i]) <= recs[p + j].pos
             /\ \A k \in p + i .. p + j : recs[k].seg = recs[p + i].seg
        /\ recs[p + i].seg = act => recs[p + j].seg = act
    BY <2>1, <1>0 DEF Ordered
  <2> QED BY <2>2, <2>3, <2>4
<1>12. Indexes(rs, gs, act, buf)
  BY <1>9, <1>10, <1>11 DEF Indexes
<1> QED
  BY <1>4, <1>6, <1>7, <1>8, <1>12, DiskWithout

LEMMA BaseAfterTyped ==
  ASSUME NEW base \in Nat, NEW recs \in Seq(Entry), NEW chk \in Nat, NEW act \in Nat
  PROVE  BaseAfter(base, recs, chk, act) \in Nat
<1>1. PICK rs : rs = Kept(recs, chk, act)
  OBVIOUS
<1>2. rs \in Seq(Entry)
  BY <1>1, KeptShape
<1>3. ASSUME rs # <<>> PROVE rs[1].off \in Nat
  <2>1. rs[1] \in Entry
    BY <1>2, <1>3
  <2> QED BY <2>1, EntryEnd
<1> QED
  BY <1>1, <1>3 DEF BaseAfter

LEMMA CommitTyped == WCore /\ WRest /\ Commit => WCore' /\ WRest'
<1> SUFFICES ASSUME WCore, WRest, Commit PROVE WCore' /\ WRest'
  OBVIOUS
<1>0. PICK chk, act, recs : chk = hand.upto /\ act = active /\ recs = records
  OBVIOUS
<1>1. PICK gone \in SUBSET Dropped(recs, chk, act) :
           /\ faults' = faults \/ IOError
           /\ files' = Without(Logged.files, gone) /\ synced' = Without(Logged.synced, gone)
  BY <1>0 DEF Commit
<1>2. /\ meta' = chk /\ checkpoint' = chk /\ records' = Kept(recs, chk, act)
      /\ baseOffset' = BaseAfter(baseOffset, recs, chk, act)
      /\ buffer' = Logged.buffer /\ hand' = Idle
      /\ UNCHANGED <<mode, writer, active, attempts, seen, cut, restarts>>
  BY <1>0 DEF Commit
<1>3. PICK fs, sy, buf : fs = Logged.files /\ sy = Logged.synced /\ buf = Logged.buffer
  OBVIOUS
<1>4. /\ Disk(fs, sy) /\ act \in DOMAIN fs /\ buf \in Seq(Byte) /\ Len(buf) <= BufferSize
      /\ Indexes(recs, fs, act, buf)
  BY <1>0, <1>3, LoggedTyped DEF WCore
<1>5. chk \in Nat
  BY <1>0 DEF WRest
<1>6. gone \subseteq Dropped(recs, chk, act)
  OBVIOUS
<1>7. /\ Disk(Without(fs, gone), Without(sy, gone)) /\ act \in DOMAIN Without(fs, gone)
      /\ Indexes(Kept(recs, chk, act), Without(fs, gone), act, buf)
  BY <1>4, <1>5, <1>6, PrunedTyped
<1>8. WCore'
  BY <1>0, <1>1, <1>2, <1>3, <1>4, <1>7 DEF WCore
<1>9. baseOffset' \in Nat
  <2>1. recs \in Seq(Entry) /\ act \in Nat
    BY <1>4 DEF Indexes, Disk, Directory
  <2> QED BY <2>1, <1>2, <1>5, BaseAfterTyped DEF WRest
<1>10. faults' \in Nat
  BY <1>1 DEF IOError, WRest
<1> QED
  BY <1>2, <1>5, <1>8, <1>9, <1>10, IdleTyped DEF WRest

LEMMA GoneTyped ==
  ASSUME WRest, Gone, Disk(files', synced'), active \in DOMAIN files',
         mode' \in {"open", "closed", "down"}, meta' \in Nat,
         restarts' \in Nat, faults' \in Nat, attempts' \in 0 .. MaxAttempts
  PROVE  WCore' /\ WRest'
<1>1. Indexes(<<>>, files', active, <<>>)
  BY IndexesEmpty
<1>2. <<>> \in Seq(Byte) /\ Len(<<>>) <= BufferSize
  BY WalSegmentsAssumption
<1>3. WCore'
  BY <1>1, <1>2 DEF WCore, Gone
<1> QED
  BY <1>3, IdleTyped DEF WRest, Gone

LEMMA CloseTyped == WCore /\ WRest /\ Close => WCore' /\ WRest'
<1> SUFFICES ASSUME WCore, WRest, Close PROVE WCore' /\ WRest'
  OBVIOUS
<1>0. PICK fs, act, buf, recs, sy : /\ fs = files /\ act = active /\ buf = buffer
                                    /\ recs = records /\ sy = synced
  OBVIOUS
<1>1. Disk(fs, sy) /\ act \in DOMAIN fs /\ buf \in Seq(Byte) /\ Indexes(recs, fs, act, buf)
  BY <1>0 DEF WCore
<1>2. /\ Disk(Flushed(fs, act, buf), sy) /\ act \in DOMAIN Flushed(fs, act, buf)
      /\ Disk(Flushed(fs, act, buf), [sy EXCEPT ![act] = Len(fs[act]) + Len(buf)])
  BY <1>1, FlushedTyped
<1>3. Disk(files', synced') /\ active \in DOMAIN files' /\ faults' \in Nat
  <2>1. CASE /\ files' = [files EXCEPT ![active] = @ \o buffer]
             /\ synced' = [synced EXCEPT ![active] = WritePos] /\ UNCHANGED faults
    BY <2>1, <1>0, <1>2 DEF WRest, Flushed, WritePos
  <2>2. CASE files' = [files EXCEPT ![active] = @ \o buffer] /\ UNCHANGED synced /\ IOError
    <3>1. faults' \in Nat
      BY <2>2 DEF WRest, IOError
    <3> QED BY <2>2, <3>1, <1>0, <1>2 DEF Flushed
  <2>3. CASE UNCHANGED <<files, synced, faults>>
    BY <2>3 DEF WCore, WRest
  <2> QED BY <2>1, <2>2, <2>3 DEF Close
<1>4. /\ mode' = "closed" /\ Gone /\ meta' = meta /\ attempts' = attempts
      /\ restarts' = restarts + 1
  BY DEF Close
<1>5. restarts' \in Nat
  BY <1>4 DEF WRest
<1> QED
  BY <1>3, <1>4, <1>5, GoneTyped DEF WRest

LEMMA CommitInterruptedTyped == WCore /\ WRest /\ CommitInterrupted => WCore' /\ WRest'
<1> SUFFICES ASSUME WCore, WRest, CommitInterrupted PROVE WCore' /\ WRest'
  OBVIOUS
<1>0. PICK chk, act, recs : chk = hand.upto /\ act = active /\ recs = records
  OBVIOUS
<1>1. PICK gone \in SUBSET Dropped(recs, chk, act) :
           files' = Without(Logged.files, gone) /\ synced' = Without(Logged.synced, gone)
  BY <1>0 DEF CommitInterrupted
<1>2. /\ meta' = chk /\ mode' = "down" /\ Gone /\ restarts' = restarts + 1
      /\ UNCHANGED <<attempts, faults>>
  BY <1>0 DEF CommitInterrupted
<1>3. PICK fs, sy, buf : fs = Logged.files /\ sy = Logged.synced /\ buf = Logged.buffer
  OBVIOUS
<1>4. /\ Disk(fs, sy) /\ act \in DOMAIN fs
      /\ Indexes(recs, fs, act, buf)
  BY <1>0, <1>3, LoggedTyped DEF WCore
<1>5. chk \in Nat
  BY <1>0 DEF WRest
<1>6. gone \subseteq Dropped(recs, chk, act)
  OBVIOUS
<1>7. /\ Disk(Without(fs, gone), Without(sy, gone)) /\ act \in DOMAIN Without(fs, gone)
  BY <1>4, <1>5, <1>6, PrunedTyped
<1>8. Disk(files', synced') /\ active \in DOMAIN files'
  BY <1>0, <1>1, <1>3, <1>7
<1>9. restarts' \in Nat
  BY <1>2 DEF WRest
<1> QED
  BY <1>2, <1>5, <1>8, <1>9, GoneTyped DEF WRest

LEMMA PowerLossTyped == WCore /\ WRest /\ PowerLoss => WCore' /\ WRest'
<1> SUFFICES ASSUME WCore, WRest, PowerLoss PROVE WCore' /\ WRest'
  OBVIOUS
<1>0. PICK fs, act, sy : fs = files /\ act = active /\ sy = synced
  OBVIOUS
<1>1. Disk(fs, sy) /\ act \in DOMAIN fs /\ fs[act] \in Seq(Byte) /\ sy[act] \in Nat
  BY <1>0 DEF WCore, Disk, Directory
<1>2. PICK n \in sy[act] .. Len(fs[act]) :
           /\ files' = Truncated(fs, act, fs[act], n) /\ synced' = [sy EXCEPT ![act] = n]
  BY <1>0 DEF PowerLoss, Truncated
<1>3. n \in 0 .. Len(fs[act]) /\ sy[act] <= n
  BY <1>1
<1>4. PICK x : x = SubSeq(fs[act], 1, n)
  OBVIOUS
<1>5. x \in Seq(Byte) /\ Len(x) = n
  BY <1>1, <1>3, <1>4, Prefix
<1>6. PICK gs : gs = [fs EXCEPT ![act] = x]
  OBVIOUS
<1>7. Disk(gs, sy)
  BY <1>1, <1>3, <1>5, <1>6, DiskReplaced
<1>8. act \in DOMAIN gs /\ gs[act] = x
  BY <1>1, <1>6
<1>9. Disk(gs, [sy EXCEPT ![act] = n])
  BY <1>3, <1>5, <1>7, <1>8, DiskSynced
<1>10. files' = gs
  BY <1>2, <1>4, <1>6 DEF Truncated
<1>11. /\ mode' = "down" /\ Gone /\ restarts' = restarts + 1 /\ UNCHANGED <<meta, attempts, faults>>
  BY DEF PowerLoss
<1>12. restarts' \in Nat
  BY <1>11 DEF WRest
<1>13. Disk(files', synced') /\ active \in DOMAIN files'
  BY <1>0, <1>2, <1>8, <1>9, <1>10
<1> QED
  BY <1>11, <1>12, <1>13, GoneTyped DEF WRest

LEMMA ProcessCrashTyped == WCore /\ WRest /\ ProcessCrash => WCore' /\ WRest'
<1> SUFFICES ASSUME WCore, WRest, ProcessCrash PROVE WCore' /\ WRest'
  OBVIOUS
<1>1. /\ mode = "open" /\ mode' = "down" /\ Gone /\ restarts' = restarts + 1
      /\ UNCHANGED <<meta, faults>>
  BY DEF ProcessCrash
<1>2. restarts' \in Nat
  BY <1>1 DEF WRest
<1>3. Disk(files', synced') /\ active \in DOMAIN files' /\ attempts' \in 0 .. MaxAttempts
  <2>1. CASE /\ \E inflight \in InFlight : \E j \in 0 .. Len(inflight) :
                  /\ files' = [files EXCEPT ![active] = @ \o SubSeq(inflight, 1, j)]
                  /\ attempts' = IF Len(inflight) > Len(buffer) THEN attempts + 1 ELSE attempts
             /\ UNCHANGED synced
    <3>1. PICK inflight \in InFlight : \E j \in 0 .. Len(inflight) :
                  /\ files' = [files EXCEPT ![active] = @ \o SubSeq(inflight, 1, j)]
                  /\ attempts' = IF Len(inflight) > Len(buffer) THEN attempts + 1 ELSE attempts
      BY <2>1
    <3>2. PICK j \in 0 .. Len(inflight) :
                  /\ files' = [files EXCEPT ![active] = @ \o SubSeq(inflight, 1, j)]
                  /\ attempts' = IF Len(inflight) > Len(buffer) THEN attempts + 1 ELSE attempts
      BY <3>1
    <3>3. /\ inflight \in Seq(Byte)
          /\ Len(inflight) > Len(buffer) => attempts + 1 \in 0 .. MaxAttempts
      <4>1. buffer \in Seq(Byte) /\ Len(buffer) \in Nat /\ <<>> \in Seq(Byte)
        BY DEF WCore
      <4>2. CASE inflight = <<>>
        BY <4>1, <4>2
      <4>3. CASE inflight = buffer
        BY <4>1, <4>3
      <4>4. CASE \E n \in {m \in Sizes : Admitted(m) /\ ~ NeedsRotation(m)} :
                     inflight = buffer \o Bytes(attempts + 1, n)
        <5>1. PICK n \in Sizes : Admitted(n) /\ inflight = buffer \o Bytes(attempts + 1, n)
          BY <4>4
        <5>2. attempts + 1 \in 1 .. MaxAttempts
          <6>1. attempts < MaxAttempts
            BY <5>1 DEF Admitted
          <6>2. attempts \in 0 .. MaxAttempts /\ MaxAttempts \in Nat
            BY WalSegmentsAssumption DEF WRest
          <6> QED BY <6>1, <6>2
        <5>3. PICK new : new = Bytes(attempts + 1, n)
          OBVIOUS
        <5>4. new \in Seq(Byte)
          BY <5>2, <5>3, BytesTyped
        <5> QED BY <4>1, <5>1, <5>2, <5>3, <5>4
      <4> QED BY <4>2, <4>3, <4>4 DEF InFlight
    <3>4. PICK more : more = SubSeq(inflight, 1, j)
      OBVIOUS
    <3>5. more \in Seq(Byte)
      BY <3>3, <3>4, Prefix
    <3>6. PICK fs, act, sy : fs = files /\ act = active /\ sy = synced
      OBVIOUS
    <3>7. Disk(fs, sy) /\ act \in DOMAIN fs
      BY <3>6 DEF WCore
    <3>8. Disk([fs EXCEPT ![act] = @ \o more], sy)
      BY <3>5, <3>7, DiskWritten
    <3>9. attempts' \in 0 .. MaxAttempts
      BY <3>2, <3>3 DEF WRest
    <3> QED BY <2>1, <3>2, <3>4, <3>6, <3>7, <3>8, <3>9
  <2>2. CASE /\ \E n \in Sizes : Admitted(n) /\ NeedsRotation(n)
             /\ files' = Rotated.files /\ synced' = Rotated.synced
             /\ UNCHANGED attempts
    <3>1. PICK n \in Sizes : Admitted(n) /\ NeedsRotation(n)
      BY <2>2
    <3>2. PICK fs, sy : fs = Slot(n).files /\ sy = Slot(n).synced
      OBVIOUS
    <3>3. fs = files' /\ sy = synced'
      BY <2>2, <3>1, <3>2 DEF Slot
    <3>4. Disk(fs, sy)
      BY <3>1, <3>2, SlotShape DEF Admitted, WRest
    <3>5. active \in DOMAIN files'
      BY <2>2 DEF Rotated, With, WCore
    <3> QED BY <2>2, <3>3, <3>4, <3>5 DEF WRest
  <2> QED BY <2>1, <2>2 DEF ProcessCrash
<1> QED
  BY <1>1, <1>2, <1>3, GoneTyped DEF WRest

\* The directory after the segments were cut behind their last frames.
Trimmed(dir)     == [b \in DOMAIN dir |-> SubSeq(dir[b], 1, ValidEnd(RecoverSegment(b, dir[b])))]
TrimSynced(dir, sy) == [b \in DOMAIN dir |-> Min2(sy[b], ValidEnd(RecoverSegment(b, dir[b])))]

LEMMA DirectoryMax ==
  ASSUME NEW dir, Directory(dir)
  PROVE  /\ Max(DOMAIN dir) \in DOMAIN dir /\ \A b \in DOMAIN dir : b <= Max(DOMAIN dir)
         /\ Max(DOMAIN dir) \in Nat
         /\ Min(DOMAIN dir) \in DOMAIN dir /\ \A b \in DOMAIN dir : Min(DOMAIN dir) <= b
         /\ Min(DOMAIN dir) \in Nat
<1>1. PICK S : S = DOMAIN dir
  OBVIOUS
<1>2. S \in SUBSET Nat /\ S # {}
  BY <1>1 DEF Directory
<1>3. PICK n \in Nat : \A b \in S : b <= n
  BY <1>1 DEF Directory, Bounded
<1>4. Max(S) \in S /\ \A b \in S : b <= Max(S)
  BY <1>2, <1>3, MaxBounded
<1>5. Min(S) \in S /\ \A b \in S : Min(S) <= b
  BY <1>2, MinNat
<1> QED
  BY <1>1, <1>2, <1>4, <1>5

LEMMA TrimmedTyped ==
  ASSUME NEW fs, NEW sy, Disk(fs, sy)
  PROVE  /\ Disk(Trimmed(fs), TrimSynced(fs, sy)) /\ DOMAIN Trimmed(fs) = DOMAIN fs
         /\ Indexes(Index(fs), Trimmed(fs), Max(DOMAIN fs), <<>>)
<1>1. /\ Directory(fs) /\ DOMAIN fs \in SUBSET Nat /\ DOMAIN fs # {} /\ Bounded(DOMAIN fs)
      /\ sy \in [DOMAIN fs -> Nat]
  BY DEF Disk, Directory
<1>2. ASSUME NEW b \in DOMAIN fs
      PROVE  /\ Trimmed(fs)[b] \in Seq(Byte)
             /\ Len(Trimmed(fs)[b]) = ValidEnd(RecoverSegment(b, fs[b]))
             /\ TrimSynced(fs, sy)[b] \in Nat
             /\ TrimSynced(fs, sy)[b] <= Len(Trimmed(fs)[b])
  <2>1. b \in Nat /\ fs[b] \in Seq(Byte)
    BY <1>1 DEF Directory
  <2>2. PICK v : v = ValidEnd(RecoverSegment(b, fs[b]))
    OBVIOUS
  <2>3. v \in 0 .. Len(fs[b])
    BY <2>1, <2>2, RecoverSegmentShape DEF Recovered
  <2>4. Trimmed(fs)[b] = SubSeq(fs[b], 1, v) /\ TrimSynced(fs, sy)[b] = Min2(sy[b], v)
    BY <2>2 DEF Trimmed, TrimSynced
  <2>5. SubSeq(fs[b], 1, v) \in Seq(Byte) /\ Len(SubSeq(fs[b], 1, v)) = v
    BY <2>1, <2>3, Prefix
  <2>6. sy[b] \in Nat /\ v \in Nat
    BY <1>1, <2>3, <2>1
  <2> QED BY <2>2, <2>4, <2>5, <2>6 DEF Min2
<1>3. DOMAIN Trimmed(fs) = DOMAIN fs /\ Trimmed(fs) = [b \in DOMAIN Trimmed(fs) |-> Trimmed(fs)[b]]
  BY DEF Trimmed
<1>4. Directory(Trimmed(fs))
  BY <1>1, <1>2, <1>3 DEF Directory
<1>5. TrimSynced(fs, sy) \in [DOMAIN fs -> Nat]
  <2>1. TrimSynced(fs, sy) = [b \in DOMAIN fs |-> TrimSynced(fs, sy)[b]]
    BY DEF TrimSynced
  <2> QED BY <2>1, <1>2
<1>6. Disk(Trimmed(fs), TrimSynced(fs, sy))
  BY <1>2, <1>3, <1>4, <1>5 DEF Disk
<1>7. PICK M, es : M = Max(DOMAIN fs) /\ es = Index(fs)
  OBVIOUS
<1>8. Indexed(es, M, fs) /\ M \in Nat
  BY <1>1, <1>7, IndexShape, DirectoryMax
<1>9. /\ es \in Seq(Entry) /\ Len(es) \in Nat
  BY <1>8 DEF Indexed
<1>10. ASSUME NEW i \in 1 .. Len(es)
       PROVE  /\ es[i].seg \in DOMAIN Trimmed(fs) /\ es[i].seg \in Nat /\ es[i].seg <= M
              /\ End(es[i]) <= Len(Trimmed(fs)[es[i].seg])
                                 + (IF es[i].seg = M THEN Len(<<>>) ELSE 0)
  <2>1. /\ es[i].seg \in DOMAIN fs /\ es[i].seg <= M
        /\ End(es[i]) <= ValidEnd(RecoverSegment(es[i].seg, fs[es[i].seg]))
    BY <1>8 DEF Indexed
  <2>2. PICK b : b = es[i].seg
    OBVIOUS
  <2>3. End(es[i]) <= Len(Trimmed(fs)[b]) /\ Len(Trimmed(fs)[b]) \in Nat
    BY <2>1, <2>2, <1>2
  <2>4. Len(Trimmed(fs)[b]) + (IF b = M THEN Len(<<>>) ELSE 0) = Len(Trimmed(fs)[b])
    BY <2>3
  <2> QED BY <2>1, <2>2, <2>3, <2>4, <1>1, <1>3
<1>11. Ordered(es, M)
  <2> SUFFICES ASSUME NEW j \in 1 .. Len(es), NEW i \in 1 .. j - 1
               PROVE  /\ es[i].seg = es[j].seg =>
                           /\ End(es[i]) <= es[j].pos
                           /\ \A k \in i .. j : es[k].seg = es[i].seg
                      /\ es[i].seg = M => es[j].seg = M
    BY DEF Ordered
  <2>1. i \in 1 .. Len(es)
    BY <1>9
  <2>2. es[i].seg <= es[j].seg /\ (es[i].seg = es[j].seg => End(es[i]) <= es[j].pos)
    BY <1>8 DEF Indexed
  <2>3. es[i].seg \in Nat /\ es[j].seg \in Nat /\ es[j].seg <= M
    BY <2>1, <1>10
  <2>4. ASSUME es[i].seg = es[j].seg, NEW k \in i .. j PROVE es[k].seg = es[i].seg
    <3>1. k \in 1 .. Len(es) /\ es[k].seg \in Nat
      BY <1>9, <1>10
    <3>2. i # k => es[i].seg <= es[k].seg
      BY <3>1, <2>1, <1>8 DEF Indexed
    <3>3. k # j => es[k].seg <= es[j].seg
      <4>1. k # j => k \in 1 .. j - 1
        BY <3>1, <2>1
      <4> QED BY <4>1, <1>8 DEF Indexed
    <3> QED BY <3>1, <3>2, <3>3, <2>3, <2>4
  <2> QED BY <2>2, <2>3, <2>4, <1>8
<1>12. Indexes(es, Trimmed(fs), M, <<>>)
  BY <1>9, <1>10, <1>11 DEF Indexes
<1> QED
  BY <1>3, <1>6, <1>7, <1>12

LEMMA RecoverTyped == WCore /\ WRest /\ Recover => WCore' /\ WRest'
<1> SUFFICES ASSUME WCore, WRest, Recover PROVE WCore' /\ WRest'
  OBVIOUS
<1>0. PICK fs, sy, found, act, base, chk :
           /\ fs = files /\ sy = synced /\ found = Index(fs) /\ act = Max(DOMAIN fs)
           /\ base = Min(DOMAIN fs) /\ chk = Min2(meta, base + Len(found))
  OBVIOUS
<1>1. Disk(fs, sy)
  BY <1>0 DEF WCore
<1>2. PICK gone : gone = Dropped(found, chk, act)
  OBVIOUS
<1>3. Opened(files) = [active |-> act, checkpoint |-> chk, dropped |-> gone,
                       records |-> Kept(found, chk, act), base |-> BaseAfter(base, found, chk, act)]
  BY <1>0, <1>2 DEF Opened
<1>4. /\ files' = Without(Trimmed(fs), gone) /\ synced' = Without(TrimSynced(fs, sy), gone)
      /\ active' = act /\ baseOffset' = BaseAfter(base, found, chk, act)
      /\ records' = Kept(found, chk, act) /\ checkpoint' = chk
      /\ mode' = "open" /\ buffer' = <<>> /\ writer' = "ready" /\ hand' = Idle
      /\ UNCHANGED <<meta, attempts, seen, cut, restarts, faults>>
  BY <1>0, <1>3 DEF Recover, Trimmed, TrimSynced, bounds
<1>5. PICK gs, sz : gs = Trimmed(fs) /\ sz = TrimSynced(fs, sy)
  OBVIOUS
<1>6. /\ Disk(gs, sz) /\ act \in DOMAIN gs /\ Indexes(found, gs, act, <<>>)
      /\ act \in Nat /\ base \in Nat
  <2>1. Directory(fs)
    BY <1>1 DEF Disk
  <2> QED BY <2>1, <1>0, <1>1, <1>5, TrimmedTyped, DirectoryMax
<1>7. found \in Seq(Entry) /\ Len(found) \in Nat
  BY <1>6 DEF Indexes
<1>8. chk \in Nat
  BY <1>0, <1>6, <1>7 DEF Min2, WRest
<1>9. gone \subseteq Dropped(found, chk, act)
  BY <1>2
<1>10. /\ Disk(Without(gs, gone), Without(sz, gone)) /\ act \in DOMAIN Without(gs, gone)
       /\ Indexes(Kept(found, chk, act), Without(gs, gone), act, <<>>)
  BY <1>6, <1>8, <1>9, PrunedTyped
<1>11. baseOffset' \in Nat
  BY <1>4, <1>6, <1>7, <1>8, BaseAfterTyped
<1>12. <<>> \in Seq(Byte) /\ Len(<<>>) <= BufferSize
  BY WalSegmentsAssumption
<1>13. WCore'
  BY <1>4, <1>5, <1>10, <1>12 DEF WCore
<1> QED
  BY <1>4, <1>8, <1>11, <1>13, IdleTyped DEF WRest

LEMMA TypedInit == Init => W
<1> SUFFICES ASSUME Init PROVE W
  OBVIOUS
<1>1. Disk(files, synced)
  <2>1. files = [b \in {0} |-> <<>>] /\ synced = [b \in {0} |-> 0]
    BY DEF Init
  <2>2. DOMAIN files = {0} /\ files[0] = <<>> /\ synced[0] = 0 /\ <<>> \in Seq(Byte)
    BY <2>1
  <2>3. Bounded(DOMAIN files)
    BY <2>2 DEF Bounded
  <2> QED BY <2>1, <2>2, <2>3 DEF Disk, Directory
<1>2. <<>> \in Seq(Byte) /\ Len(<<>>) <= BufferSize
  BY WalSegmentsAssumption
<1>3. WCore
  BY <1>1, <1>2, IndexesEmpty DEF WCore, Init
<1>4. WRest
  <2>1. MaxAttempts \in Nat /\ {} \subseteq 1 .. MaxAttempts /\ 0 \in 0 .. MaxAttempts
    BY WalSegmentsAssumption
  <2> QED BY <2>1, IdleTyped DEF Init, WRest
<1>5. WHard
  BY DEF Init, WHard
<1> QED
  BY <1>3, <1>4, <1>5 DEF W

LEMMA TypedStep == W /\ [Next]_vars => W'
<1> SUFFICES ASSUME W, [Next]_vars PROVE W'
  OBVIOUS
<1>1. CASE UNCHANGED vars
  BY <1>1 DEF W, WCore, WRest, WHard, vars, disk, memory, bounds
<1>2. CASE Next
  <2>1. WCore /\ WRest
    BY DEF W
  <2>2. WCore' /\ WRest'
    BY <1>2, <2>1, AppendAckedTyped, AppendFailedTyped, RotationFailedTyped, ReadBatchTyped,
       SinkSettlesTyped, SinkFailsTyped, CommitTyped, CommitNothingTyped,
       CommitInterruptedTyped, FlushTyped, CloseTyped, ProcessCrashTyped, PowerLossTyped,
       RecoverTyped DEF Next
  <2>3. Harden \/ UNCHANGED hard
    BY <1>2 DEF Next, AppendAcked, AppendFailed, RotationFailed, ReadBatch, SinkSettles,
       SinkFails, Commit, CommitNothing, CommitInterrupted, Flush, Close, ProcessCrash,
       PowerLoss, Recover
  <2>4. WHard'
    BY <2>2, <2>3, HardenTyped DEF W, WHard
  <2> QED BY <2>2, <2>4 DEF W
<1> QED
  BY <1>1, <1>2

LEMMA TypedMeans == W => TypeOK
<1> SUFFICES ASSUME W PROVE TypeOK
  OBVIOUS
<1>1. Disk(files, synced) /\ Directory(files) /\ Indexes(records, files, active, buffer)
  BY DEF W, WCore, Disk
<1>2. ASSUME NEW i \in DOMAIN records
      PROVE  /\ records[i] \in [off : Nat, seg : DOMAIN files, pos : Nat, len : Sizes]
             /\ End(records[i]) <= Len(Content(records[i].seg))
  <2>0. records \in Seq(Entry) /\ i \in 1 .. Len(records)
    BY <1>1 DEF Indexes
  <2>1. PICK e : e = records[i]
    OBVIOUS
  <2>2. e \in Entry
    BY <2>0, <2>1
  <2>3. /\ e.seg \in DOMAIN files
        /\ End(e) <= Len(files[e.seg]) + (IF e.seg = active THEN Len(buffer) ELSE 0)
    BY <2>0, <2>1, <1>1 DEF Indexes
  <2>4. e \in [off : Nat, seg : DOMAIN files, pos : Nat, len : Sizes]
    BY <2>2, <2>3 DEF Entry
  <2>5. files[e.seg] \in Seq(Byte) /\ buffer \in Seq(Byte)
    BY <2>3, <1>1 DEF Directory, W, WCore
  <2>6. Len(Content(e.seg)) = Len(files[e.seg]) + (IF e.seg = active THEN Len(buffer) ELSE 0)
    BY <2>5 DEF Content
  <2> QED BY <2>1, <2>3, <2>4, <2>6
<1>3. \A b \in DOMAIN files : synced[b] \in 0 .. Len(files[b])
  BY <1>1 DEF Disk, Directory
<1>4. DOMAIN files \subseteq Nat /\ DOMAIN synced = DOMAIN files /\ active \in DOMAIN files
  BY <1>1 DEF Disk, Directory, W, WCore
<1>5. Len(buffer) <= BufferSize
  BY DEF W, WCore
<1> QED
  BY <1>2, <1>3, <1>4, <1>5 DEF TypeOK, W, WRest, WHard

\* Every variable keeps its type and every entry of the index stays inside the bytes
\* of a segment that exists, whatever fails and whenever the process or the host dies:
\* no read of ReadBatch goes beyond a file, and rollbackTo, pruneCommittedSegments and
\* recoverSegment leave no entry without its segment.
THEOREM TypeCorrect == Spec => []TypeOK
<1>1. Init => W
  BY TypedInit
<1>2. W /\ [Next]_vars => W'
  BY TypedStep
<1>3. W => TypeOK
  BY TypedMeans
<1> QED
  BY <1>1, <1>2, <1>3, PTL DEF Spec
-----------------------------------------------------------------------------
(* Frames in their places *)

\* The bytes at entry e are those of one frame.
FrameAt(bytes, e) ==
  /\ End(e) <= Len(bytes)
  /\ \A k \in 1 .. e.len :
       bytes[e.pos + k] = [tkt |-> bytes[e.pos + 1].tkt, size |-> e.len, part |-> k]

\* Segment s is the one a record of offset o belongs to.
Home(dir, low, s, o) ==
  /\ s \in DOMAIN dir /\ low <= s /\ s <= o
  /\ \A c \in DOMAIN dir : c <= s \/ o < c

\* The segments of dir from low on hold the frames of the offsets low to top - 1,
\* each where at says, one behind the other, every segment but the last full of
\* them; act is the last segment.
Tiled(at, low, top, dir, act) ==
  /\ low \in DOMAIN dir /\ act \in DOMAIN dir /\ top \in Nat /\ low <= act /\ act <= top
  /\ \A c \in DOMAIN dir : c <= act
  /\ \A o \in low .. top - 1 :
       /\ at[o] \in Entry /\ at[o].off = o
       /\ Home(dir, low, at[o].seg, o)
       /\ FrameAt(dir[at[o].seg], at[o])
       /\ o \in DOMAIN dir => at[o].pos = 0
       /\ o \notin DOMAIN dir => at[o].pos = End(at[o - 1])
       /\ o + 1 \in DOMAIN dir => End(at[o]) = Len(dir[at[o].seg])
       /\ \A p \in o + 1 .. top - 1 : at[o].seg = at[p].seg => End(at[o]) <= at[p].pos

\* Where the last frame of the last segment ends.
ValidTo(at, top, act) == IF act = top THEN 0 ELSE End(at[top - 1])

\* Behind the first n bytes there is nothing, or the head of a frame.
Torn(bytes, n) ==
  /\ n <= Len(bytes)
  /\ n < Len(bytes) => bytes[n + 1].part = 1 /\ bytes[n + 1].size > Len(bytes) - n

LEMMA TiledAt ==
  ASSUME NEW dir, Directory(dir), NEW at, NEW low, NEW top, NEW act,
         Tiled(at, low, top, dir, act), NEW o \in low .. top - 1
  PROVE  /\ low \in Nat /\ act \in Nat /\ top \in Nat /\ o \in Nat /\ low <= o /\ o < top
         /\ at[o] \in Entry /\ at[o].seg \in Nat /\ at[o].seg \in DOMAIN dir
         /\ low <= at[o].seg /\ at[o].seg <= o /\ at[o].seg <= act
         /\ dir[at[o].seg] \in Seq(Byte) /\ at[o].pos \in Nat /\ at[o].len \in Nat \ {0}
         /\ End(at[o]) \in Nat /\ at[o].pos < End(at[o]) /\ End(at[o]) <= Len(dir[at[o].seg])
<1>1. DOMAIN dir \in SUBSET Nat /\ \A b \in DOMAIN dir : dir[b] \in Seq(Byte)
  BY DEF Directory
<1>2. low \in Nat /\ act \in Nat /\ top \in Nat /\ o \in Nat /\ low <= o /\ o < top
  BY <1>1 DEF Tiled
<1>3. /\ at[o] \in Entry /\ Home(dir, low, at[o].seg, o) /\ FrameAt(dir[at[o].seg], at[o])
      /\ \A c \in DOMAIN dir : c <= act
  BY DEF Tiled
<1>4. /\ at[o].seg \in DOMAIN dir /\ low <= at[o].seg /\ at[o].seg <= o /\ at[o].seg <= act
      /\ End(at[o]) <= Len(dir[at[o].seg])
  BY <1>3 DEF Home, FrameAt
<1>5. /\ at[o].pos \in Nat /\ at[o].len \in Nat \ {0} /\ at[o].seg \in Nat
      /\ End(at[o]) \in Nat /\ at[o].pos < End(at[o])
  BY <1>3, EntryEnd
<1> QED
  BY <1>1, <1>2, <1>3, <1>4, <1>5

LEMMA TiledNat ==
  ASSUME NEW dir, Directory(dir), NEW at, NEW low, NEW top, NEW act,
         Tiled(at, low, top, dir, act)
  PROVE  /\ low \in Nat /\ act \in Nat /\ top \in Nat /\ low <= act /\ act <= top
         /\ low \in DOMAIN dir /\ act \in DOMAIN dir /\ DOMAIN dir \in SUBSET Nat
         /\ \A c \in DOMAIN dir : c <= act
BY DEF Tiled, Directory

\* A record belongs to one segment.
LEMMA HomeIs ==
  ASSUME NEW dir, Directory(dir), NEW at, NEW low, NEW top, NEW act,
         Tiled(at, low, top, dir, act), NEW o \in low .. top - 1, NEW s, Home(dir, low, s, o)
  PROVE  at[o].seg = s
<1>1. Home(dir, low, at[o].seg, o)
  BY DEF Tiled
<1>2. /\ s \in DOMAIN dir /\ s <= o /\ at[o].seg \in DOMAIN dir /\ at[o].seg <= o
      /\ (at[o].seg <= s \/ o < at[o].seg) /\ (s <= at[o].seg \/ o < s)
  BY <1>1 DEF Home
<1>3. s \in Nat /\ at[o].seg \in Nat /\ o \in Nat
  BY <1>2, TiledAt DEF Directory
<1> QED
  BY <1>2, <1>3

\* The records of the last segment are those from its base offset on.
LEMMA ActiveLast ==
  ASSUME NEW dir, Directory(dir), NEW at, NEW low, NEW top, NEW act,
         Tiled(at, low, top, dir, act), NEW o \in low .. top - 1
  PROVE  /\ at[o].seg = act <=> act <= o
         /\ at[o].seg < act <=> o < act
<1>1. act \in DOMAIN dir /\ low <= act /\ \A c \in DOMAIN dir : c <= act
  BY DEF Tiled
<1>2. act \in Nat /\ o \in Nat /\ at[o].seg \in Nat /\ at[o].seg <= o /\ at[o].seg <= act
  BY TiledAt
<1>3. ASSUME act <= o PROVE at[o].seg = act
  BY <1>1, <1>3, HomeIs DEF Home
<1> QED
  BY <1>2, <1>3

LEMMA ValidToIs ==
  ASSUME NEW dir, Directory(dir), NEW at, NEW low, NEW top, NEW act,
         Tiled(at, low, top, dir, act)
  PROVE  /\ ValidTo(at, top, act) \in Nat /\ ValidTo(at, top, act) <= Len(dir[act])
         /\ act # top => /\ ValidTo(at, top, act) > 0 /\ top - 1 \in low .. top - 1
                         /\ at[top - 1].seg = act /\ ValidTo(at, top, act) = End(at[top - 1])
<1>1. low \in Nat /\ act \in Nat /\ top \in Nat /\ low <= act /\ act <= top /\ act \in DOMAIN dir
  BY TiledNat
<1>2. Len(dir[act]) \in Nat
  BY <1>1 DEF Directory
<1>3. CASE act = top
  BY <1>2, <1>3 DEF ValidTo
<1>4. CASE act # top
  <2>1. top - 1 \in low .. top - 1 /\ act <= top - 1
    BY <1>1, <1>4
  <2>2. /\ at[top - 1].seg = act /\ at[top - 1].pos \in Nat /\ at[top - 1].pos < End(at[top - 1])
        /\ End(at[top - 1]) \in Nat /\ End(at[top - 1]) <= Len(dir[at[top - 1].seg])
    BY <2>1, ActiveLast, TiledAt
  <2>3. ValidTo(at, top, act) = End(at[top - 1])
    BY <1>4 DEF ValidTo
  <2> QED BY <2>1, <2>2, <2>3
<1> QED
  BY <1>3, <1>4


\* The frame that a log has at entry e.
Tkt(lg, e) == lg[e.seg][e.pos + 1].tkt


\* Segment act of dir2 has the frame of ticket t and n bytes more than that of dir.
Longer(dir, dir2, act, t, n) ==
  /\ DOMAIN dir2 = DOMAIN dir
  /\ dir2[act] = dir[act] \o Bytes(t, n)
  /\ \A b \in DOMAIN dir : b # act => dir2[b] = dir[b]

\* A frame is written behind the last one.
LEMMA TiledExtended ==
  ASSUME NEW dir, Directory(dir), NEW at, NEW low, NEW top, NEW act,
         Tiled(at, low, top, dir, act), Len(dir[act]) = ValidTo(at, top, act),
         NEW n \in Sizes, NEW t \in 1 .. MaxAttempts,
         NEW e \in Entry, e.off = top, e.seg = act, e.pos = Len(dir[act]), e.len = n,
         NEW dir2, Longer(dir, dir2, act, t, n),
         NEW at2, at2[top] = e, \A o \in low .. top - 1 : at2[o] = at[o]
  PROVE  /\ Tiled(at2, low, top + 1, dir2, act)
         /\ Len(dir2[act]) = ValidTo(at2, top + 1, act)
         /\ \A o \in low .. top - 1 : Tkt(dir2, at[o]) = Tkt(dir, at[o])
<1> USE DEF Longer
<1>1. /\ low \in Nat /\ act \in Nat /\ top \in Nat /\ low <= act /\ act <= top
      /\ low \in DOMAIN dir /\ act \in DOMAIN dir /\ DOMAIN dir \in SUBSET Nat
      /\ \A c \in DOMAIN dir : c <= act
  BY TiledNat
<1>2. dir[act] \in Seq(Byte) /\ Len(dir[act]) \in Nat
  BY <1>1 DEF Directory
<1>3. /\ n \in Nat \ {0} /\ Bytes(t, n) \in Seq(Byte) /\ Len(Bytes(t, n)) = n
      /\ \A k \in 1 .. n : Bytes(t, n)[k] = [tkt |-> t, size |-> n, part |-> k]
  BY BytesTyped
<1>4. /\ Len(dir2[act]) = Len(dir[act]) + n
      /\ \A i \in 1 .. Len(dir[act]) : dir2[act][i] = dir[act][i]
      /\ \A k \in 1 .. n : dir2[act][Len(dir[act]) + k] = [tkt |-> t, size |-> n, part |-> k]
  <2>1. PICK x : x = dir[act]
    OBVIOUS
  <2>2. PICK y : y = Bytes(t, n)
    OBVIOUS
  <2>3. /\ Len(x \o y) = Len(x) + Len(y)
        /\ \A i \in 1 .. Len(x) + Len(y) : (x \o y)[i] = IF i <= Len(x) THEN x[i] ELSE y[i - Len(x)]
    BY <1>2, <1>3, <2>1, <2>2, ConcatProperties
  <2>4. Len(x) \in Nat /\ Len(y) = n
    BY <1>2, <1>3, <2>1, <2>2
  <2>5. \A i \in 1 .. Len(x) : (x \o y)[i] = x[i]
    BY <2>3, <2>4, <1>3
  <2>6. ASSUME NEW k \in 1 .. n PROVE (x \o y)[Len(x) + k] = y[k]
    <3>1. Len(x) + k \in 1 .. Len(x) + Len(y) /\ ~ (Len(x) + k <= Len(x))
          /\ (Len(x) + k) - Len(x) = k
      BY <2>4, <1>3
    <3> QED BY <3>1, <2>3
  <2>7. PICK u : u = x \o y
    OBVIOUS
  <2>8. u = dir2[act]
    BY <2>1, <2>2, <2>7
  <2>9. Len(u) = Len(x) + n /\ \A i \in 1 .. Len(x) : u[i] = x[i]
    BY <2>3, <2>4, <2>5, <2>7
  <2>10. \A k \in 1 .. n : u[Len(x) + k] = [tkt |-> t, size |-> n, part |-> k]
    BY <2>2, <2>6, <2>7, <1>3
  <2> QED BY <2>1, <2>8, <2>9, <2>10
<1>5. End(e) = Len(dir2[act])
  BY <1>4, <1>3 DEF End
<1>6. FrameAt(dir2[act], e)
  <2>0. 1 \in 1 .. n
    BY <1>3
  <2>4. \A k \in 1 .. n : dir2[act][e.pos + k] = [tkt |-> t, size |-> n, part |-> k]
    BY <1>4
  <2>1. dir2[act][e.pos + 1] = [tkt |-> t, size |-> n, part |-> 1]
    BY <2>0, <2>4
  <2>2. dir2[act][e.pos + 1].tkt = t
    BY <2>1
  <2>3. Len(dir2[act]) \in Nat
    <3>1. Len(dir2[act]) = Len(dir[act]) + n
      BY <1>4
    <3> QED BY <3>1, <1>2, <1>3
  <2>5. End(e) <= Len(dir2[act])
    BY <1>5, <2>3
  <2> QED BY <2>4, <2>2, <2>5 DEF FrameAt
<1>7. \A b \in DOMAIN dir : /\ Len(dir[b]) \in Nat /\ Len(dir2[b]) \in Nat
                           /\ Len(dir[b]) <= Len(dir2[b])
                           /\ \A i \in 1 .. Len(dir[b]) : dir2[b][i] = dir[b][i]
  <2> SUFFICES ASSUME NEW b \in DOMAIN dir
               PROVE  /\ Len(dir[b]) \in Nat /\ Len(dir2[b]) \in Nat
                      /\ Len(dir[b]) <= Len(dir2[b])
                      /\ \A i \in 1 .. Len(dir[b]) : dir2[b][i] = dir[b][i]
    OBVIOUS
  <2>1. Len(dir[b]) \in Nat
    BY DEF Directory
  <2>2. CASE b = act
    <3>1. Len(dir2[act]) = Len(dir[act]) + n
      BY <1>4
    <3>2. \A i \in 1 .. Len(dir[act]) : dir2[act][i] = dir[act][i]
      BY <1>4
    <3> QED BY <3>1, <3>2, <2>2, <1>2, <1>3
  <2>3. CASE b # act
    BY <2>1, <2>3
  <2> QED BY <2>2, <2>3
<1>8. ASSUME NEW o \in low .. top - 1
      PROVE  FrameAt(dir2[at[o].seg], at[o]) /\ Tkt(dir2, at[o]) = Tkt(dir, at[o])
  <2>1. PICK b : b = at[o].seg
    OBVIOUS
  <2>2. /\ b \in DOMAIN dir /\ at[o].pos \in Nat /\ at[o].len \in Nat \ {0}
        /\ End(at[o]) \in Nat /\ End(at[o]) <= Len(dir[b]) /\ End(at[o]) = at[o].pos + at[o].len
    BY <2>1, TiledAt DEF End
  <2>3. FrameAt(dir[b], at[o])
    BY <2>1 DEF Tiled
  <2>8. Len(dir[b]) \in Nat
    BY <2>2, <1>7
  <2>4. \A k \in 1 .. at[o].len : at[o].pos + k \in 1 .. Len(dir[b])
    <3>1. PICK m, p, l : m = at[o].len /\ p = at[o].pos /\ l = Len(dir[b])
      OBVIOUS
    <3>2. m \in Nat /\ p \in Nat /\ l \in Nat /\ p + m <= l
      BY <2>2, <2>8, <3>1
    <3>3. \A k \in 1 .. m : p + k \in 1 .. l
      BY <3>2
    <3> QED BY <3>1, <3>3
  <2>5. \A k \in 1 .. at[o].len : dir2[b][at[o].pos + k] = dir[b][at[o].pos + k]
    BY <2>2, <2>4, <1>7
  <2>6. 1 \in 1 .. at[o].len
    BY <2>2
  <2>7. End(at[o]) <= Len(dir2[b])
    BY <2>2, <1>7, LeqThrough
  <2> QED BY <2>1, <2>3, <2>5, <2>6, <2>7 DEF FrameAt, Tkt
<1>9. Home(dir2, low, act, top)
  BY <1>1 DEF Home
<1>10. /\ top \in DOMAIN dir => e.pos = 0
       /\ top \notin DOMAIN dir => e.pos = End(at2[top - 1])
  <2>1. CASE act = top
    BY <2>1, <1>1 DEF ValidTo
  <2>2. CASE act # top
    <3>1. top \notin DOMAIN dir /\ top - 1 \in low .. top - 1
      BY <2>2, <1>1
    <3> QED BY <3>1, <2>2 DEF ValidTo
  <2> QED BY <2>1, <2>2
<1>11. top + 1 \notin DOMAIN dir
  BY <1>1
<1>12. ASSUME NEW o \in low .. top
       PROVE  /\ at2[o] \in Entry /\ at2[o].off = o
              /\ Home(dir2, low, at2[o].seg, o)
              /\ FrameAt(dir2[at2[o].seg], at2[o])
              /\ o \in DOMAIN dir2 => at2[o].pos = 0
              /\ o \notin DOMAIN dir2 => at2[o].pos = End(at2[o - 1])
              /\ o + 1 \in DOMAIN dir2 => End(at2[o]) = Len(dir2[at2[o].seg])
              /\ \A p \in o + 1 .. top : at2[o].seg = at2[p].seg => End(at2[o]) <= at2[p].pos
  <2>1. CASE o = top
    <3>1. \A p \in o + 1 .. top : FALSE
      BY <2>1, <1>1
    <3> QED BY <2>1, <3>1, <1>6, <1>9, <1>10, <1>11
  <2>2. CASE o # top
    <3>1. o \in low .. top - 1 /\ at2[o] = at[o] /\ o \in Nat
      BY <2>2, <1>1
    <3>2. at[o] \in Entry /\ at[o].off = o /\ Home(dir2, low, at[o].seg, o)
      BY <3>1 DEF Tiled, Home
    <3>3. o \in DOMAIN dir => at[o].pos = 0
      BY <3>1 DEF Tiled
    <3>4. ASSUME o \notin DOMAIN dir PROVE at[o].pos = End(at2[o - 1])
      <4>1. o # low
        BY <3>4, <1>1
      <4>2. o - 1 \in low .. top - 1
        BY <4>1, <3>1, <1>1
      <4> QED BY <3>1, <3>4, <4>2 DEF Tiled
    <3>5. ASSUME o + 1 \in DOMAIN dir PROVE End(at[o]) = Len(dir2[at[o].seg])
      <4>1. End(at[o]) = Len(dir[at[o].seg])
        BY <3>1, <3>5 DEF Tiled
      <4>2. o < act
        BY <3>5, <1>1, <3>1
      <4>3. at[o].seg # act /\ at[o].seg \in DOMAIN dir
        <5>1. at[o].seg = act <=> act <= o
          BY <3>1, ActiveLast
        <5>2. at[o].seg \in DOMAIN dir
          BY <3>1, TiledAt
        <5> QED BY <5>1, <5>2, <4>2, <3>1, <1>1
      <4> QED BY <4>1, <4>3
    <3>6. ASSUME NEW p \in o + 1 .. top, at[o].seg = at2[p].seg PROVE End(at[o]) <= at2[p].pos
      <4>1. CASE p = top
        <5>1. at[o].seg = act
          BY <3>6, <4>1
        <5> QED BY <5>1, <4>1, <3>1, TiledAt
      <4>2. CASE p # top
        <5>1. p \in o + 1 .. top - 1 /\ p \in low .. top - 1
          BY <4>2, <3>1, <1>1
        <5> QED BY <5>1, <3>1, <3>6 DEF Tiled
      <4> QED BY <4>1, <4>2
    <3> QED BY <3>1, <3>2, <3>3, <3>4, <3>5, <3>6, <1>8
  <2> QED BY <2>1, <2>2
<1>13. Tiled(at2, low, top + 1, dir2, act)
  <2>1. low .. (top + 1) - 1 = low .. top /\ top + 1 \in Nat /\ act <= top + 1
    BY <1>1
  <2>2. \A o : o + 1 .. (top + 1) - 1 = o + 1 .. top
    BY <1>1
  <2> QED BY <1>1, <1>12, <2>1, <2>2 DEF Tiled
<1>14. ValidTo(at2, top + 1, act) = Len(dir2[act])
  <2>1. act # top + 1 /\ (top + 1) - 1 = top
    BY <1>1
  <2> QED BY <2>1, <1>5 DEF ValidTo
<1> QED
  BY <1>8, <1>13, <1>14

\* A segment is opened behind a last one that has frames.
LEMMA TiledRotated ==
  ASSUME NEW dir, Directory(dir), NEW at, NEW low, NEW top, NEW act,
         Tiled(at, low, top, dir, act), Len(dir[act]) = ValidTo(at, top, act), act # top
  PROVE  Tiled(at, low, top, With(dir, top, <<>>), top)
<1>1. /\ low \in Nat /\ act \in Nat /\ top \in Nat /\ low <= act /\ act <= top
      /\ low \in DOMAIN dir /\ act \in DOMAIN dir /\ DOMAIN dir \in SUBSET Nat
      /\ \A c \in DOMAIN dir : c <= act
  BY TiledNat
<1>2. PICK dir2 : dir2 = With(dir, top, <<>>)
  OBVIOUS
<1>3. top \notin DOMAIN dir /\ act < top
  BY <1>1
<1>4. /\ DOMAIN dir2 = DOMAIN dir \union {top}
      /\ \A b \in DOMAIN dir : dir2[b] = dir[b]
  BY <1>2, <1>3 DEF With
<1>5. ASSUME NEW o \in low .. top - 1
      PROVE  /\ at[o] \in Entry /\ at[o].off = o
             /\ Home(dir2, low, at[o].seg, o)
             /\ FrameAt(dir2[at[o].seg], at[o])
             /\ o \in DOMAIN dir2 => at[o].pos = 0
             /\ o \notin DOMAIN dir2 => at[o].pos = End(at[o - 1])
             /\ o + 1 \in DOMAIN dir2 => End(at[o]) = Len(dir2[at[o].seg])
             /\ \A p \in o + 1 .. top - 1 : at[o].seg = at[p].seg => End(at[o]) <= at[p].pos
  <2>1. o \in Nat /\ o < top /\ at[o].seg \in DOMAIN dir /\ o # top
    BY TiledAt, <1>1
  <2>2. Home(dir2, low, at[o].seg, o)
    <3>1. Home(dir, low, at[o].seg, o)
      BY DEF Tiled
    <3> QED BY <3>1, <2>1, <1>4 DEF Home
  <2>3. ASSUME o + 1 \in DOMAIN dir2 PROVE End(at[o]) = Len(dir2[at[o].seg])
    <3>1. CASE o + 1 \in DOMAIN dir
      BY <3>1, <2>1, <1>4 DEF Tiled
    <3>2. CASE o + 1 \notin DOMAIN dir
      <4>1. o + 1 = top
        BY <2>3, <3>2, <1>4
      <4>2. o = top - 1
        BY <4>1, <2>1
      <4>3. at[o].seg = act /\ End(at[o]) = ValidTo(at, top, act)
        BY <4>2, <1>3, ValidToIs
      <4> QED BY <4>3, <2>1, <1>4
    <3> QED BY <3>1, <3>2
  <2>4. (o \in DOMAIN dir2 <=> o \in DOMAIN dir) /\ dir2[at[o].seg] = dir[at[o].seg]
    BY <2>1, <1>4
  <2> QED BY <2>2, <2>3, <2>4 DEF Tiled
<1>6. /\ low \in DOMAIN dir2 /\ top \in DOMAIN dir2 /\ top \in Nat /\ low <= top /\ top <= top
      /\ \A c \in DOMAIN dir2 : c <= top
  <2>1. low <= top /\ \A c \in DOMAIN dir : c <= top
    BY <1>1
  <2> QED BY <1>1, <1>4, <2>1
<1>7. Tiled(at, low, top, dir2, top)
  BY <1>5, <1>6 DEF Tiled
<1> QED
  BY <1>2, <1>7


\* The last segment is cut: the frames that lie in what is left are the first ones.
LEMMA TiledCut ==
  ASSUME NEW dir, Directory(dir), NEW at, NEW low, NEW top, NEW act,
         Tiled(at, low, top, dir, act), Torn(dir[act], ValidTo(at, top, act)),
         NEW n \in 0 .. Len(dir[act]),
         NEW dir2, DOMAIN dir2 = DOMAIN dir, Len(dir2[act]) = n,
         \A i \in 1 .. n : dir2[act][i] = dir[act][i],
         \A b \in DOMAIN dir : b # act => dir2[b] = dir[b]
  PROVE  \E top2 \in act .. top :
           /\ Tiled(at, low, top2, dir2, act)
           /\ Torn(dir2[act], ValidTo(at, top2, act))
           /\ \A o \in low .. top - 1 : o < top2 <=> (at[o].seg # act \/ End(at[o]) <= n)
           /\ \A o \in low .. top2 - 1 : Tkt(dir2, at[o]) = Tkt(dir, at[o])
<1>1. /\ low \in Nat /\ act \in Nat /\ top \in Nat /\ low <= act /\ act <= top
      /\ low \in DOMAIN dir /\ act \in DOMAIN dir /\ DOMAIN dir \in SUBSET Nat
      /\ \A c \in DOMAIN dir : c <= act
  BY TiledNat
<1>2. dir[act] \in Seq(Byte) /\ Len(dir[act]) \in Nat /\ n \in Nat /\ n <= Len(dir[act])
  BY <1>1 DEF Directory
<1> DEFINE T == {o \in act .. top : o = top \/ ~ (End(at[o]) <= n)}
<1>3. PICK top2 \in T : \A o \in T : top2 <= o
  <2>1. T \in SUBSET Nat /\ top \in T
    BY <1>1
  <2> HIDE DEF T
  <2> QED BY <2>1, Least
<1>4. /\ top2 \in Nat /\ act <= top2 /\ top2 <= top
      /\ top2 # top => ~ (End(at[top2]) <= n)
      /\ \A o \in act .. top2 - 1 : End(at[o]) <= n
  <2>1. top2 \in act .. top /\ (top2 # top => ~ (End(at[top2]) <= n))
    OBVIOUS
  <2>2. top2 \in Nat /\ act <= top2 /\ top2 <= top
    BY <2>1, <1>1
  <2>3. ASSUME NEW o \in act .. top2 - 1 PROVE End(at[o]) <= n
    <3>1. o \in act .. top /\ o # top /\ ~ (top2 <= o)
      BY <2>2, <1>1
    <3>2. o \notin T
      BY <3>1, <1>3
    <3> QED BY <3>1, <3>2
  <2> QED BY <2>1, <2>2, <2>3
<1> HIDE DEF T
<1>5. ASSUME NEW o \in low .. top - 1
      PROVE  o < top2 <=> (at[o].seg # act \/ End(at[o]) <= n)
  <2>1. o \in Nat /\ (at[o].seg = act <=> act <= o)
    BY TiledAt, ActiveLast
  <2>2. ASSUME o < top2, at[o].seg = act PROVE End(at[o]) <= n
    <3>1. o \in act .. top2 - 1
      BY <2>1, <2>2, <1>1, <1>4
    <3> QED BY <3>1, <1>4
  <2>3. ASSUME ~ (o < top2) PROVE at[o].seg = act /\ ~ (End(at[o]) <= n)
    <3>1. act <= o /\ top2 <= o /\ top2 # top /\ top2 \in low .. top - 1
      BY <2>1, <2>3, <1>1, <1>4
    <3>2. at[o].seg = act /\ at[top2].seg = act
      BY <3>1, <2>1, <1>4, ActiveLast
    <3>3. ~ (End(at[top2]) <= n)
      BY <3>1, <1>4
    <3>4. CASE o = top2
      BY <3>2, <3>3, <3>4
    <3>5. CASE o # top2
      <4>1. o \in top2 + 1 .. top - 1
        BY <3>1, <3>5, <2>1, <1>4
      <4>2. End(at[top2]) <= at[o].pos
        BY <3>1, <3>2, <4>1 DEF Tiled
      <4>3. at[o].pos \in Nat /\ End(at[o]) \in Nat /\ at[o].pos < End(at[o])
        BY TiledAt
      <4>4. End(at[top2]) \in Nat
        BY <3>1, TiledAt
      <4> QED BY <3>2, <3>3, <4>2, <4>3, <4>4, <1>2
    <3> QED BY <3>4, <3>5
  <2> QED BY <2>2, <2>3
<1>6. ASSUME NEW o \in low .. top2 - 1
      PROVE  FrameAt(dir2[at[o].seg], at[o]) /\ Tkt(dir2, at[o]) = Tkt(dir, at[o])
  <2>0. o \in low .. top - 1 /\ o < top2
    BY <1>1, <1>4
  <2>1. /\ at[o].seg \in DOMAIN dir /\ at[o].pos \in Nat /\ at[o].len \in Nat \ {0}
        /\ End(at[o]) = at[o].pos + at[o].len
    BY <2>0, TiledAt DEF End
  <2>2. FrameAt(dir[at[o].seg], at[o])
    BY <2>0 DEF Tiled
  <2>3. CASE at[o].seg # act
    BY <2>1, <2>2, <2>3 DEF FrameAt, Tkt
  <2>4. CASE at[o].seg = act
    <3>1. End(at[o]) <= n
      BY <2>0, <2>4, <1>5
    <3>2. \A k \in 1 .. at[o].len : at[o].pos + k \in 1 .. n
      <4>1. PICK m, p : m = at[o].len /\ p = at[o].pos
        OBVIOUS
      <4>2. m \in Nat /\ p \in Nat /\ p + m <= n
        BY <2>1, <3>1, <4>1
      <4>3. \A k \in 1 .. m : p + k \in 1 .. n
        BY <4>2, <1>2
      <4> QED BY <4>1, <4>3
    <3>3. \A k \in 1 .. at[o].len : dir2[act][at[o].pos + k] = dir[act][at[o].pos + k]
      BY <3>2
    <3>4. 1 \in 1 .. at[o].len
      BY <2>1
    <3> QED BY <2>2, <2>4, <3>1, <3>3, <3>4 DEF FrameAt, Tkt
  <2> QED BY <2>3, <2>4
<1>7. ASSUME NEW o \in low .. top2 - 1
      PROVE  /\ at[o] \in Entry /\ at[o].off = o
             /\ Home(dir2, low, at[o].seg, o)
             /\ o \in DOMAIN dir2 => at[o].pos = 0
             /\ o \notin DOMAIN dir2 => at[o].pos = End(at[o - 1])
             /\ o + 1 \in DOMAIN dir2 => End(at[o]) = Len(dir2[at[o].seg])
             /\ \A p \in o + 1 .. top2 - 1 : at[o].seg = at[p].seg => End(at[o]) <= at[p].pos
  <2>0. o \in low .. top - 1 /\ o \in Nat
    BY <1>1, <1>4
  <2>1. Home(dir2, low, at[o].seg, o)
    <3>1. Home(dir, low, at[o].seg, o)
      BY <2>0 DEF Tiled
    <3> QED BY <3>1 DEF Home
  <2>2. ASSUME o + 1 \in DOMAIN dir PROVE End(at[o]) = Len(dir2[at[o].seg])
    <3>1. o < act
      BY <2>2, <2>0, <1>1
    <3>2. at[o].seg # act
      <4>1. at[o].seg = act <=> act <= o
        BY <2>0, ActiveLast
      <4> QED BY <4>1, <3>1, <2>0, <1>1
    <3>3. at[o].seg \in DOMAIN dir
      BY <2>0, TiledAt
    <3> QED BY <2>0, <2>2, <3>2, <3>3 DEF Tiled
  <2>3. \A p \in o + 1 .. top2 - 1 : p \in o + 1 .. top - 1
    BY <1>1, <1>4, <2>0
  <2> QED BY <2>0, <2>1, <2>2, <2>3 DEF Tiled
<1>8. Tiled(at, low, top2, dir2, act)
  BY <1>1, <1>4, <1>6, <1>7 DEF Tiled
<1>9. PICK v : v = ValidTo(at, top2, act)
  OBVIOUS
<1>10. v \in Nat /\ v <= n
  <2>1. CASE act = top2
    BY <2>1, <1>9, <1>2 DEF ValidTo
  <2>2. CASE act # top2
    <3>1. top2 - 1 \in act .. top2 - 1 /\ top2 - 1 \in low .. top - 1
      BY <2>2, <1>1, <1>4
    <3>2. End(at[top2 - 1]) \in Nat /\ End(at[top2 - 1]) <= n
      BY <3>1, <1>4, TiledAt
    <3> QED BY <2>2, <3>2, <1>9 DEF ValidTo
  <2> QED BY <2>1, <2>2
<1>11. ASSUME v < n PROVE dir2[act][v + 1].part = 1 /\ dir2[act][v + 1].size > n - v
  <2>1. dir2[act][v + 1] = dir[act][v + 1]
    BY <1>10, <1>11, <1>2
  <2>2. CASE top2 = top
    <3>1. /\ v < Len(dir[act]) /\ dir[act][v + 1].part = 1
          /\ dir[act][v + 1].size > Len(dir[act]) - v
      BY <2>2, <1>2, <1>9, <1>10, <1>11 DEF Torn
    <3>2. dir[act][v + 1].size \in Nat
      <4>1. v + 1 \in 1 .. Len(dir[act])
        BY <3>1, <1>10, <1>2
      <4>2. dir[act][v + 1] \in Byte
        BY <4>1, <1>2
      <4> QED BY <4>2, WalSegmentsAssumption DEF Byte
    <3> QED BY <2>1, <3>1, <3>2, <1>2, <1>10
  <2>3. CASE top2 # top
    <3>0. top2 \in low .. top - 1 /\ top2 \in Nat
      BY <2>3, <1>1, <1>4
    <3>1. at[top2].pos = v
      <4>1. CASE act = top2
        <5>1. top2 \in DOMAIN dir
          BY <4>1, <1>1
        <5> QED BY <3>0, <4>1, <5>1, <1>9 DEF Tiled, ValidTo
      <4>2. CASE act # top2
        <5>1. top2 \notin DOMAIN dir
          BY <4>2, <1>1, <1>4
        <5> QED BY <3>0, <4>2, <5>1, <1>9 DEF Tiled, ValidTo
      <4> QED BY <4>1, <4>2
    <3>2. at[top2].seg = act
      BY <3>0, <1>4, ActiveLast
    <3>3. /\ at[top2].len \in Nat \ {0} /\ End(at[top2]) = at[top2].pos + at[top2].len
      BY <3>0, TiledAt DEF End
    <3>4. FrameAt(dir[act], at[top2])
      BY <3>0, <3>2 DEF Tiled
    <3>5. 1 \in 1 .. at[top2].len
      BY <3>3
    <3>6. dir[act][v + 1] = [tkt |-> dir[act][v + 1].tkt, size |-> at[top2].len, part |-> 1]
      BY <3>1, <3>4, <3>5 DEF FrameAt
    <3>7. dir[act][v + 1].part = 1 /\ dir[act][v + 1].size = at[top2].len
      BY <3>6
    <3>8. ~ (v + at[top2].len <= n)
      BY <2>3, <3>1, <3>3, <1>4
    <3> QED BY <2>1, <3>3, <3>7, <3>8, <1>2, <1>10
  <2> QED BY <2>2, <2>3
<1>12. Torn(dir2[act], ValidTo(at, top2, act))
  BY <1>9, <1>10, <1>11 DEF Torn
<1>13. top2 \in act .. top
  BY <1>4, <1>1
<1> QED
  BY <1>5, <1>6, <1>8, <1>12, <1>13

\* The first segments are removed.
LEMMA TiledPruned ==
  ASSUME NEW dir, Directory(dir), NEW at, NEW low, NEW top, NEW act,
         Tiled(at, low, top, dir, act), NEW c \in DOMAIN dir, low <= c,
         NEW dir2, DOMAIN dir2 \subseteq DOMAIN dir,
         \A b \in DOMAIN dir : c <= b => b \in DOMAIN dir2,
         \A b \in DOMAIN dir2 : dir2[b] = dir[b]
  PROVE  Tiled(at, c, top, dir2, act)
<1>1. /\ low \in Nat /\ act \in Nat /\ top \in Nat /\ low <= act /\ act <= top
      /\ low \in DOMAIN dir /\ act \in DOMAIN dir /\ DOMAIN dir \in SUBSET Nat
      /\ \A b \in DOMAIN dir : b <= act
  BY TiledNat
<1>2. c \in Nat /\ c <= act /\ c \in DOMAIN dir2 /\ act \in DOMAIN dir2
  BY <1>1
<1>3. ASSUME NEW o \in c .. top - 1
      PROVE  /\ at[o] \in Entry /\ at[o].off = o
             /\ Home(dir2, c, at[o].seg, o)
             /\ FrameAt(dir2[at[o].seg], at[o])
             /\ o \in DOMAIN dir2 => at[o].pos = 0
             /\ o \notin DOMAIN dir2 => at[o].pos = End(at[o - 1])
             /\ o + 1 \in DOMAIN dir2 => End(at[o]) = Len(dir2[at[o].seg])
             /\ \A p \in o + 1 .. top - 1 : at[o].seg = at[p].seg => End(at[o]) <= at[p].pos
  <2>1. o \in low .. top - 1 /\ o \in Nat /\ c <= o
    BY <1>1, <1>2
  <2>2. Home(dir, low, at[o].seg, o)
    BY <2>1 DEF Tiled
  <2>3. c <= at[o].seg /\ at[o].seg \in DOMAIN dir
    <3>1. c <= at[o].seg \/ o < c
      BY <2>2 DEF Home
    <3> QED BY <3>1, <2>1, <2>2, <1>2 DEF Home
  <2>4. at[o].seg \in DOMAIN dir2 /\ dir2[at[o].seg] = dir[at[o].seg]
    BY <2>3
  <2>5. Home(dir2, c, at[o].seg, o)
    BY <2>2, <2>3, <2>4 DEF Home
  <2>6. o \in DOMAIN dir2 <=> o \in DOMAIN dir
    BY <2>1
  <2> QED BY <2>1, <2>4, <2>5, <2>6 DEF Tiled
<1> QED
  BY <1>1, <1>2, <1>3 DEF Tiled


\* A start finds in each segment the frames that at says are there.
LEMMA SegmentIs ==
  ASSUME NEW dir, Directory(dir), NEW at, NEW low, NEW top, NEW act,
         Tiled(at, low, top, dir, act), Torn(dir[act], ValidTo(at, top, act)),
         \A z \in Sizes : z <= MaxRecoverable, NEW b \in DOMAIN dir, low <= b
  PROVE  \E hi \in b .. top :
           /\ \A o \in low .. top - 1 : at[o].seg = b <=> b <= o /\ o < hi
           /\ b # act => hi \in DOMAIN dir /\ b < hi /\ End(at[hi - 1]) = Len(dir[b])
           /\ Len(RecoverSegment(b, dir[b])) = hi - b
           /\ \A i \in 1 .. hi - b : RecoverSegment(b, dir[b])[i] = at[b + i - 1]
<1>1. /\ low \in Nat /\ act \in Nat /\ top \in Nat /\ low <= act /\ act <= top
      /\ low \in DOMAIN dir /\ act \in DOMAIN dir /\ DOMAIN dir \in SUBSET Nat
      /\ \A c \in DOMAIN dir : c <= act
  BY TiledNat
<1>2. b \in Nat /\ b <= act /\ dir[b] \in Seq(Byte) /\ Len(dir[b]) \in Nat
  BY <1>1 DEF Directory
<1>3. PICK hi \in b .. top : /\ b = act => hi = top
                             /\ b # act => hi \in DOMAIN dir /\ b < hi
                                           /\ \A c \in DOMAIN dir : c <= b \/ hi <= c
  <2>1. CASE b = act
    BY <2>1, <1>1, <1>2
  <2>2. CASE b # act
    <3> DEFINE T == {c \in DOMAIN dir : b < c}
    <3>1. T \in SUBSET Nat /\ act \in T
      BY <2>2, <1>1, <1>2
    <3>2. PICK c \in T : \A d \in T : c <= d
      <4> HIDE DEF T
      <4> QED BY <3>1, Least
    <3>3. c \in DOMAIN dir /\ b < c /\ c \in b .. top
      BY <1>1, <1>2
    <3>4. \A d \in DOMAIN dir : d <= b \/ c <= d
      BY <3>2, <1>1, <1>2
    <3> QED BY <2>2, <3>3, <3>4
  <2> QED BY <2>1, <2>2
<1>4. hi \in Nat /\ b <= hi /\ hi <= top
  BY <1>1, <1>2
<1>5. ASSUME NEW o \in low .. top - 1
      PROVE  at[o].seg = b <=> b <= o /\ o < hi
  <2>1. o \in Nat /\ o < top /\ at[o].seg <= o
    BY TiledAt
  <2>2. CASE b = act
    <3>1. at[o].seg = act <=> act <= o
      BY ActiveLast
    <3>2. hi = top
      BY <2>2, <1>3
    <3>3. o < hi
      BY <2>1, <3>2
    <3>4. at[o].seg = b <=> b <= o
      BY <2>2, <3>1
    <3> QED BY <3>3, <3>4
  <2>3. CASE b # act
    <3>1. ASSUME at[o].seg = b PROVE b <= o /\ o < hi
      <4>1. Home(dir, low, b, o)
        BY <3>1 DEF Tiled
      <4> QED BY <4>1, <2>3, <1>3, <1>4, <1>2 DEF Home
    <3>2. ASSUME b <= o, o < hi PROVE at[o].seg = b
      <4>1. \A c \in DOMAIN dir : c <= b \/ o < c
        BY <3>2, <2>1, <2>3, <1>1, <1>3, <1>4
      <4>2. Home(dir, low, b, o)
        BY <3>2, <4>1 DEF Home
      <4> QED BY <4>2, HomeIs
    <3> QED BY <3>1, <3>2
  <2> QED BY <2>2, <2>3
<1> DEFINE P(o) == IF o = b THEN 0 ELSE End(at[o - 1])
<1>6. ASSUME NEW o \in b .. hi - 1
      PROVE  /\ o \in low .. top - 1 /\ o \in Nat /\ at[o].seg = b /\ at[o].pos = P(o)
             /\ dir[b][P(o) + 1].size = at[o].len
             /\ ~ Stops(dir[b], P(o) + 1)
  <2>1. o \in low .. top - 1 /\ o \in Nat /\ b <= o /\ o < hi
    BY <1>1, <1>2, <1>4
  <2>2. at[o].seg = b
    BY <2>1, <1>5
  <2>3. at[o].pos = P(o)
    <3>1. CASE o = b
      BY <2>1, <3>1 DEF Tiled
    <3>2. CASE o # b
      <4>1. o \notin DOMAIN dir
        <5>1. CASE b = act
          BY <5>1, <2>1, <3>2, <1>1
        <5>2. CASE b # act
          BY <5>2, <2>1, <3>2, <1>1, <1>2, <1>3, <1>4
        <5> QED BY <5>1, <5>2
      <4> QED BY <2>1, <3>2, <4>1 DEF Tiled
    <3> QED BY <3>1, <3>2
  <2>4. PICK p, l : p = at[o].pos /\ l = at[o].len
    OBVIOUS
  <2>5. p \in Nat /\ l \in Nat \ {0} /\ p + l <= Len(dir[b]) /\ l \in Sizes
    <3>1. at[o] \in Entry /\ End(at[o]) <= Len(dir[b])
      BY <2>1, <2>2, TiledAt
    <3> QED BY <3>1, <2>4, EntryEnd
  <2>6. FrameAt(dir[b], at[o])
    BY <2>1, <2>2 DEF Tiled
  <2>7. 1 \in 1 .. l
    BY <2>5
  <2>8. dir[b][p + 1] = [tkt |-> dir[b][p + 1].tkt, size |-> l, part |-> 1]
    BY <2>4, <2>6, <2>7 DEF FrameAt
  <2>9. dir[b][p + 1].part = 1 /\ dir[b][p + 1].size = l
    BY <2>8
  <2>10. l <= MaxRecoverable /\ MaxRecoverable \in Nat
    BY <2>5, WalSegmentsAssumption
  <2>11. ~ Stops(dir[b], p + 1)
    BY <2>5, <2>9, <2>10, <1>2 DEF Stops
  <2> HIDE DEF P
  <2>12. P(o) = p
    BY <2>3, <2>4
  <2> QED BY <2>1, <2>2, <2>3, <2>4, <2>9, <2>11, <2>12
<1>7. Stops(dir[b], P(hi) + 1) /\ (b # act => P(hi) = Len(dir[b]))
  <2>1. CASE b # act
    <3>1. hi # b /\ hi - 1 \in b .. hi - 1 /\ hi \in DOMAIN dir /\ (hi - 1) + 1 = hi
      BY <2>1, <1>2, <1>3, <1>4
    <3>2. hi - 1 \in low .. top - 1 /\ at[hi - 1].seg = b
      BY <3>1, <1>6
    <3>3. End(at[hi - 1]) = Len(dir[b])
      BY <3>1, <3>2 DEF Tiled
    <3>4. P(hi) = Len(dir[b])
      BY <3>1, <3>3
    <3> QED BY <3>4, <1>2 DEF Stops
  <2>2. CASE b = act
    <3>0. b = act => hi = top
      BY <1>3
    <3>1. hi = top
      <4> HIDE DEF P
      <4> QED BY <2>2, <3>0
    <3>2. P(hi) = ValidTo(at, top, act)
      BY <2>2, <3>1 DEF ValidTo
    <3>3. PICK v : v = P(hi)
      OBVIOUS
    <3>4. v \in Nat /\ v <= Len(dir[b])
      BY <2>2, <3>2, <3>3, ValidToIs
    <3>5. v < Len(dir[b]) => dir[b][v + 1].size > Len(dir[b]) - v
      BY <2>2, <3>2, <3>3 DEF Torn
    <3>6. v < Len(dir[b]) => dir[b][v + 1].size \in Nat
      <4>1. ASSUME v < Len(dir[b]) PROVE dir[b][v + 1] \in Byte
        <5>1. v + 1 \in 1 .. Len(dir[b])
          BY <4>1, <3>4, <1>2
        <5> QED BY <5>1, <1>2
      <4> QED BY <4>1, WalSegmentsAssumption DEF Byte
    <3>7. Stops(dir[b], v + 1)
      <4>1. CASE v < Len(dir[b])
        BY <4>1, <3>4, <3>5, <3>6, <1>2 DEF Stops
      <4>2. CASE ~ (v < Len(dir[b]))
        BY <4>2, <3>4, <1>2 DEF Stops
      <4> QED BY <4>1, <4>2
    <3> HIDE DEF P
    <3> QED BY <2>2, <3>3, <3>7
  <2> QED BY <2>1, <2>2
<1>8. PICK es : es = RecoverSegment(b, dir[b])
  OBVIOUS
<1>9. /\ es \in Seq([off : Nat, seg : {b}, pos : Nat, len : Sizes])
      /\ Recovered(es, b, dir[b])
  BY <1>2, <1>8, RecoverSegmentShape
<1>10. Len(es) \in Nat
  BY <1>9
<1> DEFINE S == {i \in Nat : i <= Len(es) =>
                    b + i <= hi /\ \A j \in 1 .. i : es[j] = at[b + j - 1]}
<1>11. 0 \in S
  BY <1>2, <1>4
<1>12. ASSUME NEW i \in S PROVE i + 1 \in S
  <2> SUFFICES ASSUME i + 1 <= Len(es)
               PROVE  b + (i + 1) <= hi /\ \A j \in 1 .. i + 1 : es[j] = at[b + j - 1]
    OBVIOUS
  <2>1. i \in Nat /\ i <= Len(es) /\ b + i <= hi /\ \A j \in 1 .. i : es[j] = at[b + j - 1]
    BY <1>10
  <2>2. i + 1 \in 1 .. Len(es)
    BY <2>1, <1>10
  <2>3. /\ es[i + 1].off = b + (i + 1) - 1 /\ es[i + 1].seg = b
        /\ es[i + 1] \in [off : Nat, seg : {b}, pos : Nat, len : Sizes]
        /\ ~ Stops(dir[b], es[i + 1].pos + 1)
        /\ es[i + 1].len = dir[b][es[i + 1].pos + 1].size
    BY <2>2, <1>9 DEF Recovered
  <2>4. es[i + 1].pos = P(b + i)
    <3>1. CASE i = 0
      <4>1. es # <<>> /\ i + 1 = 1 /\ b + i = b
        BY <3>1, <2>2, <1>2, <1>10
      <4>2. es[1].pos = 0
        BY <4>1, <1>9 DEF Recovered
      <4> QED BY <4>1, <4>2
    <3>2. CASE i # 0
      <4>1. i + 1 \in 2 .. Len(es) /\ (i + 1) - 1 = i /\ i \in 1 .. i
        BY <3>2, <2>1, <2>2
      <4>2. es[i + 1].pos = End(es[i])
        BY <4>1, <1>9 DEF Recovered
      <4>3. b + i # b
        BY <3>2, <2>1, <1>2
      <4>4. es[i] = at[b + i - 1]
        BY <4>1, <2>1
      <4>5. P(b + i) = End(at[(b + i) - 1])
        BY <4>3
      <4>6. (b + i) - 1 = b + i - 1
        BY <2>1, <1>2
      <4> HIDE DEF P
      <4> QED BY <4>2, <4>4, <4>5, <4>6
    <3> QED BY <3>1, <3>2
  <2>5. b + i # hi
    <3> HIDE DEF P
    <3> QED BY <2>3, <2>4, <1>7
  <2>6. b + i \in b .. hi - 1
    <3>1. PICK z : z = b + i
      OBVIOUS
    <3>2. z \in Nat /\ b <= z /\ z <= hi /\ z # hi
      BY <3>1, <2>1, <2>5, <1>2
    <3>3. z \in b .. hi - 1
      BY <3>2, <1>2, <1>4
    <3> QED BY <3>1, <3>3
  <2>7. /\ b + i \in low .. top - 1 /\ at[b + i].seg = b /\ at[b + i].pos = P(b + i)
        /\ dir[b][P(b + i) + 1].size = at[b + i].len
    <3> HIDE DEF P
    <3> QED BY <2>6, <1>6
  <2>8. at[b + i] \in Entry /\ at[b + i].off = b + i
    BY <2>7 DEF Tiled
  <2>9. b + (i + 1) - 1 = b + i
    BY <2>1, <1>2
  <2>10. es[i + 1].len = at[b + i].len /\ es[i + 1].pos = at[b + i].pos
    <3> HIDE DEF P
    <3> QED BY <2>3, <2>4, <2>7
  <2>11. es[i + 1] = at[b + i]
    <3>1. PICK x, y : x = es[i + 1] /\ y = at[b + i]
      OBVIOUS
    <3>2. /\ x.off = y.off /\ x.seg = y.seg /\ x.pos = y.pos /\ x.len = y.len
          /\ x \in [off : Nat, seg : {b}, pos : Nat, len : Sizes] /\ y \in Entry
      BY <2>3, <2>7, <2>8, <2>9, <2>10, <3>1
    <3>3. x = [off |-> x.off, seg |-> x.seg, pos |-> x.pos, len |-> x.len]
      BY <3>2
    <3>4. y = [off |-> y.off, seg |-> y.seg, pos |-> y.pos, len |-> y.len]
      BY <3>2 DEF Entry
    <3> QED BY <3>1, <3>2, <3>3, <3>4
  <2>12. b + (i + 1) <= hi
    BY <2>1, <2>5, <1>2, <1>4
  <2>13. ASSUME NEW j \in 1 .. i + 1 PROVE es[j] = at[b + j - 1]
    <3>1. j \in 1 .. i \/ j = i + 1
      BY <2>1
    <3> QED BY <3>1, <2>1, <2>9, <2>11
  <2> QED BY <2>12, <2>13
<1>13. b + Len(es) <= hi /\ \A j \in 1 .. Len(es) : es[j] = at[b + j - 1]
  <2>1. S \in SUBSET Nat
    OBVIOUS
  <2>2. Len(es) \in S
    <3> HIDE DEF S
    <3> QED BY <1>10, <1>11, <1>12, <2>1, Upward
  <2> QED BY <2>2, <1>10
<1>14. b + Len(es) = hi
  <2> SUFFICES ASSUME b + Len(es) # hi PROVE FALSE
    OBVIOUS
  <2>1. b + Len(es) \in b .. hi - 1
    BY <1>2, <1>4, <1>10, <1>13
  <2>2. ValidEnd(es) = P(b + Len(es))
    <3>1. CASE Len(es) = 0
      <4>1. es = <<>> /\ b + Len(es) = b
        BY <3>1, <1>9, <1>2
      <4> QED BY <4>1 DEF ValidEnd
    <3>2. CASE Len(es) # 0
      <4>1. es # <<>> /\ Len(es) \in 1 .. Len(es) /\ b + Len(es) # b
        BY <3>2, <1>9, <1>10, <1>2
      <4>2. es[Len(es)] = at[b + Len(es) - 1]
        BY <4>1, <1>13
      <4>3. ValidEnd(es) = End(es[Len(es)])
        BY <4>1 DEF ValidEnd
      <4>4. P(b + Len(es)) = End(at[(b + Len(es)) - 1])
        BY <4>1
      <4>5. (b + Len(es)) - 1 = b + Len(es) - 1
        BY <1>2, <1>10
      <4> HIDE DEF P
      <4> QED BY <4>2, <4>3, <4>4, <4>5
    <3> QED BY <3>1, <3>2
  <2>3. Stops(dir[b], ValidEnd(es) + 1)
    BY <1>9 DEF Recovered
  <2>4. ~ Stops(dir[b], P(b + Len(es)) + 1)
    <3> HIDE DEF P
    <3> QED BY <2>1, <1>6
  <2> HIDE DEF P
  <2> QED BY <2>2, <2>3, <2>4
<1>15. Len(es) = hi - b /\ \A i \in 1 .. hi - b : es[i] = at[b + i - 1]
  BY <1>2, <1>4, <1>10, <1>13, <1>14
<1>16. ASSUME b # act PROVE End(at[hi - 1]) = Len(dir[b])
  <2>1. hi # b
    BY <1>16, <1>2, <1>3, <1>4
  <2> QED BY <2>1, <1>16, <1>7
<1> QED
  BY <1>3, <1>5, <1>8, <1>15, <1>16


-----------------------------------------------------------------------------
(* The index of a directory that is tiled *)

\* The sequence es is pre and then the entries of the offsets low to q - 1.
Joined(es, pre, at, low, q) ==
  /\ Len(es) = Len(pre) + (q - low)
  /\ \A i \in 1 .. Len(pre) : es[i] = pre[i]
  /\ \A o \in low .. q - 1 : es[Len(pre) + (o - low) + 1] = at[o]

\* What the segments below low hold: there is none, or one.
Front(pre, dir, low) ==
  /\ (\A c \in DOMAIN dir : low <= c) => pre = <<>>
  /\ \A s \in DOMAIN dir : s < low =>
       /\ pre = RecoverSegment(s, dir[s])
       /\ \A c \in DOMAIN dir : c < low => c = s

\* The entries of one more segment are added to an index.
LEMMA JoinedMore ==
  ASSUME NEW S, NEW es \in Seq(S), NEW pre \in Seq(S), NEW at, NEW low \in Nat, NEW b \in Nat,
         low <= b, Joined(es, pre, at, low, b),
         NEW xs \in Seq(S), NEW hi \in Nat, b <= hi, Len(xs) = hi - b,
         \A i \in 1 .. hi - b : xs[i] = at[b + i - 1]
  PROVE  Joined(es \o xs, pre, at, low, hi)
<1>1. PICK ys : ys = es \o xs
  OBVIOUS
<1>2. PICK n : n = Len(pre)
  OBVIOUS
<1>3. n \in Nat /\ Len(es) \in Nat /\ Len(xs) \in Nat /\ Len(es) = n + (b - low)
  BY <1>2 DEF Joined
<1>4. /\ Len(ys) = Len(es) + Len(xs)
      /\ \A i \in 1 .. Len(es) : ys[i] = es[i]
      /\ \A i \in 1 .. Len(xs) : ys[Len(es) + i] = xs[i]
  <2>1. Len(ys) = Len(es) + Len(xs)
    BY <1>1, ConcatProperties
  <2>2. \A i \in 1 .. Len(ys) : ys[i] = IF i <= Len(es) THEN es[i] ELSE xs[i - Len(es)]
    BY <1>1, <2>1, ConcatProperties
  <2>3. ASSUME NEW i \in 1 .. Len(es) PROVE ys[i] = es[i]
    <3>1. i \in 1 .. Len(ys) /\ i <= Len(es)
      BY <1>3, <2>1
    <3> QED BY <3>1, <2>2
  <2>4. ASSUME NEW i \in 1 .. Len(xs) PROVE ys[Len(es) + i] = xs[i]
    <3>1. PICK l, u : l = Len(es) /\ u = Len(xs)
      OBVIOUS
    <3>2. l \in Nat /\ u \in Nat /\ i \in 1 .. u /\ Len(ys) = l + u
      BY <3>1, <1>3, <2>1
    <3>3. l + i \in 1 .. l + u /\ ~ (l + i <= l) /\ (l + i) - l = i
      BY <3>2
    <3> QED BY <3>1, <3>2, <3>3, <2>2
  <2> QED BY <2>1, <2>3, <2>4
<1>5. Len(ys) = n + (hi - low)
  BY <1>3, <1>4
<1>6. ASSUME NEW i \in 1 .. n PROVE ys[i] = pre[i]
  <2>1. i \in 1 .. Len(es)
    BY <1>3
  <2>2. es[i] = pre[i]
    BY <1>2 DEF Joined
  <2> QED BY <2>1, <2>2, <1>4
<1>7. ASSUME NEW o \in low .. hi - 1 PROVE ys[n + (o - low) + 1] = at[o]
  <2>1. CASE o < b
    <3>1. o \in low .. b - 1 /\ n + (o - low) + 1 \in 1 .. Len(es)
      BY <2>1, <1>3
    <3>2. es[n + (o - low) + 1] = at[o]
      BY <3>1, <1>2 DEF Joined
    <3> QED BY <3>1, <3>2, <1>4
  <2>2. CASE ~ (o < b)
    <3>1. PICK i : i = (o - b) + 1
      OBVIOUS
    <3>2. /\ i \in 1 .. hi - b /\ i \in 1 .. Len(xs) /\ b + i - 1 = o
          /\ n + (o - low) + 1 = Len(es) + i
      BY <2>2, <3>1, <1>3
    <3>3. xs[i] = at[o]
      BY <3>2
    <3> QED BY <3>2, <3>3, <1>4
  <2> QED BY <2>1, <2>2
<1> QED
  BY <1>1, <1>2, <1>5, <1>6, <1>7 DEF Joined

\* A start finds what at says, behind what the segments below low hold.
LEMMA IndexIs ==
  ASSUME NEW dir, Directory(dir), NEW at, NEW low, NEW top, NEW act,
         Tiled(at, low, top, dir, act), Torn(dir[act], ValidTo(at, top, act)),
         \A z \in Sizes : z <= MaxRecoverable, NEW pre, Front(pre, dir, low)
  PROVE  /\ Index(dir) \in Seq(Entry) /\ pre \in Seq(Entry)
         /\ Joined(Index(dir), pre, at, low, top)
<1> DEFINE f == CHOOSE f : Gathers(f, dir, act)
<1>0. /\ low \in Nat /\ act \in Nat /\ top \in Nat /\ low <= act /\ act <= top
      /\ low \in DOMAIN dir /\ act \in DOMAIN dir /\ DOMAIN dir \in SUBSET Nat
      /\ \A c \in DOMAIN dir : c <= act
  BY TiledNat
<1>1. Max(DOMAIN dir) = act
  BY <1>0, MaxIs
<1>2. Index(dir) = f[act]
  BY <1>1 DEF Index, Gathers
<1>3. Gathers(f, dir, act)
  BY <1>0, GatherExists
<1> HIDE DEF f
<1> DEFINE own(n) == IF n \in DOMAIN dir THEN RecoverSegment(n, dir[n]) ELSE <<>>
<1>4. f[0] = <<>> \o own(0) /\ \A n \in 1 .. act : f[n] = f[n - 1] \o own(n)
  <2>1. f = [b \in 0 .. act |-> (IF b = 0 THEN <<>> ELSE f[b - 1]) \o own(b)]
    BY <1>3 DEF Gathers
  <2> HIDE DEF own
  <2>2. 0 \in 0 .. act /\ \A n \in 1 .. act : n \in 0 .. act /\ n # 0
    BY <1>0
  <2> QED BY <2>1, <2>2
<1>5. ASSUME NEW n \in DOMAIN dir PROVE own(n) = RecoverSegment(n, dir[n]) /\ own(n) \in Seq(Entry)
  <2>1. n \in Nat /\ dir[n] \in Seq(Byte)
    BY <1>0 DEF Directory
  <2>2. PICK xs : xs = RecoverSegment(n, dir[n])
    OBVIOUS
  <2> DEFINE R == [off : Nat, seg : {n}, pos : Nat, len : Sizes]
  <2>3. xs \in Seq(R)
    BY <2>1, <2>2, RecoverSegmentShape
  <2>4. \A r \in R : r \in Entry
    BY <2>1 DEF Entry
  <2> HIDE DEF R
  <2>5. xs \in Seq(Entry)
    BY <2>3, <2>4
  <2> QED BY <2>2, <2>5
<1>6. ASSUME NEW n, n \notin DOMAIN dir PROVE own(n) = <<>>
  BY <1>6
<1> HIDE DEF own
<1>7. pre \in Seq(Entry)
  <2>1. CASE \A c \in DOMAIN dir : low <= c
    <3>1. pre = <<>>
      BY <2>1 DEF Front
    <3> QED BY <3>1
  <2>2. CASE ~ \A c \in DOMAIN dir : low <= c
    <3>1. PICK s \in DOMAIN dir : s < low
      BY <2>2, <1>0
    <3> QED BY <3>1, <1>5 DEF Front
  <2> QED BY <2>1, <2>2
<1> DEFINE T == {n \in Nat : n < low =>
                   f[n] = IF \E s \in DOMAIN dir : s <= n THEN pre ELSE <<>>}
<1>8. 0 \in T
  <2> SUFFICES ASSUME 0 < low
               PROVE  f[0] = IF \E s \in DOMAIN dir : s <= 0 THEN pre ELSE <<>>
    OBVIOUS
  <2>1. CASE 0 \in DOMAIN dir
    <3>1. own(0) = pre
      BY <2>1, <1>5 DEF Front
    <3>2. <<>> \o pre = pre
      BY <1>7
    <3> QED BY <2>1, <3>1, <3>2, <1>4
  <2>2. CASE 0 \notin DOMAIN dir
    <3>1. ~ \E s \in DOMAIN dir : s <= 0
      BY <2>2, <1>0
    <3>2. <<>> \o <<>> = <<>>
      OBVIOUS
    <3> QED BY <2>2, <3>1, <3>2, <1>4, <1>6
  <2> QED BY <2>1, <2>2
<1>9. ASSUME NEW n \in T PROVE n + 1 \in T
  <2> SUFFICES ASSUME n + 1 < low
               PROVE  f[n + 1] = IF \E s \in DOMAIN dir : s <= n + 1 THEN pre ELSE <<>>
    OBVIOUS
  <2>1. n \in Nat /\ n < low /\ n + 1 \in 1 .. act /\ (n + 1) - 1 = n
    BY <1>0
  <2>2. f[n] = IF \E s \in DOMAIN dir : s <= n THEN pre ELSE <<>>
    BY <2>1
  <2>3. f[n + 1] = f[n] \o own(n + 1)
    BY <2>1, <1>4
  <2>4. CASE n + 1 \in DOMAIN dir
    <3>1. own(n + 1) = pre /\ \A c \in DOMAIN dir : c < low => c = n + 1
      BY <2>4, <1>5 DEF Front
    <3>2. ~ \E s \in DOMAIN dir : s <= n
      BY <3>1, <2>1, <1>0
    <3>3. <<>> \o pre = pre
      BY <1>7
    <3> QED BY <2>2, <2>3, <2>4, <3>1, <3>2, <3>3, <2>1
  <2>5. CASE n + 1 \notin DOMAIN dir
    <3>1. (\E s \in DOMAIN dir : s <= n + 1) <=> (\E s \in DOMAIN dir : s <= n)
      BY <2>5, <2>1, <1>0
    <3>2. own(n + 1) = <<>>
      BY <2>5, <1>6
    <3>3. pre \o <<>> = pre /\ <<>> \o <<>> = <<>>
      BY <1>7
    <3> QED BY <2>2, <2>3, <3>1, <3>2, <3>3
  <2> QED BY <2>4, <2>5
<1>10. T = Nat
  <2>1. T \in SUBSET Nat
    OBVIOUS
  <2> HIDE DEF T
  <2> QED BY <1>8, <1>9, <2>1, Upward
<1>11. f[low] = pre \o own(low)
  <2>1. CASE low = 0
    <3>1. pre = <<>>
      BY <2>1, <1>0 DEF Front
    <3> QED BY <2>1, <3>1, <1>4
  <2>2. CASE low # 0
    <3>1. low - 1 \in Nat /\ low - 1 < low /\ low \in 1 .. act
      BY <2>2, <1>0
    <3>2. f[low - 1] = IF \E s \in DOMAIN dir : s <= low - 1 THEN pre ELSE <<>>
      BY <3>1, <1>10
    <3>3. (\E s \in DOMAIN dir : s <= low - 1) \/ pre = <<>>
      <4>1. CASE \A c \in DOMAIN dir : low <= c
        BY <4>1 DEF Front
      <4>2. CASE ~ \A c \in DOMAIN dir : low <= c
        BY <4>2, <3>1, <1>0
      <4> QED BY <4>1, <4>2
    <3>4. f[low - 1] = pre
      BY <3>2, <3>3
    <3> QED BY <3>1, <3>4, <1>4
  <2> QED BY <2>1, <2>2
<1> HIDE DEF T
<1> DEFINE Sofar(n) == \E q \in low .. top :
                         /\ \A o \in low .. top - 1 : o < q <=> at[o].seg <= n
                         /\ f[n] \in Seq(Entry) /\ Joined(f[n], pre, at, low, q)
<1>12. ASSUME NEW b \in DOMAIN dir, low <= b, NEW es \in Seq(Entry), Joined(es, pre, at, low, b),
              f[b] = es \o own(b)
       PROVE  Sofar(b)
  <2>1. b \in Nat /\ b <= top
    BY <1>0
  <2>2. PICK xs : xs = RecoverSegment(b, dir[b])
    OBVIOUS
  <2>3. own(b) = xs /\ xs \in Seq(Entry)
    BY <2>2, <1>5
  <2>4. PICK hi \in b .. top :
           /\ \A o \in low .. top - 1 : at[o].seg = b <=> b <= o /\ o < hi
           /\ Len(xs) = hi - b
           /\ \A i \in 1 .. hi - b : xs[i] = at[b + i - 1]
    BY <1>12, <2>2, SegmentIs
  <2>5. hi \in Nat /\ b <= hi /\ hi \in low .. top
    BY <2>1, <1>0, <1>12
  <2>6. Joined(f[b], pre, at, low, hi)
    <3>1. Joined(es, pre, at, low, b) /\ low <= b /\ es \in Seq(Entry)
      BY <1>12
    <3>2. low \in Nat /\ b \in Nat /\ hi \in Nat /\ b <= hi /\ xs \in Seq(Entry)
          /\ pre \in Seq(Entry)
      BY <1>0, <1>7, <2>1, <2>3, <2>5
    <3>3. Len(xs) = hi - b /\ \A i \in 1 .. hi - b : xs[i] = at[b + i - 1]
      BY <2>4
    <3>4. Joined(es \o xs, pre, at, low, hi)
      BY <3>1, <3>2, <3>3, JoinedMore
    <3>5. f[b] = es \o xs
      BY <1>12, <2>3
    <3> QED BY <3>4, <3>5
  <2>7. f[b] \in Seq(Entry)
    BY <1>12, <2>3
  <2>8. ASSUME NEW o \in low .. top - 1 PROVE o < hi <=> at[o].seg <= b
    <3>1. o \in Nat /\ at[o].seg \in Nat /\ at[o].seg <= o
      BY TiledAt
    <3>2. b <= at[o].seg \/ o < b
      <4>1. Home(dir, low, at[o].seg, o)
        BY DEF Tiled
      <4> QED BY <4>1 DEF Home
    <3>3. at[o].seg = b <=> b <= o /\ o < hi
      BY <2>4
    <3> QED BY <3>1, <3>2, <3>3, <2>1, <2>5
  <2> QED BY <2>5, <2>6, <2>7, <2>8
<1> DEFINE U == {n \in Nat : low + n <= act => Sofar(low + n)}
<1>13. 0 \in U
  <2>1. Joined(pre, pre, at, low, low)
    BY <1>0, <1>7 DEF Joined
  <2>2. Sofar(low)
    <3>1. low \in DOMAIN dir /\ low <= low
      BY <1>0
    <3> HIDE DEF Sofar
    <3> QED BY <2>1, <3>1, <1>7, <1>11, <1>12
  <2>3. low + 0 = low
    BY <1>0
  <2> HIDE DEF Sofar
  <2> QED BY <2>2, <2>3
<1>14. ASSUME NEW n \in U PROVE n + 1 \in U
  <2> SUFFICES ASSUME low + (n + 1) <= act PROVE Sofar(low + (n + 1))
    OBVIOUS
  <2>1. PICK b : b = low + (n + 1)
    OBVIOUS
  <2>2. n \in Nat /\ b \in Nat /\ b \in 1 .. act /\ b - 1 = low + n /\ low + n <= act /\ low < b
    BY <2>1, <1>0
  <2>3. Sofar(b - 1)
    <3> HIDE DEF Sofar
    <3> QED BY <2>2
  <2>4. PICK q \in low .. top : /\ \A o \in low .. top - 1 : o < q <=> at[o].seg <= b - 1
                                /\ f[b - 1] \in Seq(Entry) /\ Joined(f[b - 1], pre, at, low, q)
    BY <2>3
  <2>5. f[b] = f[b - 1] \o own(b)
    BY <2>2, <1>4
  <2>6. CASE b \in DOMAIN dir
    <3>1. ASSUME NEW o \in low .. top - 1 PROVE o < q <=> o < b
      <4>1. o \in Nat /\ at[o].seg \in Nat /\ at[o].seg <= o
        BY TiledAt
      <4>2. b <= at[o].seg \/ o < b
        <5>1. Home(dir, low, at[o].seg, o)
          BY DEF Tiled
        <5> QED BY <5>1, <2>6 DEF Home
      <4>3. o < q <=> at[o].seg <= b - 1
        BY <2>4
      <4> QED BY <4>1, <4>2, <4>3, <2>2
    <3>2. b \in low .. top /\ q \in Nat
      BY <2>2, <1>0
    <3>3. q = b
      <4>1. CASE q < b
        <5>1. q \in low .. top - 1
          BY <4>1, <3>2, <1>0
        <5> QED BY <5>1, <4>1, <3>1, <3>2
      <4>2. CASE b < q
        <5>1. b \in low .. top - 1
          BY <4>2, <3>2, <1>0
        <5> QED BY <5>1, <4>2, <3>1, <2>2
      <4> QED BY <4>1, <4>2, <3>2, <2>2
    <3>4. Joined(f[b - 1], pre, at, low, b)
      BY <2>4, <3>3
    <3>5. Sofar(b)
      <4>1. low <= b /\ f[b - 1] \in Seq(Entry)
        BY <2>4, <3>2
      <4> HIDE DEF Sofar
      <4> QED BY <2>5, <2>6, <3>4, <4>1, <1>12
    <3> HIDE DEF Sofar
    <3> QED BY <3>5, <2>1
  <2>7. CASE b \notin DOMAIN dir
    <3>1. f[b] = f[b - 1]
      <4>1. own(b) = <<>>
        BY <2>7, <1>6
      <4>2. \A es \in Seq(Entry) : es \o <<>> = es
        OBVIOUS
      <4> QED BY <4>1, <4>2, <2>4, <2>5
    <3>2. ASSUME NEW o \in low .. top - 1 PROVE at[o].seg <= b <=> at[o].seg <= b - 1
      <4>1. at[o].seg \in Nat /\ at[o].seg \in DOMAIN dir
        BY TiledAt
      <4> QED BY <4>1, <2>2, <2>7
    <3>3. Sofar(b)
      BY <2>4, <3>1, <3>2
    <3> HIDE DEF Sofar
    <3> QED BY <3>3, <2>1
  <2> QED BY <2>6, <2>7
<1>15. U = Nat
  <2>1. U \in SUBSET Nat
    OBVIOUS
  <2> HIDE DEF U
  <2> QED BY <1>13, <1>14, <2>1, Upward
<1>16. Sofar(act)
  <2>1. act - low \in Nat /\ low + (act - low) = act
    BY <1>0
  <2>2. act - low \in U
    BY <1>15, <2>1
  <2>3. low + (act - low) <= act
    BY <2>1, <1>0
  <2> HIDE DEF Sofar
  <2> QED BY <2>1, <2>2, <2>3
<1>17. PICK q \in low .. top : /\ \A o \in low .. top - 1 : o < q <=> at[o].seg <= act
                               /\ f[act] \in Seq(Entry) /\ Joined(f[act], pre, at, low, q)
  BY <1>16
<1>18. q = top
  <2> SUFFICES ASSUME q # top PROVE FALSE
    OBVIOUS
  <2>1. q \in low .. top - 1
    BY <1>0
  <2>2. at[q].seg <= act
    BY <2>1, TiledAt
  <2>3. q < q
    BY <2>1, <2>2, <1>17
  <2> QED BY <2>1, <2>3, <1>0
<1> QED
  BY <1>2, <1>7, <1>17, <1>18


-----------------------------------------------------------------------------
(* Pruning an index that is tiled *)

\* The last entry of the segment of entry i decides.
Decides(recs, chk, act, i, m) ==
  /\ m \in 1 .. Len(recs) /\ recs[m].seg = recs[i].seg
  /\ \A j \in 1 .. Len(recs) : recs[j].seg = recs[i].seg => j <= m
  /\ Done(recs, chk, act, i) <=> recs[i].seg # act /\ recs[m].off < chk

LEMMA DoneByLast ==
  ASSUME NEW recs \in Seq(Entry), NEW chk, NEW act, NEW i \in 1 .. Len(recs)
  PROVE  \E m : Decides(recs, chk, act, i, m)
<1> DEFINE S == {j \in DOMAIN recs : recs[j].seg = recs[i].seg}
<1>1. DOMAIN recs = 1 .. Len(recs) /\ Len(recs) \in Nat
  OBVIOUS
<1>2. PICK m : m = Max(S)
  OBVIOUS
<1>3. Done(recs, chk, act, i) <=> recs[i].seg # act /\ recs[m].off < chk
  BY <1>2 DEF Done
<1>4. S \in SUBSET Nat /\ i \in S /\ \A j \in S : j <= Len(recs)
  BY <1>1
<1>5. m \in S /\ \A j \in S : j <= m
  <2> HIDE DEF S
  <2>1. S # {}
    BY <1>4
  <2> QED BY <2>1, <1>1, <1>2, <1>4, MaxBounded
<1>6. Decides(recs, chk, act, i, m)
  BY <1>1, <1>3, <1>5 DEF Decides
<1> QED
  BY <1>6

\* What pruneCommittedSegments drops are whole segments, up to the base offset of
\* one that stays.
PruneEnds(dir, at, low, top, act, recs, pre, chk, base, c) ==
  /\ c \in DOMAIN dir /\ low <= c /\ (c = low \/ c <= chk)
  /\ Kept(recs, chk, act) \in Seq(Entry)
  /\ Joined(Kept(recs, chk, act), <<>>, at, c, top)
  /\ BaseAfter(base, recs, chk, act) = c
  /\ \A b \in DOMAIN dir : low <= b => (b \in Dropped(recs, chk, act) <=> b < c)
  /\ \A b \in DOMAIN dir : b < low =>
       (b \in Dropped(recs, chk, act) <=> \E i \in 1 .. Len(pre) : pre[i].seg = b)

LEMMA PrunedIs ==
  ASSUME NEW dir, Directory(dir), NEW at, NEW low, NEW top, NEW act,
         Tiled(at, low, top, dir, act),
         NEW recs \in Seq(Entry), NEW pre \in Seq(Entry), Joined(recs, pre, at, low, top),
         NEW chk \in Nat, \A i \in 1 .. Len(pre) : pre[i].seg < low /\ pre[i].off < chk,
         NEW base, base = low \/ Len(pre) > 0
  PROVE  \E c : PruneEnds(dir, at, low, top, act, recs, pre, chk, base, c)
<1>1. /\ low \in Nat /\ act \in Nat /\ top \in Nat /\ low <= act /\ act <= top
      /\ low \in DOMAIN dir /\ act \in DOMAIN dir /\ DOMAIN dir \in SUBSET Nat
      /\ \A c \in DOMAIN dir : c <= act
  BY TiledNat
<1>2. PICK n : n = Len(pre)
  OBVIOUS
<1>3. n \in Nat /\ Len(recs) \in Nat /\ Len(recs) = n + (top - low)
  BY <1>2 DEF Joined
<1>4. ASSUME NEW i \in 1 .. n
      PROVE  /\ recs[i].seg < low /\ recs[i].off < chk /\ recs[i].seg \in Nat
             /\ recs[i].seg = pre[i].seg
  <2>1. recs[i] = pre[i] /\ pre[i].seg < low /\ pre[i].off < chk
    BY <1>2 DEF Joined
  <2>2. pre[i] \in Entry
    BY <1>2
  <2> QED BY <2>1, <2>2, EntryEnd
<1>5. ASSUME NEW o \in low .. top - 1
      PROVE  /\ recs[n + (o - low) + 1] = at[o] /\ n + (o - low) + 1 \in n + 1 .. Len(recs)
             /\ at[o].off = o /\ at[o].seg \in DOMAIN dir
             /\ low <= at[o].seg /\ at[o].seg <= o /\ o \in Nat /\ at[o].seg \in Nat
  <2>1. recs[n + (o - low) + 1] = at[o]
    BY <1>2 DEF Joined
  <2>2. n + (o - low) + 1 \in n + 1 .. Len(recs)
    BY <1>1, <1>3
  <2>3. at[o].off = o
    BY DEF Tiled
  <2> QED BY <2>1, <2>2, <2>3, TiledAt
<1>6. ASSUME NEW i \in n + 1 .. Len(recs)
      PROVE  \E o \in low .. top - 1 : i = n + (o - low) + 1 /\ recs[i] = at[o]
  <2>1. PICK o : o = low + ((i - n) - 1)
    OBVIOUS
  <2>2. i \in Int /\ n < i /\ i <= n + (top - low)
    BY <1>3
  <2>3. o \in Int /\ low <= o /\ o <= top - 1
    BY <2>1, <2>2, <1>1, <1>3
  <2>4. i = n + (o - low) + 1
    BY <2>1, <2>2, <1>1, <1>3
  <2>5. o \in low .. top - 1
    BY <2>3, <1>1
  <2> QED BY <2>4, <2>5, <1>5
<1>7. PICK p : p = Pruned(recs, chk, act)
  OBVIOUS
<1>8. /\ p \in 0 .. Len(recs) /\ p \in Nat /\ p <= Len(recs)
      /\ \A i \in 1 .. p : Done(recs, chk, act, i)
      /\ p < Len(recs) => ~ Done(recs, chk, act, p + 1)
  <2>1. /\ p \in 0 .. Len(recs) /\ \A i \in 1 .. p : Done(recs, chk, act, i)
        /\ p < Len(recs) => ~ Done(recs, chk, act, p + 1)
    BY <1>1, <1>7, PrunedShape
  <2> QED BY <2>1, <1>3
<1>9. n <= p
  <2> SUFFICES ASSUME p < n PROVE FALSE
    BY <1>3, <1>8
  <2>1. p + 1 \in 1 .. n /\ p + 1 \in 1 .. Len(recs) /\ p < Len(recs)
    BY <1>1, <1>3, <1>8
  <2>2. PICK m \in 1 .. Len(recs) :
           /\ recs[m].seg = recs[p + 1].seg
           /\ Done(recs, chk, act, p + 1) <=> recs[p + 1].seg # act /\ recs[m].off < chk
    <3>1. \E m : Decides(recs, chk, act, p + 1, m)
      BY <2>1, DoneByLast
    <3> QED BY <3>1 DEF Decides
  <2>3. recs[p + 1].seg < low /\ recs[p + 1].seg \in Nat
    BY <2>1, <1>4
  <2>4. m \in 1 .. n
    <3> SUFFICES ASSUME m \in n + 1 .. Len(recs) PROVE FALSE
      BY <1>3
    <3>1. PICK o \in low .. top - 1 : recs[m] = at[o]
      BY <1>6
    <3>2. low <= at[o].seg /\ at[o].seg \in Nat
      BY <1>5
    <3> QED BY <3>1, <3>2, <2>2, <2>3, <1>1
  <2>5. recs[m].off < chk
    BY <2>4, <1>4
  <2> QED BY <2>1, <2>2, <2>3, <2>5, <1>1, <1>8
<1>10. PICK c : c = low + (p - n)
  OBVIOUS
<1>11. /\ c \in Nat /\ low <= c /\ c <= top /\ p = n + (c - low)
       /\ c # top => c \in low .. top - 1 /\ p < Len(recs)
       /\ c # low => c - 1 \in low .. top - 1 /\ (c - 1) + 1 = c
                     /\ n + ((c - 1) - low) + 1 = p /\ p \in 1 .. p /\ p \in 1 .. Len(recs)
  BY <1>1, <1>3, <1>8, <1>9, <1>10
<1>12. ASSUME c # low PROVE at[c - 1].seg < act /\ c <= chk
  <2>1. c - 1 \in low .. top - 1 /\ recs[p] = at[c - 1] /\ Done(recs, chk, act, p)
    BY <1>12, <1>5, <1>8, <1>11
  <2>2. PICK m \in 1 .. Len(recs) :
           /\ recs[m].seg = recs[p].seg
           /\ \A j \in 1 .. Len(recs) : recs[j].seg = recs[p].seg => j <= m
           /\ Done(recs, chk, act, p) <=> recs[p].seg # act /\ recs[m].off < chk
    <3>1. p \in 1 .. Len(recs)
      BY <1>12, <1>11
    <3>2. \E m : Decides(recs, chk, act, p, m)
      BY <3>1, DoneByLast
    <3> QED BY <3>2 DEF Decides
  <2>3. p <= m
    BY <2>2, <1>11, <1>12
  <2>4. m \in n + 1 .. Len(recs)
    <3>1. p = n + (c - low) /\ c # low /\ low <= c /\ c \in Nat
      BY <1>11, <1>12
    <3>2. n < p
      BY <3>1, <1>1, <1>3
    <3> QED BY <3>2, <2>3, <1>3, <1>8
  <2>5. PICK o \in low .. top - 1 : m = n + (o - low) + 1 /\ recs[m] = at[o]
    BY <2>4, <1>6
  <2>6. at[o].off = o /\ o < chk /\ c - 1 <= o
    <3>1. at[o].off = o
      BY <1>5
    <3>2. o < chk
      BY <2>1, <2>2, <2>5, <3>1
    <3>3. c - 1 <= o
      BY <2>3, <2>5, <1>1, <1>3, <1>8, <1>11, <1>12
    <3> QED BY <3>1, <3>2, <3>3
  <2>7. at[c - 1].seg # act /\ at[c - 1].seg \in DOMAIN dir
    BY <2>1, <2>2, <1>5
  <2>8. at[c - 1].seg < act
    BY <2>7, <1>1
  <2>9. c <= chk
    BY <2>6, <1>1, <1>11
  <2> QED BY <2>8, <2>9
<1>13. c \in DOMAIN dir
  <2>1. CASE c = low
    BY <2>1, <1>1
  <2>2. CASE c # low /\ c = top
    <3>1. c - 1 \in low .. top - 1 /\ at[c - 1].seg < act
      BY <2>2, <1>11, <1>12
    <3>2. at[c - 1].seg < act <=> c - 1 < act
      BY <3>1, ActiveLast
    <3>3. c = act
      BY <3>1, <3>2, <2>2, <1>1
    <3> QED BY <3>3, <1>1
  <2>3. CASE c # low /\ c # top
    <3> SUFFICES ASSUME c \notin DOMAIN dir PROVE FALSE
      OBVIOUS
    <3>1. c - 1 \in low .. top - 1 /\ c \in low .. top - 1 /\ p < Len(recs)
      BY <2>3, <1>11
    <3>2. PICK s : s = at[c - 1].seg
      OBVIOUS
    <3>3. Home(dir, low, s, c - 1)
      BY <3>1, <3>2 DEF Tiled
    <3>4. Home(dir, low, s, c)
      BY <3>3, <1>1, <1>11 DEF Home
    <3>5. at[c].seg = s
      BY <3>1, <3>4, HomeIs
    <3>6. recs[p] = at[c - 1] /\ recs[p + 1] = at[c]
      <4>1. n + (c - low) + 1 = p + 1
        BY <1>3, <1>11, <1>1, <1>8
      <4> QED BY <4>1, <3>1, <2>3, <1>5, <1>11
    <3>7. recs[p].seg = recs[p + 1].seg
      BY <3>2, <3>5, <3>6
    <3>8. Done(recs, chk, act, p) <=> Done(recs, chk, act, p + 1)
      BY <3>7 DEF Done
    <3> QED BY <3>1, <3>8, <2>3, <1>8, <1>11
  <2> QED BY <2>1, <2>2, <2>3
<1>14. PICK ks : ks = Kept(recs, chk, act)
  OBVIOUS
<1>15. /\ ks \in Seq(Entry) /\ Len(ks) = Len(recs) - p
       /\ \A i \in 1 .. Len(recs) - p : ks[i] = recs[p + i]
  BY <1>1, <1>7, <1>14, KeptShape
<1>16. ASSUME NEW o \in c .. top - 1 PROVE ks[(o - c) + 1] = at[o]
  <2>1. PICK i : i = (o - c) + 1
    OBVIOUS
  <2>2. o \in low .. top - 1 /\ i \in 1 .. Len(recs) - p /\ p + i = n + (o - low) + 1
    BY <2>1, <1>1, <1>3, <1>8, <1>11
  <2>3. ks[i] = recs[p + i] /\ recs[n + (o - low) + 1] = at[o]
    BY <2>2, <1>5, <1>15
  <2> QED BY <2>1, <2>2, <2>3
<1>17. Joined(ks, <<>>, at, c, top)
  <2>1. Len(<<>>) = 0 /\ Len(ks) = top - c
    BY <1>3, <1>8, <1>11, <1>15, <1>1
  <2>2. \A o \in c .. top - 1 : 0 + (o - c) + 1 = (o - c) + 1
    BY <1>11, <1>1
  <2>3. Len(ks) = 0 + (top - c)
    BY <2>1, <1>1, <1>11
  <2> QED BY <2>1, <2>2, <2>3, <1>16 DEF Joined
<1>18. BaseAfter(base, recs, chk, act) = c
  <2>1. CASE p = 0
    <3>1. n = 0 /\ c = low
      BY <2>1, <1>3, <1>9, <1>10, <1>1
    <3>2. BaseAfter(base, recs, chk, act) = base
      BY <2>1, <1>7 DEF BaseAfter
    <3> QED BY <3>1, <3>2, <1>2
  <2>2. CASE p # 0 /\ ks = <<>>
    <3>1. c = top
      <4>1. Len(ks) = 0
        BY <2>2
      <4> QED BY <4>1, <1>1, <1>3, <1>8, <1>11, <1>15
    <3>2. c = act
      BY <3>1, <1>1, <1>13
    <3> QED BY <3>2, <2>2, <1>7, <1>14 DEF BaseAfter
  <2>3. CASE p # 0 /\ ks # <<>>
    <3>1. Len(ks) > 0
      BY <2>3, <1>15
    <3>2. c \in c .. top - 1 /\ c \in low .. top - 1 /\ (c - c) + 1 = 1
      BY <3>1, <1>1, <1>3, <1>8, <1>11, <1>15
    <3>3. ks[1] = at[c] /\ at[c].off = c
      BY <3>2, <1>5, <1>16
    <3> QED BY <3>3, <2>3, <1>7, <1>14 DEF BaseAfter
  <2> QED BY <2>1, <2>2, <2>3
<1>19. Dropped(recs, chk, act) = {recs[i].seg : i \in 1 .. p}
  BY <1>7 DEF Dropped
<1>20. ASSUME NEW b \in DOMAIN dir, low <= b
       PROVE  b \in Dropped(recs, chk, act) <=> b < c
  <2>0. b \in Nat
    BY <1>1
  <2>1. ASSUME NEW i \in 1 .. p, recs[i].seg = b PROVE b < c
    <3>1. i \in n + 1 .. Len(recs)
      <4>1. i \notin 1 .. n
        BY <2>0, <2>1, <1>1, <1>4, <1>20
      <4> QED BY <4>1, <1>3, <1>8
    <3>2. PICK o \in low .. top - 1 : i = n + (o - low) + 1 /\ recs[i] = at[o]
      BY <3>1, <1>6
    <3>3. o < c
      <4>1. n + (o - low) + 1 <= p /\ p = n + (c - low)
        BY <2>1, <3>2, <1>8, <1>11
      <4>2. o \in Nat
        BY <1>5
      <4> QED BY <4>1, <4>2, <1>1, <1>3, <1>11
    <3>4. b <= o /\ o \in Nat
      BY <3>2, <2>1, <1>5
    <3> QED BY <3>3, <3>4, <2>0, <1>11
  <2>2. ASSUME b < c PROVE \E i \in 1 .. p : recs[i].seg = b
    <3>1. b \in low .. top - 1
      BY <2>0, <2>2, <1>1, <1>11, <1>20
    <3>2. \A d \in DOMAIN dir : d <= b \/ b < d
      BY <2>0, <1>1
    <3>3. Home(dir, low, b, b)
      BY <3>2, <2>0, <1>20 DEF Home
    <3>4. at[b].seg = b
      BY <3>1, <3>3, HomeIs
    <3>5. n + (b - low) + 1 \in 1 .. p
      <4>1. p = n + (c - low) /\ low <= b /\ b < c /\ c \in Nat
        BY <2>2, <1>11, <1>20
      <4>2. n \in Nat /\ low \in Nat
        BY <1>1, <1>3
      <4>3. PICK d : d = b - low
        OBVIOUS
      <4>4. d \in Nat /\ d < c - low
        BY <4>1, <4>2, <4>3, <2>0
      <4>5. n + d + 1 \in 1 .. n + (c - low)
        BY <4>1, <4>2, <4>4
      <4> QED BY <4>1, <4>3, <4>5
    <3> QED BY <3>1, <3>4, <3>5, <1>5
  <2> QED BY <2>1, <2>2, <1>19
<1>21. ASSUME NEW b \in DOMAIN dir, b < low
       PROVE  b \in Dropped(recs, chk, act) <=> \E i \in 1 .. Len(pre) : pre[i].seg = b
  <2>0. b \in Nat
    BY <1>1
  <2>1. ASSUME NEW i \in 1 .. p, recs[i].seg = b PROVE i \in 1 .. n /\ pre[i].seg = b
    <3>1. i \in 1 .. n
      <4> SUFFICES ASSUME i \in n + 1 .. Len(recs) PROVE FALSE
        BY <1>3, <1>8
      <4>1. PICK o \in low .. top - 1 : recs[i] = at[o]
        BY <1>6
      <4>2. low <= at[o].seg
        BY <4>1, <1>5
      <4>3. at[o].seg = b
        BY <4>1, <2>1
      <4> QED BY <4>2, <4>3, <2>0, <1>1, <1>21
    <3> QED BY <3>1, <2>1, <1>4
  <2>2. ASSUME NEW i \in 1 .. n, pre[i].seg = b PROVE i \in 1 .. p /\ recs[i].seg = b
    BY <2>2, <1>3, <1>4, <1>8, <1>9
  <2> QED BY <2>1, <2>2, <1>2, <1>19
<1>22. PruneEnds(dir, at, low, top, act, recs, pre, chk, base, c)
  BY <1>11, <1>12, <1>13, <1>14, <1>15, <1>17, <1>18, <1>20, <1>21 DEF PruneEnds
<1> QED
  BY <1>22


-----------------------------------------------------------------------------
(* Bytes and frames *)

\* The bytes of a closed segment all belong to its frames.
LEMMA Covered ==
  ASSUME NEW dir, Directory(dir), NEW at, NEW low, NEW top, NEW act,
         Tiled(at, low, top, dir, act), NEW b \in DOMAIN dir, low <= b, b # act,
         NEW i \in 1 .. Len(dir[b])
  PROVE  \E o \in low .. top - 1 :
           /\ Home(dir, low, b, o) /\ at[o].seg = b
           /\ dir[b][i].tkt = Tkt(dir, at[o])
<1>1. /\ low \in Nat /\ act \in Nat /\ top \in Nat /\ low <= act /\ act <= top
      /\ low \in DOMAIN dir /\ act \in DOMAIN dir /\ DOMAIN dir \in SUBSET Nat
      /\ \A c \in DOMAIN dir : c <= act
  BY TiledNat
<1>2. b \in Nat /\ b < act /\ dir[b] \in Seq(Byte) /\ Len(dir[b]) \in Nat
      /\ i \in Nat /\ 1 <= i /\ i <= Len(dir[b])
  BY <1>1 DEF Directory
<1> DEFINE N == {d \in DOMAIN dir : b < d}
<1>3. PICK c \in N : \A d \in N : c <= d
  <2>1. N \in SUBSET Nat /\ act \in N
    BY <1>1, <1>2
  <2> HIDE DEF N
  <2> QED BY <2>1, Least
<1>4. c \in DOMAIN dir /\ b < c /\ c \in Nat /\ c <= top /\ \A d \in DOMAIN dir : d <= b \/ c <= d
  BY <1>1, <1>2, <1>3
<1> HIDE DEF N
<1>5. ASSUME NEW o \in b .. c - 1
      PROVE  /\ o \in low .. top - 1 /\ o \in Nat /\ Home(dir, low, b, o) /\ at[o].seg = b
             /\ o # b => o \notin DOMAIN dir
  <2>1. o \in low .. top - 1 /\ o \in Nat /\ b <= o /\ o < c
    BY <1>1, <1>2, <1>4
  <2>2. Home(dir, low, b, o)
    <3>1. \A d \in DOMAIN dir : d <= b \/ o < d
      BY <2>1, <1>1, <1>4
    <3> QED BY <2>1, <3>1 DEF Home
  <2>3. at[o].seg = b
    BY <2>1, <2>2, HomeIs
  <2>4. o # b => o \notin DOMAIN dir
    BY <2>1, <1>2, <1>4
  <2> QED BY <2>1, <2>2, <2>3, <2>4
<1> DEFINE T == {o \in b .. c - 1 : i <= End(at[o])}
<1>6. c - 1 \in T
  <2>1. c - 1 \in b .. c - 1 /\ (c - 1) + 1 = c
    BY <1>2, <1>4
  <2>2. c - 1 \in low .. top - 1 /\ at[c - 1].seg = b
    BY <2>1, <1>5
  <2>3. End(at[c - 1]) = Len(dir[b])
    BY <2>1, <2>2, <1>4 DEF Tiled
  <2> QED BY <2>1, <2>3, <1>2
<1>7. PICK m \in T : \A o \in T : m <= o
  <2>1. T \in SUBSET Nat
    BY <1>2, <1>4
  <2> HIDE DEF T
  <2> QED BY <2>1, <1>6, Least
<1>8. m \in b .. c - 1 /\ i <= End(at[m]) /\ \A o \in b .. c - 1 : i <= End(at[o]) => m <= o
  BY <1>7
<1> HIDE DEF T
<1>9. /\ m \in low .. top - 1 /\ m \in Nat /\ at[m].seg = b /\ at[m] \in Entry
      /\ at[m].pos \in Nat /\ at[m].len \in Nat \ {0}
      /\ Home(dir, low, b, m) /\ (m # b => m \notin DOMAIN dir)
  BY <1>8, <1>5, TiledAt
<1>10. at[m].pos < i
  <2>1. CASE m = b
    <3>1. at[m].pos = 0
      BY <2>1, <1>9 DEF Tiled
    <3> QED BY <3>1, <1>2
  <2>2. CASE m # b
    <3>1. m - 1 \in b .. c - 1 /\ m - 1 < m
      BY <2>2, <1>2, <1>4, <1>8, <1>9
    <3>2. m - 1 \in low .. top - 1
      BY <3>1, <1>5
    <3>3. End(at[m - 1]) \in Nat
      BY <3>2, TiledAt
    <3>4. ~ (i <= End(at[m - 1]))
      BY <3>1, <1>8, <1>9
    <3>5. at[m].pos = End(at[m - 1])
      BY <2>2, <1>9 DEF Tiled
    <3> QED BY <3>3, <3>4, <3>5, <1>2
  <2> QED BY <2>1, <2>2
<1>11. PICK p, l, k : p = at[m].pos /\ l = at[m].len /\ k = i - p
  OBVIOUS
<1>12. End(at[m]) = p + l
  BY <1>11 DEF End
<1>13. k \in 1 .. l /\ p + k = i
  <2>1. p \in Nat /\ l \in Nat /\ i \in Nat
    BY <1>2, <1>9, <1>11
  <2>2. p < i
    BY <1>10, <1>11
  <2>3. i <= End(at[m])
    BY <1>8
  <2>4. i <= p + l
    BY <2>3, <1>12
  <2>5. k = i - p
    BY <1>11
  <2> QED BY <2>1, <2>2, <2>4, <2>5
<1>14. FrameAt(dir[b], at[m])
  BY <1>9 DEF Tiled
<1>15. dir[b][i] = [tkt |-> dir[b][p + 1].tkt, size |-> l, part |-> k]
  BY <1>11, <1>13, <1>14 DEF FrameAt
<1>16. dir[b][i].tkt = dir[b][p + 1].tkt
  BY <1>15
<1> QED
  BY <1>9, <1>11, <1>16 DEF Tkt

\* What is read at an entry is the frame it was written for.
LEMMA FrameRead ==
  ASSUME NEW bytes \in Seq(Byte), NEW e \in Entry, FrameAt(bytes, e)
  PROVE  /\ SubSeq(bytes, e.pos + 1, End(e)) # <<>>
         /\ IsFrame(SubSeq(bytes, e.pos + 1, End(e)))
         /\ SubSeq(bytes, e.pos + 1, End(e))[1].tkt = bytes[e.pos + 1].tkt
<1>1. PICK p, l, t : p = e.pos /\ l = e.len /\ t = bytes[e.pos + 1].tkt
  OBVIOUS
<1>2. p \in Nat /\ l \in Nat \ {0} /\ End(e) = p + l /\ p + l <= Len(bytes) /\ Len(bytes) \in Nat
  BY <1>1, EntryEnd DEF FrameAt
<1>3. \A k \in 1 .. l : bytes[p + k] = [tkt |-> t, size |-> l, part |-> k]
  BY <1>1 DEF FrameAt
<1>4. PICK x : x = SubSeq(bytes, p + 1, p + l)
  OBVIOUS
<1>5. x \in Seq(Byte) /\ Len(x) = l /\ \A k \in 1 .. l : x[k] = bytes[p + k]
  <2>1. p + 1 \in 1 .. Len(bytes) + 1 /\ p + l \in p .. Len(bytes)
    BY <1>2
  <2>2. /\ x \in Seq(Byte)
        /\ Len(x) = IF p + 1 <= p + l THEN (p + l) - (p + 1) + 1 ELSE 0
        /\ \A k \in 1 .. Len(x) : x[k] = bytes[(p + 1) + k - 1]
    BY <1>2, <1>4, <2>1
  <2>3. Len(x) = l
    BY <2>2, <1>2
  <2>4. \A k \in 1 .. l : (p + 1) + k - 1 = p + k
    BY <1>2
  <2> QED BY <2>2, <2>3, <2>4
<1>6. x = [k \in 1 .. l |-> [tkt |-> t, size |-> l, part |-> k]]
  <2>1. x = [k \in 1 .. l |-> x[k]]
    BY <1>5
  <2> QED BY <2>1, <1>3, <1>5
<1>7. x # <<>> /\ 1 \in 1 .. l
  BY <1>2, <1>5
<1>8. x[1].tkt = t
  BY <1>6, <1>7
<1>9. x = Bytes(x[1].tkt, Len(x))
  BY <1>5, <1>6, <1>8 DEF Bytes
<1>10. IsFrame(x)
  BY <1>7, <1>9 DEF IsFrame
<1> QED
  BY <1>1, <1>2, <1>4, <1>7, <1>8, <1>10

\* What a start keeps of a segment: all of a closed one, of the last one its frames.
LEMMA ValidEnds ==
  ASSUME NEW dir, Directory(dir), NEW at, NEW low, NEW top, NEW act,
         Tiled(at, low, top, dir, act), Torn(dir[act], ValidTo(at, top, act)),
         \A z \in Sizes : z <= MaxRecoverable, NEW b \in DOMAIN dir, low <= b
  PROVE  ValidEnd(RecoverSegment(b, dir[b]))
           = IF b = act THEN ValidTo(at, top, act) ELSE Len(dir[b])
<1>1. /\ low \in Nat /\ act \in Nat /\ top \in Nat /\ low <= act /\ act <= top
      /\ DOMAIN dir \in SUBSET Nat /\ b \in Nat
  BY TiledNat
<1>2. PICK ss : ss = RecoverSegment(b, dir[b])
  OBVIOUS
<1>3. PICK hi \in b .. top :
        /\ \A o \in low .. top - 1 : at[o].seg = b <=> b <= o /\ o < hi
        /\ b # act => b < hi /\ End(at[hi - 1]) = Len(dir[b])
        /\ Len(ss) = hi - b
        /\ \A i \in 1 .. hi - b : ss[i] = at[b + i - 1]
  BY <1>2, SegmentIs
<1>4. hi \in Nat /\ b <= hi /\ hi <= top
  BY <1>1
<1>5. b < hi => ValidEnd(ss) = End(at[hi - 1])
  <2> SUFFICES ASSUME b < hi PROVE ValidEnd(ss) = End(at[hi - 1])
    OBVIOUS
  <2>1. hi - b \in 1 .. hi - b /\ b + (hi - b) - 1 = hi - 1
    BY <1>1, <1>4
  <2>2. ss # <<>>
    <3> SUFFICES ASSUME ss = <<>> PROVE FALSE
      OBVIOUS
    <3>1. Len(ss) = 0
      OBVIOUS
    <3> QED BY <3>1, <2>1, <1>3, <1>1, <1>4
  <2>3. ss[Len(ss)] = at[hi - 1]
    <3>1. ss[hi - b] = at[b + (hi - b) - 1]
      BY <2>1, <1>3
    <3> QED BY <3>1, <2>1, <1>3
  <2> QED BY <2>2, <2>3 DEF ValidEnd
<1>6. CASE b # act
  BY <1>2, <1>3, <1>5, <1>6
<1>7. CASE b = act
  <2>1. hi = top
    <3> SUFFICES ASSUME hi # top PROVE FALSE
      OBVIOUS
    <3>1. hi \in low .. top - 1
      BY <1>1, <1>4, <1>7
    <3>2. at[hi].seg = act <=> act <= hi
      BY <3>1, ActiveLast
    <3>3. at[hi].seg = b <=> b <= hi /\ hi < hi
      BY <3>1, <1>3
    <3> QED BY <3>2, <3>3, <1>4, <1>7
  <2>2. CASE act = top
    <3>1. Len(ss) = 0
      BY <2>1, <2>2, <1>1, <1>3, <1>7
    <3>2. ss \in Seq([off : Nat, seg : {b}, pos : Nat, len : Sizes])
      BY <1>1, <1>2, RecoverSegmentShape DEF Directory
    <3>3. ss = <<>>
      BY <3>1, <3>2
    <3> QED BY <3>3, <2>2, <1>2, <1>7 DEF ValidEnd, ValidTo
  <2>3. CASE act # top
    <3>1. b < hi
      BY <2>1, <2>3, <1>4, <1>7, <1>1
    <3>2. ValidEnd(ss) = End(at[top - 1])
      BY <3>1, <1>5, <2>1
    <3> QED BY <3>2, <2>3, <1>2, <1>7 DEF ValidTo
  <2> QED BY <2>2, <2>3
<1> QED
  BY <1>6, <1>7


-----------------------------------------------------------------------------
(* What the log keeps *)

\* The log lg holds the frames of the offsets low to top - 1, and at says where.
\* Closed segments are on the medium; the records before the number mt of the
\* checkpoint file are settled, their frames in what survives a crash; a frame of
\* hd is settled or on the medium.  Of segment b, sy[b] bytes are on the medium and
\* pl[b] survive whatever may happen; sn are the settled frames.
Sound(at, low, top, act, lg, sy, pl, mt, sn, hd) ==
  /\ Tiled(at, low, top, lg, act)
  /\ Torn(lg[act], ValidTo(at, top, act))
  /\ \A b \in DOMAIN lg : sy[b] \in Nat /\ sy[b] <= Len(lg[b]) /\ (b # act => sy[b] = Len(lg[b]))
  /\ mt \in low .. top
  /\ \A o \in low .. mt - 1 : Tkt(lg, at[o]) \in sn /\ End(at[o]) <= pl[at[o].seg]
  /\ \A t \in hd : t \in sn \/ \E o \in low .. top - 1 :
                     Tkt(lg, at[o]) = t /\ End(at[o]) <= sy[at[o].seg]

\* A segment below low is one that could not be removed: there is at most one,
\* and every frame in it is settled.
Strays(low, lg, sn) ==
  \A s \in DOMAIN lg : s < low =>
    /\ \A u \in DOMAIN lg : u < low => u = s
    /\ Len(RecoverSegment(s, lg[s])) > 0 /\ s + Len(RecoverSegment(s, lg[s])) <= low
    /\ \A i \in 1 .. Len(lg[s]) : lg[s][i].tkt \in sn

\* What q vouches for, and what is still there, q2 vouches for too.
Grown(q, q2, lg) ==
  \A b \in DOMAIN lg : \A x \in Nat : x <= q[b] /\ x <= Len(lg[b]) => x <= q2[b]

Measured(sy, lg) == \A b \in DOMAIN lg : sy[b] \in Nat /\ sy[b] <= Len(lg[b])

LEMMA StraysKept ==
  ASSUME NEW low, NEW lg, NEW sn, Strays(low, lg, sn),
         NEW lg2, \A b \in DOMAIN lg2 : b < low => b \in DOMAIN lg /\ lg2[b] = lg[b],
         NEW sn2, sn \subseteq sn2
  PROVE  Strays(low, lg2, sn2)
<1>1. ASSUME NEW s \in DOMAIN lg2, s < low
      PROVE  /\ \A u \in DOMAIN lg2 : u < low => u = s
             /\ Len(RecoverSegment(s, lg2[s])) > 0 /\ s + Len(RecoverSegment(s, lg2[s])) <= low
             /\ \A i \in 1 .. Len(lg2[s]) : lg2[s][i].tkt \in sn2
  <2>1. s \in DOMAIN lg /\ lg2[s] = lg[s]
    BY <1>1
  <2>2. /\ \A u \in DOMAIN lg : u < low => u = s
        /\ Len(RecoverSegment(s, lg[s])) > 0 /\ s + Len(RecoverSegment(s, lg[s])) <= low
        /\ \A i \in 1 .. Len(lg[s]) : lg[s][i].tkt \in sn
    BY <1>1, <2>1 DEF Strays
  <2>3. \A u \in DOMAIN lg2 : u < low => u = s
    BY <2>2
  <2> QED BY <2>1, <2>2, <2>3
<1> QED
  BY <1>1 DEF Strays

\* Bytes are flushed or fsynced, frames are settled: the log is what it was.
LEMMA SoundGrown ==
  ASSUME NEW lg, Directory(lg), NEW at, NEW low, NEW top, NEW act, NEW sy, NEW pl, NEW mt,
         NEW sn, NEW hd, Sound(at, low, top, act, lg, sy, pl, mt, sn, hd),
         NEW sy2, Grown(sy, sy2, lg), Measured(sy2, lg),
         NEW pl2, Grown(pl, pl2, lg), NEW sn2, sn \subseteq sn2
  PROVE  Sound(at, low, top, act, lg, sy2, pl2, mt, sn2, hd)
<1>1. /\ Tiled(at, low, top, lg, act) /\ Torn(lg[act], ValidTo(at, top, act))
      /\ mt \in low .. top
  BY DEF Sound
<1>2. ASSUME NEW o \in low .. top - 1
      PROVE  /\ at[o].seg \in DOMAIN lg /\ End(at[o]) \in Nat
             /\ End(at[o]) <= Len(lg[at[o].seg])
  BY <1>1, TiledAt
<1>3. ASSUME NEW b \in DOMAIN lg
      PROVE  sy2[b] \in Nat /\ sy2[b] <= Len(lg[b]) /\ (b # act => sy2[b] = Len(lg[b]))
  <2>1. sy2[b] \in Nat /\ sy2[b] <= Len(lg[b])
    BY DEF Measured
  <2>2. sy[b] \in Nat /\ (b # act => sy[b] = Len(lg[b]))
    BY DEF Sound
  <2>3. b # act => Len(lg[b]) <= sy2[b]
    BY <2>2 DEF Grown
  <2> QED BY <2>1, <2>2, <2>3
<1>4. ASSUME NEW o \in low .. mt - 1
      PROVE  Tkt(lg, at[o]) \in sn2 /\ End(at[o]) <= pl2[at[o].seg]
  <2>1. o \in low .. top - 1
    BY <1>1, TiledNat
  <2>2. Tkt(lg, at[o]) \in sn /\ End(at[o]) <= pl[at[o].seg]
    BY DEF Sound
  <2> QED BY <2>1, <2>2, <1>2 DEF Grown
<1>5. ASSUME NEW t \in hd
      PROVE  t \in sn2 \/ \E o \in low .. top - 1 :
                            Tkt(lg, at[o]) = t /\ End(at[o]) <= sy2[at[o].seg]
  <2>1. ASSUME NEW o \in low .. top - 1, End(at[o]) <= sy[at[o].seg]
        PROVE  End(at[o]) <= sy2[at[o].seg]
    BY <2>1, <1>2 DEF Grown
  <2>2. t \in sn \/ \E o \in low .. top - 1 :
                      Tkt(lg, at[o]) = t /\ End(at[o]) <= sy[at[o].seg]
    BY DEF Sound
  <2> QED BY <2>1, <2>2
<1> QED
  BY <1>1, <1>3, <1>4, <1>5 DEF Sound

LEMMA SoundHard ==
  ASSUME NEW lg, NEW at, NEW low, NEW top, NEW act, NEW sy, NEW pl, NEW mt,
         NEW sn, NEW hd, Sound(at, low, top, act, lg, sy, pl, mt, sn, hd),
         NEW hd2,
         \A t \in hd2 : t \in hd \/ \E o \in low .. top - 1 :
                          Tkt(lg, at[o]) = t /\ End(at[o]) <= sy[at[o].seg]
  PROVE  Sound(at, low, top, act, lg, sy, pl, mt, sn, hd2)
BY DEF Sound

\* The checkpoint file is replaced.
LEMMA SoundMoved ==
  ASSUME NEW lg, NEW at, NEW low, NEW top, NEW act, NEW sy, NEW pl, NEW mt,
         NEW sn, NEW hd, Sound(at, low, top, act, lg, sy, pl, mt, sn, hd),
         NEW mt2 \in low .. top,
         \A o \in low .. mt2 - 1 : Tkt(lg, at[o]) \in sn /\ End(at[o]) <= pl[at[o].seg]
  PROVE  Sound(at, low, top, act, lg, sy, pl, mt2, sn, hd)
BY DEF Sound

\* A segment is opened.
LEMMA SoundRotated ==
  ASSUME NEW lg, Directory(lg), NEW at, NEW low, NEW top, NEW act, NEW sy, NEW pl, NEW mt,
         NEW sn, NEW hd, Sound(at, low, top, act, lg, sy, pl, mt, sn, hd),
         Len(lg[act]) = ValidTo(at, top, act), act # top,
         NEW sy2, \A b \in DOMAIN lg : sy2[b] = Len(lg[b]), sy2[top] = 0,
         NEW pl2, Grown(pl, pl2, lg)
  PROVE  /\ Sound(at, low, top, top, With(lg, top, <<>>), sy2, pl2, mt, sn, hd)
         /\ Len(With(lg, top, <<>>)[top]) = ValidTo(at, top, top)
<1>1. /\ Tiled(at, low, top, lg, act) /\ mt \in low .. top
  BY DEF Sound
<1>2. PICK lg2 : lg2 = With(lg, top, <<>>)
  OBVIOUS
<1>3. /\ low \in Nat /\ act \in Nat /\ top \in Nat /\ act < top /\ top \notin DOMAIN lg
  BY <1>1, TiledNat
<1>4. /\ DOMAIN lg2 = DOMAIN lg \union {top} /\ lg2[top] = <<>>
      /\ \A b \in DOMAIN lg : lg2[b] = lg[b]
  BY <1>2, <1>3 DEF With
<1>5. Tiled(at, low, top, lg2, top)
  BY <1>1, <1>2, TiledRotated
<1>6. ValidTo(at, top, top) = 0 /\ Len(lg2[top]) = 0
  BY <1>4 DEF ValidTo
<1>7. Torn(lg2[top], ValidTo(at, top, top))
  BY <1>6 DEF Torn
<1>8. ASSUME NEW o \in low .. top - 1
      PROVE  /\ at[o].seg \in DOMAIN lg /\ End(at[o]) \in Nat /\ End(at[o]) <= Len(lg[at[o].seg])
             /\ Tkt(lg2, at[o]) = Tkt(lg, at[o])
  <2>1. at[o].seg \in DOMAIN lg /\ End(at[o]) \in Nat /\ End(at[o]) <= Len(lg[at[o].seg])
    BY <1>1, TiledAt
  <2> QED BY <2>1, <1>4 DEF Tkt
<1>9. ASSUME NEW b \in DOMAIN lg2
      PROVE  sy2[b] \in Nat /\ sy2[b] <= Len(lg2[b]) /\ (b # top => sy2[b] = Len(lg2[b]))
  <2>1. CASE b = top
    BY <2>1, <1>6
  <2>2. CASE b # top
    <3>1. b \in DOMAIN lg /\ sy2[b] = Len(lg2[b])
      BY <2>2, <1>4
    <3>2. Len(lg[b]) \in Nat
      BY <3>1 DEF Directory
    <3> QED BY <3>1, <3>2, <1>4
  <2> QED BY <2>1, <2>2
<1>10. ASSUME NEW o \in low .. mt - 1
       PROVE  Tkt(lg2, at[o]) \in sn /\ End(at[o]) <= pl2[at[o].seg]
  <2>1. o \in low .. top - 1
    BY <1>1, <1>3
  <2>2. Tkt(lg, at[o]) \in sn /\ End(at[o]) <= pl[at[o].seg]
    BY DEF Sound
  <2> QED BY <2>1, <2>2, <1>8 DEF Grown
<1>11. ASSUME NEW t \in hd
       PROVE  t \in sn \/ \E o \in low .. top - 1 :
                            Tkt(lg2, at[o]) = t /\ End(at[o]) <= sy2[at[o].seg]
  <2>1. \A o \in low .. top - 1 : Tkt(lg2, at[o]) = Tkt(lg, at[o]) /\ End(at[o]) <= sy2[at[o].seg]
    BY <1>8
  <2>2. t \in sn \/ \E o \in low .. top - 1 : Tkt(lg, at[o]) = t
    BY DEF Sound
  <2> QED BY <2>1, <2>2
<1> QED
  BY <1>1, <1>2, <1>5, <1>6, <1>7, <1>9, <1>10, <1>11 DEF Sound

\* A frame is written behind the last one.
LEMMA SoundExtended ==
  ASSUME NEW lg, Directory(lg), NEW at, NEW low, NEW top, NEW act, NEW sy, NEW pl, NEW mt,
         NEW sn, NEW hd, Sound(at, low, top, act, lg, sy, pl, mt, sn, hd),
         Len(lg[act]) = ValidTo(at, top, act),
         NEW n \in Sizes, NEW t \in 1 .. MaxAttempts,
         NEW e \in Entry, e.off = top, e.seg = act, e.pos = Len(lg[act]), e.len = n,
         NEW lg2, Longer(lg, lg2, act, t, n),
         NEW at2, at2[top] = e, \A o \in low .. top - 1 : at2[o] = at[o],
         NEW sy2, Grown(sy, sy2, lg), Measured(sy2, lg2),
         NEW pl2, Grown(pl, pl2, lg)
  PROVE  /\ Sound(at2, low, top + 1, act, lg2, sy2, pl2, mt, sn, hd)
         /\ Len(lg2[act]) = ValidTo(at2, top + 1, act)
<1>1. Tiled(at, low, top, lg, act) /\ mt \in low .. top
  BY DEF Sound
<1>2. low \in Nat /\ act \in Nat /\ top \in Nat /\ act \in DOMAIN lg
  BY <1>1, TiledNat
<1>3. /\ Tiled(at2, low, top + 1, lg2, act)
      /\ Len(lg2[act]) = ValidTo(at2, top + 1, act)
      /\ \A o \in low .. top - 1 : Tkt(lg2, at[o]) = Tkt(lg, at[o])
  BY <1>1, TiledExtended
<1>a. /\ DOMAIN lg2 = DOMAIN lg /\ lg2[act] = lg[act] \o Bytes(t, n)
      /\ \A b \in DOMAIN lg : b # act => lg2[b] = lg[b]
  BY DEF Longer
<1>4. Len(lg2[act]) \in Nat
  <2>1. lg[act] \in Seq(Byte) /\ Bytes(t, n) \in Seq(Byte)
    BY <1>2, BytesTyped DEF Directory
  <2> QED BY <2>1, <1>a
<1>5. Torn(lg2[act], ValidTo(at2, top + 1, act))
  BY <1>3, <1>4 DEF Torn
<1>6. ASSUME NEW o \in low .. top - 1
      PROVE  /\ at[o].seg \in DOMAIN lg /\ End(at[o]) \in Nat
             /\ End(at[o]) <= Len(lg[at[o].seg]) /\ at2[o] = at[o]
  BY <1>1, TiledAt
<1>7. ASSUME NEW b \in DOMAIN lg2
      PROVE  sy2[b] \in Nat /\ sy2[b] <= Len(lg2[b]) /\ (b # act => sy2[b] = Len(lg2[b]))
  <2>1. sy2[b] \in Nat /\ sy2[b] <= Len(lg2[b])
    BY DEF Measured
  <2>2. b # act => sy[b] \in Nat /\ sy[b] = Len(lg[b]) /\ lg2[b] = lg[b]
    BY <1>a DEF Sound
  <2>3. b # act => Len(lg2[b]) <= sy2[b]
    BY <2>2, <1>a DEF Grown
  <2> QED BY <2>1, <2>2, <2>3
<1>8. ASSUME NEW o \in low .. mt - 1
      PROVE  Tkt(lg2, at2[o]) \in sn /\ End(at2[o]) <= pl2[at2[o].seg]
  <2>1. o \in low .. top - 1
    BY <1>1, <1>2
  <2>2. Tkt(lg, at[o]) \in sn /\ End(at[o]) <= pl[at[o].seg]
    BY DEF Sound
  <2>3. End(at[o]) <= pl2[at[o].seg]
    BY <2>1, <2>2, <1>6 DEF Grown
  <2> QED BY <2>1, <2>2, <2>3, <1>3, <1>6
<1>9. ASSUME NEW u \in hd
      PROVE  u \in sn \/ \E o \in low .. (top + 1) - 1 :
                           Tkt(lg2, at2[o]) = u /\ End(at2[o]) <= sy2[at2[o].seg]
  <2> SUFFICES ASSUME u \notin sn
               PROVE  \E o \in low .. (top + 1) - 1 :
                        Tkt(lg2, at2[o]) = u /\ End(at2[o]) <= sy2[at2[o].seg]
    OBVIOUS
  <2>1. PICK o \in low .. top - 1 : Tkt(lg, at[o]) = u /\ End(at[o]) <= sy[at[o].seg]
    BY DEF Sound
  <2>2. End(at[o]) <= sy2[at[o].seg]
    BY <2>1, <1>6 DEF Grown
  <2>3. Tkt(lg2, at2[o]) = u /\ End(at2[o]) <= sy2[at2[o].seg]
    BY <2>1, <2>2, <1>3, <1>6
  <2>4. o \in low .. (top + 1) - 1
    BY <1>2
  <2> QED BY <2>3, <2>4
<1>10. mt \in low .. top + 1
  BY <1>1, <1>2
<1> QED
  BY <1>3, <1>5, <1>7, <1>8, <1>9, <1>10 DEF Sound

\* Segment act of dir2 is the first n bytes of that of dir.
Shorter(dir, dir2, act, n) ==
  /\ n \in 0 .. Len(dir[act])
  /\ DOMAIN dir2 = DOMAIN dir /\ Len(dir2[act]) = n
  /\ \A i \in 1 .. n : dir2[act][i] = dir[act][i]
  /\ \A b \in DOMAIN dir : b # act => dir2[b] = dir[b]

\* The frames of segment act that q vouches for are in its first n bytes.
Spared(at, low, top, act, q, n) ==
  \A o \in low .. top - 1 : at[o].seg = act /\ End(at[o]) <= q[act] => End(at[o]) <= n

\* The offsets before top2 are those whose frames are there still.
Remaining(at, low, top, act, n, top2) ==
  \A o \in low .. top - 1 : o < top2 <=> (at[o].seg # act \/ End(at[o]) <= n)

\* The last segment loses bytes behind those that are known to survive.
LEMMA SoundCut ==
  ASSUME NEW lg, Directory(lg), NEW at, NEW low, NEW top, NEW act, NEW sy, NEW pl, NEW mt,
         NEW sn, NEW hd, Sound(at, low, top, act, lg, sy, pl, mt, sn, hd),
         NEW lg2, NEW n, Shorter(lg, lg2, act, n),
         Spared(at, low, top, act, pl, n), Spared(at, low, top, act, sy, n),
         NEW sy2, Grown(sy, sy2, lg2), Measured(sy2, lg2),
         NEW pl2, Grown(pl, pl2, lg2)
  PROVE  \E top2 \in act .. top :
           /\ Sound(at, low, top2, act, lg2, sy2, pl2, mt, sn, hd)
           /\ Remaining(at, low, top, act, n, top2)
<1>a. /\ n \in 0 .. Len(lg[act])
      /\ DOMAIN lg2 = DOMAIN lg /\ Len(lg2[act]) = n
      /\ \A i \in 1 .. n : lg2[act][i] = lg[act][i]
      /\ \A b \in DOMAIN lg : b # act => lg2[b] = lg[b]
  BY DEF Shorter
<1>b. \A o \in low .. top - 1 :
        at[o].seg = act /\ (End(at[o]) <= pl[act] \/ End(at[o]) <= sy[act]) => End(at[o]) <= n
  BY DEF Spared
<1>1. Tiled(at, low, top, lg, act) /\ Torn(lg[act], ValidTo(at, top, act)) /\ mt \in low .. top
  BY DEF Sound
<1>2. low \in Nat /\ act \in Nat /\ top \in Nat /\ act \in DOMAIN lg /\ low <= act /\ act <= top
  BY <1>1, TiledNat
<1>3. PICK top2 \in act .. top :
        /\ Tiled(at, low, top2, lg2, act)
        /\ Torn(lg2[act], ValidTo(at, top2, act))
        /\ \A o \in low .. top - 1 : o < top2 <=> (at[o].seg # act \/ End(at[o]) <= n)
        /\ \A o \in low .. top2 - 1 : Tkt(lg2, at[o]) = Tkt(lg, at[o])
  BY <1>1, <1>a, TiledCut
<1>4. top2 \in Nat /\ low <= top2 /\ top2 <= top
  BY <1>2
<1>5. ASSUME NEW o \in low .. top - 1
      PROVE  /\ at[o].seg \in DOMAIN lg /\ End(at[o]) \in Nat /\ o \in Nat
             /\ End(at[o]) <= Len(lg[at[o].seg])
  BY <1>1, TiledAt
<1>6. ASSUME NEW o \in low .. top2 - 1 PROVE End(at[o]) <= Len(lg2[at[o].seg])
  <2>1. FrameAt(lg2[at[o].seg], at[o])
    BY <1>3 DEF Tiled
  <2> QED BY <2>1 DEF FrameAt
<1>7. mt <= top2
  <2> SUFFICES ASSUME top2 < mt PROVE FALSE
    BY <1>1, <1>2, <1>4
  <2>1. top2 \in low .. mt - 1 /\ top2 \in low .. top - 1 /\ ~ (top2 < top2)
    BY <1>1, <1>2, <1>4
  <2>2. End(at[top2]) <= pl[at[top2].seg]
    BY <2>1 DEF Sound
  <2>3. at[top2].seg = act /\ ~ (End(at[top2]) <= n)
    BY <2>1, <1>3
  <2> QED BY <2>1, <2>2, <2>3, <1>b
<1>8. mt \in low .. top2
  BY <1>1, <1>2, <1>4, <1>7
<1>9. ASSUME NEW b \in DOMAIN lg2
      PROVE  sy2[b] \in Nat /\ sy2[b] <= Len(lg2[b]) /\ (b # act => sy2[b] = Len(lg2[b]))
  <2>1. sy2[b] \in Nat /\ sy2[b] <= Len(lg2[b])
    BY DEF Measured
  <2>2. b # act => sy[b] \in Nat /\ sy[b] = Len(lg[b]) /\ lg2[b] = lg[b]
    BY <1>a DEF Sound
  <2>3. b # act => Len(lg2[b]) <= sy2[b]
    BY <2>2 DEF Grown
  <2> QED BY <2>1, <2>2, <2>3
<1>10. ASSUME NEW o \in low .. mt - 1
       PROVE  Tkt(lg2, at[o]) \in sn /\ End(at[o]) <= pl2[at[o].seg]
  <2>1. o \in low .. top - 1 /\ o \in low .. top2 - 1
    BY <1>1, <1>2, <1>4, <1>7
  <2>2. Tkt(lg, at[o]) \in sn /\ End(at[o]) <= pl[at[o].seg]
    BY DEF Sound
  <2>3. End(at[o]) <= pl2[at[o].seg]
    BY <2>1, <2>2, <1>5, <1>6, <1>a DEF Grown
  <2> QED BY <2>1, <2>2, <2>3, <1>3
<1>11. ASSUME NEW t \in hd
       PROVE  t \in sn \/ \E o \in low .. top2 - 1 :
                            Tkt(lg2, at[o]) = t /\ End(at[o]) <= sy2[at[o].seg]
  <2> SUFFICES ASSUME t \notin sn
               PROVE  \E o \in low .. top2 - 1 :
                        Tkt(lg2, at[o]) = t /\ End(at[o]) <= sy2[at[o].seg]
    OBVIOUS
  <2>1. PICK o \in low .. top - 1 : Tkt(lg, at[o]) = t /\ End(at[o]) <= sy[at[o].seg]
    BY DEF Sound
  <2>2. o < top2
    BY <2>1, <1>3, <1>b
  <2>3. o \in low .. top2 - 1
    BY <2>2, <1>4, <1>5, <1>2
  <2>4. End(at[o]) <= sy2[at[o].seg]
    BY <2>1, <2>3, <1>5, <1>6, <1>a DEF Grown
  <2> QED BY <2>1, <2>3, <2>4, <1>3
<1>12. Sound(at, low, top2, act, lg2, sy2, pl2, mt, sn, hd)
  BY <1>3, <1>8, <1>9, <1>10, <1>11 DEF Sound
<1>13. Remaining(at, low, top, act, n, top2)
  BY <1>3 DEF Remaining
<1> QED
  BY <1>12, <1>13

\* Segments whose records are all behind the checkpoint are removed.
LEMMA SoundPruned ==
  ASSUME NEW lg, Directory(lg), NEW at, NEW low, NEW top, NEW act, NEW sy, NEW pl, NEW mt,
         NEW sn, NEW hd, Sound(at, low, top, act, lg, sy, pl, mt, sn, hd),
         NEW c \in DOMAIN lg, low <= c, c <= mt,
         NEW lg2, DOMAIN lg2 \subseteq DOMAIN lg,
         \A b \in DOMAIN lg : c <= b => b \in DOMAIN lg2,
         \A b \in DOMAIN lg2 : lg2[b] = lg[b],
         NEW sy2, \A b \in DOMAIN lg2 : sy2[b] = sy[b],
         NEW pl2, \A b \in DOMAIN lg2 : pl2[b] = pl[b]
  PROVE  Sound(at, c, top, act, lg2, sy2, pl2, mt, sn, hd)
<1>1. Tiled(at, low, top, lg, act) /\ Torn(lg[act], ValidTo(at, top, act)) /\ mt \in low .. top
  BY DEF Sound
<1>2. /\ low \in Nat /\ act \in Nat /\ top \in Nat /\ act \in DOMAIN lg /\ c \in Nat /\ c <= act
  BY <1>1, TiledNat
<1>3. Tiled(at, c, top, lg2, act)
  BY <1>1, TiledPruned
<1>4. act \in DOMAIN lg2 /\ lg2[act] = lg[act]
  BY <1>2
<1>5. ASSUME NEW o \in c .. top - 1
      PROVE  /\ o \in low .. top - 1 /\ at[o].seg \in DOMAIN lg2
             /\ Tkt(lg2, at[o]) = Tkt(lg, at[o])
  <2>1. o \in low .. top - 1
    BY <1>2
  <2>2. at[o].seg \in DOMAIN lg2
    BY <1>3 DEF Tiled, Home
  <2> QED BY <2>1, <2>2 DEF Tkt
<1>6. ASSUME NEW o \in c .. mt - 1
      PROVE  Tkt(lg2, at[o]) \in sn /\ End(at[o]) <= pl2[at[o].seg]
  <2>1. o \in low .. mt - 1 /\ o \in c .. top - 1
    BY <1>1, <1>2
  <2>2. Tkt(lg, at[o]) \in sn /\ End(at[o]) <= pl[at[o].seg]
    BY <2>1 DEF Sound
  <2> QED BY <2>1, <2>2, <1>5
<1>7. ASSUME NEW t \in hd
      PROVE  t \in sn \/ \E o \in c .. top - 1 :
                           Tkt(lg2, at[o]) = t /\ End(at[o]) <= sy2[at[o].seg]
  <2> SUFFICES ASSUME t \notin sn
               PROVE  \E o \in c .. top - 1 :
                        Tkt(lg2, at[o]) = t /\ End(at[o]) <= sy2[at[o].seg]
    OBVIOUS
  <2>1. PICK o \in low .. top - 1 : Tkt(lg, at[o]) = t /\ End(at[o]) <= sy[at[o].seg]
    BY DEF Sound
  <2>2. o \notin low .. mt - 1
    BY <2>1 DEF Sound
  <2>3. o \in c .. top - 1
    BY <2>2, <1>1, <1>2
  <2> QED BY <2>1, <2>3, <1>5
<1>8. mt \in c .. top
  BY <1>1, <1>2
<1>9. \A b \in DOMAIN lg2 :
        sy2[b] \in Nat /\ sy2[b] <= Len(lg2[b]) /\ (b # act => sy2[b] = Len(lg2[b]))
  BY DEF Sound
<1> QED
  BY <1>1, <1>3, <1>4, <1>6, <1>7, <1>8, <1>9 DEF Sound


-----------------------------------------------------------------------------
(* The invariant of the log *)

\* The segments with what the buffer will add, and how much of each survives
\* whatever may happen.
LogOf(fl, act, buf) == [b \in DOMAIN fl |-> fl[b] \o (IF b = act THEN buf ELSE <<>>)]
Placed(fl, sy)      == [b \in DOMAIN fl |-> IF "power" \in CrashKinds THEN sy[b] ELSE Len(fl[b])]

\* The log is good whether the engine runs or not.
Held(at, low, top, act) ==
  /\ Sound(at, low, top, act, LogOf(files, active, buffer), synced, Placed(files, synced),
           meta, seen, hard)
  /\ Strays(low, LogOf(files, active, buffer), seen)

\* What the dispatcher holds is in the files and, from the checkpoint on, in hand.
InHand(at, low, top, upto, frames, chk, fl, lg) ==
  /\ upto \in low + 1 .. top
  /\ \A o \in low .. upto - 1 :
       /\ End(at[o]) <= Len(fl[at[o].seg])
       /\ chk <= o => Tkt(lg, at[o]) \in frames

\* The engine that runs knows the log.
Working(at, low, top, act) ==
  /\ low = baseOffset /\ act = active
  /\ Joined(records, <<>>, at, low, top)
  /\ Len(LogOf(files, active, buffer)[act]) = ValidTo(at, top, act)
  /\ checkpoint <= meta
  /\ hand.phase # "idle" =>
       InHand(at, low, top, hand.upto, hand.frames, checkpoint, files, LogOf(files, active, buffer))
  /\ hand.phase = "commit" => hand.frames \subseteq seen

Keeps ==
  cut \/ /\ mode # "open" => buffer = <<>>
         /\ OnMedium \subseteq hard
         /\ \E at, low, top, act : /\ Held(at, low, top, act)
                                   /\ mode = "open" => Working(at, low, top, act)

LEMMA LogOfIs ==
  ASSUME NEW fl, NEW sy, Disk(fl, sy), NEW act, NEW buf \in Seq(Byte), act \in DOMAIN fl
  PROVE  /\ Directory(LogOf(fl, act, buf)) /\ DOMAIN LogOf(fl, act, buf) = DOMAIN fl
         /\ Measured(sy, LogOf(fl, act, buf))
         /\ \A b \in DOMAIN fl :
              /\ LogOf(fl, act, buf)[b] \in Seq(Byte) /\ fl[b] \in Seq(Byte)
              /\ Len(fl[b]) \in Nat /\ Len(LogOf(fl, act, buf)[b]) \in Nat
              /\ b # act => LogOf(fl, act, buf)[b] = fl[b]
              /\ Len(LogOf(fl, act, buf)[b]) = Len(fl[b]) + (IF b = act THEN Len(buf) ELSE 0)
              /\ Len(fl[b]) <= Len(LogOf(fl, act, buf)[b])
              /\ \A i \in 1 .. Len(fl[b]) : LogOf(fl, act, buf)[b][i] = fl[b][i]
         /\ LogOf(fl, act, buf)[act] = fl[act] \o buf
<1>1. PICK lg : lg = LogOf(fl, act, buf)
  OBVIOUS
<1>2. /\ DOMAIN lg = DOMAIN fl /\ lg[act] = fl[act] \o buf
      /\ \A b \in DOMAIN fl : b # act => lg[b] = fl[b] \o <<>>
      /\ lg = [b \in DOMAIN lg |-> lg[b]]
  BY <1>1 DEF LogOf
<1>3. /\ DOMAIN fl \in SUBSET Nat /\ DOMAIN fl # {} /\ Bounded(DOMAIN fl)
      /\ \A b \in DOMAIN fl : fl[b] \in Seq(Byte) /\ sy[b] \in Nat /\ sy[b] <= Len(fl[b])
  BY DEF Disk, Directory
<1>4. ASSUME NEW b \in DOMAIN fl
      PROVE  /\ lg[b] \in Seq(Byte) /\ fl[b] \in Seq(Byte)
             /\ Len(fl[b]) \in Nat /\ Len(lg[b]) \in Nat
             /\ b # act => lg[b] = fl[b]
             /\ Len(lg[b]) = Len(fl[b]) + (IF b = act THEN Len(buf) ELSE 0)
             /\ Len(fl[b]) <= Len(lg[b])
             /\ \A i \in 1 .. Len(fl[b]) : lg[b][i] = fl[b][i]
  <2>1. PICK x : x = fl[b]
    OBVIOUS
  <2>2. x \in Seq(Byte) /\ Len(x) \in Nat /\ Len(buf) \in Nat
    BY <2>1, <1>3
  <2>3. CASE b = act
    <3>1. PICK y : y = x \o buf
      OBVIOUS
    <3>2. lg[b] = y
      BY <2>1, <2>3, <3>1, <1>2
    <3>3. /\ y \in Seq(Byte) /\ Len(y) = Len(x) + Len(buf)
          /\ \A i \in 1 .. Len(x) + Len(buf) : y[i] = IF i <= Len(x) THEN x[i] ELSE buf[i - Len(x)]
      BY <2>2, <3>1, ConcatProperties
    <3>4. \A i \in 1 .. Len(x) : y[i] = x[i]
      BY <2>2, <3>3
    <3> QED BY <2>1, <2>2, <2>3, <3>2, <3>3, <3>4
  <2>4. CASE b # act
    <3>1. x \o <<>> = x
      BY <2>2
    <3>2. lg[b] = x
      BY <2>1, <2>4, <3>1, <1>2
    <3> QED BY <2>1, <2>2, <2>4, <3>2
  <2> QED BY <2>3, <2>4
<1>5. Directory(lg)
  BY <1>2, <1>3, <1>4 DEF Directory
<1>6. Measured(sy, lg)
  <2>1. \A b \in DOMAIN lg : sy[b] \in Nat /\ sy[b] <= Len(lg[b])
    BY <1>2, <1>3, <1>4
  <2> QED BY <2>1 DEF Measured
<1> QED
  BY <1>1, <1>2, <1>4, <1>5, <1>6

\* The index refers to frames of the log.
Refers(recs, at, low, top) == \A i \in 1 .. Len(recs) : \E o \in low .. top - 1 : recs[i] = at[o]

LEMMA JoinedRefers ==
  ASSUME NEW recs, NEW at, NEW low \in Nat, NEW top \in Nat, low <= top,
         Joined(recs, <<>>, at, low, top)
  PROVE  /\ Refers(recs, at, low, top) /\ Len(recs) = top - low
         /\ \A o \in low .. top - 1 : recs[(o - low) + 1] = at[o]
         /\ \A i \in 1 .. Len(recs) : low + (i - 1) \in low .. top - 1
            /\ recs[i] = at[low + (i - 1)]
<1>1. Len(<<>>) = 0
  OBVIOUS
<1>2. Len(recs) = top - low
  BY <1>1 DEF Joined
<1>3. ASSUME NEW o \in low .. top - 1 PROVE recs[(o - low) + 1] = at[o]
  <2>1. recs[Len(<<>>) + (o - low) + 1] = at[o]
    BY DEF Joined
  <2>2. Len(<<>>) + (o - low) + 1 = (o - low) + 1
    BY <1>1
  <2> QED BY <2>1, <2>2
<1>4. ASSUME NEW i \in 1 .. Len(recs)
      PROVE  low + (i - 1) \in low .. top - 1 /\ recs[i] = at[low + (i - 1)]
  <2>1. PICK o : o = low + (i - 1)
    OBVIOUS
  <2>2. o \in low .. top - 1 /\ (o - low) + 1 = i
    BY <2>1, <1>2
  <2> QED BY <2>1, <2>2, <1>3
<1>5. Refers(recs, at, low, top)
  BY <1>4 DEF Refers
<1> QED
  BY <1>2, <1>3, <1>4, <1>5

\* A frame of the index that is on the medium is one of the log's.
LEMMA MediumIn ==
  ASSUME NEW fl, NEW sy, Disk(fl, sy), NEW act, NEW buf \in Seq(Byte), act \in DOMAIN fl,
         NEW at, NEW low, NEW top, NEW last, Tiled(at, low, top, LogOf(fl, act, buf), last),
         NEW recs \in Seq(Entry), Refers(recs, at, low, top),
         NEW t \in Medium(fl, sy, recs)
  PROVE  \E o \in low .. top - 1 :
           Tkt(LogOf(fl, act, buf), at[o]) = t /\ End(at[o]) <= sy[at[o].seg]
<1>1. PICK lg : lg = LogOf(fl, act, buf)
  OBVIOUS
<1>2. /\ Directory(lg) /\ DOMAIN lg = DOMAIN fl /\ Tiled(at, low, top, lg, last)
      /\ \A b \in DOMAIN fl : Len(fl[b]) \in Nat /\ \A i \in 1 .. Len(fl[b]) : lg[b][i] = fl[b][i]
  BY <1>1, LogOfIs
<1>3. PICK i \in DOMAIN recs : /\ End(recs[i]) <= sy[recs[i].seg]
                               /\ t = fl[recs[i].seg][recs[i].pos + 1].tkt
  BY DEF Medium
<1>4. i \in 1 .. Len(recs)
  OBVIOUS
<1>5. PICK o \in low .. top - 1 : recs[i] = at[o]
  BY <1>4 DEF Refers
<1>6. PICK b, p : b = at[o].seg /\ p = at[o].pos
  OBVIOUS
<1>7. b \in DOMAIN fl /\ p \in Nat /\ End(at[o]) \in Nat /\ p < End(at[o])
  BY <1>2, <1>6, TiledAt
<1>8. sy[b] \in Nat /\ sy[b] <= Len(fl[b]) /\ End(at[o]) <= sy[b]
  BY <1>3, <1>5, <1>6, <1>7 DEF Disk
<1>9. p + 1 \in 1 .. Len(fl[b])
  BY <1>2, <1>7, <1>8
<1>10. Tkt(lg, at[o]) = t
  <2>1. lg[b][p + 1] = fl[b][p + 1]
    BY <1>2, <1>7, <1>9
  <2> QED BY <2>1, <1>3, <1>5, <1>6 DEF Tkt
<1> QED
  BY <1>1, <1>6, <1>8, <1>10

\* What Harden records is in the log.
LEMMA SoundHardened ==
  ASSUME WCore', NEW at, NEW low, NEW top, NEW act, NEW pl, NEW mt, NEW sn,
         Sound(at, low, top, act, LogOf(files', active', buffer'), synced', pl, mt, sn, hard),
         Harden, Refers(records', at, low, top)
  PROVE  Sound(at, low, top, act, LogOf(files', active', buffer'), synced', pl, mt, sn, hard')
<1>1. PICK fl, sy, a, buf, recs : /\ fl = files' /\ sy = synced' /\ a = active' /\ buf = buffer'
                                  /\ recs = records'
  OBVIOUS
<1>2. Disk(fl, sy) /\ buf \in Seq(Byte) /\ a \in DOMAIN fl /\ recs \in Seq(Entry)
  BY <1>1 DEF WCore, Indexes
<1>3. Tiled(at, low, top, LogOf(fl, a, buf), act) /\ Refers(recs, at, low, top)
  BY <1>1 DEF Sound
<1>4. hard' = hard \union Medium(fl, sy, recs)
  BY <1>1 DEF Harden, OnMedium, Medium
<1>5. \A t \in Medium(fl, sy, recs) : \E o \in low .. top - 1 :
           Tkt(LogOf(fl, a, buf), at[o]) = t /\ End(at[o]) <= sy[at[o].seg]
  BY <1>2, <1>3, MediumIn
<1>6. \A t \in hard' : t \in hard \/ \E o \in low .. top - 1 :
           Tkt(LogOf(fl, a, buf), at[o]) = t /\ End(at[o]) <= sy[at[o].seg]
  BY <1>4, <1>5
<1>7. Sound(at, low, top, act, LogOf(fl, a, buf), sy, pl, mt, sn, hard)
  BY <1>1
<1>8. PICK hd : hd = hard'
  OBVIOUS
<1>9. Sound(at, low, top, act, LogOf(fl, a, buf), sy, pl, mt, sn, hd)
  <2>1. \A t \in hd : t \in hard \/ \E o \in low .. top - 1 :
           Tkt(LogOf(fl, a, buf), at[o]) = t /\ End(at[o]) <= sy[at[o].seg]
    BY <1>6, <1>8
  <2> QED BY <2>1, <1>7, SoundHard
<1> QED
  BY <1>1, <1>8, <1>9


-----------------------------------------------------------------------------
(* Steps that leave the log what it is *)

\* Bytes go from the buffer to the file and from the file to the medium.
SameLog(fl, sy, act, buf, fl2, sy2, act2, buf2) ==
  /\ LogOf(fl2, act2, buf2) = LogOf(fl, act, buf)
  /\ DOMAIN fl2 = DOMAIN fl
  /\ \A b \in DOMAIN fl : Len(fl[b]) <= Len(fl2[b]) /\ sy[b] <= sy2[b]

LEMMA LogEqual ==
  ASSUME NEW fl, NEW act, NEW buf, NEW fl2, NEW act2, NEW buf2, DOMAIN fl2 = DOMAIN fl,
         \A b \in DOMAIN fl : LogOf(fl2, act2, buf2)[b] = LogOf(fl, act, buf)[b]
  PROVE  LogOf(fl2, act2, buf2) = LogOf(fl, act, buf)
<1>1. PICK x, y : x = LogOf(fl, act, buf) /\ y = LogOf(fl2, act2, buf2)
  OBVIOUS
<1>2. /\ x = [b \in DOMAIN fl |-> x[b]] /\ y = [b \in DOMAIN fl |-> y[b]]
      /\ \A b \in DOMAIN fl : y[b] = x[b]
  BY <1>1 DEF LogOf
<1> QED
  BY <1>1, <1>2

LEMMA HandedSame ==
  ASSUME NEW fl, NEW sy, Disk(fl, sy), NEW act \in DOMAIN fl, NEW buf \in Seq(Byte),
         NEW j \in 0 .. Len(buf)
  PROVE  SameLog(fl, sy, act, buf, Handed(fl, act, buf, j), sy, act, Left(buf, j))
<1>1. PICK gs, rest, a : /\ gs = Handed(fl, act, buf, j) /\ rest = Left(buf, j)
                         /\ a = SubSeq(buf, 1, j)
  OBVIOUS
<1>2. \A b \in DOMAIN fl : /\ fl[b] \in Seq(Byte) /\ Len(fl[b]) \in Nat /\ sy[b] \in Nat
                           /\ sy[b] <= Len(fl[b])
  BY DEF Disk, Directory
<1>3. /\ DOMAIN gs = DOMAIN fl /\ gs[act] = fl[act] \o a
      /\ \A b \in DOMAIN fl : b # act => gs[b] = fl[b]
  BY <1>1 DEF Handed
<1>4. /\ a \in Seq(Byte) /\ Len(a) = j /\ rest \in Seq(Byte)
      /\ (fl[act] \o a) \o rest = fl[act] \o buf
  BY <1>1, <1>2, SplitBytes DEF Left
<1>5. Len(gs[act]) = Len(fl[act]) + j
  <2>1. fl[act] \in Seq(Byte) /\ a \in Seq(Byte) /\ Len(a) = j
    BY <1>2, <1>4
  <2>2. Len(fl[act] \o a) = Len(fl[act]) + Len(a)
    BY <2>1, ConcatProperties
  <2> QED BY <2>1, <2>2, <1>3
<1>6. \A b \in DOMAIN fl : Len(fl[b]) <= Len(gs[b]) /\ sy[b] <= sy[b]
  <2>1. Len(buf) \in Nat /\ j \in Nat
    OBVIOUS
  <2>2. Len(fl[act]) <= Len(gs[act])
    BY <2>1, <1>2, <1>5
  <2>3. ASSUME NEW b \in DOMAIN fl PROVE Len(fl[b]) <= Len(gs[b]) /\ sy[b] <= sy[b]
    <3>1. Len(fl[b]) \in Nat /\ sy[b] \in Nat
      BY <1>2
    <3>2. CASE b = act
      BY <3>1, <3>2, <2>2
    <3>3. CASE b # act
      <4>1. gs[b] = fl[b]
        BY <3>3, <1>3
      <4> QED BY <4>1, <3>1
    <3> QED BY <3>2, <3>3
  <2> QED BY <2>3
<1>7. \A b \in DOMAIN fl : LogOf(gs, act, rest)[b] = LogOf(fl, act, buf)[b]
  BY <1>3, <1>4 DEF LogOf
<1> QED
  BY <1>1, <1>3, <1>6, <1>7, LogEqual DEF SameLog

LEMMA FlushedSame ==
  ASSUME NEW fl, NEW sy, Disk(fl, sy), NEW act \in DOMAIN fl, NEW buf \in Seq(Byte)
  PROVE  /\ SameLog(fl, sy, act, buf, Flushed(fl, act, buf), sy, act, <<>>)
         /\ SameLog(fl, sy, act, buf, Flushed(fl, act, buf),
                    [sy EXCEPT ![act] = Len(fl[act]) + Len(buf)], act, <<>>)
<1>1. PICK gs, sz : gs = Flushed(fl, act, buf) /\ sz = [sy EXCEPT ![act] = Len(fl[act]) + Len(buf)]
  OBVIOUS
<1>2. /\ \A b \in DOMAIN fl : /\ fl[b] \in Seq(Byte) /\ Len(fl[b]) \in Nat /\ sy[b] \in Nat
                              /\ sy[b] <= Len(fl[b])
      /\ Len(buf) \in Nat /\ sy \in [DOMAIN fl -> Nat]
  BY DEF Disk, Directory
<1>3. /\ DOMAIN gs = DOMAIN fl /\ gs[act] = fl[act] \o buf
      /\ \A b \in DOMAIN fl : b # act => gs[b] = fl[b]
  BY <1>1 DEF Flushed
<1>4. gs[act] \in Seq(Byte) /\ Len(gs[act]) = Len(fl[act]) + Len(buf)
  <2>1. fl[act] \o buf \in Seq(Byte) /\ Len(fl[act] \o buf) = Len(fl[act]) + Len(buf)
    BY <1>2, ConcatProperties
  <2> QED BY <2>1, <1>3
<1>5. sz[act] = Len(fl[act]) + Len(buf) /\ \A b \in DOMAIN fl : b # act => sz[b] = sy[b]
  BY <1>1, <1>2
<1>6. \A b \in DOMAIN fl : Len(fl[b]) <= Len(gs[b]) /\ sy[b] <= sy[b] /\ sy[b] <= sz[b]
  BY <1>2, <1>3, <1>4, <1>5
<1>7. \A b \in DOMAIN fl : LogOf(gs, act, <<>>)[b] = LogOf(fl, act, buf)[b]
  <2>1. gs[act] \o <<>> = gs[act]
    BY <1>4
  <2> QED BY <2>1, <1>3 DEF LogOf
<1>8. LogOf(gs, act, <<>>) = LogOf(fl, act, buf)
  BY <1>3, <1>7, LogEqual
<1> QED
  BY <1>1, <1>3, <1>6, <1>8 DEF SameLog

LEMMA NothingSame ==
  ASSUME NEW fl, NEW sy, Disk(fl, sy), NEW act, NEW buf
  PROVE  SameLog(fl, sy, act, buf, fl, sy, act, buf)
<1>1. \A b \in DOMAIN fl : Len(fl[b]) \in Nat /\ sy[b] \in Nat
  BY DEF Disk, Directory
<1> QED
  BY <1>1 DEF SameLog

LEMMA FlushBufferSame ==
  ASSUME WCore, FlushBuffer, active' = active
  PROVE  /\ synced' = synced =>
              SameLog(files, synced, active, buffer, files', synced', active', buffer')
         /\ synced' = [synced EXCEPT ![active] = WritePos] =>
              SameLog(files, synced, active, buffer, files', synced', active', buffer')
<1>1. files' = Flushed(files, active, buffer) /\ buffer' = <<>>
  BY DEF FlushBuffer, Flushed
<1>2. PICK fl, sy, act, buf : fl = files /\ sy = synced /\ act = active /\ buf = buffer
  OBVIOUS
<1>3. Disk(fl, sy) /\ act \in DOMAIN fl /\ buf \in Seq(Byte)
  BY <1>2 DEF WCore
<1>4. /\ SameLog(fl, sy, act, buf, Flushed(fl, act, buf), sy, act, <<>>)
      /\ SameLog(fl, sy, act, buf, Flushed(fl, act, buf),
                 [sy EXCEPT ![act] = Len(fl[act]) + Len(buf)], act, <<>>)
  BY <1>3, FlushedSame
<1> QED
  BY <1>1, <1>2, <1>4 DEF WritePos

LEMMA FlushBrokenSame ==
  ASSUME WCore, FlushBroken, active' = active, synced' = synced
  PROVE  SameLog(files, synced, active, buffer, files', synced', active', buffer')
<1>1. PICK j \in 0 .. Len(buffer) : files' = Handed(files, active, buffer, j)
                                    /\ buffer' = Left(buffer, j)
  BY DEF FlushBroken, Handed, Left
<1>2. PICK fl, sy, act, buf : fl = files /\ sy = synced /\ act = active /\ buf = buffer
  OBVIOUS
<1>3. Disk(fl, sy) /\ act \in DOMAIN fl /\ buf \in Seq(Byte)
  BY <1>2 DEF WCore
<1>4. SameLog(fl, sy, act, buf, Handed(fl, act, buf, j), sy, act, Left(buf, j))
  BY <1>2, <1>3, HandedSame
<1> QED
  BY <1>1, <1>2, <1>4

\* How much survives grows with the files and with what is on the medium.
LEMMA PlacedGrown ==
  ASSUME NEW fl, NEW sy, Disk(fl, sy), NEW fl2, NEW sy2, Disk(fl2, sy2), NEW lg,
         DOMAIN lg \subseteq DOMAIN fl, DOMAIN lg \subseteq DOMAIN fl2,
         \A b \in DOMAIN lg : Len(fl[b]) <= Len(fl2[b]) /\ sy[b] <= sy2[b]
  PROVE  Grown(sy, sy2, lg) /\ Grown(Placed(fl, sy), Placed(fl2, sy2), lg)
<1>1. \A b \in DOMAIN lg : /\ sy[b] \in Nat /\ sy2[b] \in Nat /\ Len(fl[b]) \in Nat
                           /\ Len(fl2[b]) \in Nat
  BY DEF Disk, Directory
<1>2. Grown(sy, sy2, lg)
  BY <1>1 DEF Grown
<1>3. ASSUME NEW b \in DOMAIN lg, NEW x \in Nat, x <= Placed(fl, sy)[b]
      PROVE  x <= Placed(fl2, sy2)[b]
  <2>1. CASE "power" \in CrashKinds
    <3>1. Placed(fl, sy)[b] = sy[b] /\ Placed(fl2, sy2)[b] = sy2[b]
      BY <2>1 DEF Placed
    <3> QED BY <3>1, <1>1, <1>3
  <2>2. CASE "power" \notin CrashKinds
    <3>1. Placed(fl, sy)[b] = Len(fl[b]) /\ Placed(fl2, sy2)[b] = Len(fl2[b])
      BY <2>2 DEF Placed
    <3> QED BY <3>1, <1>1, <1>3
  <2> QED BY <2>1, <2>2
<1> QED
  BY <1>2, <1>3 DEF Grown

LEMMA HeldGrown ==
  ASSUME W, W', NEW at, NEW low, NEW top, NEW act, Held(at, low, top, act),
         SameLog(files, synced, active, buffer, files', synced', active', buffer'),
         meta' = meta, seen \subseteq seen',
         hard' = hard \/ (Harden /\ Refers(records', at, low, top))
  PROVE  Held(at, low, top, act)'
<1>1. PICK fl, sy, a, buf : fl = files /\ sy = synced /\ a = active /\ buf = buffer
  OBVIOUS
<1>2. PICK fl2, sy2, a2, buf2 : fl2 = files' /\ sy2 = synced' /\ a2 = active' /\ buf2 = buffer'
  OBVIOUS
<1>3. /\ Disk(fl, sy) /\ a \in DOMAIN fl /\ buf \in Seq(Byte)
      /\ Disk(fl2, sy2) /\ a2 \in DOMAIN fl2 /\ buf2 \in Seq(Byte) /\ WCore'
  BY <1>1, <1>2 DEF W, WCore, WRest
<1>4. PICK lg : lg = LogOf(fl, a, buf)
  OBVIOUS
<1>5. SameLog(fl, sy, a, buf, fl2, sy2, a2, buf2)
  BY <1>1, <1>2
<1>6. /\ LogOf(fl2, a2, buf2) = lg /\ DOMAIN fl2 = DOMAIN fl
      /\ \A b \in DOMAIN fl : Len(fl[b]) <= Len(fl2[b]) /\ sy[b] <= sy2[b]
  BY <1>4, <1>5 DEF SameLog
<1>7. Directory(lg) /\ DOMAIN lg = DOMAIN fl
  BY <1>3, <1>4, LogOfIs
<1>8. Measured(sy2, lg)
  BY <1>3, <1>6, LogOfIs
<1>9. Grown(sy, sy2, lg) /\ Grown(Placed(fl, sy), Placed(fl2, sy2), lg)
  BY <1>3, <1>6, <1>7, PlacedGrown
<1>10. PICK mt, sn, sn2, hd, pl, pl2 :
         /\ mt = meta /\ sn = seen /\ sn2 = seen' /\ hd = hard
         /\ pl = Placed(fl, sy) /\ pl2 = Placed(fl2, sy2)
  OBVIOUS
<1>11. Sound(at, low, top, act, lg, sy, pl, mt, sn, hd) /\ Strays(low, lg, sn)
  BY <1>1, <1>4, <1>10 DEF Held
<1>12. Sound(at, low, top, act, lg, sy2, pl2, mt, sn2, hd)
  BY <1>7, <1>8, <1>9, <1>10, <1>11, SoundGrown
<1>13. Sound(at, low, top, act, LogOf(files', active', buffer'), synced', Placed(files', synced'),
             meta', seen', hard)
  BY <1>2, <1>6, <1>10, <1>12
<1>14. Sound(at, low, top, act, LogOf(files', active', buffer'), synced', Placed(files', synced'),
             meta', seen', hard')
  <2>1. CASE hard' = hard
    BY <2>1, <1>13
  <2>2. CASE Harden /\ Refers(records', at, low, top)
    BY <2>2, <1>3, <1>13, SoundHardened
  <2> QED BY <2>1, <2>2
<1>15. Strays(low, lg, sn2)
  <2>1. sn \subseteq sn2
    BY <1>3, <1>10
  <2>2. \A b \in DOMAIN lg : b < low => b \in DOMAIN lg /\ lg[b] = lg[b]
    OBVIOUS
  <2> QED BY <2>1, <2>2, <1>11, StraysKept
<1>16. Strays(low, LogOf(files', active', buffer'), seen')
  BY <1>2, <1>6, <1>10, <1>15
<1> QED
  BY <1>14, <1>16 DEF Held



\* What the dispatcher holds stays in the files.
LEMMA InHandGrown ==
  ASSUME W, W', NEW at, NEW low, NEW top, NEW act,
         Tiled(at, low, top, LogOf(files, active, buffer), act),
         SameLog(files, synced, active, buffer, files', synced', active', buffer'),
         NEW upto, NEW frames, NEW chk,
         InHand(at, low, top, upto, frames, chk, files, LogOf(files, active, buffer))
  PROVE  InHand(at, low, top, upto, frames, chk, files', LogOf(files', active', buffer'))
<1>1. PICK fl, a, buf, fl2, lg, sy, sy2 :
        /\ fl = files /\ a = active /\ buf = buffer /\ sy = synced
        /\ fl2 = files' /\ sy2 = synced' /\ lg = LogOf(files, active, buffer)
  OBVIOUS
<1>2. Disk(fl, sy) /\ Disk(fl2, sy2) /\ a \in DOMAIN fl /\ buf \in Seq(Byte)
  BY <1>1 DEF W, WCore
<1>3. /\ LogOf(files', active', buffer') = lg /\ DOMAIN fl2 = DOMAIN fl
      /\ \A b \in DOMAIN fl : Len(fl[b]) <= Len(fl2[b])
  BY <1>1 DEF SameLog
<1>4. lg = LogOf(fl, a, buf)
  BY <1>1
<1>5. /\ Directory(lg) /\ DOMAIN lg = DOMAIN fl
      /\ \A b \in DOMAIN fl : Len(fl[b]) \in Nat
  BY <1>2, <1>4, LogOfIs
<1>6. \A b \in DOMAIN fl : Len(fl2[b]) \in Nat
  BY <1>2, <1>3 DEF Disk, Directory
<1>7. Tiled(at, low, top, lg, act) /\ InHand(at, low, top, upto, frames, chk, fl, lg)
  BY <1>1
<1>8. low \in Nat /\ top \in Nat /\ upto \in low + 1 .. top
  BY <1>5, <1>7, TiledNat DEF InHand
<1>9. ASSUME NEW o \in low .. upto - 1
      PROVE  End(at[o]) <= Len(fl2[at[o].seg]) /\ (chk <= o => Tkt(lg, at[o]) \in frames)
  <2>1. o \in low .. top - 1
    BY <1>8
  <2>2. at[o].seg \in DOMAIN fl /\ End(at[o]) \in Nat
    BY <2>1, <1>5, <1>7, TiledAt
  <2>3. End(at[o]) <= Len(fl[at[o].seg]) /\ (chk <= o => Tkt(lg, at[o]) \in frames)
    BY <1>7 DEF InHand
  <2>4. End(at[o]) <= Len(fl2[at[o].seg])
    BY <2>2, <2>3, <1>3, <1>5, <1>6, LeqThrough
  <2> QED BY <2>3, <2>4
<1> QED
  BY <1>1, <1>3, <1>8, <1>9 DEF InHand

\* A step that moves bytes on, settles frames or does nothing.
LEMMA QuietKeeps ==
  ASSUME W, W', Keeps, cut' = cut,
         SameLog(files, synced, active, buffer, files', synced', active', buffer'),
         UNCHANGED <<meta, active, baseOffset, records, checkpoint>>,
         mode' = "open" => mode = "open", mode' # "open" => buffer' = <<>>,
         seen \subseteq seen',
         OnMedium' \subseteq hard', hard' = hard \/ (Harden /\ mode = "open"),
         hand'.phase # "idle" => /\ hand.phase # "idle"
                                 /\ hand'.upto = hand.upto /\ hand'.frames = hand.frames,
         hand'.phase = "commit" => hand.phase = "commit" \/ hand'.frames \subseteq seen'
  PROVE  Keeps'
<1> SUFFICES ASSUME ~ cut PROVE Keeps'
  BY DEF Keeps
<1>1. PICK at, low, top, act : /\ Held(at, low, top, act)
                               /\ mode = "open" => Working(at, low, top, act)
  BY DEF Keeps
<1>2. Tiled(at, low, top, LogOf(files, active, buffer), act)
  BY <1>1 DEF Held, Sound
<1>3. mode = "open" => Refers(records', at, low, top)
  <2> SUFFICES ASSUME mode = "open" PROVE Refers(records, at, low, top)
    OBVIOUS
  <2>1. Joined(records, <<>>, at, low, top)
    BY <1>1 DEF Working
  <2>2. PICK fl, sy, a, buf : fl = files /\ sy = synced /\ a = active /\ buf = buffer
    OBVIOUS
  <2>3. Disk(fl, sy) /\ a \in DOMAIN fl /\ buf \in Seq(Byte)
    BY <2>2 DEF W, WCore
  <2>4. Directory(LogOf(fl, a, buf)) /\ Tiled(at, low, top, LogOf(fl, a, buf), act)
    BY <2>2, <2>3, <1>2, LogOfIs
  <2>5. low \in Nat /\ top \in Nat /\ low <= top
    <3>1. /\ low \in Nat /\ act \in Nat /\ top \in Nat /\ low <= act /\ act <= top
      BY <2>4, TiledNat
    <3> QED BY <3>1
  <2>6. PICK recs : recs = records
    OBVIOUS
  <2>7. Joined(recs, <<>>, at, low, top)
    BY <2>1, <2>6
  <2>8. Refers(recs, at, low, top)
    BY <2>5, <2>7, JoinedRefers
  <2> QED BY <2>6, <2>8
<1>4. Held(at, low, top, act)'
  <2>1. hard' = hard \/ (Harden /\ Refers(records', at, low, top))
    BY <1>3
  <2>2. meta' = meta
    OBVIOUS
  <2> QED BY <2>1, <2>2, <1>1, HeldGrown
<1>5. ASSUME mode' = "open" PROVE Working(at, low, top, act)'
  <2>1. Working(at, low, top, act)
    BY <1>1, <1>5
  <2>2. LogOf(files', active', buffer') = LogOf(files, active, buffer)
    BY DEF SameLog
  <2>3. /\ low = baseOffset' /\ act = active' /\ Joined(records', <<>>, at, low, top)
        /\ Len(LogOf(files', active', buffer')[act]) = ValidTo(at, top, act)
        /\ checkpoint' <= meta'
    BY <2>1, <2>2 DEF Working
  <2>4. hand'.phase # "idle" =>
          InHand(at, low, top, hand'.upto, hand'.frames, checkpoint', files',
                 LogOf(files', active', buffer'))
    <3> SUFFICES ASSUME hand'.phase # "idle"
                 PROVE  InHand(at, low, top, hand.upto, hand.frames, checkpoint, files',
                               LogOf(files', active', buffer'))
      OBVIOUS
    <3>1. InHand(at, low, top, hand.upto, hand.frames, checkpoint, files,
                 LogOf(files, active, buffer))
      BY <2>1 DEF Working
    <3> QED BY <3>1, <1>2, InHandGrown
  <2>5. hand'.phase = "commit" => hand'.frames \subseteq seen'
    <3>1. hand.phase = "commit" => hand.frames \subseteq seen
      BY <2>1 DEF Working
    <3> QED BY <3>1
  <2> QED BY <2>3, <2>4, <2>5 DEF Working
<1> QED
  BY <1>4, <1>5 DEF Keeps


LEMMA UnchangedSame ==
  ASSUME WCore, UNCHANGED <<files, synced, active, buffer>>
  PROVE  SameLog(files, synced, active, buffer, files', synced', active', buffer')
<1>1. PICK fl, sy, act, buf : fl = files /\ sy = synced /\ act = active /\ buf = buffer
  OBVIOUS
<1>2. Disk(fl, sy)
  BY <1>1 DEF WCore
<1> QED
  BY <1>1, <1>2, NothingSame

LEMMA LoggedSame ==
  ASSUME WCore
  PROVE  SameLog(files, synced, active, buffer, Logged.files, Logged.synced, active, Logged.buffer)
<1>1. PICK fl, sy, act, buf : fl = files /\ sy = synced /\ act = active /\ buf = buffer
  OBVIOUS
<1>2. Disk(fl, sy) /\ act \in DOMAIN fl /\ buf \in Seq(Byte)
  BY <1>1 DEF WCore
<1>3. CASE SyncPolicy = "SyncBatchCommit"
  <2>1. /\ Logged.files = Flushed(fl, act, buf) /\ Logged.buffer = <<>>
        /\ Logged.synced = [sy EXCEPT ![act] = Len(fl[act]) + Len(buf)]
    BY <1>1, <1>3 DEF Logged, Flushed, WritePos
  <2>2. SameLog(fl, sy, act, buf, Flushed(fl, act, buf),
                [sy EXCEPT ![act] = Len(fl[act]) + Len(buf)], act, <<>>)
    BY <1>2, FlushedSame
  <2> QED BY <2>1, <2>2, <1>1
<1>4. CASE SyncPolicy # "SyncBatchCommit"
  <2>1. Logged.files = files /\ Logged.buffer = buffer /\ Logged.synced = synced
    BY <1>4 DEF Logged
  <2>2. SameLog(fl, sy, act, buf, fl, sy, act, buf)
    BY <1>2, NothingSame
  <2> QED BY <2>1, <2>2, <1>1
<1> QED
  BY <1>3, <1>4

LEMMA HardenedMedium == Harden => OnMedium' \subseteq hard'
BY DEF Harden

LEMMA SinkSettlesKeeps == W /\ W' /\ Keeps /\ SinkSettles => Keeps'
<1> SUFFICES ASSUME W, W', Keeps, ~ cut, SinkSettles PROVE Keeps'
  BY DEF SinkSettles, Keeps
<1>1. /\ hand.phase = "deliver" /\ seen' = seen \union hand.frames
      /\ hand' = [hand EXCEPT !.phase = "commit"]
      /\ UNCHANGED <<files, synced, meta, mode, buffer, writer, active, baseOffset, records,
                     checkpoint, attempts, hard, cut, restarts, faults>>
  BY DEF SinkSettles, disk, memory, bounds
<1>2. hand \in [phase : {"idle", "deliver", "commit"}, upto : Nat,
               frames : SUBSET (1 .. MaxAttempts)]
  BY DEF W, WRest
<1>3. hand'.upto = hand.upto /\ hand'.frames = hand.frames
  BY <1>1, <1>2
<1>4. SameLog(files, synced, active, buffer, files', synced', active', buffer')
  BY <1>1, UnchangedSame DEF W
<1>6. OnMedium' \subseteq hard'
  BY <1>1 DEF Keeps, OnMedium
<1>7. mode # "open" => buffer = <<>>
  BY DEF Keeps
<1> QED
  BY <1>1, <1>3, <1>4, <1>6, <1>7, QuietKeeps

LEMMA SinkFailsKeeps == W /\ W' /\ Keeps /\ SinkFails => Keeps'
<1> SUFFICES ASSUME W, W', Keeps, ~ cut, SinkFails PROVE Keeps'
  BY DEF SinkFails, Keeps
<1>1. /\ hand' = Idle
      /\ UNCHANGED <<files, synced, meta, mode, buffer, writer, active, baseOffset, records,
                     checkpoint, attempts, hard, seen, cut, restarts, faults>>
  BY DEF SinkFails, disk, memory, bounds
<1>3. hand'.phase = "idle"
  BY <1>1 DEF Idle
<1>4. SameLog(files, synced, active, buffer, files', synced', active', buffer')
  BY <1>1, UnchangedSame DEF W
<1>6. OnMedium' \subseteq hard'
  BY <1>1 DEF Keeps, OnMedium
<1>7. mode # "open" => buffer = <<>>
  BY DEF Keeps
<1> QED
  BY <1>1, <1>3, <1>4, <1>6, <1>7, QuietKeeps

LEMMA StutterKeeps == W /\ W' /\ Keeps /\ UNCHANGED vars => Keeps'
BY DEF vars, disk, memory, bounds, Keeps, OnMedium, Held, Working

LEMMA FlushKeeps == W /\ W' /\ Keeps /\ Flush => Keeps'
<1> SUFFICES ASSUME W, W', Keeps, Flush PROVE Keeps'
  OBVIOUS
<1>1. /\ mode = "open" /\ Harden
      /\ UNCHANGED <<meta, mode, active, baseOffset, records, checkpoint, hand, attempts, seen,
                     cut, restarts>>
  BY DEF Flush
<1>2. WCore
  BY DEF W, WRest
<1>3. SameLog(files, synced, active, buffer, files', synced', active', buffer')
  BY <1>1, <1>2, FlushBufferSame, FlushBrokenSame DEF Flush
<1>5. mode' = "open" /\ OnMedium' \subseteq hard'
  BY <1>1, HardenedMedium
<1> QED
  BY <1>1, <1>3, <1>5, QuietKeeps

LEMMA RotationFailedKeeps == W /\ W' /\ Keeps /\ (\E n \in Sizes : RotationFailed(n)) => Keeps'
<1> SUFFICES ASSUME W, W', Keeps, NEW n \in Sizes, RotationFailed(n) PROVE Keeps'
  OBVIOUS
<1>1. /\ mode = "open" /\ Harden
      /\ UNCHANGED <<meta, active, baseOffset, records, checkpoint, hand, attempts, seen, cut,
         restarts>>
  BY DEF RotationFailed, Admitted
<1>2. WCore
  BY DEF W, WRest
<1>3. SameLog(files, synced, active, buffer, files', synced', active', buffer')
  <2>1. CASE UNCHANGED <<files, buffer, writer, synced, mode, active, faults>>
    BY <2>1, <1>2, UnchangedSame
  <2>2. CASE FlushBroken /\ UNCHANGED <<synced, mode, active>>
    BY <2>2, <1>2, FlushBrokenSame
  <2>3. CASE FlushBuffer /\ UNCHANGED <<synced, mode, active>>
    BY <2>3, <1>2, FlushBufferSame
  <2>4. CASE FlushBuffer /\ synced' = [synced EXCEPT ![active] = WritePos] /\ UNCHANGED active
    BY <2>4, <1>2, FlushBufferSame
  <2> QED BY <2>1, <2>2, <2>3, <2>4 DEF RotationFailed
<1>5. OnMedium' \subseteq hard'
  BY <1>1, HardenedMedium
<1>6. mode' = "open" \/ buffer' = <<>>
  BY <1>1 DEF RotationFailed, FlushBuffer
<1> QED
  BY <1>1, <1>3, <1>5, <1>6, QuietKeeps

LEMMA CommitNothingKeeps == W /\ W' /\ Keeps /\ CommitNothing => Keeps'
<1> SUFFICES ASSUME W, W', Keeps, ~ cut, CommitNothing PROVE Keeps'
  BY DEF CommitNothing, Keeps
<1>1. /\ hand' = Idle /\ Harden
      /\ UNCHANGED <<meta, mode, active, baseOffset, records, checkpoint, attempts, seen,
                     cut, restarts>>
  BY DEF CommitNothing
<1>2. WCore
  BY DEF W, WRest
<1>3. hand'.phase = "idle"
  BY <1>1 DEF Idle
<1>4. mode # "open" => buffer = <<>>
  BY DEF Keeps
<1>5. \/ UNCHANGED <<files, synced, buffer, faults>>
      \/ /\ mode = "open" /\ IOError
         /\ files' = Logged.files /\ synced' = Logged.synced /\ buffer' = Logged.buffer
      \/ mode = "open" /\ FlushBroken /\ UNCHANGED synced
      \/ mode = "open" /\ FlushBuffer /\ IOError /\ UNCHANGED synced
  BY DEF CommitNothing, Committing
<1>6. SameLog(files, synced, active, buffer, files', synced', active', buffer')
  <2>1. CASE UNCHANGED <<files, synced, buffer, faults>>
    BY <2>1, <1>1, <1>2, UnchangedSame
  <2>2. CASE files' = Logged.files /\ synced' = Logged.synced /\ buffer' = Logged.buffer
    <3>1. active' = active
      BY <1>1
    <3> QED BY <2>2, <3>1, <1>2, LoggedSame
  <2>3. CASE FlushBroken /\ UNCHANGED synced
    BY <2>3, <1>1, <1>2, FlushBrokenSame
  <2>4. CASE FlushBuffer /\ UNCHANGED synced
    BY <2>4, <1>1, <1>2, FlushBufferSame
  <2> QED BY <2>1, <2>2, <2>3, <2>4, <1>5
<1>8. OnMedium' \subseteq hard'
  BY <1>1, HardenedMedium
<1>9. hard' = hard \/ (Harden /\ mode = "open")
  <2> SUFFICES ASSUME mode # "open" PROVE hard' = hard
    BY <1>1
  <2>1. UNCHANGED <<files, synced, records>>
    BY <1>1, <1>5
  <2>2. OnMedium' = OnMedium
    BY <2>1 DEF OnMedium
  <2> QED BY <2>2, <1>1 DEF Harden, Keeps
<1>10. mode' # "open" => buffer' = <<>>
  BY <1>1, <1>4, <1>5
<1> QED
  BY <1>1, <1>3, <1>6, <1>8, <1>9, <1>10, QuietKeeps


\* All that a flushed index refers to can be read.
LEMMA IndexRead ==
  ASSUME NEW fl, NEW sy, Disk(fl, sy), NEW act \in DOMAIN fl, NEW at, NEW low, NEW top, NEW last,
         Tiled(at, low, top, LogOf(fl, act, <<>>), last), NEW o \in low .. top - 1
  PROVE  /\ IsFrame(Image(at[o], fl))
         /\ Image(at[o], fl)[1].tkt = Tkt(LogOf(fl, act, <<>>), at[o])
         /\ End(at[o]) <= Len(fl[at[o].seg])
<1>1. PICK lg, none : none = <<>> /\ lg = LogOf(fl, act, none)
  OBVIOUS
<1>2. none \in Seq(Byte) /\ act \in DOMAIN fl /\ Disk(fl, sy)
  BY <1>1
<1>a. Directory(lg) /\ DOMAIN lg = DOMAIN fl
  BY <1>1, <1>2, LogOfIs
<1>b. lg[act] = fl[act] \o none /\ \A b \in DOMAIN fl : b # act => lg[b] = fl[b] \o <<>>
  BY <1>1, <1>2 DEF LogOf
<1>c. \A b \in DOMAIN fl : fl[b] \in Seq(Byte)
  BY <1>2 DEF Disk, Directory
<1>3. /\ Directory(lg) /\ DOMAIN lg = DOMAIN fl
      /\ \A b \in DOMAIN fl : lg[b] = fl[b] \o <<>>
  BY <1>1, <1>2, <1>a, <1>b
<1>4. \A b \in DOMAIN fl : fl[b] \in Seq(Byte) /\ fl[b] \o <<>> = fl[b]
  BY <1>c
<1>5. PICK e, b : e = at[o] /\ b = at[o].seg
  OBVIOUS
<1>6. e \in Entry /\ b \in DOMAIN fl
  BY <1>1, <1>3, <1>5, TiledAt
<1>7. FrameAt(lg[b], e)
  BY <1>1, <1>5 DEF Tiled
<1>8. lg[b] = fl[b] /\ fl[b] \in Seq(Byte)
  BY <1>3, <1>4, <1>6
<1>9. FrameAt(fl[b], e)
  BY <1>7, <1>8
<1>10. /\ IsFrame(SubSeq(fl[b], e.pos + 1, End(e)))
       /\ SubSeq(fl[b], e.pos + 1, End(e))[1].tkt = fl[b][e.pos + 1].tkt
  BY <1>6, <1>8, <1>9, FrameRead
<1>11. End(e) <= Len(fl[b])
  BY <1>9 DEF FrameAt
<1> QED
  BY <1>1, <1>5, <1>8, <1>10, <1>11 DEF Image, Tkt

LEMMA ReadBatchKeeps == W /\ W' /\ Keeps /\ ReadBatch => Keeps'
<1> SUFFICES ASSUME W, W', Keeps, ~ cut, ReadBatch PROVE Keeps'
  BY DEF ReadBatch, Keeps
<1>1. /\ mode = "open" /\ FlushBuffer /\ Harden /\ buffer' = <<>>
      /\ UNCHANGED <<synced, meta, mode, active, baseOffset, records, checkpoint, attempts,
                     seen, cut, restarts, faults>>
  BY DEF ReadBatch, FlushBuffer, bounds
<1>2. WCore /\ WCore' /\ checkpoint \in Nat
  BY DEF W, WRest
<1>3. PICK at, low, top, act : Held(at, low, top, act) /\ Working(at, low, top, act)
  BY <1>1 DEF Keeps
<1>4. SameLog(files, synced, active, buffer, files', synced', active', buffer')
  BY <1>1, <1>2, FlushBufferSame
<1>5. PICK fl, fl2, sy2, recs, lg :
        /\ fl = files /\ fl2 = files' /\ sy2 = synced' /\ recs = records
        /\ lg = LogOf(files', active', buffer')
  OBVIOUS
<1>6. /\ Disk(fl2, sy2) /\ act = active /\ active' = active /\ active \in DOMAIN fl2
      /\ lg = LogOf(fl2, active, <<>>)
  BY <1>1, <1>2, <1>3, <1>5 DEF WCore, Working
<1>7. lg = LogOf(files, active, buffer)
  BY <1>4, <1>5 DEF SameLog
<1>8. Tiled(at, low, top, lg, act)
  BY <1>3, <1>7 DEF Held, Sound
<1>9. Directory(lg)
  <2>1. <<>> \in Seq(Byte)
    OBVIOUS
  <2> QED BY <1>6, <2>1, LogOfIs
<1>10. low \in Nat /\ top \in Nat /\ low <= top
  <2>1. low \in Nat /\ act \in Nat /\ top \in Nat /\ low <= act /\ act <= top
    BY <1>8, <1>9, TiledNat
  <2> QED BY <2>1
<1>11. Joined(recs, <<>>, at, low, top)
  BY <1>3, <1>5 DEF Working
<1>12. /\ Refers(recs, at, low, top) /\ Len(recs) = top - low
       /\ \A o \in low .. top - 1 : recs[(o - low) + 1] = at[o]
       /\ \A i \in 1 .. Len(recs) : low + (i - 1) \in low .. top - 1 /\ recs[i] = at[low + (i - 1)]
  BY <1>10, <1>11, JoinedRefers
<1>13. Held(at, low, top, act)'
  <2>1. hard' = hard \/ (Harden /\ Refers(records', at, low, top))
    BY <1>1, <1>5, <1>12
  <2>2. meta' = meta /\ seen \subseteq seen'
    BY <1>1, <1>2
  <2> QED BY <2>1, <2>2, <1>3, <1>4, HeldGrown
<1>14. \A o \in low .. top - 1 : /\ IsFrame(Image(at[o], fl2))
                                 /\ Image(at[o], fl2)[1].tkt = Tkt(lg, at[o])
                                 /\ End(at[o]) <= Len(fl2[at[o].seg])
  BY <1>6, <1>8, IndexRead
<1> DEFINE from    == Start(baseOffset, checkpoint) + 1
           to      == Min2(from + BatchSize - 1, Len(records))
           good(i) == IsFrame(Image(records[i], files'))
           upto    == Max({from} \union {i \in from .. to : \A j \in from .. i : good(j)})
           frames  == {Image(records[i], files')[1].tkt : i \in {j \in from .. upto : good(j)}}
<1>15. /\ from <= Len(records)
       /\ hand' = [phase  |-> IF good(from) THEN "deliver" ELSE "commit",
                   upto   |-> records[upto].off + 1, frames |-> frames]
  BY DEF ReadBatch
<1>16. from \in Nat \ {0} /\ from <= Len(recs) /\ (checkpoint <= low \/ from = checkpoint - low + 1)
  <2>1. baseOffset = low
    BY <1>3 DEF Working
  <2>2. from <= Len(recs)
    BY <1>15, <1>5
  <2> QED BY <2>1, <2>2, <1>2, <1>10 DEF Start
<1>17. upto \in from .. Len(recs)
  <2> DEFINE T == {from} \union {i \in from .. to : \A j \in from .. i : good(j)}
  <2>1. BatchSize \in Nat /\ Len(recs) \in Nat
    BY <1>10, <1>12, WalSegmentsAssumption
  <2>2. to \in Int /\ to <= Len(recs)
    BY <2>1, <1>5, <1>16 DEF Min2
  <2>3. \A x \in T : x \in from .. Len(recs)
    BY <2>2, <2>1, <1>16
  <2>4. T \in SUBSET Nat /\ T # {} /\ \A x \in T : x <= Len(recs)
    BY <2>3, <2>1, <1>16
  <2> HIDE DEF T
  <2>5. Max(T) \in T
    BY <2>1, <2>4, MaxBounded
  <2> QED BY <2>3, <2>5 DEF T
<1> HIDE DEF upto
<1>18. \A i \in 1 .. Len(recs) :
         /\ good(i) /\ Image(records[i], files')[1].tkt = Tkt(lg, at[low + (i - 1)])
  BY <1>5, <1>12, <1>14
<1> HIDE DEF from
<1>19. good(from)
  BY <1>16, <1>17, <1>18, <1>12, <1>10
<1>20. hand'.phase = "deliver" /\ hand'.upto = records[upto].off + 1 /\ hand'.frames = frames
  BY <1>15, <1>19
<1>21. records[upto].off = low + (upto - 1)
  <2>1. upto \in 1 .. Len(recs)
    BY <1>16, <1>17, <1>12, <1>10
  <2>2. recs[upto] = at[low + (upto - 1)] /\ low + (upto - 1) \in low .. top - 1
    BY <2>1, <1>12
  <2>3. at[low + (upto - 1)].off = low + (upto - 1)
    BY <2>2, <1>8 DEF Tiled
  <2> QED BY <2>2, <2>3, <1>5
<1>22. hand'.upto \in low + 1 .. top /\ hand'.upto = low + upto
  BY <1>10, <1>12, <1>16, <1>17, <1>20, <1>21
<1>23. ASSUME NEW o \in low .. hand'.upto - 1, checkpoint <= o
       PROVE  Tkt(lg, at[o]) \in frames
  <2>1. PICK i : i = (o - low) + 1
    OBVIOUS
  <2>a. upto \in Nat
    BY <1>10, <1>12, <1>16, <1>17
  <2>2. o \in Nat /\ low <= o /\ o < low + upto /\ upto \in Nat
    BY <2>a, <1>10, <1>22, <1>23
  <2>3. i \in 1 .. upto /\ low + (i - 1) = o
    BY <2>1, <2>2, <1>10
  <2>4. from <= i
    <3>1. CASE checkpoint <= low
      <4>1. from = 1
        BY <3>1, <1>2, <1>3, <1>10 DEF Working, Start, from
      <4> QED BY <4>1, <2>3
    <3>2. CASE from = checkpoint - low + 1
      BY <3>2, <2>1, <2>2, <1>2, <1>10, <1>23
    <3> QED BY <3>1, <3>2, <1>16
  <2>5. i \in from .. upto /\ i \in 1 .. Len(recs)
    BY <2>3, <2>4, <1>10, <1>12, <1>16, <1>17
  <2>6. good(i) /\ Image(records[i], files')[1].tkt = Tkt(lg, at[o])
    BY <2>3, <2>5, <1>18
  <2> QED BY <2>5, <2>6
<1> HIDE DEF frames
<1>24. ASSUME NEW o \in low .. hand'.upto - 1
       PROVE  End(at[o]) <= Len(fl2[at[o].seg])
  <2>1. o \in low .. top - 1
    BY <1>10, <1>22
  <2> QED BY <2>1, <1>14
<1>25. InHand(at, low, top, hand'.upto, hand'.frames, checkpoint, fl2, lg)
  BY <1>20, <1>22, <1>23, <1>24 DEF InHand
<1>26. Working(at, low, top, act)'
  <2>1. /\ low = baseOffset' /\ act = active' /\ Joined(records', <<>>, at, low, top)
        /\ Len(lg[act]) = ValidTo(at, top, act) /\ checkpoint' <= meta'
    BY <1>1, <1>3, <1>7 DEF Working
  <2>2. checkpoint' = checkpoint
    BY <1>1
  <2> QED BY <2>1, <2>2, <1>5, <1>20, <1>25 DEF Working
<1>27. mode' = "open" /\ OnMedium' \subseteq hard'
  BY <1>1, HardenedMedium
<1> QED
  BY <1>13, <1>26, <1>27 DEF Keeps


-----------------------------------------------------------------------------
(* Append *)

\* What the dispatcher holds is where it was.
LEMMA InHandMoved ==
  ASSUME NEW at, NEW low, NEW top, NEW upto, NEW frames, NEW chk, NEW fl, NEW lg,
         InHand(at, low, top, upto, frames, chk, fl, lg),
         NEW at2, NEW top2, NEW fl2, NEW lg2, upto \in low + 1 .. top2,
         \A o \in low .. upto - 1 : /\ at2[o] = at[o]
                                    /\ End(at[o]) <= Len(fl2[at[o].seg])
                                    /\ Tkt(lg2, at[o]) = Tkt(lg, at[o])
  PROVE  InHand(at2, low, top2, upto, frames, chk, fl2, lg2)
BY DEF InHand

\* The directory when the active segment has been closed and the next one opened.
RotatedFiles(fl, act, buf, new)  == With([fl EXCEPT ![act] = @ \o buf], new, <<>>)
RotatedSynced(sy, fl, act, buf, new) ==
  With([sy EXCEPT ![act] = Len(fl[act]) + Len(buf)], new, 0)

\* The log of the directory fs, with the next segment open, is that of fl.
NextOpened(fl, act, buf, at, low, top, mt, sn, hd, fs, sz) ==
  /\ Sound(at, low, top, top, LogOf(fs, top, <<>>), sz, Placed(fs, sz), mt, sn, hd)
  /\ Strays(low, LogOf(fs, top, <<>>), sn)
  /\ Len(LogOf(fs, top, <<>>)[top]) = ValidTo(at, top, top)
  /\ top \notin DOMAIN fl
  /\ \A b \in DOMAIN fl : /\ b \in DOMAIN fs /\ Len(fl[b]) <= Len(fs[b])
                          /\ LogOf(fs, top, <<>>)[b] = LogOf(fl, act, buf)[b]

LEMMA RotatedHeld ==
  ASSUME NEW fl, NEW sy, Disk(fl, sy), NEW act \in DOMAIN fl, NEW buf \in Seq(Byte),
         NEW at, NEW low, NEW top, NEW mt, NEW sn, NEW hd,
         Sound(at, low, top, act, LogOf(fl, act, buf), sy, Placed(fl, sy), mt, sn, hd),
         Strays(low, LogOf(fl, act, buf), sn),
         Len(LogOf(fl, act, buf)[act]) = ValidTo(at, top, act), Len(fl[act]) + Len(buf) > 0
  PROVE  NextOpened(fl, act, buf, at, low, top, mt, sn, hd, RotatedFiles(fl, act, buf, top),
                    RotatedSynced(sy, fl, act, buf, top))
<1>0. PICK fs, sz : /\ fs = RotatedFiles(fl, act, buf, top)
                    /\ sz = RotatedSynced(sy, fl, act, buf, top)
  OBVIOUS
<1>1. PICK lg : lg = LogOf(fl, act, buf)
  OBVIOUS
<1>2. Disk(fl, sy) /\ act \in DOMAIN fl /\ buf \in Seq(Byte)
  OBVIOUS
<1>3. /\ Directory(lg) /\ DOMAIN lg = DOMAIN fl /\ Measured(sy, lg)
      /\ \A b \in DOMAIN fl : /\ lg[b] \in Seq(Byte) /\ Len(fl[b]) \in Nat /\ Len(lg[b]) \in Nat
                              /\ b # act => lg[b] = fl[b]
                              /\ Len(lg[b]) = Len(fl[b]) + (IF b = act THEN Len(buf) ELSE 0)
                              /\ Len(fl[b]) <= Len(lg[b])
      /\ lg[act] = fl[act] \o buf
  BY <1>1, <1>2, LogOfIs
<1>4. /\ Tiled(at, low, top, lg, act)
      /\ \A b \in DOMAIN lg : b # act => sy[b] = Len(lg[b])
  BY <1>1 DEF Sound
<1>5. /\ low \in Nat /\ act \in Nat /\ top \in Nat /\ low <= act /\ act <= top
      /\ \A c \in DOMAIN lg : c <= act
  BY <1>3, <1>4, TiledNat
<1>6. act # top /\ Len(lg[act]) = ValidTo(at, top, act)
  <2>1. Len(lg[act]) > 0 /\ Len(lg[act]) = ValidTo(at, top, act)
    BY <1>1, <1>2, <1>3
  <2> QED BY <2>1 DEF ValidTo
<1>7. top \notin DOMAIN fl
  BY <1>3, <1>5, <1>6
<1>8. PICK gs, gz : gs = [fl EXCEPT ![act] = @ \o buf]
                    /\ gz = [sy EXCEPT ![act] = Len(fl[act]) + Len(buf)]
  OBVIOUS
<1>9. /\ fl = [b \in DOMAIN fl |-> fl[b]] /\ sy \in [DOMAIN fl -> Nat]
  BY <1>2 DEF Disk, Directory
<1>10. /\ DOMAIN gs = DOMAIN fl /\ \A b \in DOMAIN fl : gs[b] = lg[b]
  BY <1>8, <1>9, <1>3
<1>11. DOMAIN gz = DOMAIN fl /\ \A b \in DOMAIN fl : gz[b] = Len(lg[b])
  BY <1>8, <1>9, <1>3, <1>4
<1>12. /\ DOMAIN fs = DOMAIN fl \union {top} /\ fs[top] = <<>>
       /\ \A b \in DOMAIN fl : fs[b] = lg[b]
  BY <1>0, <1>7, <1>8, <1>10 DEF With, RotatedFiles
<1>13. /\ sz[top] = 0 /\ \A b \in DOMAIN lg : sz[b] = Len(lg[b])
  BY <1>0, <1>7, <1>8, <1>11, <1>3 DEF With, RotatedSynced
<1>14. \A b \in DOMAIN fs : fs[b] \in Seq(Byte)
  <2>1. <<>> \in Seq(Byte)
    OBVIOUS
  <2> QED BY <2>1, <1>3, <1>12
<1>15. \A b \in DOMAIN fs : LogOf(fs, top, <<>>)[b] = fs[b]
  <2>1. \A b \in DOMAIN fs : LogOf(fs, top, <<>>)[b] = fs[b] \o <<>>
    BY DEF LogOf
  <2>2. \A b \in DOMAIN fs : fs[b] \o <<>> = fs[b]
    BY <1>14
  <2> QED BY <2>1, <2>2
<1>16. LogOf(fs, top, <<>>) = With(lg, top, <<>>)
  <2>1. PICK x, y : x = LogOf(fs, top, <<>>) /\ y = With(lg, top, <<>>)
    OBVIOUS
  <2>2. x = [b \in DOMAIN fs |-> x[b]]
    BY <2>1 DEF LogOf
  <2>3. y = [b \in DOMAIN lg \union {top} |-> y[b]] /\ y[top] = <<>>
        /\ \A b \in DOMAIN lg : y[b] = lg[b]
    BY <2>1, <1>3, <1>7 DEF With
  <2>4. \A b \in DOMAIN fs : x[b] = y[b]
    BY <2>1, <2>3, <1>3, <1>12, <1>15
  <2> QED BY <2>1, <2>2, <2>3, <2>4, <1>3, <1>12
<1>17. Grown(Placed(fl, sy), Placed(fs, sz), lg)
  <2>1. ASSUME NEW b \in DOMAIN lg PROVE Placed(fs, sz)[b] = Len(lg[b])
    <3>1. b \in DOMAIN fs /\ Len(fs[b]) = Len(lg[b]) /\ sz[b] = Len(lg[b])
      BY <1>3, <1>12, <1>13
    <3> QED BY <3>1 DEF Placed
  <2> QED BY <2>1 DEF Grown
<1>18. PICK pl, pl2, sy2 : pl = Placed(fl, sy) /\ pl2 = Placed(fs, sz) /\ sy2 = sz
  OBVIOUS
<1>19. Sound(at, low, top, act, lg, sy, pl, mt, sn, hd) /\ Grown(pl, pl2, lg)
  BY <1>1, <1>17, <1>18
<1>a. /\ sy2[top] = 0 /\ \A b \in DOMAIN lg : sy2[b] = Len(lg[b])
  BY <1>13, <1>18
<1>b. Directory(lg) /\ Len(lg[act]) = ValidTo(at, top, act) /\ act # top
  BY <1>3, <1>6
<1>20. /\ Sound(at, low, top, top, With(lg, top, <<>>), sy2, pl2, mt, sn, hd)
       /\ Len(With(lg, top, <<>>)[top]) = ValidTo(at, top, top)
  BY <1>a, <1>b, <1>19, SoundRotated
<1>21. PICK lg2 : lg2 = LogOf(fs, top, <<>>)
  OBVIOUS
<1>22. \A b \in DOMAIN lg2 : b < low => b \in DOMAIN lg /\ lg2[b] = lg[b]
  <2>1. DOMAIN lg2 = DOMAIN fs
    BY <1>21 DEF LogOf
  <2>2. ~ (top < low)
    BY <1>5
  <2> QED BY <2>1, <2>2, <1>3, <1>12, <1>15, <1>21
<1>23. Strays(low, lg2, sn)
  <2>1. Strays(low, lg, sn) /\ sn \subseteq sn
    BY <1>1
  <2> QED BY <2>1, <1>22, StraysKept
<1>24. \A b \in DOMAIN fl : b \in DOMAIN fs /\ Len(fl[b]) <= Len(fs[b]) /\ lg2[b] = lg[b]
  BY <1>3, <1>12, <1>15, <1>21
<1> QED
  <2>1. /\ Sound(at, low, top, top, LogOf(fs, top, <<>>), sz, Placed(fs, sz), mt, sn, hd)
        /\ Strays(low, LogOf(fs, top, <<>>), sn)
        /\ Len(LogOf(fs, top, <<>>)[top]) = ValidTo(at, top, top)
    BY <1>16, <1>18, <1>20, <1>21, <1>23
  <2>2. \A b \in DOMAIN fl : /\ b \in DOMAIN fs /\ Len(fl[b]) <= Len(fs[b])
                             /\ LogOf(fs, top, <<>>)[b] = LogOf(fl, act, buf)[b]
    BY <1>1, <1>21, <1>24
  <2> QED BY <2>1, <2>2, <1>0, <1>7 DEF NextOpened

\* Where a frame goes, the log is complete.
LEMMA SlotHeld ==
  ASSUME W, NEW at, NEW low, NEW top, NEW act, Held(at, low, top, act), Working(at, low, top, act),
         NEW n, NEW fs, NEW sz, NEW a, NEW buf,
         fs = Slot(n).files, sz = Slot(n).synced, a = Slot(n).active, buf = Slot(n).buffer
  PROVE  /\ Sound(at, low, top, a, LogOf(fs, a, buf), sz, Placed(fs, sz), meta, seen, hard)
         /\ Strays(low, LogOf(fs, a, buf), seen)
         /\ Len(LogOf(fs, a, buf)[a]) = ValidTo(at, top, a)
         /\ NextOffset = top /\ (NeedsRotation(n) => FreshName)
         /\ \A b \in DOMAIN files :
              /\ b \in DOMAIN fs /\ Len(files[b]) <= Len(fs[b])
              /\ LogOf(fs, a, buf)[b] = LogOf(files, active, buffer)[b]
<1>1. PICK fl, sy, b0 : fl = files /\ sy = synced /\ b0 = buffer
  OBVIOUS
<1>2. /\ Disk(fl, sy) /\ act \in DOMAIN fl /\ b0 \in Seq(Byte) /\ act = active
  BY <1>1 DEF W, WCore, WRest, Working
<1>3. /\ Sound(at, low, top, act, LogOf(fl, act, b0), sy, Placed(fl, sy), meta, seen, hard)
      /\ Strays(low, LogOf(fl, act, b0), seen)
      /\ Len(LogOf(fl, act, b0)[act]) = ValidTo(at, top, act)
  BY <1>1, <1>2 DEF Held, Working
<1>4. NextOffset = top
  <2>1. Directory(LogOf(fl, act, b0)) /\ Tiled(at, low, top, LogOf(fl, act, b0), act)
    BY <1>2, <1>3, LogOfIs DEF Sound
  <2>2. low \in Nat /\ act \in Nat /\ top \in Nat /\ low <= act /\ act <= top
    BY <2>1, TiledNat
  <2>3. low <= top
    BY <2>2
  <2>4. PICK recs : recs = records
    OBVIOUS
  <2>5. Joined(recs, <<>>, at, low, top)
    BY <2>4 DEF Working
  <2>6. Len(recs) = top - low
    BY <2>2, <2>3, <2>5, JoinedRefers
  <2> QED BY <2>2, <2>4, <2>6 DEF NextOffset, Working
<1>5. \A b \in DOMAIN fl : Len(fl[b]) \in Nat
  BY <1>2 DEF Disk, Directory
<1>6. CASE ~ NeedsRotation(n)
  <2>1. fs = fl /\ sz = sy /\ a = act /\ buf = b0
    BY <1>1, <1>2, <1>6 DEF Slot
  <2>2. \A b \in DOMAIN fl : Len(fl[b]) <= Len(fl[b])
    BY <1>5
  <2> QED BY <2>1, <2>2, <1>1, <1>2, <1>3, <1>4, <1>6
<1>7. CASE NeedsRotation(n)
  <2>1. /\ a = top /\ buf = <<>>
        /\ fs = RotatedFiles(fl, act, b0, top) /\ sz = RotatedSynced(sy, fl, act, b0, top)
    BY <1>1, <1>2, <1>4, <1>7 DEF Slot, Rotated, WritePos, RotatedFiles, RotatedSynced
  <2>2. Len(fl[act]) + Len(b0) > 0
    BY <1>1, <1>2, <1>7 DEF NeedsRotation, WritePos
  <2>3. PICK mt, sn, hd : mt = meta /\ sn = seen /\ hd = hard
    OBVIOUS
  <2>4. /\ Sound(at, low, top, act, LogOf(fl, act, b0), sy, Placed(fl, sy), mt, sn, hd)
        /\ Strays(low, LogOf(fl, act, b0), sn)
    BY <2>3, <1>2, <1>3
  <2>a. Disk(fl, sy) /\ act \in DOMAIN fl /\ b0 \in Seq(Byte)
    BY <1>2
  <2>b. Len(LogOf(fl, act, b0)[act]) = ValidTo(at, top, act)
    BY <1>3
  <2>c. fs = RotatedFiles(fl, act, b0, top) /\ sz = RotatedSynced(sy, fl, act, b0, top)
    BY <2>1
  <2>d. NextOpened(fl, act, b0, at, low, top, mt, sn, hd, RotatedFiles(fl, act, b0, top),
                   RotatedSynced(sy, fl, act, b0, top))
    BY <2>2, <2>4, <2>a, <2>b, RotatedHeld
  <2>e. NextOpened(fl, act, b0, at, low, top, mt, sn, hd, fs, sz)
    BY <2>c, <2>d
  <2>5. /\ Sound(at, low, top, top, LogOf(fs, top, <<>>), sz, Placed(fs, sz), mt, sn, hd)
        /\ Strays(low, LogOf(fs, top, <<>>), sn)
        /\ Len(LogOf(fs, top, <<>>)[top]) = ValidTo(at, top, top)
        /\ top \notin DOMAIN fl
        /\ \A b \in DOMAIN fl : /\ b \in DOMAIN fs /\ Len(fl[b]) <= Len(fs[b])
                                /\ LogOf(fs, top, <<>>)[b] = LogOf(fl, act, b0)[b]
    BY <2>e DEF NextOpened
  <2>6. FreshName
    BY <2>5, <1>1, <1>4 DEF FreshName
  <2> QED BY <2>1, <2>3, <2>5, <2>6, <1>1, <1>2, <1>4
<1> QED
  BY <1>6, <1>7


LEMMA ThreeParts ==
  ASSUME NEW S, NEW x \in Seq(S), NEW y \in Seq(S), NEW z \in Seq(S)
  PROVE  (x \o y) \o z = x \o (y \o z)
BY ConcatAssociative

LEMMA ThreePieces ==
  ASSUME NEW x \in Seq(Byte), NEW y \in Seq(Byte), NEW z \in Seq(Byte)
  PROVE  (x \o y) \o z = x \o (y \o z)
BY ThreeParts

\* The log with one frame more, wherever its bytes are.
LEMMA LongerLog ==
  ASSUME NEW fs, NEW sz, Disk(fs, sz), NEW a \in DOMAIN fs, NEW buf \in Seq(Byte),
         NEW n \in Sizes, NEW t \in 1 .. MaxAttempts, NEW k \in 0 .. Len(buf) + n
  PROVE  /\ Longer(LogOf(fs, a, buf),
                   LogOf(Handed(fs, a, buf \o Bytes(t, n), k), a, Left(buf \o Bytes(t, n), k)),
                   a, t, n)
         /\ DOMAIN Handed(fs, a, buf \o Bytes(t, n), k) = DOMAIN fs
         /\ \A b \in DOMAIN fs : Len(fs[b]) <= Len(Handed(fs, a, buf \o Bytes(t, n), k)[b])
<1>1. PICK new, all, x : new = Bytes(t, n) /\ all = buf \o new /\ x = fs[a]
  OBVIOUS
<1>2. /\ new \in Seq(Byte) /\ Len(new) = n /\ n \in Nat
  BY <1>1, BytesTyped
<1>3. /\ x \in Seq(Byte) /\ \A b \in DOMAIN fs : fs[b] \in Seq(Byte) /\ Len(fs[b]) \in Nat
  BY <1>1 DEF Disk, Directory
<1>4. all \in Seq(Byte) /\ Len(all) = Len(buf) + n
  BY <1>1, <1>2, ConcatProperties
<1>5. k \in 0 .. Len(all)
  BY <1>4
<1>6. PICK head, tail : head = SubSeq(all, 1, k) /\ tail = SubSeq(all, k + 1, Len(all))
  OBVIOUS
<1>7. head \in Seq(Byte) /\ tail \in Seq(Byte) /\ (x \o head) \o tail = x \o all
  BY <1>3, <1>4, <1>5, <1>6, SplitBytes
<1>8. x \o all = (x \o buf) \o new
  <2>1. x \in Seq(Byte) /\ buf \in Seq(Byte) /\ new \in Seq(Byte)
    BY <1>2, <1>3
  <2>2. (x \o buf) \o new = x \o (buf \o new)
    BY <2>1, ThreePieces
  <2> QED BY <2>2, <1>1
<1>9. PICK gs, rest : gs = Handed(fs, a, all, k) /\ rest = Left(all, k)
  OBVIOUS
<1>10. rest = tail
  BY <1>6, <1>9 DEF Left
<1>11. /\ DOMAIN gs = DOMAIN fs /\ gs[a] = x \o head
       /\ \A b \in DOMAIN fs : b # a => gs[b] = fs[b]
  BY <1>1, <1>6, <1>9 DEF Handed
<1>12. Len(x) <= Len(x \o head)
  <2>1. Len(x \o head) = Len(x) + Len(head)
    BY <1>3, <1>7, ConcatProperties
  <2>2. Len(x) \in Nat /\ Len(head) \in Nat
    BY <1>3, <1>7
  <2> QED BY <2>1, <2>2
<1>13. \A b \in DOMAIN fs : Len(fs[b]) <= Len(gs[b])
  <2> SUFFICES ASSUME NEW b \in DOMAIN fs PROVE Len(fs[b]) <= Len(gs[b])
    OBVIOUS
  <2>1. CASE b = a
    BY <2>1, <1>1, <1>11, <1>12
  <2>2. CASE b # a
    <3>1. gs[b] = fs[b] /\ Len(fs[b]) \in Nat
      BY <2>2, <1>3, <1>11
    <3> QED BY <3>1
  <2> QED BY <2>1, <2>2
<1>14. Longer(LogOf(fs, a, buf), LogOf(gs, a, rest), a, t, n)
  <2>1. PICK lg, lg2 : lg = LogOf(fs, a, buf) /\ lg2 = LogOf(gs, a, rest)
    OBVIOUS
  <2>2. DOMAIN lg = DOMAIN fs /\ DOMAIN lg2 = DOMAIN fs
    BY <2>1, <1>11 DEF LogOf
  <2>3. lg[a] = x \o buf /\ lg2[a] = (x \o head) \o tail
    BY <2>1, <1>1, <1>10, <1>11 DEF LogOf
  <2>4. \A b \in DOMAIN lg : b # a => lg2[b] = lg[b]
    BY <2>1, <1>11 DEF LogOf
  <2>5. lg2[a] = lg[a] \o Bytes(t, n)
    BY <2>3, <1>1, <1>7, <1>8
  <2> QED BY <2>1, <2>2, <2>4, <2>5 DEF Longer
<1>15. /\ Handed(fs, a, buf \o Bytes(t, n), k) = gs
       /\ Left(buf \o Bytes(t, n), k) = rest
  BY <1>1, <1>9
<1>16. Longer(LogOf(fs, a, buf),
              LogOf(Handed(fs, a, buf \o Bytes(t, n), k), a, Left(buf \o Bytes(t, n), k)), a, t, n)
  BY <1>14, <1>15
<1>17. DOMAIN Handed(fs, a, buf \o Bytes(t, n), k) = DOMAIN fs
  BY <1>11, <1>15
<1>18. \A b \in DOMAIN fs : Len(fs[b]) <= Len(Handed(fs, a, buf \o Bytes(t, n), k)[b])
  BY <1>13, <1>15
<1> QED
  BY <1>16, <1>17, <1>18

\* The index with one entry more.
LEMMA JoinedAppended ==
  ASSUME NEW recs \in Seq(Entry), NEW at, NEW low \in Nat, NEW top \in Nat, low <= top,
         Joined(recs, <<>>, at, low, top),
         NEW e \in Entry, NEW at2, at2[top] = e, \A o \in low .. top - 1 : at2[o] = at[o]
  PROVE  Joined(Append(recs, e), <<>>, at2, low, top + 1)
<1>1. PICK rs : rs = Append(recs, e)
  OBVIOUS
<1>2. /\ Len(recs) = top - low /\ \A o \in low .. top - 1 : recs[(o - low) + 1] = at[o]
  BY JoinedRefers
<1>3. /\ Len(rs) = Len(recs) + 1 /\ rs[Len(recs) + 1] = e
      /\ \A i \in 1 .. Len(recs) : rs[i] = recs[i]
  BY <1>1
<1>4. Len(<<>>) = 0
  OBVIOUS
<1>q. PICK q : q = top + 1
  OBVIOUS
<1>5. Len(rs) = Len(<<>>) + (q - low)
  BY <1>q, <1>2, <1>3, <1>4
<1>6. ASSUME NEW o \in low .. q - 1 PROVE rs[Len(<<>>) + (o - low) + 1] = at2[o]
  <2>1. Len(<<>>) + (o - low) + 1 = (o - low) + 1
    BY <1>4
  <2>2. CASE o = top
    <3>1. (o - low) + 1 = Len(recs) + 1
      BY <2>2, <1>2
    <3> QED BY <2>1, <2>2, <3>1, <1>3
  <2>3. CASE o # top
    <3>1. o \in low .. top - 1
      BY <2>3, <1>q
    <3>2. (o - low) + 1 \in 1 .. Len(recs)
      BY <3>1, <1>2
    <3> QED BY <2>1, <3>1, <3>2, <1>2, <1>3
  <2> QED BY <2>2, <2>3
<1>7. \A i \in 1 .. Len(<<>>) : rs[i] = <<>>[i]
  BY <1>4
<1>8. Joined(rs, <<>>, at2, low, q)
  BY <1>5, <1>6, <1>7 DEF Joined
<1> QED
  BY <1>1, <1>q, <1>8


LEMMA AppendAckedKeeps == W /\ W' /\ Keeps /\ (\E n \in Sizes : AppendAcked(n)) => Keeps'
<1> SUFFICES ASSUME W, W', Keeps, NEW n \in Sizes, AppendAcked(n) PROVE Keeps'
  OBVIOUS
<1>0. CASE cut
  <2>1. cut' = cut
    BY DEF AppendAcked
  <2> QED BY <1>0, <2>1 DEF Keeps
<1> SUFFICES ASSUME ~ cut PROVE Keeps'
  BY <1>0
<1>1. /\ mode = "open" /\ Harden /\ attempts < MaxAttempts /\ (NeedsRotation(n) => FreshName)
      /\ UNCHANGED <<meta, mode, baseOffset, checkpoint, hand, seen, cut, restarts, faults>>
  BY DEF AppendAcked, Admitted, bounds
<1>2. PICK at, low, top, act : Held(at, low, top, act) /\ Working(at, low, top, act)
  BY <1>1 DEF Keeps
<1>3. PICK fs, sz, a, buf : /\ fs = Slot(n).files /\ sz = Slot(n).synced
                            /\ a = Slot(n).active /\ buf = Slot(n).buffer
  OBVIOUS
<1>4. PICK mt, sn, hd, lg, pl : /\ mt = meta /\ sn = seen /\ hd = hard
                                     /\ lg = LogOf(fs, a, buf) /\ pl = Placed(fs, sz)
  OBVIOUS
<1>5. /\ Sound(at, low, top, a, lg, sz, pl, mt, sn, hd)
      /\ Strays(low, lg, sn)
      /\ Len(lg[a]) = ValidTo(at, top, a)
      /\ NextOffset = top
      /\ \A b \in DOMAIN files : /\ b \in DOMAIN fs /\ Len(files[b]) <= Len(fs[b])
                                 /\ lg[b] = LogOf(files, active, buffer)[b]
  BY <1>2, <1>3, <1>4, SlotHeld
<1>6. /\ Disk(fs, sz) /\ a \in DOMAIN fs /\ buf \in Seq(Byte) /\ Len(buf) <= BufferSize
  <2>1. WCore /\ baseOffset \in Nat
    BY DEF W, WRest
  <2> QED BY <1>1, <1>3, <2>1, SlotShape
<1>7. PICK t, k : t = attempts + 1 /\ k = HandedOver(Len(buf), n)
  OBVIOUS
<1>8. t \in 1 .. MaxAttempts /\ k \in 0 .. Len(buf) + n /\ n \in Nat \ {0} /\ Len(buf) \in Nat
  <2>1. MaxAttempts \in Nat /\ n \in Nat \ {0} /\ Len(buf) \in Nat /\ attempts \in Nat
    BY <1>6, WalSegmentsAssumption DEF W, WRest
  <2> QED BY <2>1, <1>1, <1>6, <1>7, HandedOverFits
<1>9. PICK e : e = [off |-> NextOffset, seg |-> a, pos |-> Len(fs[a]) + Len(buf), len |-> n]
  OBVIOUS
<1>10. PICK fl2, buf2, sy2 : fl2 = files' /\ buf2 = buffer' /\ sy2 = synced'
  OBVIOUS
<1>11. /\ fl2 = Handed(fs, a, buf \o Bytes(t, n), k)
       /\ buf2 = Left(buf \o Bytes(t, n), k)
       /\ sy2 = IF SyncPolicy = "SyncEveryRecord" THEN [sz EXCEPT ![a] = e.pos + n] ELSE sz
       /\ active' = a /\ records' = Append(records, e)
  BY <1>3, <1>7, <1>9, <1>10 DEF AppendAcked, Handed, Left
<1>12. PICK lg2, pl2 : lg2 = LogOf(fl2, a, buf2) /\ pl2 = Placed(fl2, sy2)
  OBVIOUS
<1>13. Longer(lg, lg2, a, t, n)
  BY <1>4, <1>6, <1>8, <1>11, <1>12, LongerLog
<1>14. DOMAIN fl2 = DOMAIN fs /\ \A b \in DOMAIN fs : Len(fs[b]) <= Len(fl2[b])
  BY <1>6, <1>8, <1>11, LongerLog
<1>15. /\ Disk(fl2, sy2) /\ a \in DOMAIN fl2 /\ buf2 \in Seq(Byte)
  BY <1>10, <1>11 DEF W, WCore
<1>16. /\ Directory(lg) /\ DOMAIN lg = DOMAIN fs
       /\ \A b \in DOMAIN fs : /\ Len(fs[b]) \in Nat /\ Len(lg[b]) \in Nat /\ lg[b] \in Seq(Byte)
                               /\ Len(lg[b]) = Len(fs[b]) + (IF b = a THEN Len(buf) ELSE 0)
  BY <1>4, <1>6, LogOfIs
<1>17. Directory(lg2) /\ DOMAIN lg2 = DOMAIN fl2 /\ Measured(sy2, lg2)
  BY <1>12, <1>15, LogOfIs
<1>18. low \in Nat /\ a \in Nat /\ top \in Nat /\ low <= a /\ a <= top
  BY <1>5, <1>16, TiledNat DEF Sound
<1>19. e \in Entry /\ e.off = top /\ e.seg = a /\ e.pos = Len(lg[a]) /\ e.len = n
  <2>1. Len(lg[a]) = Len(fs[a]) + Len(buf) /\ Len(lg[a]) \in Nat
    BY <1>6, <1>16
  <2> QED BY <2>1, <1>5, <1>9, <1>18 DEF Entry
<1>20. \A b \in DOMAIN lg : sz[b] <= sy2[b]
  <2>1. sz \in [DOMAIN fs -> Nat] /\ \A b \in DOMAIN fs : sz[b] \in Nat /\ sz[b] <= Len(fs[b])
    BY <1>6 DEF Disk
  <2>2. CASE SyncPolicy = "SyncEveryRecord"
    <3>1. sy2 = [sz EXCEPT ![a] = e.pos + n]
      BY <2>2, <1>11
    <3>2. sy2[a] = e.pos + n /\ \A b \in DOMAIN fs : b # a => sy2[b] = sz[b]
      BY <3>1, <2>1, <1>6
    <3>3. sz[a] <= e.pos + n
      <4>1. Len(fs[a]) \in Nat /\ sz[a] \in Nat /\ sz[a] <= Len(fs[a])
        BY <2>1, <1>6, <1>16
      <4>2. e.pos = Len(fs[a]) + Len(buf)
        BY <1>9
      <4>3. PICK p, q, r : p = Len(fs[a]) /\ q = Len(buf) /\ r = sz[a]
        OBVIOUS
      <4>4. r <= (p + q) + n
        BY <4>1, <4>3, <1>8
      <4>5. e.pos = p + q /\ sz[a] = r
        BY <4>2, <4>3
      <4> QED BY <4>4, <4>5
    <3>4. ASSUME NEW b \in DOMAIN lg, b # a PROVE sz[b] <= sy2[b]
      <4>1. b \in DOMAIN fs
        BY <1>16
      <4>2. sy2[b] = sz[b] /\ sz[b] \in Nat
        BY <4>1, <3>2, <3>4, <2>1
      <4> QED BY <4>2
    <3>5. sz[a] <= sy2[a]
      BY <3>2, <3>3
    <3> QED BY <3>4, <3>5
  <2>3. CASE SyncPolicy # "SyncEveryRecord"
    BY <2>1, <2>3, <1>11, <1>16
  <2> QED BY <2>2, <2>3
<1>21. Grown(sz, sy2, lg) /\ Grown(pl, pl2, lg)
  <2>1. DOMAIN lg \subseteq DOMAIN fs /\ DOMAIN lg \subseteq DOMAIN fl2
    BY <1>14, <1>16
  <2>2. \A b \in DOMAIN lg : Len(fs[b]) <= Len(fl2[b]) /\ sz[b] <= sy2[b]
    BY <1>14, <1>16, <1>20
  <2> QED BY <2>1, <2>2, <1>4, <1>6, <1>12, <1>15, PlacedGrown
<1>22. PICK at2 : at2 = [o \in low .. top |-> IF o = top THEN e ELSE at[o]]
  OBVIOUS
<1>23. at2[top] = e /\ \A o \in low .. top - 1 : at2[o] = at[o]
  BY <1>18, <1>22
<1>24. /\ Sound(at2, low, top + 1, a, lg2, sy2, pl2, mt, sn, hd)
       /\ Len(lg2[a]) = ValidTo(at2, top + 1, a)
  <2>1. /\ Directory(lg) /\ Sound(at, low, top, a, lg, sz, pl, mt, sn, hd)
        /\ Len(lg[a]) = ValidTo(at, top, a)
    BY <1>5, <1>16
  <2>2. /\ n \in Sizes /\ t \in 1 .. MaxAttempts
        /\ e \in Entry /\ e.off = top /\ e.seg = a /\ e.pos = Len(lg[a]) /\ e.len = n
    BY <1>8, <1>19
  <2>3. Longer(lg, lg2, a, t, n) /\ Grown(sz, sy2, lg) /\ Measured(sy2, lg2) /\ Grown(pl, pl2, lg)
    BY <1>13, <1>17, <1>21
  <2>4. at2[top] = e /\ \A o \in low .. top - 1 : at2[o] = at[o]
    BY <1>23
  <2> QED BY <2>1, <2>2, <2>3, <2>4, SoundExtended
<1>25. Joined(records', <<>>, at2, low, top + 1)
  <2>1. PICK recs : recs = records
    OBVIOUS
  <2>2. recs \in Seq(Entry) /\ Joined(recs, <<>>, at, low, top) /\ low <= top
    BY <2>1, <1>2, <1>18 DEF W, WCore, Indexes, Working
  <2>3. Joined(Append(recs, e), <<>>, at2, low, top + 1)
    BY <2>2, <1>18, <1>19, <1>23, JoinedAppended
  <2> QED BY <2>1, <2>3, <1>11
<1>26. Refers(records', at2, low, top + 1)
  <2>1. PICK recs, top2 : recs = records' /\ top2 = top + 1
    OBVIOUS
  <2>2. Joined(recs, <<>>, at2, low, top2) /\ top2 \in Nat /\ low <= top2
    BY <2>1, <1>18, <1>25
  <2>3. Refers(recs, at2, low, top2)
    BY <2>2, <1>18, JoinedRefers
  <2> QED BY <2>1, <2>3
<1>27. Held(at2, low, top + 1, a)'
  <2>1. Sound(at2, low, top + 1, a, LogOf(files', active', buffer'), synced', pl2, mt, sn, hard)
    BY <1>4, <1>10, <1>11, <1>12, <1>24
  <2>2. Sound(at2, low, top + 1, a, LogOf(files', active', buffer'), synced', pl2, mt, sn, hard')
    <3>1. WCore'
      BY DEF W
    <3> QED BY <3>1, <2>1, <1>1, <1>26, SoundHardened
  <2>3. Strays(low, lg2, sn)
    <3>1. sn \subseteq sn
      BY <1>4 DEF W, WRest
    <3>2. \A b \in DOMAIN lg2 : b < low => b \in DOMAIN lg /\ lg2[b] = lg[b]
      <4>1. ~ (a < low)
        BY <1>18
      <4> QED BY <4>1, <1>13 DEF Longer
    <3> QED BY <3>1, <3>2, <1>5, StraysKept
  <2> QED BY <2>2, <2>3, <1>1, <1>4, <1>10, <1>11, <1>12 DEF Held
<1>28. hand.phase # "idle" =>
         InHand(at2, low, top + 1, hand.upto, hand.frames, checkpoint, fl2, lg2)
  <2> SUFFICES ASSUME hand.phase # "idle"
               PROVE  InHand(at2, low, top + 1, hand.upto, hand.frames, checkpoint, fl2, lg2)
    OBVIOUS
  <2>1. PICK fl, lg0, sy0, upto, frames, chk :
           /\ fl = files /\ lg0 = LogOf(files, active, buffer) /\ sy0 = synced
           /\ upto = hand.upto /\ frames = hand.frames /\ chk = checkpoint
    OBVIOUS
  <2>2. InHand(at, low, top, upto, frames, chk, fl, lg0)
    BY <2>1, <1>2 DEF Working
  <2>3. upto \in low + 1 .. top
    BY <2>2 DEF InHand
  <2>4. Tiled(at, low, top, lg0, act) /\ Disk(fl, sy0)
    BY <2>1, <1>2 DEF Held, Sound, W, WCore
  <2>5. Directory(lg0) /\ DOMAIN lg0 = DOMAIN fl /\ \A b \in DOMAIN fl : Len(fl[b]) \in Nat
    <3>1. active \in DOMAIN fl /\ buffer \in Seq(Byte)
      BY <2>1 DEF W, WCore
    <3>2. PICK a0, b0 : a0 = active /\ b0 = buffer
      OBVIOUS
    <3>3. lg0 = LogOf(fl, a0, b0) /\ a0 \in DOMAIN fl /\ b0 \in Seq(Byte)
      BY <3>1, <3>2, <2>1
    <3> QED BY <3>3, <2>4, LogOfIs
  <2>6. ASSUME NEW o \in low .. upto - 1
        PROVE  /\ at2[o] = at[o] /\ End(at[o]) <= Len(fl2[at[o].seg])
               /\ Tkt(lg2, at[o]) = Tkt(lg0, at[o])
    <3>1. o \in low .. top - 1
      BY <2>3, <1>18
    <3>2. PICK b, p : b = at[o].seg /\ p = at[o].pos
      OBVIOUS
    <3>3. /\ b \in DOMAIN fl /\ p \in Nat /\ End(at[o]) \in Nat /\ p < End(at[o])
          /\ End(at[o]) <= Len(lg0[b])
      BY <3>1, <3>2, <2>4, <2>5, TiledAt
    <3>4. End(at[o]) <= Len(fl[b])
      BY <3>2, <2>2 DEF InHand
    <3>5. b \in DOMAIN fs /\ Len(fl[b]) <= Len(fs[b]) /\ lg[b] = lg0[b]
      BY <3>3, <2>1, <1>5
    <3>6. Len(fl[b]) \in Nat /\ Len(fs[b]) \in Nat /\ Len(fl2[b]) \in Nat
          /\ Len(fs[b]) <= Len(fl2[b])
      BY <3>3, <3>5, <2>5, <1>14, <1>15, <1>16 DEF Disk, Directory
    <3>7. End(at[o]) <= Len(fl2[b])
      BY <3>3, <3>4, <3>5, <3>6
    <3>8. lg2[b][p + 1] = lg[b][p + 1]
      <4>1. CASE b # a
        BY <4>1, <3>5, <1>13, <1>16 DEF Longer
      <4>2. CASE b = a
        <5>1. p + 1 \in 1 .. Len(lg[b])
          BY <3>3, <3>5, <1>16
        <5>2. lg[b] \in Seq(Byte) /\ Bytes(t, n) \in Seq(Byte) /\ lg2[b] = lg[b] \o Bytes(t, n)
          BY <4>2, <3>5, <1>8, <1>13, <1>16, BytesTyped DEF Longer
        <5> QED BY <5>1, <5>2, ConcatProperties
      <4> QED BY <4>1, <4>2
    <3>9. Tkt(lg2, at[o]) = Tkt(lg0, at[o])
      BY <3>2, <3>5, <3>8 DEF Tkt
    <3> QED BY <3>1, <3>2, <3>7, <3>9, <1>23
  <2>7. upto \in low + 1 .. top + 1
    BY <2>3, <1>18
  <2>8. InHand(at2, low, top + 1, upto, frames, chk, fl2, lg2)
    BY <2>2, <2>6, <2>7, InHandMoved
  <2> QED BY <2>1, <2>8
<1>29. Working(at2, low, top + 1, a)'
  <2>1. /\ low = baseOffset' /\ a = active' /\ checkpoint' <= meta'
    BY <1>1, <1>2, <1>11 DEF Working
  <2>2. Len(LogOf(files', active', buffer')[a]) = ValidTo(at2, top + 1, a)
    BY <1>10, <1>11, <1>12, <1>24
  <2>3. hand'.phase # "idle" =>
          InHand(at2, low, top + 1, hand'.upto, hand'.frames, checkpoint', files',
                 LogOf(files', active', buffer'))
    BY <1>1, <1>10, <1>11, <1>12, <1>28
  <2>4. hand'.phase = "commit" => hand'.frames \subseteq seen'
    BY <1>1, <1>2 DEF Working
  <2> QED BY <2>1, <2>2, <2>3, <2>4, <1>25 DEF Working
<1>30. mode' = "open" /\ OnMedium' \subseteq hard'
  BY <1>1, HardenedMedium
<1> QED
  BY <1>27, <1>29, <1>30 DEF Keeps


\* rollbackTo keeps the entries whose frames are still there.
LEMMA CutIndex ==
  ASSUME NEW lg, Directory(lg), NEW at, NEW low, NEW top, NEW act, Tiled(at, low, top, lg, act),
         NEW recs \in Seq(Entry), Joined(recs, <<>>, at, low, top),
         NEW target, NEW top2 \in act .. top,
         \A o \in low .. top - 1 : o < top2 <=> (at[o].seg # act \/ End(at[o]) <= target),
         target \in Nat
  PROVE  Joined(CutTo(recs, act, target), <<>>, at, low, top2)
<1>1. low \in Nat /\ act \in Nat /\ top \in Nat /\ low <= act /\ act <= top
  BY TiledNat
<1>2. low <= top
  BY <1>1
<1>3. /\ Len(recs) = top - low
      /\ \A o \in low .. top - 1 : recs[(o - low) + 1] = at[o]
      /\ \A i \in 1 .. Len(recs) : low + (i - 1) \in low .. top - 1 /\ recs[i] = at[low + (i - 1)]
  BY <1>1, <1>2, JoinedRefers
<1>4. PICK m \in 0 .. Len(recs) :
        /\ CutTo(recs, act, target) = SubSeq(recs, 1, m)
        /\ m > 0 => ~ (recs[m].seg = act /\ End(recs[m]) > target)
        /\ \A i \in m + 1 .. Len(recs) : recs[i].seg = act /\ End(recs[i]) > target
  BY CutShape
<1>5. m \in Nat /\ m <= top - low /\ top2 \in Nat /\ low <= top2 /\ top2 <= top
  BY <1>1, <1>3
<1>6. ASSUME NEW o \in low .. top - 1
      PROVE  /\ o \in Nat /\ End(at[o]) \in Nat
             /\ o < top2 <=> ~ (at[o].seg = act /\ End(at[o]) > target)
  <2>1. o \in Nat /\ End(at[o]) \in Nat
    BY TiledAt
  <2>2. o < top2 <=> (at[o].seg # act \/ End(at[o]) <= target)
    OBVIOUS
  <2>3. End(at[o]) <= target <=> ~ (End(at[o]) > target)
    BY <2>1
  <2> QED BY <2>1, <2>2, <2>3
<1>7. low + m <= top2
  <2>1. CASE m = 0
    BY <2>1, <1>1, <1>5
  <2>2. CASE m > 0
    <3>1. m \in 1 .. Len(recs)
      BY <2>2, <1>4
    <3>2. low + (m - 1) \in low .. top - 1 /\ recs[m] = at[low + (m - 1)]
      BY <3>1, <1>3
    <3>3. low + (m - 1) < top2
      BY <3>2, <2>2, <1>4, <1>6
    <3> QED BY <3>3, <1>1, <1>5
  <2> QED BY <2>1, <2>2, <1>5
<1>8. top2 <= low + m
  <2>1. CASE m = Len(recs)
    BY <2>1, <1>1, <1>3, <1>5
  <2>2. CASE m < Len(recs)
    <3>1. m + 1 \in m + 1 .. Len(recs) /\ m + 1 \in 1 .. Len(recs)
      BY <2>2, <1>5
    <3>2. low + m \in low .. top - 1 /\ recs[m + 1] = at[low + m]
      <4>1. (m + 1) - 1 = m
        BY <1>5
      <4> QED BY <3>1, <4>1, <1>3
    <3>3. ~ (low + m < top2)
      BY <3>1, <3>2, <1>4, <1>6
    <3> QED BY <3>3, <1>1, <1>5
  <2> QED BY <2>1, <2>2, <1>4, <1>5, <1>3, <1>1
<1>9. m = top2 - low
  BY <1>1, <1>5, <1>7, <1>8
<1>10. PICK es : es = SubSeq(recs, 1, m)
  OBVIOUS
<1>11. Len(es) = m /\ \A i \in 1 .. m : es[i] = recs[i]
  BY <1>4, <1>10, Prefix
<1>12. Len(<<>>) = 0
  OBVIOUS
<1>13. Len(es) = Len(<<>>) + (top2 - low) /\ \A i \in 1 .. Len(<<>>) : es[i] = <<>>[i]
  BY <1>9, <1>11, <1>12
<1>14. ASSUME NEW o \in low .. top2 - 1 PROVE es[Len(<<>>) + (o - low) + 1] = at[o]
  <2>1. Len(<<>>) + (o - low) + 1 = (o - low) + 1
    <3>1. o - low \in Int
      BY <1>1
    <3> QED BY <3>1, <1>12
  <2>2. o \in low .. top - 1 /\ (o - low) + 1 \in 1 .. m
    BY <1>1, <1>5, <1>9
  <2> QED BY <2>1, <2>2, <1>3, <1>11
<1> QED
  BY <1>4, <1>10, <1>13, <1>14 DEF Joined

\* rollbackTo leaves no part of a frame when it cuts where an entry ends.
LEMMA CutExact ==
  ASSUME NEW lg, Directory(lg), NEW at, NEW low, NEW top, NEW act, Tiled(at, low, top, lg, act),
         NEW kept, Joined(kept, <<>>, at, low, top),
         Len(lg[act]) = 0 \/ \E i \in 1 .. Len(kept) :
                               kept[i].seg = act /\ End(kept[i]) = Len(lg[act])
  PROVE  Len(lg[act]) = ValidTo(at, top, act)
<1>1. /\ low \in Nat /\ act \in Nat /\ top \in Nat /\ low <= act /\ act <= top /\ act \in DOMAIN lg
  BY TiledNat
<1>2. low <= top
  BY <1>1
<1>3. PICK v : v = ValidTo(at, top, act)
  OBVIOUS
<1>4. /\ v \in Nat /\ v <= Len(lg[act])
      /\ act # top => top - 1 \in low .. top - 1 /\ at[top - 1].seg = act /\ v = End(at[top - 1])
  BY <1>3, ValidToIs
<1>5. CASE Len(lg[act]) = 0
  BY <1>3, <1>4, <1>5
<1>6. CASE \E i \in 1 .. Len(kept) : kept[i].seg = act /\ End(kept[i]) = Len(lg[act])
  <2>1. PICK i \in 1 .. Len(kept) : kept[i].seg = act /\ End(kept[i]) = Len(lg[act])
    BY <1>6
  <2>2. PICK o : o = low + (i - 1)
    OBVIOUS
  <2>3. o \in low .. top - 1 /\ kept[i] = at[o]
    BY <2>2, <1>1, <1>2, JoinedRefers
  <2>4. at[o].seg = act /\ End(at[o]) = Len(lg[act]) /\ act <= o
    BY <2>1, <2>3, ActiveLast
  <2>5. act # top
    BY <2>3, <2>4, <1>1
  <2>6. End(at[o]) <= v
    <3>1. CASE o = top - 1
      BY <3>1, <2>4, <2>5, <1>4
    <3>2. CASE o # top - 1
      <4>1. top - 1 \in o + 1 .. top - 1 /\ at[o].seg = at[top - 1].seg
        BY <3>2, <2>3, <2>4, <2>5, <1>1, <1>4
      <4>2. End(at[o]) <= at[top - 1].pos
        BY <4>1, <2>3 DEF Tiled
      <4>3. at[top - 1].pos \in Nat /\ at[top - 1].pos < End(at[top - 1]) /\ End(at[o]) \in Nat
        BY <2>3, <2>5, <1>4, TiledAt
      <4> QED BY <4>2, <4>3, <2>5, <1>4
    <3> QED BY <3>1, <3>2
  <2> QED BY <2>4, <2>6, <1>3, <1>4
<1> QED
  BY <1>5, <1>6


LEMMA LogOther ==
  ASSUME NEW fl, NEW sy, Disk(fl, sy), NEW act, NEW buf, NEW b \in DOMAIN fl, b # act
  PROVE  LogOf(fl, act, buf)[b] = fl[b]
<1>1. fl[b] \in Seq(Byte)
  BY DEF Disk, Directory
<1>2. fl[b] \o <<>> = fl[b]
  BY <1>1
<1> QED
  BY <1>2 DEF LogOf

\* What rollbackTo does when the slot is fs, sz, a, buf.
RolledTo(fs, sz, a, now, target) ==
  /\ files' = Truncated(fs, a, now, target)
  /\ records' = CutTo(records, a, target)
  /\ synced' = sz /\ active' = a /\ buffer' = <<>>
  /\ cut' = (cut \/ (target > 0 /\ \A i \in DOMAIN records' :
                                     records'[i].seg # a \/ End(records'[i]) # target))

LEMMA RollbackKeeps ==
  ASSUME W, W', ~ cut, mode = "open", mode' = "open", Harden,
         UNCHANGED <<meta, baseOffset, checkpoint, hand, seen>>,
         NEW at, NEW low, NEW top, NEW act, Held(at, low, top, act), Working(at, low, top, act),
         NEW fs, NEW sz, Disk(fs, sz), NEW a \in DOMAIN fs, NEW buf \in Seq(Byte),
         Sound(at, low, top, a, LogOf(fs, a, buf), sz, Placed(fs, sz), meta, seen, hard),
         Strays(low, LogOf(fs, a, buf), seen),
         \A b \in DOMAIN files : /\ b \in DOMAIN fs /\ Len(files[b]) <= Len(fs[b])
                                 /\ LogOf(fs, a, buf)[b] = LogOf(files, active, buffer)[b],
         NEW now \in Seq(Byte), Len(fs[a]) <= Len(now),
         \A i \in 1 .. Len(now) : i <= Len(fs[a]) + Len(buf) => now[i] = LogOf(fs, a, buf)[a][i],
         RolledTo(fs, sz, a, now, Min2(Len(fs[a]) + Len(buf), Len(now)))
  PROVE  Keeps'
<1>1. PICK mt, sn, hd, lg, pl : /\ mt = meta /\ sn = seen /\ hd = hard
                                     /\ lg = LogOf(fs, a, buf) /\ pl = Placed(fs, sz)
  OBVIOUS
<1>2. /\ Sound(at, low, top, a, lg, sz, pl, mt, sn, hd)
      /\ Strays(low, lg, sn)
      /\ \A b \in DOMAIN files : /\ b \in DOMAIN fs /\ Len(files[b]) <= Len(fs[b])
                                 /\ lg[b] = LogOf(files, active, buffer)[b]
  BY <1>1
<1>3. /\ Disk(fs, sz) /\ a \in DOMAIN fs /\ buf \in Seq(Byte)
  OBVIOUS
<1>4. PICK target : target = Min2(Len(fs[a]) + Len(buf), Len(now))
  OBVIOUS
<1>5. PICK fl2, sy2, recs, kept : fl2 = files' /\ sy2 = synced' /\ recs = records /\ kept = records'
  OBVIOUS
<1>6. /\ fl2 = Truncated(fs, a, now, target)
      /\ kept = CutTo(recs, a, target)
      /\ sy2 = sz /\ active' = a /\ buffer' = <<>>
      /\ cut' = (cut \/ (target > 0
         /\ \A i \in DOMAIN kept : kept[i].seg # a \/ End(kept[i]) # target))
  BY <1>4, <1>5 DEF RolledTo
<1>7. CASE cut'
  BY <1>7 DEF Keeps
<1> SUFFICES ASSUME ~ cut' PROVE Keeps'
  BY <1>7
<1>8. /\ Directory(lg) /\ DOMAIN lg = DOMAIN fs
      /\ \A b \in DOMAIN fs : /\ Len(fs[b]) \in Nat /\ Len(lg[b]) \in Nat /\ lg[b] \in Seq(Byte)
                              /\ Len(lg[b]) = Len(fs[b]) + (IF b = a THEN Len(buf) ELSE 0)
  BY <1>1, <1>3, LogOfIs
<1>b. \A b \in DOMAIN fs : b # a => lg[b] = fs[b]
  BY <1>1, <1>3, LogOther
<1>9. Tiled(at, low, top, lg, a)
  BY <1>2 DEF Sound
<1>10. low \in Nat /\ a \in Nat /\ top \in Nat /\ low <= a /\ a <= top
  BY <1>8, <1>9, TiledNat
<1>11. /\ target \in Nat /\ target <= Len(now) /\ target <= Len(lg[a]) /\ Len(fs[a]) <= target
       /\ Len(lg[a]) = Len(fs[a]) + Len(buf)
  <2>1. PICK p, q, r : p = Len(fs[a]) /\ q = Len(buf) /\ r = Len(now)
    OBVIOUS
  <2>2. p \in Nat /\ q \in Nat /\ r \in Nat /\ p <= r /\ Len(lg[a]) = p + q
        /\ target = Min2(p + q, r)
    <3>1. p \in Nat /\ Len(lg[a]) = p + q
      BY <2>1, <1>3, <1>8
    <3>2. q \in Nat /\ r \in Nat
      BY <2>1, <1>3
    <3>3. p <= r /\ target = Min2(p + q, r)
      BY <2>1, <1>4
    <3> QED BY <3>1, <3>2, <3>3
  <2>3. target = IF p + q < r THEN p + q ELSE r
    BY <2>2 DEF Min2
  <2>4. target \in Nat /\ target <= r /\ target <= p + q /\ p <= target
    BY <2>2, <2>3
  <2> QED BY <2>1, <2>2, <2>4
<1>12. PICK x : x = SubSeq(now, 1, target)
  OBVIOUS
<1>13. /\ x \in Seq(Byte) /\ Len(x) = target /\ \A i \in 1 .. target : x[i] = lg[a][i]
  <2>1. target \in 0 .. Len(now)
    BY <1>11
  <2>2. /\ x \in Seq(Byte) /\ Len(x) = target /\ \A i \in 1 .. target : x[i] = now[i]
    BY <2>1, <1>12, Prefix
  <2>3. \A i \in 1 .. target : now[i] = lg[a][i]
    <3> SUFFICES ASSUME NEW i \in 1 .. target PROVE now[i] = lg[a][i]
      OBVIOUS
    <3>1. Len(now) \in Nat /\ Len(lg[a]) \in Nat
      BY <1>3, <1>8
    <3>2. i \in 1 .. Len(now) /\ i <= Len(lg[a])
      <4>1. i \in Nat /\ 1 <= i /\ i <= target /\ target \in Nat
        BY <1>11
      <4> QED BY <4>1, <3>1, <1>11, LeqThrough
    <3> QED BY <3>2, <1>1, <1>11
  <2> QED BY <2>2, <2>3
<1>14. /\ DOMAIN fl2 = DOMAIN fs /\ fl2[a] = x
       /\ \A b \in DOMAIN fs : b # a => fl2[b] = fs[b]
  BY <1>3, <1>6, <1>12 DEF Truncated
<1>15. PICK lg2, pl2 : lg2 = LogOf(fl2, a, <<>>) /\ pl2 = Placed(fl2, sz)
  OBVIOUS
<1>16. /\ DOMAIN lg2 = DOMAIN lg /\ Len(lg2[a]) = target
       /\ \A i \in 1 .. target : lg2[a][i] = lg[a][i]
       /\ \A b \in DOMAIN lg : b # a => lg2[b] = lg[b]
       /\ \A b \in DOMAIN lg : lg2[b] = fl2[b]
  <2>1. DOMAIN lg2 = DOMAIN fl2 /\ \A b \in DOMAIN fl2 : lg2[b] = fl2[b] \o <<>>
    BY <1>15 DEF LogOf
  <2>2. \A b \in DOMAIN fl2 : fl2[b] \in Seq(Byte)
    BY <1>5 DEF W, WCore, Disk, Directory
  <2>3. \A b \in DOMAIN fl2 : fl2[b] \o <<>> = fl2[b]
    BY <2>2
  <2>4. \A b \in DOMAIN lg : lg2[b] = fl2[b]
    BY <2>1, <2>3, <1>8, <1>14
  <2>5. \A b \in DOMAIN lg : b # a => lg2[b] = lg[b]
    BY <2>4, <1>8, <1>b, <1>14
  <2>6. lg2[a] = x
    BY <2>4, <1>3, <1>8, <1>14
  <2>7. DOMAIN lg2 = DOMAIN lg
    BY <2>1, <1>8, <1>14
  <2> QED BY <2>4, <2>5, <2>6, <2>7, <1>13
<1>17. Disk(fl2, sz) /\ a \in DOMAIN fl2
  BY <1>5, <1>6 DEF W, WCore
<1>18. Directory(lg2) /\ Measured(sz, lg2)
  <2>1. PICK none : none = <<>>
    OBVIOUS
  <2>2. none \in Seq(Byte) /\ lg2 = LogOf(fl2, a, none)
    BY <2>1, <1>15
  <2> QED BY <2>2, <1>17, LogOfIs
<1>19. \A b \in DOMAIN lg2 : sz[b] \in Nat /\ sz[b] <= Len(fs[b])
  BY <1>3, <1>8, <1>16 DEF Disk
<1>20. Grown(sz, sz, lg2) /\ Grown(pl, pl2, lg2)
  <2>1. Grown(sz, sz, lg2)
    BY DEF Grown
  <2>2. ASSUME NEW b \in DOMAIN lg2, NEW y \in Nat, y <= pl[b], y <= Len(lg2[b])
        PROVE  y <= pl2[b]
    <3>1. b \in DOMAIN fs /\ b \in DOMAIN fl2 /\ lg2[b] = fl2[b]
      BY <1>8, <1>14, <1>16
    <3>2. CASE "power" \in CrashKinds
      BY <3>1, <3>2, <2>2, <1>1, <1>15 DEF Placed
    <3>3. CASE "power" \notin CrashKinds
      <4>1. pl2[b] = Len(fl2[b])
        BY <3>1, <3>3, <1>15 DEF Placed
      <4> QED BY <4>1, <3>1, <2>2
    <3> QED BY <3>2, <3>3
  <2> QED BY <2>1, <2>2 DEF Grown
<1>21. ASSUME NEW o \in low .. top - 1, at[o].seg = a, End(at[o]) <= pl[a] \/ End(at[o]) <= sz[a]
       PROVE  End(at[o]) <= target
  <2>1. End(at[o]) \in Nat /\ Len(fs[a]) \in Nat /\ sz[a] \in Nat /\ sz[a] <= Len(fs[a])
    BY <1>3, <1>8, <1>9, <1>16, <1>19, TiledAt
  <2>2. pl[a] = sz[a] \/ pl[a] = Len(fs[a])
    BY <1>1, <1>3 DEF Placed
  <2> QED BY <2>1, <2>2, <1>11, <1>21
<1>22. PICK top2 \in a .. top :
         /\ Sound(at, low, top2, a, lg2, sz, pl2, mt, sn, hd)
         /\ \A o \in low .. top - 1 : o < top2 <=> (at[o].seg # a \/ End(at[o]) <= target)
  <2>1. Spared(at, low, top, a, pl, target) /\ Spared(at, low, top, a, sz, target)
    BY <1>21 DEF Spared
  <2>2. Directory(lg) /\ Sound(at, low, top, a, lg, sz, pl, mt, sn, hd)
    BY <1>2, <1>8
  <2>3. Shorter(lg, lg2, a, target)
    <3>1. Len(lg[a]) \in Nat
      BY <1>3, <1>8
    <3>2. target \in 0 .. Len(lg[a])
      BY <3>1, <1>11
    <3> QED BY <3>2, <1>16 DEF Shorter
  <2>4. Grown(sz, sz, lg2) /\ Measured(sz, lg2) /\ Grown(pl, pl2, lg2)
    BY <1>18, <1>20
  <2>5. PICK top2 \in a .. top : /\ Sound(at, low, top2, a, lg2, sz, pl2, mt, sn, hd)
                                 /\ Remaining(at, low, top, a, target, top2)
    BY <2>1, <2>2, <2>3, <2>4, SoundCut
  <2> QED BY <2>5 DEF Remaining
<1>23. top2 \in Nat /\ low <= top2 /\ top2 <= top /\ Tiled(at, low, top2, lg2, a)
  BY <1>10, <1>22 DEF Sound
<1>24. recs \in Seq(Entry) /\ Joined(recs, <<>>, at, low, top)
  BY <1>5 DEF W, WCore, Indexes, Working
<1>25. Joined(kept, <<>>, at, low, top2)
  BY <1>6, <1>8, <1>9, <1>11, <1>22, <1>24, CutIndex
<1>26. Len(lg2[a]) = ValidTo(at, top2, a)
  <2>1. target = 0 \/ \E i \in DOMAIN kept : kept[i].seg = a /\ End(kept[i]) = target
    <3> SUFFICES ASSUME \A i \in DOMAIN kept : kept[i].seg # a \/ End(kept[i]) # target
                 PROVE  target = 0
      OBVIOUS
    <3>1. ~ (target > 0)
      BY <1>6
    <3> QED BY <3>1, <1>11
  <2>2. kept \in Seq(Entry)
    BY <1>5 DEF W, WCore, Indexes
  <2>3. Len(lg2[a]) = 0 \/ \E i \in 1 .. Len(kept) : kept[i].seg = a /\ End(kept[i]) = Len(lg2[a])
    BY <2>1, <2>2, <1>16
  <2> QED BY <2>3, <1>18, <1>23, <1>25, CutExact
<1>27. Refers(kept, at, low, top2)
  BY <1>10, <1>23, <1>25, JoinedRefers
<1>28. Held(at, low, top2, a)'
  <2>1. Sound(at, low, top2, a, LogOf(files', active', buffer'), synced', pl2, mt, sn, hard)
    BY <1>1, <1>5, <1>6, <1>15, <1>22
  <2>2. Sound(at, low, top2, a, LogOf(files', active', buffer'), synced', pl2, mt, sn, hard')
    <3>1. WCore' /\ Refers(records', at, low, top2)
      BY <1>5, <1>27 DEF W
    <3> QED BY <3>1, <2>1, SoundHardened
  <2>3. Strays(low, lg2, sn)
    <3>1. sn \subseteq sn
      OBVIOUS
    <3>2. \A b \in DOMAIN lg2 : b < low => b \in DOMAIN lg /\ lg2[b] = lg[b]
      <4>1. ~ (a < low)
        BY <1>10
      <4> QED BY <4>1, <1>16
    <3> QED BY <3>1, <3>2, <1>2, StraysKept
  <2> QED BY <2>2, <2>3, <1>1, <1>5, <1>6, <1>15 DEF Held
<1>29. hand.phase # "idle" =>
         InHand(at, low, top2, hand.upto, hand.frames, checkpoint, fl2, lg2)
  <2> SUFFICES ASSUME hand.phase # "idle"
               PROVE  InHand(at, low, top2, hand.upto, hand.frames, checkpoint, fl2, lg2)
    OBVIOUS
  <2>1. PICK fl, lg0, sy0, upto, frames, chk :
           /\ fl = files /\ lg0 = LogOf(files, active, buffer) /\ sy0 = synced
           /\ upto = hand.upto /\ frames = hand.frames /\ chk = checkpoint
    OBVIOUS
  <2>2. InHand(at, low, top, upto, frames, chk, fl, lg0)
    BY <2>1 DEF Working
  <2>3. upto \in low + 1 .. top
    BY <2>2 DEF InHand
  <2>4. Tiled(at, low, top, lg0, act) /\ Disk(fl, sy0)
    BY <2>1 DEF Held, Sound, W, WCore
  <2>5. Directory(lg0) /\ DOMAIN lg0 = DOMAIN fl /\ \A b \in DOMAIN fl : Len(fl[b]) \in Nat
    <3>1. PICK a0, b0 : a0 = active /\ b0 = buffer
      OBVIOUS
    <3>2. lg0 = LogOf(fl, a0, b0) /\ a0 \in DOMAIN fl /\ b0 \in Seq(Byte)
      BY <3>1, <2>1 DEF W, WCore
    <3> QED BY <3>2, <2>4, LogOfIs
  <2>6. ASSUME NEW o \in low .. upto - 1
        PROVE  /\ End(at[o]) <= Len(fl2[at[o].seg]) /\ o < top2
               /\ Tkt(lg2, at[o]) = Tkt(lg0, at[o])
    <3>1. o \in low .. top - 1
      BY <2>3, <1>10
    <3>2. PICK b, p : b = at[o].seg /\ p = at[o].pos
      OBVIOUS
    <3>3. /\ b \in DOMAIN fl /\ p \in Nat /\ End(at[o]) \in Nat /\ p < End(at[o])
      BY <3>1, <3>2, <2>4, <2>5, TiledAt
    <3>4. End(at[o]) <= Len(fl[b])
      BY <3>2, <2>2 DEF InHand
    <3>5. b \in DOMAIN fs /\ Len(fl[b]) <= Len(fs[b]) /\ lg[b] = lg0[b]
      BY <3>3, <2>1, <1>2
    <3>6. Len(fl[b]) \in Nat /\ Len(fs[b]) \in Nat /\ End(at[o]) <= Len(fs[b])
      <4>1. Len(fl[b]) \in Nat /\ Len(fs[b]) \in Nat
        BY <3>3, <3>5, <2>5, <1>8
      <4> QED BY <4>1, <3>3, <3>4, <3>5, LeqThrough
    <3>7. CASE b # a
      <4>1. fl2[b] = fs[b] /\ lg2[b] = lg[b]
        BY <3>5, <3>7, <1>8, <1>b, <1>14, <1>16
      <4>2. o < top2
        BY <3>1, <3>2, <3>7, <1>22
      <4> QED BY <4>1, <4>2, <3>2, <3>5, <3>6 DEF Tkt
    <3>8. CASE b = a
      <4>1. End(at[o]) <= target
        BY <3>3, <3>6, <3>8, <1>11, LeqThrough
      <4>2. Len(fl2[b]) = target
        BY <3>8, <1>13, <1>14
      <4>3. o < top2
        BY <4>1, <3>1, <1>22
      <4>4. p + 1 \in 1 .. target
        BY <4>1, <3>3, <1>11
      <4>5. lg2[b][p + 1] = lg0[b][p + 1]
        BY <4>4, <3>5, <3>8, <1>16
      <4> QED BY <4>1, <4>2, <4>3, <4>5, <3>2 DEF Tkt
    <3> QED BY <3>7, <3>8
  <2>7. upto \in low + 1 .. top2
    <3>1. upto - 1 \in low .. upto - 1 /\ upto \in Nat
      BY <2>3, <1>10
    <3>2. upto - 1 < top2
      BY <3>1, <2>6
    <3> QED BY <3>1, <3>2, <2>3, <1>10, <1>23
  <2>8. InHand(at, low, top2, upto, frames, chk, fl2, lg2)
    BY <2>2, <2>6, <2>7, InHandMoved
  <2> QED BY <2>1, <2>8
<1>30. Working(at, low, top2, a)'
  <2>1. /\ low = baseOffset' /\ a = active' /\ checkpoint' <= meta'
        /\ Joined(records', <<>>, at, low, top2)
    BY <1>5, <1>6, <1>25 DEF Working
  <2>2. Len(LogOf(files', active', buffer')[a]) = ValidTo(at, top2, a)
    BY <1>5, <1>6, <1>15, <1>26
  <2>3. hand'.phase # "idle" =>
          InHand(at, low, top2, hand'.upto, hand'.frames, checkpoint', files',
                 LogOf(files', active', buffer'))
    BY <1>5, <1>6, <1>15, <1>29
  <2>4. hand'.phase = "commit" => hand'.frames \subseteq seen'
    BY DEF Working
  <2> QED BY <2>1, <2>2, <2>3, <2>4 DEF Working
<1>31. OnMedium' \subseteq hard'
  BY HardenedMedium
<1> QED
  BY <1>28, <1>30, <1>31 DEF Keeps


LEMMA AppendFailedKeeps == W /\ W' /\ Keeps /\ (\E n \in Sizes : AppendFailed(n)) => Keeps'
<1> SUFFICES ASSUME W, W', Keeps, NEW n \in Sizes, AppendFailed(n) PROVE Keeps'
  OBVIOUS
<1>1. /\ mode = "open" /\ Harden /\ attempts < MaxAttempts
      /\ UNCHANGED <<meta, mode, baseOffset, checkpoint, hand, attempts, seen, restarts>>
  BY DEF AppendFailed, Admitted
<1>2. PICK fs, sz, a, buf : /\ fs = Slot(n).files /\ sz = Slot(n).synced
                            /\ a = Slot(n).active /\ buf = Slot(n).buffer
  OBVIOUS
<1>3. PICK t, k, new, all, pos : /\ t = attempts + 1 /\ k = HandedOver(Len(buf), n)
                                 /\ new = Bytes(t, n) /\ all = buf \o new
                                 /\ pos = Len(fs[a]) + Len(buf)
  OBVIOUS
<1>4. \/ /\ writer = "failed" /\ ~ NeedsRotation(n) /\ UNCHANGED faults
         /\ RollbackTo(Slot(n), files[active], pos)
      \/ /\ k > 0 /\ IOError
         /\ \E j \in 0 .. k : RollbackTo(Slot(n), fs[a] \o SubSeq(all, 1, j), pos)
  BY <1>2, <1>3 DEF AppendFailed
<1>5. \A now : RollbackTo(Slot(n), now, pos) => RolledTo(fs, sz, a, now, Min2(pos, Len(now)))
  <2> SUFFICES ASSUME NEW now, RollbackTo(Slot(n), now, pos)
               PROVE  RolledTo(fs, sz, a, now, Min2(pos, Len(now)))
    OBVIOUS
  <2> QED BY <1>2 DEF RollbackTo, RolledTo, Truncated, CutTo
<1>6. CASE cut
  <2>1. cut' = TRUE
    BY <1>4, <1>5, <1>6 DEF RolledTo
  <2> QED BY <2>1 DEF Keeps
<1> SUFFICES ASSUME ~ cut PROVE Keeps'
  BY <1>6
<1>7. PICK at, low, top, act : Held(at, low, top, act) /\ Working(at, low, top, act)
  BY <1>1 DEF Keeps
<1>8. PICK lg : lg = LogOf(fs, a, buf)
  OBVIOUS
<1>9. /\ Sound(at, low, top, a, LogOf(fs, a, buf), sz, Placed(fs, sz), meta, seen, hard)
      /\ Strays(low, LogOf(fs, a, buf), seen)
      /\ NeedsRotation(n) => FreshName
      /\ \A b \in DOMAIN files : /\ b \in DOMAIN fs /\ Len(files[b]) <= Len(fs[b])
                                 /\ LogOf(fs, a, buf)[b] = LogOf(files, active, buffer)[b]
  BY <1>2, <1>7, SlotHeld
<1>10. /\ Disk(fs, sz) /\ a \in DOMAIN fs /\ buf \in Seq(Byte) /\ Len(buf) <= BufferSize
  <2>1. WCore /\ baseOffset \in Nat
    BY DEF W, WRest
  <2> QED BY <1>2, <1>9, <2>1, SlotShape
<1>11. t \in 1 .. MaxAttempts /\ k \in 0 .. Len(buf) + n /\ n \in Nat \ {0} /\ Len(buf) \in Nat
  <2>1. MaxAttempts \in Nat /\ n \in Nat \ {0} /\ Len(buf) \in Nat /\ attempts \in Nat
    BY <1>10, WalSegmentsAssumption DEF W, WRest
  <2> QED BY <2>1, <1>1, <1>3, <1>10, HandedOverFits
<1>12. PICK x : x = fs[a]
  OBVIOUS
<1>13. x \in Seq(Byte) /\ Len(x) \in Nat /\ lg[a] = x \o buf
  BY <1>8, <1>10, <1>12 DEF Disk, Directory, LogOf
<1>14. /\ new \in Seq(Byte) /\ Len(new) = n
       /\ all \in Seq(Byte) /\ Len(all) = Len(buf) + n
       /\ \A i \in 1 .. Len(buf) : all[i] = buf[i]
  <2>1. new \in Seq(Byte) /\ Len(new) = n
    BY <1>3, <1>11, BytesTyped
  <2>2. /\ buf \o new \in Seq(Byte) /\ Len(buf \o new) = Len(buf) + Len(new)
        /\ \A i \in 1 .. Len(buf) + Len(new) :
             (buf \o new)[i] = IF i <= Len(buf) THEN buf[i] ELSE new[i - Len(buf)]
    BY <2>1, <1>10, ConcatProperties
  <2>3. \A i \in 1 .. Len(buf) : all[i] = buf[i]
    <3>1. \A i \in 1 .. Len(buf) : i \in 1 .. Len(buf) + Len(new) /\ i <= Len(buf)
      BY <2>1, <1>11
    <3> QED BY <3>1, <2>2, <1>3
  <2> QED BY <2>1, <2>2, <2>3, <1>3
<1>15. \A i \in 1 .. Len(x) + Len(buf) : lg[a][i] = IF i <= Len(x) THEN x[i] ELSE buf[i - Len(x)]
  BY <1>10, <1>13, ConcatProperties
<1>16. ASSUME NEW now \in Seq(Byte), Len(x) <= Len(now),
              \A i \in 1 .. Len(now) : i <= Len(x) + Len(buf) => now[i] = lg[a][i],
              RollbackTo(Slot(n), now, pos)
       PROVE  Keeps'
  <2>1. RolledTo(fs, sz, a, now, Min2(Len(fs[a]) + Len(buf), Len(now)))
    BY <1>3, <1>5, <1>16
  <2>2. Len(fs[a]) <= Len(now)
    BY <1>12, <1>16
  <2>3. \A i \in 1 .. Len(now) : i <= Len(fs[a]) + Len(buf) => now[i] = LogOf(fs, a, buf)[a][i]
    BY <1>8, <1>12, <1>16
  <2>4. mode' = "open" /\ UNCHANGED <<meta, baseOffset, checkpoint, hand, seen>>
    BY <1>1
  <2> QED BY <2>1, <2>2, <2>3, <2>4, <1>1, <1>7, <1>9, <1>10, <1>16, RollbackKeeps
<1>17. CASE /\ writer = "failed" /\ ~ NeedsRotation(n) /\ UNCHANGED faults
            /\ RollbackTo(Slot(n), files[active], pos)
  <2>1. files[active] = x
    BY <1>2, <1>12, <1>17 DEF Slot
  <2>2. \A i \in 1 .. Len(x) : x[i] = lg[a][i]
    BY <1>11, <1>13, <1>15
  <2> QED BY <2>1, <2>2, <1>13, <1>16, <1>17
<1>18. ASSUME IOError, NEW j \in 0 .. k, RollbackTo(Slot(n), fs[a] \o SubSeq(all, 1, j), pos)
       PROVE  Keeps'
  <2>1. PICK y, now : y = SubSeq(all, 1, j) /\ now = x \o y
    OBVIOUS
  <2>2. j \in 0 .. Len(all) /\ j \in Nat
    BY <1>11, <1>14
  <2>3. y \in Seq(Byte) /\ Len(y) = j /\ \A i \in 1 .. j : y[i] = all[i]
    BY <2>1, <2>2, <1>14, Prefix
  <2>4. /\ now \in Seq(Byte) /\ Len(now) = Len(x) + Len(y)
        /\ \A i \in 1 .. Len(x) + Len(y) : now[i] = IF i <= Len(x) THEN x[i] ELSE y[i - Len(x)]
    BY <2>1, <2>3, <1>13, ConcatProperties
  <2>5. ASSUME NEW i \in 1 .. Len(now), i <= Len(x) + Len(buf)
        PROVE  now[i] = lg[a][i]
    <3>1. i \in 1 .. Len(x) + Len(y) /\ i \in 1 .. Len(x) + Len(buf) /\ i \in Nat
      BY <2>3, <2>4, <2>5, <1>11, <1>13
    <3>2. CASE i <= Len(x)
      BY <3>1, <3>2, <2>4, <1>15
    <3>3. CASE ~ (i <= Len(x))
      <4>1. PICK m : m = i - Len(x)
        OBVIOUS
      <4>2. m \in 1 .. j /\ m \in 1 .. Len(buf)
        BY <4>1, <3>1, <3>3, <2>2, <2>3, <1>11, <1>13
      <4>3. now[i] = y[m] /\ lg[a][i] = buf[m]
        BY <4>1, <3>1, <3>3, <2>4, <1>15
      <4> QED BY <4>2, <4>3, <2>3, <1>14
    <3> QED BY <3>2, <3>3
  <2>6. Len(x) <= Len(now)
    BY <2>2, <2>3, <2>4, <1>13
  <2>8. RollbackTo(Slot(n), now, pos)
    BY <2>1, <1>12, <1>18
  <2> QED BY <2>4, <2>5, <2>6, <2>8, <1>16
<1> QED
  BY <1>4, <1>17, <1>18


-----------------------------------------------------------------------------
(* The process or the host dies *)

\* The directory fl2 holds what is left of the log lg when segment a was being
\* written, at least the bytes on the medium and, if only processes die, those
\* in the file.
Survived(fl, sy, lg, a, fl2, sy2) ==
  /\ DOMAIN lg = DOMAIN fl /\ DOMAIN fl2 = DOMAIN fl
  /\ \A b \in DOMAIN fl : b # a => fl2[b] = lg[b] /\ sy2[b] = sy[b]
  /\ Len(fl2[a]) <= Len(lg[a])
  /\ \A i \in 1 .. Len(fl2[a]) : fl2[a][i] = lg[a][i]
  /\ sy[a] <= sy2[a]
  /\ "power" \notin CrashKinds => Len(fl[a]) <= Len(fl2[a])

LEMMA SurvivedSound ==
  ASSUME NEW fl, NEW sy, Disk(fl, sy), NEW a \in DOMAIN fl, NEW lg, Directory(lg),
         NEW at, NEW low, NEW top, NEW act, NEW mt, NEW sn, NEW hd,
         Sound(at, low, top, act, lg, sy, Placed(fl, sy), mt, sn, hd), Strays(low, lg, sn),
         NEW fl2, NEW sy2, Disk(fl2, sy2), Survived(fl, sy, lg, a, fl2, sy2)
  PROVE  \E top2 : /\ Sound(at, low, top2, act, LogOf(fl2, a, <<>>), sy2, Placed(fl2, sy2),
                           mt, sn, hd)
                   /\ Strays(low, LogOf(fl2, a, <<>>), sn)
<1>1. /\ DOMAIN lg = DOMAIN fl /\ DOMAIN fl2 = DOMAIN fl
      /\ \A b \in DOMAIN fl : b # a => fl2[b] = lg[b] /\ sy2[b] = sy[b]
      /\ Len(fl2[a]) <= Len(lg[a])
      /\ \A i \in 1 .. Len(fl2[a]) : fl2[a][i] = lg[a][i]
      /\ sy[a] <= sy2[a]
      /\ "power" \notin CrashKinds => Len(fl[a]) <= Len(fl2[a])
  BY DEF Survived
<1>2. PICK lg2, n, pl, pl2, none :
        /\ none = <<>> /\ lg2 = LogOf(fl2, a, none) /\ n = Len(fl2[a])
        /\ pl = Placed(fl, sy) /\ pl2 = Placed(fl2, sy2)
  OBVIOUS
<1>3. none \in Seq(Byte) /\ a \in DOMAIN fl2
  BY <1>1, <1>2
<1>4. Directory(lg2) /\ DOMAIN lg2 = DOMAIN fl2 /\ Measured(sy2, lg2)
  BY <1>2, <1>3, LogOfIs
<1>5. \A b \in DOMAIN fl2 : lg2[b] = fl2[b]
  <2>1. \A b \in DOMAIN fl2 : lg2[b] = fl2[b] \o <<>>
    BY <1>2 DEF LogOf
  <2>2. \A b \in DOMAIN fl2 : fl2[b] \in Seq(Byte)
    BY DEF Disk, Directory
  <2>3. \A b \in DOMAIN fl2 : fl2[b] \o <<>> = fl2[b]
    BY <2>2
  <2> QED BY <2>1, <2>3
<1>6. \A b \in DOMAIN fl : /\ lg[b] \in Seq(Byte) /\ Len(lg[b]) \in Nat
                           /\ fl2[b] \in Seq(Byte) /\ Len(fl2[b]) \in Nat /\ Len(fl[b]) \in Nat
                           /\ sy[b] \in Nat /\ sy2[b] \in Nat /\ sy2[b] <= Len(fl2[b])
                           /\ sy[b] <= Len(fl[b])
  <2>1. \A b \in DOMAIN lg : lg[b] \in Seq(Byte)
    BY DEF Directory
  <2>3. \A b \in DOMAIN fl : fl[b] \in Seq(Byte) /\ sy[b] \in 0 .. Len(fl[b])
    BY DEF Disk, Directory
  <2>4. \A b \in DOMAIN fl2 : fl2[b] \in Seq(Byte) /\ sy2[b] \in 0 .. Len(fl2[b])
    BY DEF Disk, Directory
  <2>5. ASSUME NEW x \in Seq(Byte) PROVE Len(x) \in Nat
    OBVIOUS
  <2> QED BY <1>1, <2>1, <2>3, <2>4, <2>5
<1>7. n \in 0 .. Len(lg[a]) /\ sy[a] <= n
  <2>1. n \in Nat /\ Len(lg[a]) \in Nat /\ n <= Len(lg[a])
    BY <1>1, <1>2, <1>6
  <2>2. sy[a] \in Nat /\ sy2[a] \in Nat /\ sy[a] <= sy2[a] /\ sy2[a] <= n
    BY <1>1, <1>2, <1>6
  <2> QED BY <2>1, <2>2, LeqThrough
<1>8. Shorter(lg, lg2, a, n)
  BY <1>1, <1>2, <1>4, <1>5, <1>7 DEF Shorter
<1>9. Grown(sy, sy2, lg2) /\ Grown(pl, pl2, lg2)
  <2>1. ASSUME NEW b \in DOMAIN lg2 PROVE sy[b] \in Nat /\ sy2[b] \in Nat /\ sy[b] <= sy2[b]
    <3>1. b \in DOMAIN fl
      BY <1>1, <1>4
    <3>2. sy[b] \in Nat /\ sy2[b] \in Nat
      BY <3>1, <1>6
    <3> QED BY <3>1, <3>2, <1>1
  <2>2. Grown(sy, sy2, lg2)
    BY <2>1 DEF Grown
  <2>3. ASSUME NEW b \in DOMAIN lg2, NEW y \in Nat, y <= pl[b], y <= Len(lg2[b])
        PROVE  y <= pl2[b]
    <3>1. b \in DOMAIN fl /\ b \in DOMAIN fl2 /\ lg2[b] = fl2[b]
      BY <1>1, <1>4, <1>5
    <3>2. CASE "power" \in CrashKinds
      <4>1. pl[b] = sy[b] /\ pl2[b] = sy2[b]
        BY <3>1, <3>2, <1>2 DEF Placed
      <4> QED BY <4>1, <2>1, <2>3, LeqThrough
    <3>3. CASE "power" \notin CrashKinds
      <4>1. pl2[b] = Len(fl2[b])
        BY <3>1, <3>3, <1>2 DEF Placed
      <4> QED BY <4>1, <3>1, <2>3
    <3> QED BY <3>2, <3>3
  <2> QED BY <2>2, <2>3 DEF Grown
<1>10. Sound(at, low, top, act, lg, sy, pl, mt, sn, hd)
  BY <1>2
<1>11. Tiled(at, low, top, lg, act) /\ \A b \in DOMAIN lg : b # act => sy[b] = Len(lg[b])
  BY <1>10 DEF Sound
<1>12. CASE a = act
  <2>1. Spared(at, low, top, act, sy, n)
    <3>1. ASSUME NEW o \in low .. top - 1, End(at[o]) <= sy[act] PROVE End(at[o]) <= n
      <4>1. End(at[o]) \in Nat
        BY <1>11, TiledAt
      <4>2. sy[act] \in Nat /\ n \in Nat /\ sy[act] <= n
        BY <1>6, <1>7, <1>12
      <4> QED BY <4>1, <4>2, <3>1, LeqThrough
    <3> QED BY <3>1 DEF Spared
  <2>2. Spared(at, low, top, act, pl, n)
    <3>1. pl[act] \in Nat /\ pl[act] <= n
      <4>1. CASE "power" \in CrashKinds
        <5>1. pl[act] = sy[act]
          BY <4>1, <1>2, <1>12 DEF Placed
        <5> QED BY <5>1, <1>6, <1>7, <1>12
      <4>2. CASE "power" \notin CrashKinds
        <5>1. pl[act] = Len(fl[act])
          BY <4>2, <1>2, <1>12 DEF Placed
        <5> QED BY <5>1, <4>2, <1>1, <1>2, <1>6, <1>12
      <4> QED BY <4>1, <4>2
    <3>2. ASSUME NEW o \in low .. top - 1, End(at[o]) <= pl[act] PROVE End(at[o]) <= n
      <4>1. End(at[o]) \in Nat /\ n \in Nat
        BY <1>7, <1>11, TiledAt
      <4> QED BY <4>1, <3>1, <3>2, LeqThrough
    <3> QED BY <3>2 DEF Spared
  <2>3. Shorter(lg, lg2, act, n)
    BY <1>8, <1>12
  <2>4. PICK top2 \in act .. top : Sound(at, low, top2, act, lg2, sy2, pl2, mt, sn, hd)
    BY <2>1, <2>2, <2>3, <1>4, <1>9, <1>10, SoundCut
  <2>5. ~ (act < low)
    <3>1. low \in Nat /\ act \in Nat /\ low <= act
      BY <1>11, TiledNat
    <3> QED BY <3>1
  <2>6. Strays(low, lg2, sn)
    <3>1. sn \subseteq sn
      OBVIOUS
    <3>2. \A b \in DOMAIN lg2 : b < low => b \in DOMAIN lg /\ lg2[b] = lg[b]
      BY <2>5, <1>1, <1>4, <1>5, <1>12
    <3> QED BY <3>1, <3>2, StraysKept
  <2> QED BY <2>4, <2>6, <1>2
<1>13. CASE a # act
  <2>1. n = Len(lg[a])
    <3>1. sy[a] = Len(lg[a])
      BY <1>1, <1>11, <1>13
    <3>2. Len(lg[a]) \in Nat /\ n \in Nat
      BY <1>6, <1>7
    <3> QED BY <3>1, <3>2, <1>7
  <2>2. fl2[a] = lg[a]
    <3>1. PICK x, y : x = fl2[a] /\ y = lg[a]
      OBVIOUS
    <3>2. /\ x \in Seq(Byte) /\ y \in Seq(Byte) /\ Len(x) = Len(y)
          /\ \A i \in 1 .. Len(x) : x[i] = y[i]
      BY <3>1, <2>1, <1>1, <1>2, <1>6
    <3>3. x = y
      BY <3>2, SeqEqual
    <3> QED BY <3>1, <3>3
  <2>3. lg2 = lg
    <3>1. lg2 = [b \in DOMAIN lg2 |-> lg2[b]] /\ lg = [b \in DOMAIN lg |-> lg[b]]
      BY <1>4 DEF Directory
    <3>2. DOMAIN lg2 = DOMAIN lg /\ \A b \in DOMAIN lg : lg2[b] = lg[b]
      BY <2>2, <1>1, <1>4, <1>5
    <3> QED BY <3>1, <3>2
  <2>4. Sound(at, low, top, act, lg, sy2, pl2, mt, sn, hd)
    <3>1. Grown(sy, sy2, lg) /\ Grown(pl, pl2, lg) /\ Measured(sy2, lg) /\ sn \subseteq sn
      BY <2>3, <1>4, <1>9
    <3> QED BY <3>1, <1>10, SoundGrown
  <2> QED BY <2>3, <2>4, <1>2
<1> QED
  BY <1>12, <1>13


LEMMA GoneKeeps ==
  ASSUME mode' # "open", Gone, Harden, NEW at, NEW low, NEW top, NEW act,
         Sound(at, low, top, act, LogOf(files', active', <<>>), synced', Placed(files', synced'),
               meta', seen, hard),
         Strays(low, LogOf(files', active', <<>>), seen)
  PROVE  Keeps'
<1>1. buffer' = <<>> /\ records' = <<>> /\ seen' = seen
  BY DEF Gone
<1>2. OnMedium' = {}
  <2>1. DOMAIN records' = {}
    BY <1>1
  <2> QED BY <2>1 DEF OnMedium
<1>3. hard' = hard
  BY <1>2 DEF Harden
<1>4. Held(at, low, top, act)'
  BY <1>1, <1>3 DEF Held
<1> QED
  BY <1>1, <1>2, <1>4 DEF Keeps

\* The process or the host dies when the log is lg.
LEMMA DiedSound ==
  ASSUME W, W', mode' # "open", Gone, Harden, meta' = meta,
         NEW lg, Directory(lg), NEW at, NEW low, NEW top, NEW act,
         Sound(at, low, top, act, lg, synced, Placed(files, synced), meta, seen, hard),
         Strays(low, lg, seen),
         Survived(files, synced, lg, active, files', synced')
  PROVE  Keeps'
<1>1. /\ Disk(files, synced) /\ active \in DOMAIN files /\ buffer \in Seq(Byte)
      /\ Disk(files', synced')
  BY DEF W, WCore, WRest
<1>2. PICK top2 :
        /\ Sound(at, low, top2, act, LogOf(files', active, <<>>), synced', Placed(files', synced'),
                 meta, seen, hard)
        /\ Strays(low, LogOf(files', active, <<>>), seen)
  <2>1. PICK fl, sy, fl2, sy2, a : fl = files /\ sy = synced /\ fl2 = files' /\ sy2 = synced'
                                   /\ a = active
    OBVIOUS
  <2>2. /\ Disk(fl, sy) /\ a \in DOMAIN fl /\ Disk(fl2, sy2)
        /\ Sound(at, low, top, act, lg, sy, Placed(fl, sy), meta, seen, hard)
        /\ Survived(fl, sy, lg, a, fl2, sy2)
    BY <2>1, <1>1
  <2>3. \E top2 :
          /\ Sound(at, low, top2, act, LogOf(fl2, a, <<>>), sy2, Placed(fl2, sy2), meta, seen, hard)
          /\ Strays(low, LogOf(fl2, a, <<>>), seen)
    BY <2>2, <1>1, SurvivedSound
  <2> QED BY <2>1, <2>3
<1>3. Strays(low, LogOf(files', active, <<>>), seen)
  <2>1. PICK lg2 : lg2 = LogOf(files', active, <<>>)
    OBVIOUS
  <2>2. Strays(low, lg2, seen) /\ seen \subseteq seen
    BY <2>1, <1>2
  <2>3. \A b \in DOMAIN lg2 : b < low => b \in DOMAIN lg2 /\ lg2[b] = lg2[b]
    OBVIOUS
  <2> QED BY <2>1, <2>2, <2>3, <1>1, StraysKept
<1>4. active' = active
  BY DEF Gone
<1> QED
  BY <1>2, <1>3, <1>4, GoneKeeps

\* The process dies with the buffer, the host with what was not fsynced.
LEMMA DiedKeeps ==
  ASSUME W, W', Keeps, ~ cut, mode' # "open", Gone, Harden, meta' = meta,
         Survived(files, synced, LogOf(files, active, buffer), active, files', synced')
  PROVE  Keeps'
<1>1. PICK at, low, top, act : Held(at, low, top, act)
  BY DEF Keeps
<1>2. PICK lg : lg = LogOf(files, active, buffer)
  OBVIOUS
<1>3. Directory(lg)
  BY <1>2, LogOfIs DEF W, WCore
<1>4. /\ Sound(at, low, top, act, lg, synced, Placed(files, synced), meta, seen, hard)
      /\ Strays(low, lg, seen) /\ Survived(files, synced, lg, active, files', synced')
  BY <1>1, <1>2 DEF Held
<1> QED
  BY <1>3, <1>4, DiedSound

LEMMA PowerLossKeeps == W /\ W' /\ Keeps /\ PowerLoss => Keeps'
<1> SUFFICES ASSUME W, W', Keeps, PowerLoss PROVE Keeps'
  OBVIOUS
<1>1. CASE cut
  BY <1>1 DEF PowerLoss, Gone, Keeps
<1>2. CASE ~ cut
  <2>1. PICK n \in synced[active] .. Len(files[active]) :
          /\ files' = [files EXCEPT ![active] = SubSeq(@, 1, n)]
          /\ synced' = [synced EXCEPT ![active] = n]
    BY DEF PowerLoss
  <2>2. /\ "power" \in CrashKinds /\ mode' = "down" /\ Gone /\ Harden /\ meta' = meta
    BY DEF PowerLoss
  <2>3. /\ Disk(files, synced) /\ active \in DOMAIN files /\ buffer \in Seq(Byte)
    BY DEF W, WCore, WRest
  <2>4. PICK lg : lg = LogOf(files, active, buffer)
    OBVIOUS
  <2>5. /\ files[active] \in Seq(Byte) /\ synced[active] \in Nat /\ Len(files[active]) \in Nat
        /\ DOMAIN synced = DOMAIN files
    BY <2>3 DEF Disk, Directory
  <2>6. n \in 0 .. Len(files[active])
    BY <2>1, <2>5
  <2>7. /\ files'[active] = SubSeq(files[active], 1, n) /\ synced'[active] = n
        /\ DOMAIN files' = DOMAIN files
        /\ \A b \in DOMAIN files : b # active => files'[b] = files[b] /\ synced'[b] = synced[b]
    BY <2>1, <2>3, <2>5
  <2>8. Len(files'[active]) = n /\ \A i \in 1 .. n : files'[active][i] = files[active][i]
    BY <2>5, <2>6, <2>7, Prefix
  <2>9. /\ DOMAIN lg = DOMAIN files
        /\ \A b \in DOMAIN files : b # active => lg[b] = files[b]
        /\ Len(lg[active]) \in Nat /\ Len(files[active]) <= Len(lg[active])
        /\ \A i \in 1 .. Len(files[active]) : lg[active][i] = files[active][i]
    <3>1. \A b \in DOMAIN files : b # active => lg[b] = files[b]
      BY <2>3, <2>4, LogOther
    <3> QED BY <3>1, <2>3, <2>4, LogOfIs
  <2>10. Survived(files, synced, lg, active, files', synced')
    <3>1. Len(files'[active]) <= Len(lg[active])
      BY <2>5, <2>6, <2>8, <2>9, LeqThrough
    <3>2. \A i \in 1 .. Len(files'[active]) : files'[active][i] = lg[active][i]
      BY <2>5, <2>6, <2>8, <2>9
    <3>3. synced[active] <= synced'[active]
      BY <2>1, <2>5, <2>7
    <3> QED BY <3>1, <3>2, <3>3, <2>2, <2>7, <2>9 DEF Survived
  <2>11. Survived(files, synced, LogOf(files, active, buffer), active, files', synced')
    BY <2>4, <2>10
  <2>12. mode' # "open"
    BY <2>2, <2>3
  <2> QED BY <1>2, <2>2, <2>11, <2>12, DiedKeeps
<1> QED BY <1>1, <1>2

LEMMA CloseKeeps == W /\ W' /\ Keeps /\ Close => Keeps'
<1> SUFFICES ASSUME W, W', Keeps, Close PROVE Keeps'
  OBVIOUS
<1>1. CASE cut
  BY <1>1 DEF Close, Gone, Keeps
<1>2. CASE ~ cut
  <2>1. /\ mode' = "closed" /\ Gone /\ Harden /\ meta' = meta
    BY DEF Close
  <2>2. \/ /\ files' = [files EXCEPT ![active] = @ \o buffer]
           /\ \/ synced' = [synced EXCEPT ![active] = WritePos] /\ UNCHANGED faults
              \/ UNCHANGED synced /\ IOError
        \/ UNCHANGED <<files, synced, faults>>
    BY DEF Close
  <2>3. /\ Disk(files, synced) /\ active \in DOMAIN files /\ buffer \in Seq(Byte)
    BY DEF W, WCore, WRest
  <2>4. PICK lg : lg = LogOf(files, active, buffer)
    OBVIOUS
  <2>5. /\ files[active] \in Seq(Byte) /\ synced[active] \in Nat /\ Len(files[active]) \in Nat
        /\ DOMAIN synced = DOMAIN files /\ synced[active] <= Len(files[active])
        /\ Len(buffer) \in Nat
    BY <2>3 DEF Disk, Directory
  <2>6. /\ DOMAIN lg = DOMAIN files
        /\ \A b \in DOMAIN files : b # active => lg[b] = files[b]
        /\ Len(lg[active]) \in Nat /\ Len(files[active]) <= Len(lg[active])
        /\ \A i \in 1 .. Len(files[active]) : lg[active][i] = files[active][i]
        /\ lg[active] = files[active] \o buffer
    <3>1. \A b \in DOMAIN files : b # active => lg[b] = files[b]
      BY <2>3, <2>4, LogOther
    <3> QED BY <3>1, <2>3, <2>4, LogOfIs
  <2>8. Survived(files, synced, lg, active, files', synced')
    <3>1. CASE files' = [files EXCEPT ![active] = @ \o buffer]
      <4>1. /\ files'[active] = lg[active] /\ DOMAIN files' = DOMAIN files
            /\ \A b \in DOMAIN files : b # active => files'[b] = files[b]
        BY <3>1, <2>3, <2>6
      <4>2. /\ \A b \in DOMAIN files : b # active => synced'[b] = synced[b]
            /\ synced[active] <= synced'[active]
        <5>1. CASE synced' = [synced EXCEPT ![active] = WritePos]
          <6>1. synced'[active] = Len(files[active]) + Len(buffer)
            BY <5>1, <2>3, <2>5 DEF WritePos
          <6>2. synced[active] <= Len(files[active]) + Len(buffer)
            BY <2>5
          <6> QED BY <5>1, <6>1, <6>2, <2>3, <2>5
        <5>2. CASE synced' = synced
          BY <5>2, <2>5
        <5>3. synced' = [synced EXCEPT ![active] = WritePos] \/ synced' = synced
          BY <2>2
        <5> QED BY <5>1, <5>2, <5>3
      <4>3. Len(files'[active]) <= Len(lg[active]) /\ Len(files[active]) <= Len(files'[active])
        BY <4>1, <2>6
      <4>4. \A i \in 1 .. Len(files'[active]) : files'[active][i] = lg[active][i]
        BY <4>1
      <4>5. \A b \in DOMAIN files : b # active => files'[b] = lg[b] /\ synced'[b] = synced[b]
        BY <4>1, <4>2, <2>6
      <4>6. DOMAIN lg = DOMAIN files /\ DOMAIN files' = DOMAIN files
            /\ synced[active] <= synced'[active]
        BY <4>1, <4>2, <2>6
      <4> QED BY <4>3, <4>4, <4>5, <4>6 DEF Survived
    <3>2. CASE UNCHANGED <<files, synced, faults>>
      <4>1. files' = files /\ synced' = synced
        BY <3>2
      <4>2. synced[active] <= synced'[active]
        BY <4>1, <2>5
      <4> QED BY <4>1, <4>2, <2>5, <2>6 DEF Survived
    <3> QED BY <3>1, <3>2, <2>2
  <2>9. Survived(files, synced, LogOf(files, active, buffer), active, files', synced')
    BY <2>4, <2>8
  <2>10. mode' # "open"
    BY <2>1
  <2> QED BY <1>2, <2>1, <2>9, <2>10, DiedKeeps
<1> QED BY <1>1, <1>2


\* What a process that dies was writing goes to the file, or the first part of it.
LEMMA WrittenSurvives ==
  ASSUME NEW fl, NEW sy, Disk(fl, sy), NEW a \in DOMAIN fl, NEW x \in Seq(Byte),
         NEW j \in 0 .. Len(x)
  PROVE  Survived(fl, sy, LogOf(fl, a, x), a, Handed(fl, a, x, j), sy)
<1>1. PICK lg, gs, f, h : lg = LogOf(fl, a, x) /\ gs = Handed(fl, a, x, j) /\ f = fl[a]
                          /\ h = SubSeq(x, 1, j)
  OBVIOUS
<1>2. /\ f \in Seq(Byte) /\ sy[a] \in Nat /\ fl = [b \in DOMAIN fl |-> fl[b]]
  BY <1>1 DEF Disk, Directory
<1>3. h \in Seq(Byte) /\ Len(h) = j /\ (\A i \in 1 .. j : h[i] = x[i]) /\ Len(x) \in Nat
  BY <1>1, Prefix
<1>4. /\ DOMAIN gs = DOMAIN fl /\ gs[a] = f \o h
      /\ \A b \in DOMAIN fl : b # a => gs[b] = fl[b]
  BY <1>1, <1>2 DEF Handed
<1>5. /\ DOMAIN lg = DOMAIN fl /\ lg[a] = f \o x
      /\ \A b \in DOMAIN fl : b # a => lg[b] = fl[b]
  <2>1. \A b \in DOMAIN fl : b # a => lg[b] = fl[b]
    BY <1>1, LogOther
  <2>2. DOMAIN lg = DOMAIN fl /\ lg[a] = f \o x
    BY <1>1 DEF LogOf
  <2> QED BY <2>1, <2>2
<1>6. /\ Len(f \o h) = Len(f) + j /\ Len(f \o x) = Len(f) + Len(x) /\ Len(f) \in Nat
      /\ \A i \in 1 .. Len(f) : (f \o h)[i] = f[i] /\ (f \o x)[i] = f[i]
      /\ \A i \in 1 .. j : (f \o h)[Len(f) + i] = h[i] /\ (f \o x)[Len(f) + i] = x[i]
  <2>1. Len(f \o h) = Len(f) + Len(h) /\ Len(f \o x) = Len(f) + Len(x)
    BY <1>2, <1>3, ConcatProperties
  <2>2. \A i \in 1 .. Len(f) + Len(h) : (f \o h)[i] = IF i <= Len(f) THEN f[i] ELSE h[i - Len(f)]
    BY <1>2, <1>3, ConcatProperties
  <2>3. \A i \in 1 .. Len(f) + Len(x) : (f \o x)[i] = IF i <= Len(f) THEN f[i] ELSE x[i - Len(f)]
    BY <1>2, <1>3, ConcatProperties
  <2>4. PICK p, q : p = Len(f) /\ q = Len(x)
    OBVIOUS
  <2>5. p \in Nat /\ q \in Nat /\ j \in Nat /\ j <= q
    BY <2>4, <1>2, <1>3
  <2>6. \A i \in 1 .. p : (f \o h)[i] = f[i] /\ (f \o x)[i] = f[i]
    BY <2>2, <2>3, <2>4, <2>5, <1>3
  <2>7. ASSUME NEW i \in 1 .. j PROVE (f \o h)[p + i] = h[i] /\ (f \o x)[p + i] = x[i]
    <3>1. p + i \in 1 .. p + j /\ p + i \in 1 .. p + q /\ ~ (p + i <= p) /\ (p + i) - p = i
      BY <2>5
    <3> QED BY <3>1, <2>2, <2>3, <2>4, <1>3
  <2> QED BY <2>1, <2>4, <2>5, <2>6, <2>7, <1>3
<1>7. PICK p, q : p = Len(f) /\ q = Len(x)
  OBVIOUS
<1>8. p \in Nat /\ q \in Nat /\ j \in Nat /\ j <= q
  BY <1>7, <1>2, <1>3
<1>9. Len(gs[a]) = p + j /\ Len(lg[a]) = p + q
  BY <1>4, <1>5, <1>6, <1>7
<1>10. ASSUME NEW i \in 1 .. Len(gs[a]) PROVE gs[a][i] = lg[a][i]
  <2>1. i \in 1 .. p + j
    BY <1>9
  <2>2. CASE i <= p
    <3>1. i \in 1 .. p
      BY <2>1, <2>2, <1>8
    <3> QED BY <3>1, <1>4, <1>5, <1>6, <1>7
  <2>3. CASE ~ (i <= p)
    <3>1. PICK k : k = i - p
      OBVIOUS
    <3>2. k \in 1 .. j /\ i = p + k
      BY <3>1, <2>1, <2>3, <1>8
    <3> QED BY <3>2, <1>3, <1>4, <1>5, <1>6, <1>7
  <2> QED BY <2>2, <2>3
<1>11. Len(gs[a]) <= Len(lg[a]) /\ Len(fl[a]) <= Len(gs[a])
  BY <1>1, <1>7, <1>8, <1>9
<1>12. \A b \in DOMAIN fl : b # a => gs[b] = lg[b] /\ sy[b] = sy[b]
  BY <1>4, <1>5
<1>13. sy[a] <= sy[a]
  BY <1>2
<1>14. Survived(fl, sy, lg, a, gs, sy)
  BY <1>4, <1>5, <1>10, <1>11, <1>12, <1>13 DEF Survived
<1> QED
  BY <1>1, <1>14

\* The process dies with what may have been on its way.
LEMMA InFlightKeeps ==
  ASSUME W, W', Keeps, ~ cut, mode = "open", mode' # "open", Gone, Harden, meta' = meta,
         synced' = synced,
         NEW inflight \in InFlight, NEW j \in 0 .. Len(inflight),
         files' = [files EXCEPT ![active] = @ \o SubSeq(inflight, 1, j)]
  PROVE  Keeps'
<1>1. /\ Disk(files, synced) /\ active \in DOMAIN files /\ buffer \in Seq(Byte)
      /\ attempts \in 0 .. MaxAttempts
  BY DEF W, WCore, WRest
<1>3. files' = Handed(files, active, inflight, j)
  BY DEF Handed
<1>a. \A k \in 0 .. Len(buffer) : Survived(files, synced, LogOf(files, active, buffer), active,
                                          Handed(files, active, buffer, k), synced)
  <2>1. PICK fl, sy, a, buf : fl = files /\ sy = synced /\ a = active /\ buf = buffer
    OBVIOUS
  <2>2. ASSUME NEW k \in 0 .. Len(buf)
        PROVE  Survived(fl, sy, LogOf(fl, a, buf), a, Handed(fl, a, buf, k), sy)
    <3>1. Disk(fl, sy) /\ a \in DOMAIN fl /\ buf \in Seq(Byte)
      BY <2>1, <1>1
    <3> QED BY <3>1, WrittenSurvives
  <2> QED BY <2>1, <2>2
<1>4. CASE inflight = buffer
  <2>1. Survived(files, synced, LogOf(files, active, buffer), active,
                 Handed(files, active, buffer, j), synced)
    BY <1>4, <1>a
  <2>2. Survived(files, synced, LogOf(files, active, buffer), active, files', synced')
    BY <2>1, <1>3, <1>4
  <2> QED BY <2>2, DiedKeeps
<1>5. CASE inflight = <<>>
  <2>1. j = 0 /\ 0 \in 0 .. Len(buffer)
    BY <1>1, <1>5
  <2>2. SubSeq(inflight, 1, j) = SubSeq(buffer, 1, 0)
    <3>1. \A x \in Seq(Byte) : SubSeq(x, 1, 0) = <<>>
      OBVIOUS
    <3>2. inflight \in Seq(Byte)
      BY <1>5
    <3> QED BY <3>1, <3>2, <2>1, <1>1
  <2>3. files' = Handed(files, active, buffer, 0)
    BY <2>2 DEF Handed
  <2>4. Survived(files, synced, LogOf(files, active, buffer), active, files', synced')
    BY <2>1, <2>3, <1>a
  <2> QED BY <2>4, DiedKeeps
<1>6. CASE \E n \in Sizes : Admitted(n) /\ inflight = buffer \o Bytes(attempts + 1, n)
  <2>1. PICK n \in Sizes : Admitted(n) /\ inflight = buffer \o Bytes(attempts + 1, n)
    BY <1>6
  <2>2. PICK at, low, top, act : Held(at, low, top, act) /\ Working(at, low, top, act)
    BY DEF Keeps
  <2>3. PICK fl, sy, a, buf, lg, lg2, pl, mt, sn, hd, t :
          /\ fl = files /\ sy = synced /\ a = active /\ buf = buffer
          /\ lg = LogOf(fl, a, buf) /\ lg2 = LogOf(fl, a, inflight) /\ pl = Placed(fl, sy)
          /\ mt = meta /\ sn = seen /\ hd = hard /\ t = attempts + 1
    OBVIOUS
  <2>4. /\ Sound(at, low, top, a, lg, sy, pl, mt, sn, hd) /\ Strays(low, lg, sn)
        /\ Len(lg[a]) = ValidTo(at, top, a)
    BY <2>2, <2>3 DEF Held, Working
  <2>5. Disk(fl, sy) /\ a \in DOMAIN fl /\ buf \in Seq(Byte)
    BY <1>1, <2>3
  <2>6. t \in 1 .. MaxAttempts
    <3>1. MaxAttempts \in Nat /\ attempts < MaxAttempts
      BY <2>1, WalSegmentsAssumption DEF Admitted
    <3> QED BY <3>1, <1>1, <2>3
  <2>7. PICK new : new = Bytes(t, n)
    OBVIOUS
  <2>8. new \in Seq(Byte) /\ Len(new) = n /\ inflight = buf \o new /\ n \in Nat
    BY <2>1, <2>3, <2>6, <2>7, BytesTyped
  <2>9. inflight \in Seq(Byte)
    BY <2>5, <2>8, ConcatProperties
  <2>10. Longer(lg, lg2, a, t, n)
    <3>1. lg[a] = fl[a] \o buf /\ lg2[a] = fl[a] \o inflight /\ DOMAIN lg = DOMAIN fl
          /\ DOMAIN lg2 = DOMAIN fl
      BY <2>3, <2>5 DEF LogOf
    <3>2. \A b \in DOMAIN fl : b # a => lg[b] = fl[b] /\ lg2[b] = fl[b]
      BY <2>3, <2>5, LogOther
    <3>3. PICK f : f = fl[a]
      OBVIOUS
    <3>4. f \in Seq(Byte)
      BY <3>3, <2>5 DEF Disk, Directory
    <3>5. (f \o buf) \o new = f \o (buf \o new)
      BY <3>4, <2>5, <2>8, ThreePieces
    <3> QED BY <3>1, <3>2, <3>3, <3>5, <2>7, <2>8 DEF Longer
  <2>11. /\ Directory(lg) /\ DOMAIN lg = DOMAIN fl
    BY <2>3, <2>5, LogOfIs
  <2>12. Directory(lg2) /\ Measured(sy, lg2)
    BY <2>3, <2>5, <2>9, LogOfIs
  <2>13. low \in Nat /\ a \in Nat /\ top \in Nat /\ low <= a /\ a <= top
    BY <2>4, <2>11, TiledNat DEF Sound
  <2>14. PICK e : e = [off |-> top, seg |-> a, pos |-> Len(lg[a]), len |-> n]
    OBVIOUS
  <2>15. e \in Entry /\ e.off = top /\ e.seg = a /\ e.pos = Len(lg[a]) /\ e.len = n
    <3>1. Len(lg[a]) \in Nat
      BY <2>5, <2>11 DEF Directory
    <3> QED BY <3>1, <2>13, <2>14 DEF Entry
  <2>16. PICK at2 : at2 = [o \in low .. top |-> IF o = top THEN e ELSE at[o]]
    OBVIOUS
  <2>17. at2[top] = e /\ \A o \in low .. top - 1 : at2[o] = at[o]
    BY <2>13, <2>16
  <2>18. Grown(sy, sy, lg) /\ Grown(pl, pl, lg)
    BY DEF Grown
  <2>19. Sound(at2, low, top + 1, a, lg2, sy, pl, mt, sn, hd)
    BY <2>4, <2>6, <2>10, <2>11, <2>12, <2>15, <2>17, <2>18, SoundExtended
  <2>20. Strays(low, lg2, sn)
    <3>1. sn \subseteq sn
      OBVIOUS
    <3>2. ~ (a < low)
      BY <2>13
    <3>3. \A b \in DOMAIN lg2 : b < low => b \in DOMAIN lg /\ lg2[b] = lg[b]
      BY <3>2, <2>10 DEF Longer
    <3> QED BY <3>1, <3>3, <2>4, <1>1, StraysKept
  <2>21. Survived(fl, sy, lg2, a, files', synced')
    <3>1. files' = Handed(fl, a, inflight, j) /\ synced' = sy
      BY <1>3, <2>3
    <3>2. Survived(fl, sy, LogOf(fl, a, inflight), a, Handed(fl, a, inflight, j), sy)
      BY <2>5, <2>9, WrittenSurvives
    <3> QED BY <3>1, <3>2, <2>3
  <2>22. /\ Sound(at2, low, top + 1, a, lg2, synced, Placed(files, synced), meta, seen, hard)
         /\ Strays(low, lg2, seen)
         /\ Survived(files, synced, lg2, active, files', synced')
    BY <2>3, <2>19, <2>20, <2>21
  <2> QED BY <2>12, <2>22, DiedSound
<1> QED
  BY <1>4, <1>5, <1>6 DEF InFlight

\* The process dies when a rotation has just opened the next segment.
LEMMA RotationKilledKeeps ==
  ASSUME W, W', Keeps, ~ cut, mode = "open", mode' # "open", Gone, Harden, meta' = meta,
         NEW n \in Sizes, NeedsRotation(n),
         files' = Rotated.files, synced' = Rotated.synced
  PROVE  Keeps'
<1>1. PICK at, low, top, act : Held(at, low, top, act) /\ Working(at, low, top, act)
  BY DEF Keeps
<1>2. PICK fs, sz, a, buf : /\ fs = Slot(n).files /\ sz = Slot(n).synced
                            /\ a = Slot(n).active /\ buf = Slot(n).buffer
  OBVIOUS
<1>3. /\ Sound(at, low, top, a, LogOf(fs, a, buf), sz, Placed(fs, sz), meta, seen, hard)
      /\ Strays(low, LogOf(fs, a, buf), seen)
  BY <1>1, <1>2, SlotHeld
<1>4. fs = files' /\ sz = synced' /\ buf = <<>>
  BY <1>2 DEF Slot, Rotated
<1>5. LogOf(fs, active, <<>>) = LogOf(fs, a, <<>>)
  BY DEF LogOf
<1>6. active' = active
  BY DEF Gone
<1>7. /\ Sound(at, low, top, a, LogOf(files', active', <<>>), synced', Placed(files', synced'),
               meta', seen, hard)
      /\ Strays(low, LogOf(files', active', <<>>), seen)
  BY <1>3, <1>4, <1>5, <1>6
<1> QED
  BY <1>7, GoneKeeps

LEMMA ProcessCrashKeeps == W /\ W' /\ Keeps /\ ProcessCrash => Keeps'
<1> SUFFICES ASSUME W, W', Keeps, ProcessCrash PROVE Keeps'
  OBVIOUS
<1>1. CASE cut
  BY <1>1 DEF ProcessCrash, Gone, Keeps
<1>2. CASE ~ cut
  <2>1. /\ mode = "open" /\ mode' # "open" /\ Gone /\ Harden /\ meta' = meta
    BY DEF ProcessCrash
  <2>2. CASE \E inflight \in InFlight : \E j \in 0 .. Len(inflight) :
               /\ files' = [files EXCEPT ![active] = @ \o SubSeq(inflight, 1, j)]
               /\ synced' = synced
    BY <1>2, <2>1, <2>2, InFlightKeeps
  <2>3. CASE /\ \E n \in Sizes : NeedsRotation(n)
             /\ files' = Rotated.files /\ synced' = Rotated.synced
    BY <1>2, <2>1, <2>3, RotationKilledKeeps
  <2> QED BY <2>2, <2>3 DEF ProcessCrash
<1> QED BY <1>1, <1>2


-----------------------------------------------------------------------------
(* SyncEveryRecord without a process that dies: whatever is written is on the medium *)

AllSynced(fl, sy) == \A b \in DOMAIN fl : sy[b] = Len(fl[b])

Firm ==
  SyncPolicy = "SyncEveryRecord" /\ "process" \notin CrashKinds =>
    buffer = <<>> /\ AllSynced(files, synced)

\* One segment is given other bytes, all on the medium.
LEMMA AllSyncedOne ==
  ASSUME NEW fl, NEW sy, Disk(fl, sy), AllSynced(fl, sy), NEW a \in DOMAIN fl,
         NEW fl2, NEW sy2, DOMAIN fl2 = DOMAIN fl,
         \A b \in DOMAIN fl : b # a => fl2[b] = fl[b] /\ sy2[b] = sy[b], sy2[a] = Len(fl2[a])
  PROVE  AllSynced(fl2, sy2)
BY DEF AllSynced

LEMMA AllSyncedFlushed ==
  ASSUME WCore, buffer = <<>>, AllSynced(files, synced),
         files' = [files EXCEPT ![active] = @ \o buffer],
         synced' = synced \/ synced' = [synced EXCEPT ![active] = WritePos]
  PROVE  AllSynced(files', synced')
<1>1. PICK fl, sy, a, f, fl2, sy2 : /\ fl = files /\ sy = synced /\ a = active /\ f = fl[a]
                                    /\ fl2 = files' /\ sy2 = synced'
  OBVIOUS
<1>2. Disk(fl, sy) /\ a \in DOMAIN fl /\ AllSynced(fl, sy)
  BY <1>1 DEF WCore
<1>3. /\ f \in Seq(Byte) /\ sy \in [DOMAIN fl -> Nat] /\ fl = [b \in DOMAIN fl |-> fl[b]]
      /\ sy[a] = Len(f)
  BY <1>1, <1>2 DEF Disk, Directory, AllSynced
<1>4. f \o <<>> = f /\ Len(f) + Len(<<>>) = Len(f)
  BY <1>3
<1>5. fl2 = [fl EXCEPT ![a] = f \o <<>>]
  BY <1>1
<1>6. fl2 = fl
  BY <1>3, <1>4, <1>5, <1>1
<1>7. sy2 = sy \/ sy2 = [sy EXCEPT ![a] = Len(f) + Len(<<>>)]
  BY <1>1 DEF WritePos
<1>8. sy2 = sy
  BY <1>3, <1>4, <1>7
<1> QED
  BY <1>1, <1>2, <1>6, <1>8

LEMMA AllSyncedSlot ==
  ASSUME WCore, buffer = <<>>, AllSynced(files, synced), NEW n, NEW fs, NEW sz,
         fs = Slot(n).files, sz = Slot(n).synced
  PROVE  AllSynced(fs, sz) /\ Slot(n).buffer = <<>>
<1>1. CASE ~ NeedsRotation(n)
  BY <1>1 DEF Slot
<1>2. CASE NeedsRotation(n)
  <2>1. PICK fl, sy, a, f, new : /\ fl = files /\ sy = synced /\ a = active /\ f = fl[a]
                                 /\ new = NextOffset
    OBVIOUS
  <2>2. Disk(fl, sy) /\ a \in DOMAIN fl /\ AllSynced(fl, sy)
    BY <2>1 DEF WCore
  <2>3. /\ f \in Seq(Byte) /\ sy \in [DOMAIN fl -> Nat] /\ fl = [b \in DOMAIN fl |-> fl[b]]
        /\ sy[a] = Len(f)
    BY <2>1, <2>2 DEF Disk, Directory, AllSynced
  <2>4. f \o <<>> = f /\ Len(f) + Len(<<>>) = Len(f)
    BY <2>3
  <2>5. PICK gs, gz : gs = [fl EXCEPT ![a] = f \o <<>>]
                      /\ gz = [sy EXCEPT ![a] = Len(f) + Len(<<>>)]
    OBVIOUS
  <2>6. gs = fl /\ gz = sy
    BY <2>1, <2>3, <2>4, <2>5
  <2>7. fs = With(gs, new, <<>>) /\ sz = With(gz, new, 0) /\ Slot(n).buffer = <<>>
    BY <1>2, <2>1, <2>5 DEF Slot, Rotated, WritePos
  <2>8. fs = With(fl, new, <<>>) /\ sz = With(sy, new, 0)
    BY <2>6, <2>7
  <2>9. Len(<<>>) = 0
    OBVIOUS
  <2>10. ASSUME NEW b \in DOMAIN fs PROVE sz[b] = Len(fs[b])
    <3>1. b \in DOMAIN fl \union {new} /\ DOMAIN sy = DOMAIN fl
      BY <2>3, <2>8 DEF With
    <3>2. CASE b = new
      <4>1. fs[b] = <<>> /\ sz[b] = 0
        BY <3>1, <3>2, <2>8 DEF With
      <4> QED BY <4>1, <2>9
    <3>3. CASE b # new
      <4>1. fs[b] = fl[b] /\ sz[b] = sy[b] /\ b \in DOMAIN fl
        BY <3>1, <3>3, <2>8 DEF With
      <4> QED BY <4>1, <2>2 DEF AllSynced
    <3> QED BY <3>2, <3>3
  <2> QED BY <2>7, <2>10 DEF AllSynced
<1> QED BY <1>1, <1>2

LEMMA AllSyncedAcked ==
  ASSUME W, W', SyncPolicy = "SyncEveryRecord", buffer = <<>>, AllSynced(files, synced),
         NEW n \in Sizes, AppendAcked(n)
  PROVE  buffer' = <<>> /\ AllSynced(files', synced')
<1>1. PICK fs, sz, a, buf : /\ fs = Slot(n).files /\ sz = Slot(n).synced
                            /\ a = Slot(n).active /\ buf = Slot(n).buffer
  OBVIOUS
<1>2. WCore /\ baseOffset \in Nat /\ (NeedsRotation(n) => FreshName)
      /\ attempts \in 0 .. MaxAttempts
      /\ attempts < MaxAttempts
  BY DEF W, WRest, AppendAcked, Admitted
<1>3. Disk(fs, sz) /\ a \in DOMAIN fs /\ AllSynced(fs, sz) /\ buf = <<>>
  BY <1>1, <1>2, SlotShape, AllSyncedSlot
<1>4. PICK new, all, x : new = Bytes(attempts + 1, n) /\ all = buf \o new /\ x = fs[a]
  OBVIOUS
<1>5. new \in Seq(Byte) /\ Len(new) = n /\ n \in Nat
  <2>1. PICK t : t = attempts + 1
    OBVIOUS
  <2>2. t \in 1 .. MaxAttempts
    BY <2>1, <1>2, WalSegmentsAssumption
  <2> QED BY <2>1, <2>2, <1>4, BytesTyped
<1>6. all = new
  BY <1>3, <1>4, <1>5
<1>7. HandedOver(Len(buf), n) = n
  <2>1. Len(buf) = 0
    BY <1>3
  <2> QED BY <2>1, <1>5 DEF HandedOver
<1>8. SubSeq(all, 1, n) = new /\ SubSeq(all, n + 1, Len(all)) = <<>>
  BY <1>5, <1>6
<1>9. /\ files' = [fs EXCEPT ![a] = @ \o SubSeq(all, 1, n)]
      /\ buffer' = SubSeq(all, n + 1, Len(all))
      /\ synced' = [sz EXCEPT ![a] = (Len(fs[a]) + Len(buf)) + n]
  BY <1>1, <1>4, <1>7 DEF AppendAcked
<1>10. PICK fl2, sy2 : fl2 = files' /\ sy2 = synced'
  OBVIOUS
<1>11. x \in Seq(Byte) /\ fs = [b \in DOMAIN fs |-> fs[b]] /\ sz \in [DOMAIN fs -> Nat]
  BY <1>3, <1>4 DEF Disk, Directory
<1>12. /\ fl2[a] = x \o new /\ DOMAIN fl2 = DOMAIN fs
          /\ \A b \in DOMAIN fs : b # a => fl2[b] = fs[b]
  BY <1>3, <1>4, <1>8, <1>9, <1>10, <1>11
<1>13. sy2[a] = Len(x) + n /\ \A b \in DOMAIN fs : b # a => sy2[b] = sz[b]
  <2>1. (Len(x) + Len(buf)) + n = Len(x) + n
    BY <1>3, <1>5, <1>11
  <2> QED BY <2>1, <1>3, <1>4, <1>9, <1>10, <1>11
<1>14. Len(x \o new) = Len(x) + n
  BY <1>5, <1>11, ConcatProperties
<1>15. AllSynced(fl2, sy2)
  <2>1. sy2[a] = Len(fl2[a])
    BY <1>12, <1>13, <1>14
  <2>2. \A b \in DOMAIN fs : b # a => fl2[b] = fs[b] /\ sy2[b] = sz[b]
    BY <1>12, <1>13
  <2>3. Disk(fs, sz) /\ AllSynced(fs, sz) /\ a \in DOMAIN fs /\ DOMAIN fl2 = DOMAIN fs
    BY <1>3, <1>12
  <2> QED BY <2>1, <2>2, <2>3, AllSyncedOne
<1> QED
  BY <1>8, <1>9, <1>10, <1>15

LEMMA AllSyncedFailed ==
  ASSUME W, W', buffer = <<>>, AllSynced(files, synced), NEW n \in Sizes, AppendFailed(n)
  PROVE  buffer' = <<>> /\ AllSynced(files', synced')
<1>1. PICK fs, sz, a, buf : /\ fs = Slot(n).files /\ sz = Slot(n).synced
                            /\ a = Slot(n).active /\ buf = Slot(n).buffer
  OBVIOUS
<1>2. WCore /\ baseOffset \in Nat /\ (NeedsRotation(n) => FreshName)
      /\ attempts \in 0 .. MaxAttempts
      /\ attempts < MaxAttempts
  BY DEF W, WRest, AppendFailed, Admitted
<1>3. Disk(fs, sz) /\ a \in DOMAIN fs /\ AllSynced(fs, sz) /\ buf = <<>>
  BY <1>1, <1>2, SlotShape, AllSyncedSlot
<1>4. PICK x, all : x = fs[a] /\ all = buf \o Bytes(attempts + 1, n)
  OBVIOUS
<1>5. x \in Seq(Byte) /\ Len(x) \in Nat /\ fs = [b \in DOMAIN fs |-> fs[b]] /\ sz[a] = Len(x)
  BY <1>3, <1>4 DEF Disk, Directory, AllSynced
<1>6. all \in Seq(Byte)
  <2>1. PICK t, new : t = attempts + 1 /\ new = Bytes(t, n)
    OBVIOUS
  <2>2. t \in 1 .. MaxAttempts
    BY <2>1, <1>2, WalSegmentsAssumption
  <2>3. new \in Seq(Byte)
    BY <2>1, <2>2, BytesTyped
  <2> QED BY <2>1, <2>3, <1>3, <1>4
<1>7. PICK pos : pos = Len(fs[a]) + Len(buf)
  OBVIOUS
<1>8. pos = Len(x)
  BY <1>3, <1>4, <1>5, <1>7
<1>9. \E now \in Seq(Byte) : /\ Len(x) <= Len(now) /\ Len(now) \in Nat
                             /\ files' = [fs EXCEPT ![a] = SubSeq(now, 1, Min2(pos, Len(now)))]
                             /\ synced' = sz /\ buffer' = <<>>
  <2>1. \/ writer = "failed" /\ ~ NeedsRotation(n) /\ RollbackTo(Slot(n), files[active], pos)
        \/ \E j \in 0 .. HandedOver(Len(buf), n) : RollbackTo(Slot(n), x \o SubSeq(all, 1, j), pos)
    BY <1>1, <1>4, <1>7 DEF AppendFailed
  <2>2. CASE ~ NeedsRotation(n) /\ RollbackTo(Slot(n), files[active], pos)
    <3>1. x = files[active]
      BY <1>1, <1>4, <2>2 DEF Slot
    <3>2. /\ files' = [fs EXCEPT ![a] = SubSeq(files[active], 1, Min2(pos, Len(files[active])))]
          /\ synced' = sz /\ buffer' = <<>>
      BY <2>2, <1>1 DEF RollbackTo
    <3>3. /\ files' = [fs EXCEPT ![a] = SubSeq(x, 1, Min2(pos, Len(x)))]
          /\ synced' = sz /\ buffer' = <<>>
      BY <3>1, <3>2
    <3>4. Len(x) <= Len(x)
      BY <1>5
    <3> QED BY <3>3, <3>4, <1>5
  <2>3. CASE \E j \in 0 .. HandedOver(Len(buf), n) :
             RollbackTo(Slot(n), x \o SubSeq(all, 1, j), pos)
    <3>1. PICK j \in 0 .. HandedOver(Len(buf), n) : RollbackTo(Slot(n), x \o SubSeq(all, 1, j), pos)
      BY <2>3
    <3>2. PICK h, now : h = SubSeq(all, 1, j) /\ now = x \o h
      OBVIOUS
    <3>3. h \in Seq(Byte)
      <4>1. \A i \in 1 .. j : i \in 1 .. Len(all) => all[i] \in Byte
        BY <1>6
      <4>2. j \in Nat /\ j <= Len(all)
        <5>1. n \in Nat \ {0} /\ 0 \in Nat /\ 0 <= BufferSize /\ Len(buf) = 0
          BY <1>3, WalSegmentsAssumption
        <5>2. HandedOver(0, n) \in 0 .. 0 + n
          BY <5>1, HandedOverFits
        <5>3. Len(all) = n
          <6>1. PICK t, new : t = attempts + 1 /\ new = Bytes(t, n)
            OBVIOUS
          <6>2. t \in 1 .. MaxAttempts
            BY <6>1, <1>2, WalSegmentsAssumption
          <6>3. new \in Seq(Byte) /\ Len(new) = n
            BY <6>1, <6>2, BytesTyped
          <6> QED BY <6>1, <6>3, <1>3, <1>4
        <5> QED BY <5>1, <5>2, <5>3
      <4> QED BY <4>2, <3>2, <1>6, Prefix
    <3>4. now \in Seq(Byte) /\ Len(now) = Len(x) + Len(h)
      BY <3>2, <3>3, <1>5, ConcatProperties
    <3>5. Len(x) <= Len(now) /\ Len(now) \in Nat
      BY <3>3, <3>4, <1>5
    <3>6. RollbackTo(Slot(n), now, pos)
      BY <3>1, <3>2
    <3>7. /\ files' = [fs EXCEPT ![a] = SubSeq(now, 1, Min2(pos, Len(now)))]
          /\ synced' = sz /\ buffer' = <<>>
      BY <3>6, <1>1 DEF RollbackTo
    <3> QED BY <3>4, <3>5, <3>7
  <2> QED BY <2>1, <2>2, <2>3
<1>10. PICK now \in Seq(Byte) : /\ Len(x) <= Len(now) /\ Len(now) \in Nat
                               /\ files' = [fs EXCEPT ![a] = SubSeq(now, 1, Min2(pos, Len(now)))]
                               /\ synced' = sz /\ buffer' = <<>>
  BY <1>9
<1>11. Min2(pos, Len(now)) = Len(x)
  BY <1>5, <1>8, <1>10 DEF Min2
<1>12. PICK fl2 : fl2 = files'
  OBVIOUS
<1>13. /\ fl2[a] = SubSeq(now, 1, Len(x)) /\ DOMAIN fl2 = DOMAIN fs
       /\ \A b \in DOMAIN fs : b # a => fl2[b] = fs[b]
  BY <1>3, <1>5, <1>10, <1>11, <1>12
<1>14. Len(fl2[a]) = Len(x)
  <2>1. Len(x) \in 0 .. Len(now)
    BY <1>5, <1>10
  <2> QED BY <2>1, <1>13, Prefix
<1>15. AllSynced(fl2, sz)
  <2>1. sz[a] = Len(fl2[a])
    BY <1>5, <1>14
  <2> QED BY <2>1, <1>3, <1>13, AllSyncedOne
<1> QED
  BY <1>10, <1>12, <1>15

LEMMA AllSyncedWithout ==
  ASSUME NEW fl, NEW sy, Disk(fl, sy), AllSynced(fl, sy), NEW gone
  PROVE  AllSynced(Without(fl, gone), Without(sy, gone))
<1>1. DOMAIN sy = DOMAIN fl
  BY DEF Disk
<1> QED
  BY <1>1 DEF AllSynced, Without

LEMMA FirmRecover ==
  ASSUME W, AllSynced(files, synced), Recover
  PROVE  buffer' = <<>> /\ AllSynced(files', synced')
<1>1. PICK fl, sy, gone : fl = files /\ sy = synced /\ gone = Opened(files).dropped
  OBVIOUS
<1>2. Disk(fl, sy) /\ AllSynced(fl, sy)
  BY <1>1 DEF W, WCore
<1>3. PICK tr, ts : tr = Trimmed(fl) /\ ts = TrimSynced(fl, sy)
  OBVIOUS
<1>4. Disk(tr, ts) /\ DOMAIN tr = DOMAIN fl
  BY <1>2, <1>3, TrimmedTyped
<1>5. ASSUME NEW b \in DOMAIN tr PROVE ts[b] = Len(tr[b])
  <2>1. PICK v, f : v = ValidEnd(RecoverSegment(b, fl[b])) /\ f = fl[b]
    OBVIOUS
  <2>2. f \in Seq(Byte) /\ b \in Nat /\ b \in DOMAIN fl /\ sy[b] = Len(f)
    BY <2>1, <1>2, <1>4 DEF Disk, Directory, AllSynced
  <2>3. v \in 0 .. Len(f)
    BY <2>1, <2>2, RecoverSegmentShape DEF Recovered
  <2>4. tr[b] = SubSeq(f, 1, v) /\ ts[b] = Min2(sy[b], v)
    BY <2>1, <2>2, <1>3 DEF Trimmed, TrimSynced
  <2>5. Len(SubSeq(f, 1, v)) = v
    BY <2>2, <2>3, Prefix
  <2>6. Min2(Len(f), v) = v
    <3>1. Len(f) \in Nat
      BY <2>2
    <3> QED BY <3>1, <2>3 DEF Min2
  <2> QED BY <2>2, <2>4, <2>5, <2>6
<1>6. AllSynced(tr, ts)
  BY <1>5 DEF AllSynced
<1>7. files' = Without(tr, gone) /\ synced' = Without(ts, gone) /\ buffer' = <<>>
  BY <1>1, <1>3 DEF Recover, Trimmed, TrimSynced
<1>8. AllSynced(Without(tr, gone), Without(ts, gone))
  BY <1>4, <1>6, AllSyncedWithout
<1> QED
  BY <1>7, <1>8

LEMMA FirmInit == Init => Firm
<1> SUFFICES ASSUME Init PROVE Firm
  OBVIOUS
<1>1. buffer = <<>> /\ files = [b \in {0} |-> <<>>] /\ synced = [b \in {0} |-> 0]
  BY DEF Init
<1>2. Len(<<>>) = 0
  OBVIOUS
<1> QED
  BY <1>1, <1>2 DEF Firm, AllSynced

LEMMA FirmStep == W /\ W' /\ Firm /\ [Next]_vars => Firm'
<1> SUFFICES ASSUME W, W', Firm, [Next]_vars,
                    SyncPolicy = "SyncEveryRecord", "process" \notin CrashKinds
             PROVE  buffer' = <<>> /\ AllSynced(files', synced')
  BY DEF Firm
<1>1. buffer = <<>> /\ AllSynced(files, synced) /\ WCore /\ ~ FlushBroken
  BY DEF Firm, W, FlushBroken
<1>2. FlushBuffer => buffer' = <<>> /\ files' = [files EXCEPT ![active] = @ \o buffer]
  BY DEF FlushBuffer
<1>3. ASSUME FlushBuffer, synced' = synced \/ synced' = [synced EXCEPT ![active] = WritePos]
      PROVE  buffer' = <<>> /\ AllSynced(files', synced')
  BY <1>1, <1>2, <1>3, AllSyncedFlushed
<1>4. ASSUME UNCHANGED <<files, synced, buffer>> PROVE buffer' = <<>> /\ AllSynced(files', synced')
  BY <1>1, <1>4
<1>5. CASE \E n \in Sizes : AppendAcked(n)
  BY <1>1, <1>5, AllSyncedAcked
<1>6. CASE \E n \in Sizes : AppendFailed(n)
  BY <1>1, <1>6, AllSyncedFailed
<1>7. CASE \E n \in Sizes : RotationFailed(n)
  BY <1>1, <1>3, <1>7 DEF RotationFailed
<1>8. CASE ReadBatch
  BY <1>3, <1>8 DEF ReadBatch
<1>9. CASE SinkSettles \/ SinkFails
  BY <1>4, <1>9 DEF SinkSettles, SinkFails, disk, memory
<1>10. CASE Commit
  <2>1. Logged.files = files /\ Logged.synced = synced /\ Logged.buffer = buffer
    BY DEF Logged
  <2>2. \E gone : files' = Without(files, gone) /\ synced' = Without(synced, gone)
        /\ buffer' = buffer
    BY <1>10, <2>1 DEF Commit
  <2> QED BY <2>2, <1>1, AllSyncedWithout DEF WCore
<1>11. CASE CommitNothing
  BY <1>3, <1>4, <1>11, <1>1 DEF CommitNothing, Logged
<1>12. CASE Flush
  BY <1>1, <1>3, <1>12 DEF Flush
<1>13. CASE Close
  <2>1. buffer' = <<>>
    BY <1>13 DEF Close, Gone
  <2>2. \/ /\ files' = [files EXCEPT ![active] = @ \o buffer]
           /\ synced' = [synced EXCEPT ![active] = WritePos] \/ synced' = synced
        \/ UNCHANGED <<files, synced>>
    BY <1>13 DEF Close
  <2> QED BY <2>1, <2>2, <1>1, AllSyncedFlushed
<1>14. CASE PowerLoss
  <2>1. PICK n \in synced[active] .. Len(files[active]) :
          /\ files' = [files EXCEPT ![active] = SubSeq(@, 1, n)]
          /\ synced' = [synced EXCEPT ![active] = n]
    BY <1>14 DEF PowerLoss
  <2>2. buffer' = <<>>
    BY <1>14 DEF PowerLoss, Gone
  <2>3. PICK fl, sy, a, f : fl = files /\ sy = synced /\ a = active /\ f = fl[a]
    OBVIOUS
  <2>4. Disk(fl, sy) /\ a \in DOMAIN fl /\ AllSynced(fl, sy)
    BY <2>3, <1>1 DEF WCore
  <2>5. f \in Seq(Byte) /\ Len(f) \in Nat /\ sy[a] = Len(f)
    BY <2>3, <2>4 DEF Disk, Directory, AllSynced
  <2>6. n = Len(f)
    BY <2>1, <2>3, <2>5
  <2>7. SubSeq(f, 1, n) = f
    BY <2>5, <2>6
  <2>8. files' = fl /\ synced' = sy
    BY <2>1, <2>3, <2>4, <2>5, <2>6, <2>7 DEF Disk, Directory
  <2> QED BY <2>2, <2>3, <2>4, <2>8
<1>15. CASE Recover
  BY <1>1, <1>15, FirmRecover
<1>16. CASE UNCHANGED vars
  BY <1>4, <1>16 DEF vars, disk, memory
<1>17. CASE ProcessCrash \/ CommitInterrupted
  BY <1>17 DEF ProcessCrash, CommitInterrupted
<1> QED
  BY <1>5, <1>6, <1>7, <1>8, <1>9, <1>10, <1>11, <1>12, <1>13, <1>14, <1>15, <1>16, <1>17 DEF Next


-----------------------------------------------------------------------------
(* Commit *)

\* What is asked of the configuration: at most one segment at a time in the directory
\* that could not be removed, whatever other calls IOError lets fail; frames a start
\* accepts; no power loss where nothing is fsynced before a commit.
SafeSetup ==
  /\ MaxStrays <= 1
  /\ \A z \in Sizes : z <= MaxRecoverable
  /\ \/ "power" \notin CrashKinds
     \/ SyncPolicy = "SyncBatchCommit"
     \/ SyncPolicy = "SyncEveryRecord" /\ "process" \notin CrashKinds

\* The directory fs is what is left of fl when segments below c are gone.
Thinned(fl, act, buf, at, c, top, mt, sn, hd, gone, fs, sz) ==
  /\ Sound(at, c, top, act, LogOf(fs, act, buf), sz, Placed(fs, sz), mt, sn, hd)
  /\ Disk(fs, sz) /\ act \in DOMAIN fs /\ DOMAIN fs = DOMAIN fl \ gone
  /\ DOMAIN LogOf(fs, act, buf) = DOMAIN fl \ gone
  /\ \A b \in DOMAIN fl \ gone : LogOf(fs, act, buf)[b] = LogOf(fl, act, buf)[b]

\* Segments are removed that are all below c.
LEMMA PrunedLog ==
  ASSUME NEW fl, NEW sy, Disk(fl, sy), NEW act \in DOMAIN fl, NEW buf \in Seq(Byte),
         NEW at, NEW low, NEW top, NEW mt, NEW sn, NEW hd,
         Sound(at, low, top, act, LogOf(fl, act, buf), sy, Placed(fl, sy), mt, sn, hd),
         NEW c \in DOMAIN fl, low <= c, c <= mt,
         NEW gone, \A b \in DOMAIN fl : c <= b => b \notin gone
  PROVE  Thinned(fl, act, buf, at, c, top, mt, sn, hd, gone, Without(fl, gone), Without(sy, gone))
<1>1. PICK fs, sz, lg, lg2, pl, pl2 :
        /\ fs = Without(fl, gone) /\ sz = Without(sy, gone)
        /\ lg = LogOf(fl, act, buf) /\ lg2 = LogOf(fs, act, buf)
        /\ pl = Placed(fl, sy) /\ pl2 = Placed(fs, sz)
  OBVIOUS
<1>2. Directory(lg) /\ DOMAIN lg = DOMAIN fl
  BY <1>1, LogOfIs
<1>3. Sound(at, low, top, act, lg, sy, pl, mt, sn, hd)
  BY <1>1
<1>4. act \notin gone
  <2>1. \A b \in DOMAIN lg : b <= act
    BY <1>2, <1>3, TiledNat DEF Sound
  <2> QED BY <2>1, <1>2
<1>5. Disk(fs, sz) /\ act \in DOMAIN fs
  <2>1. Disk(fs, sz)
    BY <1>1, <1>4, DiskWithout
  <2>2. act \in DOMAIN fs
    BY <1>1, <1>4 DEF Without
  <2> QED BY <2>1, <2>2
<1>6. /\ DOMAIN fs = DOMAIN fl \ gone /\ DOMAIN lg2 = DOMAIN fs
      /\ \A b \in DOMAIN fs : fs[b] = fl[b]
  BY <1>1 DEF Without, LogOf
<1>7. \A b \in DOMAIN fs : sz[b] = sy[b]
  <2>1. DOMAIN sy = DOMAIN fl
    BY DEF Disk
  <2> QED BY <2>1, <1>1, <1>6 DEF Without
<1>8. \A b \in DOMAIN fs : lg2[b] = lg[b]
  BY <1>1, <1>6 DEF LogOf
<1>9. \A b \in DOMAIN fs : pl2[b] = pl[b]
  BY <1>1, <1>6, <1>7 DEF Placed
<1>10. Sound(at, c, top, act, lg2, sz, pl2, mt, sn, hd)
  <2>1. DOMAIN lg2 \subseteq DOMAIN lg /\ \A b \in DOMAIN lg : c <= b => b \in DOMAIN lg2
    BY <1>2, <1>6
  <2>2. \A b \in DOMAIN lg2 : lg2[b] = lg[b] /\ sz[b] = sy[b] /\ pl2[b] = pl[b]
    BY <1>6, <1>7, <1>8, <1>9
  <2>3. c \in DOMAIN lg
    BY <1>2
  <2> QED BY <2>1, <2>2, <2>3, <1>2, <1>3, SoundPruned
<1> QED
  BY <1>1, <1>5, <1>6, <1>8, <1>10 DEF Thinned

LEMMA StraysRaised ==
  ASSUME NEW low \in Nat, NEW lg, Directory(lg), NEW sn, Strays(low, lg, sn),
         NEW d \in Nat, low <= d, \A b \in DOMAIN lg : b < low \/ d <= b
  PROVE  Strays(d, lg, sn)
<1> SUFFICES ASSUME NEW s \in DOMAIN lg, s < d
             PROVE  /\ \A u \in DOMAIN lg : u < d => u = s
                    /\ Len(RecoverSegment(s, lg[s])) > 0 /\ s + Len(RecoverSegment(s, lg[s])) <= d
                    /\ \A i \in 1 .. Len(lg[s]) : lg[s][i].tkt \in sn
  BY DEF Strays
<1>1. DOMAIN lg \in SUBSET Nat /\ lg[s] \in Seq(Byte) /\ s \in Nat
  BY DEF Directory
<1>2. \A b \in DOMAIN lg : b < d => b < low
  BY <1>1
<1>3. PICK n : n = Len(RecoverSegment(s, lg[s]))
  OBVIOUS
<1>4. n \in Nat
  <2>1. RecoverSegment(s, lg[s]) \in Seq([off : Nat, seg : {s}, pos : Nat, len : Sizes])
    BY <1>1, RecoverSegmentShape
  <2> QED BY <2>1, <1>3
<1>5. /\ \A u \in DOMAIN lg : u < low => u = s
      /\ n > 0 /\ s + n <= low
      /\ \A i \in 1 .. Len(lg[s]) : lg[s][i].tkt \in sn
  BY <1>2, <1>3 DEF Strays
<1>6. s + n <= d
  BY <1>1, <1>4, <1>5
<1> QED
  BY <1>2, <1>3, <1>5, <1>6

\* A segment behind the checkpoint that could not be removed.
LEMMA StrayLeft ==
  ASSUME NEW dir, Directory(dir), NEW at, NEW low, NEW top, NEW act,
         Tiled(at, low, top, dir, act), Torn(dir[act], ValidTo(at, top, act)),
         \A z \in Sizes : z <= MaxRecoverable,
         NEW s \in DOMAIN dir, low <= s, NEW c \in DOMAIN dir, s < c, NEW sn,
         \A o \in low .. c - 1 : Tkt(dir, at[o]) \in sn
  PROVE  /\ Len(RecoverSegment(s, dir[s])) > 0 /\ s + Len(RecoverSegment(s, dir[s])) <= c
         /\ \A i \in 1 .. Len(dir[s]) : dir[s][i].tkt \in sn
<1>1. /\ low \in Nat /\ act \in Nat /\ top \in Nat /\ s \in Nat /\ c \in Nat
      /\ c <= act /\ act <= top
  <2>1. DOMAIN dir \in SUBSET Nat /\ \A d \in DOMAIN dir : d <= act
    BY TiledNat
  <2> QED BY <2>1, TiledNat
<1>2. s # act /\ s \in low .. top - 1
  BY <1>1
<1>3. PICK hi \in s .. top :
        /\ \A o \in low .. top - 1 : at[o].seg = s <=> s <= o /\ o < hi
        /\ s # act => hi \in DOMAIN dir /\ s < hi
        /\ Len(RecoverSegment(s, dir[s])) = hi - s
  BY SegmentIs
<1>4. hi \in Nat /\ s < hi
  BY <1>1, <1>2, <1>3
<1>5. hi <= c
  <2> SUFFICES ASSUME c < hi PROVE FALSE
    BY <1>1, <1>4
  <2>1. c \in low .. top - 1 /\ at[c].seg = s
    <3>1. c \in low .. top - 1
      BY <1>1, <1>3
    <3>2. s <= c /\ c < hi
      BY <1>1
    <3> QED BY <3>1, <3>2, <1>3
  <2>2. Home(dir, low, s, c)
    BY <2>1 DEF Tiled
  <2>3. c <= s \/ c < c
    BY <2>2 DEF Home
  <2> QED BY <2>3, <1>1
<1>6. hi - s > 0 /\ s + (hi - s) <= c
  BY <1>1, <1>4, <1>5
<1>7. ASSUME NEW i \in 1 .. Len(dir[s]) PROVE dir[s][i].tkt \in sn
  <2>1. PICK o \in low .. top - 1 : at[o].seg = s /\ dir[s][i].tkt = Tkt(dir, at[o])
    BY <1>2, Covered
  <2>2. o < hi
    BY <2>1, <1>3
  <2>3. o \in low .. c - 1
    BY <2>2, <1>1, <1>4, <1>5
  <2> QED BY <2>1, <2>3
<1> QED
  BY <1>3, <1>6, <1>7

\* The checkpoint file has the new number, and the records below c can go.
Checkpointed(at, low, top, act, c, fl, sy, buf, upto, recs, base, sn, hd) ==
  /\ Sound(at, low, top, act, LogOf(fl, act, buf), sy, Placed(fl, sy), upto, sn, hd)
  /\ Strays(low, LogOf(fl, act, buf), sn)
  /\ Len(LogOf(fl, act, buf)[act]) = ValidTo(at, top, act)
  /\ c \in DOMAIN fl /\ low <= c /\ c <= upto
  /\ Kept(recs, upto, act) \in Seq(Entry)
  /\ Joined(Kept(recs, upto, act), <<>>, at, c, top)
  /\ BaseAfter(base, recs, upto, act) = c
  /\ \A b \in DOMAIN fl : b \in Dropped(recs, upto, act) <=> low <= b /\ b < c
  /\ Dropped(recs, upto, act) \subseteq DOMAIN fl

\* What the dispatcher holds survives the commit.
LEMMA HandPlaced ==
  ASSUME W, Firm, SafeSetup, NEW at, NEW low, NEW top, NEW act,
         Held(at, low, top, act), Working(at, low, top, act), Committing,
         NEW o \in low .. hand.upto - 1
  PROVE  /\ Tkt(LogOf(files, active, buffer), at[o]) \in seen
         /\ End(at[o]) <= Placed(Logged.files, Logged.synced)[at[o].seg]
<1>1. PICK fl, sy, a, buf, lg, fl2, sy2, upto, b :
        /\ fl = files /\ sy = synced /\ a = active /\ buf = buffer /\ lg = LogOf(fl, a, buf)
        /\ fl2 = Logged.files /\ sy2 = Logged.synced /\ upto = hand.upto /\ b = at[o].seg
  OBVIOUS
<1>2. /\ Disk(fl, sy) /\ a \in DOMAIN fl /\ buf \in Seq(Byte) /\ WCore /\ act = a
  BY <1>1 DEF W, WCore, Working
<1>3. Disk(fl2, sy2) /\ DOMAIN fl2 = DOMAIN fl
  BY <1>1, <1>2, LoggedTyped
<1>4. SameLog(files, synced, active, buffer, Logged.files, Logged.synced, active, Logged.buffer)
  BY <1>2, LoggedSame
<1>5. \A d \in DOMAIN fl : Len(fl[d]) <= Len(fl2[d]) /\ sy[d] <= sy2[d]
  BY <1>1, <1>4 DEF SameLog
<1>6. Directory(lg) /\ DOMAIN lg = DOMAIN fl
  BY <1>1, <1>2, LogOfIs
<1>7. /\ Tiled(at, low, top, lg, a) /\ meta \in low .. top
      /\ \A d \in DOMAIN lg : d # a => sy[d] = Len(lg[d])
      /\ \A p \in low .. meta - 1 : Tkt(lg, at[p]) \in seen
  BY <1>1, <1>2 DEF Held, Sound
<1>8. /\ InHand(at, low, top, upto, hand.frames, checkpoint, fl, lg)
      /\ hand.frames \subseteq seen /\ checkpoint <= meta /\ meta \in Nat /\ checkpoint \in Nat
  <2>1. hand.phase = "commit" /\ hand.phase # "idle"
    BY DEF Committing
  <2> QED BY <2>1, <1>1 DEF Working, W, WRest
<1>9. o \in low .. upto - 1 /\ upto \in low + 1 .. top
  BY <1>1, <1>8 DEF InHand
<1>10. low \in Nat /\ top \in Nat
  BY <1>6, <1>7, TiledNat
<1>11. o \in low .. top - 1 /\ o \in Nat
  BY <1>9, <1>10
<1>12. /\ b \in DOMAIN fl /\ End(at[o]) \in Nat /\ End(at[o]) <= Len(lg[b])
  BY <1>1, <1>6, <1>7, <1>11, TiledAt
<1>13. Tkt(lg, at[o]) \in seen
  <2>1. CASE checkpoint <= o
    BY <2>1, <1>8, <1>9 DEF InHand
  <2>2. CASE ~ (checkpoint <= o)
    <3>1. o \in low .. meta - 1
      BY <2>2, <1>8, <1>9, <1>10, <1>11
    <3> QED BY <3>1, <1>7
  <2> QED BY <2>1, <2>2
<1>14. End(at[o]) <= Len(fl[b])
  BY <1>1, <1>8, <1>9 DEF InHand
<1>15. /\ Len(fl[b]) \in Nat /\ Len(fl2[b]) \in Nat /\ sy[b] \in Nat /\ sy2[b] \in Nat
       /\ b \in DOMAIN fl2
  <2>1. fl[b] \in Seq(Byte) /\ sy[b] \in Nat
    BY <1>2, <1>12 DEF Disk, Directory
  <2>2. fl2[b] \in Seq(Byte) /\ sy2[b] \in Nat
    BY <1>3, <1>12 DEF Disk, Directory
  <2> QED BY <2>1, <2>2, <1>3, <1>12
<1>16. CASE "power" \notin CrashKinds
  <2>1. Placed(fl2, sy2)[b] = Len(fl2[b])
    BY <1>15, <1>16 DEF Placed
  <2>2. End(at[o]) <= Len(fl2[b])
    BY <1>5, <1>12, <1>14, <1>15, LeqThrough
  <2> QED BY <2>1, <2>2, <1>1, <1>13
<1>17. CASE "power" \in CrashKinds
  <2>1. Placed(fl2, sy2)[b] = sy2[b]
    BY <1>15, <1>17 DEF Placed
  <2>2. End(at[o]) <= sy2[b]
    <3>1. CASE b # a
      <4>1. sy[b] = Len(lg[b])
        BY <3>1, <1>6, <1>7, <1>12
      <4> QED BY <4>1, <1>5, <1>12, <1>15, LeqThrough
    <3>2. CASE b = a /\ SyncPolicy = "SyncBatchCommit"
      <4>1. sy2 = [sy EXCEPT ![a] = Len(fl[a]) + Len(buf)]
        BY <3>2, <1>1 DEF Logged, WritePos
      <4>2. sy2[b] = Len(fl[b]) + Len(buf)
        BY <4>1, <3>2, <1>2 DEF Disk
      <4>3. Len(buf) \in Nat
        BY <1>2
      <4>4. Len(fl[b]) <= Len(fl[b]) + Len(buf) /\ Len(fl[b]) + Len(buf) \in Nat
        BY <4>3, <1>15
      <4>5. End(at[o]) <= Len(fl[b]) + Len(buf)
        BY <4>4, <1>12, <1>14, <1>15, LeqThrough
      <4> QED BY <4>2, <4>5
    <3>3. CASE b = a /\ SyncPolicy = "SyncEveryRecord" /\ "process" \notin CrashKinds
      <4>1. sy[b] = Len(fl[b])
        BY <3>3, <1>1, <1>12 DEF Firm, AllSynced
      <4> QED BY <4>1, <1>5, <1>12, <1>14, <1>15, LeqThrough
    <3> QED BY <3>1, <3>2, <3>3, <1>17 DEF SafeSetup
  <2> QED BY <2>1, <2>2, <1>1, <1>13
<1> QED
  BY <1>16, <1>17


LEMMA CommitSound ==
  ASSUME W, Firm, SafeSetup, NEW at, NEW low, NEW top, NEW act,
         Held(at, low, top, act), Working(at, low, top, act), Committing
  PROVE  \E c : Checkpointed(at, low, top, act, c, Logged.files, Logged.synced, Logged.buffer,
                             hand.upto, records, baseOffset, seen, hard)
<1>1. PICK fl, sy, buf, fl2, sy2, buf2, upto, lg, mt, sn, hd, recs :
        /\ fl = files /\ sy = synced /\ buf = buffer
        /\ fl2 = Logged.files /\ sy2 = Logged.synced /\ buf2 = Logged.buffer
        /\ upto = hand.upto /\ lg = LogOf(fl, act, buf) /\ mt = meta /\ sn = seen /\ hd = hard
        /\ recs = records
  OBVIOUS
<1>2. act = active /\ low = baseOffset
  BY DEF Working
<1>3. /\ Disk(fl, sy) /\ act \in DOMAIN fl /\ buf \in Seq(Byte) /\ WCore
  BY <1>1, <1>2 DEF W, WCore
<1>4. Disk(fl2, sy2) /\ DOMAIN fl2 = DOMAIN fl /\ buf2 \in Seq(Byte)
      /\ Indexes(recs, fl2, act, buf2)
  BY <1>1, <1>2, <1>3, LoggedTyped
<1>5. SameLog(fl, sy, act, buf, fl2, sy2, act, buf2)
  BY <1>1, <1>2, <1>3, LoggedSame
<1>6. /\ LogOf(fl2, act, buf2) = lg
      /\ \A b \in DOMAIN fl : Len(fl[b]) <= Len(fl2[b]) /\ sy[b] <= sy2[b]
  BY <1>1, <1>5 DEF SameLog
<1>7. Directory(lg) /\ DOMAIN lg = DOMAIN fl
  BY <1>1, <1>3, LogOfIs
<1>8. PICK pl, pl2 : pl = Placed(fl, sy) /\ pl2 = Placed(fl2, sy2)
  OBVIOUS
<1>9. /\ Sound(at, low, top, act, lg, sy, pl, mt, sn, hd) /\ Strays(low, lg, sn)
      /\ Len(lg[act]) = ValidTo(at, top, act)
  BY <1>1, <1>2, <1>8 DEF Held, Working
<1>10. Sound(at, low, top, act, lg, sy2, pl2, mt, sn, hd)
  <2>1. DOMAIN lg \subseteq DOMAIN fl /\ DOMAIN lg \subseteq DOMAIN fl2
    BY <1>4, <1>7
  <2>2. \A b \in DOMAIN lg : Len(fl[b]) <= Len(fl2[b]) /\ sy[b] <= sy2[b]
    BY <1>6, <1>7
  <2>3. Grown(sy, sy2, lg) /\ Grown(pl, pl2, lg)
    BY <2>1, <2>2, <1>3, <1>4, <1>8, PlacedGrown
  <2>4. Measured(sy2, lg)
    <3>1. act \in DOMAIN fl2
      BY <1>3, <1>4
    <3>2. Measured(sy2, LogOf(fl2, act, buf2))
      BY <3>1, <1>4, LogOfIs
    <3> QED BY <3>2, <1>6
  <2>5. sn \subseteq sn
    OBVIOUS
  <2> QED BY <2>3, <2>4, <2>5, <1>7, <1>9, SoundGrown
<1>11. /\ low \in Nat /\ act \in Nat /\ top \in Nat /\ low <= act /\ act <= top /\ low \in DOMAIN lg
       /\ \A b \in DOMAIN lg : b <= act
  BY <1>7, <1>9, TiledNat DEF Sound
<1>12. upto \in low + 1 .. top
  <2>1. hand.phase = "commit" /\ hand.phase # "idle"
    BY DEF Committing
  <2> QED BY <2>1, <1>1 DEF Working, InHand
<1>13. Sound(at, low, top, act, lg, sy2, pl2, upto, sn, hd)
  <2>1. upto \in low .. top
    BY <1>11, <1>12
  <2>2. ASSUME NEW o \in low .. upto - 1
        PROVE  Tkt(lg, at[o]) \in sn /\ End(at[o]) <= pl2[at[o].seg]
    <3>1. o \in low .. hand.upto - 1
      BY <1>1
    <3> QED BY <3>1, <1>1, <1>2, <1>8, HandPlaced
  <2> QED BY <2>1, <2>2, <1>10, SoundMoved
<1>14. recs \in Seq(Entry) /\ Joined(recs, <<>>, at, low, top)
  BY <1>1 DEF W, WCore, Indexes, Working
<1>15. PICK c \in DOMAIN lg :
         /\ low <= c /\ (c = low \/ c <= upto)
         /\ Kept(recs, upto, act) \in Seq(Entry)
         /\ Joined(Kept(recs, upto, act), <<>>, at, c, top)
         /\ BaseAfter(low, recs, upto, act) = c
         /\ \A b \in DOMAIN lg : low <= b => (b \in Dropped(recs, upto, act) <=> b < c)
         /\ \A b \in DOMAIN lg : b < low => b \notin Dropped(recs, upto, act)
  <2>1. PICK none : none = <<>>
    OBVIOUS
  <2>2. none \in Seq(Entry) /\ Len(none) = 0
    BY <2>1
  <2>3. \A i \in 1 .. Len(none) : none[i].seg < low /\ none[i].off < upto
    BY <2>2
  <2>4. upto \in Nat
    BY <1>11, <1>12
  <2>5. Joined(recs, none, at, low, top)
    BY <2>1, <1>14
  <2>6. Tiled(at, low, top, lg, act)
    BY <1>13 DEF Sound
  <2>7. \E c \in DOMAIN lg :
         /\ low <= c /\ (c = low \/ c <= upto)
         /\ Kept(recs, upto, act) \in Seq(Entry)
         /\ Joined(Kept(recs, upto, act), <<>>, at, c, top)
         /\ BaseAfter(low, recs, upto, act) = c
         /\ \A b \in DOMAIN lg : low <= b => (b \in Dropped(recs, upto, act) <=> b < c)
         /\ \A b \in DOMAIN lg : b < low =>
              (b \in Dropped(recs, upto, act) <=> \E i \in 1 .. Len(none) : none[i].seg = b)
    <3>1. PICK base : base = low
      OBVIOUS
    <3>2. base = low \/ Len(none) > 0
      BY <3>1
    <3>3. recs \in Seq(Entry) /\ none \in Seq(Entry)
      BY <2>2, <1>14
    <3>4. \E c : PruneEnds(lg, at, low, top, act, recs, none, upto, base, c)
      BY <2>3, <2>4, <2>5, <2>6, <3>2, <3>3, <1>7, PrunedIs
    <3> QED BY <3>1, <3>4 DEF PruneEnds
  <2> QED BY <2>2, <2>7
<1>16. c \in DOMAIN fl2 /\ c <= upto /\ c \in Nat
  BY <1>4, <1>7, <1>11, <1>12, <1>15 DEF Directory
<1>17. ASSUME NEW b \in DOMAIN fl2 PROVE b \in Dropped(recs, upto, act) <=> low <= b /\ b < c
  <2>1. b \in DOMAIN lg /\ b \in Nat
    BY <1>4, <1>7 DEF Directory
  <2>2. CASE low <= b
    BY <2>1, <2>2, <1>15
  <2>3. CASE ~ (low <= b)
    <3>1. b < low
      BY <2>1, <2>3, <1>11
    <3> QED BY <3>1, <2>1, <2>3, <1>15
  <2> QED BY <2>2, <2>3
<1>18. Dropped(recs, upto, act) \subseteq DOMAIN fl2
  <2>1. Pruned(recs, upto, act) \in 0 .. Len(recs)
    <3>1. upto \in Nat /\ act \in Nat /\ recs \in Seq(Entry)
      BY <1>11, <1>12, <1>14
    <3> QED BY <3>1, PrunedShape
  <2>2. \A i \in 1 .. Len(recs) : recs[i].seg \in DOMAIN fl2
    BY <1>4 DEF Indexes
  <2>3. \A i \in 1 .. Pruned(recs, upto, act) : i \in 1 .. Len(recs)
    BY <2>1, <1>14
  <2> QED BY <2>2, <2>3 DEF Dropped
<1>19. Checkpointed(at, low, top, act, c, fl2, sy2, buf2, upto, recs, low, sn, hd)
  BY <1>6, <1>8, <1>9, <1>13, <1>15, <1>16, <1>17, <1>18 DEF Checkpointed
<1> QED
  BY <1>1, <1>2, <1>19

\* Where no segment may be left behind while there is one, there is none yet.
LEMMA NoStrays ==
  ASSUME DOMAIN files \in SUBSET Nat, baseOffset \in Nat, MaxStrays <= 1,
         Cardinality(StraySegments) < MaxStrays
  PROVE  \A u \in DOMAIN files : ~ (u < baseOffset)
<1>1. StraySegments \subseteq 0 .. baseOffset - 1
  BY DEF StraySegments
<1>2. IsFiniteSet(StraySegments)
  <2>1. IsFiniteSet(0 .. baseOffset - 1)
    BY FS_Interval
  <2> QED BY <2>1, <1>1, FS_Subset
<1>3. Cardinality(StraySegments) \in Nat /\ MaxStrays \in Nat
  BY <1>2, FS_CardinalityType, WalSegmentsAssumption
<1>4. Cardinality(StraySegments) = 0
  BY <1>3
<1>5. StraySegments = {}
  BY <1>2, <1>4, FS_EmptySet
<1> QED
  BY <1>5 DEF StraySegments

LEMMA CommitKeeps == W /\ W' /\ Firm /\ SafeSetup /\ Keeps /\ Commit => Keeps'
<1> SUFFICES ASSUME W, W', Firm, SafeSetup, Keeps, Commit PROVE Keeps'
  OBVIOUS
<1>1. CASE cut
  BY <1>1 DEF Commit, Keeps
<1>2. CASE ~ cut
  <2>1. /\ Committing /\ mode = "open" /\ mode' = "open" /\ Harden /\ meta' = hand.upto
        /\ checkpoint' = hand.upto /\ active' = active /\ seen' = seen /\ hand' = Idle
        /\ buffer' = Logged.buffer
        /\ records' = Kept(records, hand.upto, active)
        /\ baseOffset' = BaseAfter(baseOffset, records, hand.upto, active)
    BY DEF Commit, Committing
  <2>2. PICK at, low, top, act : Held(at, low, top, act) /\ Working(at, low, top, act)
    BY <1>2, <2>1 DEF Keeps
  <2>3. act = active
    BY <2>2 DEF Working
  <2>4. PICK fl, sy, buf, upto, sn, hd, recs, base :
          /\ fl = Logged.files /\ sy = Logged.synced /\ buf = Logged.buffer
          /\ upto = hand.upto /\ sn = seen /\ hd = hard
          /\ recs = records /\ base = baseOffset
    OBVIOUS
  <2>5. PICK c : Checkpointed(at, low, top, act, c, fl, sy, buf, upto, recs, base, sn, hd)
    BY <2>1, <2>2, <2>4, CommitSound
  <2>6. PICK dropped : dropped = Dropped(recs, upto, act)
    OBVIOUS
  <2>7. PICK gone :
          /\ \/ gone = dropped
             \/ /\ \E b \in dropped : gone = dropped \ {b}
                /\ Cardinality(StraySegments) < MaxStrays
          /\ files' = Without(fl, gone) /\ synced' = Without(sy, gone)
    BY <2>3, <2>4, <2>6 DEF Commit
  <2>8. Disk(fl, sy) /\ act \in DOMAIN fl /\ buf \in Seq(Byte)
    BY <2>3, <2>4, LoggedTyped DEF W, WCore
  <2>9. PICK lg, pl : lg = LogOf(fl, act, buf) /\ pl = Placed(fl, sy)
    OBVIOUS
  <2>10. /\ Sound(at, low, top, act, lg, sy, pl, upto, sn, hd)
         /\ Strays(low, lg, sn)
         /\ Len(lg[act]) = ValidTo(at, top, act)
         /\ c \in DOMAIN fl /\ low <= c /\ c <= upto
         /\ Kept(recs, upto, act) \in Seq(Entry)
         /\ Joined(Kept(recs, upto, act), <<>>, at, c, top)
         /\ BaseAfter(base, recs, upto, act) = c
         /\ \A b \in DOMAIN fl : b \in dropped <=> low <= b /\ b < c
    BY <2>5, <2>6, <2>9 DEF Checkpointed
  <2>11. Directory(lg) /\ DOMAIN lg = DOMAIN fl
    BY <2>8, <2>9, LogOfIs
  <2>12. /\ low \in Nat /\ act \in Nat /\ top \in Nat /\ c \in Nat /\ c <= act /\ act <= top
         /\ DOMAIN fl \in SUBSET Nat
    <3>1. /\ low \in Nat /\ act \in Nat /\ top \in Nat /\ act <= top
          /\ DOMAIN lg \in SUBSET Nat /\ \A b \in DOMAIN lg : b <= act
      BY <2>10, <2>11, TiledNat DEF Sound
    <3> QED BY <3>1, <2>10, <2>11
  <2>13. gone \subseteq dropped
    BY <2>7
  <2>14. \A b \in DOMAIN fl : c <= b => b \notin gone
    BY <2>10, <2>12, <2>13
  <2>15. PICK fl2, sy2, lg2 : fl2 = Without(fl, gone) /\ sy2 = Without(sy, gone)
                              /\ lg2 = LogOf(fl2, act, buf)
    OBVIOUS
  <2>16. /\ Sound(at, c, top, act, lg2, sy2, Placed(fl2, sy2), upto, sn, hd)
         /\ DOMAIN lg2 = DOMAIN fl \ gone /\ \A b \in DOMAIN fl \ gone : lg2[b] = lg[b]
    <3>1. Sound(at, low, top, act, LogOf(fl, act, buf), sy, Placed(fl, sy), upto, sn, hd)
      BY <2>9, <2>10
    <3>2. c \in DOMAIN fl /\ low <= c /\ c <= upto
      BY <2>10
    <3>3. Thinned(fl, act, buf, at, c, top, upto, sn, hd, gone, Without(fl, gone),
                  Without(sy, gone))
      BY <3>1, <3>2, <2>8, <2>14, PrunedLog
    <3>4. Thinned(fl, act, buf, at, c, top, upto, sn, hd, gone, fl2, sy2)
      BY <3>3, <2>15
    <3> QED BY <3>4, <2>9, <2>15 DEF Thinned
  <2>17. fl2 = files' /\ sy2 = synced' /\ buf = buffer' /\ act = active' /\ upto = meta'
         /\ sn = seen'
         /\ Kept(recs, upto, act) = records' /\ c = baseOffset'
    BY <2>1, <2>3, <2>4, <2>7, <2>10, <2>15
  <2>18. Joined(records', <<>>, at, c, top)
    BY <2>10, <2>17
  <2>19. Refers(records', at, c, top)
    <3>1. PICK recs2 : recs2 = records'
      OBVIOUS
    <3>2. Joined(recs2, <<>>, at, c, top) /\ c <= top
      BY <3>1, <2>12, <2>18
    <3>3. Refers(recs2, at, c, top)
      BY <3>2, <2>12, JoinedRefers
    <3> QED BY <3>1, <3>3
  <2>20. Sound(at, c, top, act, LogOf(files', active', buffer'), synced', Placed(files', synced'),
               meta', seen', hard')
    <3>1. PICK pl2 : pl2 = Placed(files', synced')
      OBVIOUS
    <3>2. Sound(at, c, top, act, LogOf(files', active', buffer'), synced', pl2, upto, sn, hard)
      BY <3>1, <2>4, <2>15, <2>16, <2>17
    <3>3. WCore'
      BY DEF W
    <3>4. Sound(at, c, top, act, LogOf(files', active', buffer'), synced', pl2, upto, sn, hard')
      BY <3>2, <3>3, <2>1, <2>19, SoundHardened
    <3> QED BY <3>1, <3>4, <2>17
  <2>21. Strays(c, lg2, sn)
    <3> SUFFICES ASSUME NEW s \in DOMAIN lg2, s < c
                 PROVE  /\ \A u \in DOMAIN lg2 : u < c => u = s
                        /\ Len(RecoverSegment(s, lg2[s])) > 0
                        /\ s + Len(RecoverSegment(s, lg2[s])) <= c
                        /\ \A i \in 1 .. Len(lg2[s]) : lg2[s][i].tkt \in sn
      BY DEF Strays
    <3>1. s \in DOMAIN fl /\ s \notin gone /\ s \in DOMAIN lg /\ lg2[s] = lg[s] /\ s \in Nat
      BY <2>11, <2>12, <2>16
    <3>3. CASE gone = dropped
      <4>1. \A u \in DOMAIN lg2 : u < c => u < low
        BY <3>3, <2>10, <2>12, <2>16
      <4>2. s < low
        BY <4>1
      <4>3. PICK n : n = Len(RecoverSegment(s, lg[s]))
        OBVIOUS
      <4>4. /\ \A u \in DOMAIN lg : u < low => u = s
            /\ n > 0 /\ s + n <= low
            /\ \A i \in 1 .. Len(lg[s]) : lg[s][i].tkt \in sn
        BY <4>2, <4>3, <3>1, <2>10 DEF Strays
      <4>5. n \in Nat
        <5>1. lg[s] \in Seq(Byte)
          BY <3>1, <2>11 DEF Directory
        <5>2. RecoverSegment(s, lg[s]) \in Seq([off : Nat, seg : {s}, pos : Nat, len : Sizes])
          BY <5>1, <3>1, RecoverSegmentShape
        <5> QED BY <5>2, <4>3
      <4>6. s + n <= c
        BY <4>4, <4>5, <3>1, <2>10, <2>12
      <4>7. \A u \in DOMAIN lg2 : u < c => u = s
        BY <4>1, <4>4, <2>11, <2>16
      <4> QED BY <4>3, <4>4, <4>6, <4>7, <3>1
    <3>4. CASE /\ \E b \in dropped : gone = dropped \ {b}
               /\ Cardinality(StraySegments) < MaxStrays
      <4>1. baseOffset = low /\ DOMAIN fl = DOMAIN files
        BY <2>2, <2>4 DEF Working, Logged
      <4>2. \A u \in DOMAIN lg : ~ (u < low)
        <5>1. \A u \in DOMAIN files : ~ (u < baseOffset)
          <6>1. DOMAIN files \in SUBSET Nat /\ baseOffset \in Nat
            BY DEF W, WRest, WCore, Disk, Directory
          <6>2. MaxStrays <= 1
            BY DEF SafeSetup
          <6> QED BY <6>1, <6>2, <3>4, NoStrays
        <5> QED BY <5>1, <4>1, <2>11
      <4>3. PICK b \in dropped : gone = dropped \ {b}
        BY <3>4
      <4>4. \A u \in DOMAIN lg2 : u < c => u = b
        <5> SUFFICES ASSUME NEW u \in DOMAIN lg2, u < c PROVE u = b
          OBVIOUS
        <5>1. u \in DOMAIN fl /\ u \notin gone /\ u \in DOMAIN lg /\ u \in Nat
          BY <2>11, <2>12, <2>16
        <5>2. low <= u
          BY <4>2, <5>1, <2>12
        <5>3. u \in dropped
          BY <5>1, <5>2, <2>10
        <5> QED BY <5>1, <5>3, <4>3
      <4>5. low <= s
        BY <4>2, <3>1, <2>12
      <4>6. \A o \in low .. c - 1 : Tkt(lg, at[o]) \in sn
        <5> SUFFICES ASSUME NEW o \in low .. c - 1 PROVE Tkt(lg, at[o]) \in sn
          OBVIOUS
        <5>1. upto \in low .. top
          BY <2>10 DEF Sound
        <5>2. o \in low .. upto - 1
          BY <5>1, <2>10, <2>12
        <5> QED BY <5>2, <2>10 DEF Sound
      <4>7. /\ Len(RecoverSegment(s, lg[s])) > 0 /\ s + Len(RecoverSegment(s, lg[s])) <= c
            /\ \A i \in 1 .. Len(lg[s]) : lg[s][i].tkt \in sn
        <5>1. Tiled(at, low, top, lg, act) /\ Torn(lg[act], ValidTo(at, top, act))
          BY <2>10 DEF Sound
        <5>2. \A z \in Sizes : z <= MaxRecoverable
          BY DEF SafeSetup
        <5>3. c \in DOMAIN lg
          BY <2>10, <2>11
        <5> QED BY <5>1, <5>2, <5>3, <4>5, <4>6, <3>1, <2>11, StrayLeft
      <4> QED BY <4>4, <4>7, <3>1
    <3> QED BY <3>3, <3>4, <2>7
  <2>22. Held(at, c, top, act)'
    BY <2>15, <2>17, <2>20, <2>21 DEF Held
  <2>23. Working(at, c, top, act)'
    <3>1. lg2[act] = lg[act] /\ lg2 = LogOf(files', active', buffer')
      <4>1. act \in DOMAIN fl \ gone
        BY <2>8, <2>12, <2>14
      <4> QED BY <4>1, <2>15, <2>16, <2>17
    <3>2. checkpoint' <= meta'
      <4>1. hand.upto \in Nat
        BY DEF W, WRest
      <4> QED BY <4>1, <2>1
    <3>3. hand'.phase = "idle"
      BY <2>1 DEF Idle
    <3> QED BY <3>1, <3>2, <3>3, <2>10, <2>17, <2>18 DEF Working
  <2>24. OnMedium' \subseteq hard'
    BY <2>1, HardenedMedium
  <2> QED BY <2>1, <2>22, <2>23, <2>24 DEF Keeps
<1> QED BY <1>1, <1>2


LEMMA CommitInterruptedKeeps == W /\ W' /\ Firm /\ SafeSetup /\ Keeps /\ CommitInterrupted => Keeps'
<1> SUFFICES ASSUME W, W', Firm, SafeSetup, Keeps, CommitInterrupted PROVE Keeps'
  OBVIOUS
<1>1. CASE cut
  BY <1>1 DEF CommitInterrupted, Gone, Keeps
<1>2. CASE ~ cut
  <2>1. /\ Committing /\ mode = "open" /\ mode' # "open" /\ Gone /\ Harden /\ meta' = hand.upto
        /\ active' = active
    BY DEF CommitInterrupted, Committing, Gone
  <2>2. PICK at, low, top, act : Held(at, low, top, act) /\ Working(at, low, top, act)
    BY <1>2, <2>1 DEF Keeps
  <2>3. act = active
    BY <2>2 DEF Working
  <2>4. PICK fl, sy, buf, upto, sn, hd, recs, base :
          /\ fl = Logged.files /\ sy = Logged.synced /\ buf = Logged.buffer
          /\ upto = hand.upto /\ sn = seen /\ hd = hard
          /\ recs = records /\ base = baseOffset
    OBVIOUS
  <2>5. PICK c : Checkpointed(at, low, top, act, c, fl, sy, buf, upto, recs, base, sn, hd)
    BY <2>1, <2>2, <2>4, CommitSound
  <2>6. PICK dropped : dropped = Dropped(recs, upto, act)
    OBVIOUS
  <2>7. PICK gone \in SUBSET dropped :
          /\ gone # dropped /\ \A b \in gone, e \in dropped \ gone : b < e
          /\ files' = Without(fl, gone) /\ synced' = Without(sy, gone)
    BY <2>3, <2>4, <2>6 DEF CommitInterrupted
  <2>8. Disk(fl, sy) /\ act \in DOMAIN fl /\ buf \in Seq(Byte)
    BY <2>3, <2>4, LoggedTyped DEF W, WCore
  <2>9. PICK lg, pl : lg = LogOf(fl, act, buf) /\ pl = Placed(fl, sy)
    OBVIOUS
  <2>10. /\ Sound(at, low, top, act, lg, sy, pl, upto, sn, hd)
         /\ Strays(low, lg, sn)
         /\ c \in DOMAIN fl /\ low <= c /\ c <= upto
         /\ \A b \in DOMAIN fl : b \in dropped <=> low <= b /\ b < c
         /\ dropped \subseteq DOMAIN fl
    BY <2>5, <2>6, <2>9 DEF Checkpointed
  <2>11. Directory(lg) /\ DOMAIN lg = DOMAIN fl
    BY <2>8, <2>9, LogOfIs
  <2>12. /\ low \in Nat /\ act \in Nat /\ top \in Nat /\ c \in Nat /\ c <= act /\ act <= top
         /\ DOMAIN fl \in SUBSET Nat /\ upto \in Nat
    <3>1. /\ low \in Nat /\ act \in Nat /\ top \in Nat /\ act <= top
          /\ DOMAIN lg \in SUBSET Nat /\ \A b \in DOMAIN lg : b <= act
      BY <2>10, <2>11, TiledNat DEF Sound
    <3>2. upto \in low .. top
      BY <2>10 DEF Sound
    <3> QED BY <3>1, <3>2, <2>10, <2>11
  <2>13. PICK d \in dropped \ gone : \A e \in dropped \ gone : d <= e
    <3>1. dropped \ gone # {} /\ dropped \ gone \in SUBSET Nat
      BY <2>7, <2>10, <2>12
    <3> QED BY <3>1, Least
  <2>14. d \in DOMAIN fl /\ low <= d /\ d <= upto /\ d \in Nat /\ d < c
    <3>1. d \in DOMAIN fl /\ d \in dropped
      BY <2>10, <2>13
    <3>2. low <= d /\ d < c /\ d \in Nat
      BY <3>1, <2>10, <2>12
    <3> QED BY <3>1, <3>2, <2>10, <2>12
  <2>15. \A b \in DOMAIN fl : d <= b => b \notin gone
    <3> SUFFICES ASSUME NEW b \in DOMAIN fl, d <= b, b \in gone PROVE FALSE
      OBVIOUS
    <3>1. b < d
      BY <2>7, <2>13
    <3> QED BY <3>1, <2>12, <2>14
  <2>16. PICK fl2, sy2, lg2 : fl2 = Without(fl, gone) /\ sy2 = Without(sy, gone)
                              /\ lg2 = LogOf(fl2, act, buf)
    OBVIOUS
  <2>17. Thinned(fl, act, buf, at, d, top, upto, sn, hd, gone, fl2, sy2)
    <3>1. Sound(at, low, top, act, LogOf(fl, act, buf), sy, Placed(fl, sy), upto, sn, hd)
      BY <2>9, <2>10
    <3>2. d \in DOMAIN fl /\ low <= d /\ d <= upto
      BY <2>14
    <3>3. Thinned(fl, act, buf, at, d, top, upto, sn, hd, gone, Without(fl, gone),
                  Without(sy, gone))
      BY <3>1, <3>2, <2>8, <2>15, PrunedLog
    <3> QED BY <3>3, <2>16
  <2>18. /\ Sound(at, d, top, act, lg2, sy2, Placed(fl2, sy2), upto, sn, hd)
         /\ Disk(fl2, sy2) /\ act \in DOMAIN fl2 /\ DOMAIN fl2 = DOMAIN fl \ gone
         /\ DOMAIN lg2 = DOMAIN fl \ gone /\ \A b \in DOMAIN fl \ gone : lg2[b] = lg[b]
    BY <2>9, <2>16, <2>17 DEF Thinned
  <2>19. Directory(lg2)
    BY <2>8, <2>16, <2>18, LogOfIs
  <2>21. Strays(d, lg2, sn)
    <3>1. Strays(low, lg2, sn)
      <4>1. sn \subseteq sn
        OBVIOUS
      <4>2. \A b \in DOMAIN lg2 : b < low => b \in DOMAIN lg /\ lg2[b] = lg[b]
        BY <2>11, <2>18
      <4> QED BY <4>1, <4>2, <2>10, StraysKept
    <3>2. ASSUME NEW b \in DOMAIN lg2 PROVE b < low \/ d <= b
      <4>1. b \in DOMAIN fl /\ b \notin gone /\ b \in Nat
        BY <2>12, <2>18
      <4>2. CASE low <= b /\ b < c
        <5>1. b \in dropped \ gone
          BY <4>1, <4>2, <2>10
        <5> QED BY <5>1, <2>13
      <4>3. CASE ~ (low <= b /\ b < c)
        BY <4>1, <4>3, <2>12, <2>14
      <4> QED BY <4>2, <4>3
    <3>3. low <= d /\ low \in Nat /\ d \in Nat
      BY <2>12, <2>14
    <3> QED BY <3>1, <3>2, <3>3, <2>19, StraysRaised
  <2>22. Survived(fl2, sy2, lg2, act, fl2, sy2)
    <3>1. 0 \in 0 .. Len(buf)
      BY <2>8
    <3>2. Survived(fl2, sy2, LogOf(fl2, act, buf), act, Handed(fl2, act, buf, 0), sy2)
      BY <3>1, <2>8, <2>18, WrittenSurvives
    <3>3. Handed(fl2, act, buf, 0) = fl2
      <4>1. PICK f, h : f = fl2[act] /\ h = SubSeq(buf, 1, 0)
        OBVIOUS
      <4>2. f \in Seq(Byte) /\ fl2 = [b \in DOMAIN fl2 |-> fl2[b]]
        BY <4>1, <2>18 DEF Disk, Directory
      <4>3. h = <<>>
        BY <4>1, <2>8
      <4>4. f \o h = f
        BY <4>2, <4>3
      <4> QED BY <4>1, <4>2, <4>4, <2>18 DEF Handed
    <3> QED BY <3>2, <3>3, <2>16
  <2>23. PICK top2 :
           /\ Sound(at, d, top2, act, LogOf(fl2, act, <<>>), sy2, Placed(fl2, sy2), upto, sn, hd)
           /\ Strays(d, LogOf(fl2, act, <<>>), sn)
    BY <2>18, <2>19, <2>21, <2>22, SurvivedSound
  <2>24. /\ Sound(at, d, top2, act, LogOf(files', active', <<>>), synced', Placed(files', synced'),
                  meta', seen, hard)
         /\ Strays(d, LogOf(files', active', <<>>), seen)
    <3>1. fl2 = files' /\ sy2 = synced' /\ act = active' /\ upto = meta' /\ sn = seen
          /\ hd = hard
      BY <2>1, <2>3, <2>4, <2>7, <2>16
    <3> QED BY <3>1, <2>23
  <2> QED BY <2>1, <2>24, GoneKeeps
<1> QED BY <1>1, <1>2


-----------------------------------------------------------------------------
(* A start *)

\* What a start makes of the directory fl: the segments below c are pruned.
OpensAs(o, fl, at, low, top, act, c) ==
  /\ low <= c /\ c <= meta /\ o.active = act /\ o.base = c
  /\ o.checkpoint \in Nat /\ o.checkpoint <= meta
  /\ o.records \in Seq(Entry) /\ Joined(o.records, <<>>, at, c, top)
  /\ \A b \in DOMAIN fl : b \in o.dropped <=> b < c

LEMMA OpenedIs ==
  ASSUME SafeSetup, meta \in Nat, NEW fl, Directory(fl), NEW at, NEW low, NEW top, NEW act,
         Tiled(at, low, top, fl, act), Torn(fl[act], ValidTo(at, top, act)),
         NEW sn, Strays(low, fl, sn), meta \in low .. top
  PROVE  \E c \in DOMAIN fl : OpensAs(Opened(fl), fl, at, low, top, act, c)
<1>1. /\ low \in Nat /\ act \in Nat /\ top \in Nat /\ low <= act /\ act <= top
      /\ low \in DOMAIN fl /\ act \in DOMAIN fl /\ DOMAIN fl \in SUBSET Nat
      /\ \A b \in DOMAIN fl : b <= act
  BY TiledNat
<1>2. Max(DOMAIN fl) = act
  BY <1>1, MaxIs
<1>3. PICK pre, s :
        /\ s \in DOMAIN fl /\ Front(pre, fl, low) /\ Min(DOMAIN fl) = s
        /\ \A b \in DOMAIN fl : b < low => b = s
        /\ s = low => Len(pre) = 0
        /\ s # low => /\ s < low /\ Len(pre) > 0 /\ s + Len(pre) <= low
                      /\ \A i \in 1 .. Len(pre) : pre[i].seg = s /\ pre[i].off = s + i - 1
  <2>1. CASE \A b \in DOMAIN fl : low <= b
    <3>1. Min(DOMAIN fl) = low
      BY <2>1, <1>1, MinIs
    <3>2. Front(<<>>, fl, low)
      BY <2>1, <1>1 DEF Front
    <3>3. \A b \in DOMAIN fl : b < low => b = low
      BY <2>1, <1>1
    <3>4. Len(<<>>) = 0
      OBVIOUS
    <3> QED BY <3>1, <3>2, <3>3, <3>4, <1>1
  <2>2. CASE \E b \in DOMAIN fl : b < low
    <3>1. PICK s \in DOMAIN fl : s < low
      BY <2>2
    <3>2. /\ \A u \in DOMAIN fl : u < low => u = s
          /\ Len(RecoverSegment(s, fl[s])) > 0 /\ s + Len(RecoverSegment(s, fl[s])) <= low
      BY <3>1 DEF Strays
    <3>3. PICK pre : pre = RecoverSegment(s, fl[s])
      OBVIOUS
    <3>4. Front(pre, fl, low)
      <4>1. ~ (\A b \in DOMAIN fl : low <= b)
        BY <3>1, <1>1
      <4>2. \A u \in DOMAIN fl : u < low => u = s
        BY <3>2
      <4> QED BY <4>1, <4>2, <3>3 DEF Front
    <3>5. Min(DOMAIN fl) = s
      <4>1. ASSUME NEW b \in DOMAIN fl PROVE s <= b
        BY <3>1, <3>2, <1>1
      <4> QED BY <4>1, <1>1, MinIs
    <3>6. \A i \in 1 .. Len(pre) : pre[i].seg = s /\ pre[i].off = s + i - 1
      <4>1. s \in Nat /\ fl[s] \in Seq(Byte)
        BY <1>1 DEF Directory
      <4>2. Recovered(RecoverSegment(s, fl[s]), s, fl[s])
        BY <4>1, RecoverSegmentShape
      <4> QED BY <4>2, <3>3 DEF Recovered
    <3>7. s # low
      BY <3>1, <1>1
    <3> QED BY <3>1, <3>2, <3>3, <3>4, <3>5, <3>6, <3>7
  <2> QED BY <2>1, <2>2, <1>1
<1>4. PICK found, chk, mt : found = Index(fl) /\ chk = Min2(meta, s + Len(found)) /\ mt = meta
  OBVIOUS
<1>5. found \in Seq(Entry) /\ pre \in Seq(Entry) /\ Joined(found, pre, at, low, top)
  <2>1. \A z \in Sizes : z <= MaxRecoverable
    BY DEF SafeSetup
  <2>2. Front(pre, fl, low)
    BY <1>3
  <2> QED BY <2>1, <2>2, <1>4, IndexIs
<1>6. Len(found) = Len(pre) + (top - low) /\ Len(pre) \in Nat /\ Len(found) \in Nat
  BY <1>5 DEF Joined
<1>7. s \in Nat /\ mt \in Nat /\ low <= mt /\ mt <= top /\ chk = Min2(mt, s + Len(found))
  BY <1>1, <1>3, <1>4
<1>8. PICK p, q : p = Len(pre) /\ q = s + Len(found)
  OBVIOUS
<1>9. p \in Nat /\ q \in Nat /\ q = (s + p) + (top - low)
  <2>1. PICK r : r = Len(found)
    OBVIOUS
  <2>2. r \in Nat /\ p \in Nat /\ r = p + (top - low)
    BY <2>1, <1>6, <1>8
  <2>3. s + r = (s + p) + (top - low) /\ s + r \in Nat
    BY <2>2, <1>1, <1>7
  <2> QED BY <2>1, <2>2, <2>3, <1>8
<1>10. chk \in Nat /\ chk <= mt /\ (s = low => chk = mt) /\ (s # low => s + p <= chk)
  <2>1. chk = IF mt < q THEN mt ELSE q
    BY <1>7, <1>8 DEF Min2
  <2>2. s = low => p = 0
    BY <1>3, <1>8
  <2>3. s # low => s + p <= low
    BY <1>3, <1>8
  <2>4. top - low \in Nat /\ s + p <= q
    BY <1>1, <1>7, <1>9
  <2>5. chk \in Nat /\ chk <= mt
    BY <2>1, <1>7, <1>9
  <2>6. s = low => q = top
    BY <2>2, <1>1, <1>7, <1>9
  <2>7. s = low => chk = mt
    BY <2>1, <2>6, <1>1, <1>7
  <2>8. s # low => s + p <= mt
    BY <2>3, <1>1, <1>7, <1>9
  <2>9. s # low => s + p <= chk
    BY <2>1, <2>4, <2>8
  <2> QED BY <2>5, <2>7, <2>9
<1>11. \A i \in 1 .. Len(pre) : pre[i].seg < low /\ pre[i].off < chk
  <2> SUFFICES ASSUME NEW i \in 1 .. Len(pre) PROVE pre[i].seg < low /\ pre[i].off < chk
    OBVIOUS
  <2>1. s # low
    BY <1>3
  <2>2. pre[i].seg = s /\ pre[i].off = s + i - 1 /\ s < low /\ s + p <= chk
    BY <2>1, <1>3, <1>10
  <2>3. i \in Nat /\ i <= p
    BY <1>8, <1>9
  <2>4. s + i - 1 < chk
    BY <2>2, <2>3, <1>7, <1>9, <1>10
  <2> QED BY <2>2, <2>4
<1>12. s = low \/ Len(pre) > 0
  BY <1>3
<1>13. PICK c \in DOMAIN fl :
         /\ low <= c /\ (c = low \/ c <= chk)
         /\ Kept(found, chk, act) \in Seq(Entry)
         /\ Joined(Kept(found, chk, act), <<>>, at, c, top)
         /\ BaseAfter(s, found, chk, act) = c
         /\ \A b \in DOMAIN fl : low <= b => (b \in Dropped(found, chk, act) <=> b < c)
         /\ \A b \in DOMAIN fl : b < low =>
              (b \in Dropped(found, chk, act) <=> \E i \in 1 .. Len(pre) : pre[i].seg = b)
  <2>1. chk \in Nat /\ found \in Seq(Entry) /\ pre \in Seq(Entry)
        /\ Joined(found, pre, at, low, top)
    BY <1>5, <1>10
  <2>2. PICK x : x = chk
    OBVIOUS
  <2>3. x \in Nat /\ \A i \in 1 .. Len(pre) : pre[i].seg < low /\ pre[i].off < x
    BY <2>1, <2>2, <1>11
  <2>4. \E c : PruneEnds(fl, at, low, top, act, found, pre, x, s, c)
    BY <2>1, <2>3, <1>12, PrunedIs
  <2>5. PICK c : PruneEnds(fl, at, low, top, act, found, pre, chk, s, c)
    BY <2>2, <2>4
  <2> QED BY <2>5 DEF PruneEnds
<1>14. c \in Nat /\ c <= mt
  BY <1>1, <1>7, <1>10, <1>13
<1>15. ASSUME NEW b \in DOMAIN fl PROVE b \in Dropped(found, chk, act) <=> b < c
  <2>1. b \in Nat
    BY <1>1
  <2>2. CASE low <= b
    BY <2>2, <1>13
  <2>3. CASE ~ (low <= b)
    <3>1. b < low /\ b < c
      BY <2>1, <2>3, <1>1, <1>13, <1>14
    <3>2. b = s /\ s # low
      BY <3>1, <2>3, <1>1, <1>3
    <3>3. 1 \in 1 .. Len(pre) /\ pre[1].seg = b
      BY <3>2, <1>3, <1>6
    <3> QED BY <3>1, <3>3, <1>13
  <2> QED BY <2>2, <2>3
<1>16. /\ Opened(fl).active = act /\ Opened(fl).checkpoint = chk
       /\ Opened(fl).dropped = Dropped(found, chk, act)
       /\ Opened(fl).records = Kept(found, chk, act)
       /\ Opened(fl).base = BaseAfter(s, found, chk, act)
  BY <1>2, <1>3, <1>4 DEF Opened
<1>17. OpensAs(Opened(fl), fl, at, low, top, act, c)
  BY <1>4, <1>10, <1>13, <1>14, <1>15, <1>16 DEF OpensAs
<1> QED
  BY <1>17

\* Between a crash and a start the log is what is in the files.
LEMMA ClosedLog ==
  ASSUME W, NEW act, buffer = <<>>
  PROVE  LogOf(files, act, buffer) = files
<1>1. PICK fl : fl = files
  OBVIOUS
<1>2. Directory(fl)
  BY <1>1 DEF W, WCore, Disk
<1>3. \A b \in DOMAIN fl : fl[b] \in Seq(Byte)
  BY <1>2 DEF Directory
<1>4. \A x \in Seq(Byte) : x \o <<>> = x
  OBVIOUS
<1>5. \A b \in DOMAIN fl : fl[b] \o <<>> = fl[b]
  BY <1>3, <1>4
<1>6. LogOf(fl, act, <<>>) = [b \in DOMAIN fl |-> fl[b]]
  BY <1>5 DEF LogOf
<1>7. LogOf(fl, act, <<>>) = fl
  BY <1>2, <1>6 DEF Directory
<1> QED
  BY <1>1, <1>7


\* Of the last segment a start keeps the frames.
LEMMA TrimmedSound ==
  ASSUME NEW fl, NEW sy, Disk(fl, sy), NEW at, NEW low, NEW top, NEW act, NEW mt, NEW sn, NEW hd,
         Sound(at, low, top, act, fl, sy, Placed(fl, sy), mt, sn, hd),
         NEW fl2, NEW sy2, Disk(fl2, sy2), DOMAIN fl2 = DOMAIN fl,
         \A b \in DOMAIN fl : b # act => fl2[b] = fl[b],
         Len(fl2[act]) = ValidTo(at, top, act),
         \A i \in 1 .. Len(fl2[act]) : fl2[act][i] = fl[act][i],
         \A b \in DOMAIN fl : sy2[b] = Min2(sy[b], Len(fl2[b]))
  PROVE  Sound(at, low, top, act, fl2, sy2, Placed(fl2, sy2), mt, sn, hd)
<1>1. PICK n, pl, pl2 : n = ValidTo(at, top, act) /\ pl = Placed(fl, sy) /\ pl2 = Placed(fl2, sy2)
  OBVIOUS
<1>2. Directory(fl) /\ Directory(fl2)
  BY DEF Disk
<1>3. Tiled(at, low, top, fl, act)
  BY DEF Sound
<1>4. /\ low \in Nat /\ act \in Nat /\ top \in Nat /\ low <= act /\ act <= top /\ act \in DOMAIN fl
      /\ n \in Nat /\ n <= Len(fl[act])
      /\ act # top => top - 1 \in low .. top - 1 /\ at[top - 1].seg = act /\ n = End(at[top - 1])
  <2>1. /\ low \in Nat /\ act \in Nat /\ top \in Nat /\ low <= act /\ act <= top
           /\ act \in DOMAIN fl
    BY <1>2, <1>3, TiledNat
  <2>2. /\ ValidTo(at, top, act) \in Nat /\ ValidTo(at, top, act) <= Len(fl[act])
        /\ act # top => /\ top - 1 \in low .. top - 1 /\ at[top - 1].seg = act
                        /\ ValidTo(at, top, act) = End(at[top - 1])
    BY <1>2, <1>3, ValidToIs
  <2> QED BY <2>1, <2>2, <1>1
<1>5. \A b \in DOMAIN fl : /\ fl[b] \in Seq(Byte) /\ Len(fl[b]) \in Nat /\ sy[b] \in Nat
                           /\ fl2[b] \in Seq(Byte) /\ Len(fl2[b]) \in Nat /\ sy2[b] \in Nat
  <2>1. \A b \in DOMAIN fl : fl[b] \in Seq(Byte) /\ sy[b] \in Nat
    BY DEF Disk, Directory
  <2>2. \A b \in DOMAIN fl : fl2[b] \in Seq(Byte) /\ sy2[b] \in Nat
    BY DEF Disk, Directory
  <2>3. \A x \in Seq(Byte) : Len(x) \in Nat
    OBVIOUS
  <2> QED BY <2>1, <2>2, <2>3
<1>6. Shorter(fl, fl2, act, n)
  <2>1. Len(fl[act]) \in Nat
    BY <1>4, <1>5
  <2>2. n \in 0 .. Len(fl[act])
    BY <2>1, <1>4
  <2> QED BY <2>2, <1>1 DEF Shorter
<1>7. ASSUME NEW o \in low .. top - 1, at[o].seg = act PROVE End(at[o]) <= n
  <2>1. act <= o /\ o \in Nat
    BY <1>2, <1>3, <1>4, <1>7, TiledAt
  <2>2. act # top
    BY <2>1, <1>4
  <2>3. CASE o = top - 1
    <3>1. End(at[o]) = n
      BY <2>2, <2>3, <1>4
    <3> QED BY <3>1, <1>4
  <2>4. CASE o # top - 1
    <3>1. top - 1 \in o + 1 .. top - 1 /\ top - 1 \in low .. top - 1
      BY <2>1, <2>2, <2>4, <1>4
    <3>2. at[o].seg = at[top - 1].seg
      BY <2>2, <1>4, <1>7
    <3>3. End(at[o]) <= at[top - 1].pos
      BY <3>1, <3>2, <1>3 DEF Tiled
    <3>4. at[top - 1].pos \in Nat /\ at[top - 1].pos < End(at[top - 1]) /\ End(at[top - 1]) \in Nat
      BY <3>1, <1>2, <1>3, TiledAt
    <3>5. End(at[o]) \in Nat
      BY <1>2, <1>3, TiledAt
    <3> QED BY <3>3, <3>4, <3>5, <2>2, <1>4
  <2> QED BY <2>3, <2>4
<1>8. Spared(at, low, top, act, pl, n) /\ Spared(at, low, top, act, sy, n)
  BY <1>7 DEF Spared
<1>9. Measured(sy2, fl2)
  BY <1>5 DEF Disk, Measured
<1>10. ASSUME NEW b \in DOMAIN fl2, NEW x \in Nat, x <= sy[b], x <= Len(fl2[b]) PROVE x <= sy2[b]
  <2>1. sy2[b] = Min2(sy[b], Len(fl2[b]))
    OBVIOUS
  <2> QED BY <2>1, <1>10 DEF Min2
<1>11. Grown(sy, sy2, fl2) /\ Grown(pl, pl2, fl2)
  <2>1. Grown(sy, sy2, fl2)
    BY <1>10 DEF Grown
  <2>2. ASSUME NEW b \in DOMAIN fl2, NEW x \in Nat, x <= pl[b], x <= Len(fl2[b]) PROVE x <= pl2[b]
    <3>1. CASE "power" \in CrashKinds
      <4>1. pl[b] = sy[b] /\ pl2[b] = sy2[b]
        BY <3>1, <1>1 DEF Placed
      <4> QED BY <4>1, <2>2, <1>10
    <3>2. CASE "power" \notin CrashKinds
      <4>1. pl2[b] = Len(fl2[b])
        BY <3>2, <1>1 DEF Placed
      <4> QED BY <4>1, <2>2
    <3> QED BY <3>1, <3>2
  <2> QED BY <2>1, <2>2 DEF Grown
<1>12. Sound(at, low, top, act, fl, sy, pl, mt, sn, hd)
  BY <1>1
<1>13. PICK top2 \in act .. top : /\ Sound(at, low, top2, act, fl2, sy2, pl2, mt, sn, hd)
                                 /\ Remaining(at, low, top, act, n, top2)
  BY <1>2, <1>6, <1>8, <1>9, <1>11, <1>12, SoundCut
<1>14. top2 = top
  <2> SUFFICES ASSUME top2 # top PROVE FALSE
    OBVIOUS
  <2>1. top2 \in low .. top - 1 /\ top2 \in Nat
    BY <1>4, <1>13
  <2>2. top2 < top2 <=> (at[top2].seg # act \/ End(at[top2]) <= n)
    BY <2>1, <1>13 DEF Remaining
  <2>3. at[top2].seg # act \/ End(at[top2]) <= n
    BY <2>1, <1>7
  <2> QED BY <2>1, <2>2, <2>3
<1> QED
  BY <1>1, <1>13, <1>14

LEMMA RecoverKeeps == W /\ W' /\ SafeSetup /\ Keeps /\ Recover => Keeps'
<1> SUFFICES ASSUME W, W', SafeSetup, Keeps, Recover PROVE Keeps'
  OBVIOUS
<1>1. CASE cut
  BY <1>1 DEF Recover, Keeps
<1>2. CASE ~ cut
  <2>1. /\ mode # "open" /\ mode' = "open" /\ buffer' = <<>> /\ hand' = Idle /\ Harden
        /\ meta' = meta /\ seen' = seen
    BY DEF Recover, bounds
  <2>2. PICK at, low, top, act : Held(at, low, top, act)
    BY <1>2 DEF Keeps
  <2>3. buffer = <<>>
    BY <1>2, <2>1 DEF Keeps
  <2>4. PICK fl, sy, mt, sn, hd, o :
          /\ fl = files /\ sy = synced /\ mt = meta /\ sn = seen /\ hd = hard
          /\ o = Opened(fl)
    OBVIOUS
  <2>5. Disk(fl, sy) /\ Directory(fl) /\ meta \in Nat
    BY <2>4 DEF W, WCore, WRest, Disk
  <2>6. LogOf(files, active, buffer) = fl
    BY <2>3, <2>4, ClosedLog
  <2>7. /\ Sound(at, low, top, act, fl, sy, Placed(fl, sy), mt, sn, hd)
        /\ Strays(low, fl, sn)
    BY <2>2, <2>4, <2>6 DEF Held
  <2>8. /\ Tiled(at, low, top, fl, act) /\ Torn(fl[act], ValidTo(at, top, act))
           /\ meta \in low .. top
    BY <2>4, <2>7 DEF Sound
  <2>9. PICK c \in DOMAIN fl : OpensAs(o, fl, at, low, top, act, c)
    BY <2>4, <2>5, <2>7, <2>8, OpenedIs
  <2>10. /\ low <= c /\ c <= mt /\ o.active = act /\ o.base = c
         /\ o.checkpoint <= mt /\ Joined(o.records, <<>>, at, c, top)
         /\ \A b \in DOMAIN fl : b \in o.dropped <=> b < c
    BY <2>4, <2>9 DEF OpensAs
  <2>11. /\ low \in Nat /\ act \in Nat /\ top \in Nat /\ c \in Nat /\ act \in DOMAIN fl
         /\ DOMAIN fl \in SUBSET Nat /\ c <= act /\ act <= top
    BY <2>5, <2>8, TiledNat
  <2>12. PICK gone, fs, sz : gone = o.dropped /\ fs = Without(fl, gone) /\ sz = Without(sy, gone)
    OBVIOUS
  <2>13. \A b \in DOMAIN fl : c <= b => b \notin gone
    BY <2>10, <2>11, <2>12
  <2>14. PICK none : none = <<>>
    OBVIOUS
  <2>15. none \in Seq(Byte)
    BY <2>14
  <2>16. \A x \in Seq(Byte) : x \o none = x
    BY <2>14
  <2>17. \A d : Directory(d) => LogOf(d, act, none) = d
    <3> SUFFICES ASSUME NEW d, Directory(d) PROVE LogOf(d, act, none) = d
      OBVIOUS
    <3>1. d = [b \in DOMAIN d |-> d[b]] /\ \A b \in DOMAIN d : d[b] \in Seq(Byte)
      BY DEF Directory
    <3>2. \A b \in DOMAIN d : d[b] \o (IF b = act THEN none ELSE <<>>) = d[b]
      BY <3>1, <2>14, <2>16
    <3>3. LogOf(d, act, none) = [b \in DOMAIN d |-> d[b]]
      BY <3>2 DEF LogOf
    <3> QED BY <3>1, <3>3
  <2>18. Thinned(fl, act, none, at, c, top, mt, sn, hd, gone, Without(fl, gone), Without(sy, gone))
    <3>1. Sound(at, low, top, act, LogOf(fl, act, none), sy, Placed(fl, sy), mt, sn, hd)
      BY <2>5, <2>7, <2>17
    <3>2. c \in DOMAIN fl /\ low <= c /\ c <= mt
      BY <2>9, <2>10
    <3> QED BY <3>1, <3>2, <2>5, <2>11, <2>13, <2>15, PrunedLog
  <2>19. Thinned(fl, act, none, at, c, top, mt, sn, hd, gone, fs, sz)
    BY <2>12, <2>18
  <2>20. /\ Disk(fs, sz) /\ Directory(fs) /\ act \in DOMAIN fs /\ DOMAIN fs = DOMAIN fl \ gone
         /\ Sound(at, c, top, act, fs, sz, Placed(fs, sz), mt, sn, hd)
    <3>1. /\ Disk(fs, sz) /\ act \in DOMAIN fs /\ DOMAIN fs = DOMAIN fl \ gone
          /\ Sound(at, c, top, act, LogOf(fs, act, none), sz, Placed(fs, sz), mt, sn, hd)
      BY <2>19 DEF Thinned
    <3>2. Directory(fs)
      BY <3>1 DEF Disk
    <3> QED BY <3>1, <3>2, <2>17
  <2>21. PICK fl2, sy2 : fl2 = files' /\ sy2 = synced'
    OBVIOUS
  <2>22. Disk(fl2, sy2) /\ Directory(fl2)
    BY <2>21 DEF W, WCore, Disk
  <2>23. /\ fl2 = Without(Trimmed(fl), gone) /\ sy2 = Without(TrimSynced(fl, sy), gone)
         /\ active' = act /\ baseOffset' = c /\ records' = o.records /\ checkpoint' = o.checkpoint
    BY <2>4, <2>10, <2>12, <2>21 DEF Recover, Trimmed, TrimSynced
  <2>24. /\ DOMAIN fl2 = DOMAIN fs
         /\ \A b \in DOMAIN fs : /\ fl2[b] = SubSeq(fl[b], 1, ValidEnd(RecoverSegment(b, fl[b])))
                                 /\ sy2[b] = Min2(sy[b], ValidEnd(RecoverSegment(b, fl[b])))
                                 /\ fs[b] = fl[b] /\ sz[b] = sy[b] /\ b \in DOMAIN fl
    <3>1. DOMAIN sy = DOMAIN fl
      BY <2>5 DEF Disk
    <3> QED BY <3>1, <2>12, <2>20, <2>23 DEF Without, Trimmed, TrimSynced
  <2>25. ASSUME NEW b \in DOMAIN fs
         PROVE  /\ b # act => fl2[b] = fs[b]
                /\ b = act => Len(fl2[b]) = ValidTo(at, top, act)
                /\ \A i \in 1 .. Len(fl2[b]) : fl2[b][i] = fs[b][i]
                /\ sy2[b] = Min2(sz[b], Len(fl2[b]))
    <3>1. PICK f, v : f = fl[b] /\ v = ValidEnd(RecoverSegment(b, fl[b]))
      OBVIOUS
    <3>2. b \in DOMAIN fl /\ b \in Nat /\ f \in Seq(Byte) /\ low <= b
      <4>1. b \in DOMAIN fl /\ b \notin gone /\ b \in Nat
        BY <2>11, <2>20
      <4>2. c <= b
        BY <4>1, <2>10, <2>11, <2>12
      <4>3. f \in Seq(Byte)
        BY <4>1, <3>1, <2>5 DEF Directory
      <4> QED BY <4>1, <4>2, <4>3, <2>10, <2>11
    <3>3. v = IF b = act THEN ValidTo(at, top, act) ELSE Len(f)
      <4>1. \A z \in Sizes : z <= MaxRecoverable
        BY DEF SafeSetup
      <4> QED BY <4>1, <3>1, <3>2, <2>5, <2>8, ValidEnds
    <3>4. v \in 0 .. Len(f)
      <4>1. Recovered(RecoverSegment(b, f), b, f)
        BY <3>2, RecoverSegmentShape
      <4> QED BY <4>1, <3>1 DEF Recovered
    <3>5. fl2[b] = SubSeq(f, 1, v) /\ sy2[b] = Min2(sz[b], v) /\ fs[b] = f
      BY <3>1, <2>24
    <3>6. Len(SubSeq(f, 1, v)) = v /\ \A i \in 1 .. v : SubSeq(f, 1, v)[i] = f[i]
      BY <3>2, <3>4, Prefix
    <3>7. b # act => SubSeq(f, 1, v) = f
      <4>1. SubSeq(f, 1, Len(f)) = f
        BY <3>2
      <4> QED BY <4>1, <3>3
    <3> QED BY <3>3, <3>5, <3>6, <3>7
  <2>26. Sound(at, c, top, act, fl2, sy2, Placed(fl2, sy2), mt, sn, hd)
    <3>1. \A b \in DOMAIN fs : b # act => fl2[b] = fs[b]
      BY <2>25
    <3>2. Len(fl2[act]) = ValidTo(at, top, act)
      BY <2>20, <2>25
    <3>3. \A i \in 1 .. Len(fl2[act]) : fl2[act][i] = fs[act][i]
      BY <2>20, <2>25
    <3>4. \A b \in DOMAIN fs : sy2[b] = Min2(sz[b], Len(fl2[b]))
      BY <2>25
    <3> QED BY <3>1, <3>2, <3>3, <3>4, <2>20, <2>22, <2>24, TrimmedSound
  <2>27. LogOf(files', active', buffer') = fl2
    BY <2>1, <2>14, <2>17, <2>21, <2>22, <2>23
  <2>28. Refers(records', at, c, top)
    <3>1. PICK recs : recs = o.records
      OBVIOUS
    <3>2. Joined(recs, <<>>, at, c, top) /\ c <= top
      BY <3>1, <2>10, <2>11
    <3>3. Refers(recs, at, c, top)
      BY <3>2, <2>11, JoinedRefers
    <3> QED BY <3>1, <3>3, <2>23
  <2>29. Held(at, c, top, act)'
    <3>1. PICK pl2 : pl2 = Placed(files', synced')
      OBVIOUS
    <3>2. Sound(at, c, top, act, LogOf(files', active', buffer'), synced', pl2, mt, sn, hard)
      BY <3>1, <2>4, <2>21, <2>26, <2>27
    <3>3. WCore'
      BY DEF W
    <3>4. Sound(at, c, top, act, LogOf(files', active', buffer'), synced', pl2, mt, sn, hard')
      BY <3>2, <3>3, <2>1, <2>28, SoundHardened
    <3>5. Strays(c, fl2, seen')
      <4>1. \A b \in DOMAIN fl2 : ~ (b < c)
        BY <2>10, <2>12, <2>20, <2>24
      <4> QED BY <4>1 DEF Strays
    <3>6. mt = meta' /\ sn = seen'
      BY <2>1, <2>4
    <3> QED BY <3>1, <3>4, <3>5, <3>6, <2>27 DEF Held
  <2>30. Working(at, c, top, act)'
    <3>1. Len(LogOf(files', active', buffer')[act]) = ValidTo(at, top, act)
      BY <2>20, <2>25, <2>27
    <3>2. hand'.phase = "idle"
      BY <2>1 DEF Idle
    <3>3. checkpoint' <= meta'
      BY <2>1, <2>4, <2>10, <2>23
    <3> QED BY <3>1, <3>2, <3>3, <2>10, <2>23 DEF Working
  <2>31. OnMedium' \subseteq hard'
    BY <2>1, HardenedMedium
  <2> QED BY <2>1, <2>29, <2>30, <2>31 DEF Keeps
<1> QED BY <1>1, <1>2


-----------------------------------------------------------------------------
(* What holds of the log *)

LEMMA KeepsInit == Init => Keeps
<1> SUFFICES ASSUME Init PROVE Keeps
  OBVIOUS
<1>1. /\ files = [b \in {0} |-> <<>>] /\ synced = [b \in {0} |-> 0] /\ meta = 0
      /\ mode = "open" /\ buffer = <<>> /\ active = 0 /\ baseOffset = 0 /\ records = <<>>
      /\ checkpoint = 0 /\ hand = Idle /\ hard = {} /\ seen = {} /\ cut = FALSE
  BY DEF Init
<1>2. PICK none, at : none = <<>> /\ at = <<>>
  OBVIOUS
<1>3. Len(none) = 0 /\ none \o none = none /\ none \in Seq(Byte)
  BY <1>2
<1>4. PICK lg : lg = LogOf(files, active, buffer)
  OBVIOUS
<1>5. lg = [b \in {0} |-> none]
  BY <1>1, <1>2, <1>3, <1>4 DEF LogOf
<1>6. DOMAIN lg = {0} /\ lg[0] = none
  BY <1>5
<1>7. \A o : o \notin 0 .. 0 - 1
  OBVIOUS
<1>8. Tiled(at, 0, 0, lg, 0)
  BY <1>6, <1>7 DEF Tiled
<1>9. Torn(lg[0], ValidTo(at, 0, 0))
  BY <1>3, <1>6 DEF Torn, ValidTo
<1>10. Sound(at, 0, 0, 0, lg, synced, Placed(files, synced), meta, seen, hard)
  <2>1. \A b \in DOMAIN lg : synced[b] = 0
    BY <1>1, <1>6
  <2>2. \A b \in DOMAIN lg : synced[b] \in Nat /\ synced[b] <= Len(lg[b])
    BY <2>1, <1>3, <1>6
  <2>3. \A b \in DOMAIN lg : ~ (b # 0)
    BY <1>6
  <2> QED BY <2>2, <2>3, <1>1, <1>7, <1>8, <1>9 DEF Sound
<1>11. Strays(0, lg, seen)
  BY <1>6 DEF Strays
<1>12. Held(at, 0, 0, 0)
  BY <1>4, <1>10, <1>11 DEF Held
<1>13. Joined(records, <<>>, at, 0, 0)
  BY <1>1, <1>7 DEF Joined
<1>14. Working(at, 0, 0, 0)
  <2>1. Len(LogOf(files, active, buffer)[0]) = ValidTo(at, 0, 0)
    BY <1>3, <1>4, <1>6 DEF ValidTo
  <2>2. hand.phase = "idle"
    BY <1>1 DEF Idle
  <2> QED BY <2>1, <2>2, <1>1, <1>13 DEF Working
<1>15. OnMedium = {}
  <2>1. DOMAIN records = {}
    BY <1>1
  <2> QED BY <2>1 DEF OnMedium
<1> QED
  BY <1>1, <1>12, <1>14, <1>15 DEF Keeps

LEMMA KeepsStep == W /\ W' /\ Firm /\ SafeSetup /\ Keeps /\ [Next]_vars => Keeps'
<1> SUFFICES ASSUME W, W', Firm, SafeSetup, Keeps, [Next]_vars PROVE Keeps'
  OBVIOUS
<1>1. CASE \E n \in Sizes : AppendAcked(n)
  BY <1>1, AppendAckedKeeps
<1>2. CASE \E n \in Sizes : AppendFailed(n)
  BY <1>2, AppendFailedKeeps
<1>3. CASE \E n \in Sizes : RotationFailed(n)
  BY <1>3, RotationFailedKeeps
<1>4. CASE ReadBatch
  BY <1>4, ReadBatchKeeps
<1>5. CASE SinkSettles
  BY <1>5, SinkSettlesKeeps
<1>6. CASE SinkFails
  BY <1>6, SinkFailsKeeps
<1>7. CASE Commit
  BY <1>7, CommitKeeps
<1>8. CASE CommitNothing
  BY <1>8, CommitNothingKeeps
<1>9. CASE CommitInterrupted
  BY <1>9, CommitInterruptedKeeps
<1>10. CASE Flush
  BY <1>10, FlushKeeps
<1>11. CASE Close
  BY <1>11, CloseKeeps
<1>12. CASE ProcessCrash
  BY <1>12, ProcessCrashKeeps
<1>13. CASE PowerLoss
  BY <1>13, PowerLossKeeps
<1>14. CASE Recover
  BY <1>14, RecoverKeeps
<1>15. CASE UNCHANGED vars
  BY <1>15, StutterKeeps
<1> QED
  BY <1>1, <1>2, <1>3, <1>4, <1>5, <1>6, <1>7, <1>8, <1>9, <1>10, <1>11, <1>12, <1>13, <1>14,
     <1>15 DEF Next

\* Nothing that the log holds is lost, whatever the index says.
Inv == W /\ Firm /\ Keeps

LEMMA InvHolds ==
  ASSUME SafeSetup
  PROVE  Spec => []Inv
<1>1. Init => Inv
  BY TypedInit, FirmInit, KeepsInit DEF Inv
<1>2. Inv /\ [Next]_vars => Inv'
  BY TypedStep, FirmStep, KeepsStep DEF Inv
<1> QED
  BY <1>1, <1>2, PTL DEF Spec

LEMMA FrameIs ==
  ASSUME W, NEW at, NEW low, NEW top, NEW act, Held(at, low, top, act), NEW o \in low .. top - 1
  PROVE  /\ FrameOf(at[o]) # <<>> /\ IsFrame(FrameOf(at[o]))
         /\ FrameOf(at[o])[1].tkt = Tkt(LogOf(files, active, buffer), at[o])
<1>1. PICK fl, sy, a, buf, lg : /\ fl = files /\ sy = synced /\ a = active /\ buf = buffer
                                /\ lg = LogOf(fl, a, buf)
  OBVIOUS
<1>2. Disk(fl, sy) /\ a \in DOMAIN fl /\ buf \in Seq(Byte)
  BY <1>1 DEF W, WCore
<1>3. Directory(lg) /\ DOMAIN lg = DOMAIN fl
  BY <1>1, <1>2, LogOfIs
<1>4. Tiled(at, low, top, lg, act)
  BY <1>1 DEF Held, Sound
<1>5. PICK e : e = at[o]
  OBVIOUS
<1>6. e \in Entry /\ e.seg \in DOMAIN fl /\ lg[e.seg] \in Seq(Byte)
  BY <1>3, <1>4, <1>5, TiledAt
<1>7. FrameAt(lg[e.seg], e)
  BY <1>4, <1>5 DEF Tiled
<1>8. PICK bytes : bytes = lg[e.seg]
  OBVIOUS
<1>9. /\ SubSeq(bytes, e.pos + 1, End(e)) # <<>> /\ IsFrame(SubSeq(bytes, e.pos + 1, End(e)))
      /\ SubSeq(bytes, e.pos + 1, End(e))[1].tkt = bytes[e.pos + 1].tkt
  BY <1>6, <1>7, <1>8, FrameRead
<1>10. Content(e.seg) = bytes
  BY <1>1, <1>6, <1>8 DEF Content, LogOf
<1>11. FrameOf(e) = SubSeq(bytes, e.pos + 1, End(e))
  BY <1>10 DEF FrameOf
<1>12. Tkt(lg, e) = bytes[e.pos + 1].tkt
  BY <1>8 DEF Tkt
<1> QED
  BY <1>1, <1>5, <1>9, <1>11, <1>12

\* What the dispatcher sees, or will after the next start: the log from some segment
\* on, and a checkpoint that is not ahead of the one on the disk.
Seen(at, low, top, c, v) ==
  /\ c \in Nat /\ low <= c /\ c <= meta
  /\ v.records \in Seq(Entry) /\ Joined(v.records, <<>>, at, c, top)
  /\ v.start \in Nat /\ v.start <= meta - c

LEMMA ViewIs ==
  ASSUME W, SafeSetup, Keeps, ~ cut
  PROVE  \E at, low, top, act, c : Held(at, low, top, act) /\ Seen(at, low, top, c, View)
<1>1. PICK at, low, top, act : /\ Held(at, low, top, act)
                               /\ mode = "open" => Working(at, low, top, act)
  BY DEF Keeps
<1>2. meta \in Nat /\ checkpoint \in Nat /\ baseOffset \in Nat
  BY DEF W, WRest
<1>3. meta \in low .. top
  BY <1>1 DEF Held, Sound
<1>4. ASSUME NEW c \in Nat, NEW chk \in Nat, c <= meta, chk <= meta
      PROVE  Start(c, chk) \in Nat /\ Start(c, chk) <= meta - c
  BY <1>2, <1>4 DEF Start
<1>5. CASE mode = "open"
  <2>1. Working(at, low, top, act)
    BY <1>1, <1>5
  <2>2. low = baseOffset /\ checkpoint <= meta /\ Joined(records, <<>>, at, low, top)
    BY <2>1 DEF Working
  <2>3. low \in Nat /\ low <= low /\ low <= meta
    BY <2>2, <1>2, <1>3
  <2>4. View.records = records /\ View.start = Start(low, checkpoint)
    BY <2>2, <1>5 DEF View
  <2>5. records \in Seq(Entry)
    BY DEF W, WCore, Indexes
  <2>6. Start(low, checkpoint) \in Nat /\ Start(low, checkpoint) <= meta - low
    BY <2>2, <2>3, <1>2, <1>4
  <2>7. Seen(at, low, top, low, View)
    BY <2>2, <2>3, <2>4, <2>5, <2>6 DEF Seen
  <2> QED BY <2>7, <1>1
<1>6. CASE mode # "open"
  <2>1. PICK fl, sy, sn, o : /\ fl = files /\ sy = synced /\ sn = seen
                                  /\ o = Opened(fl)
    OBVIOUS
  <2>2. Directory(fl)
    BY <2>1 DEF W, WCore, Disk
  <2>3. buffer = <<>>
    BY <1>6 DEF Keeps
  <2>4. LogOf(files, active, buffer) = fl
    BY <2>1, <2>3, ClosedLog
  <2>5. /\ Tiled(at, low, top, fl, act) /\ Torn(fl[act], ValidTo(at, top, act))
        /\ Strays(low, fl, sn)
    BY <2>1, <2>4, <1>1 DEF Held, Sound
  <2>6. PICK c \in DOMAIN fl : OpensAs(o, fl, at, low, top, act, c)
    BY <2>1, <2>2, <2>5, <1>2, <1>3, OpenedIs
  <2>7. /\ low <= c /\ c <= meta /\ o.base = c /\ o.checkpoint \in Nat /\ o.checkpoint <= meta
        /\ o.records \in Seq(Entry) /\ Joined(o.records, <<>>, at, c, top)
    BY <2>6 DEF OpensAs
  <2>8. c \in Nat
    BY <2>2, <2>6 DEF Directory
  <2>9. View.records = o.records /\ View.start = Start(c, o.checkpoint)
    BY <2>1, <2>7, <1>6 DEF View
  <2>10. Start(c, o.checkpoint) \in Nat /\ Start(c, o.checkpoint) <= meta - c
    BY <2>7, <2>8, <1>4
  <2>11. Seen(at, low, top, c, View)
    BY <2>7, <2>8, <2>9, <2>10 DEF Seen
  <2> QED BY <2>11, <1>1
<1> QED BY <1>5, <1>6


-----------------------------------------------------------------------------
(* The theorems *)

\* The segments from low on, of a log that is dir.
From(dir, low) == [b \in {c \in DOMAIN dir : low <= c} |-> dir[b]]

LEMMA FromIndexed ==
  ASSUME SafeSetup, NEW dir, Directory(dir), NEW at, NEW low, NEW top, NEW act,
         Tiled(at, low, top, dir, act), Torn(dir[act], ValidTo(at, top, act)),
         NEW recs \in Seq(Entry), Joined(recs, <<>>, at, low, top)
  PROVE  Index(From(dir, low)) = recs
<1>1. PICK d, none : d = From(dir, low) /\ none = <<>>
  OBVIOUS
<1>2. /\ low \in Nat /\ act \in Nat /\ top \in Nat /\ low <= act /\ act <= top
      /\ low \in DOMAIN dir /\ act \in DOMAIN dir /\ DOMAIN dir \in SUBSET Nat
  BY TiledNat
<1>3. DOMAIN d = {c \in DOMAIN dir : low <= c} /\ \A b \in DOMAIN d : d[b] = dir[b]
  BY <1>1 DEF From
<1>4. Directory(d)
  <2>1. d = [b \in DOMAIN d |-> d[b]]
    BY <1>1 DEF From
  <2>2. DOMAIN d \in SUBSET Nat /\ low \in DOMAIN d
    BY <1>2, <1>3
  <2>3. Bounded(DOMAIN d)
    BY <1>3 DEF Directory, Bounded
  <2>4. \A b \in DOMAIN d : d[b] \in Seq(Byte)
    BY <1>3 DEF Directory
  <2> QED BY <2>1, <2>2, <2>3, <2>4 DEF Directory
<1>5. Tiled(at, low, top, d, act)
  <2>1. DOMAIN d \subseteq DOMAIN dir /\ low <= low
    BY <1>2, <1>3
  <2>2. \A b \in DOMAIN dir : low <= b => b \in DOMAIN d
    BY <1>3
  <2> QED BY <2>1, <2>2, <1>2, <1>3, TiledPruned
<1>6. Torn(d[act], ValidTo(at, top, act))
  BY <1>2, <1>3
<1>7. Front(none, d, low)
  <2>1. \A s \in DOMAIN d : ~ (s < low)
    BY <1>2, <1>3
  <2> QED BY <2>1, <1>1 DEF Front
<1>8. \A z \in Sizes : z <= MaxRecoverable
  BY DEF SafeSetup
<1>9. Index(d) \in Seq(Entry) /\ Joined(Index(d), none, at, low, top)
  BY <1>4, <1>5, <1>6, <1>7, <1>8, IndexIs
<1>10. PICK es : es = Index(d)
  OBVIOUS
<1>11. es \in Seq(Entry) /\ Joined(es, <<>>, at, low, top) /\ low <= top
  BY <1>1, <1>2, <1>9, <1>10
<1>12. Len(es) = top - low /\ \A i \in 1 .. Len(es) : es[i] = at[low + (i - 1)]
  BY <1>2, <1>11, JoinedRefers
<1>13. Len(recs) = top - low /\ \A i \in 1 .. Len(recs) : recs[i] = at[low + (i - 1)]
  BY <1>2, <1>11, JoinedRefers
<1>14. es = recs
  <2>1. Len(es) = Len(recs) /\ \A i \in 1 .. Len(es) : es[i] = recs[i]
    BY <1>12, <1>13
  <2> QED BY <2>1, <1>11, SeqEqual
<1> QED BY <1>1, <1>10, <1>14

LEMMA RestartFinds ==
  ASSUME W, SafeSetup, Keeps
  PROVE  RestartFindsIndex
<1> SUFFICES ASSUME mode = "open", ~ cut
             PROVE  Index(Live) = records /\ (WritePos > 0 => FreshName)
  BY DEF RestartFindsIndex
<1>1. PICK at, low, top, act : Held(at, low, top, act) /\ Working(at, low, top, act)
  BY DEF Keeps
<1>2. PICK fl, sy, buf, lg, recs : /\ fl = files /\ sy = synced /\ buf = buffer
                                   /\ lg = LogOf(fl, act, buf) /\ recs = records
  OBVIOUS
<1>3. /\ Disk(fl, sy) /\ act \in DOMAIN fl /\ buf \in Seq(Byte) /\ act = active
      /\ recs \in Seq(Entry) /\ low = baseOffset
  BY <1>1, <1>2 DEF W, WCore, Indexes, Working
<1>4. /\ Directory(lg) /\ DOMAIN lg = DOMAIN fl /\ Len(fl[act]) \in Nat /\ Len(buf) \in Nat
      /\ Len(lg[act]) = Len(fl[act]) + Len(buf)
  <2>1. /\ Directory(lg) /\ DOMAIN lg = DOMAIN fl
        /\ \A b \in DOMAIN fl :
             /\ Len(fl[b]) \in Nat
             /\ Len(lg[b]) = Len(fl[b]) + (IF b = act THEN Len(buf) ELSE 0)
    BY <1>2, <1>3, LogOfIs
  <2>2. Len(buf) \in Nat
    BY <1>3
  <2>3. Len(lg[act]) = Len(fl[act]) + (IF act = act THEN Len(buf) ELSE 0)
    BY <2>1, <1>3
  <2> QED BY <2>1, <2>2, <2>3, <1>3
<1>5. /\ Tiled(at, low, top, lg, act) /\ Torn(lg[act], ValidTo(at, top, act))
      /\ Joined(recs, <<>>, at, low, top) /\ Len(lg[act]) = ValidTo(at, top, act)
  BY <1>1, <1>2, <1>3 DEF Held, Sound, Working
<1>6. Index(From(lg, low)) = recs
  BY <1>3, <1>4, <1>5, FromIndexed
<1>7. Live = From(lg, low)
  <2>1. \A b \in DOMAIN lg : lg[b] = Content(b)
    BY <1>2, <1>3, <1>4 DEF LogOf, Content
  <2>2. {c \in DOMAIN files : baseOffset <= c} = {c \in DOMAIN lg : low <= c}
    BY <1>2, <1>3, <1>4
  <2> QED BY <2>1, <2>2 DEF Live, From
<1>8. WritePos > 0 => FreshName
  <2> SUFFICES ASSUME WritePos > 0 PROVE FreshName
    OBVIOUS
  <2>1. /\ low \in Nat /\ act \in Nat /\ top \in Nat /\ low <= act /\ act <= top
        /\ \A c \in DOMAIN lg : c <= act
    BY <1>4, <1>5, TiledNat
  <2>2. ValidTo(at, top, act) > 0
    BY <1>2, <1>3, <1>4, <1>5 DEF WritePos
  <2>3. act # top
    BY <2>2 DEF ValidTo
  <2>4. top \notin DOMAIN lg
    BY <2>1, <2>3
  <2>5. low <= top
    BY <2>1
  <2>6. Len(recs) = top - low
    BY <2>1, <2>5, <1>5, JoinedRefers
  <2>7. NextOffset = top
    BY <2>1, <2>6, <1>2, <1>3 DEF NextOffset
  <2> QED BY <2>4, <2>7, <1>2, <1>4 DEF FreshName
<1> QED BY <1>2, <1>6, <1>7, <1>8

\* What is pruned is settled: segments below the number in the checkpoint file.
LEMMA PrunedSettled ==
  ASSUME NEW lg, Directory(lg), NEW at, NEW low, NEW top, NEW act, NEW sy, NEW pl, NEW mt,
         NEW sn, NEW hd, Sound(at, low, top, act, lg, sy, pl, mt, sn, hd),
         Strays(low, lg, sn),
         NEW c \in DOMAIN lg, low <= c, c <= mt, NEW b \in DOMAIN lg, b < c,
         NEW i \in 1 .. Len(lg[b])
  PROVE  lg[b][i].tkt \in sn
<1>1. Tiled(at, low, top, lg, act) /\ mt \in low .. top
      /\ \A o \in low .. mt - 1 : Tkt(lg, at[o]) \in sn
  BY DEF Sound
<1>2. /\ low \in Nat /\ act \in Nat /\ top \in Nat /\ DOMAIN lg \in SUBSET Nat
      /\ \A u \in DOMAIN lg : u <= act
  BY <1>1, TiledNat
<1>3. b \in Nat /\ c \in Nat /\ c <= act
  BY <1>2
<1>4. CASE b < low
  BY <1>4 DEF Strays
<1>5. CASE low <= b
  <2>1. b # act
    BY <1>2, <1>3
  <2>2. PICK o \in low .. top - 1 : Home(lg, low, b, o) /\ lg[b][i].tkt = Tkt(lg, at[o])
    BY <2>1, <1>1, <1>5, Covered
  <2>3. o < c
    BY <2>2, <1>2, <1>3 DEF Home
  <2>4. o \in low .. mt - 1
    BY <2>3, <1>1, <1>2, <1>3
  <2> QED BY <2>2, <2>4, <1>1
<1> QED BY <1>2, <1>3, <1>4, <1>5


LEMMA ViewSettled ==
  ASSUME W, SafeSetup, Keeps
  PROVE  NothingSkipped
<1> SUFFICES ASSUME ~ cut, NEW i \in 1 .. Min2(View.start, Len(View.records))
             PROVE  Settled(View.records[i])
  BY DEF NothingSkipped
<1>1. PICK at, low, top, act, c : Held(at, low, top, act) /\ Seen(at, low, top, c, View)
  BY ViewIs
<1>2. PICK lg, recs, start : /\ lg = LogOf(files, active, buffer)
                             /\ recs = View.records /\ start = View.start
  OBVIOUS
<1>3. /\ c \in Nat /\ low <= c /\ c <= meta /\ recs \in Seq(Entry)
      /\ Joined(recs, <<>>, at, c, top) /\ start \in Nat /\ start <= meta - c
  BY <1>1, <1>2 DEF Seen
<1>4. meta \in Nat /\ Directory(lg) /\ Tiled(at, low, top, lg, act) /\ meta \in low .. top
      /\ \A o \in low .. meta - 1 : Tkt(lg, at[o]) \in seen
  <2>1. PICK fl, sy, a, buf : fl = files /\ sy = synced /\ a = active /\ buf = buffer
    OBVIOUS
  <2>2. Disk(fl, sy) /\ a \in DOMAIN fl /\ buf \in Seq(Byte)
    BY <2>1 DEF W, WCore
  <2>3. Directory(LogOf(fl, a, buf))
    BY <2>2, LogOfIs
  <2> QED BY <2>1, <2>3, <1>1, <1>2 DEF Held, Sound, W, WRest
<1>5. low \in Nat /\ top \in Nat
  BY <1>4, TiledNat
<1>6. c <= top
  BY <1>3, <1>4, <1>5
<1>7. Len(recs) = top - c /\ \A j \in 1 .. Len(recs) : recs[j] = at[c + (j - 1)]
  BY <1>3, <1>5, <1>6, JoinedRefers
<1>8. i \in Nat /\ 1 <= i /\ i <= start /\ i <= Len(recs)
  <2>1. Len(recs) \in Nat
    BY <1>3
  <2> QED BY <2>1, <1>2, <1>3 DEF Min2
<1>9. PICK o : o = c + (i - 1)
  OBVIOUS
<1>10. o \in low .. top - 1 /\ o \in low .. meta - 1
  BY <1>3, <1>4, <1>5, <1>7, <1>8, <1>9
<1>11. View.records[i] = at[o]
  BY <1>2, <1>7, <1>8, <1>9
<1>12. FrameOf(at[o])[1].tkt = Tkt(lg, at[o])
  BY <1>1, <1>2, <1>10, FrameIs
<1>13. Tkt(lg, at[o]) \in seen
  BY <1>4, <1>10
<1> QED BY <1>11, <1>12, <1>13 DEF Settled

LEMMA ViewDurable ==
  ASSUME W, SafeSetup, Keeps
  PROVE  DurableUnlessCut
<1> SUFFICES ASSUME ~ cut, NEW t \in hard, t \notin seen
             PROVE  \E i \in View.start + 1 .. Len(View.records) :
                      /\ FrameOf(View.records[i]) # <<>> /\ IsFrame(FrameOf(View.records[i]))
                      /\ FrameOf(View.records[i])[1].tkt = t
  BY DEF DurableUnlessCut, DurableKept
<1>1. PICK at, low, top, act, c : Held(at, low, top, act) /\ Seen(at, low, top, c, View)
  BY ViewIs
<1>2. PICK lg, recs, start : /\ lg = LogOf(files, active, buffer)
                             /\ recs = View.records /\ start = View.start
  OBVIOUS
<1>3. /\ c \in Nat /\ low <= c /\ c <= meta /\ recs \in Seq(Entry)
      /\ Joined(recs, <<>>, at, c, top) /\ start \in Nat /\ start <= meta - c
  BY <1>1, <1>2 DEF Seen
<1>4. meta \in Nat /\ Directory(lg) /\ Tiled(at, low, top, lg, act) /\ meta \in low .. top
      /\ \A o \in low .. meta - 1 : Tkt(lg, at[o]) \in seen
  <2>1. PICK fl, sy, a, buf : fl = files /\ sy = synced /\ a = active /\ buf = buffer
    OBVIOUS
  <2>2. Disk(fl, sy) /\ a \in DOMAIN fl /\ buf \in Seq(Byte)
    BY <2>1 DEF W, WCore
  <2>3. Directory(LogOf(fl, a, buf))
    BY <2>2, LogOfIs
  <2> QED BY <2>1, <2>3, <1>1, <1>2 DEF Held, Sound, W, WRest
<1>5. low \in Nat /\ top \in Nat
  BY <1>4, TiledNat
<1>6. c <= top
  BY <1>3, <1>4, <1>5
<1>7. Len(recs) = top - c /\ \A j \in 1 .. Len(recs) : recs[j] = at[c + (j - 1)]
  BY <1>3, <1>5, <1>6, JoinedRefers
<1>8. PICK o \in low .. top - 1 : Tkt(lg, at[o]) = t
  BY <1>1, <1>2 DEF Held, Sound
<1>9. o \in Nat /\ meta <= o
  BY <1>4, <1>5, <1>8
<1>10. PICK i : i = o - c + 1
  OBVIOUS
<1>11. i \in start + 1 .. Len(recs) /\ c + (i - 1) = o /\ 1 <= i
  BY <1>3, <1>4, <1>5, <1>7, <1>8, <1>9, <1>10
<1>12. i \in 1 .. Len(recs)
  BY <1>3, <1>7, <1>5, <1>11
<1>13. recs[i] = at[o]
  BY <1>7, <1>11, <1>12
<1>14. /\ FrameOf(at[o]) # <<>> /\ IsFrame(FrameOf(at[o]))
       /\ FrameOf(at[o])[1].tkt = Tkt(lg, at[o])
  BY <1>1, <1>2, <1>8, FrameIs
<1> QED BY <1>2, <1>8, <1>11, <1>13, <1>14

\* What a step may remove.
Settles == ~ cut => \A b \in DOMAIN files \ DOMAIN files' :
                      \A i \in DOMAIN files[b] : files[b][i].tkt \in seen

LEMMA CommitSettles ==
  ASSUME W, Firm, SafeSetup, Keeps, Committing,
         \E gone \in SUBSET Dropped(records, hand.upto, active) :
           files' = Without(Logged.files, gone)
  PROVE  Settles
<1> SUFFICES ASSUME ~ cut, NEW b \in DOMAIN files \ DOMAIN files', NEW i \in DOMAIN files[b]
             PROVE  files[b][i].tkt \in seen
  BY DEF Settles
<1>1. PICK at, low, top, act : Held(at, low, top, act) /\ Working(at, low, top, act)
  BY DEF Keeps, Committing
<1>2. act = active
  BY <1>1 DEF Working
<1>3. PICK fl, sy, buf, upto, sn, hd, recs, base :
        /\ fl = Logged.files /\ sy = Logged.synced /\ buf = Logged.buffer
        /\ upto = hand.upto /\ sn = seen /\ hd = hard
        /\ recs = records /\ base = baseOffset
  OBVIOUS
<1>4. PICK c : Checkpointed(at, low, top, act, c, fl, sy, buf, upto, recs, base, sn, hd)
  BY <1>1, <1>3, CommitSound
<1>5. PICK gone \in SUBSET Dropped(recs, upto, act) : files' = Without(fl, gone)
  BY <1>2, <1>3
<1>6. Disk(fl, sy) /\ act \in DOMAIN fl /\ buf \in Seq(Byte)
  BY <1>2, <1>3, LoggedTyped DEF W, WCore
<1>7. PICK lg, pl : lg = LogOf(fl, act, buf) /\ pl = Placed(fl, sy)
  OBVIOUS
<1>8. /\ Sound(at, low, top, act, lg, sy, pl, upto, sn, hd) /\ Strays(low, lg, sn)
      /\ c \in DOMAIN fl /\ low <= c /\ c <= upto
      /\ \A e \in DOMAIN fl : e \in Dropped(recs, upto, act) => e < c
  BY <1>4, <1>7 DEF Checkpointed
<1>9. Directory(lg) /\ DOMAIN lg = DOMAIN fl
  BY <1>6, <1>7, LogOfIs
<1>10. PICK fl0, sy0, b0 : fl0 = files /\ sy0 = synced /\ b0 = buffer
  OBVIOUS
<1>11. Disk(fl0, sy0) /\ act \in DOMAIN fl0 /\ b0 \in Seq(Byte)
  BY <1>2, <1>10 DEF W, WCore
<1>12. SameLog(fl0, sy0, act, b0, fl, sy, act, buf)
  <2>1. SameLog(files, synced, active, buffer, Logged.files, Logged.synced, active, Logged.buffer)
    BY LoggedSame DEF W
  <2> QED BY <2>1, <1>2, <1>3, <1>10
<1>13. LogOf(fl0, act, b0) = lg /\ DOMAIN fl = DOMAIN fl0
  BY <1>7, <1>12 DEF SameLog
<1>14. b \in DOMAIN fl0 /\ b \in DOMAIN fl /\ b \in DOMAIN lg
  BY <1>9, <1>10, <1>13
<1>15. b \in gone
  BY <1>5, <1>14 DEF Without
<1>16. b < c
  BY <1>5, <1>8, <1>14, <1>15
<1>17. /\ fl0[b] \in Seq(Byte) /\ Len(fl0[b]) \in Nat /\ Len(lg[b]) \in Nat
       /\ Len(fl0[b]) <= Len(lg[b]) /\ \A j \in 1 .. Len(fl0[b]) : lg[b][j] = fl0[b][j]
  BY <1>11, <1>13, <1>14, LogOfIs
<1>18. i \in 1 .. Len(fl0[b])
  BY <1>10, <1>17
<1>19. i \in 1 .. Len(lg[b])
  BY <1>17, <1>18
<1>20. c \in DOMAIN lg
  BY <1>8, <1>9
<1>21. lg[b][i].tkt \in sn
  BY <1>8, <1>9, <1>14, <1>16, <1>19, <1>20, PrunedSettled
<1> QED BY <1>3, <1>10, <1>17, <1>18, <1>21

LEMMA RecoverSettles ==
  ASSUME W, SafeSetup, Keeps, Recover
  PROVE  Settles
<1> SUFFICES ASSUME ~ cut, NEW b \in DOMAIN files \ DOMAIN files', NEW i \in DOMAIN files[b]
             PROVE  files[b][i].tkt \in seen
  BY DEF Settles
<1>1. mode # "open"
  BY DEF Recover
<1>2. PICK at, low, top, act : Held(at, low, top, act)
  BY DEF Keeps
<1>3. buffer = <<>>
  BY <1>1 DEF Keeps
<1>4. PICK fl, sy, mt, sn, hd, o, pl :
        /\ fl = files /\ sy = synced /\ mt = meta /\ sn = seen /\ hd = hard
        /\ o = Opened(fl) /\ pl = Placed(fl, sy)
  OBVIOUS
<1>5. Disk(fl, sy) /\ Directory(fl) /\ meta \in Nat
  BY <1>4 DEF W, WCore, WRest, Disk
<1>6. LogOf(files, active, buffer) = fl
  BY <1>3, <1>4, ClosedLog
<1>7. Sound(at, low, top, act, fl, sy, pl, mt, sn, hd) /\ Strays(low, fl, sn)
  BY <1>2, <1>4, <1>6 DEF Held
<1>8. /\ Tiled(at, low, top, fl, act) /\ Torn(fl[act], ValidTo(at, top, act)) /\ meta \in low .. top
  BY <1>4, <1>7 DEF Sound
<1>9. PICK c \in DOMAIN fl : OpensAs(o, fl, at, low, top, act, c)
  BY <1>4, <1>5, <1>7, <1>8, OpenedIs
<1>10. low <= c /\ c <= mt /\ \A e \in DOMAIN fl : e \in o.dropped => e < c
  BY <1>4, <1>9 DEF OpensAs
<1>11. b \in DOMAIN fl /\ b \in o.dropped
  BY <1>4 DEF Recover, Without
<1>12. fl[b] \in Seq(Byte)
  BY <1>5, <1>11 DEF Directory
<1>13. i \in 1 .. Len(fl[b])
  BY <1>4, <1>12
<1>14. b < c
  BY <1>10, <1>11
<1>15. fl[b][i].tkt \in sn
  BY <1>5, <1>7, <1>9, <1>10, <1>11, <1>13, <1>14, PrunedSettled
<1> QED BY <1>4, <1>15


\* Only a commit and a start remove segments.
LEMMA OthersRemoveNothing ==
  ASSUME W, [Next]_vars, ~ Commit, ~ CommitInterrupted, ~ Recover
  PROVE  DOMAIN files \subseteq DOMAIN files'
<1>1. PICK fl : fl = files
  OBVIOUS
<1>2. DOMAIN Logged.files = DOMAIN fl
  BY <1>1 DEF Logged
<1>3. DOMAIN fl \subseteq DOMAIN Rotated.files
  BY <1>1 DEF Rotated, With
<1>4. \A n : DOMAIN fl \subseteq DOMAIN Slot(n).files
  BY <1>1, <1>3 DEF Slot
<1>5. FlushBuffer \/ FlushBroken => DOMAIN files' = DOMAIN fl
  BY <1>1 DEF FlushBuffer, FlushBroken
<1>6. \A s, now, pos : RollbackTo(s, now, pos) => DOMAIN files' = DOMAIN s.files
  BY DEF RollbackTo
<1>7. CASE \E n \in Sizes : AppendAcked(n)
  BY <1>1, <1>4, <1>7 DEF AppendAcked
<1>8. CASE \E n \in Sizes : AppendFailed(n)
  <2>1. PICK n \in Sizes : AppendFailed(n)
    BY <1>8
  <2>2. \E now, pos : RollbackTo(Slot(n), now, pos)
    BY <2>1 DEF AppendFailed
  <2> QED BY <2>2, <1>1, <1>4, <1>6
<1>9. CASE \E n \in Sizes : RotationFailed(n)
  BY <1>1, <1>5, <1>9 DEF RotationFailed
<1>10. CASE ReadBatch
  BY <1>1, <1>5, <1>10 DEF ReadBatch
<1>11. CASE SinkSettles \/ SinkFails
  BY <1>11 DEF SinkSettles, SinkFails, disk
<1>12. CASE CommitNothing
  BY <1>1, <1>2, <1>5, <1>12 DEF CommitNothing
<1>13. CASE Flush
  BY <1>1, <1>5, <1>13 DEF Flush
<1>14. CASE Close
  BY <1>14 DEF Close
<1>15. CASE ProcessCrash
  BY <1>1, <1>3, <1>15 DEF ProcessCrash
<1>16. CASE PowerLoss
  BY <1>16 DEF PowerLoss
<1>17. CASE UNCHANGED vars
  BY <1>17 DEF vars, disk
<1> QED
  BY <1>7, <1>8, <1>9, <1>10, <1>11, <1>12, <1>13, <1>14, <1>15, <1>16, <1>17 DEF Next

LEMMA StepSettles ==
  ASSUME SafeSetup, Inv, [Next]_vars
  PROVE  Settles
<1>1. W /\ Firm /\ Keeps
  BY DEF Inv
<1>2. CASE Commit
  <2>1. Committing
    BY <1>2 DEF Commit
  <2>2. \E gone \in SUBSET Dropped(records, hand.upto, active) :
          files' = Without(Logged.files, gone)
    BY <1>2 DEF Commit
  <2> QED BY <2>1, <2>2, <1>1, CommitSettles
<1>3. CASE CommitInterrupted
  <2>1. Committing
    BY <1>3 DEF CommitInterrupted
  <2>2. \E gone \in SUBSET Dropped(records, hand.upto, active) :
          files' = Without(Logged.files, gone)
    BY <1>3 DEF CommitInterrupted
  <2> QED BY <2>1, <2>2, <1>1, CommitSettles
<1>4. CASE Recover
  BY <1>1, <1>4, RecoverSettles
<1>5. CASE ~ Commit /\ ~ CommitInterrupted /\ ~ Recover
  <2>1. DOMAIN files \subseteq DOMAIN files'
    BY <1>1, <1>5, OthersRemoveNothing
  <2> QED BY <2>1 DEF Settles
<1> QED BY <1>2, <1>3, <1>4, <1>5

\* A clean restart would find the very index the engine works with: appendLocked,
\* rotateSegment, rollbackTo, Commit with pruneCommittedSegments and recoverSegmented
\* agree on the segment and the position of every frame, and a rotation never opens
\* a segment that exists.
THEOREM RestartFindsTheIndex ==
  ASSUME SafeSetup
  PROVE  Spec => []RestartFindsIndex
<1>1. Inv => RestartFindsIndex
  BY RestartFinds DEF Inv
<1>2. Spec => []Inv
  BY InvHolds
<1> QED
  BY <1>1, <1>2, PTL

\* The checkpoint, in memory and in checkpoint.meta, never passes a frame that the
\* sink has not settled: Commit writes what ReadBatch handed out, and a start that
\* clamps the number finds the frames below it.
THEOREM NothingIsSkipped ==
  ASSUME SafeSetup
  PROVE  Spec => []NothingSkipped
<1>1. Inv => NothingSkipped
  BY ViewSettled DEF Inv
<1>2. Spec => []Inv
  BY InvHolds
<1> QED
  BY <1>1, <1>2, PTL

\* A record that was acknowledged and on the medium is delivered or pending, after
\* every crash, rotation, removal, failed write and rollback of Append and every
\* start, unless a rollback has cut a segment inside a frame.
THEOREM DurableStaysUnlessCut ==
  ASSUME SafeSetup
  PROVE  Spec => []DurableUnlessCut
<1>1. Inv => DurableUnlessCut
  BY ViewDurable DEF Inv
<1>2. Spec => []Inv
  BY InvHolds
<1> QED
  BY <1>1, <1>2, PTL

\* pruneCommittedSegments, in Commit and in a start, removes a file only when the
\* sink has settled every frame in it.
THEOREM OnlySettledIsRemoved ==
  ASSUME SafeSetup
  PROVE  Spec => OnlySettledRemoved
<1>1. Inv /\ [Next]_vars =>
        [~ cut => \A b \in DOMAIN files \ DOMAIN files' :
           \A i \in DOMAIN files[b] : files[b][i].tkt \in seen]_vars
  BY StepSettles DEF Settles
<1>2. Spec => []Inv
  BY InvHolds
<1> QED
  BY <1>1, <1>2, PTL DEF Spec, OnlySettledRemoved
=============================================================================
