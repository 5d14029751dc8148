--------------------------- MODULE Backoff_proofs ---------------------------
(***************************************************************************)
(* The backoff for every width of the integers and every configuration.    *)
(* The one fact about the wrap that matters is what it does to the product *)
(* of a wait and 3, which is below 3 * Top: it comes out either exact or   *)
(* smaller than the wait itself, so the test for it catches every case.    *)
(***************************************************************************)
EXTENDS Backoff, TLAPS

\* What the variables are.
TypeInv ==
  /\ InitialBackoff \in Durations /\ MaxBackoff \in Durations
  /\ current \in Durations /\ retries \in 0 .. 1

\* The wrap of a number below 3 * Top, without division.
LEMMA WrapCases ==
  ASSUME NEW x \in Int, 0 <= x, x < 3 * Top
  PROVE  Wrapped(x) = IF x < Top THEN x ELSE x - 2 * Top
<1>1. Top \in Nat /\ Top > 0
  BY BackoffAssumption
<1>2. CASE x < Top
  <2>1. (x + Top) % (2 * Top) = x + Top
    BY <1>1, <1>2
  <2> QED
    BY <1>1, <1>2, <2>1 DEF Wrapped
<1>3. CASE x >= Top
  <2>1. (x + Top) % (2 * Top) = x - Top
    BY <1>1, <1>3
  <2> QED
    BY <1>1, <1>3, <2>1 DEF Wrapped
<1> QED
  BY <1>1, <1>2, <1>3

\* The repaired bounds are in order and above zero.
LEMMA BoundsOrdered ==
  ASSUME TypeInv
  PROVE  /\ Least \in 1 .. Top - 1
         /\ Greatest \in Least .. Top - 1
  BY BackoffAssumption DEF TypeInv, Durations, Least, Greatest, AtLeast

\* The guard replaces exactly the products that do not fit.
LEMMA TripleExact ==
  ASSUME TypeInv, NEW last \in Least .. Top - 1
  PROVE  Triple(last) = IF 3 * last < Top THEN 3 * last ELSE Greatest
<1>1. /\ Top \in Nat /\ Least \in 1 .. Top - 1 /\ Greatest \in Least .. Top - 1
      /\ last \in Int /\ Least <= last /\ last < Top
  BY BoundsOrdered, BackoffAssumption
<1>2. /\ last * 3 \in Int /\ last * 3 = 3 * last
      /\ 0 <= last * 3 /\ last * 3 < 3 * Top
  BY <1>1
<1>3. Wrapped(last * 3) = IF last * 3 < Top THEN last * 3 ELSE last * 3 - 2 * Top
  BY <1>2, WrapCases
<1> QED
  BY <1>1, <1>2, <1>3 DEF Triple, AtLeast

\* What a failure may draw.
LEMMA DrawInRange ==
  ASSUME TypeInv
  PROVE  /\ Spread(current) \in 1 .. Top - 1
         /\ \A random \in 0 .. Spread(current) - 1 :
              NextWait(current, random) \in Least .. Greatest
<1> DEFINE last == AtLeast(current, Least)
<1>1. /\ Top \in Nat /\ Least \in 1 .. Top - 1 /\ Greatest \in Least .. Top - 1
  BY BoundsOrdered, BackoffAssumption
<1>2. last \in Least .. Top - 1
  BY <1>1 DEF TypeInv, Durations, AtLeast
<1>3. Triple(last) = IF 3 * last < Top THEN 3 * last ELSE Greatest
  BY <1>2, TripleExact
<1>4. Triple(last) \in Least .. Top - 1
  BY <1>1, <1>2, <1>3
<1> QED
  BY <1>1, <1>4 DEF Spread, NextWait, AtMost

\* The variables keep their type, and the waits their bounds.
LEMMA Inductive ==
  ASSUME TypeInv /\ WaitInRange, [Next]_vars
  PROVE  TypeInv' /\ WaitInRange'
<1>1. CASE Retry
  <2>1. /\ InitialBackoff' = InitialBackoff /\ MaxBackoff' = MaxBackoff
        /\ Least' = Least /\ Greatest' = Greatest
    BY <1>1 DEF Retry, Least, Greatest
  <2>2. current' \in Least .. Greatest
    BY <1>1, DrawInRange DEF Retry
  <2>3. Least \in 1 .. Top - 1 /\ Greatest \in Least .. Top - 1 /\ Top \in Nat
    BY BoundsOrdered, BackoffAssumption
  <2>4. current' \in Durations /\ current' > 0
    BY <2>2, <2>3 DEF Durations
  <2> QED
    BY <1>1, <2>1, <2>2, <2>4 DEF Retry, TypeInv, WaitInRange
<1>2. CASE Succeed
  BY <1>2 DEF Succeed, TypeInv, WaitInRange
<1>3. CASE UNCHANGED vars
  BY <1>3 DEF vars, TypeInv, WaitInRange, Least, Greatest
<1> QED
  BY <1>1, <1>2, <1>3 DEF Next

LEMMA AlwaysTyped == Spec => [](TypeInv /\ WaitInRange)
<1>1. Init => TypeInv /\ WaitInRange
  BY DEF Init, TypeInv, WaitInRange
<1> QED
  BY <1>1, Inductive, PTL DEF Spec

\* After the first of several failures in a row the dispatcher always waits,
\* for at least the initial backoff and at most the maximum.
THEOREM EveryWaitInRange == Spec => []WaitInRange
  BY AlwaysTyped, PTL

\* The random number generator never gets an argument it panics on.
THEOREM DrawNeverPanics == Spec => []NeverPanics
<1>1. TypeInv => NeverPanics
  BY DrawInRange DEF NeverPanics
<1> QED
  BY <1>1, AlwaysTyped, PTL

\* The range of the next wait reaches three times the last one, or the
\* maximum, in spite of the overflow of the product.
THEOREM GrowthSurvivesOverflow == Spec => []NeverNarrows
<1>1. ASSUME TypeInv PROVE NeverNarrows
  <2> DEFINE last == AtLeast(current, Least)
  <2>1. /\ Top \in Nat /\ Least \in 1 .. Top - 1 /\ Greatest \in Least .. Top - 1
    BY <1>1, BoundsOrdered, BackoffAssumption
  <2>2. last \in Least .. Top - 1
    BY <1>1, <2>1 DEF TypeInv, Durations, AtLeast
  <2>3. Triple(last) = IF 3 * last < Top THEN 3 * last ELSE Greatest
    BY <1>1, <2>2, TripleExact
  <2>4. NextWait(current, Spread(current) - 1) = AtMost(Triple(last), Greatest)
    BY <2>1, <2>2, <2>3 DEF NextWait, Spread, AtMost
  <2> QED
    BY <2>1, <2>2, <2>3, <2>4 DEF NeverNarrows, AtMost
<1> QED
  BY <1>1, AlwaysTyped, PTL
=============================================================================
