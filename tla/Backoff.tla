------------------------------ MODULE Backoff ------------------------------
(***************************************************************************)
(* How long the dispatcher waits after a failure (engine.go): the waits of *)
(* runDispatcher and drainAll, drawn by calculateNextBackoff in signed     *)
(* 64-bit arithmetic that wraps around.                                    *)
(***************************************************************************)
EXTENDS Integers

CONSTANTS
  Top,     \* durations are from -Top to Top - 1: 2^63 in the code
  Default  \* DefaultConfig().InitialBackoff

Durations == -Top .. Top - 1

ASSUME BackoffAssumption == Top \in Nat /\ Default \in 1 .. Top - 1

VARIABLES
  InitialBackoff, \* cfg.InitialBackoff
  MaxBackoff,     \* cfg.MaxBackoff
  current,        \* currentBackoff: the next wait
  retries         \* history: 0 before the first wait in a row of failures, then 1

vars == <<InitialBackoff, MaxBackoff, current, retries>>

Init ==
  /\ InitialBackoff \in Durations /\ MaxBackoff \in Durations
  /\ current = InitialBackoff
  /\ retries = 0

AtLeast(x, low)  == IF x < low THEN low ELSE x
AtMost(x, high)  == IF x > high THEN high ELSE x
Wrapped(x)       == ((x + Top) % (2 * Top)) - Top

\* Mutant: the configured value is taken as it is.
LeastUnrepaired == InitialBackoff

\* The configured bounds as calculateNextBackoff repairs them.
Least    == IF InitialBackoff <= 0 THEN Default ELSE InitialBackoff
Greatest == AtLeast(MaxBackoff, Least)

\* Mutant: the product is taken as it is.
TripleUnguarded(last) == AtLeast(Wrapped(last * 3), Least)

\* Three times the last wait, or the maximum when the product wraps.
Triple(last) ==
  LET high == Wrapped(last * 3)
  IN  AtLeast(IF high < last THEN Greatest ELSE high, Least)

\* Mutant: a wait above the maximum is let through.
NextWaitUncapped(last, random) == Least + random

\* The wait drawn with a random number of Int64N(Spread(last)).
NextWait(last, random) == AtMost(Least + random, Greatest)

\* The argument of Int64N, which panics unless it is positive.
Spread(last) == Triple(AtLeast(last, Least)) - Least + 1

\* A wait is over and the drain fails again.
Retry ==
  /\ \E random \in 0 .. Spread(current) - 1 : current' = NextWait(current, random)
  /\ retries' = 1
  /\ UNCHANGED <<InitialBackoff, MaxBackoff>>

\* The drain succeeds.
Succeed ==
  /\ current' = InitialBackoff
  /\ retries' = 0
  /\ UNCHANGED <<InitialBackoff, MaxBackoff>>

Next == Retry \/ Succeed

Spec == Init /\ [][Next]_vars

-----------------------------------------------------------------------------
(* Properties *)

\* From the second failure in a row on, every wait is positive, no shorter
\* than the initial backoff and no longer than the maximum.
WaitInRange == retries = 1 => current \in Least .. Greatest /\ current > 0

\* Int64N is never called with an argument it panics on.
NeverPanics == Spread(current) \in 1 .. Top - 1

\* The longest wait that can be drawn next is three times this one, or the
\* maximum, computed exactly: an overflow never shortens the backoff.
NeverNarrows ==
  LET last == AtLeast(current, Least)
  IN  NextWait(current, Spread(current) - 1) = AtMost(3 * last, Greatest)
=============================================================================
