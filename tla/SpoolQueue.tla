----------------------------- MODULE SpoolQueue -----------------------------
(***************************************************************************)
(* What a spool promises, whatever its storage: a queue with at-least-once *)
(* delivery.  Items wait in order; the first "hard" of them outlive every  *)
(* crash.  An item leaves the queue at its head only, and only when the    *)
(* sink has taken it or it can no longer be read; the soft tail may be     *)
(* lost or damaged.  (README.md, "Delivery Semantics & Failure Modes";     *)
(* ports.go, StorageEngine and Sink.)                                      *)
(***************************************************************************)
EXTENDS Naturals, Sequences

CONSTANT Items   \* records with a field "body": "intact", or "damaged" and unreadable

VARIABLES
  pending,   \* items accepted and not discharged, oldest first
  hard,      \* number of leading pending items no crash can take
  taken      \* items the sink has taken at least once

vars == <<pending, hard, taken>>

TypeOK ==
  /\ pending \in Seq(Items)
  /\ hard \in 0 .. Len(pending)
  /\ taken \subseteq Items

Init == pending = <<>> /\ hard = 0 /\ taken = {}

\* A caller's item joins the queue, hardened at once or not; items in front
\* of it may be hardened with it.
Accept ==
  /\ \E x \in Items : pending' = Append(pending, x)
  /\ hard' \in hard .. Len(pending')
  /\ UNCHANGED taken

Harden ==
  /\ hard' \in hard .. Len(pending)
  /\ UNCHANGED <<pending, taken>>

\* The sink takes some items at the head; it may be given them again.
Take ==
  /\ \E n \in 1 .. Len(pending) :
       /\ \A i \in 1 .. n : pending[i].body = "intact"
       /\ taken' = taken \union {pending[i] : i \in 1 .. n}
  /\ UNCHANGED <<pending, hard>>

\* Items at the head are done with.
Discharge ==
  /\ \E n \in 1 .. Len(pending) :
       /\ \A i \in 1 .. n : pending[i] \in taken \/ pending[i].body = "damaged"
       /\ pending' = SubSeq(pending, n + 1, Len(pending))
       /\ hard' \in (IF hard > n THEN hard - n ELSE 0) .. Len(pending')
  /\ UNCHANGED taken

\* A failed write or a crash takes a soft tail, and a crash may damage what
\* it leaves of it, or leave an item whose caller got no answer.
Lose ==
  /\ \E inflight \in {<<>>} \union {<<x>> : x \in Items} :
       LET all == pending \o inflight
       IN  \E n \in hard .. Len(all) :
             /\ Len(pending') = n
             /\ \A i \in 1 .. n :
                  pending'[i] = all[i] \/ (i > hard /\ pending'[i] = [all[i] EXCEPT !.body = "damaged"])
             /\ hard' \in hard .. n
  /\ UNCHANGED taken

Next == Accept \/ Harden \/ Take \/ Discharge \/ Lose

Spec == Init /\ [][Next]_vars
=============================================================================
