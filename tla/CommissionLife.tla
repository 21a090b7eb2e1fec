---------------------------- MODULE CommissionLife ----------------------------
(***************************************************************************)
(* What the partner programme promises, without refunds, streaks, gates or *)
(* batches: the life of each commission and what it is worth.              *)
(***************************************************************************)
EXTENDS Integers, FiniteSetsExt

CONSTANTS Payments, Partner, Threshold

VARIABLES life, worth

Init ==
  /\ life = [p \in Payments |-> "none"]
  /\ worth = [p \in Payments |-> 0]

\* A commission is recorded; waits, and may shrink; is earned at its worth of
\* that moment; or is lost.  What is earned, lost or paid stays as it is.
Recorded(p) == life[p] = "none" /\ life'[p] \in {"pending", "vested"}
Shrinks(p) == life[p] = "pending" /\ life'[p] = "pending" /\ worth'[p] <= worth[p]
Leaves(p) ==
  life[p] = "pending" /\ life'[p] \in {"vested", "cancelled"} /\ worth'[p] = worth[p]
Stays(p) == life'[p] = life[p] /\ worth'[p] = worth[p]

Settle == \A p \in Payments : Recorded(p) \/ Shrinks(p) \/ Leaves(p) \/ Stays(p)

\* A set of earned commissions is paid: each partner's part reaches the floor.
PayOut(S) ==
  /\ S # {}
  /\ \A p \in S :
       /\ life[p] = "vested"
       /\ MapThenSumSet(LAMBDA q : worth[q], {q \in S : Partner[q] = Partner[p]})
            >= Threshold
  /\ life' = [p \in Payments |-> IF p \in S THEN "paid" ELSE life[p]]
  /\ UNCHANGED worth

Next == Settle \/ \E S \in SUBSET Payments : PayOut(S)

Spec == Init /\ [][Next]_<<life, worth>>
=============================================================================
