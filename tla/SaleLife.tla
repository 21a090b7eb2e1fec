------------------------------ MODULE SaleLife ------------------------------
(***************************************************************************)
(* What the shop promises of each sale, whatever provider, discount or     *)
(* surface it came through: one that was paid opens access once, to one    *)
(* person, and one that was given back opens nothing afterwards.           *)
(***************************************************************************)
EXTENDS Integers

CONSTANTS Sales

VARIABLES stage, opened

Init == stage = [s \in Sales |-> "none"] /\ opened = [s \in Sales |-> 0]

Stays(s) == stage'[s] = stage[s] /\ opened'[s] = opened[s]
Others(s) == \A r \in Sales \ {s} : Stays(r)

Offer(s) == stage[s] = "none" /\ stage'[s] = "offered"
Void(s) == stage[s] = "offered" /\ stage'[s] = "void"
\* Paid, and served with the payment, or later when a gift is claimed.
Pay(s) == stage[s] = "offered" /\ stage'[s] = "paid"
Serve(s) == stage[s] \in {"offered", "paid"} /\ stage'[s] = "served"
Return(s) == stage[s] \in {"paid", "served"} /\ stage'[s] = "returned"

Next ==
  \E s \in Sales :
    /\ Others(s)
    /\ \/ Serve(s) /\ opened'[s] = opened[s] + 1
       \/ (Offer(s) \/ Void(s) \/ Pay(s) \/ Return(s)) /\ opened'[s] = opened[s]

Spec == Init /\ [][Next]_<<stage, opened>>
=============================================================================
