----------------------------- MODULE AccessLife -----------------------------
(***************************************************************************)
(* What a member may rely on, whatever sells, renews, bans, refunds or     *)
(* sweeps: a sale opens one row, and none beside a row that gives access;  *)
(* a row is closed because its time is over or its member is banned; and   *)
(* it opens again only if something of it is left and its member is free.  *)
(***************************************************************************)
EXTENDS Integers

CONSTANTS Rows, Members

VARIABLES now, life, owner, ends, free, banned

\* life: "none", "open", "closed"; ends: the day the access ends; free: the row
\* gives access whatever the day.
Left(i) == free[i] \/ ends[i] > now
Access(i) == life[i] = "open" /\ Left(i)

Init ==
  /\ now = 0
  /\ life = [i \in Rows |-> "none"]
  /\ banned = [u \in Members |-> FALSE]

\* Dates move as payments and provider events have it.
Keeps(i) == life'[i] = life[i]

Sell(i) ==
  /\ life[i] = "none" /\ life'[i] = "open"
  /\ owner'[i] \in Members
  /\ \A j \in Rows : owner[j] = owner'[i] => ~Access(j)

Close(i) ==
  /\ life[i] = "open" /\ life'[i] = "closed"
  /\ banned'[owner[i]] \/ ends'[i] <= now

Reopen(i) ==
  /\ life[i] = "closed" /\ life'[i] = "open"
  /\ ~banned'[owner[i]]
  /\ Left(i)'

Day == now' = now + 1 /\ UNCHANGED <<life, owner, ends, free, banned>>

Work ==
  /\ now' = now
  /\ \A i \in Rows : Keeps(i) \/ Sell(i) \/ Close(i) \/ Reopen(i)
  /\ \A i \in Rows : life[i] # "none" => owner'[i] = owner[i]
  /\ \A i, j \in Rows : (Sell(i) /\ Sell(j)) => i = j

Next == Day \/ Work

Spec == Init /\ [][Next]_<<now, life, owner, ends, free, banned>>
=============================================================================
