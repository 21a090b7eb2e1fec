------------------------------ MODULE MCAccess ------------------------------
(***************************************************************************)
(* AccessLifecycle on small instances: every member holds the Stripe       *)
(* subscription named after them.                                          *)
(***************************************************************************)
EXTENDS AccessScan

CONSTANTS u1, u2, p1, p2

OneOwner == [p \in PSids |-> u1]
TwoOwners == [p \in PSids |-> IF p = p1 THEN u1 ELSE u2]
=============================================================================
