------------------------------ MODULE MCLedger ------------------------------
(***************************************************************************)
(* RefundLedger on small instances: m1 is invited by a1 and makes the      *)
(* payments q1, q2 and q3; m2 is invited by a2 and makes q4.               *)
(***************************************************************************)
EXTENDS RefundAudit

CONSTANTS m1, m2, a1, a2, q1, q2, q3, q4

PayerOf == [p \in Payments |-> IF p = q4 THEN m2 ELSE m1]
PartnerOf == [p \in Payments |-> IF p = q4 THEN a2 ELSE a1]
=============================================================================
