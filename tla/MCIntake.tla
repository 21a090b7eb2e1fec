------------------------------ MODULE MCIntake ------------------------------
(* Intake on small instances. *)
EXTENDS IntakeProperties

CONSTANTS k1, k2
=============================================================================
