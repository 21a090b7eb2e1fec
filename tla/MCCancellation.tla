---------------------------- MODULE MCCancellation ----------------------------
(* Cancellation on small instances. *)
EXTENDS CancellationProperties

CONSTANTS k1, k2, h1
=============================================================================
