---------------------------- MODULE RefundAudit ----------------------------
(***************************************************************************)
(* refund_consistency_issues: what the nightly run reads in the books of   *)
(* RefundLedger about payments and their refunds, and what may be relied   *)
(* on to be in its report.                                                 *)
(***************************************************************************)
EXTENDS LedgerProperties

\* The sum of the confirmed refunds whose accounting was applied.
Confirmed(p) ==
  Sum(LAMBDA r : IF refund[r].status = "confirmed" /\ refund[r].applied
                 THEN refund[r].amount ELSE 0, Of(p))

\* <provider>_confirmed_refund_total_mismatch
TotalsDisagree(p) == Of(p) # {} /\ Confirmed(p) # pay[p].refunded

\* The findings about one refund: "has not been provider-confirmed", and
\* confirmed without having been applied.  A third names the failed ones.
Unapplied(r) == refund[r].status = "confirmed" /\ ~refund[r].applied

\* The findings about a payment's status; the first that applies ends it.
Unrecorded(p) == pay[p].refunded = 0 /\ pay[p].status = "refunded"
Exceeds(p) == pay[p].refunded > Price
FullMismatch(p) == pay[p].refunded = Price /\ pay[p].status # "refunded"
PartialMismatch(p) ==
  0 < pay[p].refunded /\ pay[p].refunded < Price /\ pay[p].status = "refunded"

Alarms(p) ==
  \/ TotalsDisagree(p) \/ Unrecorded(p) \/ Exceeds(p) \/ FullMismatch(p)
  \/ PartialMismatch(p) \/ \E r \in Of(p) : Unapplied(r)

(***************************************************************************)
(* One handler at a time (Overlap = FALSE).                                *)
(***************************************************************************)
\* "So a manual DB poke or a half-applied refund cannot silently leave a payment
\* in a contradictory state": the handlers themselves never leave one, whatever
\* Stripe answers and whichever commit fails.
AuditStaysQuiet == \A p \in Payments : ~Alarms(p)
=============================================================================
