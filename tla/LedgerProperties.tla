-------------------------- MODULE LedgerProperties --------------------------
(***************************************************************************)
(* What RefundLedger guarantees, as deployed and one handler at a time.    *)
(***************************************************************************)
EXTENDS RefundLedger

Sum(op(_), S) == MapThenSumSet(op, S)

(***************************************************************************)
(* Of the program as deployed.                                             *)
(***************************************************************************)
\* A commission is paid out at most once, whatever generations, cancellations
\* and payments of batches interleave with refunds: "Commissions become `paid`
\* only once" (transition_referral_payout_batch).
PaidOutOnce == \A p \in Payments : payouts[p] <= 1

\* The refunded total stays within the price and decides the payment's status,
\* also when two confirmations of one refund race (_apply_confirmed_refund).
NeverOverRefunded ==
  \A p \in Payments :
    /\ pay[p].refunded <= Price
    /\ pay[p].status = "refunded" <=> pay[p].refunded = Price

\* What Stripe returned, or an administrator confirmed to have returned, on the
\* refunds of a payment on record.
Returned(p) ==
  Sum(LAMBDA r : IF \/ refund[r].manual /\ refund[r].applied
                    \/ ~refund[r].manual /\ stripe[refund[r].key].status = "succeeded"
                 THEN refund[r].amount ELSE 0, Of(p))

\* The buyer never gets back more than the price on the refunds on record: a
\* lost answer, a retry or a synchronisation moves no money twice.
ReturnedWithinPrice == \A p \in Payments : Returned(p) <= Price

(***************************************************************************)
(* Of the program one handler at a time (Overlap = FALSE).                 *)
(***************************************************************************)
\* The refunds of p that are accounted for.
AppliedTo(p) == {r \in Of(p) : refund[r].applied}

\* What a commission is still worth is the share of what was not given back, to
\* within the roundings: two fifths of a cent for the share itself and for each
\* refund.  It is cancelled, reduced, or clawed back, however partial refunds and
\* the vesting of the row interleave; one refund of the whole price leaves nothing,
\* and a payment given back in full has no row waiting (adjust_commission_for_refund).
RefundReachesCommission ==
  \A p \in Payments :
    LET drift == 5 * (comm[p].amount - comm[p].clawed) - (Price - pay[p].refunded)
        cents == 2 * (1 + Cardinality(AppliedTo(p)))
    IN  /\ pay[p].status = "refunded" => comm[p].status # "pending"
        /\ comm[p].status \in {"pending", "vested", "paid"} =>
             \/ comm[p].amount = 0 /\ comm[p].clawed = 0
             \/ -cents <= drift /\ drift <= cents

\* "Every in-window commission remains pending at the same retention gate": the
\* rows of one invitee wait for the gate of the current streak, and none waits
\* once the invitee qualified (record_referral_commission_intent).
PendingShareTheGate ==
  \A p \in Payments :
    comm[p].status = "pending" =>
      /\ comm[p].vests = ref[Payer[p]].gate
      /\ ref[Payer[p]].qualified = NoTime

\* A batch that can still be paid is worth what its rows are worth, and each
\* partner in it reached the threshold alone (create_referral_payout_batch).
BatchKeepsItsWord ==
  /\ TypeOK
  /\ \A b \in BatchIds :
       batch[b].status \in {"draft", "sent", "paid"} =>
         /\ batch[b].total = Amount(comm, InBatch(b))
         /\ \A p \in InBatch(b) :
              Amount(comm, OfPartner(Partner[p], InBatch(b))) >= Threshold

\* What a partner is promised holds of the detailed books: an earned commission
\* keeps its worth, a cancelled one never returns, and money leaves only for
\* partners above the threshold, each commission once (CommissionLife).
Account == INSTANCE CommissionLife WITH
             life <- [p \in Payments |-> comm[p].status],
             worth <- [p \in Payments |-> comm[p].amount]
ImplementsCommissionLife == Account!Spec
=============================================================================
