----------------------------- MODULE MCCheckout -----------------------------
(***************************************************************************)
(* Checkout on small instances: the influencer i1 owns a code of 30%; a2   *)
(* was invited by i2 before attributions existed.  The transfer x1 pays    *)
(* the full price, x2 the referral price, x3 went to another wallet.       *)
(***************************************************************************)
EXTENDS CheckoutProperties, TLC

CONSTANTS a1, a2, i1, i2, x1, x2, x3, t1, t2

MixedWays == {<<a1, "stripe", "code">>, <<a1, "stripe", "gift">>, <<a1, "usdt", "plan">>,
              <<a2, "lava", "code">>, <<a2, "usdt", "code">>}
TransfersOnly == {<<a2, "usdt", "plan">>}
OneLink == {<<a1, i2>>}
InvitedBy == [m \in Members |-> IF m = a2 THEN i2 ELSE NoOne]
AnyDesk == Permutations(Desks)
PercentCode == [fixed |-> FALSE, off |-> 30, currency |-> "USD", owner |-> i1, until |-> 1]
Transfers ==
  [h \in Hashes |->
     [success |-> TRUE, genuine |-> TRUE, ours |-> h # x3,
      amount |-> IF h = x2 THEN ReferralPrice ELSE Price]]
=============================================================================
