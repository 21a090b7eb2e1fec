------------------------- MODULE CheckoutProperties -------------------------
(***************************************************************************)
(* What Checkout guarantees.                                               *)
(***************************************************************************)
EXTENDS Checkout

Amounts == {Price, ReferralPrice, Discounted("USD"), Discounted(LavaCurrency)}

TypeOK ==
  /\ today \in 0..LastDay
  /\ books.count \in Nat /\ books.max \in Nat /\ books.active \in BOOLEAN
  /\ books.redeemed \in [Members -> 0..MaxPayments]
  /\ books.referrer \in [Members -> Inviters \cup {NoOne}]
  /\ books.attr \in [Members -> Inviters \cup {NoOne}]
  /\ \A p \in DOMAIN pay :
       /\ p \in Sales /\ pay[p].by \in Members /\ pay[p].amount \in Amounts
       /\ pay[p].status \in {"pending", "awaiting_review", "succeeded", "failed", "refunded"}
       /\ pay[p].hash \in Hashes \cup {NoHash} /\ pay[p].to \in Members \cup {NoOne}
  /\ opened \in [Sales -> Nat]

\* What a payment with this discount costs.
Owed(r) ==
  CASE r.discount = "promo" -> Discounted(Currency(r.provider))
    [] r.discount = "referral" -> ReferralPrice
    [] r.discount = "none" -> Price

ByReferral(m) == {p \in DOMAIN pay : pay[p].by = m /\ pay[p].discount = "referral"}

\* The member's reservation stands for the newest checkout at the referral price,
\* is spent when that payment opens access and not before, and was renewed no
\* more often than once in its term.
SlotBacks(m) ==
  LET s == books.slot[m]
  IN /\ s.status = "none" <=> ByReferral(m) = {}
     /\ s.status # "none" =>
          /\ s.payment \in ByReferral(m) /\ \A p \in ByReferral(m) : p <= s.payment
          /\ s.status = "consumed" <=> opened[s.payment] > 0
          /\ Cardinality(ByReferral(m)) * SlotDays <= s.until

\* "Promo and referral discounts never stack" and every cheaper price is backed:
\* each payment costs what its one discount says, the use of the code points at
\* the member's only payment by it and the running total counts the uses, and
\* the reservation backs the referral price as above, through refused, failed,
\* raced, abandoned and late-paid checkouts (promo.py, referral.py).
DiscountBacked ==
  /\ TypeOK
  /\ \A p \in DOMAIN pay :
       /\ pay[p].amount = Owed(pay[p])
       /\ pay[p].gift => pay[p].discount = "none"
       /\ pay[p].discount = "promo" => books.redeemed[pay[p].by] = p
  /\ books.count = Cardinality({m \in Members : books.redeemed[m] # 0})
  /\ \A m \in Members :
       /\ SlotBacks(m)
       /\ books.redeemed[m] # 0 =>
            LET p == books.redeemed[m] IN p \in DOMAIN pay /\ pay[p].by = m /\ pay[p].discount = "promo"

\* "so the discount can settle at most once even across concurrent or abandoned
\* pending checkouts" (reserve_referral_discount).
ReferralSettlesOnce ==
  \A m \in Members : \A p, q \in ByReferral(m) : opened[p] > 0 /\ opened[q] > 0 => p = q

\* One transfer stands for one payment: while handlers of two payments ask the
\* explorer about the same hash, only one of them is settled by it
\* (verify_and_apply_usdt_payment).
TransferPaysOnce ==
  \A p, q \in DOMAIN pay : pay[p].hash # NoHash /\ pay[p].hash = pay[q].hash => p = q

\* Every sale is served once or not at all, however it was paid, moderated,
\* claimed or given back: Checkout implements SaleLife.
Stage ==
  [s \in Sales |->
     IF s \notin DOMAIN pay THEN "none"
     ELSE CASE pay[s].status \in {"pending", "awaiting_review"} -> "offered"
            [] pay[s].status = "failed" -> "void"
            [] pay[s].status = "succeeded" -> IF opened[s] = 0 THEN "paid" ELSE "served"
            [] pay[s].status = "refunded" -> "returned"]
Life == INSTANCE SaleLife WITH stage <- Stage, opened <- opened
ImplementsSaleLife == Life!Spec
=============================================================================
