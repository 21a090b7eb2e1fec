----------------------------- MODULE Discounts -----------------------------
(***************************************************************************)
(* What a checkout may cost and who invited whom: the promo code, the      *)
(* one-time referral discount and first-touch attribution, as operators on *)
(* the rows one transaction reads and writes (app/services/promo.py,       *)
(* app/services/referral.py).                                              *)
(***************************************************************************)
EXTENDS Integers, FiniteSets

CONSTANTS
  Members,      \* buyers
  Inviters,     \* users whose links and codes bring buyers in
  NoOne,
  Invited,      \* users.referrer_id of the rows older than attributions
  Code,         \* the promo code: [fixed, off, currency, owner, until]
  Price,        \* price_usd of the plan, in cents
  SlotDays      \* _RESERVATION_TTL

ASSUME DiscountsAssumption ==
  /\ NoOne \notin Members \cup Inviters
  /\ Invited \in [Members -> Inviters \cup {NoOne}]
  /\ Code.fixed \in BOOLEAN /\ Code.off \in Nat /\ Code.until \in Nat
  /\ Code.owner \in Inviters \cup {NoOne}
  /\ Price \in Nat \ {0} /\ SlotDays \in Nat \ {0}

NoSlot == [status |-> "none", payment |-> 0, until |-> 0]

\* The rows of promo_codes, promo_redemptions, referral_discount_reservations,
\* users and referral_attributions.  A released reservation is read by nobody.
FirstBooks(cap) ==
  [active |-> TRUE, max |-> cap, count |-> 0,
   redeemed |-> [m \in Members |-> 0],
   slot |-> [m \in Members |-> NoSlot],
   referrer |-> Invited,
   attr |-> [m \in Members |-> NoOne],
   doubtful |-> [m \in Members |-> FALSE]]

Least(a, b) == IF a < b THEN a ELSE b
\* ROUND_HALF_UP of a percentage of an amount in cents.
Percent(amount, p) == (amount * p + 50) \div 100

\* A fixed code takes nothing off a checkout in another currency.
Discounted(currency) ==
  IF Code.fixed
  THEN IF Code.currency = currency THEN Price - Least(Code.off, Price) ELSE Price
  ELSE Percent(Price, 100 - Least(Code.off, 100))

ReferralPrice == Percent(Price, 80)

\* The verdict of the read-only check, in its order.
CodeStands(b, m, today) ==
  /\ b.active
  /\ today <= Code.until
  /\ b.count < b.max
  /\ b.redeemed[m] = 0

\* What a member is told about a code and what a checkout asks of it differ:
\* a code that takes nothing off is skipped and not used up.
CodeHelps(b, m, today, currency) ==
  CodeStands(b, m, today) /\ Discounted(currency) < Price

\* First touch: an attribution never moves, another inviter makes it doubtful.
Kept(b, m, inviter) == [b EXCEPT !.doubtful[m] = @ \/ b.attr[m] # inviter]

\* A row older than attributions gets one; referee_id is unique.
Adopted(b, m, inviter, of) ==
  IF b.attr[m] # NoOne THEN {}
  ELSE {Kept([b EXCEPT !.attr[m] = of], m, inviter)}

\* link_referral by a handler that read the member's referrer_id and
\* attribution as seen: the books after it, or none when the unique key throws
\* and the transaction is lost.
Linked(b, m, inviter, seen) ==
  CASE seen.attr # NoOne -> {Kept(b, m, inviter)}
    [] seen.attr = NoOne /\ seen.referrer # NoOne -> Adopted(b, m, inviter, seen.referrer)
    [] seen.attr = NoOne /\ seen.referrer = NoOne ->
         IF b.referrer[m] = NoOne
         THEN {[b EXCEPT !.referrer[m] = inviter, !.attr[m] = inviter]}
         ELSE IF b.attr[m] # NoOne THEN {Kept(b, m, inviter)}
              ELSE Adopted(b, m, inviter, b.referrer[m])

\* The conditional UPDATE that reserves a use of the code found room.
RoomLeft(b) == b.count < b.max

\* The use is recorded, and an influencer's code attributes its buyer.
Redeemed(b, m, payment, seen) ==
  LET used == [b EXCEPT !.count = @ + 1, !.redeemed[m] = payment]
  IN CASE b.redeemed[m] # 0 -> {}
       [] b.redeemed[m] = 0 /\ Code.owner \in {NoOne, m} -> {used}
       [] b.redeemed[m] = 0 /\ Code.owner \notin {NoOne, m} ->
            Linked(used, m, Code.owner, seen)

\* Broken variant: a checkout that was not paid never holds the slot.
SlotUnpaid(b, m, today) == b.slot[m].status # "consumed"
\* The member's single slot: free, or held by an abandoned checkout too long.
SlotFree(b, m, today) ==
  \/ b.slot[m].status = "none"
  \/ b.slot[m].status = "active" /\ b.slot[m].until <= today

Reserved(b, m, payment, today) ==
  [b EXCEPT !.slot[m] = [status |-> "active", payment |-> payment,
                         until |-> today + SlotDays]]

\* A payment settles only the reservation that is still its own.
Consumed(b, m, payment) ==
  IF b.slot[m].status = "active" /\ b.slot[m].payment = payment
  THEN [b EXCEPT !.slot[m].status = "consumed"] ELSE b
=============================================================================
