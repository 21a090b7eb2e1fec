------------------------------ MODULE Checkout ------------------------------
(***************************************************************************)
(* Buying: the bot's dialogue, the four ways to pay, transfers checked on  *)
(* the chain, moderation, gifts and what a settled payment opens.          *)
(*                                                                         *)
(* A handler is one database transaction that talks to the outside before  *)
(* it commits, so what it read and what it writes are two steps.  Desks    *)
(* are the handlers at work.                                               *)
(***************************************************************************)
EXTENDS Discounts, Sequences

CONSTANTS
  Desks,        \* concurrent handlers
  Ways,         \* who buys how: <<member, provider, plan, code or gift>>
  Links,        \* <<member, inviter>>: the invitation links that are followed
  Hashes,       \* transfers on the chain
  Chain,        \* each transfer: [success, genuine, ours, amount]
  LavaCurrency, \* the currency of the Lava offer
  Cap, Caps,    \* max_redemptions at the start, and what an administrator sets
  GiftDays,     \* gift_activation_ttl_days
  MaxPayments,  \* bound: rows of payments
  MaxStarts,    \* bound: handlers started
  LastDay       \* bound: the last day

NoHash == "none"

ASSUME CheckoutAssumption ==
  /\ Ways \subseteq Members \X {"stripe", "lava", "usdt", "zelle"} \X {"plan", "code", "gift"}
  /\ Links \subseteq Members \X Inviters
  /\ NoHash \notin Hashes
  /\ Cap \in Nat /\ Caps \subseteq Nat
  /\ GiftDays \in Nat \ {0} /\ MaxPayments \in Nat /\ MaxStarts \in Nat /\ LastDay \in Nat

VARIABLES
  today,
  books,   \* Discounts
  pay,     \* payments, with the gifts row of a gift payment
  asked,   \* the payment whose transfer the bot asks the member for
  desk,    \* what each handler has read
  opened,  \* how often access was opened on each payment
  starts   \* handlers started

vars == <<today, books, pay, asked, desk, opened, starts>>

Sales == 1..MaxPayments
NoTask == [at |-> "idle"]

Currency(provider) == IF provider = "lava" THEN LavaCurrency ELSE "USD"
NewId == Len(pay) + 1
Start(t, task) ==
  /\ desk[t] = NoTask /\ starts < MaxStarts
  /\ desk' = [desk EXCEPT ![t] = task] /\ starts' = starts + 1
Done(t) == UNCHANGED starts /\ desk' = [desk EXCEPT ![t] = NoTask]
Leaves(m) == asked' = [asked EXCEPT ![m] = 0]
Seen(m) == [referrer |-> books.referrer[m], attr |-> books.attr[m]]

Init ==
  /\ today = 0
  /\ books = FirstBooks(Cap)
  /\ pay = <<>>
  /\ asked = [m \in Members |-> 0]
  /\ desk = [t \in Desks |-> NoTask]
  /\ opened = [p \in Sales |-> 0]
  /\ starts = 0

(***************************************************************************)
(* A checkout.                                                             *)
(***************************************************************************)
\* Only a first, monthly purchase of an invited member is discounted.
Eligible(m, gift, referrer) ==
  /\ ~gift /\ referrer # NoOne
  /\ ~\E p \in DOMAIN pay : pay[p].by = m /\ pay[p].status = "succeeded" /\ ~pay[p].gift

Reserving(m, provider, gift, referrer) ==
  [at |-> "reserve", m |-> m, provider |-> provider, gift |-> gift,
   eligible |-> Eligible(m, gift, referrer)]

\* discount_for_checkout: the promo code first, the referral discount else.
Pricing(m, provider, kind) ==
  IF kind = "code" /\ CodeHelps(books, m, today, Currency(provider))
  THEN [at |-> "redeem", m |-> m, provider |-> provider, gift |-> FALSE, seen |-> Seen(m)]
  ELSE Reserving(m, provider, kind = "gift", books.referrer[m])

\* A payment button, at the end of a dialogue about a plan, a plan and a code,
\* or a gift.  Lava's button only asks for an address.
ChooseMethod(t, m, provider, kind) ==
  /\ provider # "lava"
  /\ Start(t, Pricing(m, provider, kind))
  /\ UNCHANGED <<today, books, pay, asked, opened>>

\* The address for Lava's receipt starts the other checkout; Lava sells no gifts.
SubmitEmail(t, m, kind) ==
  /\ kind # "gift"
  /\ Start(t, Pricing(m, "lava", kind))
  /\ UNCHANGED <<today, books, pay, asked, opened>>

Row(d, amount, discount, open) ==
  [by |-> d.m, provider |-> d.provider, gift |-> d.gift,
   status |-> IF d.provider \in {"stripe", "lava"} THEN "pending" ELSE "awaiting_review",
   amount |-> amount, discount |-> discount, open |-> open,
   approved |-> FALSE, hash |-> NoHash, made |-> 0, to |-> NoOne]

Commit(d, b, amount, discount, open) ==
  books' = b /\ pay' = Append(pay, Row(d, amount, discount, open))

\* What comes back of a provider: Stripe's customer, coupon, price and session;
\* the Lava offer's catalogue, and the invoice with its total.
StripeSays == {"page", "price differs", "error"}
CatalogueSays == {"agrees", "differs", "error"}
InvoiceSays == {"page", "total differs", "error"}

\* The handler swallows the exception and the transaction commits: the member
\* has no page to pay on, the code and the slot are taken.
StripeOffers(d, b, amount, discount) ==
  /\ \E said \in StripeSays : Commit(d, b, amount, discount, said = "page")
  /\ UNCHANGED asked

\* Broken variant: the payment is dropped, the use of the code is not.
LavaOffersLeaky(d, b, amount, discount) ==
  /\ UNCHANGED asked
  /\ \/ discount = "none" /\ Commit(d, b, amount, discount, TRUE)
     \/ books' = b /\ UNCHANGED pay
\* The offer has a fixed price: a discount, a catalogue that differs or a bad
\* invoice rolls everything back.
LavaOffers(d, b, amount, discount) ==
  /\ UNCHANGED asked
  /\ \E catalogue \in CatalogueSays, invoice \in InvoiceSays :
       IF discount = "none" /\ catalogue = "agrees" /\ invoice = "page"
       THEN Commit(d, b, amount, discount, TRUE)
       ELSE UNCHANGED <<books, pay>>

ManualOffers(d, b, amount, discount) ==
  /\ Commit(d, b, amount, discount, TRUE)
  /\ asked' = [asked EXCEPT ![d.m] = IF d.provider = "usdt" THEN NewId ELSE 0]

Offers(t, b, amount, discount) ==
  /\ Done(t)
  /\ \/ desk[t].provider = "stripe" /\ StripeOffers(desk[t], b, amount, discount)
     \/ desk[t].provider = "lava" /\ LavaOffers(desk[t], b, amount, discount)
     \/ desk[t].provider \in {"usdt", "zelle"} /\ ManualOffers(desk[t], b, amount, discount)

\* The conditional UPDATE; no room left, and the referral path runs instead.
Redeem(t) ==
  /\ desk[t].at = "redeem" /\ Len(pay) < MaxPayments
  /\ LET d == desk[t]
         after == Redeemed(books, d.m, NewId, d.seen)
     IN \/ /\ ~RoomLeft(books)
           /\ desk' = [desk EXCEPT ![t] = Reserving(d.m, d.provider, d.gift, d.seen.referrer)]
           /\ UNCHANGED <<books, pay, asked, starts>>
        \/ /\ RoomLeft(books) /\ after = {}
           /\ Done(t) /\ UNCHANGED <<books, pay, asked>>
        \/ /\ RoomLeft(books)
           /\ \E b \in after : Offers(t, b, Discounted(Currency(d.provider)), "promo")
  /\ UNCHANGED <<today, opened>>

\* One live reservation per member (uq_referral_discount_active_user).  Where it
\* is taken, the member pays in full, or the flush fails before the savepoint
\* begins and the whole transaction is lost.
Reserve(t) ==
  /\ desk[t].at = "reserve" /\ Len(pay) < MaxPayments
  /\ LET d == desk[t]
         free == SlotFree(books, d.m, today)
     IN \/ /\ d.eligible /\ free
           /\ Offers(t, Reserved(books, d.m, NewId, today), ReferralPrice, "referral")
        \/ ~(d.eligible /\ free) /\ Offers(t, books, Price, "none")
        \/ d.eligible /\ ~free /\ Done(t) /\ UNCHANGED <<books, pay, asked>>
  /\ UNCHANGED <<today, opened>>

(***************************************************************************)
(* A payment settles.                                                      *)
(***************************************************************************)
Twin(p, hash) ==
  \E q \in DOMAIN pay \ {p} :
    hash # NoHash /\ pay[q].hash = hash /\ pay[q].status = "succeeded" /\ pay[q].approved

\* The one-time token of a paid gift, dated, for whoever claims it.
Wrapped(row) == [row EXCEPT !.made = IF row.gift THEN today ELSE 0]

\* fulfill_payment on the row as it is about to be written.
Fulfil(p, row) ==
  LET opens == ~row.gift /\ ~Twin(p, row.hash)
  IN /\ pay' = [pay EXCEPT ![p] = [Wrapped(row) EXCEPT !.status = "succeeded",
                                                        !.approved = TRUE]]
     /\ opened' = IF opens THEN [opened EXCEPT ![p] = @ + 1] ELSE opened
     /\ books' = IF opens THEN Consumed(books, row.by, p) ELSE books

\* The provider's event of a checkout that was opened.
ProviderPaid(p) ==
  /\ pay[p].status = "pending" /\ pay[p].open
  /\ Fulfil(p, pay[p])
  /\ UNCHANGED <<today, asked, desk, starts>>

\* FOR UPDATE, held while the explorer is asked.
Locked(p) == \E t \in Desks : desk[t].at = "explorer" /\ desk[t].p = p
\* Broken variant: only a settled payment holds its transfer.
ClaimedWhenPaid(p, h) ==
  \E q \in DOMAIN pay \ {p} : pay[q].hash = h /\ pay[q].status = "succeeded"
Claimed(p, h) == \E q \in DOMAIN pay \ {p} : pay[q].hash = h

\* The member sends the hash.
SubmitHash(t, m, h) ==
  /\ asked[m] # 0 /\ ~Locked(asked[m])
  /\ LET p == asked[m]
     IN \/ /\ pay[p].status # "awaiting_review" \/ Claimed(p, h)
           /\ Leaves(m) /\ UNCHANGED <<desk, starts>>
        \/ /\ pay[p].status = "awaiting_review" /\ ~Claimed(p, h)
           /\ Start(t, [at |-> "explorer", p |-> p, h |-> h]) /\ Leaves(m)
  /\ UNCHANGED <<today, books, pay, opened>>

\* An administrator enters it.
VerifyUsdt(t, p, h) ==
  /\ pay[p].provider = "usdt" /\ pay[p].status = "awaiting_review"
  /\ ~Locked(p) /\ ~Claimed(p, h)
  /\ Start(t, [at |-> "explorer", p |-> p, h |-> h])
  /\ UNCHANGED <<today, books, pay, asked, opened>>

\* verify_usdt_transaction: what the explorer says, in the order it is judged.
Verdict(tx, amount, found, deep) ==
  CASE ~found -> "review"
    [] found /\ ~tx.success -> "reject"
    [] found /\ tx.success /\ ~deep -> "review"
    [] found /\ tx.success /\ deep ->
         IF tx.genuine /\ tx.ours /\ tx.amount = amount THEN "valid" ELSE "reject"

\* The claim (uq_pay_tx_network_hash) comes before anything is opened.  A claim
\* lost in its savepoint fails the payment; lost in the flush before it, or where
\* there is none, it takes the whole transaction with it.
Judge(t, found, deep) ==
  /\ desk[t].at = "explorer" /\ Done(t)
  /\ LET p == desk[t].p
         h == desk[t].h
         v == Verdict(Chain[h], pay[p].amount, found, deep)
         row == [pay[p] EXCEPT !.hash = h]
     IN \/ v = "valid" /\ ~Claimed(p, h) /\ Fulfil(p, row)
        \/ /\ v = "valid" /\ Claimed(p, h)
           /\ pay' = [pay EXCEPT ![p].hash = NoHash, ![p].status = "failed"]
           /\ UNCHANGED <<books, opened>>
        \/ /\ v # "valid" /\ ~Claimed(p, h)
           /\ pay' = [pay EXCEPT ![p] = [row EXCEPT !.status =
                        IF v = "review" THEN "awaiting_review" ELSE "failed"]]
           /\ UNCHANGED <<books, opened>>
        \/ Claimed(p, h) /\ UNCHANGED <<pay, books, opened>>
  /\ UNCHANGED <<today, asked>>

Moderate(p) ==
  /\ pay[p].status = "awaiting_review" /\ ~Locked(p)
  /\ \/ Fulfil(p, pay[p])
     \/ pay' = [pay EXCEPT ![p].status = "failed"] /\ UNCHANGED <<books, opened>>
  /\ UNCHANGED <<today, asked, desk, starts>>

\* A full refund.
GiveBack(p) ==
  /\ pay[p].status = "succeeded"
  /\ pay' = [pay EXCEPT ![p].status = "refunded"]
  /\ UNCHANGED <<today, books, asked, desk, opened, starts>>

\* Broken variant: a gift that was given back can still be claimed.
ClaimAnyGift(m, p) ==
  /\ pay[p].gift /\ pay[p].approved /\ pay[p].to = NoOne
  /\ today < pay[p].made + GiftDays
  /\ pay' = [pay EXCEPT ![p].to = m]
  /\ opened' = [opened EXCEPT ![p] = @ + 1]
  /\ Leaves(m)
  /\ UNCHANGED <<today, books, desk, starts>>
\* /start gift_<token>: once, in time, and only what is still paid.
ClaimGift(m, p) ==
  /\ pay[p].gift /\ pay[p].approved /\ pay[p].to = NoOne
  /\ today < pay[p].made + GiftDays
  /\ pay[p].status = "succeeded"
  /\ pay' = [pay EXCEPT ![p].to = m]
  /\ opened' = [opened EXCEPT ![p] = @ + 1]
  /\ Leaves(m)
  /\ UNCHANGED <<today, books, desk, starts>>

(***************************************************************************)
(* Invitations, the promo code's administration, time.                     *)
(***************************************************************************)
\* /start ref_<code>
FollowLink(t, m, inviter) ==
  /\ inviter # m
  /\ Start(t, [at |-> "link", m |-> m, inviter |-> inviter, seen |-> Seen(m)])
  /\ Leaves(m)
  /\ UNCHANGED <<today, books, pay, opened>>

LinkInviter(t) ==
  /\ desk[t].at = "link" /\ Done(t)
  /\ LET after == Linked(books, desk[t].m, desk[t].inviter, desk[t].seen)
     IN IF after = {} THEN UNCHANGED books ELSE books' \in after
  /\ UNCHANGED <<today, pay, asked, opened>>

\* update_promocode looks at redeemed_count, unlocked, and writes later.
EditCode(t, max) ==
  /\ books.count <= max
  /\ Start(t, [at |-> "edit", max |-> max])
  /\ UNCHANGED <<today, books, pay, asked, opened>>

SaveCode(t) ==
  /\ desk[t].at = "edit" /\ Done(t)
  /\ books' = [books EXCEPT !.max = desk[t].max, !.active = TRUE]
  /\ UNCHANGED <<today, pay, asked, opened>>

DropCode ==
  /\ books' = [books EXCEPT !.active = FALSE]
  /\ UNCHANGED <<today, pay, asked, desk, opened, starts>>

NextDay ==
  /\ today < LastDay
  /\ today' = today + 1
  /\ UNCHANGED <<books, pay, asked, desk, opened, starts>>

Next ==
  \/ \E t \in Desks, m \in Members :
       \/ \E w \in Ways : w[1] = m /\ ChooseMethod(t, m, w[2], w[3])
       \/ \E w \in Ways : w[1] = m /\ w[2] = "lava" /\ SubmitEmail(t, m, w[3])
       \/ \E h \in Hashes : SubmitHash(t, m, h)
       \/ \E i \in Inviters : <<m, i>> \in Links /\ FollowLink(t, m, i)
  \/ \E t \in Desks : Redeem(t) \/ Reserve(t) \/ LinkInviter(t) \/ SaveCode(t)
  \/ \E t \in Desks, found, deep \in BOOLEAN : Judge(t, found, deep)
  \/ \E t \in Desks, max \in Caps : EditCode(t, max)
  \/ \E p \in DOMAIN pay :
       \/ ProviderPaid(p) \/ Moderate(p) \/ GiveBack(p)
       \/ \E m \in Members : ClaimGift(m, p)
       \/ \E t \in Desks, h \in Hashes : VerifyUsdt(t, p, h)
  \/ DropCode \/ NextDay

Spec == Init /\ [][Next]_vars
=============================================================================
