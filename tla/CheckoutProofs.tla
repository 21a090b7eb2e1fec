---------------------------- MODULE CheckoutProofs ----------------------------
(***************************************************************************)
(* In every instance of Checkout - any buyers, inviters, code, prices,     *)
(* transfers and number of handlers at work - every discount is backed, a  *)
(* transfer pays once, and each sale lives as SaleLife says.               *)
(***************************************************************************)
EXTENDS CheckoutProperties, FiniteSetTheorems, SequenceTheorems, TLAPS

Providers == {"stripe", "lava", "usdt", "zelle"}
Users == Inviters \cup {NoOne}
Slots == [status : {"none", "active", "consumed"}, payment : Nat, until : Nat]
Seens == [referrer : Users, attr : Users]

Books ==
  [active : BOOLEAN, max : Nat, count : Nat, redeemed : [Members -> 0..MaxPayments],
   slot : [Members -> Slots], referrer : [Members -> Users], attr : [Members -> Users],
   doubtful : [Members -> BOOLEAN]]

Payments ==
  [by : Members, provider : Providers, gift : BOOLEAN,
   status : {"pending", "awaiting_review", "succeeded", "failed", "refunded"},
   amount : Amounts, discount : {"none", "promo", "referral"}, open : BOOLEAN,
   approved : BOOLEAN, hash : Hashes \cup {NoHash}, made : Nat, to : Members \cup {NoOne}]

\* What a handler may have read.
ToRedeem == [at : {"redeem"}, m : Members, provider : Providers, gift : {FALSE}, seen : Seens]
ToReserve == [at : {"reserve"}, m : Members, provider : Providers, gift : BOOLEAN, eligible : BOOLEAN]
ToJudge == [at : {"explorer"}, p : Nat, h : Hashes]
ToLink == [at : {"link"}, m : Members, inviter : Inviters, seen : Seens]
ToSave == [at : {"edit"}, max : Nat]
Tasks == {NoTask} \cup ToRedeem \cup ToReserve \cup ToJudge \cup ToLink \cup ToSave

Typed ==
  /\ today \in 0..LastDay
  /\ books \in Books
  /\ pay \in Seq(Payments) /\ Len(pay) <= MaxPayments
  /\ asked \in [Members -> Nat] /\ \A m \in Members : asked[m] \in DOMAIN pay \cup {0}
  /\ desk \in [Desks -> Tasks]
  /\ opened \in [Sales -> Nat]

\* Between the question and the answer of the explorer nobody else settles the
\* payment; a discounted reservation is no gift.
Knows(d) ==
  /\ d.at = "explorer" => d.p \in DOMAIN pay /\ pay[d.p].status = "awaiting_review"
  /\ d.at = "reserve" => (d.eligible => ~d.gift)
DesksKnow ==
  /\ \A t \in Desks : Knows(desk[t])
  /\ \A t, u \in Desks :
       desk[t].at = "explorer" /\ desk[u].at = "explorer" /\ desk[t].p = desk[u].p => t = u

\* The rows that back a cheaper price.
Used(b) == {m \in Members : b.redeemed[m] # 0}
UsesCounted == IsFiniteSet(Used(books)) /\ books.count = Cardinality(Used(books))
UsesBacked ==
  \A m \in Members : books.redeemed[m] # 0 =>
    /\ books.redeemed[m] \in DOMAIN pay /\ pay[books.redeemed[m]].by = m
    /\ pay[books.redeemed[m]].discount = "promo"
SlotsBacked == \A m \in Members : IsFiniteSet(ByReferral(m)) /\ SlotBacks(m)
PromosRecorded ==
  \A p \in DOMAIN pay : pay[p].discount = "promo" => books.redeemed[pay[p].by] = p
Priced ==
  \A p \in DOMAIN pay :
    /\ pay[p].amount = Owed(pay[p])
    /\ pay[p].gift => pay[p].discount = "none"
Backed == UsesCounted /\ UsesBacked /\ SlotsBacked /\ PromosRecorded /\ Priced

\* Access has not been opened on what is unpaid, and not on a gift unclaimed.
Unserved(r) == r.status \in {"pending", "awaiting_review"} \/ (r.gift /\ r.to = NoOne)
OpensLater ==
  \A s \in Sales : (s \in DOMAIN pay => Unserved(pay[s])) => opened[s] = 0

CkInv == Typed /\ DesksKnow /\ Backed /\ TransferPaysOnce /\ OpensLater

(***************************************************************************)
(* The operators.                                                          *)
(***************************************************************************)
LEMMA TaskParts ==
  ASSUME NEW d \in Tasks
  PROVE  /\ d.at = "redeem" => d \in ToRedeem
         /\ d.at = "reserve" => d \in ToReserve
         /\ d.at = "explorer" => d \in ToJudge
         /\ d.at = "link" => d \in ToLink
         /\ d.at = "edit" => d \in ToSave
<1>1. \/ d = NoTask \/ d \in ToRedeem \/ d \in ToReserve
      \/ d \in ToJudge \/ d \in ToLink \/ d \in ToSave
  BY DEF Tasks
<1>2. CASE d = NoTask
  BY <1>2 DEF NoTask
<1>3. CASE d \in ToRedeem
  BY <1>3 DEF ToRedeem
<1>4. CASE d \in ToReserve
  BY <1>4 DEF ToReserve
<1>5. CASE d \in ToJudge
  BY <1>5 DEF ToJudge
<1>6. CASE d \in ToLink
  BY <1>6 DEF ToLink
<1>7. CASE d \in ToSave
  BY <1>7 DEF ToSave
<1> QED BY <1>1, <1>2, <1>3, <1>4, <1>5, <1>6, <1>7

\* Attribution touches neither the uses of the code nor the reservations.
SameUses(b, c) == c.count = b.count /\ c.redeemed = b.redeemed /\ c.slot = b.slot

LEMMA KeptBooks ==
  ASSUME NEW b \in Books, NEW m \in Members, NEW inviter
  PROVE  Kept(b, m, inviter) \in Books /\ SameUses(b, Kept(b, m, inviter))
<1>1. (b.doubtful[m] \/ b.attr[m] # inviter) \in BOOLEAN
  BY DEF Books
<1> QED BY <1>1 DEF Kept, Books, SameUses

LEMMA AdoptedBooks ==
  ASSUME NEW b \in Books, NEW m \in Members, NEW inviter, NEW of \in Users,
         NEW c \in Adopted(b, m, inviter, of)
  PROVE  c \in Books /\ SameUses(b, c)
<1> DEFINE d == [b EXCEPT !.attr[m] = of]
<1>1. d \in Books /\ SameUses(b, d)
  BY DEF Books, SameUses
<1>2. c = Kept(d, m, inviter)
  BY DEF Adopted
<1> HIDE DEF d
<1> QED BY <1>1, <1>2, KeptBooks DEF SameUses

LEMMA LinkedBooks ==
  ASSUME NEW b \in Books, NEW m \in Members, NEW inviter \in Inviters, NEW seen \in Seens,
         NEW c \in Linked(b, m, inviter, seen)
  PROVE  c \in Books /\ SameUses(b, c)
<1>1. b.referrer[m] \in Users /\ seen.referrer \in Users
  BY DEF Books, Seens
<1>2. CASE seen.attr # NoOne
  <2>1. c = Kept(b, m, inviter)
    BY <1>2 DEF Linked
  <2> QED BY <2>1, KeptBooks
<1>3. CASE seen.attr = NoOne /\ seen.referrer # NoOne
  <2>1. c \in Adopted(b, m, inviter, seen.referrer)
    BY <1>3 DEF Linked
  <2> QED BY <1>1, <2>1, AdoptedBooks
<1>4. CASE seen.attr = NoOne /\ seen.referrer = NoOne
  <2>1. \/ c = [b EXCEPT !.referrer[m] = inviter, !.attr[m] = inviter]
        \/ c = Kept(b, m, inviter)
        \/ c \in Adopted(b, m, inviter, b.referrer[m])
    BY <1>4 DEF Linked
  <2>2. CASE c = [b EXCEPT !.referrer[m] = inviter, !.attr[m] = inviter]
    <3> DEFINE d == [b EXCEPT !.referrer[m] = inviter]
    <3>1. d \in Books /\ SameUses(b, d)
      BY DEF Books, Users, SameUses
    <3>2. c = [d EXCEPT !.attr[m] = inviter]
      BY <2>2 DEF Books
    <3> HIDE DEF d
    <3> QED BY <3>1, <3>2 DEF Books, Users, SameUses
  <2> QED BY <1>1, <2>1, <2>2, KeptBooks, AdoptedBooks
<1> QED BY <1>2, <1>3, <1>4

\* A use of the code: counted once, and recorded at the member who had none.
LEMMA RedeemedBooks ==
  ASSUME NEW b \in Books, NEW m \in Members, NEW p \in Sales, NEW seen \in Seens,
         NEW c \in Redeemed(b, m, p, seen)
  PROVE  /\ c \in Books /\ b.redeemed[m] = 0
         /\ c.count = b.count + 1 /\ c.redeemed = [b.redeemed EXCEPT ![m] = p] /\ c.slot = b.slot
<1> DEFINE used == [b EXCEPT !.count = @ + 1, !.redeemed[m] = p]
<1>1. b.redeemed[m] = 0 /\ (c = used \/ c \in Linked(used, m, Code.owner, seen))
  BY DEF Redeemed
<1>2. c = used \/ Code.owner \in Inviters
  BY DiscountsAssumption DEF Redeemed
<1>3. /\ used \in Books
      /\ used.count = b.count + 1 /\ used.redeemed = [b.redeemed EXCEPT ![m] = p] /\ used.slot = b.slot
  <2> DEFINE counted == [b EXCEPT !.count = b.count + 1]
  <2>1. counted \in Books /\ counted.count = b.count + 1
        /\ counted.redeemed = b.redeemed /\ counted.slot = b.slot
    BY DEF Books
  <2>2. used = [counted EXCEPT !.redeemed[m] = p]
    BY DEF Books
  <2>3. p \in 0..MaxPayments
    BY CheckoutAssumption DEF Sales
  <2> HIDE DEF counted, used
  <2> QED BY <2>1, <2>2, <2>3 DEF Books
<1> HIDE DEF used
<1> QED BY <1>1, <1>2, <1>3, LinkedBooks DEF SameUses

LEMMA ReservedBooks ==
  ASSUME NEW b \in Books, NEW m \in Members, NEW p \in Sales, NEW day \in Nat
  PROVE  /\ Reserved(b, m, p, day) \in Books
         /\ Reserved(b, m, p, day).count = b.count /\ Reserved(b, m, p, day).redeemed = b.redeemed
         /\ Reserved(b, m, p, day).slot[m] = [status |-> "active", payment |-> p, until |-> day + SlotDays]
         /\ \A n \in Members \ {m} : Reserved(b, m, p, day).slot[n] = b.slot[n]
<1> DEFINE s == [status |-> "active", payment |-> p, until |-> day + SlotDays]
<1>1. s \in Slots
  BY DiscountsAssumption DEF Slots, Sales
<1>2. Reserved(b, m, p, day) = [b EXCEPT !.slot[m] = s]
  BY DEF Reserved
<1> HIDE DEF s
<1>3. /\ Reserved(b, m, p, day) \in Books
      /\ Reserved(b, m, p, day).count = b.count /\ Reserved(b, m, p, day).redeemed = b.redeemed
      /\ Reserved(b, m, p, day).slot[m] = s
      /\ \A n \in Members \ {m} : Reserved(b, m, p, day).slot[n] = b.slot[n]
  BY <1>1, <1>2 DEF Books
<1> QED BY <1>3 DEF s

\* A settled payment takes its own reservation with it and no other.
LEMMA ConsumedBooks ==
  ASSUME NEW b \in Books, NEW m \in Members, NEW p
  PROVE  /\ Consumed(b, m, p) \in Books
         /\ Consumed(b, m, p).count = b.count /\ Consumed(b, m, p).redeemed = b.redeemed
         /\ \A n \in Members :
              /\ Consumed(b, m, p).slot[n].payment = b.slot[n].payment
              /\ Consumed(b, m, p).slot[n].until = b.slot[n].until
              /\ Consumed(b, m, p).slot[n].status =
                   IF n = m /\ b.slot[n].status = "active" /\ b.slot[n].payment = p
                   THEN "consumed" ELSE b.slot[n].status
<1>1. CASE ~(b.slot[m].status = "active" /\ b.slot[m].payment = p)
  BY <1>1 DEF Consumed
<1>2. CASE b.slot[m].status = "active" /\ b.slot[m].payment = p
  <2> DEFINE s == [b.slot[m] EXCEPT !.status = "consumed"]
  <2>1. b.slot[m] \in Slots
    BY DEF Books
  <2>2. s \in Slots /\ s.payment = b.slot[m].payment /\ s.until = b.slot[m].until /\ s.status = "consumed"
    BY <2>1 DEF Slots
  <2>3. Consumed(b, m, p) = [b EXCEPT !.slot[m] = s]
    BY <1>2 DEF Consumed
  <2> HIDE DEF s
  <2>4. /\ Consumed(b, m, p) \in Books
        /\ Consumed(b, m, p).count = b.count /\ Consumed(b, m, p).redeemed = b.redeemed
        /\ Consumed(b, m, p).slot[m] = s
        /\ \A n \in Members \ {m} : Consumed(b, m, p).slot[n] = b.slot[n]
    BY <2>2, <2>3 DEF Books
  <2> QED BY <1>2, <2>2, <2>4
<1> QED BY <1>1, <1>2

\* A new row of payments, and a row that is written over.
LEMMA Appended ==
  ASSUME NEW S, NEW q \in Seq(S), NEW r \in S
  PROVE  /\ Append(q, r) \in Seq(S) /\ Len(Append(q, r)) = Len(q) + 1
         /\ DOMAIN Append(q, r) = DOMAIN q \cup {Len(q) + 1} /\ Len(q) + 1 \notin DOMAIN q
         /\ Append(q, r)[Len(q) + 1] = r
         /\ \A p \in DOMAIN q : Append(q, r)[p] = q[p]
BY LenProperties

LEMMA Rewritten ==
  ASSUME NEW S, NEW q \in Seq(S), NEW r \in S, NEW p \in DOMAIN q
  PROVE  /\ [q EXCEPT ![p] = r] \in Seq(S) /\ Len([q EXCEPT ![p] = r]) = Len(q)
         /\ DOMAIN [q EXCEPT ![p] = r] = DOMAIN q
         /\ [q EXCEPT ![p] = r][p] = r
         /\ \A k \in DOMAIN q \ {p} : [q EXCEPT ![p] = r][k] = q[k]
BY LenProperties, ExceptSeq

LEMMA PayParts ==
  ASSUME Typed
  PROVE  /\ DOMAIN pay = 1..Len(pay) /\ Len(pay) \in Nat /\ DOMAIN pay \subseteq Sales
         /\ \A p \in DOMAIN pay : pay[p] \in Payments
<1>1. DOMAIN pay = 1..Len(pay) /\ Len(pay) \in Nat
  BY LenProperties DEF Typed
<1>2. \A p \in DOMAIN pay : pay[p] \in Payments
  BY <1>1, ElementOfSeq DEF Typed
<1>3. DOMAIN pay \subseteq Sales
  BY <1>1, CheckoutAssumption DEF Typed, Sales
<1> QED BY <1>1, <1>2, <1>3

LEMMA NotRead == NoTask \in Tasks /\ Knows(NoTask) /\ NoTask.at # "explorer"
BY DEF NoTask, Tasks, Knows

LEMMA CheckoutStart == Init => CkInv
<1> SUFFICES ASSUME Init PROVE CkInv
  OBVIOUS
<1>1. /\ books.count = 0 /\ books.redeemed = [m \in Members |-> 0]
      /\ books.slot = [m \in Members |-> NoSlot] /\ books \in Books
  BY DiscountsAssumption, CheckoutAssumption
     DEF Init, FirstBooks, Books, Slots, NoSlot, Users
<1>2. pay \in Seq(Payments) /\ Len(pay) = 0 /\ DOMAIN pay = {}
  BY EmptySeq, LenProperties DEF Init
<1>3. Typed
  BY <1>1, <1>2, CheckoutAssumption, NotRead DEF Init, Typed, Sales
<1>4. DesksKnow
  BY NotRead DEF Init, DesksKnow
<1>5. Backed
  <2>1. Used(books) = {}
    BY <1>1 DEF Used
  <2>2. UsesCounted
    BY <1>1, <2>1, FS_EmptySet DEF UsesCounted
  <2>3. UsesBacked /\ PromosRecorded /\ Priced
    BY <1>1, <1>2 DEF UsesBacked, PromosRecorded, Priced
  <2>4. ASSUME NEW m \in Members PROVE IsFiniteSet(ByReferral(m)) /\ SlotBacks(m)
    <3>1. ByReferral(m) = {} /\ books.slot[m].status = "none"
      BY <1>1, <1>2 DEF ByReferral, NoSlot
    <3> QED BY <3>1, FS_EmptySet DEF SlotBacks
  <2> QED BY <2>2, <2>3, <2>4 DEF Backed, SlotsBacked
<1>6. TransferPaysOnce /\ OpensLater
  BY <1>2 DEF TransferPaysOnce, OpensLater, Init
<1> QED BY <1>3, <1>4, <1>5, <1>6 DEF CkInv

(***************************************************************************)
(* The steps.                                                              *)
(***************************************************************************)
\* A handler reads and goes to work.
LEMMA StartKeeps ==
  ASSUME CkInv, NEW t \in Desks, NEW task \in Tasks,
         desk' = [desk EXCEPT ![t] = task], Knows(task),
         task.at = "explorer" => ~Locked(task.p),
         asked' \in [Members -> Nat], \A m \in Members : asked'[m] \in {0, asked[m]},
         UNCHANGED <<today, books, pay, opened>>
  PROVE  CkInv'
<1> USE DEF CkInv
<1>1. Typed'
  BY DEF Typed
<1>2. desk'[t] = task /\ \A u \in Desks \ {t} : desk'[u] = desk[u]
  BY DEF Typed
<1>3. DesksKnow'
  BY <1>2 DEF DesksKnow, Knows, Locked
<1>4. Backed' /\ TransferPaysOnce' /\ OpensLater'
  BY DEF Backed, UsesCounted, Used, UsesBacked, SlotsBacked, SlotBacks, ByReferral, PromosRecorded,
         Priced, TransferPaysOnce, OpensLater
<1> QED BY <1>1, <1>3, <1>4

\* The row of one payment is written, with the reservation it may settle.
LEMMA RowKeeps ==
  ASSUME CkInv, NEW p \in DOMAIN pay, NEW r \in Payments,
         pay' = [pay EXCEPT ![p] = r],
         r.by = pay[p].by, r.discount = pay[p].discount,
         r.gift = pay[p].gift, r.amount = pay[p].amount, r.provider = pay[p].provider,
         r.hash \in {NoHash, pay[p].hash} \/ ~Claimed(p, r.hash),
         \/ opened'[p] = opened[p] /\ books' = books
         \/ opened'[p] > 0 /\ r.gift /\ books' = books
         \/ opened'[p] > 0 /\ books' = Consumed(books, pay[p].by, p),
         opened' \in [Sales -> Nat], \A s \in Sales \ {p} : opened'[s] = opened[s],
         Unserved(r) => opened'[p] = 0,
         today' = today,
         asked' \in [Members -> Nat], \A m \in Members : asked'[m] \in {0, asked[m]},
         desk' \in [Desks -> Tasks],
         \A t \in Desks :
           desk'[t] = NoTask \/ (desk'[t] = desk[t]
             /\ (desk[t].at = "explorer" /\ desk[t].p = p => r.status = "awaiting_review"))
  PROVE  CkInv'
<1> USE DEF CkInv
<1>1. /\ pay' \in Seq(Payments) /\ Len(pay') = Len(pay) /\ DOMAIN pay' = DOMAIN pay
      /\ pay'[p] = r /\ \A k \in DOMAIN pay \ {p} : pay'[k] = pay[k]
  BY Rewritten DEF Typed
<1>2. \A k \in DOMAIN pay : /\ pay'[k].by = pay[k].by /\ pay'[k].discount = pay[k].discount
                            /\ pay'[k].gift = pay[k].gift /\ pay'[k].amount = pay[k].amount
                            /\ pay'[k].provider = pay[k].provider
  <2> SUFFICES ASSUME NEW k \in DOMAIN pay
               PROVE  /\ pay'[k].by = pay[k].by /\ pay'[k].discount = pay[k].discount
                      /\ pay'[k].gift = pay[k].gift /\ pay'[k].amount = pay[k].amount
                      /\ pay'[k].provider = pay[k].provider
    OBVIOUS
  <2>1. CASE k = p
    BY <1>1, <2>1
  <2>2. CASE k # p
    BY <1>1, <2>2
  <2> QED BY <2>1, <2>2
<1>3. /\ books' \in Books /\ books'.count = books.count /\ books'.redeemed = books.redeemed
      /\ \A n \in Members :
           /\ books'.slot[n].payment = books.slot[n].payment
           /\ books'.slot[n].until = books.slot[n].until
           /\ books'.slot[n].status = books.slot[n].status
                \/ (n = pay[p].by /\ books.slot[n].status = "active" /\ books.slot[n].payment = p
                     /\ books'.slot[n].status = "consumed")
  <2>1. books \in Books /\ pay[p].by \in Members
    BY PayParts DEF Typed, Payments
  <2>2. CASE books' = books
    BY <2>1, <2>2
  <2>3. CASE books' = Consumed(books, pay[p].by, p)
    BY <2>1, <2>3, ConsumedBooks
  <2> QED BY <2>2, <2>3
<1>4. Typed'
  BY <1>1, <1>3 DEF Typed
<1>5. DesksKnow'
  <2>1. ASSUME NEW t \in Desks PROVE Knows(desk[t])'
    BY <1>1, NotRead DEF DesksKnow, Knows, NoTask
  <2>2. ASSUME NEW t \in Desks, NEW u \in Desks, desk'[t].at = "explorer", desk'[u].at = "explorer",
               desk'[t].p = desk'[u].p
        PROVE  t = u
    BY <2>2, NotRead DEF DesksKnow
  <2> QED BY <2>1, <2>2 DEF DesksKnow
<1>6. UsesCounted'
  BY <1>3 DEF Backed, UsesCounted, Used
<1>7. UsesBacked' /\ PromosRecorded'
  BY <1>1, <1>2, <1>3 DEF Backed, UsesBacked, PromosRecorded
<1>8. SlotsBacked'
  <2> SUFFICES ASSUME NEW m \in Members PROVE IsFiniteSet(ByReferral(m))' /\ SlotBacks(m)'
    BY DEF SlotsBacked
  <2>1. ByReferral(m)' = ByReferral(m)
    BY <1>1, <1>2 DEF ByReferral
  <2>2. IsFiniteSet(ByReferral(m)) /\ SlotBacks(m)
    BY DEF Backed, SlotsBacked
  <2> DEFINE s == books.slot[m]
             z == books'.slot[m]
  <2>3. z.payment = s.payment /\ z.until = s.until /\ (z.status = "none" <=> s.status = "none")
    BY <1>3
  <2>4. ASSUME s.status # "none" PROVE z.status = "consumed" <=> opened'[s.payment] > 0
    <3>1. /\ s.payment \in DOMAIN pay /\ pay[s.payment].by = m /\ pay[s.payment].discount = "referral"
          /\ s.status = "consumed" <=> opened[s.payment] > 0
      BY <2>2, <2>4 DEF SlotBacks, ByReferral
    <3>2. s.payment \in Sales /\ ~pay[s.payment].gift /\ s.status \in {"active", "consumed"}
      <4>1. books.slot[m] \in Slots
        BY DEF Typed, Books
      <4> QED BY <2>4, <3>1, <4>1, PayParts DEF Backed, Priced, Slots
    <3>3. CASE s.payment # p
      BY <1>3, <3>1, <3>2, <3>3
    <3>4. CASE s.payment = p /\ opened'[p] = opened[p] /\ books' = books
      BY <3>1, <3>4
    <3>5. CASE s.payment = p /\ opened'[p] > 0 /\ books' = Consumed(books, pay[p].by, p)
      <4>1. z.status = IF s.status = "active" THEN "consumed" ELSE s.status
        BY <3>1, <3>5, ConsumedBooks DEF Typed
      <4> QED BY <3>1, <3>2, <3>5, <4>1
    <3>6. ~(s.payment = p /\ r.gift)
      BY <3>2
    <3> QED BY <3>3, <3>4, <3>5, <3>6
  <2> QED BY <2>1, <2>2, <2>3, <2>4 DEF SlotBacks
<1>9. Priced'
  <2> SUFFICES ASSUME NEW k \in DOMAIN pay
               PROVE  pay'[k].amount = Owed(pay'[k]) /\ (pay'[k].gift => pay'[k].discount = "none")
    BY <1>1 DEF Priced
  <2>1. pay[k].amount = Owed(pay[k]) /\ (pay[k].gift => pay[k].discount = "none")
    BY DEF Backed, Priced
  <2>2. Owed(pay'[k]) = Owed(pay[k])
    BY <1>2 DEF Owed
  <2> QED BY <1>2, <2>1, <2>2
<1>10. TransferPaysOnce'
  BY <1>1 DEF TransferPaysOnce, Claimed
<1>11. OpensLater'
  <2> SUFFICES ASSUME NEW s \in Sales, s \in DOMAIN pay => Unserved(pay'[s]) PROVE opened'[s] = 0
    BY <1>1 DEF OpensLater, Unserved
  <2>1. CASE s = p
    BY <1>1, <2>1
  <2>2. CASE s # p
    BY <1>1, <2>2 DEF OpensLater
  <2> QED BY <2>1, <2>2
<1> QED BY <1>4, <1>5, <1>6, <1>7, <1>8, <1>9, <1>10, <1>11 DEF Backed

\* A checkout goes through: the new row, and what backs its price.
LEMMA AppendKeeps ==
  ASSUME CkInv, NEW t \in Desks, NEW r \in Payments, Len(pay) < MaxPayments,
         pay' = Append(pay, r), r.hash = NoHash, r.status \in {"pending", "awaiting_review"},
         r.amount = Owed(r), r.gift => r.discount = "none",
         \/ r.discount = "none" /\ books' = books
         \/ /\ r.discount = "referral" /\ books' = Reserved(books, r.by, NewId, today)
            /\ SlotFree(books, r.by, today)
         \/ r.discount = "promo" /\ \E seen \in Seens : books' \in Redeemed(books, r.by, NewId, seen),
         UNCHANGED <<today, opened>>, desk' = [desk EXCEPT ![t] = NoTask],
         asked' \in [Members -> Nat], \A m \in Members : asked'[m] \in {0, asked[m], NewId}
  PROVE  CkInv'
<1> USE DEF CkInv
<1> DEFINE n == NewId
<1>1. /\ pay' \in Seq(Payments) /\ Len(pay') = Len(pay) + 1 /\ DOMAIN pay' = DOMAIN pay \cup {n}
      /\ n \notin DOMAIN pay /\ n \in Sales /\ n # 0
      /\ pay'[n] = r /\ \A p \in DOMAIN pay : pay'[p] = pay[p]
  BY Appended, PayParts, CheckoutAssumption DEF Typed, NewId, Sales
<1>2. books \in Books /\ r.by \in Members /\ today \in Nat
  BY CheckoutAssumption DEF Typed, Payments
<1> HIDE DEF n
<1>3. books' \in Books /\ Backed'
  <2>1. Priced'
    BY <1>1 DEF Backed, Priced, Owed
  <2>5. ASSUME NEW m \in Members, m # r.by \/ r.discount # "referral", books'.slot[m] = books.slot[m]
        PROVE  IsFiniteSet(ByReferral(m))' /\ SlotBacks(m)'
    <3>1. ByReferral(m)' = ByReferral(m)
      BY <1>1, <2>5 DEF ByReferral
    <3> QED BY <2>5, <3>1 DEF Backed, SlotsBacked, SlotBacks
  <2>2. CASE r.discount = "none" /\ books' = books
    <3>1. UsesCounted'
      BY <2>2 DEF Backed, UsesCounted, Used
    <3>2. UsesBacked' /\ SlotsBacked' /\ PromosRecorded'
      BY <1>1, <2>2, <2>5 DEF Backed, UsesBacked, SlotsBacked, PromosRecorded
    <3> QED BY <1>2, <2>1, <2>2, <3>1, <3>2 DEF Backed
  <2>3. CASE r.discount = "referral" /\ books' = Reserved(books, r.by, NewId, today)
    <3>1. /\ books' \in Books /\ books'.count = books.count /\ books'.redeemed = books.redeemed
          /\ books'.slot[r.by] = [status |-> "active", payment |-> n, until |-> today + SlotDays]
          /\ \A m \in Members \ {r.by} : books'.slot[m] = books.slot[m]
      <4>1. books' = Reserved(books, r.by, n, today)
        BY <2>3 DEF n
      <4>2. n \in Sales
        BY <1>1
      <4>3. Reserved(books, r.by, n, today).slot[r.by] =
              [status |-> "active", payment |-> n, until |-> today + SlotDays]
        BY <1>2, <4>2, ReservedBooks
      <4>4. books' \in Books
        BY <1>2, <4>1, <4>2, ReservedBooks
      <4>5. books'.count = books.count /\ books'.redeemed = books.redeemed
        BY <4>1 DEF Reserved, Typed, Books
      <4>6. \A m \in Members \ {r.by} : books'.slot[m] = books.slot[m]
        BY <4>1 DEF Reserved, Typed, Books
      <4> QED BY <4>1, <4>3, <4>4, <4>5, <4>6
    <3>2. UsesCounted'
      BY <3>1 DEF Backed, UsesCounted, Used
    <3>3. UsesBacked' /\ PromosRecorded'
      BY <1>1, <2>3, <3>1 DEF Backed, UsesBacked, PromosRecorded
    <3>4. SlotsBacked'
      <4> DEFINE m == r.by
                 s == books.slot[m]
                 z == books'.slot[m]
                 mine == ByReferral(m)
      <4>1. ByReferral(m)' = mine \cup {n} /\ n \notin mine /\ \A p \in mine : p <= n
        <5>1. \A p \in DOMAIN pay : p <= n
          BY PayParts DEF n, NewId
        <5> QED BY <1>1, <2>3, <5>1 DEF ByReferral
      <4>2. z.status = "active" /\ z.payment = n /\ z.until = today + SlotDays
        BY <3>1
      <4>3. opened'[n] = 0
        BY <1>1 DEF OpensLater
      <4>4. IsFiniteSet(mine) /\ SlotBacks(m)
        BY <1>2 DEF Backed, SlotsBacked
      <4>5. /\ IsFiniteSet(mine \cup {n})
            /\ Cardinality(mine \cup {n}) = Cardinality(mine) + 1 /\ Cardinality(mine) \in Nat
        BY <4>1, <4>4, FS_AddElement, FS_CardinalityType
      <4>6. Cardinality(mine) * SlotDays <= today
        <5>1. CASE s.status = "none"
          <6>1. Cardinality(mine) = 0
            BY <4>4, <5>1, FS_EmptySet DEF SlotBacks
          <6> QED BY <1>2, <6>1, DiscountsAssumption
        <5>2. CASE s.status = "active" /\ s.until <= today
          <6>1. Cardinality(mine) * SlotDays <= s.until
            BY <4>4, <5>2 DEF SlotBacks
          <6>2. s.until \in Nat
            BY <1>2 DEF Books, Slots
          <6>3. Cardinality(mine) * SlotDays \in Nat
            BY <4>5, DiscountsAssumption
          <6> QED BY <1>2, <5>2, <6>1, <6>2, <6>3
        <5> QED BY <2>3, <5>1, <5>2 DEF SlotFree
      <4>7. (Cardinality(mine) + 1) * SlotDays <= today + SlotDays
        <5>1. \A k, d \in Nat : (k + 1) * d = k * d + d /\ k * d \in Nat
          OBVIOUS
        <5>2. /\ (Cardinality(mine) + 1) * SlotDays = Cardinality(mine) * SlotDays + SlotDays
              /\ Cardinality(mine) * SlotDays \in Nat
          BY <4>5, <5>1, DiscountsAssumption
        <5> QED BY <1>2, <4>6, <5>2, DiscountsAssumption
      <4>8. IsFiniteSet(ByReferral(m))' /\ SlotBacks(m)'
        <5>1. Cardinality(ByReferral(m)') * SlotDays <= z.until
          BY <4>1, <4>2, <4>5, <4>7
        <5>2. \A p \in ByReferral(m)' : p <= n
          BY <1>1, <4>1 DEF Sales
        <5>3. n \in ByReferral(m)'
          BY <4>1
        <5> HIDE DEF mine
        <5>4. IsFiniteSet(ByReferral(m)')
          BY <4>1, <4>5
        <5> QED BY <4>2, <4>3, <5>1, <5>2, <5>3, <5>4 DEF SlotBacks
      <4>9. ASSUME NEW k \in Members, k # m PROVE IsFiniteSet(ByReferral(k))' /\ SlotBacks(k)'
        BY <2>5, <3>1, <4>9
      <4> QED BY <4>8, <4>9 DEF SlotsBacked
    <3> QED BY <2>1, <3>1, <3>2, <3>3, <3>4 DEF Backed
  <2>4. CASE r.discount = "promo" /\ \E seen \in Seens : books' \in Redeemed(books, r.by, NewId, seen)
    <3>1. /\ books' \in Books /\ books.redeemed[r.by] = 0 /\ books'.count = books.count + 1
          /\ books'.redeemed = [books.redeemed EXCEPT ![r.by] = n] /\ books'.slot = books.slot
      <4>1. PICK seen \in Seens : books' \in Redeemed(books, r.by, n, seen)
        BY <2>4 DEF n
      <4>2. n \in Sales
        BY <1>1
      <4> QED BY <1>2, <4>1, <4>2, RedeemedBooks
    <3>2. /\ books'.redeemed[r.by] = n
          /\ \A m \in Members \ {r.by} : books'.redeemed[m] = books.redeemed[m]
      BY <1>2, <3>1 DEF Books
    <3>3. UsesCounted'
      <4>1. Used(books') = Used(books) \cup {r.by} /\ r.by \notin Used(books)
        BY <1>1, <1>2, <3>1, <3>2 DEF Used
      <4>2. /\ IsFiniteSet(Used(books) \cup {r.by})
            /\ Cardinality(Used(books) \cup {r.by}) = Cardinality(Used(books)) + 1
        BY <4>1, FS_AddElement DEF Backed, UsesCounted
      <4> QED BY <3>1, <4>1, <4>2 DEF Backed, UsesCounted
    <3>4. UsesBacked' /\ SlotsBacked' /\ PromosRecorded'
      <4>1. UsesBacked'
        BY <1>1, <2>4, <3>2 DEF Backed, UsesBacked
      <4>2. SlotsBacked'
        BY <2>4, <2>5, <3>1 DEF SlotsBacked
      <4>3. ASSUME NEW p \in DOMAIN pay', pay'[p].discount = "promo"
            PROVE  books'.redeemed[pay'[p].by] = p
        <5>1. CASE p = n
          BY <1>1, <3>2, <5>1
        <5>2. CASE p # n
          <6>1. p \in DOMAIN pay /\ pay'[p] = pay[p] /\ pay[p].by \in Members /\ p # 0
            BY <1>1, <5>2, PayParts DEF Payments, Sales
          <6>2. books.redeemed[pay[p].by] = p
            BY <4>3, <6>1 DEF Backed, PromosRecorded
          <6> QED BY <3>1, <3>2, <6>1, <6>2
        <5> QED BY <5>1, <5>2
      <4> QED BY <4>1, <4>2, <4>3 DEF PromosRecorded
    <3> QED BY <2>1, <3>1, <3>3, <3>4 DEF Backed
  <2> QED BY <2>2, <2>3, <2>4
<1>4. Typed'
  <2>1. \A m \in Members : asked'[m] \in DOMAIN pay' \cup {0}
    BY <1>1 DEF Typed, n
  <2>2. Len(pay') <= MaxPayments
    BY <1>1, PayParts, CheckoutAssumption
  <2>3. desk' \in [Desks -> Tasks]
    BY NotRead DEF Typed
  <2> QED BY <1>1, <1>3, <2>1, <2>2, <2>3 DEF Typed
<1>5. DesksKnow'
  <2>1. \A u \in Desks : desk'[u] \in {NoTask, desk[u]}
    BY DEF Typed
  <2> QED BY <1>1, <2>1, NotRead DEF DesksKnow, Knows, NoTask
<1>6. TransferPaysOnce'
  BY <1>1 DEF TransferPaysOnce
<1>7. OpensLater'
  BY <1>1 DEF OpensLater, Unserved
<1> QED BY <1>3, <1>4, <1>5, <1>6, <1>7

(***************************************************************************)
(* The handlers.                                                           *)
(***************************************************************************)
LEMMA AskedStays ==
  ASSUME Typed, NEW m \in Members, UNCHANGED asked \/ Leaves(m)
  PROVE  asked' \in [Members -> Nat] /\ \A n \in Members : asked'[n] \in {0, asked[n]}
BY DEF Typed, Leaves

LEMMA SeenTyped == ASSUME Typed, NEW m \in Members PROVE Seen(m) \in Seens
BY DEF Typed, Books, Seen, Seens

LEMMA ReservingTask ==
  ASSUME NEW m \in Members, NEW provider \in Providers, NEW gift \in BOOLEAN, NEW referrer
  PROVE  /\ Reserving(m, provider, gift, referrer) \in Tasks
         /\ Knows(Reserving(m, provider, gift, referrer))
         /\ Reserving(m, provider, gift, referrer).at # "explorer"
<1>1. Eligible(m, gift, referrer) \in BOOLEAN /\ (Eligible(m, gift, referrer) => ~gift)
  BY DEF Eligible
<1>2. Reserving(m, provider, gift, referrer) \in ToReserve
  BY <1>1 DEF Reserving, ToReserve
<1> QED BY <1>1, <1>2 DEF Reserving, Tasks, ToReserve, Knows

\* A payment button, the address for Lava's receipt.
LEMMA ChooseKeeps ==
  ASSUME CkInv, NEW t \in Desks, NEW m \in Members, NEW provider \in Providers, NEW kind,
         Start(t, Pricing(m, provider, kind)), UNCHANGED <<today, books, pay, asked, opened>>
  PROVE  CkInv'
<1> DEFINE task == Pricing(m, provider, kind)
<1>1. task \in Tasks /\ Knows(task) /\ task.at # "explorer"
  <2>1. CASE kind = "code" /\ CodeHelps(books, m, today, Currency(provider))
    <3>1. task = [at |-> "redeem", m |-> m, provider |-> provider, gift |-> FALSE, seen |-> Seen(m)]
      BY <2>1 DEF Pricing
    <3>2. task \in ToRedeem
      BY <3>1, SeenTyped DEF CkInv, ToRedeem
    <3> QED BY <3>1, <3>2 DEF Tasks, Knows
  <2>2. CASE ~(kind = "code" /\ CodeHelps(books, m, today, Currency(provider)))
    <3>1. task = Reserving(m, provider, kind = "gift", books.referrer[m])
      BY <2>2 DEF Pricing
    <3>2. PICK gift \in BOOLEAN : task = Reserving(m, provider, gift, books.referrer[m])
      <4>1. (kind = "gift") \in BOOLEAN
        OBVIOUS
      <4> QED BY <3>1, <4>1, Zenon
    <3> HIDE DEF task
    <3> QED BY <3>2, ReservingTask
  <2> QED BY <2>1, <2>2
<1>2. desk' = [desk EXCEPT ![t] = task]
  BY DEF Start
<1>3. asked' \in [Members -> Nat] /\ \A n \in Members : asked'[n] \in {0, asked[n]}
  BY DEF CkInv, Typed
<1> HIDE DEF task
<1> QED BY <1>1, <1>2, <1>3, StartKeeps

\* The hash of a transfer, of a payment that waits and that nobody looks up.
LEMMA HashKeeps ==
  ASSUME CkInv, NEW t \in Desks, NEW h \in Hashes,
         \/ \E m \in Members : SubmitHash(t, m, h)
         \/ \E p \in DOMAIN pay : VerifyUsdt(t, p, h)
  PROVE  CkInv'
<1> USE DEF CkInv
<1>1. ASSUME NEW p \in DOMAIN pay, ~Locked(p), pay[p].status = "awaiting_review",
             Start(t, [at |-> "explorer", p |-> p, h |-> h]),
             NEW m \in Members, UNCHANGED asked \/ Leaves(m),
             UNCHANGED <<today, books, pay, opened>>
      PROVE  CkInv'
  <2> DEFINE task == [at |-> "explorer", p |-> p, h |-> h]
  <2>1. task \in Tasks /\ Knows(task) /\ task.p = p
    BY <1>1, PayParts DEF Tasks, ToJudge, Knows
  <2>2. desk' = [desk EXCEPT ![t] = task]
    BY <1>1 DEF Start
  <2> HIDE DEF task
  <2> QED BY <1>1, <2>1, <2>2, AskedStays, StartKeeps
<1>2. ASSUME NEW m \in Members, SubmitHash(t, m, h) PROVE CkInv'
  <2>1. asked[m] \in DOMAIN pay /\ UNCHANGED <<today, books, pay, opened>> /\ Leaves(m)
    BY <1>2 DEF SubmitHash, Typed
  <2>2. CASE UNCHANGED <<desk, starts>>
    <3>1. desk' = [desk EXCEPT ![t] = desk[t]]
      BY <2>2 DEF Typed
    <3>2. DesksKnow' /\ Typed'
      BY <2>1, <2>2, AskedStays DEF DesksKnow, Knows, Typed
    <3>3. Backed'
      <4>1. UNCHANGED <<books, pay, opened>>
        BY <2>1
      <4>2. UsesCounted' /\ UsesBacked' /\ PromosRecorded' /\ Priced'
        BY <4>1 DEF Backed, UsesCounted, Used, UsesBacked, PromosRecorded, Priced
      <4>3. SlotsBacked'
        BY <4>1 DEF Backed, SlotsBacked, SlotBacks, ByReferral
      <4> QED BY <4>2, <4>3 DEF Backed
    <3>4. TransferPaysOnce' /\ OpensLater'
      BY <2>1 DEF TransferPaysOnce, OpensLater
    <3> QED BY <3>2, <3>3, <3>4
  <2>3. CASE /\ pay[asked[m]].status = "awaiting_review"
             /\ Start(t, [at |-> "explorer", p |-> asked[m], h |-> h])
    BY <1>1, <1>2, <2>1, <2>3 DEF SubmitHash
  <2> QED BY <1>2, <2>2, <2>3 DEF SubmitHash
<1>3. ASSUME NEW p \in DOMAIN pay, VerifyUsdt(t, p, h) PROVE CkInv'
  <2>1. pay[p].by \in Members
    BY PayParts DEF Payments
  <2> QED BY <1>1, <1>3, <2>1 DEF VerifyUsdt
<1> QED BY <1>2, <1>3


\* The end of a checkout: nothing, or the row and what backs it.
LEMMA OffersKeep ==
  ASSUME CkInv, NEW t \in Desks, NEW b, NEW amount \in Amounts,
         NEW discount \in {"none", "promo", "referral"},
         desk[t] \in ToRedeem \cup ToReserve, Len(pay) < MaxPayments, Offers(t, b, amount, discount),
         desk[t].gift => discount = "none",
         amount = Owed([discount |-> discount, provider |-> desk[t].provider]),
         \/ discount = "none" /\ b = books
         \/ /\ discount = "referral" /\ b = Reserved(books, desk[t].m, NewId, today)
            /\ SlotFree(books, desk[t].m, today)
         \/ discount = "promo" /\ \E seen \in Seens : b \in Redeemed(books, desk[t].m, NewId, seen),
         UNCHANGED <<today, opened>>
  PROVE  CkInv'
<1> DEFINE d == desk[t]
<1>1. d.m \in Members /\ d.provider \in Providers /\ d.gift \in BOOLEAN
  BY DEF ToRedeem, ToReserve
<1>2. desk' = [desk EXCEPT ![t] = NoTask]
  BY DEF Offers, Done
<1>3. asked \in [Members -> Nat] /\ NewId \in Nat
  BY PayParts DEF CkInv, Typed, NewId
<1>4. ASSUME NEW open \in BOOLEAN, Commit(d, b, amount, discount, open),
             asked' \in [Members -> Nat], \A m \in Members : asked'[m] \in {0, asked[m], NewId}
      PROVE  CkInv'
  <2> DEFINE r == Row(d, amount, discount, open)
  <2>1. /\ r \in Payments /\ r.by = d.m /\ r.discount = discount /\ r.hash = NoHash
        /\ r.status \in {"pending", "awaiting_review"} /\ r.gift = d.gift /\ r.amount = amount
        /\ r.provider = d.provider
    BY <1>1 DEF Row, Payments
  <2>2. books' = b /\ pay' = Append(pay, r)
    BY <1>4 DEF Commit
  <2> HIDE DEF r
  <2>3. r.amount = Owed(r) /\ (r.gift => r.discount = "none")
    BY <2>1 DEF Owed
  <2> QED BY <1>2, <1>4, <2>1, <2>2, <2>3, AppendKeeps
<1>5. CASE UNCHANGED <<books, pay, asked>>
  <2>1. \A m \in Members : asked'[m] \in {0, asked[m]}
    BY <1>5
  <2> QED BY <1>2, <1>3, <1>5, <2>1, NotRead, StartKeeps
<1>6. CASE StripeOffers(d, b, amount, discount)
  <2>1. PICK said \in StripeSays : Commit(d, b, amount, discount, said = "page")
    BY <1>6 DEF StripeOffers
  <2>2. (said = "page") \in BOOLEAN /\ asked' = asked
    BY <1>6 DEF StripeOffers
  <2>3. PICK open \in BOOLEAN : Commit(d, b, amount, discount, open)
    BY <2>1, <2>2, Zenon
  <2> QED BY <1>3, <1>4, <2>2, <2>3
<1>7. CASE LavaOffers(d, b, amount, discount)
  BY <1>3, <1>4, <1>5, <1>7 DEF LavaOffers
<1>8. CASE ManualOffers(d, b, amount, discount)
  <2>1. asked' \in [Members -> Nat] /\ \A m \in Members : asked'[m] \in {0, asked[m], NewId}
    BY <1>3, <1>8 DEF ManualOffers
  <2> QED BY <1>4, <1>8, <2>1 DEF ManualOffers
<1> QED BY <1>6, <1>7, <1>8 DEF Offers

LEMMA RedeemKeeps ==
  ASSUME CkInv, NEW t \in Desks, Redeem(t)
  PROVE  CkInv'
<1> DEFINE d == desk[t]
           after == Redeemed(books, d.m, NewId, d.seen)
<1>1. /\ d \in ToRedeem /\ d.m \in Members /\ d.provider \in Providers /\ d.gift = FALSE
      /\ d.seen \in Seens /\ Len(pay) < MaxPayments /\ UNCHANGED <<today, opened>>
  <2>1. d \in Tasks /\ d.at = "redeem"
    BY DEF Redeem, CkInv, Typed
  <2>2. d \in ToRedeem
    BY <2>1, TaskParts
  <2>3. Len(pay) < MaxPayments /\ UNCHANGED <<today, opened>>
    BY DEF Redeem
  <2> HIDE DEF d
  <2> QED BY <2>2, <2>3 DEF ToRedeem
<1>2. asked \in [Members -> Nat]
  BY DEF CkInv, Typed
<1>3. CASE /\ desk' = [desk EXCEPT ![t] = Reserving(d.m, d.provider, d.gift, d.seen.referrer)]
           /\ UNCHANGED <<books, pay, asked, starts>>
  <2> DEFINE task == Reserving(d.m, d.provider, d.gift, d.seen.referrer)
  <2>1. task \in Tasks /\ Knows(task) /\ task.at # "explorer"
    BY <1>1, ReservingTask
  <2> HIDE DEF task
  <2>2. desk' = [desk EXCEPT ![t] = task]
    BY <1>3 DEF task
  <2>3. \A m \in Members : asked'[m] \in {0, asked[m]}
    BY <1>3
  <2> QED BY <1>1, <1>2, <1>3, <2>1, <2>2, <2>3, StartKeeps
<1>4. CASE Done(t) /\ UNCHANGED <<books, pay, asked>>
  <2>1. \A m \in Members : asked'[m] \in {0, asked[m]}
    BY <1>4
  <2> QED BY <1>1, <1>2, <1>4, <2>1, NotRead, StartKeeps DEF Done
<1>5. ASSUME NEW b \in after, Offers(t, b, Discounted(Currency(d.provider)), "promo") PROVE CkInv'
  <2>1. Discounted(Currency(d.provider)) \in Amounts
    BY DEF Amounts, Currency
  <2>2. Discounted(Currency(d.provider)) = Owed([discount |-> "promo", provider |-> d.provider])
    BY DEF Owed
  <2> QED BY <1>1, <1>5, <2>1, <2>2, OffersKeep
<1> QED BY <1>3, <1>4, <1>5 DEF Redeem

LEMMA ReserveKeeps ==
  ASSUME CkInv, NEW t \in Desks, Reserve(t)
  PROVE  CkInv'
<1> DEFINE d == desk[t]
<1>1. /\ d \in ToReserve /\ d.at = "reserve" /\ (d.eligible => ~d.gift)
      /\ Len(pay) < MaxPayments /\ UNCHANGED <<today, opened>>
  BY TaskParts DEF Reserve, CkInv, Typed, DesksKnow, Knows
<1>2. /\ ReferralPrice \in Amounts /\ Price \in Amounts
      /\ ReferralPrice = Owed([discount |-> "referral", provider |-> d.provider])
      /\ Price = Owed([discount |-> "none", provider |-> d.provider])
  BY DEF Amounts, Owed
<1>3. CASE /\ d.eligible /\ SlotFree(books, d.m, today)
           /\ Offers(t, Reserved(books, d.m, NewId, today), ReferralPrice, "referral")
  BY <1>1, <1>2, <1>3, OffersKeep
<1>4. CASE Offers(t, books, Price, "none")
  BY <1>1, <1>2, <1>4, OffersKeep
<1>5. CASE Done(t) /\ UNCHANGED <<books, pay, asked>>
  <2>1. asked' \in [Members -> Nat] /\ \A m \in Members : asked'[m] \in {0, asked[m]}
    BY <1>5 DEF CkInv, Typed
  <2> QED BY <1>1, <1>5, <2>1, NotRead, StartKeeps DEF Done
<1> QED BY <1>3, <1>4, <1>5 DEF Reserve

\* What touches no payment: links, the code's administration, the clock.
LEMMA RestKeeps ==
  ASSUME CkInv,
         \/ \E t \in Desks, m \in Members, i \in Inviters : FollowLink(t, m, i)
         \/ \E t \in Desks : LinkInviter(t) \/ SaveCode(t)
         \/ \E t \in Desks, max \in Caps : EditCode(t, max)
         \/ DropCode \/ NextDay \/ UNCHANGED vars
  PROVE  CkInv'
<1> USE DEF CkInv
<1>1. ASSUME books' \in Books, SameUses(books, books'), UNCHANGED <<pay, asked, opened>>,
             today' \in 0..LastDay, desk' = desk \/ \E t \in Desks : desk' = [desk EXCEPT ![t] = NoTask]
      PROVE  CkInv'
  <2>1. desk' \in [Desks -> Tasks] /\ \A t \in Desks : desk'[t] \in {NoTask, desk[t]}
    BY <1>1, NotRead DEF Typed
  <2>2. Typed'
    BY <1>1, <2>1 DEF Typed
  <2>3. DesksKnow'
    BY <1>1, <2>1, NotRead DEF DesksKnow, Knows, NoTask
  <2>4. Backed' /\ TransferPaysOnce' /\ OpensLater'
    BY <1>1 DEF SameUses, Backed, UsesCounted, Used, UsesBacked, SlotsBacked, SlotBacks, ByReferral,
                PromosRecorded, Priced, TransferPaysOnce, OpensLater
  <2> QED BY <2>2, <2>3, <2>4
<1>2. books \in Books /\ SameUses(books, books) /\ today \in 0..LastDay
  BY DEF Typed, SameUses
<1>3. ASSUME NEW t \in Desks, NEW m \in Members, NEW i \in Inviters, FollowLink(t, m, i) PROVE CkInv'
  <2> DEFINE task == [at |-> "link", m |-> m, inviter |-> i, seen |-> Seen(m)]
  <2>1. task \in Tasks /\ Knows(task) /\ task.at # "explorer"
    BY SeenTyped DEF Tasks, ToLink, Knows
  <2>2. desk' = [desk EXCEPT ![t] = task] /\ Leaves(m) /\ UNCHANGED <<today, books, pay, opened>>
    BY <1>3 DEF FollowLink, Start
  <2> HIDE DEF task
  <2> QED BY <2>1, <2>2, AskedStays, StartKeeps
<1>4. ASSUME NEW t \in Desks, LinkInviter(t) PROVE CkInv'
  <2>1. desk[t].m \in Members /\ desk[t].inviter \in Inviters /\ desk[t].seen \in Seens
    BY <1>4, TaskParts DEF LinkInviter, Typed, ToLink
  <2>2. \/ UNCHANGED books
        \/ books' \in Linked(books, desk[t].m, desk[t].inviter, desk[t].seen)
    BY <1>4 DEF LinkInviter
  <2>3. books' \in Books /\ SameUses(books, books')
    BY <1>2, <2>1, <2>2, LinkedBooks
  <2> QED BY <1>1, <1>2, <1>4, <2>3 DEF LinkInviter, Done
<1>5. ASSUME NEW t \in Desks, SaveCode(t) PROVE CkInv'
  <2>1. desk[t].max \in Nat
    <3>1. desk[t] \in Tasks /\ desk[t].at = "edit"
      BY <1>5 DEF SaveCode, Typed
    <3>2. desk[t] \in ToSave
      BY <3>1, TaskParts
    <3> QED BY <3>2 DEF ToSave
  <2>2. books' \in Books /\ SameUses(books, books')
    BY <1>2, <1>5, <2>1 DEF SaveCode, Books, SameUses
  <2> QED BY <1>1, <1>2, <1>5, <2>2 DEF SaveCode, Done
<1>6. ASSUME NEW t \in Desks, NEW max \in Caps, EditCode(t, max) PROVE CkInv'
  <2> DEFINE task == [at |-> "edit", max |-> max]
  <2>1. task \in Tasks /\ Knows(task) /\ task.at # "explorer"
    BY CheckoutAssumption DEF Tasks, ToSave, Knows
  <2>2. desk' = [desk EXCEPT ![t] = task] /\ UNCHANGED <<today, books, pay, asked, opened>>
    BY <1>6 DEF EditCode, Start
  <2>3. asked' \in [Members -> Nat] /\ \A m \in Members : asked'[m] \in {0, asked[m]}
    BY <2>2 DEF Typed
  <2> HIDE DEF task
  <2> QED BY <2>1, <2>2, <2>3, StartKeeps
<1>7. CASE DropCode
  <2>1. books' \in Books /\ SameUses(books, books')
    BY <1>2, <1>7 DEF DropCode, Books, SameUses
  <2> QED BY <1>1, <1>2, <1>7, <2>1 DEF DropCode
<1>8. CASE NextDay
  <2>1. today' \in 0..LastDay
    BY <1>2, <1>8, CheckoutAssumption DEF NextDay
  <2> QED BY <1>1, <1>2, <1>8, <2>1 DEF NextDay
<1>9. CASE UNCHANGED vars
  BY <1>1, <1>2, <1>9 DEF vars
<1> QED BY <1>3, <1>4, <1>5, <1>6, <1>7, <1>8, <1>9

(***************************************************************************)
(* A payment settles, and what SaleLife sees of it.                        *)
(***************************************************************************)
Unpaid(r) == r.status \in {"pending", "awaiting_review"}

LEMMA StageNow ==
  ASSUME NEW s \in Sales
  PROVE  /\ s \notin DOMAIN pay => Stage[s] = "none"
         /\ s \in DOMAIN pay /\ Unpaid(pay[s]) => Stage[s] = "offered"
         /\ s \in DOMAIN pay /\ pay[s].status = "failed" => Stage[s] = "void"
         /\ s \in DOMAIN pay /\ pay[s].status = "succeeded" =>
              Stage[s] = IF opened[s] = 0 THEN "paid" ELSE "served"
         /\ s \in DOMAIN pay /\ pay[s].status = "refunded" => Stage[s] = "returned"
BY DEF Stage, Unpaid

LEMMA StageNext ==
  ASSUME NEW s \in Sales
  PROVE  /\ s \notin DOMAIN pay' => Stage'[s] = "none"
         /\ s \in DOMAIN pay' /\ Unpaid(pay'[s]) => Stage'[s] = "offered"
         /\ s \in DOMAIN pay' /\ pay'[s].status = "failed" => Stage'[s] = "void"
         /\ s \in DOMAIN pay' /\ pay'[s].status = "succeeded" =>
              Stage'[s] = IF opened'[s] = 0 THEN "paid" ELSE "served"
         /\ s \in DOMAIN pay' /\ pay'[s].status = "refunded" => Stage'[s] = "returned"
BY DEF Stage, Unpaid

\* A sale whose row and count stay has the stage it had.
LEMMA StageStays ==
  ASSUME NEW s \in Sales, s \in DOMAIN pay' <=> s \in DOMAIN pay,
         s \in DOMAIN pay => pay'[s].status = pay[s].status \/ (Unpaid(pay[s]) /\ Unpaid(pay'[s])),
         s \in DOMAIN pay => pay[s] \in Payments,
         opened'[s] = opened[s]
  PROVE  Life!Stays(s)
<1>1. CASE s \notin DOMAIN pay
  BY <1>1, StageNow, StageNext DEF Life!Stays
<1>2. CASE s \in DOMAIN pay /\ Unpaid(pay[s]) /\ Unpaid(pay'[s])
  BY <1>2, StageNow, StageNext DEF Life!Stays
<1>3. CASE s \in DOMAIN pay /\ pay'[s].status = pay[s].status
  <2>1. Unpaid(pay[s]) \/ pay[s].status \in {"failed", "succeeded", "refunded"}
    BY <1>3 DEF Unpaid, Payments
  <2>2. Unpaid(pay[s]) => Unpaid(pay'[s])
    BY <1>3 DEF Unpaid
  <2> QED BY <1>3, <2>1, <2>2, StageNow, StageNext DEF Life!Stays
<1> QED BY <1>1, <1>2, <1>3

LEMMA NothingMoves ==
  ASSUME \A s \in Sales : Life!Stays(s), opened \in [Sales -> Nat], opened' \in [Sales -> Nat]
  PROVE  UNCHANGED <<Stage, opened>>
<1>1. opened' = opened
  BY DEF Life!Stays
<1>2. Stage' = Stage
  BY DEF Life!Stays, Stage
<1> QED BY <1>1, <1>2

\* One row of payments is written: the steps of a sale's life.
LEMMA RowLives ==
  ASSUME CkInv, NEW p \in DOMAIN pay, NEW r \in Payments,
         pay' = [pay EXCEPT ![p] = r],
         opened' \in [Sales -> Nat], \A s \in Sales \ {p} : opened'[s] = opened[s],
         \/ Unpaid(pay[p]) /\ Unpaid(r) /\ opened'[p] = opened[p]
         \/ Unpaid(pay[p]) /\ r.status = "failed" /\ opened'[p] = opened[p]
         \/ Unpaid(pay[p]) /\ r.status = "succeeded" /\ opened'[p] \in {opened[p], opened[p] + 1}
         \/ pay[p].status = "succeeded" /\ r.status = "succeeded" /\ Unserved(pay[p])
              /\ opened'[p] = opened[p] + 1
         \/ pay[p].status = "succeeded" /\ r.status = "refunded" /\ opened'[p] = opened[p]
  PROVE  [Life!Next]_<<Stage, opened>>
<1>1. /\ DOMAIN pay' = DOMAIN pay /\ pay'[p] = r
      /\ \A k \in DOMAIN pay \ {p} : pay'[k] = pay[k]
  BY Rewritten DEF CkInv, Typed
<1>2. p \in Sales /\ opened[p] \in Nat /\ opened \in [Sales -> Nat] /\ (Unserved(pay[p]) => opened[p] = 0)
  BY PayParts DEF CkInv, Typed, OpensLater
<1>3. \A s \in Sales \ {p} : Life!Stays(s)
  BY <1>1, PayParts, StageStays DEF CkInv
<1>4. Life!Others(p)
  BY <1>3 DEF Life!Others
<1>5. CASE Unpaid(pay[p]) /\ Unpaid(r) /\ opened'[p] = opened[p]
  <2>1. Life!Stays(p)
    BY <1>1, <1>2, <1>5, PayParts, StageStays DEF CkInv
  <2> QED BY <1>2, <1>3, <2>1, NothingMoves
<1>6. CASE Unpaid(pay[p]) /\ r.status = "failed" /\ opened'[p] = opened[p]
  <2>1. Stage[p] = "offered" /\ Stage'[p] = "void"
    BY <1>1, <1>2, <1>6, StageNow, StageNext
  <2> QED BY <1>2, <1>4, <1>6, <2>1 DEF Life!Next, Life!Void
<1>7. CASE Unpaid(pay[p]) /\ r.status = "succeeded" /\ opened'[p] \in {opened[p], opened[p] + 1}
  <2>1. opened[p] = 0
    BY <1>2, <1>7 DEF Unpaid, Unserved
  <2>2. Stage[p] = "offered" /\ Stage'[p] = IF opened'[p] = 0 THEN "paid" ELSE "served"
    BY <1>1, <1>2, <1>7, StageNow, StageNext
  <2> QED BY <1>2, <1>4, <1>7, <2>1, <2>2 DEF Life!Next, Life!Pay, Life!Serve
<1>8. CASE /\ pay[p].status = "succeeded" /\ r.status = "succeeded" /\ Unserved(pay[p])
           /\ opened'[p] = opened[p] + 1
  <2>1. Stage[p] = "paid" /\ Stage'[p] = "served"
    BY <1>1, <1>2, <1>8, StageNow, StageNext
  <2> QED BY <1>2, <1>4, <1>8, <2>1 DEF Life!Next, Life!Serve
<1>9. CASE pay[p].status = "succeeded" /\ r.status = "refunded" /\ opened'[p] = opened[p]
  <2>1. Stage[p] \in {"paid", "served"} /\ Stage'[p] = "returned"
    BY <1>1, <1>2, <1>9, StageNow, StageNext
  <2> QED BY <1>2, <1>4, <1>9, <2>1 DEF Life!Next, Life!Return
<1> QED BY <1>5, <1>6, <1>7, <1>8, <1>9

\* A new row is an offer; everything else that leaves the rows is a stutter.
LEMMA OfferLives ==
  ASSUME CkInv, NEW r \in Payments, Unpaid(r), Len(pay) < MaxPayments,
         pay' = Append(pay, r), opened' = opened
  PROVE  [Life!Next]_<<Stage, opened>>
<1>1. /\ DOMAIN pay' = DOMAIN pay \cup {NewId} /\ NewId \notin DOMAIN pay /\ pay'[NewId] = r
      /\ \A k \in DOMAIN pay : pay'[k] = pay[k]
      /\ NewId \in Sales
  BY Appended, PayParts, CheckoutAssumption DEF CkInv, Typed, NewId, Sales
<1> DEFINE n == Len(pay) + 1
<1>2. n = NewId
  BY DEF NewId
<1> HIDE DEF n
<1>3. \A s \in Sales \ {n} : Life!Stays(s)
  BY <1>1, <1>2, PayParts, StageStays DEF CkInv
<1>4. Stage[n] = "none" /\ Stage'[n] = "offered" /\ opened'[n] = opened[n]
  BY <1>1, <1>2, StageNow, StageNext
<1> QED BY <1>1, <1>2, <1>3, <1>4 DEF Life!Next, Life!Others, Life!Offer

LEMMA RowsRestLife == UNCHANGED <<pay, opened>> => UNCHANGED <<Stage, opened>>
BY DEF Stage

LEMMA FulfilKeeps ==
  ASSUME CkInv, NEW p \in DOMAIN pay, NEW row \in Payments, Unpaid(pay[p]), Fulfil(p, row),
         row.by = pay[p].by, row.discount = pay[p].discount, row.gift = pay[p].gift,
         row.amount = pay[p].amount, row.provider = pay[p].provider, row.to = pay[p].to,
         row.hash = pay[p].hash \/ ~Claimed(p, row.hash),
         UNCHANGED <<today, asked>>, desk' \in [Desks -> Tasks],
         \A t \in Desks :
           desk'[t] = NoTask \/ (desk'[t] = desk[t] /\ ~(desk[t].at = "explorer" /\ desk[t].p = p))
  PROVE  CkInv' /\ [Life!Next]_<<Stage, opened>>
<1> USE DEF CkInv
<1> DEFINE w == Wrapped(row)
           r == [w EXCEPT !.status = "succeeded", !.approved = TRUE]
           opens == ~row.gift /\ ~Twin(p, row.hash)
<1>1. /\ w \in Payments /\ w.by = row.by /\ w.discount = row.discount /\ w.gift = row.gift
      /\ w.amount = row.amount /\ w.provider = row.provider /\ w.to = row.to /\ w.hash = row.hash
  <2> DEFINE made == IF row.gift THEN today ELSE 0
  <2>1. made \in Nat
    BY CheckoutAssumption DEF Typed
  <2>2. w = [row EXCEPT !.made = made]
    BY DEF Wrapped
  <2> HIDE DEF made, w
  <2> QED BY <2>1, <2>2 DEF Payments
<1> HIDE DEF w
<1>2. /\ r \in Payments /\ r.by = row.by /\ r.discount = row.discount /\ r.gift = row.gift
      /\ r.amount = row.amount /\ r.provider = row.provider /\ r.to = row.to
      /\ r.hash = row.hash /\ r.status = "succeeded"
  BY <1>1 DEF Payments
<1>3. /\ pay' = [pay EXCEPT ![p] = r]
      /\ opened' = IF opens THEN [opened EXCEPT ![p] = @ + 1] ELSE opened
      /\ books' = IF opens THEN Consumed(books, row.by, p) ELSE books
  BY DEF Fulfil, w
<1> HIDE DEF r
<1>4. p \in Sales /\ opened \in [Sales -> Nat] /\ opened[p] = 0
  BY PayParts DEF Typed, OpensLater, Unserved, Unpaid
<1>5. /\ opened' \in [Sales -> Nat] /\ \A s \in Sales \ {p} : opened'[s] = opened[s]
      /\ opened'[p] \in {opened[p], opened[p] + 1}
      /\ row.gift => opened'[p] = 0
      /\ \/ opened'[p] = opened[p] /\ books' = books
         \/ opened'[p] > 0 /\ books' = Consumed(books, pay[p].by, p)
  BY <1>3, <1>4
<1>6. Unserved(r) => opened'[p] = 0
  BY <1>2, <1>5 DEF Unserved
<1>7. asked' \in [Members -> Nat] /\ \A m \in Members : asked'[m] \in {0, asked[m]}
  BY DEF Typed
<1>8. CkInv'
  <2>1. r.by = pay[p].by /\ r.discount = pay[p].discount
    BY <1>2
  <2>2. r.gift = pay[p].gift /\ r.amount = pay[p].amount /\ r.provider = pay[p].provider
    BY <1>2
  <2>3. r.hash \in {NoHash, pay[p].hash} \/ ~Claimed(p, r.hash)
    BY <1>2
  <2>4. \A t \in Desks : desk'[t] = NoTask \/ (desk'[t] = desk[t]
           /\ (desk[t].at = "explorer" /\ desk[t].p = p => r.status = "awaiting_review"))
    OBVIOUS
  <2> QED BY <1>2, <1>3, <1>5, <1>6, <1>7, <2>1, <2>2, <2>3, <2>4, RowKeeps
<1>9. [Life!Next]_<<Stage, opened>>
  BY <1>2, <1>3, <1>5, RowLives
<1> QED BY <1>8, <1>9

\* A row is written and nothing is opened.
LEMMA WriteKeeps ==
  ASSUME CkInv, NEW p \in DOMAIN pay, NEW r \in Payments, pay' = [pay EXCEPT ![p] = r],
         r.by = pay[p].by, r.discount = pay[p].discount, r.gift = pay[p].gift,
         r.amount = pay[p].amount, r.provider = pay[p].provider, r.to = pay[p].to,
         r.hash \in {NoHash, pay[p].hash} \/ ~Claimed(p, r.hash),
         \/ Unpaid(pay[p]) /\ r.status \in {"awaiting_review", "failed"}
         \/ pay[p].status = "succeeded" /\ r.status = "refunded",
         UNCHANGED <<today, books, asked, opened>>, desk' \in [Desks -> Tasks],
         \A t \in Desks :
           desk'[t] = NoTask \/ (desk'[t] = desk[t] /\ ~(desk[t].at = "explorer" /\ desk[t].p = p))
  PROVE  CkInv' /\ [Life!Next]_<<Stage, opened>>
<1>1. opened' \in [Sales -> Nat] /\ \A s \in Sales : opened'[s] = opened[s]
  BY DEF CkInv, Typed
<1>2. Unserved(r) => opened'[p] = 0
  <2>1. Unserved(r) => Unserved(pay[p])
    BY DEF Unserved, Unpaid
  <2> QED BY <2>1, PayParts DEF CkInv, OpensLater
<1>3. asked' \in [Members -> Nat] /\ \A m \in Members : asked'[m] \in {0, asked[m]}
  BY DEF CkInv, Typed
<1>4. CkInv'
  BY <1>1, <1>2, <1>3, RowKeeps
<1>5. [Life!Next]_<<Stage, opened>>
  <2>1. p \in Sales
    BY PayParts DEF CkInv
  <2> QED BY <1>1, <2>1, RowLives DEF Unpaid
<1> QED BY <1>4, <1>5

\* A checkout, whatever becomes of it, offers a sale or leaves the sales alone.
LEMMA OffersLive ==
  ASSUME CkInv, NEW t \in Desks, NEW b, NEW amount \in Amounts,
         NEW discount \in {"none", "promo", "referral"},
         desk[t] \in ToRedeem \cup ToReserve, Len(pay) < MaxPayments, Offers(t, b, amount, discount),
         UNCHANGED opened
  PROVE  [Life!Next]_<<Stage, opened>>
<1> DEFINE d == desk[t]
<1>1. d.m \in Members /\ d.provider \in Providers /\ d.gift \in BOOLEAN
  BY DEF ToRedeem, ToReserve
<1>2. UNCHANGED pay \/ \E open \in BOOLEAN : Commit(d, b, amount, discount, open)
  <2>1. ASSUME NEW said PROVE (said = "page") \in BOOLEAN
    OBVIOUS
  <2>2. StripeOffers(d, b, amount, discount) => \E open \in BOOLEAN : Commit(d, b, amount, discount, open)
    BY <2>1, Zenon DEF StripeOffers
  <2>3. LavaOffers(d, b, amount, discount) =>
          UNCHANGED pay \/ \E open \in BOOLEAN : Commit(d, b, amount, discount, open)
    BY DEF LavaOffers
  <2>4. ManualOffers(d, b, amount, discount) => \E open \in BOOLEAN : Commit(d, b, amount, discount, open)
    BY DEF ManualOffers
  <2> QED BY <2>2, <2>3, <2>4 DEF Offers
<1>3. ASSUME NEW open \in BOOLEAN, Commit(d, b, amount, discount, open)
      PROVE  [Life!Next]_<<Stage, opened>>
  <2> DEFINE r == Row(d, amount, discount, open)
  <2>1. r \in Payments /\ Unpaid(r)
    BY <1>1 DEF Row, Payments, Unpaid
  <2>2. pay' = Append(pay, r)
    BY <1>3 DEF Commit
  <2> HIDE DEF r
  <2> QED BY <2>1, <2>2, OfferLives
<1> QED BY <1>2, <1>3, RowsRestLife

LEMMA CheckoutLives ==
  ASSUME CkInv, NEW t \in Desks, Redeem(t) \/ Reserve(t)
  PROVE  [Life!Next]_<<Stage, opened>>
<1>1. desk[t] \in ToRedeem \cup ToReserve /\ Len(pay) < MaxPayments /\ UNCHANGED opened
  <2>1. desk[t] \in Tasks /\ desk[t].at \in {"redeem", "reserve"}
    BY DEF Redeem, Reserve, CkInv, Typed
  <2>2. desk[t] \in ToRedeem \cup ToReserve
    BY <2>1, TaskParts
  <2> QED BY <2>2 DEF Redeem, Reserve
<1>2. Price \in Amounts /\ ReferralPrice \in Amounts
      /\ Discounted(Currency(desk[t].provider)) \in Amounts
  BY DEF Amounts, Currency
<1>3. \/ UNCHANGED pay
      \/ \E b : Offers(t, b, Discounted(Currency(desk[t].provider)), "promo")
      \/ \E b : Offers(t, b, ReferralPrice, "referral") \/ Offers(t, b, Price, "none")
  BY DEF Redeem, Reserve
<1> QED BY <1>1, <1>2, <1>3, OffersLive, RowsRestLife

\* The provider's event, moderation and a refund: the desks go on.
LEMMA SettleKeeps ==
  ASSUME CkInv, NEW p \in DOMAIN pay, ProviderPaid(p) \/ Moderate(p) \/ GiveBack(p)
  PROVE  CkInv' /\ [Life!Next]_<<Stage, opened>>
<1> USE DEF CkInv
<1>1. /\ pay[p] \in Payments /\ desk' = desk /\ desk' \in [Desks -> Tasks]
      /\ UNCHANGED <<today, asked>>
  BY PayParts DEF ProviderPaid, Moderate, GiveBack, Typed
<1>2. \A t \in Desks : desk[t].at = "explorer" /\ desk[t].p = p => pay[p].status = "awaiting_review"
  BY DEF DesksKnow, Knows
<1>3. CASE ProviderPaid(p)
  <2>1. Fulfil(p, pay[p]) /\ pay[p].status = "pending"
    BY <1>3 DEF ProviderPaid
  <2>2. \A t \in Desks : ~(desk[t].at = "explorer" /\ desk[t].p = p)
    BY <1>2, <2>1
  <2> QED BY <1>1, <2>1, <2>2, FulfilKeeps DEF Unpaid
<1>4. CASE Moderate(p) /\ Fulfil(p, pay[p])
  <2>1. pay[p].status = "awaiting_review" /\ \A t \in Desks : ~(desk[t].at = "explorer" /\ desk[t].p = p)
    BY <1>4 DEF Moderate, Locked
  <2> QED BY <1>1, <1>4, <2>1, FulfilKeeps DEF Unpaid
<1>5. CASE Moderate(p) /\ pay' = [pay EXCEPT ![p].status = "failed"] /\ UNCHANGED <<books, opened>>
  <2> DEFINE r == [pay[p] EXCEPT !.status = "failed"]
  <2>1. pay[p].status = "awaiting_review" /\ \A t \in Desks : ~(desk[t].at = "explorer" /\ desk[t].p = p)
    BY <1>5 DEF Moderate, Locked
  <2>2. /\ r \in Payments /\ r.by = pay[p].by /\ r.discount = pay[p].discount /\ r.gift = pay[p].gift
        /\ r.amount = pay[p].amount /\ r.provider = pay[p].provider /\ r.to = pay[p].to
        /\ r.hash = pay[p].hash /\ r.status = "failed"
    BY <1>1 DEF Payments
  <2>3. pay' = [pay EXCEPT ![p] = r] /\ UNCHANGED <<books, opened>>
    BY <1>5
  <2> HIDE DEF r
  <2> QED BY <1>1, <2>1, <2>2, <2>3, WriteKeeps DEF Unpaid
<1>6. CASE GiveBack(p)
  <2> DEFINE r == [pay[p] EXCEPT !.status = "refunded"]
  <2>1. pay[p].status = "succeeded" /\ \A t \in Desks : ~(desk[t].at = "explorer" /\ desk[t].p = p)
    BY <1>2, <1>6 DEF GiveBack
  <2>2. /\ r \in Payments /\ r.by = pay[p].by /\ r.discount = pay[p].discount /\ r.gift = pay[p].gift
        /\ r.amount = pay[p].amount /\ r.provider = pay[p].provider /\ r.to = pay[p].to
        /\ r.hash = pay[p].hash /\ r.status = "refunded"
    BY <1>1 DEF Payments
  <2>3. pay' = [pay EXCEPT ![p] = r] /\ UNCHANGED <<books, opened>>
    BY <1>6 DEF GiveBack
  <2> HIDE DEF r
  <2> QED BY <1>1, <2>1, <2>2, <2>3, WriteKeeps DEF Unpaid
<1> QED BY <1>3, <1>4, <1>5, <1>6 DEF Moderate

\* The answer of the explorer, and the claim of the transfer.
LEMMA JudgeKeeps ==
  ASSUME CkInv, NEW t \in Desks, NEW found, NEW deep, Judge(t, found, deep)
  PROVE  CkInv' /\ [Life!Next]_<<Stage, opened>>
<1> USE DEF CkInv
<1> DEFINE p == desk[t].p
           h == desk[t].h
           v == Verdict(Chain[h], pay[p].amount, found, deep)
           row == [pay[p] EXCEPT !.hash = h]
           after == IF v = "review" THEN "awaiting_review" ELSE "failed"
           judged == [row EXCEPT !.status = after]
           lost == [pay[p] EXCEPT !.hash = NoHash, !.status = "failed"]
<1>1. /\ desk[t] \in Tasks /\ desk[t].at = "explorer" /\ desk' = [desk EXCEPT ![t] = NoTask]
      /\ UNCHANGED <<today, asked>>
  BY DEF Judge, Done, Typed
<1>2. p \in DOMAIN pay /\ pay[p].status = "awaiting_review"
  BY <1>1 DEF DesksKnow, Knows
<1>3. pay[p] \in Payments /\ h \in Hashes
  <2>1. desk[t] \in ToJudge
    BY <1>1, TaskParts
  <2> QED BY <1>2, <2>1, PayParts DEF ToJudge
<1>4. desk' \in [Desks -> Tasks]
  BY <1>1, NotRead DEF Typed
<1>5. \A u \in Desks :
        desk'[u] = NoTask \/ (desk'[u] = desk[u] /\ ~(desk[u].at = "explorer" /\ desk[u].p = p))
  BY <1>1 DEF DesksKnow, Typed
<1>6. Unpaid(pay[p])
  BY <1>2 DEF Unpaid
<1>7. /\ row \in Payments /\ row.by = pay[p].by /\ row.discount = pay[p].discount
      /\ row.gift = pay[p].gift /\ row.amount = pay[p].amount /\ row.provider = pay[p].provider
      /\ row.to = pay[p].to /\ row.hash = h
  BY <1>3 DEF Payments
<1>8. /\ judged \in Payments /\ judged.by = pay[p].by /\ judged.discount = pay[p].discount
      /\ judged.gift = pay[p].gift /\ judged.amount = pay[p].amount
      /\ judged.provider = pay[p].provider /\ judged.to = pay[p].to
      /\ judged.hash = h /\ judged.status \in {"awaiting_review", "failed"}
  BY <1>3 DEF Payments
<1>9. /\ lost \in Payments /\ lost.by = pay[p].by /\ lost.discount = pay[p].discount
      /\ lost.gift = pay[p].gift /\ lost.amount = pay[p].amount
      /\ lost.provider = pay[p].provider /\ lost.to = pay[p].to
      /\ lost.hash = NoHash /\ lost.status = "failed"
  BY <1>3 DEF Payments
<1>10. \/ ~Claimed(p, h) /\ Fulfil(p, row)
       \/ pay' = [pay EXCEPT ![p] = lost] /\ UNCHANGED <<books, opened>>
       \/ UNCHANGED <<pay, books, opened>>
       \/ ~Claimed(p, h) /\ pay' = [pay EXCEPT ![p] = judged] /\ UNCHANGED <<books, opened>>
  <2>1. [pay EXCEPT ![p].hash = NoHash, ![p].status = "failed"] = [pay EXCEPT ![p] = lost]
    BY <1>2, <1>3 DEF Payments
  <2>2. \/ ~Claimed(p, h) /\ Fulfil(p, row)
        \/ /\ pay' = [pay EXCEPT ![p].hash = NoHash, ![p].status = "failed"]
           /\ UNCHANGED <<books, opened>>
        \/ UNCHANGED <<pay, books, opened>>
        \/ ~Claimed(p, h) /\ pay' = [pay EXCEPT ![p] = judged] /\ UNCHANGED <<books, opened>>
    BY DEF Judge
  <2> HIDE DEF row, judged, lost, v, after
  <2> QED BY <2>1, <2>2
<1> HIDE DEF p, h, row, judged, lost, v, after
<1>11. CASE ~Claimed(p, h) /\ Fulfil(p, row)
  BY <1>1, <1>2, <1>4, <1>5, <1>6, <1>7, <1>11, FulfilKeeps
<1>12. CASE pay' = [pay EXCEPT ![p] = lost] /\ UNCHANGED <<books, opened>>
  BY <1>1, <1>2, <1>4, <1>5, <1>6, <1>9, <1>12, WriteKeeps
<1>13. CASE UNCHANGED <<pay, books, opened>>
  <2>1. asked' \in [Members -> Nat] /\ \A m \in Members : asked'[m] \in {0, asked[m]}
    BY <1>1 DEF Typed
  <2>2. CkInv'
    BY <1>1, <1>13, <2>1, NotRead, StartKeeps
  <2> QED BY <1>13, <2>2, RowsRestLife
<1>14. CASE ~Claimed(p, h) /\ pay' = [pay EXCEPT ![p] = judged] /\ UNCHANGED <<books, opened>>
  BY <1>1, <1>2, <1>4, <1>5, <1>6, <1>8, <1>14, WriteKeeps
<1> QED BY <1>10, <1>11, <1>12, <1>13, <1>14

\* A gift is claimed: once, while it is paid for.
LEMMA ClaimKeeps ==
  ASSUME CkInv, NEW m \in Members, NEW p \in DOMAIN pay, ClaimGift(m, p)
  PROVE  CkInv' /\ [Life!Next]_<<Stage, opened>>
<1> USE DEF CkInv
<1> DEFINE r == [pay[p] EXCEPT !.to = m]
<1>1. /\ pay[p] \in Payments /\ p \in Sales /\ pay[p].gift /\ pay[p].to = NoOne
      /\ pay[p].status = "succeeded" /\ opened' = [opened EXCEPT ![p] = @ + 1]
      /\ Leaves(m) /\ UNCHANGED <<today, books, desk>>
  BY PayParts DEF ClaimGift
<1>2. /\ r \in Payments /\ r.by = pay[p].by /\ r.discount = pay[p].discount /\ r.gift = pay[p].gift
      /\ r.amount = pay[p].amount /\ r.provider = pay[p].provider /\ r.to = m
      /\ r.hash = pay[p].hash /\ r.status = "succeeded"
  BY <1>1 DEF Payments
<1>3. pay' = [pay EXCEPT ![p] = r]
  BY DEF ClaimGift
<1> HIDE DEF r
<1>4. /\ opened' \in [Sales -> Nat] /\ opened'[p] = opened[p] + 1
      /\ \A s \in Sales \ {p} : opened'[s] = opened[s]
  BY <1>1 DEF Typed
<1>5. ~Unserved(r)
  BY <1>2, DiscountsAssumption DEF Unserved
<1>6. asked' \in [Members -> Nat] /\ \A n \in Members : asked'[n] \in {0, asked[n]}
  BY <1>1, AskedStays
<1>7. \A t \in Desks : desk[t].at = "explorer" /\ desk[t].p = p => r.status = "awaiting_review"
  BY <1>1 DEF DesksKnow, Knows
<1>8. desk' \in [Desks -> Tasks]
  BY <1>1 DEF Typed
<1>9. CkInv'
  <2>1. r.by = pay[p].by /\ r.discount = pay[p].discount /\ r.gift = pay[p].gift
    BY <1>2
  <2>2. /\ r.amount = pay[p].amount /\ r.provider = pay[p].provider
        /\ r.hash \in {NoHash, pay[p].hash} /\ r.gift /\ opened'[p] > 0
    BY <1>1, <1>2, <1>4 DEF Typed
  <2>3. \A t \in Desks : desk'[t] = NoTask \/ (desk'[t] = desk[t]
          /\ (desk[t].at = "explorer" /\ desk[t].p = p => r.status = "awaiting_review"))
    BY <1>1, <1>7
  <2>4. books' = books /\ today' = today
    BY <1>1
  <2> QED BY <1>2, <1>3, <1>4, <1>5, <1>6, <1>8, <2>1, <2>2, <2>3, <2>4, RowKeeps
<1>10. [Life!Next]_<<Stage, opened>>
  BY <1>1, <1>2, <1>3, <1>4, RowLives DEF Unserved
<1> QED BY <1>9, <1>10

LEMMA CheckoutStep ==
  CkInv /\ [Next]_vars => CkInv' /\ [Life!Next]_<<Stage, opened>>
<1> SUFFICES ASSUME CkInv, [Next]_vars PROVE CkInv' /\ [Life!Next]_<<Stage, opened>>
  OBVIOUS
<1>1. ASSUME NEW t \in Desks, NEW m \in Members,
             \/ \E w \in Ways : w[1] = m /\ ChooseMethod(t, m, w[2], w[3])
             \/ \E w \in Ways : w[1] = m /\ w[2] = "lava" /\ SubmitEmail(t, m, w[3])
      PROVE  CkInv' /\ UNCHANGED <<pay, opened>>
  <2>1. \A w \in Ways : w[2] \in Providers
    BY CheckoutAssumption DEF Providers
  <2> QED BY <1>1, <2>1, ChooseKeeps DEF ChooseMethod, SubmitEmail, Providers
<1>2. ASSUME NEW t \in Desks, NEW h \in Hashes,
             \/ \E m \in Members : SubmitHash(t, m, h)
             \/ \E p \in DOMAIN pay : VerifyUsdt(t, p, h)
      PROVE  CkInv' /\ UNCHANGED <<pay, opened>>
  BY <1>2, HashKeeps DEF SubmitHash, VerifyUsdt
<1>3. CASE \/ \E t \in Desks, m \in Members, i \in Inviters : FollowLink(t, m, i)
           \/ \E t \in Desks : LinkInviter(t) \/ SaveCode(t)
           \/ \E t \in Desks, max \in Caps : EditCode(t, max)
           \/ DropCode \/ NextDay \/ UNCHANGED vars
  <2>1. UNCHANGED <<pay, opened>>
    BY <1>3 DEF FollowLink, LinkInviter, SaveCode, EditCode, DropCode, NextDay, vars
  <2> QED BY <1>3, <2>1, RestKeeps, RowsRestLife
<1>4. ASSUME NEW t \in Desks, Redeem(t) \/ Reserve(t)
      PROVE  CkInv' /\ [Life!Next]_<<Stage, opened>>
  BY <1>4, RedeemKeeps, ReserveKeeps, CheckoutLives
<1>5. ASSUME NEW t \in Desks, NEW found \in BOOLEAN, NEW deep \in BOOLEAN, Judge(t, found, deep)
      PROVE  CkInv' /\ [Life!Next]_<<Stage, opened>>
  BY <1>5, JudgeKeeps
<1>6. ASSUME NEW p \in DOMAIN pay,
             ProviderPaid(p) \/ Moderate(p) \/ GiveBack(p) \/ \E m \in Members : ClaimGift(m, p)
      PROVE  CkInv' /\ [Life!Next]_<<Stage, opened>>
  BY <1>6, SettleKeeps, ClaimKeeps
<1>7. CASE Next
  BY <1>1, <1>2, <1>3, <1>4, <1>5, <1>6, <1>7, RowsRestLife DEF Next
<1> QED BY <1>3, <1>7

LEMMA CheckoutInvariant == Spec => []CkInv
BY CheckoutStart, CheckoutStep, PTL DEF Spec

\* Every cheaper price has a record of its own, and the running total of the
\* code counts its uses, for any number of handlers, refusals and lost races
\* (discount_for_checkout, record_promo_redemption, reserve_referral_discount).
THEOREM DiscountBackedCorrect == Spec => []DiscountBacked
<1>1. CkInv => DiscountBacked
  <2> SUFFICES ASSUME CkInv PROVE DiscountBacked
    OBVIOUS
  <2>1. TypeOK
    <3>1. /\ DOMAIN pay \subseteq Sales
          /\ \A p \in DOMAIN pay : pay[p] \in Payments
      BY PayParts DEF CkInv
    <3>2. books \in Books
      BY DEF CkInv, Typed
    <3>3. /\ books.count \in Nat /\ books.max \in Nat /\ books.active \in BOOLEAN
          /\ books.redeemed \in [Members -> 0..MaxPayments]
          /\ books.referrer \in [Members -> Inviters \cup {NoOne}]
          /\ books.attr \in [Members -> Inviters \cup {NoOne}]
      BY <3>2 DEF Books, Users
    <3>4. \A p \in DOMAIN pay :
            /\ p \in Sales /\ pay[p].by \in Members /\ pay[p].amount \in Amounts
            /\ pay[p].status \in {"pending", "awaiting_review", "succeeded", "failed", "refunded"}
            /\ pay[p].hash \in Hashes \cup {NoHash} /\ pay[p].to \in Members \cup {NoOne}
      BY <3>1 DEF Payments
    <3> QED BY <3>3, <3>4 DEF CkInv, Typed, TypeOK
  <2> QED BY <2>1 DEF CkInv, Backed, UsesCounted, Used, UsesBacked, SlotsBacked, PromosRecorded,
                      Priced, DiscountBacked
<1> QED BY <1>1, CheckoutInvariant, PTL

\* One transfer settles one payment, however many handlers ask the explorer about
\* it at once (verify_and_apply_usdt_payment, uq_pay_tx_network_hash).
THEOREM TransferPaysOnceCorrect == Spec => []TransferPaysOnce
BY CheckoutInvariant, PTL DEF CkInv

\* Every sale is served once or not at all, and one that was given back opens
\* nothing afterwards: each step of a checkout is a step of SaleLife or leaves it
\* alone (fulfill_payment, redeem_gift_token, moderate_manual).
THEOREM ImplementsSaleLifeCorrect == Spec => ImplementsSaleLife
<1>1. Init => Life!Init
  <2> SUFFICES ASSUME Init PROVE Life!Init
    OBVIOUS
  <2>1. DOMAIN pay = {}
    BY EmptySeq, LenProperties DEF Init
  <2> QED BY <2>1 DEF Init, Life!Init, Stage
<1>2. CkInv /\ [Next]_vars => [Life!Next]_<<Stage, opened>>
  BY CheckoutStep
<1> QED BY <1>1, <1>2, CheckoutInvariant, PTL DEF Spec, ImplementsSaleLife, Life!Spec
=============================================================================
