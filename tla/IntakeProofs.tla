---------------------------- MODULE IntakeProofs ----------------------------
(***************************************************************************)
(* In every instance of Intake - any contracts, any number of renewals,    *)
(* any conditions followed - access is opened once for a charge, and every *)
(* sale of a journal that was read is served, shown or written off.        *)
(***************************************************************************)
EXTENDS IntakeProperties, TLAPS

Typed ==
  /\ way \in [Contracts -> {"none", "invoice", "page", "stripe"}]
  /\ charge \in [Charges -> {"none", "declined", "paid", "cheap"}]
  /\ DOMAIN pay \subseteq PaymentIds /\ \A p \in DOMAIN pay : pay[p] \in PayRow
  /\ sub \in [Contracts -> {"none", "active", "past_due"}]
  /\ opened \in [Charges -> Nat]
  /\ alerted \subseteq Charges /\ told \subseteq covered /\ covered \subseteq Charges
  /\ latest \in [Conditions -> {"none", "open", "resolved"}] /\ closed \subseteq Conditions

\* A webhook tells what was charged.
WireKnows ==
  \A m \in wire :
    /\ m.of \in Charges /\ charge[m.of] # "none"
    /\ m.kind = "paid" => Paid(m.of)

\* Charges and payments belong to contracts that were opened.
Begun ==
  /\ \A c \in Charges : charge[c] # "none" => way[c[1]] # "none"
  /\ \A p \in DOMAIN pay : way[p[1]] # "none"

\* A payment holds an invoice of its own contract.
OwnInvoice(ps) == \A p \in DOMAIN ps : ps[p].invoice # None => ps[p].invoice[1] = p[1]

Settled == \A p \in DOMAIN pay : pay[p].status = "succeeded" => pay[p].approved

OneInvoice ==
  \A p, q \in DOMAIN pay :
    pay[p].invoice # None /\ pay[p].invoice = pay[q].invoice => p = q

Counted ==
  \A c \in Charges :
    /\ opened[c] = (IF Served(c) THEN 1 ELSE 0)
    /\ Served(c) => Paid(c)

\* The row a Lava checkout wrote holds the first charge, unless a run has found
\* that one in the journal before: so the first charge is served if the row is.
FirstInvoice(ps) ==
  \A k \in Contracts :
    (Checkout(k) \in DOMAIN ps /\ way[k] = "invoice") =>
      (ps[Checkout(k)].invoice = <<k, 1>> \/ <<k, 1>> \in covered)

\* A renewal follows the night in which its predecessor was found.
InOrder ==
  \A c, d \in Charges :
    (c[1] = d[1] /\ c[2] < d[2] /\ way[c[1]] = "invoice" /\ charge[d] # "none") => c \in covered

\* What succeeded when the run read the books still stands.
StillTrue(ps) ==
  \A p \in DOMAIN ps :
    /\ way[p[1]] # "none"
    /\ ps[p].status = "succeeded" =>
         (p \in DOMAIN pay /\ pay[p].status = "succeeded" /\ pay[p].invoice = ps[p].invoice)

ReadKnows ==
  job.at = "read" =>
    /\ DOMAIN job.pay \subseteq PaymentIds
    /\ OwnInvoice(job.pay) /\ FirstInvoice(job.pay) /\ StillTrue(job.pay)

\* A condition that is resolved, or was when the run read the history, was
\* resolved by an operator.
HistoryKnows ==
  \A x \in Conditions :
    /\ latest[x] = "resolved" => x \in closed
    /\ job.at = "compared" /\ job.history[x] = "resolved" => x \in closed

Accounted(c) == Served(c) \/ Reported(c) \/ WrittenOff(c)

\* The items of a run are about sales of the contract of the charge they name,
\* and name what it found in the journal and nobody accounted for.
ListKnows ==
  job.at = "compared" =>
    /\ DOMAIN job.names \subseteq job.listed /\ job.listed \subseteq Charges
    /\ \A c \in DOMAIN job.names :
         job.names[c][1] \in SaleKinds /\ job.names[c][2][1] = c[1]
    /\ \A c \in job.listed : Accounted(c) \/ c \in DOMAIN job.names

Books == Settled /\ OwnInvoice(pay) /\ OneInvoice /\ Counted
Journals == FirstInvoice(pay) /\ InOrder /\ SaleAccounted /\ ReadKnows /\ HistoryKnows /\ ListKnows
IInv == Typed /\ WireKnows /\ Begun /\ Books /\ Journals

(***************************************************************************)
(* The operators.                                                          *)
(***************************************************************************)
LEMMA PairParts ==
  ASSUME NEW a, NEW b, NEW i, NEW j, <<a, b>> = <<i, j>> PROVE a = i /\ b = j
OBVIOUS

LEMMA ConditionIsNotNone ==
  ASSUME NEW kind \in Kinds, NEW c \in Contracts \X Nat PROVE <<kind, c>> # None
<1> DEFINE Pairs == Contracts \X Nat
<1>1. c \in Pairs /\ None \notin Kinds \X Pairs
  BY IntakeAssumption
<1> HIDE DEF Pairs
<1> QED BY <1>1

LEMMA ChargeParts ==
  ASSUME NEW c \in Charges
  PROVE  /\ c = <<c[1], c[2]>> /\ c[1] \in Contracts /\ c[2] \in Nat /\ c[2] >= 1
         /\ c # None /\ c \in PaymentIds
BY IntakeAssumption DEF Charges, PaymentIds

LEMMA CheckoutParts ==
  ASSUME NEW k \in Contracts
  PROVE  /\ Checkout(k) \in PaymentIds /\ Checkout(k)[1] = k
         /\ <<k, 1>> \in Charges /\ <<k, 1>> # None
BY IntakeAssumption DEF Charges, PaymentIds, Checkout

LEMMA PaymentParts ==
  ASSUME NEW p \in PaymentIds PROVE p[1] \in Contracts
BY DEF Charges, PaymentIds, Checkout

\* A charge goes to a payment of its contract, to the one that holds its
\* invoice if there is one.
LEMMA TargetOwn ==
  ASSUME Typed, OwnInvoice(pay), NEW c \in Charges, NEW p \in Target(c)
  PROVE  /\ p \in PaymentIds /\ p[1] = c[1]
         /\ \A q \in DOMAIN pay : pay[q].invoice = c => p \in ByInvoice(c)
<1>1. CASE ByInvoice(c) # {}
  <2>1. p \in DOMAIN pay /\ pay[p].invoice = c /\ p \in ByInvoice(c)
    BY <1>1 DEF Target, Find, ByInvoice
  <2> QED BY <2>1, ChargeParts DEF Typed, OwnInvoice
<1>2. CASE ByInvoice(c) = {}
  <2>1. \A q \in DOMAIN pay : pay[q].invoice # c
    BY <1>2 DEF ByInvoice
  <2>2. p \in Named(c) \/ p \in ByContract(c) \/ p = c
    BY <1>2 DEF Target, Find
  <2>3. CASE p \in Named(c)
    BY <2>1, <2>3, ChargeParts, CheckoutParts DEF Named
  <2>4. CASE p \in ByContract(c)
    BY <2>1, <2>4 DEF ByContract, Typed
  <2>5. CASE p = c
    BY <2>1, <2>5, ChargeParts
  <2> QED BY <2>2, <2>3, <2>4, <2>5
<1> QED BY <1>1, <1>2

LEMMA FindIsTarget == \A c \in Charges : Find(c) \subseteq Target(c)
BY DEF Target

(***************************************************************************)
(* What changes of the books leave alone.                                  *)
(***************************************************************************)
\* What succeeded stands, what was opened stays, what was told stays told.
Stands ==
  /\ \A p \in DOMAIN pay :
       pay[p].status = "succeeded" =>
         (p \in DOMAIN pay' /\ pay'[p].status = "succeeded" /\ pay'[p].invoice = pay[p].invoice)
  /\ \A k \in Contracts : way[k] # "none" => way'[k] = way[k]
  /\ alerted \subseteq alerted'

LEMMA ServedStands == ASSUME Stands, NEW c PROVE Served(c) => Served(c)'
BY DEF Stands, Served

\* The run under way and the sales accounted for do not mind.
LEMMA DeskStands ==
  ASSUME Typed, Stands, UNCHANGED desk, SaleAccounted, ReadKnows, HistoryKnows, ListKnows
  PROVE  SaleAccounted' /\ ReadKnows' /\ HistoryKnows' /\ ListKnows'
<1> USE DEF desk
<1>1. \A c : Accounted(c) => Accounted(c)'
  BY ServedStands DEF Stands, Reported, Accounted, WrittenOff
<1>2. SaleAccounted'
  BY <1>1 DEF SaleAccounted, Accounted
<1>3. ListKnows' /\ HistoryKnows'
  <2>1. HistoryKnows'
    BY DEF HistoryKnows
  <2>2. ListKnows'
    BY <1>1 DEF ListKnows
  <2> QED BY <2>1, <2>2
<1>4. ReadKnows'
  <2> SUFFICES ASSUME job.at = "read"
               PROVE  FirstInvoice(job.pay)' /\ StillTrue(job.pay)'
    BY DEF ReadKnows, OwnInvoice
  <2>1. /\ DOMAIN job.pay \subseteq PaymentIds
        /\ FirstInvoice(job.pay) /\ StillTrue(job.pay)
    BY DEF ReadKnows
  <2>2. FirstInvoice(job.pay)'
    BY <2>1, CheckoutParts DEF FirstInvoice, StillTrue, Stands
  <2>3. StillTrue(job.pay)'
    BY <2>1, PaymentParts DEF StillTrue, Stands
  <2> QED BY <2>1, <2>2, <2>3
<1> QED BY <1>2, <1>3, <1>4

(***************************************************************************)
(* A charge is written on a payment.                                       *)
(***************************************************************************)
\* fulfill_payment and the failure of a payment: the row is the charge's own or
\* a free one, so no other charge loses its payment.
LEMMA BindKeeps ==
  ASSUME Typed, Begun, Books, FirstInvoice(pay), InOrder,
         NEW c \in Charges, charge[c] # "none",
         NEW p \in Target(c), ~Approved(p),
         NEW new \in PayRow, new.invoice = c, new.status = "succeeded" => new.approved,
         pay' = [q \in DOMAIN pay \cup {p} |-> IF q = p THEN new ELSE pay[q]],
         UNCHANGED <<way, charge, covered>>
  PROVE  /\ DOMAIN pay' \subseteq PaymentIds /\ \A q \in DOMAIN pay' : pay'[q] \in PayRow
         /\ Begun' /\ Settled' /\ OwnInvoice(pay)' /\ OneInvoice' /\ FirstInvoice(pay)'
         /\ \A q \in DOMAIN pay :
              pay[q].status = "succeeded" =>
                (q \in DOMAIN pay' /\ pay'[q] = pay[q])
         /\ ~Served(c) /\ (Served(c)' <=> new.status = "succeeded")
         /\ \A d \in Charges : d # c => (Served(d)' <=> Served(d))
<1>1. /\ p \in PaymentIds /\ p[1] = c[1]
      /\ \A q \in DOMAIN pay : pay[q].invoice = c => p \in ByInvoice(c)
  BY TargetOwn DEF Books
<1>2. p \in DOMAIN pay => pay[p].status # "succeeded"
  BY DEF Approved, Books, Settled
<1>3. \A q \in DOMAIN pay : pay[q].invoice = c => q = p
  BY <1>1, ChargeParts DEF ByInvoice, Books, OneInvoice
<1>4. /\ DOMAIN pay' = DOMAIN pay \cup {p} /\ pay'[p] = new
      /\ \A q \in DOMAIN pay : q # p => pay'[q] = pay[q]
  OBVIOUS
<1>5. DOMAIN pay' \subseteq PaymentIds /\ \A q \in DOMAIN pay' : pay'[q] \in PayRow
  BY <1>1, <1>4 DEF Typed
<1>6. Begun'
  BY <1>1, <1>4 DEF Begun
<1>7. Settled'
  BY <1>4 DEF Books, Settled
<1>8. OwnInvoice(pay)'
  BY <1>1, <1>4 DEF Books, OwnInvoice
<1>9. OneInvoice'
  BY <1>3, <1>4 DEF Books, OneInvoice
<1>10. FirstInvoice(pay)'
  <2> SUFFICES ASSUME NEW k \in Contracts, Checkout(k) \in DOMAIN pay', way[k] = "invoice"
               PROVE  pay'[Checkout(k)].invoice = <<k, 1>> \/ <<k, 1>> \in covered
    BY DEF FirstInvoice
  <2>1. CASE Checkout(k) # p
    BY <1>4, <2>1 DEF FirstInvoice
  <2>2. CASE Checkout(k) = p
    <3>1. c[1] = k /\ pay'[Checkout(k)].invoice = c
      BY <1>1, <1>4, <2>2, CheckoutParts
    <3>2. <<k, 1>> \in Charges /\ <<k, 1>>[1] = k /\ <<k, 1>>[2] = 1
      BY CheckoutParts
    <3>3. c[2] > 1 => <<k, 1>> \in covered
      BY <3>1, <3>2 DEF InOrder
    <3> QED BY <3>1, <3>3, ChargeParts
  <2> QED BY <2>1, <2>2
<1>11. \A q \in DOMAIN pay :
         pay[q].status = "succeeded" => (q \in DOMAIN pay' /\ pay'[q] = pay[q])
  BY <1>2, <1>4
<1>12. ~Served(c)
  BY <1>2, <1>3 DEF Served
<1>13. Served(c)' <=> (new.status = "succeeded")
  <2>1. \A q \in DOMAIN pay : q # p => pay'[q].invoice # c
    BY <1>3, <1>4
  <2> QED BY <1>4, <2>1 DEF Served
<1>14. \A d \in Charges : d # c => (Served(d)' <=> Served(d))
  <2> SUFFICES ASSUME NEW d \in Charges, d # c PROVE (Served(d)' <=> Served(d))
    OBVIOUS
  <2>1. Served(d) => Served(d)'
    BY <1>2, <1>4 DEF Served
  <2>2. Served(d)' => Served(d)
    BY <1>4 DEF Served
  <2> QED BY <2>1, <2>2
<1> QED BY <1>5, <1>6, <1>7, <1>8, <1>9, <1>10, <1>11, <1>12, <1>13, <1>14

\* A webhook that leaves the payments' outcomes and invoices as they are.
LEMMA SameOutcomes ==
  ASSUME Typed, Begun, Books, FirstInvoice(pay),
         DOMAIN pay' = DOMAIN pay,
         \A q \in DOMAIN pay :
           /\ pay'[q] \in PayRow /\ pay'[q].status = pay[q].status
           /\ pay'[q].approved = pay[q].approved /\ pay'[q].invoice = pay[q].invoice,
         UNCHANGED <<way, charge, covered, opened>>
  PROVE  /\ Begun' /\ Books' /\ FirstInvoice(pay)'
         /\ \A q \in DOMAIN pay' : pay'[q] \in PayRow
         /\ \A q \in DOMAIN pay :
              pay[q].status = "succeeded" =>
                (q \in DOMAIN pay' /\ pay'[q].status = "succeeded" /\ pay'[q].invoice = pay[q].invoice)
<1>1. Begun'
  BY DEF Begun
<1>2. Settled' /\ OwnInvoice(pay)' /\ OneInvoice'
  BY DEF Books, Settled, OwnInvoice, OneInvoice
<1>3. \A c : Served(c)' <=> Served(c)
  BY DEF Served
<1>4. Counted'
  BY <1>3 DEF Books, Counted, Paid
<1>5. FirstInvoice(pay)'
  BY DEF FirstInvoice
<1> QED BY <1>1, <1>2, <1>4, <1>5 DEF Books

(***************************************************************************)
(* The actions.                                                            *)
(***************************************************************************)
LEMMA IntakeStart == Init => IInv
<1> SUFFICES ASSUME Init PROVE IInv
  OBVIOUS
<1> USE DEF Init
<1>1. DOMAIN pay = {} /\ job.at = "idle"
  BY DEF Idle
<1>2. Typed
  BY <1>1 DEF Typed
<1>3. WireKnows /\ Begun
  BY <1>1 DEF WireKnows, Begun
<1>4. Books
  BY <1>1 DEF Books, Settled, OwnInvoice, OneInvoice, Counted, Served
<1>5. Journals
  BY <1>1 DEF Journals, FirstInvoice, InOrder, SaleAccounted, ReadKnows, HistoryKnows, ListKnows
<1> QED BY <1>2, <1>3, <1>4, <1>5 DEF IInv

LEMMA OfferKeeps == ASSUME IInv, NEW k \in Contracts, Offer(k) PROVE IInv'
<1> USE DEF IInv
<1>1. PICK kind \in {"invoice", "page", "stripe"}, committed \in BOOLEAN :
        /\ way' = [way EXCEPT ![k] = kind]
        /\ pay' = IF committed
                  THEN [p \in DOMAIN pay \cup {Checkout(k)} |->
                          IF p = Checkout(k) THEN Pending(kind, k) ELSE pay[p]]
                  ELSE pay
  BY DEF Offer
<1>2. /\ way[k] = "none"
      /\ UNCHANGED <<charge, wire, events, sub, opened, alerted, latest, job, covered, told, closed>>
  BY DEF Offer, desk
<1>3. /\ way' \in [Contracts -> {"none", "invoice", "page", "stripe"}] /\ way'[k] = kind
      /\ \A j \in Contracts : j # k => way'[j] = way[j]
  BY <1>1 DEF Typed
<1>4. Checkout(k) \notin DOMAIN pay
  BY <1>2, CheckoutParts DEF Begun
<1> DEFINE new == Pending(kind, k)
<1>5. /\ new \in PayRow /\ new.status = "pending"
      /\ new.invoice \in {<<k, 1>>, None}
      /\ kind = "invoice" => new.invoice = <<k, 1>>
  BY CheckoutParts DEF Pending, PayRow
<1>6. /\ \A p \in DOMAIN pay : p \in DOMAIN pay' /\ pay'[p] = pay[p]
      /\ \A p \in DOMAIN pay' : p \in DOMAIN pay \/ (p = Checkout(k) /\ pay'[p] = new)
  <2> HIDE DEF new
  <2>1. CASE committed
    <3>1. pay' = [p \in DOMAIN pay \cup {Checkout(k)} |->
                    IF p = Checkout(k) THEN new ELSE pay[p]]
      BY <1>1, <2>1 DEF new
    <3> QED BY <1>4, <3>1
  <2>2. CASE ~committed
    BY <1>1, <2>2
  <2> QED BY <2>1, <2>2
<1> HIDE DEF new
<1>7. Typed'
  BY <1>2, <1>3, <1>5, <1>6, CheckoutParts DEF Typed
<1>8. WireKnows'
  BY <1>2 DEF WireKnows, Paid
<1>9. Begun'
  <2>1. \A j \in Contracts : way[j] # "none" => way'[j] # "none"
    BY <1>2, <1>3
  <2>2. \A c \in Charges : charge'[c] # "none" => way'[c[1]] # "none"
    BY <1>2, <2>1, ChargeParts DEF Begun
  <2>3. \A p \in DOMAIN pay : way'[p[1]] # "none"
    BY <2>1, PaymentParts DEF Begun, Typed
  <2>4. way'[Checkout(k)[1]] # "none"
    BY <1>3, CheckoutParts
  <2> QED BY <1>6, <2>2, <2>3, <2>4 DEF Begun
<1>10. \A p \in DOMAIN pay : pay[p].invoice # <<k, 1>>
  <2> SUFFICES ASSUME NEW p \in DOMAIN pay, pay[p].invoice = <<k, 1>> PROVE FALSE
    OBVIOUS
  <2>1. <<k, 1>> # None /\ <<k, 1>>[1] = k
    BY CheckoutParts
  <2>2. p[1] = k
    BY <2>1 DEF Books, OwnInvoice
  <2> QED BY <1>2, <2>2 DEF Begun
<1>11. Books'
  <2>1. Settled'
    BY <1>5, <1>6 DEF Books, Settled
  <2>2. OwnInvoice(pay)'
    BY <1>5, <1>6, CheckoutParts DEF Books, OwnInvoice
  <2>3. OneInvoice'
    BY <1>5, <1>6, <1>10 DEF Books, OneInvoice
  <2>4. \A c : Served(c)' <=> Served(c)
    BY <1>5, <1>6 DEF Served
  <2>5. Counted'
    BY <1>2, <2>4 DEF Books, Counted, Paid
  <2> QED BY <2>1, <2>2, <2>3, <2>5 DEF Books
<1>12. FirstInvoice(pay)'
  <2> SUFFICES ASSUME NEW j \in Contracts, Checkout(j) \in DOMAIN pay', way'[j] = "invoice"
               PROVE  pay'[Checkout(j)].invoice = <<j, 1>> \/ <<j, 1>> \in covered'
    BY DEF FirstInvoice
  <2>1. CASE j # k
    BY <1>2, <1>3, <1>6, <2>1, CheckoutParts DEF Journals, FirstInvoice
  <2>2. CASE j = k
    BY <1>3, <1>4, <1>5, <1>6, <2>2
  <2> QED BY <2>1, <2>2
<1>13. InOrder'
  BY <1>2, <1>3, ChargeParts DEF Journals, InOrder, Begun
<1>14. Stands
  BY <1>2, <1>3, <1>6 DEF Stands
<1>15. SaleAccounted' /\ ReadKnows' /\ HistoryKnows' /\ ListKnows'
  BY <1>2, <1>14, DeskStands DEF Journals, desk
<1> QED BY <1>7, <1>8, <1>9, <1>11, <1>12, <1>13, <1>15 DEF Journals

\* A charge at the provider: only the wire and the charge itself change.
LEMMA ChargedKeeps ==
  ASSUME IInv, NEW c \in Charges, Due(c), NEW price \in {"paid", "cheap", "declined"},
         price = "declined" => charge[c] = "none",
         charge' = [charge EXCEPT ![c] = price],
         \A m \in wire' \ wire : m.of = c /\ (m.kind = "paid" => price # "declined"),
         UNCHANGED <<way, events, books, alerted, desk>>
  PROVE  IInv'
<1> USE DEF IInv, books, desk
<1>1. /\ charge' \in [Charges -> {"none", "declined", "paid", "cheap"}] /\ charge'[c] = price
      /\ \A d \in Charges : d # c => charge'[d] = charge[d]
  BY DEF Typed
<1>2. \A d \in Charges : /\ Paid(d) => Paid(d)'
                         /\ charge[d] # "none" => charge'[d] # "none"
  BY <1>1 DEF Paid, Due
<1>3. Typed'
  BY <1>1 DEF Typed
<1>4. WireKnows'
  BY <1>1, <1>2 DEF WireKnows, Paid
<1>5. Begun'
  BY <1>1 DEF Begun, Due
<1>6. \A d : Served(d)' <=> Served(d)
  BY DEF Served
<1>7. Books'
  BY <1>2, <1>6 DEF Books, Settled, OwnInvoice, OneInvoice, Counted
<1>8. FirstInvoice(pay)'
  BY DEF Journals, FirstInvoice
<1>9. InOrder'
  <2> SUFFICES ASSUME NEW b \in Charges, NEW d \in Charges,
                      b[1] = d[1], b[2] < d[2], way[b[1]] = "invoice", charge'[d] # "none"
               PROVE  b \in covered
    BY DEF InOrder
  <2>1. CASE d # c
    BY <1>1, <2>1 DEF Journals, InOrder
  <2>2. CASE d = c
    <3> DEFINE before == <<c[1], c[2] - 1>>
    <3>1. c[2] > 1 /\ before \in Charges
      BY <2>2, ChargeParts, IntakeAssumption DEF Charges
    <3>2. Paid(before) /\ before \in covered
      BY <2>2, <3>1 DEF Due, First
    <3>3. b[2] < before[2] => b \in covered
      BY <2>2, <3>1, <3>2 DEF Journals, InOrder, Paid
    <3>4. b[2] >= before[2] => b = before
      BY <2>2, ChargeParts
    <3>5. b[2] \in Nat /\ before[2] \in Nat
      BY <3>1, ChargeParts
    <3> QED BY <3>2, <3>3, <3>4, <3>5
  <2> QED BY <2>1, <2>2
<1>10. Stands
  BY DEF Stands
<1>11. SaleAccounted' /\ ReadKnows' /\ HistoryKnows' /\ ListKnows'
  BY <1>10, DeskStands DEF Journals
<1> QED BY <1>3, <1>4, <1>5, <1>7, <1>8, <1>9, <1>11 DEF Journals

LEMMA ProvidersKeep ==
  ASSUME IInv, NEW c \in Charges, Settles(c) \/ Declines(c) PROVE IInv'
<1>1. CASE Settles(c)
  <2>1. PICK price \in {"paid", "cheap"} : charge' = [charge EXCEPT ![c] = price]
    BY <1>1 DEF Settles
  <2>2. \A m \in wire' \ wire : m.of = c
    BY <1>1 DEF Settles, Message
  <2> QED BY <1>1, <2>1, <2>2, ChargedKeeps DEF Settles
<1>2. CASE Declines(c)
  <2>1. \A m \in wire' \ wire : m.of = c /\ m.kind = "failed"
    BY <1>2 DEF Declines, Message
  <2> QED BY <1>2, <2>1, ChargedKeeps DEF Declines
<1> QED BY <1>1, <1>2

(***************************************************************************)
(* A webhook.                                                              *)
(***************************************************************************)
\* What a webhook may make of the books.
Written ==
  /\ DOMAIN pay' \subseteq PaymentIds /\ \A q \in DOMAIN pay' : pay'[q] \in PayRow
  /\ sub' \in [Contracts -> {"none", "active", "past_due"}]
  /\ opened' \in [Charges -> Nat]
  /\ Begun' /\ Books' /\ FirstInvoice(pay)'
  /\ \A q \in DOMAIN pay :
       pay[q].status = "succeeded" =>
         (q \in DOMAIN pay' /\ pay'[q].status = "succeeded" /\ pay'[q].invoice = pay[q].invoice)

LEMMA UntouchedWrites == ASSUME IInv, UNCHANGED <<way, charge, covered, pay, sub, opened>> PROVE Written
<1>1. Books'
  BY DEF IInv, Books, Settled, OwnInvoice, OneInvoice, Counted, Served, Paid
<1>2. Begun' /\ FirstInvoice(pay)'
  BY DEF IInv, Journals, Begun, FirstInvoice
<1> QED BY <1>1, <1>2 DEF IInv, Typed, Written

\* process_invoice_paid: the payment that fulfils the charge had fulfilled none.
LEMMA PaidWrites ==
  ASSUME IInv, NEW m \in wire, m.kind = "paid", TakePaid(m), UNCHANGED <<way, charge, covered>>
  PROVE  Written
<1> DEFINE c == m.of
<1>1. c \in Charges /\ charge[c] # "none" /\ Paid(c)
  BY DEF IInv, WireKnows
<1> HIDE DEF c
<1>2. CASE UNCHANGED books
  BY <1>2, UntouchedWrites DEF books
<1>3. ASSUME NEW p \in Target(c), ~Approved(p), Fulfil(c, p) PROVE Written
  <2> DEFINE new == [status |-> "succeeded", approved |-> TRUE, bound |-> TRUE, invoice |-> c]
  <2>1. new \in PayRow /\ new.invoice = c /\ new.status = "succeeded" /\ new.approved
    BY <1>1 DEF PayRow
  <2>2. /\ pay' = [q \in DOMAIN pay \cup {p} |-> IF q = p THEN new ELSE pay[q]]
        /\ opened' = [opened EXCEPT ![c] = @ + 1]
        /\ sub' = [sub EXCEPT ![c[1]] = "active"]
    BY <1>3 DEF Fulfil, Bind
  <2> HIDE DEF new
  <2>3. /\ DOMAIN pay' \subseteq PaymentIds /\ \A q \in DOMAIN pay' : pay'[q] \in PayRow
        /\ Begun' /\ Settled' /\ OwnInvoice(pay)' /\ OneInvoice' /\ FirstInvoice(pay)'
        /\ \A q \in DOMAIN pay :
             pay[q].status = "succeeded" => (q \in DOMAIN pay' /\ pay'[q] = pay[q])
        /\ ~Served(c) /\ (Served(c)' <=> new.status = "succeeded")
        /\ \A d \in Charges : d # c => (Served(d)' <=> Served(d))
    BY <1>1, <1>3, <2>1, <2>2, BindKeeps DEF IInv, Journals
  <2>4. opened[c] = 0 /\ opened' \in [Charges -> Nat] /\ opened'[c] = 1
    BY <1>1, <2>2, <2>3 DEF IInv, Typed, Books, Counted
  <2>5. \A d \in Charges : d # c => opened'[d] = opened[d]
    BY <1>1, <2>2 DEF IInv, Typed
  <2>6. Counted'
    BY <1>1, <2>1, <2>3, <2>4, <2>5 DEF IInv, Books, Counted, Paid
  <2>7. sub' \in [Contracts -> {"none", "active", "past_due"}]
    BY <2>2 DEF IInv, Typed
  <2> QED BY <2>3, <2>4, <2>6, <2>7 DEF Written, Books
<1> QED BY <1>2, <1>3 DEF TakePaid, c

\* process_invoice_payment_failed: a payment that fulfilled a charge stays.
LEMMA FailedWrites ==
  ASSUME IInv, NEW m \in wire, TakeFailed(m), UNCHANGED <<way, charge, covered>>
  PROVE  Written
<1> DEFINE c == m.of
<1>1. c \in Charges /\ charge[c] # "none"
  BY DEF IInv, WireKnows
<1> HIDE DEF c
<1>2. /\ sub' \in [Contracts -> {"none", "active", "past_due"}]
      /\ opened' = opened
  BY DEF TakeFailed, IInv, Typed
<1>3. CASE UNCHANGED pay
  <2>1. \A d : Served(d)' <=> Served(d)
    BY <1>3 DEF Served
  <2>2. Books'
    BY <1>2, <1>3, <2>1 DEF IInv, Books, Settled, OwnInvoice, OneInvoice, Counted, Paid
  <2>3. Begun' /\ FirstInvoice(pay)'
    BY <1>3 DEF IInv, Journals, Begun, FirstInvoice
  <2> QED BY <1>2, <1>3, <2>2, <2>3 DEF IInv, Typed, Written
<1>4. ASSUME NEW p \in Find(c), ~Approved(p), Bind(c, p, "failed", FALSE) PROVE Written
  <2> DEFINE new == [status |-> "failed", approved |-> FALSE, bound |-> TRUE, invoice |-> c]
  <2>1. new \in PayRow /\ new.invoice = c /\ new.status = "failed"
    BY <1>1 DEF PayRow
  <2>2. pay' = [q \in DOMAIN pay \cup {p} |-> IF q = p THEN new ELSE pay[q]]
    BY <1>4 DEF Bind
  <2> HIDE DEF new
  <2>3. p \in Target(c)
    BY <1>1, FindIsTarget
  <2>4. /\ DOMAIN pay' \subseteq PaymentIds /\ \A q \in DOMAIN pay' : pay'[q] \in PayRow
        /\ Begun' /\ Settled' /\ OwnInvoice(pay)' /\ OneInvoice' /\ FirstInvoice(pay)'
        /\ \A q \in DOMAIN pay :
             pay[q].status = "succeeded" => (q \in DOMAIN pay' /\ pay'[q] = pay[q])
        /\ ~Served(c) /\ (Served(c)' <=> new.status = "succeeded")
        /\ \A d \in Charges : d # c => (Served(d)' <=> Served(d))
    BY <1>1, <1>4, <2>1, <2>2, <2>3, BindKeeps DEF IInv, Journals
  <2>5. \A d \in Charges : Served(d)' <=> Served(d)
    BY <2>1, <2>4
  <2>6. Counted'
    BY <1>2, <2>5 DEF IInv, Books, Counted, Paid
  <2> QED BY <1>2, <2>4, <2>6 DEF Written, Books, IInv, Typed
<1> QED BY <1>3, <1>4 DEF TakeFailed, c

LEMMA CompletedWrites ==
  ASSUME IInv, NEW m \in wire, TakeCompleted(m), UNCHANGED <<way, charge, covered>>
  PROVE  Written
<1> DEFINE p == Checkout(m.of[1])
<1>1. /\ p \in DOMAIN pay /\ pay' = [pay EXCEPT ![p].bound = TRUE]
      /\ UNCHANGED <<sub, opened>>
  BY DEF TakeCompleted
<1> HIDE DEF p
<1>2. /\ DOMAIN pay' = DOMAIN pay
      /\ \A q \in DOMAIN pay : pay'[q] = IF q = p THEN [pay[q] EXCEPT !.bound = TRUE] ELSE pay[q]
  BY <1>1
<1>3. \A q \in DOMAIN pay :
        /\ pay'[q] \in PayRow /\ pay'[q].status = pay[q].status
        /\ pay'[q].approved = pay[q].approved /\ pay'[q].invoice = pay[q].invoice
  <2> SUFFICES ASSUME NEW q \in DOMAIN pay
               PROVE  /\ pay'[q] \in PayRow /\ pay'[q].status = pay[q].status
                      /\ pay'[q].approved = pay[q].approved /\ pay'[q].invoice = pay[q].invoice
    OBVIOUS
  <2>1. pay[q] \in PayRow
    BY DEF IInv, Typed
  <2> QED BY <1>2, <2>1 DEF PayRow
<1>4. /\ Begun' /\ Books' /\ FirstInvoice(pay)'
      /\ \A q \in DOMAIN pay' : pay'[q] \in PayRow
      /\ \A q \in DOMAIN pay :
           pay[q].status = "succeeded" =>
             (q \in DOMAIN pay' /\ pay'[q].status = "succeeded" /\ pay'[q].invoice = pay[q].invoice)
  BY <1>1, <1>2, <1>3, SameOutcomes DEF IInv, Journals
<1> QED BY <1>1, <1>2, <1>4 DEF Written, IInv, Typed

LEMMA DeliverKeeps == ASSUME IInv, NEW m \in wire, Deliver(m) PROVE IInv'
<1> USE DEF desk
<1>1. UNCHANGED <<way, charge, latest, job, covered, told, closed>> /\ wire' \subseteq wire
  BY DEF Deliver
<1>2. alerted \subseteq alerted' /\ alerted' \subseteq Charges
  BY DEF Deliver, Tells, IInv, Typed, WireKnows
<1>3. Written
  <2>1. CASE UNCHANGED <<events, books>>
    BY <1>1, <2>1, UntouchedWrites DEF books
  <2>2. CASE m.kind = "paid" /\ TakePaid(m)
    BY <1>1, <2>2, PaidWrites
  <2>3. CASE m.kind = "failed" /\ TakeFailed(m)
    BY <1>1, <2>3, FailedWrites
  <2>4. CASE m.kind = "completed" /\ TakeCompleted(m)
    BY <1>1, <2>4, CompletedWrites
  <2> QED BY <2>1, <2>2, <2>3, <2>4 DEF Deliver
<1>4. Typed'
  BY <1>1, <1>2, <1>3 DEF IInv, Typed, Written
<1>5. WireKnows'
  BY <1>1 DEF IInv, WireKnows, Paid
<1>6. InOrder'
  BY <1>1 DEF IInv, Journals, InOrder
<1>7. Stands
  BY <1>1, <1>2, <1>3 DEF Stands, Written
<1>8. SaleAccounted' /\ ReadKnows' /\ HistoryKnows' /\ ListKnows'
  BY <1>1, <1>7, DeskStands DEF IInv, Journals
<1> QED BY <1>3, <1>4, <1>5, <1>6, <1>8 DEF IInv, Journals, Written

(***************************************************************************)
(* The reconciliation run.                                                 *)
(***************************************************************************)
\* Of a sale in the journal the run knows that it was served or accounted for,
\* or it names it: a newer sale that shows the same condition cannot hide it.
LEMMA NamedOrServed ==
  ASSUME IInv, job.at = "read", NEW c \in Journal
  PROVE  Accounted(c) \/ c \in Names(job)
<1> USE DEF Accounted
<1> SUFFICES ASSUME c \notin Names(job) PROVE Accounted(c)
  OBVIOUS
<1>1. /\ OwnInvoice(job.pay) /\ FirstInvoice(job.pay) /\ StillTrue(job.pay)
      /\ InOrder /\ SaleAccounted
  BY DEF IInv, Journals, ReadKnows
<1>2. c \in Charges /\ way[c[1]] = "invoice" /\ Paid(c)
  BY DEF Journal
<1>3. \A d \in Journal : Match(job, d) # {} =>
        \E p \in Match(job, d) :
          /\ \/ job.pay[p].status # "succeeded" /\ Finding(job, d) = <<"sale not succeeded", p>>
             \/ job.pay[p].status = "succeeded" /\ Finding(job, d) \in {<<"sale never fulfilled", p>>, None}
  <2> TAKE d \in Journal
  <2> HAVE Match(job, d) # {}
  <2> DEFINE p == CHOOSE p \in Match(job, d) : TRUE
  <2>1. p \in Match(job, d)
    OBVIOUS
  <2> QED BY <2>1 DEF Finding
<1>4. \A d \in Journal : Match(job, d) = {} => Finding(job, d) = <<"sale without payment", d>>
  BY DEF Finding
<1>5. CASE Finding(job, c) = None
  <2>1. Match(job, c) # {}
    <3>1. "sale without payment" \in Kinds /\ c \in Contracts \X Nat
      BY <1>2 DEF Kinds, Charges
    <3> QED BY <1>4, <1>5, <3>1, ConditionIsNotNone
  <2>2. PICK p \in Match(job, c) : job.pay[p].status = "succeeded"
    <3>1. PICK p \in Match(job, c) :
            \/ job.pay[p].status # "succeeded" /\ Finding(job, c) = <<"sale not succeeded", p>>
            \/ job.pay[p].status = "succeeded"
      BY <1>3, <2>1
    <3>2. p \in PaymentIds
      BY DEF IInv, Journals, ReadKnows, Match
    <3>3. <<"sale not succeeded", p>> # None
      <4>1. "sale not succeeded" \in Kinds /\ p \in Contracts \X Nat
        BY <3>2 DEF Kinds, PaymentIds, Charges, Checkout
      <4> QED BY <4>1, ConditionIsNotNone
    <3> QED BY <1>5, <3>1, <3>3
  <2>3. p \in DOMAIN job.pay /\ p \in DOMAIN pay /\ pay[p].status = "succeeded"
        /\ pay[p].invoice = job.pay[p].invoice
    BY <1>1, <2>2 DEF StillTrue, Match
  <2>4. CASE First(c)
    <3>1. p = Checkout(c[1]) /\ c[1] \in Contracts /\ c = <<c[1], 1>>
      BY <1>2, <2>4, ChargeParts DEF Match, First
    <3>2. job.pay[p].invoice = c \/ c \in covered
      BY <1>1, <1>2, <2>3, <3>1 DEF FirstInvoice
    <3> QED BY <1>1, <2>3, <3>2 DEF SaleAccounted, Served
  <2>5. CASE ~First(c)
    BY <2>3, <2>5 DEF Match, Served
  <2> QED BY <2>4, <2>5
<1>6. CASE Finding(job, c) # None
  <2>1. PICK d \in Journal : d[2] > c[2] /\ Finding(job, d) = Finding(job, c)
    BY <1>6 DEF Names
  <2>2. d \in Charges /\ Paid(d) /\ d # c /\ ~First(d)
    <3>1. d \in Charges /\ Paid(d)
      BY DEF Journal
    <3>2. d[2] \in Nat /\ c[2] \in Nat /\ c[2] >= 1
      BY <1>2, <3>1, ChargeParts
    <3> QED BY <2>1, <3>1, <3>2 DEF First
  <2>3. Match(job, c) # {} /\ Match(job, d) # {}
    <3> DEFINE sale(e) == <<"sale without payment", e>>
    <3>1. sale(c) # sale(d)
      BY <2>2
    <3>2. \A e, f \in Journal :
            (Match(job, e) = {} /\ Match(job, f) # {}) => Finding(job, e) # Finding(job, f) \/ Finding(job, f) = None
      <4> SUFFICES ASSUME NEW e \in Journal, NEW f \in Journal, Match(job, e) = {}, Match(job, f) # {},
                          Finding(job, f) # None
                   PROVE  Finding(job, e) # Finding(job, f)
        OBVIOUS
      <4>1. Finding(job, e) = <<"sale without payment", e>>
        BY <1>4
      <4>2. PICK p : Finding(job, f) \in {<<"sale not succeeded", p>>, <<"sale never fulfilled", p>>}
        BY <1>3
      <4>3. PICK kind \in {"sale not succeeded", "sale never fulfilled"} : Finding(job, f) = <<kind, p>>
        BY <4>2
      <4>4. "sale without payment" # kind
        OBVIOUS
      <4>5. <<"sale without payment", e>> = <<kind, p>> => "sale without payment" = kind
        BY PairParts
      <4> QED BY <4>1, <4>3, <4>4, <4>5, Zenon
    <3>3. Finding(job, d) # None
      BY <1>6, <2>1
    <3> QED BY <1>4, <1>6, <2>1, <3>1, <3>2, <3>3
  <2>4. PICK p \in Match(job, c) : p \in Match(job, d)
    <3>1. PICK p \in Match(job, c) :
            Finding(job, c) \in {<<"sale not succeeded", p>>, <<"sale never fulfilled", p>>}
      BY <1>3, <1>6, <2>3
    <3>2. PICK q \in Match(job, d) :
            Finding(job, d) \in {<<"sale not succeeded", q>>, <<"sale never fulfilled", q>>}
      BY <1>3, <1>6, <2>1, <2>3
    <3>3. p = q
      BY <2>1, <3>1, <3>2, PairParts, Zenon
    <3> QED BY <3>2, <3>3
  <2>5. p \in DOMAIN job.pay /\ job.pay[p].invoice = d
    BY <2>2, <2>4 DEF Match
  <2>6. First(c) /\ p = Checkout(c[1])
    BY <2>2, <2>4, <2>5 DEF Match
  <2>7. d[1] = c[1]
    <3>1. d[1] = p[1]
      BY <1>1, <2>2, <2>5, ChargeParts DEF OwnInvoice
    <3>2. p[1] = c[1]
      BY <1>2, <2>6, ChargeParts, CheckoutParts
    <3> QED BY <3>1, <3>2
  <2>8. c \in covered
    BY <1>1, <1>2, <2>1, <2>2, <2>7 DEF InOrder, Paid
  <2> QED BY <1>1, <2>8 DEF SaleAccounted
<1> QED BY <1>5, <1>6

\* The item that names a sale is about a sale of its contract.
LEMMA FindingOwn ==
  ASSUME IInv, job.at = "read", NEW c \in Names(job)
  PROVE  Finding(job, c)[1] \in SaleKinds /\ Finding(job, c)[2][1] = c[1]
<1>1. /\ c \in Charges /\ Finding(job, c) # None
      /\ OwnInvoice(job.pay)
  BY DEF Names, Journal, IInv, Journals, ReadKnows
<1>2. CASE Match(job, c) = {}
  BY <1>2 DEF Finding, SaleKinds
<1>3. CASE Match(job, c) # {}
  <2>1. PICK p \in Match(job, c) :
          Finding(job, c) \in {<<"sale not succeeded", p>>, <<"sale never fulfilled", p>>}
    BY <1>1, <1>3 DEF Finding
  <2>2. p[1] = c[1]
    <3>1. CASE First(c)
      <4>1. p = Checkout(c[1])
        BY <2>1, <3>1 DEF Match
      <4> QED BY <1>1, <4>1, ChargeParts, CheckoutParts
    <3>2. CASE ~First(c)
      <4>1. p \in DOMAIN job.pay /\ job.pay[p].invoice = c
        BY <2>1, <3>2 DEF Match
      <4> QED BY <1>1, <4>1, ChargeParts DEF OwnInvoice
    <3> QED BY <3>1, <3>2
  <2>3. PICK kind \in SaleKinds : Finding(job, c) = <<kind, p>>
    BY <2>1 DEF SaleKinds
  <2> QED BY <2>2, <2>3
<1> QED BY <1>2, <1>3

\* What a step of the run leaves as it is.
SameBooks == UNCHANGED <<way, charge, wire, events, books, alerted>>

LEMMA SameBooksKeep ==
  ASSUME IInv, SameBooks, covered \subseteq covered', told \subseteq told', closed \subseteq closed'
  PROVE  /\ WireKnows' /\ Begun' /\ Books' /\ FirstInvoice(pay)' /\ InOrder'
         /\ \A c : Accounted(c) => Accounted(c)'
<1> USE DEF SameBooks, books
<1>1. WireKnows' /\ Begun'
  BY DEF IInv, WireKnows, Begun, Paid
<1>2. \A c : Served(c)' <=> Served(c)
  BY DEF Served
<1>3. Books'
  BY <1>2 DEF IInv, Books, Settled, OwnInvoice, OneInvoice, Counted, Paid
<1>4. FirstInvoice(pay)' /\ InOrder'
  BY DEF IInv, Journals, FirstInvoice, InOrder
<1>5. \A c : Accounted(c) => Accounted(c)'
  BY <1>2 DEF Accounted, Reported, WrittenOff
<1> QED BY <1>1, <1>3, <1>4, <1>5

LEMMA RunReadsKeeps == ASSUME IInv, RunReads PROVE IInv'
<1>1. /\ SameBooks /\ UNCHANGED <<latest, covered, told, closed>>
      /\ job'.at = "read" /\ job'.pay = pay
  BY DEF RunReads, SameBooks
<1>2. WireKnows' /\ Begun' /\ Books' /\ FirstInvoice(pay)' /\ InOrder'
  BY <1>1, SameBooksKeep
<1>3. SaleAccounted'
  BY <1>1, SameBooksKeep DEF IInv, Journals, SaleAccounted, Accounted
<1>4. ReadKnows'
  <2>1. /\ OwnInvoice(pay) /\ FirstInvoice(pay) /\ StillTrue(pay)
        /\ DOMAIN pay \subseteq PaymentIds
    BY DEF IInv, Typed, Books, Journals, StillTrue, Begun
  <2>2. OwnInvoice(job.pay)' /\ FirstInvoice(job.pay)' /\ StillTrue(job.pay)'
    BY <1>1, <2>1 DEF OwnInvoice, FirstInvoice, StillTrue, SameBooks, books
  <2> QED BY <1>1, <2>1, <2>2 DEF ReadKnows
<1>5. ListKnows' /\ HistoryKnows'
  BY <1>1 DEF ListKnows, HistoryKnows, IInv, Journals
<1>6. Typed'
  BY <1>1 DEF IInv, Typed, SameBooks, books
<1> QED BY <1>2, <1>3, <1>4, <1>5, <1>6 DEF IInv, Journals

LEMMA RunComparesKeeps ==
  ASSUME IInv, NEW stripe, NEW lava, RunCompares(stripe, lava) PROVE IInv'
<1> DEFINE named == IF lava = "answers" THEN Names(job) ELSE {}
<1>1. /\ SameBooks /\ UNCHANGED <<latest, covered, told, closed>>
      /\ job.at = "read" /\ job'.at = "compared"
      /\ job'.listed = (IF lava = "answers" THEN Journal ELSE {})
      /\ job'.names = [c \in named |-> Finding(job, c)]
      /\ job'.history = latest
  BY DEF RunCompares, SameBooks
<1>2. WireKnows' /\ Begun' /\ Books' /\ FirstInvoice(pay)' /\ InOrder'
  BY <1>1, SameBooksKeep
<1>3. SaleAccounted'
  BY <1>1, SameBooksKeep DEF IInv, Journals, SaleAccounted, Accounted
<1>4. ReadKnows'
  BY <1>1 DEF ReadKnows
<1>5. Journal \subseteq Charges /\ Names(job) \subseteq Journal
  BY DEF Journal, Names
<1>6. \A c \in Journal : Accounted(c)' \/ c \in Names(job)
  BY <1>1, NamedOrServed, SameBooksKeep
<1>7. ListKnows'
  <2>1. DOMAIN job'.names = named /\ \A c \in named : job'.names[c] = Finding(job, c)
    BY <1>1
  <2>2. \A c \in named : Finding(job, c)[1] \in SaleKinds /\ Finding(job, c)[2][1] = c[1]
    BY <1>1, FindingOwn
  <2>3. /\ named \subseteq job'.listed /\ job'.listed \subseteq Charges
        /\ \A c \in job'.listed : Accounted(c)' \/ c \in named
    BY <1>1, <1>5, <1>6
  <2> HIDE DEF named
  <2> QED BY <2>1, <2>2, <2>3 DEF ListKnows
<1>8. HistoryKnows'
  BY <1>1 DEF HistoryKnows, IInv, Journals
<1>9. Typed'
  BY <1>1 DEF IInv, Typed, SameBooks, books
<1> QED BY <1>2, <1>3, <1>4, <1>7, <1>8, <1>9 DEF IInv, Journals

\* A sale that the run names is shown, or its condition was resolved before.
LEMMA RunRecordsKeeps == ASSUME IInv, RunRecords PROVE IInv'
<1>1. /\ SameBooks /\ job.at = "compared" /\ job'.at = "idle" /\ closed' = closed
      /\ covered' = covered \cup job.listed /\ told' = told \cup Shown
      /\ latest' = [x \in Conditions |-> IF x \in job.issues THEN Carried(job.history, x) ELSE latest[x]]
  BY DEF RunRecords, Records, SameBooks, Idle
<1>2. WireKnows' /\ Begun' /\ Books' /\ FirstInvoice(pay)' /\ InOrder'
  BY <1>1, SameBooksKeep
<1>3. \A c \in DOMAIN job.names : c \in Shown \/ WrittenOff(c)
  BY <1>1 DEF Shown, Opens, Carried, WrittenOff, IInv, Journals, HistoryKnows, ListKnows
<1>4. SaleAccounted'
  <2> SUFFICES ASSUME NEW c \in covered' PROVE Accounted(c)'
    BY DEF SaleAccounted, Accounted
  <2>1. CASE c \in covered
    BY <1>1, <2>1, SameBooksKeep DEF IInv, Journals, SaleAccounted, Accounted
  <2>2. CASE c \in job.listed
    <3>1. Accounted(c) \/ c \in Shown
      BY <1>1, <1>3, <2>2 DEF IInv, Journals, ListKnows, Accounted
    <3>2. c \in Shown => Accounted(c)'
      BY <1>1 DEF Accounted, Reported
    <3> QED BY <1>1, <3>1, <3>2, SameBooksKeep
  <2> QED BY <1>1, <2>1, <2>2
<1>5. ReadKnows' /\ ListKnows'
  BY <1>1 DEF ReadKnows, ListKnows
<1>6. HistoryKnows'
  BY <1>1 DEF HistoryKnows, IInv, Journals, Carried
<1>7. latest' \in [Conditions -> {"none", "open", "resolved"}]
  BY <1>1 DEF IInv, Typed, Carried
<1>8. Shown \subseteq job.listed /\ job.listed \subseteq Charges
  BY <1>1 DEF Shown, IInv, Journals, ListKnows
<1>9. Typed'
  BY <1>1, <1>7, <1>8 DEF IInv, Typed, SameBooks, books
<1> QED BY <1>2, <1>4, <1>5, <1>6, <1>9 DEF IInv, Journals

LEMMA RunDiesKeeps == ASSUME IInv, RunDies PROVE IInv'
<1>1. SameBooks /\ UNCHANGED <<latest, covered, told, closed>> /\ job'.at = "idle"
  BY DEF RunDies, SameBooks, Idle
<1>2. WireKnows' /\ Begun' /\ Books' /\ FirstInvoice(pay)' /\ InOrder'
  BY <1>1, SameBooksKeep
<1>3. SaleAccounted'
  BY <1>1, SameBooksKeep DEF IInv, Journals, SaleAccounted, Accounted
<1>4. ReadKnows' /\ ListKnows' /\ HistoryKnows'
  BY <1>1 DEF ReadKnows, ListKnows, HistoryKnows, IInv, Journals
<1>5. Typed'
  BY <1>1 DEF IInv, Typed, SameBooks, books
<1> QED BY <1>2, <1>3, <1>4, <1>5 DEF IInv, Journals

LEMMA TeamKeeps ==
  ASSUME IInv, NEW x \in Conditions, Resolve(x) \/ Reopen(x) PROVE IInv'
<1>1. /\ SameBooks /\ UNCHANGED <<job, covered, told>>
      /\ closed \subseteq closed' /\ closed' \subseteq closed \cup {x}
  BY DEF Resolve, Reopen, SameBooks
<1>2. /\ latest' \in [Conditions -> {"none", "open", "resolved"}]
      /\ \A y \in Conditions : latest'[y] = "resolved" => latest[y] = "resolved" \/ y \in closed'
  BY DEF Resolve, Reopen, IInv, Typed
<1>3. WireKnows' /\ Begun' /\ Books' /\ FirstInvoice(pay)' /\ InOrder'
  BY <1>1, SameBooksKeep
<1>4. SaleAccounted'
  BY <1>1, SameBooksKeep DEF IInv, Journals, SaleAccounted, Accounted
<1>5. ReadKnows'
  BY <1>1 DEF IInv, Journals, ReadKnows, OwnInvoice, FirstInvoice, StillTrue, SameBooks, books
<1>6. HistoryKnows'
  BY <1>1, <1>2 DEF IInv, Journals, HistoryKnows
<1>7. ListKnows'
  BY <1>1, SameBooksKeep DEF IInv, Journals, ListKnows
<1>8. Typed'
  BY <1>1, <1>2 DEF IInv, Typed, SameBooks, books
<1> QED BY <1>3, <1>4, <1>5, <1>6, <1>7, <1>8 DEF IInv, Journals

LEMMA StutterKeeps == ASSUME IInv, UNCHANGED vars PROVE IInv'
<1>1. SameBooks /\ UNCHANGED <<latest, job, covered, told, closed>>
  BY DEF vars, desk, books, SameBooks
<1>2. WireKnows' /\ Begun' /\ Books' /\ FirstInvoice(pay)' /\ InOrder'
  BY <1>1, SameBooksKeep
<1>3. SaleAccounted' /\ ListKnows'
  BY <1>1, SameBooksKeep DEF IInv, Journals, SaleAccounted, ListKnows, Accounted
<1>4. ReadKnows' /\ HistoryKnows'
  BY <1>1 DEF IInv, Journals, ReadKnows, HistoryKnows, OwnInvoice, FirstInvoice, StillTrue, SameBooks, books
<1>5. Typed'
  BY <1>1 DEF IInv, Typed, SameBooks, books
<1> QED BY <1>2, <1>3, <1>4, <1>5 DEF IInv, Journals

LEMMA IntakeStep == IInv /\ [Next]_vars => IInv'
BY OfferKeeps, ProvidersKeep, DeliverKeeps, RunReadsKeeps, RunComparesKeeps, RunRecordsKeeps,
   RunDiesKeeps, TeamKeeps, StutterKeeps
   DEF Next

LEMMA IntakeInvariant == Spec => []IInv
BY IntakeStart, IntakeStep, PTL DEF Spec

(***************************************************************************)
(* The theorems.                                                           *)
(***************************************************************************)
\* Access is opened once for a charge, only for one that was paid, and no
\* payment stands for two charges, however the webhooks come (fulfill_payment,
\* _find_lava_payment_for_invoice).
THEOREM OpenedOnceCorrect == Spec => []OpenedOnce
<1>1. IInv => OpenedOnce
  <2> SUFFICES ASSUME IInv PROVE OpenedOnce
    OBVIOUS
  <2>1. \A c \in Charges : opened[c] \in 0..1
    BY DEF IInv, Books, Counted
  <2>2. TypeOK
    BY <2>1 DEF IInv, Typed, TypeOK
  <2>3. /\ \A c \in Charges : /\ opened[c] = (IF Served(c) THEN 1 ELSE 0)
                              /\ opened[c] = 1 => Paid(c)
        /\ \A p, q \in DOMAIN pay :
             pay[p].invoice # None /\ pay[p].invoice = pay[q].invoice => p = q
    BY DEF IInv, Books, Counted, OneInvoice
  <2> QED BY <2>2, <2>3 DEF OpenedOnce
<1> QED BY <1>1, IntakeInvariant, PTL

\* A sale that a run found in Lava's journal was fulfilled, or shown to an
\* operator by an alert or an open item, or is of a contract whose item an
\* operator resolved, whatever became of its webhooks and whatever other sale
\* showed the same condition (compare_lava_remote, run_reconciliation).
THEOREM SaleAccountedCorrect == Spec => []SaleAccounted
<1>1. IInv => SaleAccounted
  BY DEF IInv, Journals
<1> QED BY <1>1, IntakeInvariant, PTL
=============================================================================
