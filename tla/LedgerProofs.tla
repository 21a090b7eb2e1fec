----------------------------- MODULE LedgerProofs -----------------------------
(***************************************************************************)
(* RefundLedger in every instance: any payments, members, batches, prices  *)
(* and bounds.                                                             *)
(*                                                                         *)
(* As deployed, with any number of handlers at once (IInv): no commission  *)
(* is paid out twice and no payment is refunded beyond its price.          *)
(*                                                                         *)
(* One handler at a time (SeqInv): what a handler has read is still so     *)
(* when it commits, hence the rows of an invitee wait on one gate, batches *)
(* are worth their rows, refunds add up to what the payments say, nobody   *)
(* gets back more than the price, a commission keeps the share of what is  *)
(* not refunded, and the books implement what a partner is promised.       *)
(*                                                                         *)
(* First what the rules write to a book, then the two invariants; sums     *)
(* over finite sets and the streaks stand between them.                    *)
(***************************************************************************)
EXTENDS RefundAudit, FiniteSetTheorems, WellFoundedInduction, TLAPS

(***************************************************************************)
(* Books.  Their numbers are integers here: that none is negative plays no *)
(* part in the theorems where handlers overlap.                            *)
(***************************************************************************)
AnyReferral == [started : Int, ends : Int, covered : Int, gate : Int,
                qualified : Int]
Statuses == {"none", "pending", "vested", "cancelled", "paid"}
AnyCommission == [status : Statuses, amount : Int, vests : Int,
                  batch : BatchIds \cup {0}, clawed : Int]
Books == [ref : AnyReferral, comm : [Payments -> AnyCommission]]

\* A rule moves no row between batches and makes no row.
Keeps(b, c) ==
  \A q \in Payments :
    /\ c.comm[q].batch = b.comm[q].batch
    /\ b.comm[q].status = "none" => c.comm[q].status = "none"

\* Marking rows changes their status alone.
LEMMA MarkRows ==
  ASSUME NEW c \in [Payments -> AnyCommission], NEW P \in SUBSET Payments,
         NEW s \in Statuses
  PROVE  /\ Mark(c, P, s) \in [Payments -> AnyCommission]
         /\ \A q \in Payments : /\ Mark(c, P, s)[q].batch = c[q].batch
                                /\ q \notin P => Mark(c, P, s)[q] = c[q]
<1>1. DOMAIN c = Payments
  OBVIOUS
<1>2. \A q \in Payments :
        /\ [c[q] EXCEPT !.status = s] \in AnyCommission
        /\ [c[q] EXCEPT !.status = s].batch = c[q].batch
  BY DEF AnyCommission
<1> QED BY <1>1, <1>2 DEF Mark

\* Qualification and the end of a streak keep the streak row a row.
LEMMA MarkedReferral ==
  ASSUME NEW r \in AnyReferral
  PROVE  MarkQualified(r) \in AnyReferral /\ ResetStreak(r) \in AnyReferral
<1>1. NoTime \in Int
  BY DEF NoTime
<1>2. [r EXCEPT !.qualified = r.gate] \in AnyReferral
  BY DEF AnyReferral
<1>3. MarkQualified(r) \in AnyReferral
  <2>1. CASE r.qualified = NoTime
    BY <2>1, <1>2 DEF MarkQualified, AnyReferral
  <2>2. CASE r.qualified # NoTime
    BY <2>2 DEF MarkQualified, AnyReferral
  <2> QED BY <2>1, <2>2
<1>4. ResetStreak(r) \in AnyReferral
  BY <1>1 DEF ResetStreak, AnyReferral
<1> QED BY <1>3, <1>4

\* Vesting or dropping pending rows makes no row and moves none.
LEMMA VestedDropped ==
  ASSUME NEW b \in Books, NEW P \in SUBSET Payments
  PROVE  /\ Vested(b, P) \in Books /\ Dropped(b, P) \in Books
         /\ \A q \in Payments :
              /\ Vested(b, P).comm[q].batch = b.comm[q].batch
              /\ Dropped(b, P).comm[q].batch = b.comm[q].batch
              /\ q \notin P => /\ Vested(b, P).comm[q] = b.comm[q]
                               /\ Dropped(b, P).comm[q] = b.comm[q]
<1>1. b.ref \in AnyReferral /\ b.comm \in [Payments -> AnyCommission]
  BY DEF Books
<1>2. "vested" \in Statuses /\ "cancelled" \in Statuses
  BY DEF Statuses
<1>3. /\ Mark(b.comm, P, "vested") \in [Payments -> AnyCommission]
      /\ Mark(b.comm, P, "cancelled") \in [Payments -> AnyCommission]
      /\ \A q \in Payments :
           /\ Mark(b.comm, P, "vested")[q].batch = b.comm[q].batch
           /\ Mark(b.comm, P, "cancelled")[q].batch = b.comm[q].batch
           /\ q \notin P => /\ Mark(b.comm, P, "vested")[q] = b.comm[q]
                            /\ Mark(b.comm, P, "cancelled")[q] = b.comm[q]
  <2> DEFINE c == b.comm
  <2>1. c \in [Payments -> AnyCommission]
    BY <1>1
  <2> HIDE DEF c
  <2>2. \A s \in Statuses :
          /\ Mark(c, P, s) \in [Payments -> AnyCommission]
          /\ \A q \in Payments : /\ Mark(c, P, s)[q].batch = c[q].batch
                                 /\ q \notin P => Mark(c, P, s)[q] = c[q]
    BY <2>1, MarkRows, Zenon
  <2> QED BY <2>2, <1>2, Zenon DEF c
<1> QED BY <1>1, <1>3, MarkedReferral DEF Vested, Dropped, Books

\* The pending rows of a set are existing rows.
LEMMA PendingRows ==
  ASSUME NEW c, NEW P \in SUBSET Payments
  PROVE  /\ Pending(c, P) \in SUBSET Payments
         /\ \A q \in Pending(c, P) : c[q].status = "pending"
BY DEF Pending

\* Qualifying or cancelling a streak makes no row and moves none.
LEMMA StreakKeeps ==
  ASSUME NEW b \in Books, NEW mine \in SUBSET Payments, NEW t
  PROVE  /\ Qualify(b, mine, t) \in Books /\ Keeps(b, Qualify(b, mine, t))
         /\ CancelStreak(b, mine, t) \in Books /\ Keeps(b, CancelStreak(b, mine, t))
<1> DEFINE P == Pending(b.comm, mine)
<1>1. P \in SUBSET Payments /\ \A q \in P : b.comm[q].status = "pending"
  BY PendingRows
<1> HIDE DEF P
<1>2. /\ Vested(b, P) \in Books /\ Keeps(b, Vested(b, P))
      /\ Dropped(b, P) \in Books /\ Keeps(b, Dropped(b, P))
  <2>1. \A q \in Payments : b.comm[q].status = "none" => q \notin P
    BY <1>1
  <2> QED BY <1>1, <2>1, VestedDropped DEF Keeps
<1>3. Keeps(b, b)
  BY DEF Keeps
<1> QED BY <1>2, <1>3 DEF Qualify, CancelStreak, P

\* Extending the streak makes no row and moves none.
LEMMA ExtendKeeps ==
  ASSUME NEW b \in Books, NEW mine \in SUBSET Payments, NEW from \in Int,
         NEW until \in Int
  PROVE  /\ ExtendStreak(b, mine, from, until) \in Books
         /\ Keeps(b, ExtendStreak(b, mine, from, until))
<1> DEFINE cut == CancelStreak(b, mine, from)
           gate == from + VestingMonths
           fresh(r) == [r EXCEPT !.covered = until, !.gate = gate]
<1>1. cut \in Books /\ Keeps(b, cut) /\ Keeps(b, b)
  BY StreakKeeps DEF Keeps
<1>2. gate \in Int
  BY RulesAssumption
<1> HIDE DEF cut, gate
<1>3. \A c \in Books :
        /\ [c EXCEPT !.ref = fresh(@)] \in Books
        /\ [c EXCEPT !.ref = fresh(@)].comm = c.comm
  <2>1. \A r \in AnyReferral : fresh(r) \in AnyReferral
    BY <1>2 DEF AnyReferral
  <2> HIDE DEF fresh
  <2> QED BY <2>1 DEF Books
<1>4. /\ [b EXCEPT !.ref.covered = Later(@, until)] \in Books
      /\ [b EXCEPT !.ref.covered = Later(@, until)].comm = b.comm
  <2>1. Later(b.ref.covered, until) \in Int
    BY DEF Books, AnyReferral, Later
  <2> DEFINE c == Later(b.ref.covered, until)
  <2>2. [b EXCEPT !.ref.covered = Later(@, until)]
          = [b EXCEPT !.ref = [b.ref EXCEPT !.covered = c]]
    BY DEF Books
  <2>3. [b.ref EXCEPT !.covered = c] \in AnyReferral
    BY <2>1 DEF Books, AnyReferral
  <2> HIDE DEF c
  <2> QED BY <2>2, <2>3 DEF Books
<1>5. /\ Keeps(b, [b EXCEPT !.ref = fresh(@)])
      /\ Keeps(b, [cut EXCEPT !.ref = fresh(@)])
      /\ Keeps(b, [b EXCEPT !.ref.covered = Later(@, until)])
  <2>1. \A c, d : Keeps(b, c) /\ d.comm = c.comm => Keeps(b, d)
    BY DEF Keeps
  <2> QED BY <1>1, <1>3, <1>4, <2>1
<1> QED BY <1>1, <1>3, <1>4, <1>5 DEF ExtendStreak, cut, gate

\* Keeping is transitive.
LEMMA KeepsOn ==
  ASSUME NEW b, NEW c, NEW d, Keeps(b, c), Keeps(c, d)
  PROVE  Keeps(b, d)
BY DEF Keeps

\* Recording a commission writes one row, in no batch.
LEMMA RecordKeeps ==
  ASSUME NEW b \in Books, NEW mine \in SUBSET Payments, NEW p \in Payments,
         NEW from \in Int, NEW until \in Int, NEW amount \in Int
  PROVE  LET c == RecordIntent(b, mine, p, from, until, amount)
         IN  /\ c \in Books
             /\ c.comm[p].batch \in {0, b.comm[p].batch}
             /\ \A q \in Payments \ {p} :
                  /\ c.comm[q].batch = b.comm[q].batch
                  /\ b.comm[q].status = "none" => c.comm[q].status = "none"
<1> DEFINE ends == from + WindowMonths
           opened == IF b.ref.started # NoTime THEN b
                     ELSE [b EXCEPT !.ref.started = from, !.ref.ends = ends]
           grown == IF opened.ref.qualified = NoTime
                    THEN ExtendStreak(opened, mine, from, until) ELSE opened
           now_ == grown.ref.qualified # NoTime
           status == IF now_ THEN "vested" ELSE "pending"
           vests == IF now_ THEN from ELSE grown.ref.gate
           row == [NoCommission EXCEPT !.status = status, !.amount = amount,
                                       !.vests = vests]
           kept == [grown EXCEPT !.comm[p] = row]
<1>1. opened \in Books /\ opened.comm = b.comm
  <2>1. ends \in Int
    BY RulesAssumption
  <2> HIDE DEF ends
  <2>2. [b.ref EXCEPT !.started = from, !.ends = ends] \in AnyReferral
    BY <2>1 DEF Books, AnyReferral
  <2> DEFINE r == [b.ref EXCEPT !.started = from, !.ends = ends]
  <2>3. [b EXCEPT !.ref.started = from, !.ref.ends = ends] = [b EXCEPT !.ref = r]
    BY DEF Books, AnyReferral
  <2> HIDE DEF r
  <2>4. [b EXCEPT !.ref = r] \in Books /\ [b EXCEPT !.ref = r].comm = b.comm
    BY <2>2 DEF Books, r
  <2> QED BY <2>3, <2>4
<1> HIDE DEF opened
<1>2. grown \in Books /\ Keeps(b, grown)
  <2>1. /\ ExtendStreak(opened, mine, from, until) \in Books
        /\ Keeps(opened, ExtendStreak(opened, mine, from, until))
    BY <1>1, ExtendKeeps
  <2>2. Keeps(opened, opened)
    BY DEF Keeps
  <2> QED BY <1>1, <2>1, <2>2 DEF Keeps
<1> HIDE DEF grown
<1>3. row \in AnyCommission /\ row.batch = 0
  <2>1. status \in Statuses /\ vests \in Int
    BY <1>2 DEF Statuses, Books, AnyReferral
  <2>2. NoCommission \in AnyCommission /\ NoCommission.batch = 0
    BY DEF NoCommission, AnyCommission, Statuses, NoTime
  <2> HIDE DEF status, vests
  <2> QED BY <2>1, <2>2 DEF AnyCommission
<1> HIDE DEF row
<1>4. /\ kept \in Books
      /\ kept.comm[p].batch = 0
      /\ \A q \in Payments \ {p} : kept.comm[q] = grown.comm[q]
  <2>1. grown.comm \in [Payments -> AnyCommission]
    BY <1>2 DEF Books
  <2> DEFINE comm_ == [grown.comm EXCEPT ![p] = row]
  <2>2. /\ comm_ \in [Payments -> AnyCommission] /\ comm_[p] = row
        /\ \A q \in Payments \ {p} : comm_[q] = grown.comm[q]
    BY <2>1, <1>3
  <2>3. kept = [grown EXCEPT !.comm = comm_]
    BY <1>2 DEF Books
  <2> HIDE DEF comm_
  <2> QED BY <2>2, <2>3, <1>2, <1>3 DEF Books
<1> HIDE DEF kept
<1>5. Qualify(kept, mine, from) \in Books /\ Keeps(kept, Qualify(kept, mine, from))
  BY <1>4, StreakKeeps
<1>6. RecordIntent(b, mine, p, from, until, amount)
        \in {opened, kept, Qualify(kept, mine, from)}
  BY DEF RecordIntent, opened, grown, row, kept
<1>7. \A c \in {opened, kept, Qualify(kept, mine, from)} :
        /\ c \in Books
        /\ c.comm[p].batch \in {0, b.comm[p].batch}
        /\ \A q \in Payments \ {p} :
             /\ c.comm[q].batch = b.comm[q].batch
             /\ b.comm[q].status = "none" => c.comm[q].status = "none"
  BY <1>1, <1>2, <1>4, <1>5 DEF Keeps
<1> QED BY <1>6, <1>7

\* A refund makes no row and moves none, whatever copy of its commission it read.
LEMMA AdjustedKeeps ==
  ASSUME NEW b \in Books, NEW seen \in AnyCommission, NEW mine \in SUBSET Payments,
         NEW p \in Payments, NEW amount \in Int, NEW left \in Int, NEW t
  PROVE  LET c == Adjusted(b, seen, mine, p, amount, left, t)
         IN  c \in Books /\ Keeps(b, c)
<1> DEFINE target == Earlier(Share(left), seen.amount)
           worth == Earlier(seen.amount, Share(amount))
           q == IF seen.status = "pending" /\ seen.vests <= t
                THEN Qualify(b, mine, t) ELSE b
           earned == \/ seen.status # "pending"
                     \/ b.comm[p].status = "pending" /\ q.comm[p].status = "vested"
           cut == IF earned THEN q ELSE CancelStreak(q, mine, t)
           reduced == [q EXCEPT !.comm[p].amount = target]
<1>1. target \in Int /\ worth \in Int
  BY DEF Earlier, Share, AnyCommission
<1>2. Keeps(b, b)
  BY DEF Keeps
<1>3. q \in Books /\ Keeps(b, q)
  BY <1>2, StreakKeeps
<1> HIDE DEF target, worth, q
<1>4. cut \in Books /\ Keeps(b, cut)
  <2>1. CancelStreak(q, mine, t) \in Books /\ Keeps(q, CancelStreak(q, mine, t))
    BY <1>3, StreakKeeps
  <2>2. Keeps(b, CancelStreak(q, mine, t))
    BY <2>1, <1>3, KeepsOn
  <2> QED BY <1>3, <2>1, <2>2
<1> HIDE DEF earned, cut
<1>5. \A c \in Books : \A n \in Int :
        /\ [c EXCEPT !.comm[p].amount = n] \in Books
        /\ Keeps(c, [c EXCEPT !.comm[p].amount = n])
        /\ [c EXCEPT !.comm[p].clawed = @ + n] \in Books
        /\ Keeps(c, [c EXCEPT !.comm[p].clawed = @ + n])
  <2> SUFFICES ASSUME NEW c \in Books, NEW n \in Int
               PROVE  /\ [c EXCEPT !.comm[p].amount = n] \in Books
                      /\ Keeps(c, [c EXCEPT !.comm[p].amount = n])
                      /\ [c EXCEPT !.comm[p].clawed = @ + n] \in Books
                      /\ Keeps(c, [c EXCEPT !.comm[p].clawed = @ + n])
    OBVIOUS
  <2> DEFINE row == c.comm[p]
             less == [row EXCEPT !.amount = n]
             taken == [row EXCEPT !.clawed = row.clawed + n]
  <2>1. c.comm \in [Payments -> AnyCommission] /\ row \in AnyCommission
    BY DEF Books
  <2>2. /\ less \in AnyCommission /\ less.batch = row.batch /\ less.status = row.status
        /\ taken \in AnyCommission /\ taken.batch = row.batch /\ taken.status = row.status
    BY <2>1 DEF AnyCommission
  <2>3. \A r \in AnyCommission : r.batch = row.batch /\ r.status = row.status =>
          LET d == [c EXCEPT !.comm = [c.comm EXCEPT ![p] = r]]
          IN  d \in Books /\ Keeps(c, d)
    BY <2>1 DEF Books, Keeps
  <2>4. /\ [c EXCEPT !.comm[p].amount = n]
             = [c EXCEPT !.comm = [c.comm EXCEPT ![p] = less]]
        /\ [c EXCEPT !.comm[p].clawed = @ + n]
             = [c EXCEPT !.comm = [c.comm EXCEPT ![p] = taken]]
    BY <2>1 DEF Books, AnyCommission
  <2> HIDE DEF row, less, taken
  <2> QED BY <2>2, <2>3, <2>4
<1>6. reduced \in Books /\ Keeps(b, reduced)
  <2>1. reduced \in Books /\ Keeps(q, reduced)
    BY <1>1, <1>3, <1>5
  <2> QED BY <2>1, <1>3, KeepsOn
<1>7. Claw(cut, p, worth) \in Books /\ Keeps(b, Claw(cut, p, worth))
  <2>1. Claw(cut, p, worth) \in Books /\ Keeps(cut, Claw(cut, p, worth))
    BY <1>1, <1>4, <1>5 DEF Claw
  <2> QED BY <2>1, <1>4, KeepsOn
<1>8. Adjusted(b, seen, mine, p, amount, left, t)
        \in {b, reduced, cut, Claw(cut, p, worth)}
  BY DEF Adjusted, target, worth, q, earned, cut
<1> HIDE DEF reduced
<1> QED BY <1>2, <1>4, <1>6, <1>7, <1>8

\* vest_due_commissions moves no row and writes the due ones only.
LEMMA VestDueKeeps ==
  ASSUME NEW b \in Books, NEW mine \in SUBSET Payments,
         NEW due \in SUBSET Payments, NEW t
  PROVE  /\ VestDue(b, mine, due, t) \in Books
         /\ \A q \in Payments :
              /\ VestDue(b, mine, due, t).comm[q].batch = b.comm[q].batch
              /\ q \notin due => VestDue(b, mine, due, t).comm[q] = b.comm[q]
<1> DEFINE rows == due \cap mine
<1>1. rows \in SUBSET Payments /\ rows \subseteq due
  OBVIOUS
<1>2. VestDue(b, mine, due, t) \in {b, Vested(b, rows), Dropped(b, rows)}
  BY DEF VestDue
<1> HIDE DEF rows
<1>3. /\ Vested(b, rows) \in Books /\ Dropped(b, rows) \in Books
      /\ \A q \in Payments :
           /\ Vested(b, rows).comm[q].batch = b.comm[q].batch
           /\ Dropped(b, rows).comm[q].batch = b.comm[q].batch
           /\ q \notin due => /\ Vested(b, rows).comm[q] = b.comm[q]
                              /\ Dropped(b, rows).comm[q] = b.comm[q]
  BY <1>1, VestedDropped
<1> QED BY <1>2, <1>3

(***************************************************************************)
(* The inductive invariant.  PaidOutOnce needs BooksSound: a commission    *)
(* that was paid out stays in its paid batch, whatever a handler that read *)
(* it earlier makes of its status, and a payment without a commission row  *)
(* is one nobody has paid.  NeverOverRefunded needs HandlersSound: what a  *)
(* handler holds to save is within the price too.                          *)
(***************************************************************************)
AnyTx == [op : Ops, id : RefundIds \cup {0}, read : Refund, row : Refund,
          pay : Payment, seen : AnyCommission, due : SUBSET Payments]

Shape ==
  /\ now \in Nat
  /\ pay \in [Payments -> Payment]
  /\ refund \in [RefundIds -> Refund]
  /\ stripe \in [Keys -> Remote]
  /\ ref \in [Members -> AnyReferral]
  /\ comm \in [Payments -> AnyCommission]
  /\ batch = [b \in BatchIds |-> batch[b]]
  /\ \A b \in BatchIds : batch[b] = [status |-> batch[b].status, total |-> batch[b].total]
  /\ tx \in [Workers -> AnyTx]
  /\ payouts \in [Payments -> Nat]

\* A refund of a payment somebody made.
Known(x) ==
  x.payment \in Payments /\ x.key \in Keys /\ pay[x.payment].status # "pending"
Within(r) == r.refunded <= Price /\ (r.status = "refunded" <=> r.refunded = Price)

RefundsKnown == \A r \in RefundIds : refund[r].payment # "none" => Known(refund[r])

Saves(t) ==
  /\ Known(t.row) /\ t.id \in RefundIds
  /\ Within(t.pay) /\ t.pay.status # "pending"
HandlerSound(t) ==
  /\ t.op \in {"sync", "confirm", "fail"} => Known(t.read) /\ t.id \in RefundIds
  /\ t.op = "save" => Saves(t)
  /\ \A p \in t.due : pay[p].status # "pending"
HandlersSound == \A w \in Workers : HandlerSound(tx[w])

BookSound(p) ==
  /\ pay[p].status = "pending" => comm[p].status = "none" /\ comm[p].batch = 0
  /\ payouts[p] <= 1
  /\ payouts[p] = 1 => comm[p].batch \in BatchIds /\ batch[comm[p].batch].status = "paid"
BooksSound == \A p \in Payments : BookSound(p)

IInv ==
  Shape /\ RefundsKnown /\ HandlersSound /\ NeverOverRefunded /\ BooksSound

\* Nothing has happened yet.
LEMMA NullRows ==
  /\ NoRefund \in Refund /\ NewPayment \in Payment /\ NoRemote \in Remote
  /\ NoCommission \in AnyCommission /\ NoReferral \in AnyReferral
  /\ IdleTx \in AnyTx /\ IdleTx.op = "idle" /\ IdleTx.due = {}
<1>1. NoRefund \in Refund
  BY DEF NoRefund, Refund, Active, NoKey
<1>2. NewPayment \in Payment
  BY DEF NewPayment, Payment, Time, NoTime
<1>3. NoRemote \in Remote
  BY DEF NoRemote, Remote
<1>4. NoCommission \in AnyCommission
  BY DEF NoCommission, AnyCommission, Statuses, NoTime
<1>5. NoReferral \in AnyReferral
  BY DEF NoReferral, AnyReferral, NoTime
<1>6. IdleTx \in AnyTx
  BY <1>1, <1>2, <1>4 DEF IdleTx, AnyTx, Ops
<1>7. IdleTx.op = "idle" /\ IdleTx.due = {}
  BY DEF IdleTx
<1> QED BY <1>1, <1>2, <1>3, <1>4, <1>5, <1>6, <1>7

\* Nothing has happened yet.
LEMMA InitIInv == Init => IInv
<1> SUFFICES ASSUME Init PROVE IInv
  OBVIOUS
<1>1. Shape
  <2>1. \A b \in BatchIds : batch[b] = [status |-> "none", total |-> 0]
    BY DEF Init, NoBatch
  <2>2. \A b \in BatchIds : batch[b] = [status |-> batch[b].status, total |-> batch[b].total]
    BY <2>1
  <2>3. batch = [b \in BatchIds |-> batch[b]]
    BY DEF Init
  <2> QED BY <2>2, <2>3, NullRows DEF Init, Shape
<1>2. RefundsKnown
  BY DEF Init, RefundsKnown, NoRefund
<1>3. HandlersSound
  BY NullRows DEF Init, HandlersSound, HandlerSound
<1>4. NeverOverRefunded
  BY LedgerAssumption DEF Init, NeverOverRefunded, NewPayment
<1>5. BooksSound
  BY DEF Init, BooksSound, BookSound, NoCommission
<1> QED BY <1>1, <1>2, <1>3, <1>4, <1>5 DEF IInv

(***************************************************************************)
(* Refunds.                                                                *)
(***************************************************************************)
\* A handler ends, or holds a sound refund and payment to save.
Held(w) ==
  \E t \in AnyTx : /\ tx' = [tx EXCEPT ![w] = t]
                   /\ t = IdleTx \/ (t.op = "save" /\ Saves(t) /\ t.due = {})

\* A confirmed refund is added to what was given back, within the price.
LEMMA RepaidWithin ==
  ASSUME NEW r \in Payment, NEW n \in Nat, Within(r), r.status # "pending",
         r.refunded + n <= Price
  PROVE  /\ Repaid(r, n) \in Payment /\ Within(Repaid(r, n))
         /\ Repaid(r, n).status # "pending"
<1>1. r.refunded \in Nat /\ Price \in Nat
  BY LedgerAssumption DEF Payment
<1> DEFINE status == IF r.refunded + n >= Price THEN "refunded" ELSE r.status
           total == r.refunded + n
<1>2. status \in {"pending", "succeeded", "refunded"} /\ total \in Nat
      /\ status # "pending" /\ (status = "refunded" <=> total = Price)
      /\ total <= Price
  BY <1>1 DEF Payment, Within
<1>3. Repaid(r, n) = [r EXCEPT !.refunded = total, !.status = status]
  BY DEF Repaid, Payment
<1> HIDE DEF status, total
<1> QED BY <1>2, <1>3 DEF Payment, Within

\* A handler goes on to save a refund of a payment somebody made.
LEMMA SaveHolds ==
  ASSUME IInv, NEW w \in Workers, NEW id \in RefundIds, NEW read \in Refund,
         NEW row \in Refund, Known(row)
  PROVE  /\ Save(w, id, read, row) => Held(w)
         /\ SaveConfirmed(w, id, read, row) => Held(w)
<1> DEFINE p == row.payment
           plain == [IdleTx EXCEPT !.op = "save", !.id = id, !.read = read,
                                   !.row = row, !.pay = pay[p]]
           done == [row EXCEPT !.status = "confirmed", !.applied = TRUE]
           repaid == Repaid(pay[p], row.amount)
           seen == comm[p]
           full == [IdleTx EXCEPT !.op = "save", !.id = id, !.read = read,
                                  !.row = done, !.pay = repaid, !.seen = seen]
<1>1. p \in Payments /\ pay[p] \in Payment /\ Within(pay[p])
      /\ pay[p].status # "pending" /\ row.amount \in Nat
      /\ seen \in AnyCommission
  BY DEF IInv, Shape, Known, NeverOverRefunded, Within, Refund
<1>2. plain \in AnyTx /\ plain.op = "save" /\ Saves(plain) /\ plain.due = {}
  <2>1. plain \in AnyTx /\ plain.op = "save" /\ plain.due = {} /\ plain.row = row
        /\ plain.id = id /\ plain.pay = pay[p]
    BY <1>1, NullRows DEF AnyTx, Ops
  <2> QED BY <2>1, <1>1 DEF Saves
<1>3. ASSUME Fits(p, row)
      PROVE  full \in AnyTx /\ full.op = "save" /\ Saves(full) /\ full.due = {}
  <2>1. repaid \in Payment /\ Within(repaid) /\ repaid.status # "pending"
    BY <1>1, <1>3, RepaidWithin DEF Fits
  <2>2. done \in Refund /\ Known(done)
    BY DEF Refund, Known
  <2> HIDE DEF repaid, done, seen
  <2>3. full \in AnyTx /\ full.op = "save" /\ full.due = {} /\ full.row = done
        /\ full.id = id /\ full.pay = repaid
    BY <1>1, <2>1, <2>2, NullRows DEF AnyTx, Ops
  <2> HIDE DEF full
  <2> QED BY <2>1, <2>2, <2>3 DEF Saves
<1>4. Save(w, id, read, row) => Held(w)
  BY <1>2 DEF Save, Held
<1>5. SaveConfirmed(w, id, read, row) => Held(w)
  <2>1. CASE read.applied
    BY <2>1, <1>4 DEF SaveConfirmed
  <2>2. CASE ~read.applied /\ ~Fits(p, row)
    BY <2>2, NullRows DEF SaveConfirmed, Held
  <2>3. CASE ~read.applied /\ Fits(p, row)
    <3> HIDE DEF full
    <3>1. SaveConfirmed(w, id, read, row) => tx' = [tx EXCEPT ![w] = full]
      BY <2>3 DEF SaveConfirmed, full
    <3> QED BY <3>1, <2>3, <1>3 DEF Held
  <2> QED BY <2>1, <2>2, <2>3
<1> QED BY <1>4, <1>5

\* Whatever Stripe answers, the handler holds something sound.
LEMMA AnsweredHolds ==
  ASSUME IInv, NEW w \in Workers, NEW id \in RefundIds, NEW read \in Refund,
         NEW row \in Refund, Known(row), NEW answer \in Answers \cup {"none"},
         Answered(w, id, read, row, answer)
  PROVE  Held(w)
<1> DEFINE told == [row EXCEPT !.known = TRUE]
<1>1. told \in Refund /\ Known(told)
  BY DEF Refund, Known
<1>2. \A s \in {"failed", "manual_action", "pending"} :
        \A x \in {row, told} :
          [x EXCEPT !.status = s] \in Refund /\ Known([x EXCEPT !.status = s])
  BY <1>1 DEF Refund, Known, Active
<1> HIDE DEF told
<1>3. CASE answer = "succeeded"
  <2>1. SaveConfirmed(w, id, read, told)
    BY <1>3 DEF Answered, told
  <2> QED BY <2>1, <1>1, SaveHolds
<1>4. ASSUME NEW s \in {"failed", "manual_action", "pending"},
             NEW x \in {row, told}, Save(w, id, read, [x EXCEPT !.status = s])
      PROVE  Held(w)
  <2> DEFINE y == [x EXCEPT !.status = s]
  <2>1. y \in Refund /\ Known(y)
    BY <1>2
  <2>2. Save(w, id, read, y)
    BY <1>4
  <2> HIDE DEF y
  <2> QED BY <2>1, <2>2, SaveHolds
<1>5. CASE answer = "failed"
  BY <1>4, <1>5 DEF Answered, told
<1>6. CASE answer = "requires_action"
  BY <1>4, <1>6 DEF Answered, told
<1>7. CASE answer = "pending"
  BY <1>4, <1>7 DEF Answered, told
<1>8. CASE answer = "none"
  BY <1>4, <1>8 DEF Answered, told
<1> QED BY <1>3, <1>5, <1>6, <1>7, <1>8 DEF Answers

\* The same of the request to Stripe, which keeps Stripe's table a table.
LEMMA AskStripeHolds ==
  ASSUME IInv, NEW w \in Workers, NEW id \in RefundIds, NEW read \in Refund,
         NEW row \in Refund, Known(row), AskStripe(w, id, read, row)
  PROVE  Held(w) /\ stripe' \in [Keys -> Remote]
<1> DEFINE k == row.key
<1>1. k \in Keys /\ stripe \in [Keys -> Remote] /\ stripe[k] \in Remote
  BY DEF Known, IInv, Shape
<1>2. stripe[k].status \in Answers \cup {"none"} /\ stripe[k].first \in Answers \cup {"none"}
  BY <1>1 DEF Remote
<1>3. \E answer \in Answers \cup {"none"} : Answered(w, id, read, row, answer)
  BY <1>2 DEF AskStripe
<1>4. Held(w)
  BY <1>3, AnsweredHolds
<1>5. \/ stripe' = stripe
      \/ \E answer \in Answers :
           stripe' = [stripe EXCEPT ![k] = [status |-> answer, first |-> answer,
                                            amount |-> row.amount]]
  BY DEF AskStripe
<1>6. \A answer \in Answers :
        [status |-> answer, first |-> answer, amount |-> row.amount] \in Remote
  BY DEF Remote, Refund
<1>7. stripe' \in [Keys -> Remote]
  BY <1>1, <1>5, <1>6
<1> QED BY <1>4, <1>7

(***************************************************************************)
(* Steps: what other parts of the state keep when one part changes.        *)
(***************************************************************************)
\* No payment becomes pending again.
Onward == \A p \in Payments : pay[p].status # "pending" => pay'[p].status # "pending"

\* Payments that stay do not go back to waiting.
LEMMA UnchangedOnward == UNCHANGED pay => Onward
BY DEF Onward

\* Refunds stay known while payments go onward.
LEMMA RefundsStay ==
  ASSUME RefundsKnown, Onward, UNCHANGED refund
  PROVE  RefundsKnown'
BY DEF RefundsKnown, Known, Onward

\* Handlers that do nothing, or end, stay sound.
LEMMA HandlersStay ==
  ASSUME IInv, Onward,
         \A v \in Workers : \/ tx'[v] = tx[v]
                            \/ tx'[v] = IdleTx
                            \/ HandlerSound(tx[v])'
  PROVE  HandlersSound'
<1> SUFFICES ASSUME NEW v \in Workers PROVE HandlerSound(tx[v])'
  BY DEF HandlersSound
<1>1. HandlerSound(tx[v]) /\ tx[v].due \in SUBSET Payments
  BY DEF IInv, HandlersSound, Shape, AnyTx
<1>2. CASE tx'[v] = tx[v]
  BY <1>1, <1>2 DEF HandlerSound, Saves, Known, Within, Onward
<1>3. CASE tx'[v] = IdleTx
  BY <1>3, NullRows DEF HandlerSound
<1> QED BY <1>2, <1>3

\* A handler that took hold of something, and touched no table but Stripe's.
LEMMA HeldStep ==
  ASSUME IInv, NEW w \in Workers, Held(w), stripe' \in [Keys -> Remote],
         UNCHANGED <<now, pay, refund, Ledger>>
  PROVE  IInv'
<1> PICK t \in AnyTx : /\ tx' = [tx EXCEPT ![w] = t]
                       /\ t = IdleTx \/ (t.op = "save" /\ Saves(t) /\ t.due = {})
  BY DEF Held
<1>1. tx' \in [Workers -> AnyTx] /\ tx'[w] = t
      /\ \A v \in Workers \ {w} : tx'[v] = tx[v]
  BY DEF IInv, Shape
<1>2. Shape'
  BY <1>1 DEF IInv, Shape, Ledger
<1>3. Onward
  BY UnchangedOnward
<1>4. HandlersSound'
  <2>1. t = IdleTx \/ HandlerSound(tx[w])'
    BY <1>1 DEF HandlerSound, Saves, Known, Within
  <2> QED BY <1>1, <1>3, <2>1, HandlersStay
<1>5. RefundsKnown'
  BY <1>3, RefundsStay DEF IInv
<1>6. NeverOverRefunded' /\ BooksSound'
  BY DEF IInv, NeverOverRefunded, BooksSound, BookSound, Ledger
<1> QED BY <1>2, <1>4, <1>5, <1>6 DEF IInv

\* A book of the table is one.
LEMMA BookIsBook ==
  ASSUME IInv, NEW m \in Members
  PROVE  /\ Book(m) \in Books /\ Book(m).comm = comm /\ Book(m).ref = ref[m]
         /\ Mine(m) \in SUBSET Payments
BY DEF Book, Books, IInv, Shape, Mine

\* Writing a book that moved no row and made none.
LEMMA WriteKeeps ==
  ASSUME IInv, Onward, NEW m \in Members, NEW b \in Books, Keeps(Book(m), b),
         WriteBook(m, b), UNCHANGED <<batch, payouts>>
  PROVE  /\ ref' \in [Members -> AnyReferral]
         /\ comm' \in [Payments -> AnyCommission]
         /\ BooksSound'
<1>1. b.ref \in AnyReferral /\ b.comm \in [Payments -> AnyCommission]
  BY DEF Books
<1>2. ref' \in [Members -> AnyReferral] /\ comm' \in [Payments -> AnyCommission]
  BY <1>1 DEF WriteBook, IInv, Shape
<1>3. \A q \in Payments : /\ comm'[q].batch = comm[q].batch
                          /\ comm[q].status = "none" => comm'[q].status = "none"
  BY BookIsBook DEF Keeps, WriteBook
<1>4. BooksSound'
  BY <1>3 DEF IInv, BooksSound, BookSound, Onward
<1> QED BY <1>2, <1>4

\* A member pays: one row more, in no batch, for a payment nobody paid out.
LEMMA FulfilStep ==
  ASSUME IInv, NEW p \in Payments, NEW length \in Periods, Fulfil(p, length)
  PROVE  IInv'
<1> DEFINE m == Payer[p]
           worth == IF p \in Rated THEN Share(Price) ELSE 0
<1>1. m \in Members
  BY LedgerAssumption
<1>2. PICK from \in Starts(m, length) :
        /\ pay' = [pay EXCEPT ![p].status = "succeeded", ![p].until = from + length]
        /\ WriteBook(m, RecordIntent(Book(m), Mine(m), p, from, from + length, worth))
  BY DEF Fulfil
<1>3. pay \in [Payments -> Payment] /\ now \in Nat
  BY DEF IInv, Shape
<1>4. from \in Nat /\ length \in Nat
  <2>1. \A q \in Mine(m) : pay[q].until \in Time
    BY <1>3 DEF Mine, Payment
  <2>2. length \in Nat
    BY LedgerAssumption
  <2> QED BY <1>3, <2>1, <2>2 DEF Starts, Time
<1> DEFINE until == from + length
<1>5. until \in Nat /\ until \in Time
  BY <1>4 DEF Time
<1>6. worth \in Int
  BY LedgerAssumption DEF Share
<1> HIDE DEF until, worth
<1>7. /\ pay' \in [Payments -> Payment]
      /\ pay'[p].status = "succeeded" /\ pay'[p].refunded = pay[p].refunded
      /\ \A q \in Payments \ {p} : pay'[q] = pay[q]
  <2>1. [pay[p] EXCEPT !.status = "succeeded", !.until = until] \in Payment
    BY <1>3, <1>5 DEF Payment
  <2>2. pay' = [pay EXCEPT ![p] = [pay[p] EXCEPT !.status = "succeeded", !.until = until]]
    BY <1>2, <1>3 DEF until, Payment
  <2>3. /\ [pay[p] EXCEPT !.status = "succeeded", !.until = until].status = "succeeded"
        /\ [pay[p] EXCEPT !.status = "succeeded", !.until = until].refunded = pay[p].refunded
    BY <1>3 DEF Payment
  <2> QED BY <1>3, <2>1, <2>2, <2>3
<1>8. Onward
  BY <1>7 DEF Onward
<1> DEFINE c == RecordIntent(Book(m), Mine(m), p, from, until, worth)
<1>9. /\ c \in Books
      /\ c.comm[p].batch \in {0, comm[p].batch}
      /\ \A q \in Payments \ {p} :
           /\ c.comm[q].batch = comm[q].batch
           /\ comm[q].status = "none" => c.comm[q].status = "none"
  <2>1. /\ Book(m) \in Books /\ Book(m).comm = comm /\ Mine(m) \in SUBSET Payments
    BY <1>1, BookIsBook
  <2>2. from \in Int /\ until \in Int
    BY <1>4, <1>5
  <2> QED BY <2>1, <2>2, <1>6, RecordKeeps
<1>10. ref' = [ref EXCEPT ![m] = c.ref] /\ comm' = c.comm
  BY <1>2 DEF WriteBook, until, worth
<1> HIDE DEF c
<1>11. UNCHANGED <<now, refund, stripe, batch, tx, payouts>>
  BY DEF Fulfil
<1>12. Shape'
  <2>1. c.ref \in AnyReferral /\ c.comm \in [Payments -> AnyCommission]
    BY <1>9 DEF Books
  <2> QED BY <1>7, <1>10, <1>11, <2>1 DEF IInv, Shape
<1>13. NeverOverRefunded'
  <2>1. pay[p].status = "pending"
    BY DEF Fulfil
  <2> QED BY <1>7, <2>1 DEF IInv, NeverOverRefunded
<1>14. BooksSound'
  <2>1. pay[p].status = "pending" /\ comm[p].batch = 0 /\ payouts[p] # 1
    <3>1. pay[p].status = "pending" /\ BookSound(p) /\ 0 \notin BatchIds
      BY RulesAssumption DEF Fulfil, IInv, BooksSound
    <3> QED BY <3>1 DEF BookSound
  <2>2. BookSound(p)'
    <3>1. payouts'[p] = payouts[p] /\ payouts[p] <= 1 /\ pay'[p].status # "pending"
      BY <1>7, <1>11 DEF IInv, BooksSound, BookSound
    <3> QED BY <2>1, <3>1 DEF BookSound
  <2>3. \A q \in Payments \ {p} : BookSound(q)'
    BY <1>7, <1>9, <1>10, <1>11 DEF IInv, BooksSound, BookSound
  <2> QED BY <2>2, <2>3 DEF BooksSound
<1>15. RefundsKnown' /\ HandlersSound'
  <2>1. \A v \in Workers : tx'[v] = tx[v]
    BY <1>11
  <2> QED BY <1>8, <1>11, <2>1, RefundsStay, HandlersStay DEF IInv
<1> QED BY <1>12, <1>13, <1>14, <1>15 DEF IInv

\* A cancelled subscription ends or qualifies a streak.
LEMMA SubscriptionCancelledStep ==
  ASSUME IInv, NEW m \in Members, SubscriptionCancelled(m)
  PROVE  IInv'
<1> DEFINE c == CancelStreak(Book(m), Mine(m), now)
<1>1. c \in Books /\ Keeps(Book(m), c)
  BY BookIsBook, StreakKeeps
<1>2. WriteBook(m, c) /\ UNCHANGED <<now, pay, refund, stripe, batch, tx, payouts>>
  BY DEF SubscriptionCancelled
<1> HIDE DEF c
<1>3. Onward
  BY <1>2, UnchangedOnward
<1>4. /\ ref' \in [Members -> AnyReferral] /\ comm' \in [Payments -> AnyCommission]
      /\ BooksSound'
  BY <1>1, <1>2, <1>3, WriteKeeps
<1>5. Shape'
  BY <1>2, <1>4 DEF IInv, Shape
<1>6. RefundsKnown' /\ HandlersSound'
  <2>1. \A v \in Workers : tx'[v] = tx[v]
    BY <1>2
  <2> QED BY <1>2, <1>3, <2>1, RefundsStay, HandlersStay DEF IInv
<1>7. NeverOverRefunded'
  BY <1>2 DEF IInv, NeverOverRefunded
<1> QED BY <1>4, <1>5, <1>6, <1>7 DEF IInv

\* The ordinal of a new attempt is within the table of refunds.
LEMMA OrdinalInRange ==
  ASSUME NEW p \in Payments, NEW r \in Unused
  PROVE  Cardinality(Of(p)) + 1 \in RefundIds
<1>1. MaxRefunds \in Nat
  BY LedgerAssumption
<1>2. IsFiniteSet(RefundIds) /\ Cardinality(RefundIds) = MaxRefunds
  <2>1. /\ IsFiniteSet(1..MaxRefunds)
        /\ Cardinality(1..MaxRefunds) = IF 1 > MaxRefunds THEN 0 ELSE MaxRefunds - 1 + 1
    BY <1>1, FS_Interval
  <2> QED BY <1>1, <2>1 DEF RefundIds
<1>3. Of(p) \subseteq RefundIds /\ r \in RefundIds /\ r \notin Of(p)
  BY LedgerAssumption DEF Of, Unused
<1>4. /\ IsFiniteSet(Of(p)) /\ Cardinality(Of(p)) <= MaxRefunds
      /\ Of(p) # RefundIds => Cardinality(Of(p)) < MaxRefunds
  <2>1. Of(p) \in SUBSET RefundIds
    BY <1>3
  <2>2. /\ IsFiniteSet(Of(p)) /\ Cardinality(Of(p)) <= MaxRefunds
        /\ MaxRefunds = Cardinality(Of(p)) => RefundIds = Of(p)
    BY <1>2, <2>1, FS_Subset
  <2>3. Cardinality(Of(p)) \in Nat
    BY <2>2, FS_CardinalityType
  <2> QED BY <1>1, <2>2, <2>3
<1>5. Cardinality(Of(p)) \in Nat
  BY <1>4, FS_CardinalityType
<1> QED BY <1>1, <1>3, <1>4, <1>5 DEF RefundIds

\* A nonempty set of numbers has a least one: the free id a handler takes.
LEMMA LeastNumber ==
  ASSUME NEW T \in SUBSET Nat, T # {}
  PROVE  \E x \in T : \A y \in T : x <= y
<1> DEFINE R == OpToRel(<, Nat)
<1>1. IsWellFoundedOn(R, Nat)
  BY NatLessThanWellFounded, Zenon
<1> HIDE DEF R
<1>2. PICK x \in T : \A y \in T : <<y, x>> \notin R
  BY <1>1, WFMin
<1>3. \A y \in T : ~(y < x)
  BY <1>2 DEF R, OpToRel
<1> QED BY <1>3

\* A request reserves a refund of a payment somebody made, under a fresh key.
LEMMA RequestRefundStep ==
  ASSUME IInv, NEW w \in Workers, NEW p \in Payments,
         NEW asked \in Amounts \cup {0}, NEW manual \in BOOLEAN,
         NEW defer \in BOOLEAN, RequestRefund(w, p, asked, manual, defer)
  PROVE  IInv'
<1> DEFINE amount == IF asked = 0 THEN Price - pay[p].refunded ELSE asked
           id == CHOOSE r \in Unused : \A s \in Unused : r <= s
           status == IF defer \/ ~manual THEN "requested" ELSE "manual_action"
           key == <<p, Cardinality(Of(p)) + 1, pay[p].refunded + amount>>
           row == [NoRefund EXCEPT !.payment = p, !.amount = amount,
                                   !.manual = manual, !.status = status,
                                   !.key = key]
<1>1. /\ Unused # {} /\ Refundable(p, amount)
      /\ IF manual \/ defer
         THEN Save(w, id, NoRefund, row) /\ UNCHANGED stripe
         ELSE AskStripe(w, id, NoRefund, row)
      /\ UNCHANGED <<now, pay, refund, Ledger>>
  BY DEF RequestRefund, Ledger
<1>2. pay[p].refunded \in Nat /\ Price \in Nat /\ pay[p].status = "succeeded"
  BY <1>1, LedgerAssumption DEF IInv, Shape, Payment, Refundable
<1>3. amount \in Nat /\ pay[p].refunded + amount \in 1..Price
  <2>1. amount \in Int
    BY <1>2, LedgerAssumption
  <2>2. 0 < amount /\ amount <= Price - pay[p].refunded
    BY <1>1 DEF Refundable
  <2> HIDE DEF amount
  <2> QED BY <1>2, <2>1, <2>2
<1>4. key \in Keys
  <2>1. Cardinality(Of(p)) + 1 \in RefundIds
    BY <1>1, OrdinalInRange
  <2> QED BY <1>3, <2>1 DEF Keys
<1>5. id \in RefundIds
  <2>1. Unused \in SUBSET RefundIds /\ Unused # {} /\ Unused \in SUBSET Nat
    BY <1>1, LedgerAssumption DEF Unused, RefundIds
  <2>2. \E r \in Unused : \A s \in Unused : r <= s
    BY <2>1, LeastNumber
  <2> QED BY <2>1, <2>2
<1>6. status \in Active
  BY DEF Active
<1> HIDE DEF amount, id, key, status
<1>7. row \in Refund /\ Known(row)
  <2>1. row \in Refund /\ row.payment = p /\ row.key = key
    BY <1>3, <1>4, <1>6, NullRows DEF Refund
  <2> QED BY <1>2, <1>4, <2>1 DEF Known
<1> HIDE DEF row
<1>8. NoRefund \in Refund /\ stripe \in [Keys -> Remote]
  BY NullRows DEF IInv, Shape
<1>9. Held(w) /\ stripe' \in [Keys -> Remote]
  <2>1. CASE manual \/ defer
    BY <1>1, <1>5, <1>7, <1>8, <2>1, SaveHolds
  <2>2. CASE ~(manual \/ defer)
    BY <1>1, <1>5, <1>7, <1>8, <2>2, AskStripeHolds
  <2> QED BY <2>1, <2>2
<1> QED BY <1>1, <1>9, HeldStep

\* A probe copies a refund on record.
LEMMA ProbeStep ==
  ASSUME IInv, NEW w \in Workers, NEW r \in RefundIds, NEW op, Probe(w, r, op)
  PROVE  IInv'
<1> DEFINE t == [IdleTx EXCEPT !.op = op, !.id = r, !.read = refund[r]]
<1>1. /\ refund[r].payment # "none" /\ op \in {"sync", "confirm", "fail"}
      /\ tx' = [tx EXCEPT ![w] = t]
      /\ UNCHANGED <<now, pay, refund, stripe, Ledger>>
  BY DEF Probe, Ledger
<1>2. refund[r] \in Refund /\ Known(refund[r])
  BY <1>1 DEF IInv, Shape, RefundsKnown
<1>3. /\ t \in AnyTx /\ t.op = op /\ t.id = r /\ t.read = refund[r] /\ t.due = {}
  BY <1>1, <1>2, NullRows DEF AnyTx, Ops
<1> HIDE DEF t
<1>4. tx' \in [Workers -> AnyTx] /\ tx'[w] = t
      /\ \A v \in Workers \ {w} : tx'[v] = tx[v]
  BY <1>1, <1>3 DEF IInv, Shape
<1>5. Shape'
  BY <1>1, <1>4 DEF IInv, Shape, Ledger
<1>6. Onward
  BY <1>1, UnchangedOnward
<1>7. HandlersSound'
  <2>1. HandlerSound(tx[w])'
    BY <1>1, <1>2, <1>3, <1>4 DEF HandlerSound, Known
  <2> QED BY <1>4, <1>6, <2>1, HandlersStay
<1>8. RefundsKnown'
  BY <1>1, <1>6, RefundsStay DEF IInv
<1>9. NeverOverRefunded' /\ BooksSound'
  BY <1>1 DEF IInv, NeverOverRefunded, BooksSound, BookSound, Ledger
<1> QED BY <1>5, <1>7, <1>8, <1>9 DEF IInv

\* A synchronisation or a manual resolution of the refund that was read.
LEMMA ResolutionStep ==
  ASSUME IInv, NEW w \in Workers, Sync(w) \/ Resolve(w)
  PROVE  IInv'
<1> DEFINE read == tx[w].read
           id == tx[w].id
           failed == [read EXCEPT !.status = "failed"]
<1>1. /\ tx[w].op \in {"sync", "confirm", "fail"}
      /\ UNCHANGED <<now, pay, refund, Ledger>>
      /\ \/ GiveUp(w)
         \/ AskStripe(w, id, read, read)
         \/ Save(w, id, read, failed) /\ UNCHANGED stripe
         \/ SaveConfirmed(w, id, read, read) /\ UNCHANGED stripe
  BY DEF Sync, Resolve, Ledger
<1>2. read \in Refund /\ Known(read) /\ id \in RefundIds /\ stripe \in [Keys -> Remote]
  BY <1>1 DEF IInv, Shape, AnyTx, HandlersSound, HandlerSound
<1>3. failed \in Refund /\ Known(failed)
  BY <1>2 DEF Refund, Known
<1> HIDE DEF read, id, failed
<1>4. Held(w) /\ stripe' \in [Keys -> Remote]
  <2>1. CASE GiveUp(w)
    BY <1>2, <2>1, NullRows DEF GiveUp, Held
  <2>2. CASE AskStripe(w, id, read, read)
    BY <1>2, <2>2, AskStripeHolds
  <2>3. CASE Save(w, id, read, failed) /\ UNCHANGED stripe
    BY <1>2, <1>3, <2>3, SaveHolds
  <2>4. CASE SaveConfirmed(w, id, read, read) /\ UNCHANGED stripe
    BY <1>2, <2>4, SaveHolds
  <2> QED BY <1>1, <2>1, <2>2, <2>3, <2>4
<1> QED BY <1>1, <1>4, HeldStep

\* The commit saves what the handler held, and adjusts the commission when the
\* refund is accounted for.
LEMMA CommitStep ==
  ASSUME IInv, NEW w \in Workers, Commit(w)
  PROVE  IInv'
<1> DEFINE t == tx[w]
           p == t.row.payment
           m == Payer[p]
           flushed == Flushed(t.id, t.read, t.row)
           table == [refund EXCEPT ![t.id] = flushed]
           back == t.pay.refunded - pay[p].refunded
           left == Price - t.pay.refunded
           b == Adjusted(Book(m), t.seen, Mine(m), p, back, left, now)
<1>1. /\ t \in AnyTx /\ t.op = "save" /\ Saves(t)
      /\ refund \in [RefundIds -> Refund] /\ pay \in [Payments -> Payment]
      /\ tx \in [Workers -> AnyTx]
  BY DEF IInv, Shape, HandlersSound, HandlerSound, Commit
<1>2. /\ p \in Payments /\ m \in Members /\ t.id \in RefundIds
      /\ t.pay \in Payment /\ t.row \in Refund /\ t.seen \in AnyCommission
      /\ t.pay.status # "pending"
  BY <1>1, LedgerAssumption DEF Saves, Known, AnyTx
<1>3. flushed \in Refund /\ (flushed.payment # "none" => Known(flushed))
  <2>1. CASE t.read = NoRefund
    BY <1>1, <2>1 DEF Flushed, Saves, AnyTx
  <2>2. CASE t.read # NoRefund
    <3> DEFINE r == refund[t.id]
               status == Net(r.status, t.read.status, t.row.status)
               known == Net(r.known, t.read.known, t.row.known)
               applied == Net(r.applied, t.read.applied, t.row.applied)
    <3>1. r \in Refund /\ (r.payment # "none" => Known(r))
      BY <1>1, <1>2 DEF IInv, RefundsKnown
    <3>2. /\ status \in Active \cup {"none", "confirmed", "failed"}
          /\ known \in BOOLEAN /\ applied \in BOOLEAN
      BY <1>1, <1>2, <3>1 DEF Net, Refund, AnyTx
    <3>3. flushed = [r EXCEPT !.status = status, !.known = known, !.applied = applied]
      BY <2>2, <3>1 DEF Flushed, Refund
    <3> HIDE DEF r, status, known, applied, flushed
    <3>4. flushed \in Refund /\ flushed.payment = r.payment /\ flushed.key = r.key
      BY <3>1, <3>2, <3>3 DEF Refund
    <3> QED BY <3>1, <3>4 DEF Known
  <2> QED BY <2>1, <2>2
<1> HIDE DEF flushed
<1>4. /\ table \in [RefundIds -> Refund]
      /\ \A r \in RefundIds : table[r].payment # "none" => Known(table[r])
  BY <1>1, <1>2, <1>3 DEF IInv, RefundsKnown
<1> HIDE DEF table
<1>5. b \in Books /\ Keeps(Book(m), b)
  <2>1. back \in Int /\ left \in Int
    BY <1>1, <1>2, LedgerAssumption DEF Payment
  <2>2. Book(m) \in Books /\ Mine(m) \in SUBSET Payments
    BY <1>2, BookIsBook
  <2> HIDE DEF back, left, m, p
  <2> QED BY <1>2, <2>1, <2>2, AdjustedKeeps
<1> HIDE DEF b
<1>6. /\ \/ UNCHANGED <<refund, pay, ref, comm>>
         \/ /\ refund' = table
            /\ pay' = [pay EXCEPT ![p] = t.pay]
            /\ UNCHANGED <<ref, comm>> \/ WriteBook(m, b)
      /\ tx' = [tx EXCEPT ![w] = IdleTx]
      /\ UNCHANGED <<now, stripe, batch, payouts>>
  BY DEF Commit, table, flushed, b, back, left
<1> HIDE DEF t
<1>7. /\ pay' \in [Payments -> Payment]
      /\ \A q \in Payments : pay'[q] = pay[q] \/ (q = p /\ pay'[q] = t.pay)
  BY <1>1, <1>2, <1>6
<1> HIDE DEF m, p
<1>8. Onward
  BY <1>2, <1>7 DEF Onward
<1>9. /\ refund' \in [RefundIds -> Refund]
      /\ RefundsKnown'
  <2>1. refund' = refund \/ refund' = table
    BY <1>6
  <2>2. \A r \in RefundIds : refund'[r].payment # "none" => Known(refund'[r])
    BY <1>4, <2>1 DEF IInv, RefundsKnown
  <2> QED BY <1>1, <1>4, <1>8, <2>1, <2>2 DEF RefundsKnown, Known, Onward
<1>10. /\ ref' \in [Members -> AnyReferral] /\ comm' \in [Payments -> AnyCommission]
       /\ BooksSound'
  <2>1. CASE UNCHANGED <<ref, comm>>
    BY <1>6, <1>8, <2>1 DEF IInv, Shape, BooksSound, BookSound, Onward
  <2>2. CASE WriteBook(m, b)
    BY <1>2, <1>5, <1>6, <1>8, <2>2, WriteKeeps
  <2> QED BY <1>6, <2>1, <2>2
<1>11. /\ tx' \in [Workers -> AnyTx] /\ tx'[w] = IdleTx
       /\ \A v \in Workers \ {w} : tx'[v] = tx[v]
  BY <1>1, <1>6, NullRows
<1>12. Shape'
  BY <1>6, <1>7, <1>9, <1>10, <1>11 DEF IInv, Shape
<1>13. HandlersSound'
  BY <1>8, <1>11, HandlersStay
<1>14. NeverOverRefunded'
  BY <1>1, <1>7 DEF IInv, NeverOverRefunded, Saves, Within
<1> QED BY <1>9, <1>10, <1>12, <1>13, <1>14 DEF IInv

\* Steps of the clock, of Stripe, and of a handler that dies or reads due rows.
LEMMA FailStep ==
  ASSUME IInv, NEW w \in Workers, Fail(w)
  PROVE  IInv'
<1>1. Held(w) /\ UNCHANGED <<now, pay, refund, stripe, Ledger>>
  BY NullRows DEF Fail, Held, Ledger
<1>2. stripe' \in [Keys -> Remote]
  BY <1>1 DEF IInv, Shape
<1> QED BY <1>1, <1>2, HeldStep

\* Time, and Stripe, move no book.
LEMMA OutsideStep ==
  ASSUME IInv, Tick \/ \E k \in Keys, status \in Answers : RemoteSettles(k, status)
  PROVE  IInv'
<1>1. UNCHANGED <<pay, refund, ref, comm, batch, payouts, tx>>
  BY DEF Tick, RemoteSettles, Ledger
<1>2. now' \in Nat /\ stripe' \in [Keys -> Remote]
  <2>1. CASE Tick
    BY <2>1 DEF Tick, IInv, Shape
  <2>2. ASSUME NEW k \in Keys, NEW status \in Answers, RemoteSettles(k, status)
        PROVE  now' \in Nat /\ stripe' \in [Keys -> Remote]
    <3>1. stripe[k] \in Remote /\ stripe' = [stripe EXCEPT ![k].status = status]
          /\ now' = now
      BY <2>2 DEF RemoteSettles, IInv, Shape
    <3>2. [stripe[k] EXCEPT !.status = status] \in Remote
      BY <3>1 DEF Remote
    <3> QED BY <3>1, <3>2 DEF IInv, Shape
  <2> QED BY <2>1, <2>2
<1>3. Shape'
  BY <1>1, <1>2 DEF IInv, Shape
<1>4. Onward /\ \A v \in Workers : tx'[v] = tx[v]
  BY <1>1, UnchangedOnward
<1>5. RefundsKnown' /\ HandlersSound'
  BY <1>1, <1>4, RefundsStay, HandlersStay DEF IInv
<1>6. NeverOverRefunded' /\ BooksSound'
  BY <1>1 DEF IInv, NeverOverRefunded, BooksSound, BookSound
<1> QED BY <1>3, <1>5, <1>6 DEF IInv

\* The due rows are rows of payments somebody made.
LEMMA BeginBatchStep ==
  ASSUME IInv, NEW w \in Workers, BeginBatch(w)
  PROVE  IInv'
<1> DEFINE due == {p \in Pending(comm, Payments) : comm[p].vests <= now}
           t == [IdleTx EXCEPT !.op = "batch", !.due = due]
<1>1. due \in SUBSET Payments /\ \A p \in due : comm[p].status = "pending"
  BY DEF Pending
<1>2. tx' = [tx EXCEPT ![w] = t] /\ UNCHANGED <<now, pay, refund, stripe, Ledger>>
  BY DEF BeginBatch, Ledger
<1> HIDE DEF due
<1>3. t \in AnyTx /\ t.op = "batch" /\ t.due = due
  BY <1>1, NullRows DEF AnyTx, Ops
<1> HIDE DEF t
<1>4. tx' \in [Workers -> AnyTx] /\ tx'[w] = t
      /\ \A v \in Workers \ {w} : tx'[v] = tx[v]
  BY <1>2, <1>3 DEF IInv, Shape
<1>5. Shape'
  BY <1>2, <1>4 DEF IInv, Shape, Ledger
<1>6. Onward
  BY <1>2, UnchangedOnward
<1>7. \A p \in due : pay[p].status # "pending"
  BY <1>1 DEF IInv, BooksSound, BookSound
<1>8. HandlersSound'
  <2>1. HandlerSound(tx[w])'
    BY <1>2, <1>3, <1>4, <1>7 DEF HandlerSound
  <2> QED BY <1>4, <1>6, <2>1, HandlersStay
<1>9. RefundsKnown'
  BY <1>2, <1>6, RefundsStay DEF IInv
<1>10. NeverOverRefunded' /\ BooksSound'
  BY <1>2 DEF IInv, NeverOverRefunded, BooksSound, BookSound, Ledger
<1> QED BY <1>5, <1>8, <1>9, <1>10 DEF IInv

(***************************************************************************)
(* Payouts.                                                                *)
(***************************************************************************)
\* A step of the batches and rows alone.
LEMMA BatchStep ==
  ASSUME IInv, UNCHANGED <<now, pay, refund, stripe>>,
         ref' \in [Members -> AnyReferral],
         comm' \in [Payments -> AnyCommission],
         batch' = [b \in BatchIds |-> batch'[b]],
         \A b \in BatchIds :
           batch'[b] = [status |-> batch'[b].status, total |-> batch'[b].total],
         payouts' \in [Payments -> Nat],
         \A v \in Workers : tx'[v] = tx[v] \/ tx'[v] = IdleTx,
         tx' \in [Workers -> AnyTx],
         BooksSound'
  PROVE  IInv'
<1>1. Shape'
  BY DEF IInv, Shape
<1>2. Onward
  BY UnchangedOnward
<1>3. RefundsKnown' /\ HandlersSound'
  BY <1>2, RefundsStay, HandlersStay DEF IInv
<1>4. NeverOverRefunded'
  BY DEF IInv, NeverOverRefunded
<1> QED BY <1>1, <1>3, <1>4 DEF IInv

\* A transition writes the status of one batch.
LEMMA BatchMoves ==
  ASSUME IInv, NEW b \in BatchIds, NEW s,
         batch' = [batch EXCEPT ![b].status = s]
  PROVE  /\ batch' = [c \in BatchIds |-> batch'[c]]
         /\ \A c \in BatchIds :
              batch'[c] = [status |-> batch'[c].status, total |-> batch'[c].total]
         /\ batch'[b].status = s
         /\ \A c \in BatchIds \ {b} : batch'[c] = batch[c]
<1>1. /\ batch = [c \in BatchIds |-> batch[c]]
      /\ \A c \in BatchIds : batch[c] = [status |-> batch[c].status, total |-> batch[c].total]
  BY DEF IInv, Shape
<1> DEFINE row == [batch[b] EXCEPT !.status = s]
<1>2. row = [status |-> s, total |-> batch[b].total]
  BY <1>1
<1>3. batch' = [c \in BatchIds |-> IF c = b THEN row ELSE batch[c]]
  BY <1>1
<1> HIDE DEF row
<1> QED BY <1>1, <1>2, <1>3

\* A paid batch stays paid, and its rows stay in it.
LEMMA MarkSentStep ==
  ASSUME IInv, NEW b \in BatchIds, MarkSent(b)
  PROVE  IInv'
<1>1. /\ batch[b].status = "draft" /\ batch' = [batch EXCEPT ![b].status = "sent"]
      /\ UNCHANGED <<now, pay, refund, stripe, ref, comm, payouts, tx>>
  BY DEF MarkSent
<1>2. /\ batch' = [c \in BatchIds |-> batch'[c]]
      /\ \A c \in BatchIds :
           batch'[c] = [status |-> batch'[c].status, total |-> batch'[c].total]
      /\ \A c \in BatchIds \ {b} : batch'[c] = batch[c]
  BY <1>1, BatchMoves
<1>3. BooksSound'
  BY <1>1, <1>2 DEF IInv, BooksSound, BookSound
<1> QED BY <1>1, <1>2, <1>3, BatchStep DEF IInv, Shape

\* The rows of a batch are paid once: it was not paid before.
LEMMA MarkPaidStep ==
  ASSUME IInv, NEW b \in BatchIds, MarkPaid(b)
  PROVE  IInv'
<1>1. /\ batch[b].status \in {"draft", "sent"}
      /\ batch' = [batch EXCEPT ![b].status = "paid"]
      /\ comm' = Mark(comm, InBatch(b), "paid")
      /\ payouts' = [p \in Payments |-> payouts[p] + IF p \in InBatch(b) THEN 1 ELSE 0]
      /\ UNCHANGED <<now, pay, refund, stripe, ref, tx>>
  BY DEF MarkPaid
<1>2. /\ batch' = [c \in BatchIds |-> batch'[c]]
      /\ \A c \in BatchIds :
           batch'[c] = [status |-> batch'[c].status, total |-> batch'[c].total]
      /\ batch'[b].status = "paid"
      /\ \A c \in BatchIds \ {b} : batch'[c] = batch[c]
  BY <1>1, BatchMoves
<1>3. InBatch(b) \in SUBSET Payments /\ \A p \in Payments : p \in InBatch(b) <=> comm[p].batch = b
  BY DEF InBatch
<1>4. /\ comm' \in [Payments -> AnyCommission]
      /\ \A q \in Payments : /\ comm'[q].batch = comm[q].batch
                             /\ q \notin InBatch(b) => comm'[q] = comm[q]
  <2>1. "paid" \in Statuses /\ comm \in [Payments -> AnyCommission]
    BY DEF Statuses, IInv, Shape
  <2> QED BY <1>1, <1>3, <2>1, MarkRows
<1>5. payouts' \in [Payments -> Nat]
  BY <1>1 DEF IInv, Shape
<1>6. ASSUME NEW p \in Payments PROVE BookSound(p)'
  <2>1. BookSound(p) /\ payouts[p] \in Nat /\ 0 \notin BatchIds
    BY RulesAssumption DEF IInv, BooksSound, Shape
  <2>2. CASE p \in InBatch(b)
    <3>1. comm[p].batch = b /\ payouts[p] # 1 /\ pay[p].status # "pending"
      BY <1>1, <1>3, <2>1, <2>2 DEF BookSound
    <3>2. payouts'[p] = 1 /\ comm'[p].batch = b
      BY <1>1, <1>4, <2>1, <2>2, <3>1 DEF BookSound
    <3> QED BY <1>1, <1>2, <3>1, <3>2 DEF BookSound
  <2>3. CASE p \notin InBatch(b)
    <3>1. payouts'[p] = payouts[p] /\ comm'[p] = comm[p] /\ comm[p].batch # b
      BY <1>1, <1>3, <1>4, <2>1, <2>3
    <3> QED BY <1>1, <1>2, <2>1, <3>1 DEF BookSound
  <2> QED BY <2>2, <2>3
<1>7. BooksSound'
  BY <1>6 DEF BooksSound
<1> QED BY <1>1, <1>2, <1>4, <1>5, <1>7, BatchStep DEF IInv, Shape

\* A batch that was paid is not cancelled.
LEMMA CancelBatchStep ==
  ASSUME IInv, NEW b \in BatchIds, CancelBatch(b)
  PROVE  IInv'
<1>1. /\ batch[b].status \in {"draft", "sent"}
      /\ batch' = [batch EXCEPT ![b].status = "cancelled"]
      /\ comm' = [p \in Payments |->
                    IF p \in InBatch(b) /\ comm[p].status # "paid"
                    THEN [comm[p] EXCEPT !.batch = 0] ELSE comm[p]]
      /\ UNCHANGED <<now, pay, refund, stripe, ref, payouts, tx>>
  BY DEF CancelBatch
<1>2. /\ batch' = [c \in BatchIds |-> batch'[c]]
      /\ \A c \in BatchIds :
           batch'[c] = [status |-> batch'[c].status, total |-> batch'[c].total]
      /\ \A c \in BatchIds \ {b} : batch'[c] = batch[c]
  BY <1>1, BatchMoves
<1>3. comm \in [Payments -> AnyCommission]
  BY DEF IInv, Shape
<1>4. \A p \in Payments :
        /\ [comm[p] EXCEPT !.batch = 0] \in AnyCommission
        /\ [comm[p] EXCEPT !.batch = 0].batch = 0
        /\ [comm[p] EXCEPT !.batch = 0].status = comm[p].status
  BY <1>3 DEF AnyCommission
<1>5. comm' \in [Payments -> AnyCommission]
  BY <1>1, <1>3, <1>4
<1>6. ASSUME NEW p \in Payments PROVE BookSound(p)'
  <2>1. BookSound(p)
    BY DEF IInv, BooksSound
  <2>2. CASE comm[p].batch = b
    <3>1. payouts[p] # 1
      BY <1>1, <2>1, <2>2 DEF BookSound
    <3>2. comm'[p].status = comm[p].status /\ comm'[p].batch \in {0, b}
      BY <1>1, <1>4, <2>2
    <3>3. pay[p].status # "pending"
      BY <2>1, <2>2, RulesAssumption DEF BookSound
    <3> QED BY <1>1, <2>1, <3>1, <3>3 DEF BookSound
  <2>3. CASE comm[p].batch # b
    <3>1. comm'[p] = comm[p]
      BY <1>1, <2>3 DEF InBatch
    <3> QED BY <1>1, <1>2, <2>1, <2>3, <3>1 DEF BookSound
  <2> QED BY <2>2, <2>3
<1>7. BooksSound'
  BY <1>6 DEF BooksSound
<1> QED BY <1>1, <1>2, <1>5, <1>7, BatchStep DEF IInv, Shape

\* A new batch takes rows that are in none, whatever happened since the due rows
\* were read.
LEMMA CommitBatchStep ==
  ASSUME IInv, NEW w \in Workers, CommitBatch(w)
  PROVE  IInv'
<1> DEFINE due == tx[w].due
           book(m) == VestDue(Book(m), Mine(m), due, now)
           settled == [p \in Payments |-> book(Payer[p]).comm[p]]
           rows == Eligible(settled)
           id == CHOOSE b \in FreeBatches : \A c \in FreeBatches : b <= c
           total == Amount(settled, rows)
<1>1. /\ due \in SUBSET Payments /\ \A p \in due : pay[p].status # "pending"
      /\ comm \in [Payments -> AnyCommission] /\ tx \in [Workers -> AnyTx]
  BY DEF IInv, Shape, AnyTx, HandlersSound, HandlerSound
<1>2. /\ tx' = [tx EXCEPT ![w] = IdleTx]
      /\ UNCHANGED <<now, pay, refund, stripe, payouts>>
      /\ \/ UNCHANGED <<ref, comm, batch>>
         \/ /\ FreeBatches # {}
            /\ ref' = [m \in Members |-> book(m).ref]
            /\ comm' = [p \in Payments |->
                          IF p \in rows THEN [settled[p] EXCEPT !.batch = id]
                          ELSE settled[p]]
            /\ batch' = [batch EXCEPT ![id] = [status |-> "draft", total |-> total]]
  BY DEF CommitBatch
<1>3. /\ tx' \in [Workers -> AnyTx]
      /\ \A v \in Workers : tx'[v] = tx[v] \/ tx'[v] = IdleTx
  BY <1>1, <1>2, NullRows
<1>4. CASE UNCHANGED <<ref, comm, batch>>
  <2>1. BooksSound'
    BY <1>2, <1>4 DEF IInv, BooksSound, BookSound
  <2> QED BY <1>2, <1>3, <1>4, <2>1, BatchStep DEF IInv, Shape
<1>5. CASE /\ FreeBatches # {}
           /\ ref' = [m \in Members |-> book(m).ref]
           /\ comm' = [p \in Payments |->
                         IF p \in rows THEN [settled[p] EXCEPT !.batch = id]
                         ELSE settled[p]]
           /\ batch' = [batch EXCEPT ![id] = [status |-> "draft", total |-> total]]
  <2>1. id \in BatchIds /\ batch[id].status = "none" /\ id # 0
    <3>1. FreeBatches \in SUBSET Nat /\ FreeBatches # {}
      BY <1>5, RulesAssumption DEF FreeBatches
    <3>2. \E b \in FreeBatches : \A c \in FreeBatches : b <= c
      BY <3>1, LeastNumber
    <3>3. id \in FreeBatches
      BY <3>2
    <3> HIDE DEF id
    <3> QED BY <3>3, RulesAssumption DEF FreeBatches
  <2>2. \A m \in Members :
          /\ book(m) \in Books
          /\ \A q \in Payments : /\ book(m).comm[q].batch = comm[q].batch
                                 /\ q \notin due => book(m).comm[q] = comm[q]
    <3> SUFFICES ASSUME NEW m \in Members
                 PROVE  /\ book(m) \in Books
                        /\ \A q \in Payments :
                             /\ book(m).comm[q].batch = comm[q].batch
                             /\ q \notin due => book(m).comm[q] = comm[q]
      OBVIOUS
    <3>1. Book(m) \in Books /\ Book(m).comm = comm /\ Mine(m) \in SUBSET Payments
      BY BookIsBook
    <3> HIDE DEF due
    <3> DEFINE old == Book(m)
               mine == Mine(m)
               new == VestDue(old, mine, due, now)
    <3>2. old \in Books /\ old.comm = comm /\ mine \in SUBSET Payments
      BY <3>1
    <3>3. book(m) = new
      OBVIOUS
    <3> HIDE DEF old, mine, book
    <3>. due \in SUBSET Payments
      BY <1>1
    <3>4. new \in Books
      BY <3>2, VestDueKeeps
    <3>5. \A q \in Payments : new.comm[q].batch = old.comm[q].batch
      BY <3>2, VestDueKeeps
    <3>6. \A q \in Payments : q \notin due => new.comm[q] = old.comm[q]
      BY <3>2, VestDueKeeps
    <3> HIDE DEF new
    <3> QED BY <3>2, <3>3, <3>4, <3>5, <3>6
  <2>3. \A p \in Payments :
          /\ settled[p] \in AnyCommission /\ settled[p].batch = comm[p].batch
          /\ p \notin due => settled[p] = comm[p]
    BY <2>2, LedgerAssumption DEF Books
  <2>4. \A p \in rows :
          /\ p \in Payments /\ settled[p].status = "vested" /\ settled[p].batch = 0
    BY DEF Eligible
  <2>5. ref' \in [Members -> AnyReferral]
    BY <1>5, <2>2 DEF Books
  <2> HIDE DEF settled, rows, id, due, book, total
  <2>6. \A p \in Payments : /\ [settled[p] EXCEPT !.batch = id] \in AnyCommission
                            /\ [settled[p] EXCEPT !.batch = id].batch = id
    BY <2>1, <2>3 DEF AnyCommission
  <2>7. comm' \in [Payments -> AnyCommission]
    BY <1>5, <2>3, <2>6
  <2>8. /\ batch' = [c \in BatchIds |-> batch'[c]]
        /\ \A c \in BatchIds :
             batch'[c] = [status |-> batch'[c].status, total |-> batch'[c].total]
        /\ \A c \in BatchIds \ {id} : batch'[c] = batch[c]
    <3>1. /\ batch = [c \in BatchIds |-> batch[c]]
          /\ \A c \in BatchIds :
               batch[c] = [status |-> batch[c].status, total |-> batch[c].total]
      BY DEF IInv, Shape
    <3>2. batch' = [c \in BatchIds |->
                      IF c = id THEN [status |-> "draft", total |-> total] ELSE batch[c]]
      BY <1>5, <3>1
    <3> QED BY <2>1, <3>1, <3>2
  <2>9. ASSUME NEW p \in Payments PROVE BookSound(p)'
    <3>1. BookSound(p) /\ 0 \notin BatchIds
      BY RulesAssumption DEF IInv, BooksSound
    <3>2. CASE p \in rows
      <4>1. comm[p].batch = 0
        BY <2>3, <2>4, <3>2
      <4>2. payouts[p] # 1
        BY <3>1, <4>1 DEF BookSound
      <4>3. pay[p].status # "pending"
        <5>1. CASE p \in due
          BY <1>1, <5>1
        <5>2. CASE p \notin due
          BY <2>3, <2>4, <3>1, <3>2, <5>2 DEF BookSound
        <5> QED BY <5>1, <5>2
      <4> QED BY <1>2, <3>1, <4>2, <4>3 DEF BookSound
    <3>3. CASE p \notin rows
      <4>1. comm'[p] = settled[p] /\ comm'[p].batch = comm[p].batch
        BY <1>5, <2>3, <3>3
      <4>2. pay[p].status = "pending" => comm'[p] = comm[p]
        BY <1>1, <2>3, <4>1
      <4>3. payouts[p] = 1 => comm[p].batch \in BatchIds \ {id}
        BY <2>1, <3>1 DEF BookSound
      <4> QED BY <1>2, <2>8, <3>1, <4>1, <4>2, <4>3 DEF BookSound
    <3> QED BY <3>2, <3>3
  <2>10. BooksSound'
    BY <2>9 DEF BooksSound
  <2> QED BY <1>2, <1>3, <2>5, <2>7, <2>8, <2>10, BatchStep DEF IInv, Shape
<1> QED BY <1>2, <1>4, <1>5

(***************************************************************************)
(* The theorems.                                                           *)
(***************************************************************************)
LEMMA NextIInv == IInv /\ [Next]_vars => IInv'
<1> SUFFICES ASSUME IInv, [Next]_vars PROVE IInv'
  OBVIOUS
<1>1. CASE Tick
  BY <1>1, OutsideStep
<1>2. CASE Earn
  BY <1>2, FulfilStep, SubscriptionCancelledStep DEF Earn
<1>3. ASSUME NEW w \in Workers, Ask(w) PROVE IInv'
  BY <1>3, RequestRefundStep DEF Ask
<1>4. ASSUME NEW w \in Workers, Resolution(w) PROVE IInv'
  BY <1>4, ProbeStep, ResolutionStep DEF Resolution
<1>5. ASSUME NEW w \in Workers, Commit(w) \/ Fail(w) PROVE IInv'
  BY <1>5, CommitStep, FailStep
<1>6. CASE \E k \in Keys, status \in Answers : RemoteSettles(k, status)
  BY <1>6, OutsideStep
<1>7. ASSUME NEW w \in Workers, BeginBatch(w) \/ CommitBatch(w) PROVE IInv'
  BY <1>7, BeginBatchStep, CommitBatchStep
<1>8. CASE PayOut
  BY <1>8, MarkSentStep, MarkPaidStep, CancelBatchStep DEF PayOut
<1>9. CASE UNCHANGED vars
  BY <1>9 DEF vars, IInv, Shape, RefundsKnown, Known, HandlersSound, HandlerSound,
              Saves, Within, NeverOverRefunded, BooksSound, BookSound
<1> QED BY <1>1, <1>2, <1>3, <1>4, <1>5, <1>6, <1>7, <1>8, <1>9 DEF Next

\* The invariant of the program as deployed always holds.
LEMMA Inductive == Spec => []IInv
BY InitIInv, NextIInv, PTL DEF Spec

\* No commission is paid out twice, in any instance of the program as deployed.
THEOREM PaidOutOnceCorrect == Spec => []PaidOutOnce
<1>1. IInv => PaidOutOnce
  BY DEF IInv, BooksSound, BookSound, PaidOutOnce
<1> QED BY <1>1, Inductive, PTL

\* No payment is refunded beyond its price, in any instance of the program as
\* deployed.
THEOREM NeverOverRefundedCorrect == Spec => []NeverOverRefunded
<1>1. IInv => NeverOverRefunded
  BY DEF IInv
<1> QED BY <1>1, Inductive, PTL

(***************************************************************************)
(* Sums.  Every sum of the module is Total of a function on a finite set.  *)
(***************************************************************************)
Any(s) == CHOOSE x \in s : TRUE
Grown(c, S, f) ==
  [s \in SUBSET S |-> IF s = {} THEN 0 ELSE c[Any(s)] + f[s \ {Any(s)}]]
Sums(c, S) == CHOOSE f : f = Grown(c, S, f)
Total(c, S) == Sums(c, S)[S]

\* A family of subsets of a finite set has one none of whose proper subsets is
\* of the family: how the lemmas on sums do their induction.
LEMMA SmallestSet ==
  ASSUME NEW S, IsFiniteSet(S), NEW B \in SUBSET SUBSET S, B # {}
  PROVE  \E s \in B : \A x \in s : s \ {x} \notin B
<1> DEFINE T == {Cardinality(s) : s \in B}
<1>1. \A s \in B : IsFiniteSet(s) /\ Cardinality(s) \in Nat
  BY FS_Subset, FS_CardinalityType
<1>2. T \in SUBSET Nat /\ T # {}
  BY <1>1
<1>3. PICK n \in T : \A k \in T : n <= k
  BY <1>2, LeastNumber
<1>4. PICK s \in B : Cardinality(s) = n
  BY <1>3
<1>5. ASSUME NEW x \in s, s \ {x} \in B PROVE FALSE
  <2>1. Cardinality(s \ {x}) = Cardinality(s) - 1
    BY <1>1, <1>5, FS_RemoveElement
  <2>2. n <= Cardinality(s \ {x})
    BY <1>3, <1>5
  <2> QED BY <1>1, <1>4, <2>1, <2>2
<1> QED BY <1>5

\* The recursion of a sum has a solution.
LEMMA SumsExist ==
  ASSUME NEW S, IsFiniteSet(S), NEW c, \A x \in S : c[x] \in Int
  PROVE  \E f \in [SUBSET S -> Int] : f = Grown(c, S, f)
<1> DEFINE Upto(n) ==
             \E f \in [SUBSET S -> Int] :
               \A s \in SUBSET S : Cardinality(s) <= n => f[s] = Grown(c, S, f)[s]
           Bad == {n \in Nat : ~Upto(n)}
<1>1. \A s \in SUBSET S : /\ IsFiniteSet(s) /\ Cardinality(s) \in Nat
                          /\ Cardinality(s) <= Cardinality(S)
                          /\ s # {} => /\ Any(s) \in s
                                       /\ Cardinality(s \ {Any(s)}) = Cardinality(s) - 1
  BY FS_Subset, FS_CardinalityType, FS_RemoveElement DEF Any
<1>2. \A f \in [SUBSET S -> Int] : Grown(c, S, f) \in [SUBSET S -> Int]
  <2> SUFFICES ASSUME NEW f \in [SUBSET S -> Int], NEW s \in SUBSET S, s # {}
               PROVE  c[Any(s)] + f[s \ {Any(s)}] \in Int
    BY DEF Grown
  <2>1. s \ {Any(s)} \in SUBSET S /\ Any(s) \in S
    BY <1>1
  <2>2. f[s \ {Any(s)}] \in Int /\ c[Any(s)] \in Int
    BY <2>1
  <2> QED BY <2>2
<1>3. Upto(0)
  <2> DEFINE f == [s \in SUBSET S |-> 0]
  <2>1. f \in [SUBSET S -> Int]
    OBVIOUS
  <2>2. \A s \in SUBSET S : Cardinality(s) <= 0 => s = {}
    <3> SUFFICES ASSUME NEW s \in SUBSET S, Cardinality(s) <= 0 PROVE s = {}
      OBVIOUS
    <3>1. IsFiniteSet(s) /\ Cardinality(s) \in Nat
      BY <1>1
    <3>2. Cardinality(s) = 0
      BY <3>1
    <3> QED BY <3>1, <3>2, FS_EmptySet
  <2> QED BY <2>1, <2>2 DEF Grown
<1>4. ASSUME NEW n \in Nat, Upto(n) PROVE Upto(n + 1)
  <2>1. PICK f \in [SUBSET S -> Int] :
          \A s \in SUBSET S : Cardinality(s) <= n => f[s] = Grown(c, S, f)[s]
    BY <1>4
  <2> DEFINE g == Grown(c, S, f)
  <2>2. g \in [SUBSET S -> Int]
    BY <1>2
  <2>3. ASSUME NEW s \in SUBSET S, Cardinality(s) <= n + 1
        PROVE  g[s] = Grown(c, S, g)[s]
    <3>1. CASE s = {}
      BY <3>1 DEF Grown
    <3>2. CASE s # {}
      <4> DEFINE t == s \ {Any(s)}
      <4>1. t \in SUBSET S /\ Cardinality(t) <= n
        BY <1>1, <2>3, <3>2
      <4>2. f[t] = g[t]
        BY <2>1, <4>1
      <4>3. g[s] = c[Any(s)] + f[t]
        BY <3>2 DEF Grown
      <4>4. Grown(c, S, g)[s] = c[Any(s)] + g[t]
        BY <3>2 DEF Grown
      <4> QED BY <4>2, <4>3, <4>4
    <3> QED BY <3>1, <3>2
  <2> QED BY <2>2, <2>3
<1>5. Upto(Cardinality(S))
  <2> HIDE DEF Upto
  <2>1. SUFFICES Bad = {}
    BY <1>1
  <2>2. SUFFICES ASSUME Bad # {} PROVE FALSE
    OBVIOUS
  <2>3. PICK n \in Bad : \A k \in Bad : n <= k
    BY <2>2, LeastNumber
  <2>4. n # 0 /\ n - 1 \in Nat
    BY <1>3, <2>3
  <2>5. Upto(n - 1)
    BY <2>3, <2>4
  <2>6. Upto((n - 1) + 1)
    BY <1>4, <2>4, <2>5
  <2>7. (n - 1) + 1 = n
    BY <2>3
  <2> QED BY <2>3, <2>6, <2>7
<1>6. PICK f \in [SUBSET S -> Int] :
        \A s \in SUBSET S : Cardinality(s) <= Cardinality(S) => f[s] = Grown(c, S, f)[s]
  BY <1>5
<1>7. \A s \in SUBSET S : f[s] = Grown(c, S, f)[s]
  BY <1>1, <1>6
<1>8. Grown(c, S, f) \in [SUBSET S -> Int]
  BY <1>2
<1> QED BY <1>7, <1>8

\* A sum over a finite set is taken one element at a time.
LEMMA TotalStep ==
  ASSUME NEW S, IsFiniteSet(S), NEW c, \A x \in S : c[x] \in Int
  PROVE  /\ S = {} => Total(c, S) = 0
         /\ S # {} => /\ Any(S) \in S
                      /\ Total(c, S) = c[Any(S)] + Total(c, S \ {Any(S)})
<1>1. \A T \in SUBSET S : IsFiniteSet(T) /\ \A x \in T : c[x] \in Int
  BY FS_Subset
<1>2. \A T \in SUBSET S : Sums(c, T) = Grown(c, T, Sums(c, T))
  <2> SUFFICES ASSUME NEW T \in SUBSET S PROVE Sums(c, T) = Grown(c, T, Sums(c, T))
    OBVIOUS
  <2>1. \E f : f = Grown(c, T, f)
    BY <1>1, SumsExist
  <2> QED BY <2>1 DEF Sums
<1>3. \A T \in SUBSET S : \A s \in SUBSET T :
        Sums(c, T)[s] = IF s = {} THEN 0 ELSE c[Any(s)] + Sums(c, T)[s \ {Any(s)}]
  <2> SUFFICES ASSUME NEW T \in SUBSET S, NEW s \in SUBSET T
               PROVE  Sums(c, T)[s] = IF s = {} THEN 0
                                      ELSE c[Any(s)] + Sums(c, T)[s \ {Any(s)}]
    OBVIOUS
  <2> DEFINE f == Sums(c, T)
  <2>1. f = Grown(c, T, f)
    BY <1>2
  <2> HIDE DEF f
  <2>2. f[s] = Grown(c, T, f)[s]
    BY <2>1
  <2>3. Grown(c, T, f)[s] = IF s = {} THEN 0 ELSE c[Any(s)] + f[s \ {Any(s)}]
    BY DEF Grown
  <2> QED BY <2>2, <2>3 DEF f
<1>4. \A s \in SUBSET S : s # {} => Any(s) \in s
  BY DEF Any
<1>5. ASSUME NEW T \in SUBSET S
      PROVE  \A s \in SUBSET T : Sums(c, S)[s] = Sums(c, T)[s]
  <2> DEFINE B == {s \in SUBSET T : Sums(c, S)[s] # Sums(c, T)[s]}
  <2> SUFFICES ASSUME B # {} PROVE FALSE
    OBVIOUS
  <2>1. IsFiniteSet(T) /\ B \in SUBSET SUBSET T
    BY <1>1
  <2>2. PICK s \in B : \A x \in s : s \ {x} \notin B
    <3> HIDE DEF B
    <3> QED BY <2>1, SmallestSet
  <2>3. s \in SUBSET T /\ s \in SUBSET S /\ S \in SUBSET S
    BY <2>2
  <2>4. CASE s = {}
    BY <1>3, <2>2, <2>3, <2>4
  <2>5. CASE s # {}
    <3>1. Any(s) \in s /\ s \ {Any(s)} \in SUBSET T
      BY <1>4, <2>3, <2>5
    <3>2. Sums(c, S)[s \ {Any(s)}] = Sums(c, T)[s \ {Any(s)}]
      BY <2>2, <3>1
    <3>3. Sums(c, S)[s] = c[Any(s)] + Sums(c, S)[s \ {Any(s)}]
      BY <1>3, <2>3, <2>5
    <3>4. Sums(c, T)[s] = c[Any(s)] + Sums(c, T)[s \ {Any(s)}]
      BY <1>3, <2>3, <2>5
    <3> QED BY <2>2, <3>2, <3>3, <3>4
  <2> QED BY <2>4, <2>5
<1>6. S \in SUBSET S
  OBVIOUS
<1>7. S = {} => Total(c, S) = 0
  BY <1>3, <1>6 DEF Total
<1>8. ASSUME S # {}
      PROVE  /\ Any(S) \in S
             /\ Total(c, S) = c[Any(S)] + Total(c, S \ {Any(S)})
  <2> DEFINE T == S \ {Any(S)}
  <2>1. Any(S) \in S /\ T \in SUBSET S /\ T \in SUBSET T
    BY <1>4, <1>6, <1>8
  <2>2. Sums(c, S)[T] = Sums(c, T)[T]
    BY <1>5, <2>1
  <2>3. Sums(c, S)[S] = c[Any(S)] + Sums(c, S)[T]
    BY <1>3, <1>6, <1>8
  <2> QED BY <2>1, <2>2, <2>3 DEF Total
<1> QED BY <1>7, <1>8

\* A sum of integers is one, and of natural numbers too.
LEMMA TotalType ==
  ASSUME NEW S, IsFiniteSet(S), NEW c, \A x \in S : c[x] \in Int
  PROVE  /\ Total(c, S) \in Int
         /\ (\A x \in S : c[x] \in Nat) => Total(c, S) \in Nat
<1> DEFINE Good(s) == /\ Total(c, s) \in Int
                      /\ (\A x \in S : c[x] \in Nat) => Total(c, s) \in Nat
           B == {s \in SUBSET S : ~Good(s)}
<1>1. SUFFICES ASSUME B # {} PROVE FALSE
  OBVIOUS
<1>2. PICK s \in B : \A x \in s : s \ {x} \notin B
  <2> HIDE DEF Good
  <2>1. B \in SUBSET SUBSET S
    OBVIOUS
  <2> HIDE DEF B
  <2> QED BY <1>1, <2>1, SmallestSet
<1>3. s \in SUBSET S /\ IsFiniteSet(s) /\ \A x \in s : c[x] \in Int
  BY <1>2, FS_Subset
<1>4. /\ s = {} => Total(c, s) = 0
      /\ s # {} => Any(s) \in s /\ Total(c, s) = c[Any(s)] + Total(c, s \ {Any(s)})
  BY <1>3, TotalStep
<1>5. CASE s = {}
  BY <1>2, <1>4, <1>5
<1>6. CASE s # {}
  <2>1. Any(s) \in s /\ Good(s \ {Any(s)})
    BY <1>2, <1>4, <1>6
  <2>2. c[Any(s)] \in Int
    BY <1>3, <2>1
  <2> QED BY <1>2, <1>3, <1>4, <1>6, <2>1, <2>2
<1> QED BY <1>5, <1>6

\* Any element may be the one taken.
LEMMA TotalSplit ==
  ASSUME NEW S, IsFiniteSet(S), NEW c, \A x \in S : c[x] \in Int, NEW y \in S
  PROVE  Total(c, S) = c[y] + Total(c, S \ {y})
<1> DEFINE Good(s) == \A x \in s : Total(c, s) = c[x] + Total(c, s \ {x})
           B == {s \in SUBSET S : ~Good(s)}
<1>1. SUFFICES ASSUME B # {} PROVE FALSE
  OBVIOUS
<1>2. PICK s \in B : \A x \in s : s \ {x} \notin B
  <2> HIDE DEF Good
  <2>1. B \in SUBSET SUBSET S
    OBVIOUS
  <2> HIDE DEF B
  <2> QED BY <1>1, <2>1, SmallestSet
<1>3. \A t \in SUBSET S : /\ IsFiniteSet(t) /\ (\A x \in t : c[x] \in Int)
                          /\ Total(c, t) \in Int
  BY FS_Subset, TotalType
<1>4. s \in SUBSET S /\ ~Good(s)
  BY <1>2
<1>5. PICK x \in s : Total(c, s) # c[x] + Total(c, s \ {x})
  BY <1>4
<1> DEFINE z == Any(s)
<1>6. z \in s /\ Total(c, s) = c[z] + Total(c, s \ {z})
  BY <1>3, <1>4, <1>5, TotalStep
<1> HIDE DEF z
<1>7. z # x
  BY <1>5, <1>6
<1>8. Good(s \ {z}) /\ Good(s \ {x})
  BY <1>2, <1>4, <1>6
<1>9. /\ Total(c, s \ {z}) = c[x] + Total(c, (s \ {z}) \ {x})
      /\ Total(c, s \ {x}) = c[z] + Total(c, (s \ {x}) \ {z})
  BY <1>5, <1>6, <1>7, <1>8
<1>10. (s \ {z}) \ {x} = (s \ {x}) \ {z}
  OBVIOUS
<1>11. c[x] \in Int /\ c[z] \in Int /\ Total(c, (s \ {x}) \ {z}) \in Int
  BY <1>3, <1>4, <1>6
<1>12. \A a, b, n, i, j, k \in Int :
         i = a + j /\ j = b + n /\ k = a + n => i = b + k
  OBVIOUS
<1>13. Total(c, s) \in Int /\ Total(c, s \ {z}) \in Int /\ Total(c, s \ {x}) \in Int
  BY <1>3, <1>4
<1> QED BY <1>5, <1>6, <1>9, <1>10, <1>11, <1>12, <1>13

\* A sum grows with what it sums.
LEMMA TotalMonotone ==
  ASSUME NEW S, IsFiniteSet(S), NEW c, NEW d,
         \A x \in S : c[x] \in Int /\ d[x] \in Int /\ c[x] <= d[x]
  PROVE  Total(c, S) <= Total(d, S)
<1> DEFINE B == {s \in SUBSET S : ~(Total(c, s) <= Total(d, s))}
<1>1. SUFFICES ASSUME B # {} PROVE FALSE
  OBVIOUS
<1>2. PICK s \in B : \A x \in s : s \ {x} \notin B
  <2>1. B \in SUBSET SUBSET S
    OBVIOUS
  <2> HIDE DEF B
  <2> QED BY <1>1, <2>1, SmallestSet
<1>3. s \in SUBSET S /\ IsFiniteSet(s)
  BY <1>2, FS_Subset
<1>4. (\A x \in s : c[x] \in Int) /\ (\A x \in s : d[x] \in Int)
  BY <1>3
<1>5. /\ s = {} => Total(c, s) = 0
      /\ s # {} => Any(s) \in s /\ Total(c, s) = c[Any(s)] + Total(c, s \ {Any(s)})
  BY <1>3, <1>4, TotalStep
<1>6. /\ s = {} => Total(d, s) = 0
      /\ s # {} => Any(s) \in s /\ Total(d, s) = d[Any(s)] + Total(d, s \ {Any(s)})
  BY <1>3, <1>4, TotalStep
<1>7. s # {}
  BY <1>2, <1>5, <1>6
<1> DEFINE t == s \ {Any(s)}
<1>8. Total(c, t) <= Total(d, t)
  BY <1>2, <1>3, <1>5, <1>7
<1>9. Total(c, t) \in Int /\ Total(d, t) \in Int
  <2>1. IsFiniteSet(t) /\ (\A x \in t : c[x] \in Int) /\ (\A x \in t : d[x] \in Int)
    BY <1>3, <1>4, FS_Subset
  <2> QED BY <2>1, TotalType
<1>10. /\ c[Any(s)] \in Int /\ d[Any(s)] \in Int /\ c[Any(s)] <= d[Any(s)]
  BY <1>3, <1>5, <1>7
<1>11. Total(c, s) <= Total(d, s)
  BY <1>5, <1>6, <1>7, <1>8, <1>9, <1>10
<1> QED BY <1>2, <1>11

\* A sum depends on what it sums alone.
LEMMA TotalSame ==
  ASSUME NEW S, NEW c, NEW d, \A x \in S : c[x] = d[x]
  PROVE  Total(c, S) = Total(d, S)
<1>1. \A f : Grown(c, S, f) = Grown(d, S, f)
  <2> SUFFICES ASSUME NEW f, NEW s \in SUBSET S, s # {}
               PROVE  c[Any(s)] = d[Any(s)]
    BY DEF Grown
  <2> QED BY DEF Any
<1>2. Sums(c, S) = Sums(d, S)
  BY <1>1 DEF Sums
<1> QED BY <1>2 DEF Total
(***************************************************************************)
(* Books of one handler at a time: the rows of an invitee wait for the     *)
(* gate of the current streak.                                             *)
(***************************************************************************)
LedgerBooks == [ref : Referral, comm : [Payments -> Commission]]
Waits(b, p) ==
  b.comm[p].status = "pending" =>
    /\ b.comm[p].vests = b.ref.gate
    /\ b.ref.qualified = NoTime
    /\ b.ref.gate # NoTime
Streak(b, mine) ==
  /\ b \in LedgerBooks
  /\ b.ref.covered = NoTime <=> b.ref.gate = NoTime
  /\ \A p \in mine : Waits(b, p)

\* A row left the streak: earned or lost, and otherwise as it was.
Left(x, y) ==
  /\ x.status = "pending" /\ y.status \in {"vested", "cancelled"}
  /\ y.amount = x.amount /\ y.vests = x.vests
  /\ y.batch = x.batch /\ y.clawed = x.clawed
Settles(b, c, mine) ==
  \A p \in Payments : \/ c.comm[p] = b.comm[p]
                      \/ p \in mine /\ Left(b.comm[p], c.comm[p])
SettlesBut(b, c, mine, q) ==
  \A p \in Payments \ {q} :
    c.comm[p] = b.comm[p] \/ (p \in mine /\ Left(b.comm[p], c.comm[p]))
NoneWaits(b, mine) == \A p \in mine : b.comm[p].status # "pending"

\* Settling twice is settling.
LEMMA SettlesOn ==
  ASSUME NEW mine \in SUBSET Payments, NEW b, NEW c, NEW d,
         Settles(b, c, mine), Settles(c, d, mine)
  PROVE  Settles(b, d, mine)
<1> SUFFICES ASSUME NEW p \in Payments
             PROVE  \/ d.comm[p] = b.comm[p]
                    \/ p \in mine /\ Left(b.comm[p], d.comm[p])
  BY DEF Settles
<1>1. /\ c.comm[p] = b.comm[p] \/ (p \in mine /\ Left(b.comm[p], c.comm[p]))
      /\ d.comm[p] = c.comm[p] \/ (p \in mine /\ Left(c.comm[p], d.comm[p]))
  BY DEF Settles
<1> QED BY <1>1 DEF Left

\* Settling looks at the rows alone.
LEMMA SettlesSame ==
  ASSUME NEW mine, NEW b, NEW c, c.comm = b.comm
  PROVE  Settles(b, c, mine)
BY DEF Settles

\* Vesting or dropping every waiting row ends the streak.
LEMMA StreakEnds ==
  ASSUME NEW mine \in SUBSET Payments, NEW b, Streak(b, mine),
         NEW P, P = Pending(b.comm, mine)
  PROVE  /\ Streak(Vested(b, P), mine) /\ NoneWaits(Vested(b, P), mine)
         /\ Settles(b, Vested(b, P), mine)
         /\ Streak(Dropped(b, P), mine) /\ NoneWaits(Dropped(b, P), mine)
         /\ Settles(b, Dropped(b, P), mine)
         /\ \A p \in mine : Vested(b, P).comm[p].status \in {b.comm[p].status, "vested"}
<1>1. b.ref \in Referral /\ b.comm \in [Payments -> Commission] /\ DOMAIN b.comm = Payments
  BY DEF Streak, LedgerBooks
<1>2. MarkQualified(b.ref) \in Referral /\ ResetStreak(b.ref) \in Referral
  BY <1>1 DEF MarkQualified, ResetStreak, Referral, Time
<1>3. /\ MarkQualified(b.ref).covered = b.ref.covered
      /\ MarkQualified(b.ref).gate = b.ref.gate
      /\ ResetStreak(b.ref).covered = NoTime /\ ResetStreak(b.ref).gate = NoTime
  BY <1>1 DEF MarkQualified, ResetStreak, Referral
<1>4. ASSUME NEW s \in {"vested", "cancelled"}
      PROVE  LET c == Mark(b.comm, P, s) IN
             /\ c \in [Payments -> Commission]
             /\ \A p \in mine : /\ c[p].status # "pending"
                                /\ c[p].status \in {b.comm[p].status, s}
             /\ \A p \in Payments : \/ c[p] = b.comm[p]
                                    \/ p \in mine /\ Left(b.comm[p], c[p])
  <2> DEFINE row(p) == [b.comm[p] EXCEPT !.status = s]
             c == Mark(b.comm, P, s)
  <2>1. \A p \in Payments :
          /\ row(p) \in Commission /\ row(p).status = s
          /\ b.comm[p].status = "pending" => Left(b.comm[p], row(p))
    BY <1>1 DEF Commission, Left
  <2>2. c = [p \in Payments |-> IF p \in P THEN row(p) ELSE b.comm[p]]
    BY <1>1 DEF Mark
  <2>3. \A p \in Payments : p \in P <=> p \in mine /\ b.comm[p].status = "pending"
    BY DEF Pending
  <2> HIDE DEF row, c
  <2>4. c \in [Payments -> Commission]
    BY <1>1, <2>1, <2>2
  <2>5. \A p \in mine : /\ c[p].status # "pending"
                        /\ c[p].status \in {b.comm[p].status, s}
    BY <2>1, <2>2, <2>3
  <2>6. \A p \in Payments : c[p] = b.comm[p] \/ (p \in mine /\ Left(b.comm[p], c[p]))
    BY <2>1, <2>2, <2>3
  <2> QED BY <2>4, <2>5, <2>6 DEF c
<1> DEFINE v == Vested(b, P)
           d == Dropped(b, P)
<1>5. /\ v.ref = MarkQualified(b.ref) /\ v.comm = Mark(b.comm, P, "vested")
      /\ d.ref = ResetStreak(b.ref) /\ d.comm = Mark(b.comm, P, "cancelled")
  BY DEF Vested, Dropped
<1>9. v \in LedgerBooks /\ d \in LedgerBooks
  BY <1>1, <1>2, <1>4, <1>5 DEF Vested, Dropped, LedgerBooks
<1> HIDE DEF v, d
<1>6. /\ v.comm \in [Payments -> Commission] /\ NoneWaits(v, mine) /\ Settles(b, v, mine)
  BY <1>4, <1>5 DEF NoneWaits, Settles
<1>7. /\ d.comm \in [Payments -> Commission] /\ NoneWaits(d, mine) /\ Settles(b, d, mine)
  BY <1>4, <1>5 DEF NoneWaits, Settles
<1>11. \A p \in mine : v.comm[p].status \in {b.comm[p].status, "vested"}
  BY <1>4, <1>5
<1>8. Streak(v, mine)
  BY <1>3, <1>5, <1>6, <1>9 DEF Streak, NoneWaits, Waits
<1>10. Streak(d, mine)
  BY <1>3, <1>5, <1>7, <1>9 DEF Streak, NoneWaits, Waits
<1> QED BY <1>6, <1>7, <1>8, <1>10, <1>11 DEF v, d

\* Qualifying or cancelling a streak keeps the book a streak.
LEMMA StreakMoves ==
  ASSUME NEW mine \in SUBSET Payments, NEW b, Streak(b, mine), NEW t
  PROVE  /\ Streak(Qualify(b, mine, t), mine) /\ Settles(b, Qualify(b, mine, t), mine)
         /\ Streak(CancelStreak(b, mine, t), mine)
         /\ Settles(b, CancelStreak(b, mine, t), mine)
         /\ NoneWaits(CancelStreak(b, mine, t), mine)
         /\ \A p \in mine :
              Qualify(b, mine, t).comm[p].status \in {b.comm[p].status, "vested"}
<1>1. Settles(b, b, mine)
  BY DEF Settles
<1> QED BY <1>1, StreakEnds DEF Qualify, CancelStreak

\* The streak grows, or a new one begins, or the invitee qualified.
LEMMA StreakGrows ==
  ASSUME NEW mine \in SUBSET Payments, NEW b, Streak(b, mine),
         NEW from \in Nat, NEW until \in Nat
  PROVE  LET c == ExtendStreak(b, mine, from, until)
         IN  /\ Streak(c, mine) /\ Settles(b, c, mine)
             /\ c.ref.qualified # NoTime \/ c.ref.gate # NoTime
<1> DEFINE cut == CancelStreak(b, mine, from)
           gate == from + VestingMonths
           fresh(r) == [r EXCEPT !.covered = until, !.gate = gate]
           longer == [b EXCEPT !.ref.covered = Later(@, until)]
<1>1. Streak(cut, mine) /\ Settles(b, cut, mine) /\ NoneWaits(cut, mine)
  BY StreakMoves
<1>2. gate \in Nat /\ gate # NoTime /\ until # NoTime
  BY RulesAssumption DEF NoTime
<1> HIDE DEF cut, gate
<1>3. ASSUME NEW c, Streak(c, mine), NEW r \in Referral,
             r.covered # NoTime, r.gate # NoTime,
             NoneWaits(c, mine) \/ (r.gate = c.ref.gate /\ r.qualified = c.ref.qualified)
      PROVE  LET d == [c EXCEPT !.ref = r]
             IN  Streak(d, mine) /\ Settles(c, d, mine) /\ d.ref.gate # NoTime
  <2> DEFINE d == [c EXCEPT !.ref = r]
  <2>1. d \in LedgerBooks /\ d.comm = c.comm /\ d.ref = r
    BY <1>3 DEF Streak, LedgerBooks
  <2> HIDE DEF d
  <2>2. Settles(c, d, mine)
    BY <2>1 DEF Settles
  <2>3. Streak(d, mine)
    BY <1>3, <2>1 DEF Streak, NoneWaits, Waits
  <2> QED BY <1>3, <2>1, <2>2, <2>3 DEF d
<1>4. ASSUME NEW c, Streak(c, mine), NoneWaits(c, mine)
      PROVE  LET d == [c EXCEPT !.ref = fresh(@)]
             IN  Streak(d, mine) /\ Settles(c, d, mine) /\ d.ref.gate # NoTime
  <2> DEFINE r == fresh(c.ref)
  <2>1. r \in Referral /\ r.covered = until /\ r.gate = gate
    BY <1>2, <1>4 DEF Referral, Time, Streak, LedgerBooks
  <2>2. [c EXCEPT !.ref = fresh(@)] = [c EXCEPT !.ref = r]
    BY <1>4 DEF Streak, LedgerBooks
  <2> HIDE DEF r
  <2> QED BY <1>2, <1>3, <1>4, <2>1, <2>2
<1>5. ASSUME b.ref.covered # NoTime
      PROVE  Streak(longer, mine) /\ Settles(b, longer, mine) /\ longer.ref.gate # NoTime
  <2> DEFINE n == Later(b.ref.covered, until)
             r == [b.ref EXCEPT !.covered = n]
  <2>1. b.ref \in Referral /\ b.ref.covered \in Nat /\ b.ref.gate # NoTime
    BY <1>5 DEF Streak, LedgerBooks, Referral, Time
  <2>2. n \in Nat /\ n # NoTime
    BY <2>1 DEF Later, NoTime
  <2>3. longer = [b EXCEPT !.ref = r]
    BY DEF Streak, LedgerBooks, Referral
  <2> HIDE DEF n, longer
  <2>4. /\ r \in Referral /\ r.covered = n /\ r.gate = b.ref.gate
        /\ r.qualified = b.ref.qualified
    BY <2>1, <2>2 DEF Referral, Time
  <2> HIDE DEF r
  <2> QED BY <1>3, <2>1, <2>2, <2>3, <2>4
<1>6. CASE b.ref.covered = NoTime
  <2>1. NoneWaits(b, mine)
    BY <1>6 DEF Streak, Waits, NoneWaits
  <2> DEFINE d == [b EXCEPT !.ref = fresh(@)]
  <2>2. ExtendStreak(b, mine, from, until) = d
    BY <1>6 DEF ExtendStreak, gate
  <2>3. Streak(d, mine) /\ Settles(b, d, mine) /\ d.ref.gate # NoTime
    BY <1>4, <2>1
  <2> HIDE DEF d
  <2> QED BY <2>2, <2>3
<1>7. CASE b.ref.covered # NoTime /\ from <= b.ref.covered
  BY <1>5, <1>7 DEF ExtendStreak
<1>8. CASE b.ref.covered # NoTime /\ ~(from <= b.ref.covered)
  <2>1. CASE cut.ref.qualified # NoTime
    BY <1>1, <1>8, <2>1 DEF ExtendStreak, cut
  <2>2. CASE cut.ref.qualified = NoTime
    <3> DEFINE d == [cut EXCEPT !.ref = fresh(@)]
    <3>1. ExtendStreak(b, mine, from, until) = d
      BY <1>8, <2>2 DEF ExtendStreak, cut, gate
    <3>2. Streak(d, mine) /\ Settles(cut, d, mine) /\ d.ref.gate # NoTime
      BY <1>1, <1>4
    <3> HIDE DEF d
    <3>3. Settles(b, d, mine)
      BY <1>1, <3>2, SettlesOn
    <3> QED BY <3>1, <3>2, <3>3
  <2> QED BY <2>1, <2>2
<1> QED BY <1>6, <1>7, <1>8

\* A payment's commission is recorded, and the rest settles.
LEMMA RecordSettles ==
  ASSUME NEW mine \in SUBSET Payments, NEW b, Streak(b, mine), NEW p \in mine,
         b.comm[p].status = "none", NEW from \in Nat, NEW until \in Nat,
         NEW amount \in Nat
  PROVE  LET c == RecordIntent(b, mine, p, from, until, amount)
         IN  /\ Streak(c, mine)
             /\ \A q \in Payments \ {p} :
                  \/ c.comm[q] = b.comm[q]
                  \/ q \in mine /\ Left(b.comm[q], c.comm[q])
             /\ \/ c.comm[p] = b.comm[p]
                \/ /\ c.comm[p].status \in {"pending", "vested"}
                   /\ c.comm[p].amount = amount
                   /\ c.comm[p].clawed = 0 /\ c.comm[p].batch = 0
<1> DEFINE ends == from + WindowMonths
           opened == IF b.ref.started # NoTime THEN b
                     ELSE [b EXCEPT !.ref.started = from, !.ref.ends = ends]
           grown == IF opened.ref.qualified = NoTime
                    THEN ExtendStreak(opened, mine, from, until) ELSE opened
           now_ == grown.ref.qualified # NoTime
           status == IF now_ THEN "vested" ELSE "pending"
           vests == IF now_ THEN from ELSE grown.ref.gate
           row == [NoCommission EXCEPT !.status = status, !.amount = amount,
                                       !.vests = vests]
           kept == [grown EXCEPT !.comm[p] = row]
<1>1. Streak(opened, mine) /\ opened.comm = b.comm
  <2>1. ends \in Nat
    BY RulesAssumption
  <2> HIDE DEF ends
  <2> DEFINE r == [b.ref EXCEPT !.started = from, !.ends = ends]
             d == [b EXCEPT !.ref = r]
  <2>2. b \in LedgerBooks
    BY DEF Streak
  <2>3. /\ r \in Referral /\ r.covered = b.ref.covered /\ r.gate = b.ref.gate
        /\ r.qualified = b.ref.qualified
    BY <2>1, <2>2 DEF LedgerBooks, Referral, Time
  <2>4. [b EXCEPT !.ref.started = from, !.ref.ends = ends] = d
    BY <2>2 DEF LedgerBooks, Referral
  <2> HIDE DEF r
  <2>5. d \in LedgerBooks /\ d.ref = r /\ d.comm = b.comm
    BY <2>2, <2>3 DEF LedgerBooks
  <2> HIDE DEF d
  <2>6. Streak(d, mine)
    BY <2>3, <2>5 DEF Streak, Waits
  <2> QED BY <2>4, <2>5, <2>6
<1> HIDE DEF opened
<1>2. /\ Streak(grown, mine) /\ Settles(b, grown, mine)
      /\ grown.ref.qualified # NoTime \/ grown.ref.gate # NoTime
  <2>1. Settles(b, opened, mine)
    BY <1>1 DEF Settles
  <2>2. CASE opened.ref.qualified = NoTime
    <3>1. /\ Streak(grown, mine) /\ Settles(opened, grown, mine)
          /\ grown.ref.qualified # NoTime \/ grown.ref.gate # NoTime
      BY <1>1, <2>2, StreakGrows
    <3> HIDE DEF grown
    <3> QED BY <2>1, <3>1, SettlesOn
  <2>3. CASE opened.ref.qualified # NoTime
    BY <1>1, <2>1, <2>3
  <2> QED BY <2>2, <2>3
<1> HIDE DEF grown
<1>3. grown.comm[p] = b.comm[p] /\ grown \in LedgerBooks
  BY <1>2 DEF Settles, Left, Streak
<1>4. /\ row \in Commission /\ row.status = status /\ row.amount = amount
      /\ row.vests = vests /\ row.clawed = 0 /\ row.batch = 0
  <2>1. vests \in Time /\ status \in {"none", "pending", "vested", "cancelled", "paid"}
    BY <1>3 DEF LedgerBooks, Referral, Time
  <2> HIDE DEF status, vests
  <2> QED BY <2>1 DEF Commission, NoCommission
<1> HIDE DEF row
<1>5. /\ kept \in LedgerBooks /\ kept.ref = grown.ref /\ kept.comm[p] = row
      /\ \A q \in Payments \ {p} : kept.comm[q] = grown.comm[q]
  BY <1>3, <1>4 DEF LedgerBooks
<1> HIDE DEF kept
<1>6. Streak(kept, mine)
  <2>1. \A q \in mine : q # p => Waits(kept, q)
    BY <1>2, <1>5 DEF Streak, Waits
  <2>2. Waits(kept, p)
    BY <1>2, <1>4, <1>5 DEF Waits
  <2> QED BY <1>2, <1>5, <2>1, <2>2 DEF Streak
<1> DEFINE q == Qualify(kept, mine, from)
<1>7. /\ Streak(q, mine) /\ Settles(kept, q, mine)
      /\ q.comm[p].status \in {row.status, "vested"}
  BY <1>5, <1>6, StreakMoves
<1> HIDE DEF q
<1>8. RecordIntent(b, mine, p, from, until, amount) \in {opened, kept, q}
  BY DEF RecordIntent, opened, grown, row, kept, q
<1>9. CASE RecordIntent(b, mine, p, from, until, amount) = opened
  BY <1>1, <1>9
<1>10. ASSUME NEW c \in {kept, q}
       PROVE  /\ Streak(c, mine) /\ Settles(kept, c, mine)
              /\ \A x \in Payments \ {p} :
                   \/ c.comm[x] = b.comm[x]
                   \/ x \in mine /\ Left(b.comm[x], c.comm[x])
              /\ c.comm[p] = row \/ Left(row, c.comm[p])
  <2>1. Streak(c, mine) /\ Settles(kept, c, mine)
    BY <1>6, <1>7, SettlesSame
  <2>2. c.comm[p] = row \/ Left(row, c.comm[p])
    BY <1>5, <2>1 DEF Settles
  <2>3. ASSUME NEW x \in Payments \ {p}
        PROVE  \/ c.comm[x] = b.comm[x]
               \/ x \in mine /\ Left(b.comm[x], c.comm[x])
    BY <1>2, <1>5, <2>1 DEF Settles, Left
  <2> QED BY <2>1, <2>2, <2>3
<1>11. ASSUME NEW c \in {kept, q}
       PROVE  /\ c.comm[p].status \in {"pending", "vested"}
              /\ c.comm[p].amount = amount
              /\ c.comm[p].clawed = 0 /\ c.comm[p].batch = 0
  BY <1>4, <1>5, <1>7, <1>10 DEF Left
<1> QED BY <1>8, <1>9, <1>10, <1>11

\* A refund's effect on the commission the handler read under its lock: the
\* others settle; its own shrinks while it waits, or is clawed back once earned.
Clawed(x, y, back) == y.clawed = x.clawed + Earlier(x.amount, Share(back))
Refunded(x, y, back, left) ==
  \/ x.status \in {"none", "cancelled"} /\ y = x
  \/ /\ x.status = "pending" /\ y.status = "pending" /\ left > 0
     /\ y.amount = Earlier(Share(left), x.amount)
     /\ y.vests = x.vests /\ y.batch = x.batch /\ y.clawed = x.clawed
  \/ /\ x.status = "pending" /\ y.status = "cancelled"
     /\ y.amount = x.amount /\ y.batch = x.batch /\ y.clawed = x.clawed
  \/ /\ \/ x.status = "pending" /\ y.status = "vested"
        \/ x.status \in {"vested", "paid"} /\ y.status = x.status
     /\ y.amount = x.amount /\ y.batch = x.batch /\ Clawed(x, y, back)

\* Settling every row settles the others.
LEMMA SettlesOthers ==
  ASSUME NEW b, NEW c, NEW mine, NEW p, Settles(b, c, mine)
  PROVE  SettlesBut(b, c, mine, p)
BY Zenon DEF Settles, SettlesBut

\* A refund settles the other rows and takes its share of its own.
LEMMA AdjustedSettles ==
  ASSUME NEW mine \in SUBSET Payments, NEW b, Streak(b, mine), NEW p \in mine,
         NEW seen, seen = b.comm[p], NEW back \in Nat, NEW left \in Nat, NEW t
  PROVE  LET c == Adjusted(b, seen, mine, p, back, left, t)
         IN  /\ Streak(c, mine) /\ SettlesBut(b, c, mine, p)
             /\ Refunded(b.comm[p], c.comm[p], back, left)
<1> DEFINE target == Earlier(Share(left), seen.amount)
           worth == Earlier(seen.amount, Share(back))
           q == IF seen.status = "pending" /\ seen.vests <= t
                THEN Qualify(b, mine, t) ELSE b
           earned == \/ seen.status # "pending"
                     \/ b.comm[p].status = "pending" /\ q.comm[p].status = "vested"
           cut == IF earned THEN q ELSE CancelStreak(q, mine, t)
           vestedNow == q.comm[p].status = "pending" /\ cut.comm[p].status = "vested"
           reduced == [q EXCEPT !.comm[p].amount = target]
           Good(c) == Streak(c, mine) /\ SettlesBut(b, c, mine, p)
<1>1. seen \in Commission
  BY DEF Streak, LedgerBooks
<1>2. target \in Nat /\ worth \in Nat
  BY <1>1 DEF Earlier, Share, Commission
<1>3. /\ Streak(q, mine) /\ Settles(b, q, mine)
      /\ q.comm[p].status \in {seen.status, "vested"}
  BY StreakMoves DEF Settles
<1>4. Adjusted(b, seen, mine, p, back, left, t)
        = IF seen.status \in {"none", "cancelled"} THEN b
          ELSE IF ~earned /\ left > 0 /\ target > 0 THEN reduced
               ELSE IF ~earned /\ ~vestedNow THEN cut ELSE Claw(cut, p, worth)
  BY DEF Adjusted
<1> HIDE DEF q
<1>5. /\ Streak(cut, mine) /\ Settles(q, cut, mine)
      /\ ~earned => NoneWaits(cut, mine)
  BY <1>3, StreakMoves DEF Settles
<1>6. earned <=> seen.status # "pending" \/ q.comm[p].status = "vested"
  OBVIOUS
<1>7. earned => cut = q
  OBVIOUS
<1> HIDE DEF earned, cut
<1>8. Settles(b, cut, mine)
  BY <1>3, <1>5, SettlesOn
<1>9. /\ q.comm[p] = seen \/ Left(seen, q.comm[p])
      /\ cut.comm[p] = q.comm[p] \/ Left(q.comm[p], cut.comm[p])
      /\ cut.comm[p] = seen \/ Left(seen, cut.comm[p])
  BY <1>3, <1>5, <1>8 DEF Settles
<1>10. ASSUME NEW c, Streak(c, mine), Settles(b, c, mine), NEW n \in Nat
       PROVE  /\ LET d == [c EXCEPT !.comm[p].amount = n]
                 IN  /\ Good(d)
                     /\ d.comm[p] = [c.comm[p] EXCEPT !.amount = n]
              /\ LET d == [c EXCEPT !.comm[p].clawed = @ + n]
                 IN  /\ Good(d)
                     /\ d.comm[p] = [c.comm[p] EXCEPT !.clawed = c.comm[p].clawed + n]
  <2>1. c \in LedgerBooks /\ c.comm[p] \in Commission
    BY <1>10 DEF Streak, LedgerBooks
  <2>2. ASSUME NEW y \in Commission, y.status = c.comm[p].status, y.vests = c.comm[p].vests
        PROVE  LET d == [c EXCEPT !.comm = [c.comm EXCEPT ![p] = y]]
               IN  Good(d) /\ d.comm[p] = y
    <3> DEFINE d == [c EXCEPT !.comm = [c.comm EXCEPT ![p] = y]]
    <3>1. /\ d \in LedgerBooks /\ d.ref = c.ref /\ d.comm[p] = y
          /\ \A x \in Payments \ {p} : d.comm[x] = c.comm[x]
      BY <2>1, <2>2 DEF LedgerBooks
    <3> HIDE DEF d
    <3>2. \A x \in mine : Waits(d, x)
      BY <1>10, <2>2, <3>1 DEF Streak, Waits
    <3>3. Streak(d, mine)
      BY <1>10, <3>1, <3>2 DEF Streak
    <3>4. SettlesBut(b, d, mine, p)
      <4> SUFFICES ASSUME NEW x \in Payments \ {p}
                   PROVE  d.comm[x] = b.comm[x] \/ (x \in mine /\ Left(b.comm[x], d.comm[x]))
        BY Zenon DEF SettlesBut
      <4>1. c.comm[x] = b.comm[x] \/ (x \in mine /\ Left(b.comm[x], c.comm[x]))
        BY <1>10 DEF Settles
      <4> QED BY <3>1, <4>1
    <3>5. Good(d)
      BY <3>3, <3>4
    <3> QED BY <3>1, <3>5 DEF d
  <2> DEFINE less == [c.comm[p] EXCEPT !.amount = n]
             more == [c.comm[p] EXCEPT !.clawed = c.comm[p].clawed + n]
  <2>3. /\ less \in Commission /\ less.status = c.comm[p].status /\ less.vests = c.comm[p].vests
        /\ more \in Commission /\ more.status = c.comm[p].status /\ more.vests = c.comm[p].vests
    BY <2>1 DEF Commission
  <2>4. /\ [c EXCEPT !.comm[p].amount = n]
             = [c EXCEPT !.comm = [c.comm EXCEPT ![p] = less]]
        /\ [c EXCEPT !.comm[p].clawed = @ + n]
             = [c EXCEPT !.comm = [c.comm EXCEPT ![p] = more]]
    BY <2>1 DEF LedgerBooks, Commission
  <2> HIDE DEF less, more, Good
  <2>5. LET d == [c EXCEPT !.comm = [c.comm EXCEPT ![p] = less]]
        IN  Good(d) /\ d.comm[p] = less
    BY <2>2, <2>3
  <2>6. LET d == [c EXCEPT !.comm = [c.comm EXCEPT ![p] = more]]
        IN  Good(d) /\ d.comm[p] = more
    BY <2>2, <2>3
  <2> QED BY <2>4, <2>5, <2>6 DEF less, more
<1>11. CASE seen.status \in {"none", "cancelled"}
  <2>1. Adjusted(b, seen, mine, p, back, left, t) = b
    BY <1>4, <1>11
  <2>2. Settles(b, b, mine)
    BY DEF Settles
  <2> QED BY <1>11, <2>1, <2>2, SettlesOthers DEF Refunded
<1>12. CASE seen.status \notin {"none", "cancelled"} /\ ~earned /\ left > 0 /\ target > 0
  <2>1. Adjusted(b, seen, mine, p, back, left, t) = reduced
    BY <1>4, <1>12
  <2>2. Good(reduced) /\ reduced.comm[p] = [q.comm[p] EXCEPT !.amount = target]
    BY <1>2, <1>3, <1>10
  <2> HIDE DEF reduced
  <2>3. seen.status = "pending" /\ q.comm[p] = seen
    BY <1>1, <1>3, <1>6, <1>9, <1>12 DEF Commission, Left
  <2>4. Refunded(seen, reduced.comm[p], back, left)
    BY <1>1, <1>12, <2>2, <2>3 DEF Refunded, Commission
  <2> QED BY <2>1, <2>2, <2>4
<1>13. CASE seen.status \notin {"none", "cancelled"} /\ ~earned /\ ~(left > 0 /\ target > 0)
  <2>1. seen.status = "pending" /\ q.comm[p] = seen
    BY <1>1, <1>3, <1>6, <1>9, <1>13 DEF Commission, Left
  <2>2. Left(seen, cut.comm[p])
    BY <1>5, <1>9, <1>13, <2>1 DEF NoneWaits
  <2>3. CASE cut.comm[p].status = "cancelled"
    <3>1. Adjusted(b, seen, mine, p, back, left, t) = cut
      BY <1>4, <1>13, <2>3
    <3>2. Refunded(seen, cut.comm[p], back, left)
      BY <2>1, <2>2, <2>3 DEF Refunded, Left
    <3> QED BY <1>5, <1>8, <3>1, <3>2, SettlesOthers
  <2>4. CASE cut.comm[p].status = "vested"
    <3> DEFINE d == Claw(cut, p, worth)
    <3>1. Adjusted(b, seen, mine, p, back, left, t) = d
      BY <1>4, <1>13, <2>1, <2>4
    <3>2. Good(d) /\ d.comm[p] = [cut.comm[p] EXCEPT !.clawed = cut.comm[p].clawed + worth]
      BY <1>2, <1>5, <1>8, <1>10 DEF Claw
    <3> HIDE DEF d
    <3>3. Refunded(seen, d.comm[p], back, left)
      <4>1. cut.comm[p] \in Commission
        BY <1>5 DEF Streak, LedgerBooks
      <4> QED BY <2>1, <2>2, <2>4, <3>2, <4>1 DEF Refunded, Left, Commission, Clawed
    <3> QED BY <3>1, <3>2, <3>3
  <2> QED BY <2>2, <2>3, <2>4 DEF Left
<1>14. CASE seen.status \notin {"none", "cancelled"} /\ earned
  <2> DEFINE d == Claw(q, p, worth)
  <2>1. Adjusted(b, seen, mine, p, back, left, t) = d
    BY <1>4, <1>7, <1>14
  <2>2. Good(d) /\ d.comm[p] = [q.comm[p] EXCEPT !.clawed = q.comm[p].clawed + worth]
    BY <1>2, <1>3, <1>10 DEF Claw
  <2> HIDE DEF d
  <2>3. q.comm[p] \in Commission
    BY <1>3 DEF Streak, LedgerBooks
  <2>4. CASE seen.status = "pending"
    <3>1. q.comm[p].status = "vested" /\ Left(seen, q.comm[p])
      BY <1>6, <1>9, <1>14, <2>4
    <3>2. Refunded(seen, d.comm[p], back, left)
      BY <2>2, <2>3, <2>4, <3>1 DEF Refunded, Left, Commission, Clawed
    <3> QED BY <2>1, <2>2, <3>2
  <2>5. CASE seen.status # "pending"
    <3>1. q.comm[p] = seen /\ seen.status \in {"vested", "paid"}
      BY <1>1, <1>9, <1>14, <2>5 DEF Left, Commission
    <3>2. Refunded(seen, d.comm[p], back, left)
      BY <2>2, <2>3, <2>5, <3>1 DEF Refunded, Commission, Clawed
    <3> QED BY <2>1, <2>2, <3>2
  <2> QED BY <2>4, <2>5
<1> QED BY <1>11, <1>12, <1>13, <1>14

\* vest_due_commissions on the rows that are due now: all that wait on one gate
\* are due together.
LEMMA DueSettles ==
  ASSUME NEW mine \in SUBSET Payments, NEW b, Streak(b, mine), NEW t \in Nat,
         NEW due, due = {p \in Pending(b.comm, Payments) : b.comm[p].vests <= t}
  PROVE  /\ Streak(VestDue(b, mine, due, t), mine)
         /\ Settles(b, VestDue(b, mine, due, t), mine)
<1>1. ASSUME due \cap mine # {} PROVE due \cap mine = Pending(b.comm, mine)
  <2>1. PICK p \in mine : b.comm[p].status = "pending" /\ b.comm[p].vests <= t
    BY <1>1 DEF Pending
  <2>2. \A x \in mine : b.comm[x].status = "pending" => b.comm[x].vests <= t
    BY <2>1 DEF Streak, Waits
  <2> QED BY <2>2 DEF Pending
<1>2. Settles(b, b, mine)
  BY DEF Settles
<1> QED BY <1>1, <1>2, StreakEnds DEF VestDue

(***************************************************************************)
(* One handler at a time: the invariant of a program that never            *)
(* interleaves two handlers.  What the one handler at work has read is     *)
(* still so, the books are sound, and the refunds add up.                  *)
(***************************************************************************)
OneAtATime ==
  \A v, w \in Workers : tx[v].op # "idle" /\ tx[w].op # "idle" => v = w

\* A refund's row: confirmed exactly when accounted for, failed only if Stripe
\* says so, and, while it is unresolved, of an amount that can be given back.
Paired(x) == x.applied <=> x.status = "confirmed"
Told(s, x) == x.status = "failed" /\ ~x.manual => s[x.key].status = "failed"
Room(x) == 0 < x.amount /\ x.amount <= Price - pay[x.payment].refunded
OnRecord(x) ==
  IF x.payment = "none" THEN x = NoRefund
  ELSE /\ x.status # "none" /\ Paired(x) /\ Told(stripe, x)
       /\ x.status \in Active => Room(x)

\* What a handler holds to save: a new refund of a payment that has none open,
\* or the open refund as it is on record; accounted for against the payment and
\* the commission as they are.
Stems(id, read, row) ==
  IF read = NoRefund
  THEN /\ refund[id] = NoRefund
       /\ \A r \in RefundIds :
            refund[r].payment = row.payment => refund[r].status \notin Active
  ELSE /\ read = refund[id] /\ read.status \in Active
       /\ row.payment = read.payment /\ row.amount = read.amount
       /\ row.manual = read.manual /\ row.key = read.key
Accounts(t) ==
  LET p == t.row.payment
  IN  IF t.row.applied
      THEN t.pay = Repaid(pay[p], t.row.amount) /\ t.seen = comm[p]
      ELSE t.pay = pay[p]
Proper(t) ==
  /\ Stems(t.id, t.read, t.row) /\ Room(t.row) /\ Accounts(t)
  /\ t.row.status \in Active \cup {"failed", "confirmed"} /\ Paired(t.row)
Current(t) ==
  /\ t.op \in {"sync", "confirm", "fail"} => t.read = refund[t.id]
  /\ t.op = "save" => Proper(t) /\ Told(stripe, t.row)
  /\ t.op = "batch" => t.due = {p \in Pending(comm, Payments) : comm[p].vests <= now}
HandlersCurrent == \A w \in Workers : Current(tx[w])

Streaks == \A m \in Members : Streak(Book(m), Mine(m))

\* A row in a batch is earned while the batch is open and paid when it is paid.
Rows ==
  \A p \in Payments :
    /\ comm[p].status = "none" => comm[p] = NoCommission
    /\ comm[p].batch # 0 =>
         \/ comm[p].status = "vested" /\ batch[comm[p].batch].status \in {"draft", "sent"}
         \/ comm[p].status = "paid" /\ batch[comm[p].batch].status = "paid"

Word(b) ==
  batch[b].status \in {"draft", "sent", "paid"} =>
    /\ batch[b].total = Amount(comm, InBatch(b))
    /\ \A p \in InBatch(b) :
         Amount(comm, OfPartner(Partner[p], InBatch(b))) >= Threshold
Words == \A b \in BatchIds : Word(b)

RefundsAddUp ==
  /\ OneActive(refund)
  /\ \A r \in RefundIds : OnRecord(refund[r])
  /\ \A k \in Keys : stripe[k].first = "failed" => stripe[k].status = "failed"
  /\ \A p \in Payments :
       /\ Confirmed(p) = pay[p].refunded
       /\ pay[p].status = "pending" => pay[p].refunded = 0

\* What a commission is still worth is the share of what was not given back, to
\* within the roundings of the share and of k refunds; it covers the share of
\* whatever is still given back, so that no claw is capped.
Worth(x, r, k) ==
  /\ x.status = "pending" => x.clawed = 0 /\ r.status # "refunded"
  /\ x.status \in {"pending", "vested", "paid"} =>
       \/ x.amount = 0 /\ x.clawed = 0
       \/ /\ Share(Price - r.refunded) <= x.amount
          /\ x.status = "pending" => x.amount = Share(Price - r.refunded)
          /\ -(2 * (1 + k)) <= 5 * (x.amount - x.clawed) - (Price - r.refunded)
          /\ 5 * (x.amount - x.clawed) - (Price - r.refunded) <= 2 * (1 + k)
Applications(p) == Cardinality(AppliedTo(p))
Shares == \A p \in Payments : Worth(comm[p], pay[p], Applications(p))

\* A share is the nearest cent.
LEMMA ShareNearest ==
  ASSUME NEW n \in Nat
  PROVE  /\ Share(n) \in Nat
         /\ 5 * Share(n) <= n + 2 /\ n - 2 <= 5 * Share(n)
BY SMT DEF Share

\* The share of a part is at most the share of the whole.
LEMMA ShareMonotone ==
  ASSUME NEW m \in Nat, NEW n \in Nat, m <= n
  PROVE  Share(m) <= Share(n)
<1>1. /\ Share(m) \in Nat /\ 5 * Share(m) <= m + 2
      /\ Share(n) \in Nat /\ n - 2 <= 5 * Share(n)
  BY ShareNearest
<1> QED BY <1>1

\* The refunds accounted for of a payment are counted by a number.
LEMMA ApplicationsCounted == \A p \in Payments : Applications(p) \in Nat
<1> SUFFICES ASSUME NEW p \in Payments PROVE Applications(p) \in Nat
  OBVIOUS
<1>1. IsFiniteSet(RefundIds)
  BY LedgerAssumption, FS_Interval DEF RefundIds
<1>2. AppliedTo(p) \in SUBSET RefundIds
  BY DEF AppliedTo, Of
<1> QED BY <1>1, <1>2, FS_Subset, FS_CardinalityType DEF Applications

SeqInv ==
  /\ TypeOK /\ OneAtATime /\ HandlersCurrent /\ Streaks /\ Rows /\ Words
  /\ RefundsAddUp /\ Shares

\* The sums of the module are totals.
Counts(table) ==
  [r \in RefundIds |-> IF table[r].status = "confirmed" /\ table[r].applied
                       THEN table[r].amount ELSE 0]

\* The amounts of a set of rows, as a total.
LEMMA AmountTotal ==
  ASSUME NEW c, NEW P
  PROVE  Amount(c, P) = Total([p \in P |-> c[p].amount], P)
<1> DEFINE a == [p \in P |-> c[p].amount]
           G(f) == [s \in SUBSET P |->
                      IF s = {} THEN 0 ELSE c[Any(s)].amount + f[s \ {Any(s)}]]
<1>1. \A f : G(f) = Grown(a, P, f)
  <2> SUFFICES ASSUME NEW f, NEW s \in SUBSET P, s # {}
               PROVE  a[Any(s)] = c[Any(s)].amount
    BY DEF Grown
  <2> QED BY DEF Any
<1>2. Amount(c, P) = (CHOOSE f : f = G(f))[P]
  BY DEF Amount, MapThenSumSet, MapThenFoldSet, Any
<1>3. (CHOOSE f : f = G(f)) = (CHOOSE f : f = Grown(a, P, f))
  <2> HIDE DEF G, a
  <2> QED BY <1>1
<1> QED BY <1>2, <1>3 DEF Total, Sums

\* What the confirmed refunds of a payment add up to, as a total.
LEMMA ConfirmedTotal == \A p \in Payments : Confirmed(p) = Total(Counts(refund), Of(p))
<1> SUFFICES ASSUME NEW p \in Payments
             PROVE  Confirmed(p) = Total(Counts(refund), Of(p))
  OBVIOUS
<1> DEFINE a == Counts(refund)
           P == Of(p)
           G(f) == [s \in SUBSET P |->
                      IF s = {} THEN 0
                      ELSE (IF refund[Any(s)].status = "confirmed" /\ refund[Any(s)].applied
                            THEN refund[Any(s)].amount ELSE 0) + f[s \ {Any(s)}]]
<1>1. \A f : G(f) = Grown(a, P, f)
  <2> SUFFICES ASSUME NEW f, NEW s \in SUBSET P, s # {}
               PROVE  a[Any(s)] = IF refund[Any(s)].status = "confirmed" /\ refund[Any(s)].applied
                                  THEN refund[Any(s)].amount ELSE 0
    BY DEF Grown
  <2> QED BY DEF Any, Counts, Of
<1>2. Confirmed(p) = (CHOOSE f : f = G(f))[P]
  BY DEF Confirmed, Sum, MapThenSumSet, MapThenFoldSet, Any
<1>3. (CHOOSE f : f = G(f)) = (CHOOSE f : f = Grown(a, P, f))
  <2> HIDE DEF G, a
  <2> QED BY <1>1
<1> QED BY <1>2, <1>3 DEF Total, Sums

\* The same after a step.
LEMMA ConfirmedTotalNext ==
  (\A p \in Payments : Confirmed(p) = Total(Counts(refund), Of(p)))'
BY ConfirmedTotal, PTL

(***************************************************************************)
(* The one handler at work.                                                *)
(***************************************************************************)
LEMMA IdleTxType == IdleTx \in Tx /\ IdleTx.op = "idle" /\ NoCommission \in Commission
<1>1. NoCommission \in Commission
  BY DEF NoCommission, Commission, Time, NoTime
<1>2. IdleTx \in Tx
  BY <1>1, NullRows DEF IdleTx, Tx, Ops
<1> QED BY <1>1, <1>2, NullRows

\* It ends: nobody is at work.
LEMMA EndsWork ==
  ASSUME SeqInv, NEW w \in Workers, tx[w].op # "idle" \/ Quiet,
         tx' = [tx EXCEPT ![w] = IdleTx]
  PROVE  tx' \in [Workers -> Tx] /\ OneAtATime' /\ HandlersCurrent'
<1>1. tx' \in [Workers -> Tx]
  BY IdleTxType DEF SeqInv, TypeOK
<1>2. \A v \in Workers : tx'[v].op = "idle"
  BY IdleTxType DEF SeqInv, TypeOK, OneAtATime, Quiet
<1> QED BY <1>1, <1>2 DEF OneAtATime, HandlersCurrent, Current

\* Nobody is at work, and nobody starts.
LEMMA NobodyWorks ==
  ASSUME SeqInv, Quiet, UNCHANGED tx
  PROVE  tx' \in [Workers -> Tx] /\ OneAtATime' /\ HandlersCurrent'
<1>1. \A v \in Workers : tx'[v].op = "idle"
  BY DEF Quiet
<1> QED BY <1>1 DEF OneAtATime, HandlersCurrent, Current, SeqInv, TypeOK

\* It goes on with something it read under its lock.
Holds(w) ==
  \E t \in Tx : /\ tx' = [tx EXCEPT ![w] = t]
                /\ t = IdleTx \/ (t.op = "save" /\ Proper(t) /\ Told(stripe', t.row))

\* Stripe only moves on, and repeats its first answer.
StripeOn ==
  /\ stripe' \in [Keys -> Remote]
  /\ \A k \in Keys :
       /\ stripe[k].status = "failed" => stripe'[k].status = "failed"
       /\ stripe'[k].first = "failed" => stripe'[k].status = "failed"

\* While the tables stay, so does what is known of them.
LEMMA TablesStay ==
  ASSUME IInv, SeqInv, StripeOn, UNCHANGED <<pay, refund, Ledger>>, now' \in Nat,
         used' \in [Counters -> Nat],
         tx' \in [Workers -> Tx] /\ OneAtATime' /\ HandlersCurrent'
  PROVE  SeqInv'
<1>1. TypeOK'
  BY DEF SeqInv, TypeOK, StripeOn, Ledger
<1>2. Streaks' /\ Rows'
  BY DEF SeqInv, Streaks, Rows, Ledger, Book
<1>3. Words'
  BY DEF SeqInv, Words, Word, Ledger, InBatch
<1>4. Shares'
  BY DEF SeqInv, Shares, Ledger, Applications, AppliedTo, Of
<1>5. RefundsAddUp'
  <2>1. \A p \in Payments : Confirmed(p)' = Confirmed(p)
    BY ConfirmedTotal, ConfirmedTotalNext DEF Of
  <2>2. ASSUME NEW r \in RefundIds PROVE OnRecord(refund[r])'
    <3>1. OnRecord(refund[r]) /\ (refund[r].payment # "none" => Known(refund[r]))
      BY DEF SeqInv, RefundsAddUp, IInv, RefundsKnown
    <3> QED BY <3>1 DEF OnRecord, Told, Room, Known, StripeOn
  <2> QED BY <2>1, <2>2 DEF SeqInv, RefundsAddUp, OneActive, StripeOn
<1> QED BY <1>1, <1>2, <1>3, <1>4, <1>5 DEF SeqInv

\* A handler goes on or gives up, and nothing is written but at Stripe.
LEMMA HoldsStep ==
  ASSUME IInv, SeqInv, NEW w \in Workers, tx[w].op # "idle" \/ Quiet, Holds(w),
         StripeOn, UNCHANGED <<now, pay, refund, Ledger>>,
         used' \in [Counters -> Nat]
  PROVE  SeqInv'
<1>1. PICK t \in Tx : /\ tx' = [tx EXCEPT ![w] = t]
                      /\ t = IdleTx \/ (t.op = "save" /\ Proper(t) /\ Told(stripe', t.row))
  BY DEF Holds
<1>2. CASE t = IdleTx
  BY <1>1, <1>2, EndsWork, TablesStay DEF SeqInv, TypeOK
<1>3. CASE t.op = "save" /\ Proper(t) /\ Told(stripe', t.row)
  <2>1. /\ tx' \in [Workers -> Tx] /\ tx'[w] = t
        /\ \A v \in Workers \ {w} : tx'[v].op = "idle"
    BY <1>1 DEF SeqInv, TypeOK, OneAtATime, Quiet
  <2>2. OneAtATime'
    BY <2>1 DEF OneAtATime
  <2>3. Current(tx[w])'
    BY <1>3, <2>1 DEF Current, Proper, Stems, Room, Accounts, Ledger
  <2>4. HandlersCurrent'
    BY <2>1, <2>3 DEF HandlersCurrent, Current
  <2>5. now' \in Nat
    BY DEF SeqInv, TypeOK
  <2> QED BY <2>1, <2>2, <2>4, <2>5, TablesStay
<1> QED BY <1>1, <1>2, <1>3

\* An open refund under its lock.
OpenUnderLock(id, read, row) ==
  /\ id \in RefundIds /\ read \in Refund /\ row \in Refund /\ Known(row)
  /\ Stems(id, read, row) /\ Room(row)
  /\ row.status \in Active /\ ~row.applied /\ ~read.applied

\* What it goes on to save is sound: it was read under the lock.
LEMMA SaveCurrent ==
  ASSUME IInv, SeqInv, NEW w \in Workers, NEW id, NEW read, NEW row,
         OpenUnderLock(id, read, row)
  PROVE  /\ SaveConfirmed(w, id, read, row) => Holds(w)
         /\ \A s \in Active \cup {"failed"} :
              LET x == [row EXCEPT !.status = s]
              IN  Save(w, id, read, x) /\ Told(stripe', x) => Holds(w)
         /\ Save(w, id, read, row) => Holds(w)
<1> DEFINE p == row.payment
           held(x) == [IdleTx EXCEPT !.op = "save", !.id = id, !.read = read,
                                     !.row = x, !.pay = pay[p]]
           done == [row EXCEPT !.status = "confirmed", !.applied = TRUE]
           repaid == Repaid(pay[p], row.amount)
           seen == comm[p]
           full == [IdleTx EXCEPT !.op = "save", !.id = id, !.read = read,
                                  !.row = done, !.pay = repaid, !.seen = seen]
<1>1. /\ p \in Payments /\ pay[p] \in Payment /\ seen \in Commission
      /\ Within(pay[p]) /\ pay[p].status # "pending" /\ row.amount \in Nat
      /\ id \in RefundIds /\ read \in Refund /\ row \in Refund
  BY DEF OpenUnderLock, Known, IInv, Shape, NeverOverRefunded, Within, Refund, SeqInv, TypeOK
<1>2. ASSUME NEW x \in Refund, x.payment = row.payment, x.amount = row.amount,
             x.manual = row.manual, x.key = row.key, x.applied = FALSE,
             x.status \in Active \cup {"failed"}, Told(stripe', x),
             Save(w, id, read, x)
      PROVE  Holds(w)
  <2> DEFINE t == held(x)
  <2>1. /\ t \in Tx /\ t.op = "save" /\ t.id = id /\ t.read = read /\ t.row = x
        /\ t.pay = pay[p]
    BY <1>1, IdleTxType DEF Tx, Ops
  <2>2. tx' = [tx EXCEPT ![w] = t]
    BY <1>2 DEF Save
  <2> HIDE DEF t
  <2>3. Proper(t)
    BY <1>2, <2>1 DEF Proper, OpenUnderLock, Stems, Room, Accounts, Paired, Active
  <2> QED BY <1>2, <2>1, <2>2, <2>3 DEF Holds
<1>3. Save(w, id, read, row) => Holds(w)
  <2>1. row.status # "failed" /\ row.applied = FALSE
    BY <1>1 DEF OpenUnderLock, Active, Refund
  <2> QED BY <1>1, <1>2, <2>1 DEF OpenUnderLock, Told
<1>4. ASSUME NEW s \in Active \cup {"failed"},
             Save(w, id, read, [row EXCEPT !.status = s]),
             Told(stripe', [row EXCEPT !.status = s])
      PROVE  Holds(w)
  <2> DEFINE x == [row EXCEPT !.status = s]
  <2>1. /\ x \in Refund /\ x.payment = row.payment /\ x.amount = row.amount
        /\ x.manual = row.manual /\ x.key = row.key /\ x.applied = FALSE /\ x.status = s
    BY <1>1 DEF OpenUnderLock, Refund, Active
  <2>2. Save(w, id, read, x) /\ Told(stripe', x)
    BY <1>4
  <2> HIDE DEF x
  <2> QED BY <1>2, <2>1, <2>2
<1>5. ASSUME SaveConfirmed(w, id, read, row) PROVE Holds(w)
  <2>1. CASE ~Fits(p, row)
    BY <1>5, <2>1, IdleTxType DEF SaveConfirmed, OpenUnderLock, Holds
  <2>2. CASE Fits(p, row)
    <3>1. repaid \in Payment
      BY <1>1, <2>2, RepaidWithin DEF Fits
    <3>2. /\ done \in Refund /\ done.payment = row.payment /\ done.amount = row.amount
          /\ done.manual = row.manual /\ done.key = row.key /\ done.applied = TRUE
          /\ done.status = "confirmed"
      BY <1>1 DEF Refund
    <3>3. tx' = [tx EXCEPT ![w] = full]
      BY <1>5, <2>2 DEF SaveConfirmed, OpenUnderLock
    <3> HIDE DEF repaid, done, seen
    <3>4. /\ full \in Tx /\ full.op = "save" /\ full.id = id /\ full.read = read
          /\ full.row = done /\ full.pay = repaid /\ full.seen = seen
      BY <1>1, <3>1, <3>2, IdleTxType DEF Tx, Ops
    <3> HIDE DEF full
    <3>5. Proper(full)
      BY <3>2, <3>4 DEF Proper, OpenUnderLock, Stems, Room, Accounts, Paired, repaid, seen
    <3> QED BY <3>2, <3>3, <3>4, <3>5 DEF Holds, Told
  <2> QED BY <2>1, <2>2
<1> QED BY <1>3, <1>4, <1>5

\* So it is after an answer of Stripe, or none.
LEMMA AnsweredCurrent ==
  ASSUME IInv, SeqInv, NEW w \in Workers, NEW id, NEW read, NEW row,
         OpenUnderLock(id, read, row), NEW answer \in Answers \cup {"none"},
         Answered(w, id, read, row, answer),
         answer = "failed" => stripe'[row.key].status = "failed"
  PROVE  Holds(w)
<1> DEFINE told == [row EXCEPT !.known = TRUE]
<1>1. OpenUnderLock(id, read, told) /\ told.key = row.key /\ told \in Refund
  BY DEF OpenUnderLock, Refund, Known, Stems, Room
<1> HIDE DEF told
<1>2. ASSUME NEW x \in {row, told}, NEW s \in Active \cup {"failed"},
             s = "failed" => answer = "failed",
             Save(w, id, read, [x EXCEPT !.status = s])
      PROVE  Holds(w)
  <2> DEFINE y == [x EXCEPT !.status = s]
  <2>1. y.status = s /\ y.key = row.key
    BY <1>1, <1>2 DEF OpenUnderLock, Refund
  <2>2. Told(stripe', y)
    <3> HIDE DEF y
    <3> QED BY <1>2, <2>1 DEF Told
  <2>3. OpenUnderLock(id, read, x)
    BY <1>1
  <2> HIDE DEF y
  <2> QED BY <1>2, <2>2, <2>3, SaveCurrent DEF y
<1>3. CASE answer = "succeeded"
  <2>1. SaveConfirmed(w, id, read, told)
    BY <1>3 DEF Answered, told
  <2> QED BY <1>1, <2>1, SaveCurrent
<1>4. CASE answer = "failed"
  BY <1>2, <1>4 DEF Answered, told
<1>5. CASE answer = "requires_action"
  <2>1. Save(w, id, read, [told EXCEPT !.status = "manual_action"])
    BY <1>5 DEF Answered, told
  <2> QED BY <1>2, <2>1 DEF Active
<1>6. CASE answer = "pending"
  <2>1. Save(w, id, read, [told EXCEPT !.status = "pending"])
    BY <1>6 DEF Answered, told
  <2> QED BY <1>2, <2>1 DEF Active
<1>7. CASE answer = "none"
  <2>1. Save(w, id, read, [row EXCEPT !.status = "pending"])
    BY <1>7 DEF Answered
  <2> QED BY <1>2, <2>1 DEF Active
<1> QED BY <1>3, <1>4, <1>5, <1>6, <1>7 DEF Answers

\* Stripe's answer is recorded or repeated.
LEMMA AskStripeCurrent ==
  ASSUME IInv, SeqInv, NEW w \in Workers, NEW id, NEW read, NEW row,
         OpenUnderLock(id, read, row), AskStripe(w, id, read, row)
  PROVE  Holds(w) /\ StripeOn /\ used' \in [Counters -> Nat]
<1> DEFINE k == row.key
<1>1. /\ k \in Keys /\ row.amount \in Nat /\ stripe \in [Keys -> Remote]
      /\ used \in [Counters -> Nat]
      /\ \A j \in Keys : stripe[j].first = "failed" => stripe[j].status = "failed"
  BY DEF OpenUnderLock, Known, Refund, SeqInv, TypeOK, RefundsAddUp
<1>2. used' \in [Counters -> Nat]
  <2>1. used' = used \/ used' = [used EXCEPT !["faults"] = @ + 1]
    BY DEF AskStripe
  <2>2. [used EXCEPT !["faults"] = @ + 1] \in [Counters -> Nat]
    BY <1>1 DEF Counters
  <2> QED BY <1>1, <2>1, <2>2
<1>3. UNCHANGED stripe => StripeOn
  BY <1>1 DEF StripeOn
<1>4. stripe[k].status \in Answers \cup {"none"} /\ stripe[k].first \in Answers \cup {"none"}
  BY <1>1 DEF Remote
<1>5. CASE row.known /\ Answered(w, id, read, row, stripe[k].status) /\ UNCHANGED stripe
  BY <1>2, <1>3, <1>4, <1>5, AnsweredCurrent
<1>6. CASE Answered(w, id, read, row, stripe[k].first) /\ UNCHANGED stripe
  <2>1. stripe[k].first = "failed" => stripe'[k].status = "failed"
    BY <1>1, <1>6
  <2> QED BY <1>2, <1>3, <1>4, <1>6, <2>1, AnsweredCurrent
<1>7. ASSUME NEW answer \in Answers, stripe[k].status = "none",
             stripe' = [stripe EXCEPT ![k] = [status |-> answer, first |-> answer,
                                              amount |-> row.amount]],
             \/ Answered(w, id, read, row, answer)
             \/ Answered(w, id, read, row, "none")
      PROVE  Holds(w) /\ StripeOn
  <2> DEFINE new == [status |-> answer, first |-> answer, amount |-> row.amount]
  <2>1. new \in Remote /\ new.status = answer /\ new.first = answer
    BY <1>1 DEF Remote
  <2> HIDE DEF new
  <2>2. stripe' = [stripe EXCEPT ![k] = new]
    BY <1>7 DEF new
  <2>3. StripeOn
    BY <1>1, <1>7, <2>1, <2>2 DEF StripeOn
  <2>4. stripe'[k].status = answer
    BY <1>1, <2>1, <2>2
  <2>5. Holds(w)
    BY <1>7, <2>4, AnsweredCurrent
  <2> QED BY <2>3, <2>5
<1>8. CASE Answered(w, id, read, row, "none") /\ UNCHANGED stripe
  BY <1>2, <1>3, <1>8, AnsweredCurrent
<1> QED BY <1>2, <1>5, <1>6, <1>7, <1>8 DEF AskStripe

\* A refund is asked for.
LEMMA AskStep ==
  ASSUME IInv, SeqInv, ~Overlap, NEW w \in Workers, NEW p \in Payments,
         NEW asked \in Amounts \cup {0}, NEW manual \in BOOLEAN,
         NEW defer \in BOOLEAN, RequestRefund(w, p, asked, manual, defer)
  PROVE  SeqInv'
<1> DEFINE amount == IF asked = 0 THEN Price - pay[p].refunded ELSE asked
           id == CHOOSE r \in Unused : \A s \in Unused : r <= s
           status == IF defer \/ ~manual THEN "requested" ELSE "manual_action"
           key == <<p, Cardinality(Of(p)) + 1, pay[p].refunded + amount>>
           row == [NoRefund EXCEPT !.payment = p, !.amount = amount,
                                   !.manual = manual, !.status = status,
                                   !.key = key]
<1>1. /\ Quiet /\ Unused # {} /\ Refundable(p, amount)
      /\ IF manual \/ defer
         THEN Save(w, id, NoRefund, row) /\ UNCHANGED <<stripe, used>>
         ELSE AskStripe(w, id, NoRefund, row)
      /\ UNCHANGED <<now, pay, refund, Ledger>>
  BY DEF RequestRefund, Ledger, Idle, MayRun
<1>2. /\ pay[p].refunded \in Nat /\ Price \in Nat /\ pay[p].status = "succeeded"
  BY <1>1, LedgerAssumption DEF IInv, Shape, Payment, Refundable
<1>3. /\ amount \in Nat /\ pay[p].refunded + amount \in 1..Price
      /\ 0 < amount /\ amount <= Price - pay[p].refunded
  <2>1. amount \in Int
    BY <1>2, LedgerAssumption
  <2>2. 0 < amount /\ amount <= Price - pay[p].refunded
    BY <1>1 DEF Refundable
  <2> HIDE DEF amount
  <2> QED BY <1>2, <2>1, <2>2
<1>5. key \in Keys
  <2>1. Cardinality(Of(p)) + 1 \in RefundIds
    BY <1>1, OrdinalInRange
  <2> QED BY <1>3, <2>1 DEF Keys
<1>6. id \in Unused
  <2>1. Unused # {} /\ Unused \in SUBSET Nat
    BY <1>1, LedgerAssumption DEF Unused, RefundIds
  <2>2. \E r \in Unused : \A s \in Unused : r <= s
    BY <2>1, LeastNumber
  <2> QED BY <2>2
<1>7. status \in Active /\ status # "failed"
  BY DEF Active
<1> HIDE DEF amount, id, key, status
<1>8. /\ row \in Refund /\ row.payment = p /\ row.key = key /\ row.amount = amount
      /\ row.status = status /\ row.applied = FALSE
  BY <1>3, <1>5, <1>7, NullRows DEF Refund, NoRefund
<1> HIDE DEF row
<1>9. id \in RefundIds /\ refund[id] = NoRefund
  BY <1>6 DEF Unused, SeqInv, RefundsAddUp, OnRecord
<1>10. Stems(id, NoRefund, row)
  <2>1. \A r \in RefundIds : refund[r].payment = p => refund[r].status \notin Active
    BY <1>1 DEF Refundable, Of
  <2> QED BY <1>8, <1>9, <2>1 DEF Stems
<1>11. OpenUnderLock(id, NoRefund, row)
  BY <1>2, <1>3, <1>5, <1>7, <1>8, <1>9, <1>10, NullRows
     DEF OpenUnderLock, Known, Room, NoRefund
<1>12. Holds(w) /\ StripeOn /\ used' \in [Counters -> Nat]
  <2>1. CASE manual \/ defer
    <3>1. UNCHANGED <<stripe, used>> /\ Save(w, id, NoRefund, row)
      BY <1>1, <2>1
    <3>2. Holds(w)
      BY <1>11, <3>1, SaveCurrent
    <3> QED BY <3>1, <3>2 DEF StripeOn, SeqInv, TypeOK, RefundsAddUp
  <2>2. CASE ~(manual \/ defer)
    BY <1>1, <1>11, <2>2, AskStripeCurrent
  <2> QED BY <2>1, <2>2
<1> QED BY <1>1, <1>12, HoldsStep

\* A refund is loaded by /sync or /confirm.
LEMMA ProbeCurrent ==
  ASSUME IInv, SeqInv, ~Overlap, NEW w \in Workers, NEW r \in RefundIds, NEW op,
         Probe(w, r, op)
  PROVE  SeqInv'
<1> DEFINE t == [IdleTx EXCEPT !.op = op, !.id = r, !.read = refund[r]]
<1>1. /\ Quiet /\ op \in {"sync", "confirm", "fail"}
      /\ tx' = [tx EXCEPT ![w] = t]
      /\ UNCHANGED <<now, pay, refund, stripe, Ledger, used>>
  BY DEF Probe, Ledger, Idle, MayRun
<1>2. /\ t \in Tx /\ t.op = op /\ t.read = refund[r] /\ t.id = r
  BY <1>1, IdleTxType DEF Tx, Ops, SeqInv, TypeOK
<1> HIDE DEF t
<1>3. /\ tx' \in [Workers -> Tx] /\ tx'[w] = t
      /\ \A v \in Workers \ {w} : tx'[v].op = "idle"
  BY <1>1, <1>2 DEF SeqInv, TypeOK, Quiet
<1>4. OneAtATime'
  BY <1>3 DEF OneAtATime
<1>5. Current(tx[w])'
  BY <1>1, <1>2, <1>3 DEF Current
<1>6. HandlersCurrent'
  BY <1>3, <1>5 DEF HandlersCurrent, Current
<1>7. StripeOn /\ used' \in [Counters -> Nat] /\ now' \in Nat
  BY <1>1 DEF StripeOn, SeqInv, TypeOK, RefundsAddUp
<1> QED BY <1>1, <1>3, <1>4, <1>6, <1>7, TablesStay

\* A refund is synchronised or resolved.
LEMMA ResolutionCurrent ==
  ASSUME IInv, SeqInv, NEW w \in Workers, Sync(w) \/ Resolve(w)
  PROVE  SeqInv'
<1> DEFINE read == tx[w].read
           id == tx[w].id
           failed == [read EXCEPT !.status = "failed"]
<1>1. /\ tx[w].op \in {"sync", "confirm", "fail"}
      /\ UNCHANGED <<now, pay, refund, Ledger>>
      /\ \/ GiveUp(w)
         \/ ~Done(read) /\ AskStripe(w, id, read, read)
         \/ read.manual /\ read.status \in Active /\ Save(w, id, read, failed)
              /\ UNCHANGED <<stripe, used>>
         \/ read.status \in Active /\ SaveConfirmed(w, id, read, read)
              /\ UNCHANGED <<stripe, used>>
  BY DEF Sync, Resolve, Ledger
<1>2. /\ read \in Refund /\ Known(read) /\ id \in RefundIds /\ read = refund[id]
      /\ read.payment # "none"
  BY <1>1, LedgerAssumption DEF IInv, Shape, AnyTx, HandlersSound, HandlerSound, SeqInv,
     HandlersCurrent, Current, Known
<1>3. OnRecord(read) /\ read # NoRefund /\ read.status \in Active \cup {"none", "confirmed", "failed"}
  BY <1>2 DEF SeqInv, RefundsAddUp, NoRefund, Refund
<1>4. read.status \in Active => OpenUnderLock(id, read, read)
  BY <1>2, <1>3 DEF OnRecord, OpenUnderLock, Stems, Paired, Active
<1>5. ~Done(read) => read.status \in Active
  BY <1>2, <1>3 DEF Done, OnRecord, Paired
<1>6. UNCHANGED <<stripe, used>> => StripeOn /\ used' \in [Counters -> Nat]
  BY DEF StripeOn, SeqInv, TypeOK, RefundsAddUp
<1>7. read.manual => Told(stripe', failed)
  BY <1>2 DEF Told, Refund
<1> HIDE DEF read, id
<1>8. Holds(w) /\ StripeOn /\ used' \in [Counters -> Nat]
  <2>1. CASE GiveUp(w)
    BY <1>6, <2>1, IdleTxType DEF GiveUp, Holds
  <2>2. CASE ~Done(read) /\ AskStripe(w, id, read, read)
    BY <1>4, <1>5, <2>2, AskStripeCurrent
  <2>3. CASE read.manual /\ read.status \in Active /\ Save(w, id, read, failed)
               /\ UNCHANGED <<stripe, used>>
    BY <1>4, <1>6, <1>7, <2>3, SaveCurrent
  <2>4. CASE read.status \in Active /\ SaveConfirmed(w, id, read, read)
               /\ UNCHANGED <<stripe, used>>
    BY <1>4, <1>6, <2>4, SaveCurrent
  <2> QED BY <1>1, <2>1, <2>2, <2>3, <2>4
<1> QED BY <1>1, <1>8, HoldsStep

\* A handler dies.
LEMMA FailCurrent ==
  ASSUME IInv, SeqInv, NEW w \in Workers, Fail(w)
  PROVE  SeqInv'
<1>1. /\ tx[w].op # "idle" /\ Holds(w) /\ UNCHANGED <<now, pay, refund, stripe, Ledger>>
      /\ used' = [used EXCEPT !["faults"] = @ + 1]
  BY IdleTxType DEF Fail, Holds, Ledger
<1>2. used' \in [Counters -> Nat]
  BY <1>1 DEF SeqInv, TypeOK, Counters
<1>3. StripeOn
  BY <1>1 DEF StripeOn, SeqInv, TypeOK, RefundsAddUp
<1> QED BY <1>1, <1>2, <1>3, HoldsStep

\* Stripe ends a refund it left open.
LEMMA RemoteCurrent ==
  ASSUME IInv, SeqInv, NEW k \in Keys, NEW status \in Answers, RemoteSettles(k, status)
  PROVE  SeqInv'
<1>1. /\ stripe[k].status \in {"pending", "requires_action"}
      /\ stripe' = [stripe EXCEPT ![k].status = status]
      /\ UNCHANGED <<now, pay, refund, Ledger, tx, used>>
  BY DEF RemoteSettles, Ledger
<1>2. stripe \in [Keys -> Remote] /\ stripe[k].first # "failed"
  BY <1>1 DEF SeqInv, TypeOK, RefundsAddUp
<1>3. StripeOn
  <2> DEFINE x == [stripe[k] EXCEPT !.status = status]
  <2>1. x \in Remote /\ x.first = stripe[k].first
    BY <1>2 DEF Remote
  <2>2. stripe' = [stripe EXCEPT ![k] = x]
    BY <1>1
  <2> HIDE DEF x
  <2> QED BY <1>1, <1>2, <2>1, <2>2 DEF StripeOn, SeqInv, RefundsAddUp
<1>4. /\ OneAtATime' /\ tx' \in [Workers -> Tx] /\ used' \in [Counters -> Nat]
      /\ now' \in Nat
  BY <1>1 DEF SeqInv, OneAtATime, TypeOK
<1>5. HandlersCurrent'
  <2> SUFFICES ASSUME NEW v \in Workers PROVE Current(tx[v])'
    BY DEF HandlersCurrent
  <2> DEFINE t == tx[v]
  <2>1. Current(t) /\ (t.op = "save" => t.row.key \in Keys) /\ tx'[v] = t
    BY <1>1 DEF SeqInv, HandlersCurrent, IInv, HandlersSound, HandlerSound, Saves, Known
  <2>2. t.op = "save" => Told(stripe', t.row)
    BY <1>3, <2>1 DEF Current, Told, StripeOn
  <2> HIDE DEF t
  <2> QED BY <1>1, <2>1, <2>2 DEF Current, Proper, Stems, Room, Accounts, Ledger
<1> QED BY <1>1, <1>3, <1>4, <1>5, TablesStay

\* The due rows are read.
LEMMA BeginBatchCurrent ==
  ASSUME IInv, SeqInv, ~Overlap, NEW w \in Workers, BeginBatch(w)
  PROVE  SeqInv'
<1> DEFINE due == {p \in Pending(comm, Payments) : comm[p].vests <= now}
           t == [IdleTx EXCEPT !.op = "batch", !.due = due]
<1>1. /\ Quiet /\ tx' = [tx EXCEPT ![w] = t]
      /\ UNCHANGED <<now, pay, refund, stripe, Ledger, used>>
  BY DEF BeginBatch, Ledger, Idle, MayRun
<1>2. due \in SUBSET Payments
  BY DEF Pending
<1>3. due' = due
  BY <1>1 DEF Ledger, Pending
<1> HIDE DEF due
<1>4. t \in Tx /\ t.op = "batch" /\ t.due = due
  BY <1>2, IdleTxType DEF Tx, Ops
<1> HIDE DEF t
<1>5. /\ tx' \in [Workers -> Tx] /\ tx'[w] = t
      /\ \A v \in Workers \ {w} : tx'[v].op = "idle"
  BY <1>1, <1>4 DEF SeqInv, TypeOK, Quiet
<1>6. OneAtATime'
  BY <1>5 DEF OneAtATime
<1>7. Current(tx[w])'
  <2>1. tx'[w].op = "batch" /\ tx'[w].due = due'
    BY <1>3, <1>4, <1>5
  <2> QED BY <2>1 DEF Current, due
<1>8. HandlersCurrent'
  BY <1>5, <1>7 DEF HandlersCurrent, Current
<1>9. StripeOn /\ used' \in [Counters -> Nat] /\ now' \in Nat
  BY <1>1 DEF StripeOn, SeqInv, TypeOK, RefundsAddUp
<1> QED BY <1>1, <1>5, <1>6, <1>8, <1>9, TablesStay

\* A month passes.
LEMMA TickCurrent ==
  ASSUME IInv, SeqInv, Tick
  PROVE  SeqInv'
<1>1. /\ Quiet /\ now' = now + 1
      /\ UNCHANGED <<pay, refund, stripe, ref, comm, batch, tx, payouts, used>>
  BY DEF Tick
<1>2. tx' \in [Workers -> Tx] /\ OneAtATime' /\ HandlersCurrent'
  BY <1>1, NobodyWorks
<1>3. StripeOn /\ used' \in [Counters -> Nat] /\ now' \in Nat
  BY <1>1 DEF StripeOn, SeqInv, TypeOK, RefundsAddUp
<1> QED BY <1>1, <1>2, <1>3, TablesStay DEF Ledger

(***************************************************************************)
(* Books.                                                                  *)
(***************************************************************************)
\* What may become of a row outside the payouts.
Drift(x, y) ==
  /\ y.batch = x.batch
  /\ y.status = "none" => y = x
  /\ x.status = "none" => y.status \in {"none", "pending", "vested"}
  /\ x.status = "pending" =>
       /\ y.status \in {"pending", "vested", "cancelled"} /\ y.amount <= x.amount
       /\ y.status # "pending" => y.amount = x.amount
  /\ x.status \in {"vested", "cancelled", "paid"} =>
       y.status = x.status /\ y.amount = x.amount

\* What may become of its status and its worth.
Life(x, y) ==
  \/ x.status = "none" /\ y.status \in {"pending", "vested"}
  \/ x.status = "pending" /\ y.status = "pending" /\ y.amount <= x.amount
  \/ x.status = "pending" /\ y.status \in {"vested", "cancelled"} /\ y.amount = x.amount
  \/ y.status = x.status /\ y.amount = x.amount
Lives == \A p \in Payments : Life(comm[p], comm'[p])

\* A row that drifts lives as the account allows.
LEMMA DriftLives ==
  ASSUME comm \in [Payments -> Commission], comm' \in [Payments -> Commission],
         \A p \in Payments : Drift(comm[p], comm'[p])
  PROVE  Lives
<1> SUFFICES ASSUME NEW p \in Payments PROVE Life(comm[p], comm'[p])
  BY DEF Lives
<1>1. comm[p] \in Commission /\ comm'[p] \in Commission /\ Drift(comm[p], comm'[p])
  OBVIOUS
<1> QED BY <1>1 DEF Life, Drift, Commission

\* A row that left the streak drifts.
LEMMA LeftDrifts ==
  ASSUME NEW x \in Commission, NEW y \in Commission, y = x \/ Left(x, y)
  PROVE  Drift(x, y)
BY DEF Drift, Left, Commission

\* A row a refund touches drifts.
LEMMA RefundDrifts ==
  ASSUME NEW x \in Commission, NEW y \in Commission, NEW back, NEW left \in Nat,
         Refunded(x, y, back, left)
  PROVE  Drift(x, y)
<1>1. x.amount \in Nat /\ Share(left) \in Nat
  BY DEF Share, Commission
<1>2. Earlier(Share(left), x.amount) <= x.amount
  BY <1>1 DEF Earlier
<1> QED BY <1>1, <1>2 DEF Drift, Refunded

\* Sums of rows whose amounts stay stay.
LEMMA AmountSame ==
  ASSUME NEW c, NEW d, NEW P, \A p \in P : c[p].amount = d[p].amount
  PROVE  Amount(c, P) = Amount(d, P)
<1>1. \A p \in P : [x \in P |-> c[x].amount][p] = [x \in P |-> d[x].amount][p]
  OBVIOUS
<1>2. Total([x \in P |-> c[x].amount], P) = Total([x \in P |-> d[x].amount], P)
  BY <1>1, TotalSame
<1> QED BY <1>2, AmountTotal

\* A batch keeps its word while its rows stay in it at their amounts.
LEMMA WordKept ==
  ASSUME NEW b \in BatchIds, Word(b), batch'[b].total = batch[b].total,
         batch[b].status \in {"draft", "sent", "paid"},
         \A p \in Payments :
           /\ comm'[p].batch = b <=> comm[p].batch = b
           /\ comm[p].batch = b => comm'[p].amount = comm[p].amount
  PROVE  Word(b)'
<1>1. InBatch(b)' = InBatch(b)
  BY DEF InBatch
<1>2. \A P \in SUBSET InBatch(b) : Amount(comm', P) = Amount(comm, P)
  <2> SUFFICES ASSUME NEW P \in SUBSET InBatch(b)
               PROVE  Amount(comm', P) = Amount(comm, P)
    OBVIOUS
  <2>1. \A p \in P : comm'[p].amount = comm[p].amount
    BY DEF InBatch
  <2> QED BY <2>1, AmountSame
<1>3. Amount(comm', InBatch(b)) = Amount(comm, InBatch(b))
  BY <1>2
<1>4. \A p \in InBatch(b) :
        Amount(comm', OfPartner(Partner[p], InBatch(b)))
          = Amount(comm, OfPartner(Partner[p], InBatch(b)))
  BY <1>2 DEF OfPartner
<1> QED BY <1>1, <1>3, <1>4 DEF Word

\* The batches do not notice rows that drift.
LEMMA DriftKeeps ==
  ASSUME SeqInv, \A p \in Payments : Drift(comm[p], comm'[p]), UNCHANGED batch
  PROVE  Rows' /\ Words'
<1>1. Rows'
  <2> SUFFICES ASSUME NEW p \in Payments
               PROVE  /\ comm'[p].status = "none" => comm'[p] = NoCommission
                      /\ comm'[p].batch # 0 =>
                          \/ comm'[p].status = "vested"
                               /\ batch'[comm'[p].batch].status \in {"draft", "sent"}
                          \/ comm'[p].status = "paid"
                               /\ batch'[comm'[p].batch].status = "paid"
    BY DEF Rows
  <2>1. /\ comm[p].status = "none" => comm[p] = NoCommission
        /\ comm[p].batch # 0 =>
             \/ comm[p].status = "vested" /\ batch[comm[p].batch].status \in {"draft", "sent"}
             \/ comm[p].status = "paid" /\ batch[comm[p].batch].status = "paid"
        /\ Drift(comm[p], comm'[p])
    BY DEF SeqInv, Rows
  <2> QED BY <2>1 DEF Drift
<1>2. ASSUME NEW b \in BatchIds, batch[b].status \in {"draft", "sent", "paid"}
      PROVE  Word(b)'
  <2>1. \A p \in Payments : /\ comm'[p].batch = comm[p].batch
                            /\ comm[p].batch # 0 => comm'[p].amount = comm[p].amount
    BY DEF SeqInv, Rows, Drift
  <2>2. Word(b) /\ b # 0
    BY RulesAssumption DEF SeqInv, Words
  <2> QED BY <1>2, <2>1, <2>2, WordKept
<1>3. Words'
  BY <1>2 DEF Words, Word
<1> QED BY <1>1, <1>3

\* One invitee's book is written; the other invitees' rows stay.
LEMMA WriteStreaks ==
  ASSUME SeqInv, NEW m \in Members, NEW c, Streak(c, Mine(m)),
         \A q \in Payments \ Mine(m) : c.comm[q] = comm[q], WriteBook(m, c)
  PROVE  /\ ref' \in [Members -> Referral] /\ comm' \in [Payments -> Commission]
         /\ Streaks' /\ comm' = c.comm
<1>1. c \in LedgerBooks
  BY DEF Streak
<1>2. /\ ref' \in [Members -> Referral] /\ comm' \in [Payments -> Commission]
      /\ comm' = c.comm /\ ref'[m] = c.ref
      /\ \A n \in Members \ {m} : ref'[n] = ref[n]
  BY <1>1 DEF WriteBook, LedgerBooks, SeqInv, TypeOK
<1>3. ASSUME NEW n \in Members PROVE Streak(Book(n), Mine(n))'
  <2> DEFINE d == [ref |-> ref'[n], comm |-> comm']
  <2>1. d \in LedgerBooks /\ d.ref = ref'[n] /\ d.comm = comm'
    BY <1>2 DEF LedgerBooks
  <2>2. Book(n)' = d /\ Mine(n)' = Mine(n)
    BY DEF Book, Mine
  <2> HIDE DEF d
  <2>3. CASE n = m
    BY <1>2, <2>1, <2>2, <2>3 DEF Streak, Waits
  <2>4. CASE n # m
    <3>1. Streak(Book(n), Mine(n)) /\ Book(n).ref = ref[n] /\ Book(n).comm = comm
      BY DEF SeqInv, Streaks, Book
    <3>2. \A q \in Mine(n) : comm'[q] = comm[q]
      BY <1>2, <2>4 DEF Mine
    <3> QED BY <1>2, <2>1, <2>2, <2>4, <3>1, <3>2 DEF Streak, Waits
  <2> QED BY <2>3, <2>4
<1> QED BY <1>2, <1>3 DEF Streaks

\* Refunds add up while neither they nor the refunded totals move.
LEMMA RefundsKeep ==
  ASSUME IInv, SeqInv, UNCHANGED <<refund, stripe>>,
         \A p \in Payments : /\ pay'[p].refunded = pay[p].refunded
                             /\ pay'[p].status = "pending" => pay[p].status = "pending"
  PROVE  RefundsAddUp'
<1>1. \A p \in Payments : Confirmed(p)' = Confirmed(p)
  BY ConfirmedTotal, ConfirmedTotalNext DEF Of
<1>2. ASSUME NEW r \in RefundIds PROVE OnRecord(refund[r])'
  <2>1. OnRecord(refund[r]) /\ (refund[r].payment # "none" => Known(refund[r]))
    BY DEF SeqInv, RefundsAddUp, IInv, RefundsKnown
  <2> QED BY <2>1 DEF OnRecord, Told, Room, Known
<1> QED BY <1>1, <1>2 DEF SeqInv, RefundsAddUp, OneActive

\* A row keeps its worth when it leaves the streak.
LEMMA WorthKept ==
  ASSUME NEW x, NEW y, NEW r, NEW s, NEW k, Worth(x, r, k), y = x \/ Left(x, y),
         s.refunded = r.refunded, s.status = "refunded" <=> r.status = "refunded"
  PROVE  Worth(y, s, k)
BY DEF Worth, Left

\* A member's subscription is cancelled.
LEMMA CancelledCurrent ==
  ASSUME IInv, SeqInv, ~Overlap, NEW m \in Members, SubscriptionCancelled(m)
  PROVE  SeqInv' /\ Lives
<1> DEFINE c == CancelStreak(Book(m), Mine(m), now)
<1>1. /\ Quiet /\ WriteBook(m, c) /\ used' = [used EXCEPT !["lapses"] = @ + 1]
      /\ UNCHANGED <<now, pay, refund, stripe, batch, tx, payouts>>
  BY DEF SubscriptionCancelled, MayRun
<1>2. Streak(c, Mine(m)) /\ Settles(Book(m), c, Mine(m))
  BY StreakMoves DEF SeqInv, Streaks, Mine
<1> HIDE DEF c
<1>3. \A q \in Payments : c.comm[q] = comm[q] \/ (q \in Mine(m) /\ Left(comm[q], c.comm[q]))
  BY <1>2 DEF Settles, Book
<1>4. /\ ref' \in [Members -> Referral] /\ comm' \in [Payments -> Commission]
      /\ Streaks' /\ comm' = c.comm
  BY <1>1, <1>2, <1>3, WriteStreaks
<1>5. used' \in [Counters -> Nat]
  BY <1>1 DEF SeqInv, TypeOK, Counters
<1>6. TypeOK'
  BY <1>1, <1>4, <1>5 DEF SeqInv, TypeOK
<1>7. tx' \in [Workers -> Tx] /\ OneAtATime' /\ HandlersCurrent'
  BY <1>1, NobodyWorks
<1>8. \A q \in Payments : Drift(comm[q], comm'[q])
  BY <1>3, <1>4, LeftDrifts DEF SeqInv, TypeOK
<1>9. Rows' /\ Words'
  BY <1>1, <1>8, DriftKeeps
<1>10. RefundsAddUp'
  BY <1>1, RefundsKeep
<1>11. Shares'
  <2> SUFFICES ASSUME NEW p \in Payments PROVE Worth(comm'[p], pay'[p], Applications(p))
    BY <1>1 DEF Shares, Applications, AppliedTo, Of
  <2> QED BY <1>1, <1>3, <1>4, WorthKept DEF SeqInv, Shares
<1>12. Lives
  BY <1>4, <1>8, DriftLives DEF SeqInv, TypeOK
<1> QED BY <1>4, <1>6, <1>7, <1>9, <1>10, <1>11, <1>12 DEF SeqInv

\* A member pays.
LEMMA FulfilCurrent ==
  ASSUME IInv, SeqInv, ~Overlap, NEW p \in Payments, NEW length \in Periods,
         Fulfil(p, length)
  PROVE  SeqInv' /\ Lives
<1> DEFINE m == Payer[p]
           worth == IF p \in Rated THEN Share(Price) ELSE 0
<1>1. m \in Members /\ p \in Mine(m) /\ Mine(m) \in SUBSET Payments
  BY LedgerAssumption DEF Mine
<1>2. PICK from \in Starts(m, length) :
        /\ pay' = [pay EXCEPT ![p].status = "succeeded", ![p].until = from + length]
        /\ WriteBook(m, RecordIntent(Book(m), Mine(m), p, from, from + length, worth))
  BY DEF Fulfil
<1>3. pay \in [Payments -> Payment] /\ now \in Nat /\ pay[p].status = "pending"
  BY DEF SeqInv, TypeOK, Fulfil
<1>4. from \in Nat /\ length \in Nat
  <2>1. \A q \in Mine(m) : pay[q].until \in Time
    BY <1>3 DEF Mine, Payment
  <2>2. length \in Nat
    BY LedgerAssumption
  <2> QED BY <1>3, <2>1, <2>2 DEF Starts, Time
<1> DEFINE until == from + length
<1>5. until \in Nat /\ until \in Time
  BY <1>4 DEF Time
<1>6. worth \in Nat /\ worth \in {0, Share(Price)}
  BY LedgerAssumption DEF Share
<1> HIDE DEF until, worth
<1>7. /\ pay' \in [Payments -> Payment]
      /\ pay'[p].status = "succeeded" /\ pay'[p].refunded = pay[p].refunded
      /\ \A q \in Payments \ {p} : pay'[q] = pay[q]
  <2>1. [pay[p] EXCEPT !.status = "succeeded", !.until = until] \in Payment
    BY <1>3, <1>5 DEF Payment
  <2>2. pay' = [pay EXCEPT ![p] = [pay[p] EXCEPT !.status = "succeeded", !.until = until]]
    BY <1>2, <1>3 DEF until, Payment
  <2>3. /\ [pay[p] EXCEPT !.status = "succeeded", !.until = until].status = "succeeded"
        /\ [pay[p] EXCEPT !.status = "succeeded", !.until = until].refunded = pay[p].refunded
    BY <1>3 DEF Payment
  <2> QED BY <1>3, <2>1, <2>2, <2>3
<1>8. comm[p] = NoCommission /\ comm[p].status = "none" /\ pay[p].refunded = 0
  <2>1. comm[p].status = "none"
    BY <1>3 DEF IInv, BooksSound, BookSound
  <2> QED BY <1>3, <2>1 DEF SeqInv, Rows, RefundsAddUp
<1> DEFINE c == RecordIntent(Book(m), Mine(m), p, from, until, worth)
<1>9. /\ Streak(c, Mine(m))
      /\ \A q \in Payments \ {p} :
           \/ c.comm[q] = comm[q]
           \/ q \in Mine(m) /\ Left(comm[q], c.comm[q])
      /\ \/ c.comm[p] = comm[p]
         \/ /\ c.comm[p].status \in {"pending", "vested"}
            /\ c.comm[p].amount = worth
            /\ c.comm[p].clawed = 0 /\ c.comm[p].batch = 0
  <2> DEFINE b == Book(m)
             mine == Mine(m)
  <2>1. Streak(b, mine) /\ b.comm = comm /\ p \in mine /\ mine \in SUBSET Payments
    BY <1>1 DEF SeqInv, Streaks, Book
  <2> DEFINE d == RecordIntent(b, mine, p, from, until, worth)
  <2>2. d = c /\ mine = Mine(m)
    OBVIOUS
  <2> HIDE DEF b, mine, c
  <2>3. /\ Streak(d, mine)
        /\ \A q \in Payments \ {p} :
             \/ d.comm[q] = b.comm[q]
             \/ q \in mine /\ Left(b.comm[q], d.comm[q])
        /\ \/ d.comm[p] = b.comm[p]
           \/ /\ d.comm[p].status \in {"pending", "vested"}
              /\ d.comm[p].amount = worth
              /\ d.comm[p].clawed = 0 /\ d.comm[p].batch = 0
    BY <1>4, <1>5, <1>6, <1>8, <2>1, RecordSettles
  <2> HIDE DEF d, m
  <2> QED BY <2>1, <2>2, <2>3
<1>10. WriteBook(m, c)
  BY <1>2 DEF until, worth
<1> HIDE DEF c
<1>11. Quiet /\ UNCHANGED <<now, refund, stripe, batch, tx, payouts, used>>
  BY DEF Fulfil, MayRun
<1>12. \A q \in Payments \ Mine(m) : c.comm[q] = comm[q]
  BY <1>1, <1>9
<1>13. /\ ref' \in [Members -> Referral] /\ comm' \in [Payments -> Commission]
       /\ Streaks' /\ comm' = c.comm
  BY <1>1, <1>9, <1>10, <1>12, WriteStreaks
<1>14. TypeOK'
  BY <1>7, <1>11, <1>13 DEF SeqInv, TypeOK
<1>15. tx' \in [Workers -> Tx] /\ OneAtATime' /\ HandlersCurrent'
  BY <1>11, NobodyWorks
<1>16. \A q \in Payments : Drift(comm[q], comm'[q])
  <2>1. \A q \in Payments \ {p} : Drift(comm[q], comm'[q])
    BY <1>9, <1>13, LeftDrifts DEF SeqInv, TypeOK
  <2>2. Drift(comm[p], comm'[p])
    BY <1>8, <1>9, <1>13 DEF Drift, NoCommission
  <2> QED BY <2>1, <2>2
<1>17. Rows' /\ Words'
  BY <1>11, <1>16, DriftKeeps
<1>18. RefundsAddUp'
  <2>1. \A q \in Payments : /\ pay'[q].refunded = pay[q].refunded
                            /\ pay'[q].status = "pending" => pay[q].status = "pending"
    BY <1>7
  <2> QED BY <1>11, <2>1, RefundsKeep
<1>19. Shares'
  <2> SUFFICES ASSUME NEW q \in Payments, NEW k, k = Applications(q)
               PROVE  Worth(comm'[q], pay'[q], k)
    BY <1>11 DEF Shares, Applications, AppliedTo, Of
  <2>1. CASE q # p
    <3>1. Worth(comm[q], pay[q], k)
      BY DEF SeqInv, Shares
    <3> QED BY <1>7, <1>9, <1>13, <2>1, <3>1, WorthKept
  <2>2. CASE q = p
    <3>1. CASE comm'[p] = comm[p]
      BY <1>8, <2>2, <3>1 DEF Worth, NoCommission
    <3>2. CASE comm'[p] # comm[p]
      <4>1. /\ comm'[p].amount = worth /\ comm'[p].clawed = 0
            /\ pay'[p].refunded = 0 /\ pay'[p].status # "refunded"
        BY <1>7, <1>8, <1>9, <1>13, <3>2
      <4>2. /\ Price - 0 = Price /\ worth - 0 = worth /\ k \in Nat
            /\ Price \in Nat /\ Share(Price) \in Nat
            /\ 5 * Share(Price) <= Price + 2 /\ Price - 2 <= 5 * Share(Price)
        <5>1. Price \in Nat /\ k \in Nat
          BY ApplicationsCounted, LedgerAssumption
        <5>2. /\ Share(Price) \in Nat
              /\ 5 * Share(Price) <= Price + 2 /\ Price - 2 <= 5 * Share(Price)
          BY <5>1, ShareNearest
        <5>3. Price - 0 = Price /\ worth - 0 = worth
          BY <1>6, <5>1
        <5> QED BY <5>1, <5>2, <5>3
      <4> QED BY <1>6, <2>2, <4>1, <4>2 DEF Worth
    <3> QED BY <3>1, <3>2
  <2> QED BY <2>1, <2>2
<1>20. Lives
  BY <1>13, <1>16, DriftLives DEF SeqInv, TypeOK
<1> QED BY <1>13, <1>14, <1>15, <1>17, <1>18, <1>19, <1>20 DEF SeqInv

\* A refund takes its share of the commission, to within one more rounding.
LEMMA WorthRefunded ==
  ASSUME NEW x \in Commission, NEW y \in Commission, NEW r, NEW s, NEW back \in Nat,
         NEW left \in Nat, NEW k \in Nat, r.refunded \in Nat,
         left = Price - r.refunded - back, s.refunded = r.refunded + back,
         s.status = "refunded" <=> left = 0,
         Worth(x, r, k), Refunded(x, y, back, left)
  PROVE  Worth(y, s, k + 1)
<1> DEFINE o == left + back
           c == Share(back)
           n == Share(left)
           h == Share(o)
<1>1. /\ x.amount \in Nat /\ x.clawed \in Nat /\ y.amount \in Nat /\ y.clawed \in Nat
      /\ Price - r.refunded = o /\ Price - s.refunded = left /\ o \in Nat
  BY LedgerAssumption DEF Commission
<1>2. /\ c \in Nat /\ 5 * c <= back + 2 /\ back - 2 <= 5 * c
      /\ n \in Nat /\ 5 * n <= left + 2 /\ left - 2 <= 5 * n
      /\ h \in Nat /\ 5 * h <= o + 2 /\ o - 2 <= 5 * h
  BY <1>1, ShareNearest
<1>3. c <= h /\ n <= h
  BY <1>1, ShareMonotone
<1> HIDE DEF c, n, h
<1> DEFINE Near(z, rest, j) ==
             /\ -(2 * (1 + j)) <= 5 * (z.amount - z.clawed) - rest
             /\ 5 * (z.amount - z.clawed) - rest <= 2 * (1 + j)
<1>4. /\ x.status = "pending" => x.clawed = 0
      /\ x.status \in {"pending", "vested", "paid"} =>
           \/ x.amount = 0 /\ x.clawed = 0
           \/ /\ h <= x.amount /\ Near(x, o, k)
              /\ x.status = "pending" => x.amount = h
  BY <1>1 DEF Worth, h
<1>5. SUFFICES /\ y.status = "pending" => y.clawed = 0 /\ left # 0
               /\ y.status \in {"pending", "vested", "paid"} =>
                    \/ y.amount = 0 /\ y.clawed = 0
                    \/ /\ n <= y.amount /\ Near(y, left, k + 1)
                       /\ y.status = "pending" => y.amount = n
  BY <1>1 DEF Worth, n
<1>6. CASE x.status \in {"none", "cancelled"} /\ y = x
  BY <1>6
<1>7. CASE /\ x.status = "pending" /\ y.status = "pending" /\ left > 0
           /\ y.amount = Earlier(n, x.amount) /\ y.clawed = x.clawed
  <2>1. CASE x.amount = 0
    BY <1>1, <1>2, <1>4, <1>7, <2>1 DEF Earlier
  <2>2. CASE x.amount # 0
    <3>1. x.clawed = 0 /\ y.amount = n /\ y.clawed = 0
      BY <1>1, <1>2, <1>3, <1>4, <1>7, <2>2 DEF Earlier
    <3>2. Near(y, left, k + 1)
      BY <1>2, <3>1
    <3> QED BY <1>1, <1>2, <1>7, <3>1, <3>2
  <2> QED BY <2>1, <2>2
<1>8. CASE x.status = "pending" /\ y.status = "cancelled"
  BY <1>8
<1>9. CASE /\ \/ x.status = "pending" /\ y.status = "vested"
              \/ x.status \in {"vested", "paid"} /\ y.status = x.status
           /\ y.amount = x.amount /\ y.clawed = x.clawed + Earlier(x.amount, c)
  <2>1. CASE x.amount = 0 /\ x.clawed = 0
    <3>1. y.amount = 0 /\ y.clawed = 0 /\ y.status # "pending"
      BY <1>1, <1>2, <1>9, <2>1 DEF Earlier
    <3> QED BY <3>1
  <2>2. CASE h <= x.amount /\ Near(x, o, k)
    <3>1. y.amount = x.amount /\ y.clawed = x.clawed + c /\ n <= y.amount
      BY <1>1, <1>2, <1>3, <1>9, <2>2 DEF Earlier
    <3>2. 5 * (y.amount - y.clawed) = 5 * (x.amount - x.clawed) - 5 * c
      BY <1>1, <1>2, <3>1
    <3>3. Near(y, left, k + 1)
      BY <1>1, <1>2, <2>2, <3>2
    <3> QED BY <1>9, <3>1, <3>3
  <2> QED BY <1>4, <1>9, <2>1, <2>2
<1> QED BY <1>6, <1>7, <1>8, <1>9 DEF Refunded, Clawed, n, c

\* A refund is saved, and the commission follows it.
LEMMA CommitCurrent ==
  ASSUME IInv, SeqInv, NEW w \in Workers, Commit(w)
  PROVE  SeqInv' /\ Lives
<1> DEFINE t == tx[w]
           row == t.row
           id == t.id
           p == row.payment
           m == Payer[p]
           table == [refund EXCEPT ![id] = Flushed(id, t.read, row)]
           back == t.pay.refunded - pay[p].refunded
           left == Price - t.pay.refunded
           c == Adjusted(Book(m), t.seen, Mine(m), p, back, left, now)
<1>1. /\ t \in Tx /\ t.op = "save" /\ Saves(t) /\ Proper(t) /\ Told(stripe, row)
  BY DEF Commit, SeqInv, TypeOK, IInv, HandlersSound, HandlerSound, HandlersCurrent, Current
<1>2. /\ p \in Payments /\ m \in Members /\ id \in RefundIds /\ row \in Refund
      /\ row.key \in Keys /\ pay[p] \in Payment /\ t.pay \in Payment
      /\ p \in Mine(m) /\ Mine(m) \in SUBSET Payments /\ pay[p].status # "pending"
      /\ t.pay.status # "pending" /\ Within(t.pay) /\ p # "none"
  BY <1>1, LedgerAssumption DEF Tx, Saves, Known, SeqInv, TypeOK, Mine
<1>3. /\ tx' = [tx EXCEPT ![w] = IdleTx]
      /\ \/ ~OneActive(table) /\ UNCHANGED <<refund, pay, ref, comm>>
         \/ /\ OneActive(table) /\ refund' = table /\ pay' = [pay EXCEPT ![p] = t.pay]
            /\ IF back = 0 THEN UNCHANGED <<ref, comm>> ELSE WriteBook(m, c)
      /\ UNCHANGED <<now, stripe, batch, payouts, used>>
  BY DEF Commit
<1>4. tx' \in [Workers -> Tx] /\ OneAtATime' /\ HandlersCurrent'
  BY <1>1, <1>3, EndsWork
<1>5. StripeOn /\ used' \in [Counters -> Nat] /\ now' \in Nat
  BY <1>3 DEF StripeOn, SeqInv, TypeOK, RefundsAddUp
<1>6. CASE UNCHANGED <<refund, pay, ref, comm>>
  BY <1>3, <1>4, <1>5, <1>6, TablesStay DEF Ledger, Lives, Life
<1>7. Flushed(id, t.read, row) = row
  <2>1. CASE t.read = NoRefund
    BY <2>1 DEF Flushed
  <2>2. CASE t.read # NoRefund
    <3> DEFINE r == refund[id]
    <3>1. /\ t.read = r /\ row.payment = r.payment /\ row.amount = r.amount
          /\ row.manual = r.manual /\ row.key = r.key /\ r \in Refund
      BY <1>1, <1>2, <2>2 DEF Proper, Stems, SeqInv, TypeOK
    <3>2. Flushed(id, t.read, row)
            = [r EXCEPT !.status = row.status, !.known = row.known, !.applied = row.applied]
      BY <2>2, <3>1 DEF Flushed, Net, Refund
    <3>3. row \in Refund
      BY <1>2
    <3> HIDE DEF r, row
    <3> DEFINE x == [r EXCEPT !.status = row.status, !.known = row.known, !.applied = row.applied]
    <3>4. /\ x \in Refund /\ x.payment = row.payment /\ x.amount = row.amount
          /\ x.status = row.status /\ x.manual = row.manual /\ x.key = row.key
          /\ x.known = row.known /\ x.applied = row.applied
      BY <3>1, <3>3 DEF Refund
    <3> HIDE DEF x
    <3>5. x = row
      BY <3>3, <3>4 DEF Refund
    <3> QED BY <3>2, <3>5 DEF x
  <2> QED BY <2>1, <2>2
<1>8. CASE /\ OneActive(table) /\ refund' = table /\ pay' = [pay EXCEPT ![p] = t.pay]
           /\ IF back = 0 THEN UNCHANGED <<ref, comm>> ELSE WriteBook(m, c)
  <2>1. /\ refund' = [refund EXCEPT ![id] = row] /\ OneActive(refund)'
        /\ refund \in [RefundIds -> Refund] /\ pay \in [Payments -> Payment]
    BY <1>7, <1>8 DEF OneActive, SeqInv, TypeOK
  <2>2. /\ refund' \in [RefundIds -> Refund] /\ refund'[id] = row
        /\ \A r \in RefundIds \ {id} : refund'[r] = refund[r]
        /\ pay' \in [Payments -> Payment] /\ pay'[p] = t.pay
        /\ \A q \in Payments \ {p} : pay'[q] = pay[q]
    BY <1>2, <1>8, <2>1
  <2> DEFINE n == IF row.applied THEN row.amount ELSE 0
  <2>3. /\ row.amount \in Nat /\ 0 < row.amount /\ row.amount <= Price - pay[p].refunded
        /\ pay[p].refunded \in Nat /\ Price \in Nat /\ row.applied \in BOOLEAN
    BY <1>1, <1>2, LedgerAssumption DEF Proper, Room, Refund, Payment
  <2>4. /\ n \in Nat /\ t.pay.refunded = pay[p].refunded + n /\ back = n
        /\ left \in Nat /\ left = Price - pay[p].refunded - n
        /\ row.applied => t.seen = comm[p]
        /\ ~row.applied => t.pay = pay[p]
    <3>1. CASE row.applied
      <4>1. t.pay = Repaid(pay[p], row.amount) /\ t.seen = comm[p]
        BY <1>1, <3>1 DEF Proper, Accounts
      <4>2. t.pay.refunded = pay[p].refunded + row.amount
        BY <1>2, <4>1 DEF Repaid, Payment
      <4> QED BY <2>3, <3>1, <4>1, <4>2
    <3>2. CASE ~row.applied
      <4>1. t.pay = pay[p]
        BY <1>1, <3>2 DEF Proper, Accounts
      <4> QED BY <2>3, <3>2, <4>1
    <3> QED BY <3>1, <3>2
  <2>5. /\ refund[id].payment \in {"none", p}
        /\ ~(refund[id].status = "confirmed" /\ refund[id].applied)
        /\ \A r \in RefundIds \ {id} :
             refund[r].payment = p => refund[r].status \notin Active \/ ~row.applied
    <3>1. CASE t.read = NoRefund
      BY <1>1, <3>1 DEF Proper, Stems, NoRefund
    <3>2. CASE t.read # NoRefund
      <4>1. refund[id].status \in Active /\ refund[id].payment = p
        BY <1>1, <3>2 DEF Proper, Stems
      <4>2. \A r \in RefundIds \ {id} : refund[r].payment = p => refund[r].status \notin Active
        BY <1>2, <4>1 DEF SeqInv, RefundsAddUp, OneActive
      <4> QED BY <4>1, <4>2 DEF Active
    <3> QED BY <3>1, <3>2
  <2> HIDE DEF t, id
  <2>6. \A q \in Payments : Confirmed(q)' = pay'[q].refunded
    <3> DEFINE g == Counts(refund)
               h == Counts(refund')
               P(q) == Of(q)'
    <3>1. /\ \A r \in RefundIds : g[r] \in Int /\ h[r] \in Int
          /\ \A r \in RefundIds \ {id} : h[r] = g[r]
          /\ g[id] = 0 /\ h[id] = n
      <4>1. row.status = "confirmed" <=> row.applied
        BY <1>1 DEF Proper, Paired
      <4>2. \A r \in RefundIds : refund[r].amount \in Nat /\ refund'[r].amount \in Nat
        BY <2>1, <2>2 DEF Refund
      <4> HIDE DEF row
      <4> QED BY <1>2, <2>2, <2>5, <4>1, <4>2 DEF Counts
    <3>2. \A q \in Payments :
            /\ Of(q) \in SUBSET RefundIds /\ P(q) \in SUBSET RefundIds
            /\ P(q) \ {id} = Of(q) \ {id}
            /\ q # p => id \notin P(q) /\ id \notin Of(q)
            /\ q = p => id \in P(q)
      BY <1>2, <2>2, <2>5, LedgerAssumption DEF Of
    <3>3. IsFiniteSet(RefundIds)
      BY LedgerAssumption, FS_Interval DEF RefundIds
    <3> HIDE DEF g, h, P, n
    <3>4. ASSUME NEW q \in Payments PROVE Total(h, P(q)) = pay'[q].refunded
      <4>1. IsFiniteSet(P(q)) /\ IsFiniteSet(Of(q)) /\ IsFiniteSet(P(q) \ {id})
        BY <3>2, <3>3, FS_Subset
      <4>2. Total(g, Of(q)) = pay[q].refunded
        BY ConfirmedTotal DEF SeqInv, RefundsAddUp, g
      <4>3. Total(h, P(q) \ {id}) = Total(g, Of(q) \ {id})
        <5>1. \A x \in P(q) \ {id} : h[x] = g[x]
          BY <3>1, <3>2
        <5>2. Total(h, P(q) \ {id}) = Total(g, P(q) \ {id})
          BY <5>1, TotalSame
        <5> QED BY <3>2, <5>2
      <4>4. Total(g, Of(q)) = Total(g, Of(q) \ {id})
        <5>1. CASE id \in Of(q)
          <6>1. \A x \in Of(q) : g[x] \in Int
            BY <3>1, <3>2
          <6>2. Total(g, Of(q)) = g[id] + Total(g, Of(q) \ {id})
            BY <4>1, <5>1, <6>1, TotalSplit
          <6>3. Total(g, Of(q) \ {id}) \in Int
            <7>1. IsFiniteSet(Of(q) \ {id}) /\ \A x \in Of(q) \ {id} : g[x] \in Int
              BY <4>1, <6>1, FS_Subset
            <7> QED BY <7>1, TotalType
          <6> QED BY <3>1, <6>2, <6>3
        <5>2. CASE id \notin Of(q)
          <6>1. Of(q) \ {id} = Of(q)
            BY <5>2
          <6> QED BY <6>1
        <5> QED BY <5>1, <5>2
      <4>5. CASE q # p
        <5>1. P(q) \ {id} = P(q)
          BY <3>2, <4>5
        <5> QED BY <2>2, <4>2, <4>3, <4>4, <4>5, <5>1
      <4>6. CASE q = p
        <5>1. id \in P(q) /\ \A x \in P(q) : h[x] \in Int
          BY <3>1, <3>2, <4>6
        <5>2. Total(h, P(q)) = h[id] + Total(h, P(q) \ {id})
          BY <4>1, <5>1, TotalSplit
        <5>3. pay'[q].refunded = pay[q].refunded + n
          BY <2>2, <2>4, <4>6
        <5>4. Total(h, P(q) \ {id}) = pay[q].refunded
          BY <4>2, <4>3, <4>4
        <5>5. Total(h, P(q)) = n + pay[q].refunded
          BY <3>1, <5>2, <5>4
        <5> QED BY <2>3, <2>4, <4>6, <5>3, <5>5
      <4> QED BY <4>5, <4>6
    <3> QED BY <3>4, ConfirmedTotalNext DEF h, P
  <2>7. ASSUME NEW r \in RefundIds PROVE OnRecord(refund[r])'
    <3>1. stripe' = stripe
      BY <1>3
    <3>2. CASE r = id
      <4>1. /\ row.payment # "none" /\ row.status # "none" /\ Paired(row) /\ Room(row)
        BY <1>1, <1>2 DEF Proper, Active
      <4>2. row.status \in Active => pay' [p].refunded = pay[p].refunded
        BY <1>1, <2>2, <2>3, <2>4 DEF Proper, Paired, Active
      <4> HIDE DEF row
      <4> QED BY <1>1, <2>2, <3>1, <3>2, <4>1, <4>2 DEF OnRecord, Room, Told, p
    <3>3. CASE r # id
      <4>1. refund'[r] = refund[r] /\ OnRecord(refund[r])
            /\ (refund[r].payment # "none" => refund[r].payment \in Payments)
        BY <2>2, <3>3 DEF SeqInv, RefundsAddUp, IInv, RefundsKnown, Known
      <4>2. refund[r].status \in Active /\ refund[r].payment \in Payments
              => pay'[refund[r].payment].refunded = pay[refund[r].payment].refunded
        BY <2>2, <2>3, <2>4, <2>5, <3>3
      <4> HIDE DEF row
      <4> QED BY <3>1, <4>1, <4>2 DEF OnRecord, Room, Told
    <3> QED BY <3>2, <3>3
  <2>8. \A q \in Payments : pay'[q].status = "pending" => pay'[q].refunded = 0
    BY <1>2, <2>2 DEF SeqInv, RefundsAddUp
  <2>9. RefundsAddUp'
    <3>1. \A k \in Keys : stripe'[k].first = "failed" => stripe'[k].status = "failed"
      BY <1>5 DEF StripeOn
    <3> QED BY <2>1, <2>6, <2>7, <2>8, <3>1 DEF RefundsAddUp
  <2>10. /\ ref' \in [Members -> Referral] /\ comm' \in [Payments -> Commission] /\ Streaks'
         /\ \A q \in Payments \ {p} : comm'[q] = comm[q] \/ Left(comm[q], comm'[q])
         /\ IF n = 0 THEN comm'[p] = comm[p] ELSE Refunded(comm[p], comm'[p], n, left)
    <3>1. CASE n = 0
      <4>1. UNCHANGED <<ref, comm>>
        BY <1>8, <2>4, <3>1
      <4>2. Streaks'
        BY <4>1 DEF SeqInv, Streaks, Book, Mine
      <4> QED BY <3>1, <4>1, <4>2 DEF SeqInv, TypeOK
    <3>2. CASE n # 0
      <4> DEFINE b == Book(m)
                 mine == Mine(m)
                 seen == t.seen
                 d == Adjusted(b, seen, mine, p, back, left, now)
      <4>1. /\ Streak(b, mine) /\ p \in mine /\ mine \in SUBSET Payments /\ b.comm = comm
            /\ seen = comm[p] /\ back = n
        BY <1>2, <2>4, <3>2 DEF SeqInv, Streaks, Book
      <4>2. d = c /\ mine = Mine(m)
        OBVIOUS
      <4> HIDE DEF b, mine, seen, c, back, left, n
      <4>3. /\ Streak(d, mine)
            /\ SettlesBut(b, d, mine, p)
            /\ Refunded(b.comm[p], d.comm[p], back, left)
        <5>1. back \in Nat /\ left \in Nat
          BY <2>4
        <5>2. seen = b.comm[p]
          BY <4>1
        <5>3. Streak(b, mine) /\ p \in mine /\ mine \in SUBSET Payments
          BY <4>1
        <5> HIDE DEF p, m
        <5> QED BY <5>1, <5>2, <5>3, AdjustedSettles
      <4>4. WriteBook(m, d)
        BY <1>8, <2>4, <3>2, <4>2
      <4> HIDE DEF d
      <4>5. \A q \in Payments \ Mine(m) : d.comm[q] = comm[q]
        BY <1>2, <4>1, <4>2, <4>3 DEF SettlesBut
      <4>6. /\ ref' \in [Members -> Referral] /\ comm' \in [Payments -> Commission]
            /\ Streaks' /\ comm' = d.comm
        BY <1>2, <4>2, <4>3, <4>4, <4>5, WriteStreaks
      <4> QED BY <3>2, <4>1, <4>3, <4>6 DEF SettlesBut
    <3> QED BY <3>1, <3>2
  <2>16. \A q \in Payments :
            /\ Applications(q) \in Nat
            /\ Applications(q)' = IF q = p /\ n # 0 THEN Applications(q) + 1
                                  ELSE Applications(q)
    <3> SUFFICES ASSUME NEW q \in Payments
                 PROVE  Applications(q)' = IF q = p /\ n # 0 THEN Applications(q) + 1
                                           ELSE Applications(q)
      BY ApplicationsCounted
    <3>1. /\ ~refund[id].applied /\ q # "none" /\ (n # 0 <=> row.applied)
      BY <1>2, <2>3, <2>5, LedgerAssumption
         DEF SeqInv, RefundsAddUp, OnRecord, Paired, NoRefund
    <3>2. AppliedTo(q)' = IF q = p /\ n # 0 THEN AppliedTo(q) \cup {id} ELSE AppliedTo(q)
      <4> HIDE DEF n, row
      <4> QED BY <1>2, <2>2, <2>5, <3>1 DEF AppliedTo, Of, p
    <3>3. id \notin AppliedTo(q)
      BY <3>1 DEF AppliedTo
    <3>4. IsFiniteSet(AppliedTo(q))
      <4>1. IsFiniteSet(RefundIds) /\ AppliedTo(q) \in SUBSET RefundIds
        BY LedgerAssumption, FS_Interval DEF RefundIds, AppliedTo, Of
      <4> QED BY <4>1, FS_Subset
    <3> QED BY <3>2, <3>3, <3>4, FS_AddElement DEF Applications
  <2> HIDE DEF n, left, back, c
  <2>11. \A q \in Payments : Drift(comm[q], comm'[q])
    <3>1. \A q \in Payments : comm[q] \in Commission /\ comm'[q] \in Commission
      BY <2>10 DEF SeqInv, TypeOK
    <3>2. \A q \in Payments \ {p} : Drift(comm[q], comm'[q])
      BY <2>10, <3>1, LeftDrifts
    <3>3. Drift(comm[p], comm'[p])
      <4>1. CASE n = 0
        BY <1>2, <2>10, <3>1, <4>1, LeftDrifts
      <4>2. CASE n # 0
        <5> HIDE DEF p
        <5> QED BY <1>2, <2>4, <2>10, <3>1, <4>2, RefundDrifts
      <4> QED BY <4>1, <4>2
    <3> QED BY <3>2, <3>3
  <2>12. Rows' /\ Words'
    BY <1>3, <2>11, DriftKeeps
  <2>13. Shares'
    <3> SUFFICES ASSUME NEW q \in Payments
                 PROVE  Worth(comm'[q], pay'[q], Applications(q)')
      BY DEF Shares
    <3> DEFINE k == Applications(q)
    <3>0. k \in Nat /\ Applications(q)' = IF q = p /\ n # 0 THEN k + 1 ELSE k
      BY <2>16
    <3>1. Worth(comm[q], pay[q], k)
      BY DEF SeqInv, Shares
    <3> HIDE DEF k
    <3>2. CASE q # p
      BY <2>2, <2>10, <3>0, <3>1, <3>2, WorthKept
    <3>3. CASE q = p
      <4>1. /\ pay'[p].refunded = pay[p].refunded + n
            /\ pay'[p].status = "refunded" <=> left = 0
        BY <1>2, <2>2, <2>3, <2>4 DEF Within
      <4>3. CASE n = 0
        <5>1. pay'[p].refunded = pay[p].refunded
          BY <2>3, <4>1, <4>3
        <5>2. pay'[p].status = "refunded" <=> pay[p].status = "refunded"
          BY <1>2, <2>2, <2>3, <4>1, <5>1 DEF IInv, NeverOverRefunded, Within
        <5> QED BY <2>10, <3>0, <3>1, <3>3, <4>3, <5>1, <5>2, WorthKept
      <4>4. CASE n # 0
        <5>1. comm[p] \in Commission /\ comm'[p] \in Commission
          BY <1>2, <2>10 DEF SeqInv, TypeOK
        <5>2. Refunded(comm[p], comm'[p], n, left)
          BY <2>10, <4>4
        <5>3. Applications(q)' = k + 1 /\ n \in Nat /\ k \in Nat
          BY <2>4, <3>0, <3>3, <4>4
        <5> HIDE DEF p
        <5>4. Worth(comm[p], pay[p], k) /\ pay[p].refunded \in Nat
          BY <2>3, <3>1, <3>3
        <5>5. Worth(comm'[p], pay'[p], k + 1)
          BY <2>3, <2>4, <4>1, <5>1, <5>2, <5>3, <5>4, WorthRefunded
        <5> QED BY <3>3, <5>3, <5>5
      <4> QED BY <4>3, <4>4
    <3> QED BY <3>2, <3>3
  <2>14. TypeOK'
    BY <1>3, <1>4, <1>5, <2>2, <2>10 DEF SeqInv, TypeOK
  <2>15. Lives
    BY <2>10, <2>11, DriftLives DEF SeqInv, TypeOK
  <2> QED BY <1>4, <2>9, <2>10, <2>12, <2>13, <2>14, <2>15 DEF SeqInv
<1> QED BY <1>3, <1>6, <1>8

\* A due invitee's rows settle together; the new batch takes the earned rows
\* whose partner reached the threshold.
LEMMA SettledBooks ==
  ASSUME IInv, SeqInv, NEW w \in Workers, tx[w].op = "batch"
  PROVE  LET book(m) == VestDue(Book(m), Mine(m), tx[w].due, now)
         IN  \A m \in Members :
               /\ Streak(book(m), Mine(m))
               /\ Settles(Book(m), book(m), Mine(m))
<1> DEFINE due == tx[w].due
<1>1. due = {p \in Pending(comm, Payments) : comm[p].vests <= now} /\ now \in Nat
  BY DEF SeqInv, HandlersCurrent, Current, TypeOK
<1> HIDE DEF due
<1>2. ASSUME NEW m \in Members
      PROVE  /\ Streak(VestDue(Book(m), Mine(m), due, now), Mine(m))
             /\ Settles(Book(m), VestDue(Book(m), Mine(m), due, now), Mine(m))
  <2> DEFINE b == Book(m)
             mine == Mine(m)
  <2>1. Streak(b, mine) /\ mine \in SUBSET Payments /\ b.comm = comm
    BY DEF SeqInv, Streaks, Mine, Book
  <2>2. due = {p \in Pending(b.comm, Payments) : b.comm[p].vests <= now}
    BY <1>1, <2>1
  <2> HIDE DEF b, mine
  <2>3. Streak(VestDue(b, mine, due, now), mine) /\ Settles(b, VestDue(b, mine, due, now), mine)
    BY <1>1, <2>1, <2>2, DueSettles
  <2> QED BY <2>3 DEF b, mine
<1> QED BY <1>2 DEF due

\* Both transitions of a batch's rows leave the other batches their word.
LEMMA OtherWords ==
  ASSUME SeqInv, NEW b \in BatchIds,
         \A c \in BatchIds \ {b} : batch'[c] = batch[c],
         \A p \in Payments : /\ comm'[p].amount = comm[p].amount
                             /\ comm'[p].batch \in {comm[p].batch, 0, b}
                             /\ comm'[p].batch # comm[p].batch =>
                                  comm[p].batch \in {0, b}
  PROVE  \A c \in BatchIds \ {b} : Word(c)'
<1> SUFFICES ASSUME NEW c \in BatchIds \ {b}, batch[c].status \in {"draft", "sent", "paid"}
             PROVE  Word(c)'
  BY DEF Word
<1>1. Word(c) /\ c # 0 /\ batch'[c] = batch[c]
  BY RulesAssumption DEF SeqInv, Words
<1>2. \A p \in Payments : comm'[p].batch = c <=> comm[p].batch = c
  BY <1>1
<1> QED BY <1>1, <1>2, WordKept

\* Streaks do not look at what a batch changes.
LEMMA StreaksSame ==
  ASSUME SeqInv, UNCHANGED ref, comm' \in [Payments -> Commission],
         \A p \in Payments : comm'[p].status = "pending" => comm'[p] = comm[p]
  PROVE  Streaks'
<1> SUFFICES ASSUME NEW m \in Members PROVE Streak(Book(m), Mine(m))'
  BY DEF Streaks
<1> DEFINE d == [ref |-> ref'[m], comm |-> comm']
<1>1. d \in LedgerBooks /\ d.ref = ref[m] /\ d.comm = comm'
  BY DEF LedgerBooks, SeqInv, TypeOK
<1>2. Book(m)' = d /\ Mine(m)' = Mine(m)
  BY DEF Book, Mine
<1>3. Streak(Book(m), Mine(m)) /\ Book(m).ref = ref[m] /\ Book(m).comm = comm
      /\ Mine(m) \in SUBSET Payments
  BY DEF SeqInv, Streaks, Book, Mine
<1> HIDE DEF d
<1>4. \A q \in Mine(m) : Waits(d, q)
  BY <1>1, <1>3 DEF Streak, Waits
<1>5. Streak(d, Mine(m))
  BY <1>1, <1>3, <1>4 DEF Streak
<1> QED BY <1>2, <1>5

\* An administrator's transition of batch b.
LEMMA TransitionCurrent ==
  ASSUME IInv, SeqInv, ~Overlap, MayRun, NEW b \in BatchIds,
         batch[b].status \in {"draft", "sent"},
         NEW s \in {"sent", "paid", "cancelled"},
         batch' = [batch EXCEPT ![b].status = s],
         comm' \in [Payments -> Commission],
         \A p \in Payments :
           IF comm[p].batch # b \/ s = "sent" THEN comm'[p] = comm[p]
           ELSE /\ comm'[p].amount = comm[p].amount /\ comm'[p].clawed = comm[p].clawed
                /\ comm'[p].status = IF s = "paid" THEN "paid" ELSE comm[p].status
                /\ comm'[p].batch = IF s = "cancelled" THEN 0 ELSE b,
         payouts' \in [Payments -> Nat],
         UNCHANGED <<now, pay, refund, stripe, ref, tx, used>>
  PROVE  SeqInv'
<1>1. Quiet /\ b # 0 /\ batch \in [BatchIds -> Batch] /\ comm \in [Payments -> Commission]
  BY RulesAssumption DEF MayRun, SeqInv, TypeOK
<1>2. /\ batch' \in [BatchIds -> Batch] /\ batch'[b].status = s
      /\ batch'[b].total = batch[b].total
      /\ \A c \in BatchIds \ {b} : batch'[c] = batch[c]
  <2> DEFINE row == [batch[b] EXCEPT !.status = s]
  <2>1. row \in Batch /\ row.status = s /\ row.total = batch[b].total
    BY <1>1 DEF Batch
  <2>2. batch' = [batch EXCEPT ![b] = row]
    BY <1>1
  <2> HIDE DEF row
  <2> QED BY <1>1, <2>1, <2>2
<1>3. TypeOK'
  BY <1>2 DEF SeqInv, TypeOK
<1>4. tx' \in [Workers -> Tx] /\ OneAtATime' /\ HandlersCurrent'
  BY <1>1, NobodyWorks
<1>5. \A p \in Payments : comm[p].batch = b => comm[p].status = "vested"
  BY <1>1 DEF SeqInv, Rows
<1>6. Streaks'
  BY <1>5, StreaksSame
<1>7. Rows'
  <2> SUFFICES ASSUME NEW p \in Payments
               PROVE  /\ comm'[p].status = "none" => comm'[p] = NoCommission
                      /\ comm'[p].batch # 0 =>
                          \/ comm'[p].status = "vested"
                               /\ batch'[comm'[p].batch].status \in {"draft", "sent"}
                          \/ comm'[p].status = "paid"
                               /\ batch'[comm'[p].batch].status = "paid"
    BY DEF Rows
  <2>1. /\ comm[p].status = "none" => comm[p] = NoCommission
        /\ comm[p].batch # 0 =>
             \/ comm[p].status = "vested" /\ batch[comm[p].batch].status \in {"draft", "sent"}
             \/ comm[p].status = "paid" /\ batch[comm[p].batch].status = "paid"
        /\ comm[p].batch \in BatchIds \cup {0}
    BY <1>1 DEF SeqInv, Rows, Commission
  <2>2. CASE comm[p].batch # b
    <3>1. comm'[p] = comm[p]
      BY <2>2
    <3>2. comm[p].batch # 0 => batch'[comm[p].batch] = batch[comm[p].batch]
      BY <1>2, <2>1, <2>2
    <3> QED BY <2>1, <3>1, <3>2
  <2>3. CASE comm[p].batch = b
    <3>1. comm[p].status = "vested"
      BY <1>5, <2>3
    <3>2. CASE s = "sent"
      BY <1>1, <1>2, <2>3, <3>1, <3>2
    <3>3. CASE s # "sent"
      BY <1>1, <1>2, <2>3, <3>1, <3>3
    <3> QED BY <3>2, <3>3
  <2> QED BY <2>2, <2>3
<1>8. Words'
  <2>1. \A c \in BatchIds \ {b} : Word(c)'
    BY <1>2, OtherWords
  <2>2. Word(b)'
    <3>1. CASE s = "cancelled"
      BY <1>2, <3>1 DEF Word
    <3>2. CASE s # "cancelled"
      <4>1. \A p \in Payments : /\ comm'[p].batch = b <=> comm[p].batch = b
                                /\ comm[p].batch = b => comm'[p].amount = comm[p].amount
        BY <3>2
      <4>2. Word(b)
        BY DEF SeqInv, Words
      <4> QED BY <1>2, <4>1, <4>2, WordKept
    <3> QED BY <3>1, <3>2
  <2> QED BY <2>1, <2>2 DEF Words
<1>9. RefundsAddUp'
  BY RefundsKeep
<1>10. Shares'
  <2> SUFFICES ASSUME NEW p \in Payments, NEW k, k = Applications(p)
               PROVE  Worth(comm'[p], pay'[p], k)
    BY <1>1 DEF Shares, Applications, AppliedTo, Of
  <2>1. Worth(comm[p], pay[p], k) /\ pay' = pay
    BY DEF SeqInv, Shares
  <2>2. CASE comm[p].batch # b \/ s = "sent"
    BY <2>1, <2>2
  <2>3. CASE ~(comm[p].batch # b \/ s = "sent")
    <3>1. comm[p].status = "vested" /\ comm'[p].status \in {"vested", "paid"}
          /\ comm'[p].amount = comm[p].amount /\ comm'[p].clawed = comm[p].clawed
      BY <1>5, <2>3
    <3> QED BY <2>1, <3>1 DEF Worth
  <2> QED BY <2>2, <2>3
<1> QED BY <1>3, <1>4, <1>6, <1>7, <1>8, <1>9, <1>10 DEF SeqInv

\* A batch is sent, paid or cancelled.
LEMMA PayOutCurrent ==
  ASSUME IInv, SeqInv, ~Overlap, NEW b \in BatchIds,
         MarkSent(b) \/ MarkPaid(b) \/ CancelBatch(b)
  PROVE  SeqInv'
<1>1. /\ comm \in [Payments -> Commission] /\ b # 0 /\ b \in BatchIds
      /\ payouts \in [Payments -> Nat]
  BY RulesAssumption DEF SeqInv, TypeOK
<1>2. CASE MarkSent(b)
  <2>1. \A p \in Payments : comm'[p] = comm[p]
    BY <1>2 DEF MarkSent
  <2> QED BY <1>1, <1>2, <2>1, TransitionCurrent DEF MarkSent
<1>3. CASE MarkPaid(b)
  <2>1. /\ batch[b].status \in {"draft", "sent"} /\ MayRun
        /\ batch' = [batch EXCEPT ![b].status = "paid"]
        /\ comm' = Mark(comm, InBatch(b), "paid")
        /\ payouts' = [p \in Payments |-> payouts[p] + IF p \in InBatch(b) THEN 1 ELSE 0]
        /\ UNCHANGED <<now, pay, refund, stripe, ref, tx, used>>
    BY <1>3 DEF MarkPaid
  <2>2. \A p \in Payments :
          /\ [comm[p] EXCEPT !.status = "paid"] \in Commission
          /\ [comm[p] EXCEPT !.status = "paid"].status = "paid"
          /\ [comm[p] EXCEPT !.status = "paid"].amount = comm[p].amount
          /\ [comm[p] EXCEPT !.status = "paid"].clawed = comm[p].clawed
          /\ [comm[p] EXCEPT !.status = "paid"].batch = comm[p].batch
    BY <1>1 DEF Commission
  <2>3. comm' = [p \in Payments |-> IF comm[p].batch = b
                                    THEN [comm[p] EXCEPT !.status = "paid"] ELSE comm[p]]
    BY <1>1, <2>1 DEF Mark, InBatch
  <2>4. /\ comm' \in [Payments -> Commission]
        /\ \A p \in Payments :
             IF comm[p].batch # b THEN comm'[p] = comm[p]
             ELSE /\ comm'[p].amount = comm[p].amount /\ comm'[p].clawed = comm[p].clawed
                  /\ comm'[p].status = "paid" /\ comm'[p].batch = b
    BY <1>1, <2>2, <2>3
  <2>5. payouts' \in [Payments -> Nat]
    BY <1>1, <2>1
  <2> QED BY <2>1, <2>4, <2>5, TransitionCurrent
<1>4. CASE CancelBatch(b)
  <2>1. /\ batch[b].status \in {"draft", "sent"} /\ MayRun
        /\ batch' = [batch EXCEPT ![b].status = "cancelled"]
        /\ comm' = [p \in Payments |->
                      IF p \in InBatch(b) /\ comm[p].status # "paid"
                      THEN [comm[p] EXCEPT !.batch = 0] ELSE comm[p]]
        /\ UNCHANGED <<now, pay, refund, stripe, ref, payouts, tx, used>>
    BY <1>4 DEF CancelBatch
  <2>2. \A p \in Payments :
          /\ [comm[p] EXCEPT !.batch = 0] \in Commission
          /\ [comm[p] EXCEPT !.batch = 0].status = comm[p].status
          /\ [comm[p] EXCEPT !.batch = 0].amount = comm[p].amount
          /\ [comm[p] EXCEPT !.batch = 0].clawed = comm[p].clawed
          /\ [comm[p] EXCEPT !.batch = 0].batch = 0
    BY <1>1 DEF Commission
  <2>3. \A p \in Payments : comm[p].batch = b => comm[p].status # "paid"
    BY <1>1, <2>1 DEF SeqInv, Rows
  <2>4. comm' = [p \in Payments |-> IF comm[p].batch = b
                                    THEN [comm[p] EXCEPT !.batch = 0] ELSE comm[p]]
    BY <2>1, <2>3 DEF InBatch
  <2>5. /\ comm' \in [Payments -> Commission]
        /\ \A p \in Payments :
             IF comm[p].batch # b THEN comm'[p] = comm[p]
             ELSE /\ comm'[p].amount = comm[p].amount /\ comm'[p].clawed = comm[p].clawed
                  /\ comm'[p].status = comm[p].status /\ comm'[p].batch = 0
    BY <1>1, <2>2, <2>4
  <2>6. payouts' \in [Payments -> Nat]
    BY <1>1, <2>1
  <2>7. "cancelled" \in {"sent", "paid", "cancelled"} /\ "cancelled" # "sent"
        /\ "cancelled" # "paid"
    OBVIOUS
  <2>8. \A p \in Payments :
          IF comm[p].batch # b \/ "cancelled" = "sent" THEN comm'[p] = comm[p]
          ELSE /\ comm'[p].amount = comm[p].amount /\ comm'[p].clawed = comm[p].clawed
               /\ comm'[p].status = IF "cancelled" = "paid" THEN "paid" ELSE comm[p].status
               /\ comm'[p].batch = IF "cancelled" = "cancelled" THEN 0 ELSE b
    BY <2>5
  <2> QED BY <2>1, <2>5, <2>6, <2>7, <2>8, TransitionCurrent
<1> QED BY <1>2, <1>3, <1>4

\* A sum of amounts is a number.
LEMMA AmountType ==
  ASSUME NEW P \in SUBSET Payments, NEW c \in [Payments -> Commission]
  PROVE  Amount(c, P) \in Nat
<1> DEFINE a == [p \in P |-> c[p].amount]
<1>1. IsFiniteSet(P)
  BY RulesAssumption, FS_Subset
<1>2. (\A p \in P : a[p] \in Nat) /\ (\A p \in P : a[p] \in Int)
  BY DEF Commission
<1> HIDE DEF a
<1>3. Total(a, P) \in Nat
  BY <1>1, <1>2, TotalType
<1> QED BY <1>3, AmountTotal DEF a

\* The rows taken are all their partners' earned rows in no batch.
LEMMA EligibleRows ==
  ASSUME NEW c
  PROVE  /\ Eligible(c) \in SUBSET Payments
         /\ \A p \in Eligible(c) :
              /\ c[p].status = "vested" /\ c[p].batch = 0
              /\ Amount(c, OfPartner(Partner[p], Eligible(c))) >= Threshold
<1> DEFINE pool == {p \in Payments : c[p].status = "vested" /\ c[p].batch = 0}
           rows == {p \in pool : Amount(c, OfPartner(Partner[p], pool)) >= Threshold}
<1>1. rows = Eligible(c) /\ pool \in SUBSET Payments
  BY DEF Eligible
<1>2. \A p \in rows : OfPartner(Partner[p], rows) = OfPartner(Partner[p], pool)
  <2> SUFFICES ASSUME NEW p \in rows, NEW q \in pool, Partner[q] = Partner[p]
               PROVE  q \in rows
    BY DEF OfPartner
  <2> QED OBVIOUS
<1>3. \A p \in rows : Amount(c, OfPartner(Partner[p], rows)) >= Threshold
  BY <1>2
<1>4. \A p \in rows : p \in Payments /\ c[p].status = "vested" /\ c[p].batch = 0
  OBVIOUS
<1> HIDE DEF rows
<1> QED BY <1>1, <1>3, <1>4

\* A batch is made of the due and the earned rows.
LEMMA CommitBatchCurrent ==
  ASSUME IInv, SeqInv, NEW w \in Workers, CommitBatch(w)
  PROVE  SeqInv' /\ Lives
<1> DEFINE book(m) == VestDue(Book(m), Mine(m), tx[w].due, now)
           settled == [p \in Payments |-> book(Payer[p]).comm[p]]
           rows == Eligible(settled)
           id == CHOOSE b \in FreeBatches : \A c \in FreeBatches : b <= c
           total == Amount(settled, rows)
<1>1. /\ tx[w].op = "batch" /\ tx' = [tx EXCEPT ![w] = IdleTx]
      /\ \/ UNCHANGED <<ref, comm, batch>>
         \/ /\ FreeBatches # {}
            /\ ref' = [m \in Members |-> book(m).ref]
            /\ comm' = [p \in Payments |->
                          IF p \in rows THEN [settled[p] EXCEPT !.batch = id]
                          ELSE settled[p]]
            /\ batch' = [batch EXCEPT ![id] = [status |-> "draft", total |-> total]]
      /\ UNCHANGED <<now, pay, refund, stripe, payouts, used>>
  BY DEF CommitBatch
<1>2. tx' \in [Workers -> Tx] /\ OneAtATime' /\ HandlersCurrent'
  BY <1>1, EndsWork
<1>3. StripeOn /\ used' \in [Counters -> Nat] /\ now' \in Nat
  BY <1>1 DEF StripeOn, SeqInv, TypeOK, RefundsAddUp
<1>4. CASE UNCHANGED <<ref, comm, batch>>
  BY <1>1, <1>2, <1>3, <1>4, TablesStay DEF Ledger, Lives, Life
<1>5. CASE /\ FreeBatches # {}
           /\ ref' = [m \in Members |-> book(m).ref]
           /\ comm' = [p \in Payments |->
                         IF p \in rows THEN [settled[p] EXCEPT !.batch = id]
                         ELSE settled[p]]
           /\ batch' = [batch EXCEPT ![id] = [status |-> "draft", total |-> total]]
  <2>1. id \in BatchIds /\ batch[id].status = "none" /\ id # 0
    <3>1. FreeBatches \in SUBSET Nat /\ FreeBatches # {}
      BY <1>5, RulesAssumption DEF FreeBatches
    <3>2. \E b \in FreeBatches : \A c \in FreeBatches : b <= c
      BY <3>1, LeastNumber
    <3>3. id \in FreeBatches
      BY <3>2
    <3> HIDE DEF id
    <3> QED BY <3>3, RulesAssumption DEF FreeBatches
  <2>2. \A m \in Members : /\ book(m) \in LedgerBooks
                           /\ Streak(book(m), Mine(m))
                           /\ Settles(Book(m), book(m), Mine(m))
    <3>1. \A m \in Members : Streak(book(m), Mine(m)) /\ Settles(Book(m), book(m), Mine(m))
      BY <1>1, SettledBooks
    <3> HIDE DEF book
    <3> QED BY <3>1 DEF Streak
  <2> HIDE DEF book
  <2>3. ASSUME NEW p \in Payments
        PROVE  /\ settled[p] \in Commission
               /\ settled[p] = comm[p] \/ Left(comm[p], settled[p])
               /\ settled[p] = book(Payer[p]).comm[p]
    <3>1. Payer[p] \in Members /\ settled[p] = book(Payer[p]).comm[p]
      BY LedgerAssumption
    <3>2. /\ book(Payer[p]) \in LedgerBooks
          /\ Settles(Book(Payer[p]), book(Payer[p]), Mine(Payer[p]))
          /\ Book(Payer[p]).comm = comm
      BY <2>2, <3>1 DEF Book
    <3> HIDE DEF settled
    <3> QED BY <3>1, <3>2 DEF Settles, LedgerBooks
  <2>4. /\ rows \in SUBSET Payments
        /\ \A p \in rows :
             /\ settled[p].status = "vested" /\ settled[p].batch = 0
             /\ Amount(settled, OfPartner(Partner[p], rows)) >= Threshold
    <3> HIDE DEF settled
    <3> QED BY EligibleRows
  <2>5. settled \in [Payments -> Commission]
    BY <2>3
  <2> HIDE DEF settled, rows, id
  <2>6. total \in Nat
    BY <2>4, <2>5, AmountType
  <2> DEFINE new == [status |-> "draft", total |-> total]
  <2>7. new \in Batch /\ new.status = "draft" /\ new.total = total
    BY <2>6 DEF Batch
  <2> HIDE DEF new, total
  <2>8. /\ batch' \in [BatchIds -> Batch] /\ batch'[id] = new
        /\ \A c \in BatchIds \ {id} : batch'[c] = batch[c]
    BY <1>5, <2>1, <2>7 DEF new, SeqInv, TypeOK
  <2>9. \A p \in Payments :
          LET y == [settled[p] EXCEPT !.batch = id]
          IN  /\ y \in Commission /\ y.batch = id /\ y.status = settled[p].status
              /\ y.amount = settled[p].amount /\ y.clawed = settled[p].clawed
    BY <2>1, <2>5 DEF Commission
  <2>10. /\ comm' \in [Payments -> Commission]
         /\ \A p \in Payments \ rows : comm'[p] = settled[p]
         /\ \A p \in rows : /\ comm'[p].batch = id /\ comm'[p].status = "vested"
                            /\ comm'[p].amount = settled[p].amount
                            /\ comm'[p].clawed = settled[p].clawed
    BY <1>5, <2>4, <2>5, <2>9
  <2>11. ref' \in [Members -> Referral] /\ \A m \in Members : ref'[m] = book(m).ref
    BY <1>5, <2>2 DEF LedgerBooks
  <2>12. Streaks'
    <3> SUFFICES ASSUME NEW m \in Members PROVE Streak(Book(m), Mine(m))'
      BY DEF Streaks
    <3> DEFINE d == [ref |-> ref'[m], comm |-> comm']
    <3>1. d \in LedgerBooks /\ d.ref = book(m).ref /\ d.comm = comm'
      BY <2>10, <2>11 DEF LedgerBooks
    <3>2. Book(m)' = d /\ Mine(m)' = Mine(m)
      BY DEF Book, Mine
    <3> HIDE DEF d
    <3>3. ASSUME NEW q \in Mine(m), comm'[q].status = "pending"
          PROVE  comm'[q] = book(m).comm[q]
      <4>1. q \in Payments \ rows /\ Payer[q] = m
        BY <2>10, <3>3 DEF Mine
      <4> QED BY <2>3, <2>10, <4>1
    <3>4. \A q \in Mine(m) : Waits(book(m), q)
      BY <2>2 DEF Streak
    <3>5. \A q \in Mine(m) : Waits(d, q)
      BY <3>1, <3>3, <3>4 DEF Waits
    <3>6. Streak(d, Mine(m))
      BY <2>2, <3>1, <3>5 DEF Streak
    <3> QED BY <3>2, <3>6
  <2>13. \A p \in Payments :
           /\ comm[p].status = "none" => comm[p] = NoCommission
           /\ comm[p].batch # 0 =>
                /\ \/ comm[p].status = "vested" /\ batch[comm[p].batch].status \in {"draft", "sent"}
                   \/ comm[p].status = "paid" /\ batch[comm[p].batch].status = "paid"
                /\ comm[p].batch \in BatchIds \ {id}
                /\ settled[p] = comm[p]
           /\ settled[p].batch = comm[p].batch /\ settled[p].amount = comm[p].amount
           /\ settled[p].status = "none" => settled[p] = comm[p]
    <3> SUFFICES ASSUME NEW p \in Payments
                 PROVE  /\ comm[p].status = "none" => comm[p] = NoCommission
                        /\ comm[p].batch # 0 =>
                            /\ \/ comm[p].status = "vested"
                                    /\ batch[comm[p].batch].status \in {"draft", "sent"}
                               \/ comm[p].status = "paid" /\ batch[comm[p].batch].status = "paid"
                            /\ comm[p].batch \in BatchIds \ {id}
                            /\ settled[p] = comm[p]
                        /\ settled[p].batch = comm[p].batch /\ settled[p].amount = comm[p].amount
                        /\ settled[p].status = "none" => settled[p] = comm[p]
      OBVIOUS
    <3>1. /\ comm[p].status = "none" => comm[p] = NoCommission
          /\ comm[p].batch # 0 =>
               \/ comm[p].status = "vested" /\ batch[comm[p].batch].status \in {"draft", "sent"}
               \/ comm[p].status = "paid" /\ batch[comm[p].batch].status = "paid"
          /\ comm[p].batch \in BatchIds \cup {0}
      BY DEF SeqInv, Rows, TypeOK, Commission
    <3>2. settled[p] = comm[p] \/ Left(comm[p], settled[p])
      BY <2>3
    <3> QED BY <2>1, <3>1, <3>2 DEF Left
  <2>14. \A p \in Payments :
           /\ comm'[p].amount = comm[p].amount
           /\ p \in rows => comm[p].batch = 0 /\ comm'[p].batch = id
           /\ p \notin rows => comm'[p].batch = comm[p].batch /\ comm[p].batch # id
    BY <2>1, <2>4, <2>10, <2>13
  <2>15. Rows'
    <3> SUFFICES ASSUME NEW p \in Payments
                 PROVE  /\ comm'[p].status = "none" => comm'[p] = NoCommission
                        /\ comm'[p].batch # 0 =>
                            \/ comm'[p].status = "vested"
                                 /\ batch'[comm'[p].batch].status \in {"draft", "sent"}
                            \/ comm'[p].status = "paid"
                                 /\ batch'[comm'[p].batch].status = "paid"
      BY DEF Rows
    <3>1. CASE p \in rows
      BY <2>7, <2>8, <2>10, <3>1
    <3>2. CASE p \notin rows
      BY <2>8, <2>10, <2>13, <3>2
    <3> QED BY <3>1, <3>2
  <2>16. Words'
    <3>1. \A p \in Payments : /\ comm'[p].amount = comm[p].amount
                              /\ comm'[p].batch \in {comm[p].batch, 0, id}
                              /\ comm'[p].batch # comm[p].batch => comm[p].batch \in {0, id}
      BY <2>14
    <3>2. \A c \in BatchIds \ {id} : Word(c)'
      BY <2>1, <2>8, <3>1, OtherWords
    <3> PICK b \in BatchIds : b = id
      BY <2>1
    <3>3. InBatch(b)' = rows
      <4>1. InBatch(b)' = {p \in Payments : comm'[p].batch = b}
        BY DEF InBatch
      <4> QED BY <2>4, <2>14, <4>1
    <3>4. \A P \in SUBSET rows : Amount(comm', P) = Amount(settled, P)
      <4> SUFFICES ASSUME NEW P \in SUBSET rows
                   PROVE  Amount(comm', P) = Amount(settled, P)
        OBVIOUS
      <4>1. \A p \in P : comm'[p].amount = settled[p].amount
        BY <2>10
      <4> QED BY <4>1, AmountSame
    <3>5. Amount(comm', rows) = total
      BY <3>4 DEF total
    <3>6. \A p \in rows : Amount(comm', OfPartner(Partner[p], rows))
                            = Amount(settled, OfPartner(Partner[p], rows))
      BY <3>4 DEF OfPartner
    <3>7. Word(b)'
      BY <2>4, <2>7, <2>8, <3>3, <3>5, <3>6 DEF Word
    <3> QED BY <3>2, <3>7 DEF Words
  <2>17. RefundsAddUp'
    BY <1>1, RefundsKeep
  <2>18. Shares'
    <3> SUFFICES ASSUME NEW p \in Payments, NEW k, k = Applications(p)
                 PROVE  Worth(comm'[p], pay'[p], k)
      BY <1>1 DEF Shares, Applications, AppliedTo, Of
    <3>1. Worth(comm[p], pay[p], k) /\ pay' = pay
      BY <1>1 DEF SeqInv, Shares
    <3>2. Worth(settled[p], pay[p], k)
      BY <2>3, <3>1, WorthKept
    <3>3. CASE p \in rows
      BY <2>4, <2>10, <3>1, <3>2, <3>3 DEF Worth
    <3>4. CASE p \notin rows
      BY <2>10, <3>1, <3>2, <3>4
    <3> QED BY <3>3, <3>4
  <2>19. TypeOK'
    BY <1>1, <1>2, <1>3, <2>8, <2>10, <2>11 DEF SeqInv, TypeOK
  <2>20. Lives
    <3> SUFFICES ASSUME NEW p \in Payments PROVE Life(comm[p], comm'[p])
      BY DEF Lives
    <3>1. settled[p] = comm[p] \/ Left(comm[p], settled[p])
      BY <2>3
    <3>2. comm'[p].status = settled[p].status /\ comm'[p].amount = settled[p].amount
      BY <2>4, <2>10
    <3> QED BY <3>1, <3>2 DEF Life, Left
  <2> QED BY <1>2, <2>12, <2>15, <2>16, <2>17, <2>18, <2>19, <2>20 DEF SeqInv
<1> QED BY <1>1, <1>4, <1>5

\* Nothing has happened yet.
LEMMA InitSeqInv == Init => SeqInv
<1> SUFFICES ASSUME Init PROVE SeqInv
  OBVIOUS
<1>1. TypeOK
  BY NullRows, IdleTxType DEF Init, TypeOK, Referral, NoReferral, NoTime, Time, NoBatch, Batch
<1>2. OneAtATime /\ HandlersCurrent
  BY IdleTxType DEF Init, OneAtATime, HandlersCurrent, Current
<1>3. \A p \in Payments : comm[p] = NoCommission /\ pay[p] = NewPayment
  BY DEF Init
<1>4. Streaks
  <2> SUFFICES ASSUME NEW m \in Members PROVE Streak(Book(m), Mine(m))
    BY DEF Streaks
  <2>1. Book(m) \in LedgerBooks /\ Book(m).ref = NoReferral /\ Book(m).comm = comm
    BY <1>1 DEF Book, LedgerBooks, TypeOK, Init
  <2> QED BY <1>3, <2>1 DEF Streak, Waits, NoReferral, NoCommission, Mine
<1>5. Rows /\ Words
  BY <1>3 DEF Rows, Words, Word, NoCommission, Init, NoBatch
<1>6. RefundsAddUp
  <2>1. \A r \in RefundIds : refund[r] = NoRefund /\ refund[r].payment = "none"
    BY DEF Init, NoRefund
  <2>2. OneActive(refund)
    BY <2>1 DEF OneActive, NoRefund, Active
  <2>3. ASSUME NEW p \in Payments
        PROVE  Confirmed(p) = pay[p].refunded
    <3>1. Of(p) = {}
      BY <2>1, LedgerAssumption DEF Of
    <3>2. pay[p].refunded = 0
      BY <1>3 DEF NewPayment
    <3>3. Total(Counts(refund), {}) = 0
      <4> DEFINE c == Counts(refund)
      <4>1. IsFiniteSet({}) /\ \A x \in {} : c[x] \in Int
        BY FS_EmptySet
      <4> HIDE DEF c
      <4> QED BY <4>1, TotalStep DEF c
    <3> QED BY <3>1, <3>2, <3>3, ConfirmedTotal
  <2>4. \A k \in Keys : stripe[k].first # "failed"
    BY DEF Init, NoRemote
  <2> QED BY <1>3, <2>1, <2>2, <2>3, <2>4 DEF RefundsAddUp, OnRecord, NewPayment
<1>7. Shares
  BY <1>3 DEF Shares, Worth, NoCommission
<1> QED BY <1>1, <1>2, <1>4, <1>5, <1>6, <1>7 DEF SeqInv

\* Every step keeps the invariant of one handler at a time.
LEMMA NextSeqInv == ~Overlap /\ IInv /\ SeqInv /\ [Next]_vars => SeqInv'
<1> SUFFICES ASSUME ~Overlap, IInv, SeqInv, [Next]_vars PROVE SeqInv'
  OBVIOUS
<1>1. CASE Tick
  BY <1>1, TickCurrent
<1>2. CASE Earn
  BY <1>2, FulfilCurrent, CancelledCurrent DEF Earn
<1>3. ASSUME NEW w \in Workers, Ask(w) PROVE SeqInv'
  BY <1>3, AskStep DEF Ask
<1>4. ASSUME NEW w \in Workers, Resolution(w) PROVE SeqInv'
  BY <1>4, ProbeCurrent, ResolutionCurrent DEF Resolution
<1>5. ASSUME NEW w \in Workers, Commit(w) \/ Fail(w) PROVE SeqInv'
  BY <1>5, CommitCurrent, FailCurrent
<1>6. CASE \E k \in Keys, status \in Answers : RemoteSettles(k, status)
  BY <1>6, RemoteCurrent
<1>7. ASSUME NEW w \in Workers, BeginBatch(w) \/ CommitBatch(w) PROVE SeqInv'
  BY <1>7, BeginBatchCurrent, CommitBatchCurrent
<1>8. CASE PayOut
  BY <1>8, PayOutCurrent DEF PayOut
<1>9. CASE UNCHANGED vars
  <2>1. /\ UNCHANGED <<now, pay, refund, stripe, ref, comm, batch, tx, payouts, used>>
    BY <1>9 DEF vars
  <2>2. StripeOn /\ now' \in Nat /\ used' \in [Counters -> Nat] /\ tx' \in [Workers -> Tx]
    BY <2>1 DEF StripeOn, SeqInv, TypeOK, RefundsAddUp
  <2>3. OneAtATime'
    BY <2>1 DEF SeqInv, OneAtATime
  <2>4. HandlersCurrent'
    BY <2>1 DEF SeqInv, HandlersCurrent, Current, Proper, Stems, Room, Accounts, Told, Pending
  <2> QED BY <2>1, <2>2, <2>3, <2>4, TablesStay DEF Ledger
<1> QED BY <1>1, <1>2, <1>3, <1>4, <1>5, <1>6, <1>7, <1>8, <1>9 DEF Next

\* It always holds where handlers do not interleave.
LEMMA OneHandlerInductive == ~Overlap => (Spec => []SeqInv)
<1> SUFFICES ASSUME ~Overlap PROVE Spec => []SeqInv
  OBVIOUS
<1>1. IInv /\ SeqInv /\ [Next]_vars => SeqInv'
  BY NextSeqInv
<1> QED BY <1>1, InitSeqInv, Inductive, PTL DEF Spec

(***************************************************************************)
(* The theorems of one handler at a time.                                  *)
(***************************************************************************)
\* The rows of an invitee wait for the gate of the current streak, whatever is
\* paid, cancelled, refunded and paid out in whichever order.
THEOREM PendingShareTheGateCorrect == ~Overlap => (Spec => []PendingShareTheGate)
<1>1. SeqInv => PendingShareTheGate
  <2> SUFFICES ASSUME SeqInv, NEW p \in Payments, comm[p].status = "pending"
               PROVE  /\ comm[p].vests = ref[Payer[p]].gate
                      /\ ref[Payer[p]].qualified = NoTime
    BY DEF PendingShareTheGate
  <2>1. Payer[p] \in Members /\ p \in Mine(Payer[p])
    BY LedgerAssumption DEF Mine
  <2>2. Waits(Book(Payer[p]), p)
    BY <2>1 DEF SeqInv, Streaks, Streak
  <2> QED BY <2>2 DEF Waits, Book
<1> QED BY <1>1, OneHandlerInductive, PTL

\* A batch that can still be paid, or was, is worth what its rows are worth, and
\* every partner in it reached the threshold alone.
THEOREM BatchKeepsItsWordCorrect == ~Overlap => (Spec => []BatchKeepsItsWord)
<1>1. SeqInv => BatchKeepsItsWord
  BY DEF SeqInv, Words, Word, BatchKeepsItsWord
<1> QED BY <1>1, OneHandlerInductive, PTL

\* The nightly audit finds nothing to report about payments and refunds.
THEOREM AuditStaysQuietCorrect == ~Overlap => (Spec => []AuditStaysQuiet)
<1>1. IInv /\ SeqInv => AuditStaysQuiet
  <2> SUFFICES ASSUME IInv, SeqInv, NEW p \in Payments PROVE ~Alarms(p)
    BY DEF AuditStaysQuiet
  <2>1. /\ pay[p].refunded <= Price /\ pay[p].refunded \in Nat
        /\ pay[p].status = "refunded" <=> pay[p].refunded = Price
        /\ Confirmed(p) = pay[p].refunded /\ Price \in Nat \ {0}
    BY LedgerAssumption DEF IInv, NeverOverRefunded, SeqInv, RefundsAddUp, TypeOK, Payment
  <2>2. ASSUME NEW r \in Of(p) PROVE ~Unapplied(r)
    BY LedgerAssumption DEF SeqInv, RefundsAddUp, OnRecord, Paired, Of, Unapplied
  <2> QED BY <2>1, <2>2 DEF Alarms, TotalsDisagree, Unrecorded, Exceeds, FullMismatch,
                             PartialMismatch
<1> QED BY <1>1, Inductive, OneHandlerInductive, PTL

\* The sum of what was returned is a total, too.
Returns ==
  [r \in RefundIds |-> IF \/ refund[r].manual /\ refund[r].applied
                          \/ ~refund[r].manual /\ stripe[refund[r].key].status = "succeeded"
                       THEN refund[r].amount ELSE 0]

\* What was returned on a payment, as a total.
LEMMA ReturnedTotal == \A p \in Payments : Returned(p) = Total(Returns, Of(p))
<1> SUFFICES ASSUME NEW p \in Payments PROVE Returned(p) = Total(Returns, Of(p))
  OBVIOUS
<1> DEFINE a == Returns
           P == Of(p)
           one(r) == IF \/ refund[r].manual /\ refund[r].applied
                        \/ ~refund[r].manual /\ stripe[refund[r].key].status = "succeeded"
                     THEN refund[r].amount ELSE 0
           G(f) == [s \in SUBSET P |-> IF s = {} THEN 0 ELSE one(Any(s)) + f[s \ {Any(s)}]]
<1>1. \A f : G(f) = Grown(a, P, f)
  <2> SUFFICES ASSUME NEW f, NEW s \in SUBSET P, s # {} PROVE a[Any(s)] = one(Any(s))
    BY DEF Grown
  <2> QED BY DEF Any, Returns, Of
<1>2. Returned(p) = (CHOOSE f : f = G(f))[P]
  BY DEF Returned, Sum, MapThenSumSet, MapThenFoldSet, Any
<1>3. (CHOOSE f : f = G(f)) = (CHOOSE f : f = Grown(a, P, f))
  <2> HIDE DEF G, a
  <2> QED BY <1>1
<1> QED BY <1>2, <1>3 DEF Total, Sums

\* The buyer never gets back more than the price: the refunds that are settled
\* add up to the refunded total, and the one that is open fits into the rest.
THEOREM ReturnedWithinPriceCorrect == ~Overlap => (Spec => []ReturnedWithinPrice)
<1>1. IInv /\ SeqInv => ReturnedWithinPrice
  <2> SUFFICES ASSUME IInv, SeqInv, NEW p \in Payments PROVE Returned(p) <= Price
    BY DEF ReturnedWithinPrice
  <2> DEFINE P == Of(p)
             c == Counts(refund)
             h == Returns
  <2>1. /\ pay[p].refunded <= Price /\ pay[p].refunded \in Nat /\ Price \in Nat
        /\ Total(c, P) = pay[p].refunded /\ Returned(p) = Total(h, P)
    BY LedgerAssumption, ConfirmedTotal, ReturnedTotal
       DEF IInv, NeverOverRefunded, SeqInv, RefundsAddUp, TypeOK, Payment
  <2>2. P \in SUBSET RefundIds /\ IsFiniteSet(P)
    <3>1. IsFiniteSet(RefundIds)
      BY LedgerAssumption, FS_Interval DEF RefundIds
    <3>2. P \in SUBSET RefundIds
      BY DEF Of
    <3> QED BY <3>1, <3>2, FS_Subset
  <2>3. ASSUME NEW r \in P
        PROVE  /\ refund[r].amount \in Nat /\ refund[r].payment = p
               /\ refund[r].status \in Active \cup {"confirmed", "failed"}
               /\ Paired(refund[r]) /\ Told(stripe, refund[r])
               /\ refund[r].status \in Active => Room(refund[r])
    <3>1. refund[r] \in Refund /\ OnRecord(refund[r]) /\ refund[r].payment = p /\ p # "none"
      BY LedgerAssumption DEF SeqInv, TypeOK, RefundsAddUp, Of
    <3> QED BY <3>1 DEF OnRecord, Refund
  <2>4. ASSUME NEW r \in P
        PROVE  /\ c[r] \in Nat /\ h[r] \in Nat /\ c[r] \in Int /\ h[r] \in Int
               /\ h[r] <= refund[r].amount
               /\ refund[r].status \notin Active => h[r] <= c[r]
               /\ refund[r].status \in Active => c[r] = 0
    <3> DEFINE x == refund[r]
    <3>1. /\ c[r] = IF x.status = "confirmed" /\ x.applied THEN x.amount ELSE 0
          /\ h[r] = IF \/ x.manual /\ x.applied
                       \/ ~x.manual /\ stripe[x.key].status = "succeeded"
                    THEN x.amount ELSE 0
      BY <2>2 DEF Counts, Returns
    <3>2. /\ x.amount \in Nat /\ x.status \in Active \cup {"confirmed", "failed"}
          /\ x.applied <=> x.status = "confirmed"
          /\ x.status = "failed" /\ ~x.manual => stripe[x.key].status = "failed"
      BY <2>3 DEF Paired, Told
    <3> HIDE DEF x, c, h
    <3>3. c[r] \in Nat /\ h[r] \in Nat /\ h[r] <= x.amount
      BY <3>1, <3>2
    <3>4. x.status \notin Active => h[r] <= c[r]
      BY <3>1, <3>2
    <3>5. x.status \in Active => c[r] = 0
      BY <3>1, <3>2 DEF Active
    <3> QED BY <3>3, <3>4, <3>5 DEF x
  <2> HIDE DEF c, h, P
  <2>5. CASE \A r \in P : refund[r].status \notin Active
    <3>1. \A r \in P : h[r] \in Int /\ c[r] \in Int /\ h[r] <= c[r]
      BY <2>4, <2>5
    <3>2. Total(h, P) <= Total(c, P)
      BY <2>2, <3>1, TotalMonotone
    <3>3. Total(h, P) \in Int
      BY <2>2, <3>1, TotalType
    <3> QED BY <2>1, <3>2, <3>3
  <2>6. ASSUME NEW a \in P, refund[a].status \in Active PROVE Returned(p) <= Price
    <3>1. \A r \in P \ {a} : refund[r].status \notin Active
      BY <2>2, <2>3, <2>6 DEF SeqInv, RefundsAddUp, OneActive
    <3>2. \A r \in P \ {a} : h[r] \in Int /\ c[r] \in Int /\ h[r] <= c[r]
      BY <2>4, <3>1
    <3>3. IsFiniteSet(P \ {a}) /\ (\A r \in P : h[r] \in Int) /\ (\A r \in P : c[r] \in Int)
      BY <2>2, <2>4, FS_Subset
    <3>4. Total(h, P \ {a}) <= Total(c, P \ {a})
      BY <3>2, <3>3, TotalMonotone
    <3>5. Total(h, P \ {a}) \in Int /\ Total(c, P \ {a}) \in Int
      BY <3>2, <3>3, TotalType
    <3>6. Total(h, P) = h[a] + Total(h, P \ {a}) /\ Total(c, P) = c[a] + Total(c, P \ {a})
      BY <2>2, <3>3, TotalSplit
    <3>7. /\ c[a] = 0 /\ h[a] \in Nat /\ h[a] <= refund[a].amount
          /\ refund[a].amount \in Nat /\ refund[a].amount <= Price - pay[p].refunded
      BY <2>3, <2>4, <2>6 DEF Room
    <3> QED BY <2>1, <3>4, <3>5, <3>6, <3>7
  <2> QED BY <2>5, <2>6
<1> QED BY <1>1, Inductive, OneHandlerInductive, PTL

\* However a payment is given back, its commission keeps the share of the rest, to
\* within the roundings of the share and of each refund.
THEOREM RefundReachesCommissionCorrect ==
  ~Overlap => (Spec => []RefundReachesCommission)
<1> SUFFICES ASSUME ~Overlap PROVE Spec => []RefundReachesCommission
  OBVIOUS
<1>1. IInv /\ SeqInv => RefundReachesCommission
  <2> SUFFICES ASSUME SeqInv PROVE RefundReachesCommission
    OBVIOUS
  <2>1. \A p \in Payments : Worth(comm[p], pay[p], Cardinality(AppliedTo(p)))
    BY DEF SeqInv, Shares, Applications
  <2> QED BY <2>1 DEF RefundReachesCommission, Worth
<1> QED BY <1>1, Inductive, OneHandlerInductive, PTL

(***************************************************************************)
(* What a partner is promised, of the detailed books.                      *)
(***************************************************************************)
LEMMA StepLives ==
  ASSUME ~Overlap, IInv, SeqInv, Next
  PROVE  Lives \/ \E b \in BatchIds : MarkPaid(b)
<1>1. CASE Tick
  BY <1>1 DEF Tick, Lives, Life
<1>2. CASE Earn
  BY <1>2, FulfilCurrent, CancelledCurrent DEF Earn
<1>3. ASSUME NEW w \in Workers, Ask(w) PROVE Lives
  BY <1>3 DEF Ask, RequestRefund, Ledger, Lives, Life
<1>4. ASSUME NEW w \in Workers, Resolution(w) PROVE Lives
  BY <1>4 DEF Resolution, Probe, Sync, Resolve, Ledger, Lives, Life
<1>5. ASSUME NEW w \in Workers, Commit(w) \/ Fail(w) PROVE Lives
  BY <1>5, CommitCurrent DEF Fail, Ledger, Lives, Life
<1>6. CASE \E k \in Keys, status \in Answers : RemoteSettles(k, status)
  BY <1>6 DEF RemoteSettles, Ledger, Lives, Life
<1>7. ASSUME NEW w \in Workers, BeginBatch(w) \/ CommitBatch(w) PROVE Lives
  BY <1>7, CommitBatchCurrent DEF BeginBatch, Ledger, Lives, Life
<1>8. ASSUME NEW b \in BatchIds, MarkSent(b) \/ CancelBatch(b) PROVE Lives
  <2>1. CASE MarkSent(b)
    BY <2>1 DEF MarkSent, Lives, Life
  <2>2. CASE CancelBatch(b)
    <3>1. comm \in [Payments -> Commission]
      BY DEF SeqInv, TypeOK
    <3>2. \A p \in Payments : /\ [comm[p] EXCEPT !.batch = 0].status = comm[p].status
                              /\ [comm[p] EXCEPT !.batch = 0].amount = comm[p].amount
      BY <3>1 DEF Commission
    <3> QED BY <2>2, <3>2 DEF CancelBatch, Lives, Life
  <2> QED BY <1>8, <2>1, <2>2
<1>9. CASE PayOut
  BY <1>8, <1>9 DEF PayOut
<1> QED BY <1>1, <1>2, <1>3, <1>4, <1>5, <1>6, <1>7, <1>9 DEF Next

\* The abstract account sums the same amounts.
LEMMA WorthTotal ==
  ASSUME NEW P \in SUBSET Payments
  PROVE  Account!MapThenSumSet(LAMBDA q : [p \in Payments |-> comm[p].amount][q], P)
           = Amount(comm, P)
<1> DEFINE a == [p \in P |-> comm[p].amount]
           G(f) == [s \in SUBSET P |->
                      IF s = {} THEN 0
                      ELSE [p \in Payments |-> comm[p].amount][Any(s)] + f[s \ {Any(s)}]]
<1>1. \A f : G(f) = Grown(a, P, f)
  <2> SUFFICES ASSUME NEW f, NEW s \in SUBSET P, s # {}
               PROVE  a[Any(s)] = [p \in Payments |-> comm[p].amount][Any(s)]
    BY DEF Grown
  <2> QED BY DEF Any
<1>2. Account!MapThenSumSet(LAMBDA q : [p \in Payments |-> comm[p].amount][q], P)
        = (CHOOSE f : f = G(f))[P]
  BY DEF Account!MapThenSumSet, Account!MapThenFoldSet, Any
<1>3. (CHOOSE f : f = G(f)) = (CHOOSE f : f = Grown(a, P, f))
  <2> HIDE DEF G, a
  <2> QED BY <1>1
<1> QED BY <1>2, <1>3, AmountTotal DEF Total, Sums

\* Every step of the detailed books is a settlement or a payout of the account.
THEOREM ImplementsCommissionLifeCorrect == ~Overlap => (Spec => ImplementsCommissionLife)
<1> SUFFICES ASSUME ~Overlap PROVE Spec => ImplementsCommissionLife
  OBVIOUS
<1> DEFINE life == [p \in Payments |-> comm[p].status]
           worth == [p \in Payments |-> comm[p].amount]
<1>1. Init => Account!Init
  BY DEF Init, Account!Init, NoCommission
<1>2. IInv /\ SeqInv /\ [Next]_vars => [Account!Next]_<<life, worth>>
  <2> SUFFICES ASSUME IInv, SeqInv, [Next]_vars PROVE [Account!Next]_<<life, worth>>
    OBVIOUS
  <2>1. CASE UNCHANGED vars
    BY <2>1 DEF vars
  <2>2. CASE Lives
    <3>1. \A p \in Payments : /\ life[p] = comm[p].status /\ life'[p] = comm'[p].status
                              /\ worth[p] = comm[p].amount /\ worth'[p] = comm'[p].amount
      OBVIOUS
    <3>2. Account!Settle
      BY <2>2 DEF Lives, Life, Account!Settle, Account!Recorded, Account!Shrinks,
                  Account!Leaves, Account!Stays
    <3> QED BY <3>2 DEF Account!Next
  <2>3. ASSUME NEW b \in BatchIds, MarkPaid(b) PROVE Account!Next
    <3> PICK S \in SUBSET Payments : S = InBatch(b)
      BY DEF InBatch
    <3>1. /\ S # {} /\ S \in SUBSET Payments
          /\ \A p \in S : comm[p].status = "vested"
          /\ comm' = Mark(comm, S, "paid") /\ batch[b].status \in {"draft", "sent"}
          /\ comm \in [Payments -> Commission]
      BY <2>3 DEF MarkPaid, InBatch, SeqInv, TypeOK
    <3>2. \A p \in S : Amount(comm, OfPartner(Partner[p], S)) >= Threshold
      BY <3>1 DEF SeqInv, Words, Word
    <3>3. \A p \in Payments : /\ comm'[p].status = IF p \in S THEN "paid" ELSE comm[p].status
                              /\ comm'[p].amount = comm[p].amount
      <4>1. \A p \in Payments : /\ [comm[p] EXCEPT !.status = "paid"].status = "paid"
                                /\ [comm[p] EXCEPT !.status = "paid"].amount = comm[p].amount
        BY <3>1 DEF Commission
      <4> QED BY <3>1, <4>1 DEF Mark
    <3>4. life' = [p \in Payments |-> IF p \in S THEN "paid" ELSE life[p]]
      BY <3>3
    <3>5. worth' = worth
      BY <3>3
    <3>6. ASSUME NEW p \in S
          PROVE  /\ life[p] = "vested"
                 /\ Account!MapThenSumSet(LAMBDA q : worth[q],
                                          {q \in S : Partner[q] = Partner[p]}) >= Threshold
      <4>1. OfPartner(Partner[p], S) = {q \in S : Partner[q] = Partner[p]}
        BY DEF OfPartner
      <4>2. {q \in S : Partner[q] = Partner[p]} \in SUBSET Payments
        BY <3>1
      <4> QED BY <3>1, <3>2, <4>1, <4>2, WorthTotal
    <3>7. Account!PayOut(S)
      BY <3>1, <3>4, <3>5, <3>6 DEF Account!PayOut
    <3> QED BY <3>7 DEF Account!Next
  <2> QED BY <2>1, <2>2, <2>3, StepLives
<1> QED BY <1>1, <1>2, Inductive, OneHandlerInductive, PTL
        DEF Spec, ImplementsCommissionLife, Account!Spec
===============================================================================
