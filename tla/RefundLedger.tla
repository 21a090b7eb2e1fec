---------------------------- MODULE RefundLedger ----------------------------
(***************************************************************************)
(* Payments and their refunds, Stripe's refunds as the code sees them, the *)
(* commissions invited members' payments earn, and the payout batches.     *)
(*                                                                         *)
(* A handler that moves a refund takes the payment's row lock and then     *)
(* talks to Stripe and Telegram before it commits, so it is Begin... and   *)
(* Commit; /confirm and /sync read the refund once before they take the    *)
(* lock, and that copy is the one they decide on (_locked_refund).  The    *)
(* ledger handlers lock the invitee's referral and are one action, but for *)
(* what they read before: the refund its commission, the batch its due     *)
(* rows.                                                                   *)
(*                                                                         *)
(* Overlap = TRUE is the program as deployed; Overlap = FALSE lets a       *)
(* handler start only when no other is at work.                            *)
(***************************************************************************)
EXTENDS ReferralRules

CONSTANTS
  Members,      \* invited users
  Payer,        \* who made each payment
  Workers,      \* concurrent API handlers
  Price,        \* payments.amount
  Amounts,      \* what an administrator may ask to give back
  Periods,      \* months a payment covers
  Automatic,    \* payments Stripe can refund: provider stripe, intent on record
  Rated,        \* payments in a currency with a configured rate
  Overlap,      \* handlers may interleave
  MaxRefunds,   \* bound: rows of `refunds`
  Horizon,      \* bound: last month
  MaxLapses,    \* bound: cancelled provider subscriptions
  MaxFaults     \* bound: failed commits and lost answers of Stripe

RefundIds == 1..MaxRefunds

ASSUME LedgerAssumption ==
  /\ Payer \in [Payments -> Members]
  /\ "none" \notin Payments
  /\ Price \in Nat \ {0}
  /\ Amounts \subseteq Nat \ {0}
  /\ Periods \subseteq Nat \ {0}
  /\ Automatic \subseteq Payments /\ Rated \subseteq Payments
  /\ Overlap \in BOOLEAN
  /\ MaxRefunds \in Nat /\ Horizon \in Nat

VARIABLES
  now,     \* utcnow(), in months
  pay,     \* the payments table
  refund,  \* the refunds table
  stripe,  \* Stripe's refunds, by idempotency key
  ref,     \* the referrals table, by invitee
  comm,    \* the referral_commissions table, by payment
  batch,   \* the referral_payout_batches table
  tx,      \* what each handler has read and not yet committed
  payouts, \* how often each commission was paid out
  used     \* counters of the bounds

vars == <<now, pay, refund, stripe, ref, comm, batch, tx, payouts, used>>

(***************************************************************************)
(* Types.                                                                  *)
(***************************************************************************)
Payment == [status   : {"pending", "succeeded", "refunded"},
            refunded : Nat,     \* refunded_amount
            until    : Time]    \* the end of the period it paid for
NewPayment == [status |-> "pending", refunded |-> 0, until |-> NoTime]

\* request_key: the payment, the attempt's ordinal, the new refunded total.
Keys == Payments \X RefundIds \X (1..Price)
NoKey == <<>>

Active == {"requested", "pending", "manual_action"}
Refund == [payment : Payments \cup {"none"},
           amount  : Nat,
           status  : Active \cup {"none", "confirmed", "failed"},
           manual  : BOOLEAN,   \* is_manual
           key     : Keys \cup {NoKey},
           known   : BOOLEAN,   \* provider_refund_id IS NOT NULL
           applied : BOOLEAN]   \* accounting_applied_at IS NOT NULL
NoRefund == [payment |-> "none", amount |-> 0, status |-> "none",
             manual |-> FALSE, key |-> NoKey, known |-> FALSE, applied |-> FALSE]

Answers == {"succeeded", "pending", "requires_action", "failed"}
\* `first` is the answer to the creation, replayed to the same key.
Remote == [status : Answers \cup {"none"}, first : Answers \cup {"none"},
           amount : Nat]
NoRemote == [status |-> "none", first |-> "none", amount |-> 0]

Batch == [status : {"none", "draft", "sent", "paid", "cancelled"}, total : Nat]
NoBatch == [status |-> "none", total |-> 0]

Ops == {"idle", "sync", "confirm", "fail", "save", "batch"}
Tx == [op   : Ops,
       id   : RefundIds \cup {0},       \* the refund it is about
       read : Refund,                   \* that refund as it was loaded
       row  : Refund,                   \* and as it will be saved
       pay  : Payment,                  \* the locked payment, as it will be saved
       seen : Commission,               \* the payment's commission as loaded
       due  : SUBSET Payments]          \* the due commissions as loaded
IdleTx == [op |-> "idle", id |-> 0, read |-> NoRefund, row |-> NoRefund,
           pay |-> NewPayment, seen |-> NoCommission, due |-> {}]

Counters == {"lapses", "faults"}

TypeOK ==
  /\ now \in Nat
  /\ pay \in [Payments -> Payment]
  /\ refund \in [RefundIds -> Refund]
  /\ stripe \in [Keys -> Remote]
  /\ ref \in [Members -> Referral]
  /\ comm \in [Payments -> Commission]
  /\ batch \in [BatchIds -> Batch]
  /\ tx \in [Workers -> Tx]
  /\ payouts \in [Payments -> Nat]
  /\ used \in [Counters -> Nat]

Init ==
  /\ now = 0
  /\ pay = [p \in Payments |-> NewPayment]
  /\ refund = [r \in RefundIds |-> NoRefund]
  /\ stripe = [k \in Keys |-> NoRemote]
  /\ ref = [m \in Members |-> NoReferral]
  /\ comm = [p \in Payments |-> NoCommission]
  /\ batch = [b \in BatchIds |-> NoBatch]
  /\ tx = [w \in Workers |-> IdleTx]
  /\ payouts = [p \in Payments |-> 0]
  /\ used = [c \in Counters |-> 0]

(***************************************************************************)
(* Helpers.                                                                *)
(***************************************************************************)
Quiet == \A w \in Workers : tx[w].op = "idle"
MayRun == Overlap \/ Quiet
Idle(w) == tx[w].op = "idle" /\ MayRun
Locked(p) == \E w \in Workers : tx[w].op = "save" /\ tx[w].row.payment = p

Of(p) == {r \in RefundIds : refund[r].payment = p}
Unused == {r \in RefundIds : /\ refund[r].payment = "none"
                             /\ \A w \in Workers : tx[w].id # r}

Mine(m) == {p \in Payments : Payer[p] = m}
Book(m) == [ref |-> ref[m], comm |-> comm]
WriteBook(m, b) ==
  /\ ref' = [ref EXCEPT ![m] = b.ref]
  /\ comm' = b.comm

Ledger == <<ref, comm, batch, payouts>>

(***************************************************************************)
(* A member pays; a subscription is cancelled; time passes.                *)
(***************************************************************************)
\* No handler lasts a month.
Tick ==
  /\ now < Horizon
  /\ Quiet
  /\ now' = now + 1
  /\ UNCHANGED <<pay, refund, stripe, ref, comm, batch, tx, payouts, used>>

\* Where a payment's period may start: now, or where the last one ends (a USDT
\* renewal paid early, a Stripe renewal whose webhook comes late).
Starts(m, length) ==
  LET ends == {pay[p].until : p \in Mine(m)} \ {NoTime}
  IN  {now} \cup {e \in ends : e + length > now /\ \A x \in ends : x <= e}

\* fulfill_payment, the ledger's half: at most one commission for each payment.
Fulfil(p, length) ==
  /\ MayRun
  /\ pay[p].status = "pending"
  /\ \E from \in Starts(Payer[p], length) :
       LET until == from + length
           worth == IF p \in Rated THEN Share(Price) ELSE 0
       IN  /\ pay' = [pay EXCEPT ![p].status = "succeeded", ![p].until = until]
           /\ WriteBook(Payer[p], RecordIntent(Book(Payer[p]), Mine(Payer[p]), p,
                                               from, until, worth))
  /\ UNCHANGED <<now, refund, stripe, batch, tx, payouts, used>>

\* customer.subscription.deleted, Lava's cancellation.
SubscriptionCancelled(m) ==
  /\ MayRun
  /\ used["lapses"] < MaxLapses
  /\ ref[m] # NoReferral
  /\ WriteBook(m, CancelStreak(Book(m), Mine(m), now))
  /\ used' = [used EXCEPT !["lapses"] = @ + 1]
  /\ UNCHANGED <<now, pay, refund, stripe, batch, tx, payouts>>

(***************************************************************************)
(* Refunds.                                                                *)
(***************************************************************************)
\* Broken variants: a refund is compared with the price alone; the total is the
\* last refund.
FitsAlone(p, row) == row.amount <= Price
RepaidLast(r, amount) ==
  [r EXCEPT !.refunded = amount,
            !.status = IF amount >= Price THEN "refunded" ELSE @]

\* _apply_confirmed_refund on the locked payment.
Fits(p, row) == pay[p].refunded + row.amount <= Price
Repaid(r, amount) ==
  [r EXCEPT !.refunded = @ + amount,
            !.status = IF r.refunded + amount >= Price THEN "refunded" ELSE @]

\* What the handler will save: `row` as it is, or confirmed and accounted for
\* unless the copy it read says that was done.  A refund that no longer fits is
\* an error, and the whole request is rolled back.
Save(w, id, read, row) ==
  tx' = [tx EXCEPT ![w] = [IdleTx EXCEPT !.op = "save", !.id = id, !.read = read,
                                         !.row = row, !.pay = pay[row.payment]]]
SaveConfirmed(w, id, read, row) ==
  IF read.applied THEN Save(w, id, read, row)
  ELSE tx' = [tx EXCEPT ![w] =
                IF ~Fits(row.payment, row) THEN IdleTx
                ELSE [IdleTx EXCEPT
                        !.op = "save", !.id = id, !.read = read,
                        !.row = [row EXCEPT !.status = "confirmed", !.applied = TRUE],
                        !.pay = Repaid(pay[row.payment], row.amount),
                        !.seen = comm[row.payment]]]

\* Broken variant: no answer is taken for a failure.
AnsweredOrFailed(w, id, read, row, answer) ==
  LET told == [row EXCEPT !.known = TRUE]
  IN  CASE answer = "succeeded"         -> SaveConfirmed(w, id, read, told)
        [] answer \in {"failed", "none"} -> Save(w, id, read, [row EXCEPT !.status = "failed"])
        [] answer = "requires_action"   -> Save(w, id, read, [told EXCEPT !.status = "manual_action"])
        [] answer = "pending"           -> Save(w, id, read, [told EXCEPT !.status = "pending"])

\* _process_stripe_refund once Stripe has answered.
Answered(w, id, read, row, answer) ==
  LET told == [row EXCEPT !.known = TRUE]
  IN  CASE answer = "succeeded"       -> SaveConfirmed(w, id, read, told)
        [] answer = "failed"          -> Save(w, id, read, [told EXCEPT !.status = "failed"])
        [] answer = "requires_action" -> Save(w, id, read, [told EXCEPT !.status = "manual_action"])
        [] answer = "pending"         -> Save(w, id, read, [told EXCEPT !.status = "pending"])
        [] answer = "none"            -> Save(w, id, read, [row EXCEPT !.status = "pending"])

\* The request to Stripe: retrieve by id, or create under the stored key.  A
\* lost answer leaves the handler with "none", whatever Stripe did.
AskStripe(w, id, read, row) ==
  LET k == row.key
      at == stripe[k]
  IN  \/ /\ row.known
         /\ Answered(w, id, read, row, at.status)
         /\ UNCHANGED <<stripe, used>>
      \/ /\ ~row.known /\ at.status # "none"
         /\ Answered(w, id, read, row, at.first)
         /\ UNCHANGED <<stripe, used>>
      \/ \E answer \in Answers :
           /\ ~row.known /\ at.status = "none"
           /\ stripe' = [stripe EXCEPT ![k] = [status |-> answer, first |-> answer,
                                               amount |-> row.amount]]
           /\ \/ /\ Answered(w, id, read, row, answer)
                 /\ UNCHANGED used
              \/ /\ used["faults"] < MaxFaults
                 /\ used' = [used EXCEPT !["faults"] = @ + 1]
                 /\ Answered(w, id, read, row, "none")
      \/ /\ used["faults"] < MaxFaults
         /\ used' = [used EXCEPT !["faults"] = @ + 1]
         /\ Answered(w, id, read, row, "none")
         /\ UNCHANGED stripe

\* What create_refund accepts: no refund of p is unresolved, the rest suffices.
Refundable(p, amount) ==
  /\ pay[p].status = "succeeded"
  /\ \A r \in Of(p) : refund[r].status \notin Active
  /\ 0 < amount /\ amount <= Price - pay[p].refunded

\* refund_payment and create_refund: `amount` 0 is "all that remains".
RequestRefund(w, p, asked, manual, defer) ==
  LET left   == Price - pay[p].refunded
      amount == IF asked = 0 THEN left ELSE asked
      id     == CHOOSE r \in Unused : \A s \in Unused : r <= s
      row    == [NoRefund EXCEPT
                   !.payment = p, !.amount = amount, !.manual = manual,
                   !.status = IF defer \/ ~manual THEN "requested" ELSE "manual_action",
                   !.key = <<p, Cardinality(Of(p)) + 1, pay[p].refunded + amount>>]
  IN  /\ Idle(w)
      /\ ~Locked(p)
      /\ Unused # {}
      /\ manual \/ p \in Automatic
      /\ Refundable(p, amount)
      /\ IF manual \/ defer
         THEN Save(w, id, NoRefund, row) /\ UNCHANGED <<stripe, used>>
         ELSE AskStripe(w, id, NoRefund, row)
      /\ UNCHANGED <<now, pay, refund, Ledger>>

\* The first SELECT of _locked_refund, by /sync, and by /confirm with either
\* resolution.
Probe(w, r, op) ==
  /\ Idle(w)
  /\ refund[r].payment # "none"
  /\ op \in {"sync", "confirm", "fail"}
  /\ tx' = [tx EXCEPT ![w] = [IdleTx EXCEPT !.op = op, !.id = r, !.read = refund[r]]]
  /\ UNCHANGED <<now, pay, refund, stripe, Ledger, used>>

Done(row) == (row.status = "failed") \/ (row.status = "confirmed" /\ row.applied)
GiveUp(w) == tx' = [tx EXCEPT ![w] = IdleTx] /\ UNCHANGED <<stripe, used>>

\* sync_provider_refund under the lock.
Sync(w) ==
  LET read == tx[w].read
  IN  /\ tx[w].op = "sync"
      /\ ~Locked(read.payment)
      /\ IF Done(read) \/ read.manual THEN GiveUp(w)
         ELSE AskStripe(w, tx[w].id, read, read)
      /\ UNCHANGED <<now, pay, refund, Ledger>>

\* resolve_manual_refund under the lock.
Resolve(w) ==
  LET read == tx[w].read
      id   == tx[w].id
  IN  /\ tx[w].op \in {"confirm", "fail"}
      /\ ~Locked(read.payment)
      /\ IF ~read.manual \/ read.status \notin Active
         THEN GiveUp(w)
         ELSE /\ IF tx[w].op = "fail"
                 THEN Save(w, id, read, [read EXCEPT !.status = "failed"])
                 ELSE SaveConfirmed(w, id, read, read)
              /\ UNCHANGED <<stripe, used>>
      /\ UNCHANGED <<now, pay, refund, Ledger>>

\* An UPDATE carries the columns that differ from the copy that was read.
Net(stored, read, value) == IF value # read THEN value ELSE stored
Flushed(r, read, row) ==
  IF read = NoRefund THEN row
  ELSE [refund[r] EXCEPT !.status = Net(@, read.status, row.status),
                         !.known = Net(@, read.known, row.known),
                         !.applied = Net(@, read.applied, row.applied)]

\* uq_refunds_one_active_per_payment
OneActive(table) ==
  \A r, s \in RefundIds :
    (r # s /\ table[r].status \in Active /\ table[s].status \in Active)
      => table[r].payment # table[s].payment

\* adjust_commission_for_refund, when the refund is accounted for in this
\* transaction, and the commit of get_db.
Commit(w) ==
  LET t     == tx[w]
      p     == t.row.payment
      m     == Payer[p]
      table == [refund EXCEPT ![t.id] = Flushed(t.id, t.read, t.row)]
      back  == t.pay.refunded - pay[p].refunded
      left  == Price - t.pay.refunded
  IN  /\ t.op = "save"
      /\ tx' = [tx EXCEPT ![w] = IdleTx]
      /\ IF ~OneActive(table) THEN UNCHANGED <<refund, pay, ref, comm>>
         ELSE /\ refund' = table
              /\ pay' = [pay EXCEPT ![p] = t.pay]
              /\ IF back = 0 THEN UNCHANGED <<ref, comm>>
                 ELSE WriteBook(m, Adjusted(Book(m), t.seen, Mine(m), p, back, left, now))
      /\ UNCHANGED <<now, stripe, batch, payouts, used>>

\* The process dies or the commit fails: all is rolled back but what Stripe did.
Fail(w) ==
  /\ tx[w].op = "save"
  /\ used["faults"] < MaxFaults
  /\ used' = [used EXCEPT !["faults"] = @ + 1]
  /\ tx' = [tx EXCEPT ![w] = IdleTx]
  /\ UNCHANGED <<now, pay, refund, stripe, Ledger>>

\* A refund Stripe left open ends there.
RemoteSettles(k, status) ==
  /\ stripe[k].status \in {"pending", "requires_action"}
  /\ status \in {"succeeded", "failed"}
  /\ stripe' = [stripe EXCEPT ![k].status = status]
  /\ UNCHANGED <<now, pay, refund, Ledger, tx, used>>

(***************************************************************************)
(* Payouts.                                                                *)
(***************************************************************************)
FreeBatches == {b \in BatchIds : batch[b].status = "none"}

\* vest_due_commissions: the SELECT of the due rows, before the referrals are
\* locked.
BeginBatch(w) ==
  /\ Idle(w)
  /\ FreeBatches # {}
  /\ tx' = [tx EXCEPT ![w] =
              [IdleTx EXCEPT !.op = "batch",
                 !.due = {p \in Pending(comm, Payments) : comm[p].vests <= now}]]
  /\ UNCHANGED <<now, pay, refund, stripe, Ledger, used>>

\* The rest of generate_payout_batch.  Without an eligible partner it answers
\* 400 and the rows it vested or cancelled are rolled back with it.
CommitBatch(w) ==
  LET book(m) == VestDue(Book(m), Mine(m), tx[w].due, now)
      settled == [p \in Payments |-> book(Payer[p]).comm[p]]
      rows    == Eligible(settled)
      id      == CHOOSE b \in FreeBatches : \A c \in FreeBatches : b <= c
  IN  /\ tx[w].op = "batch"
      /\ tx' = [tx EXCEPT ![w] = IdleTx]
      /\ IF rows = {} \/ FreeBatches = {} THEN UNCHANGED <<ref, comm, batch>>
         ELSE /\ ref' = [m \in Members |-> book(m).ref]
              /\ comm' = [p \in Payments |->
                            IF p \in rows THEN [settled[p] EXCEPT !.batch = id]
                            ELSE settled[p]]
              /\ batch' = [batch EXCEPT ![id] =
                             [status |-> "draft", total |-> Amount(settled, rows)]]
      /\ UNCHANGED <<now, pay, refund, stripe, payouts, used>>

InBatch(b) == {p \in Payments : comm[p].batch = b}


\* transition_referral_payout_batch, which locks the batch and its rows.
MarkSent(b) ==
  /\ MayRun
  /\ batch[b].status = "draft"
  /\ batch' = [batch EXCEPT ![b].status = "sent"]
  /\ UNCHANGED <<now, pay, refund, stripe, ref, comm, payouts, tx, used>>

MarkPaid(b) ==
  /\ MayRun
  /\ batch[b].status \in {"draft", "sent"}
  /\ InBatch(b) # {}
  /\ \A p \in InBatch(b) : comm[p].status = "vested"
  /\ batch' = [batch EXCEPT ![b].status = "paid"]
  /\ comm' = Mark(comm, InBatch(b), "paid")
  /\ payouts' = [p \in Payments |-> payouts[p] + IF p \in InBatch(b) THEN 1 ELSE 0]
  /\ UNCHANGED <<now, pay, refund, stripe, ref, tx, used>>

\* Broken variant: a batch already paid may be cancelled, and its rows released.
CancelAnyBatch(b) ==
  /\ MayRun
  /\ batch[b].status \in {"draft", "sent", "paid"}
  /\ batch' = [batch EXCEPT ![b].status = "cancelled"]
  /\ comm' = [p \in Payments |->
                IF p \in InBatch(b) THEN [comm[p] EXCEPT !.batch = 0, !.status = "vested"]
                ELSE comm[p]]
  /\ UNCHANGED <<now, pay, refund, stripe, ref, payouts, tx, used>>

CancelBatch(b) ==
  /\ MayRun
  /\ batch[b].status \in {"draft", "sent"}
  /\ batch' = [batch EXCEPT ![b].status = "cancelled"]
  /\ comm' = [p \in Payments |->
                IF p \in InBatch(b) /\ comm[p].status # "paid"
                THEN [comm[p] EXCEPT !.batch = 0] ELSE comm[p]]
  /\ UNCHANGED <<now, pay, refund, stripe, ref, payouts, tx, used>>

(***************************************************************************)
(* The system.                                                             *)
(***************************************************************************)
Earn == (\E p \in Payments, length \in Periods : Fulfil(p, length))
          \/ (\E m \in Members : SubscriptionCancelled(m))

Resolution(w) ==
  \/ \E r \in RefundIds, op \in {"sync", "confirm", "fail"} : Probe(w, r, op)
  \/ Sync(w)
  \/ Resolve(w)

Ask(w) ==
  \E p \in Payments, amount \in Amounts \cup {0}, manual, defer \in BOOLEAN :
    RequestRefund(w, p, amount, manual, defer)

PayOut == \E b \in BatchIds : MarkSent(b) \/ MarkPaid(b) \/ CancelBatch(b)

Next ==
  \/ Tick
  \/ Earn
  \/ \E w \in Workers : Ask(w) \/ Resolution(w) \/ Commit(w) \/ Fail(w)
  \/ \E k \in Keys, status \in Answers : RemoteSettles(k, status)
  \/ \E w \in Workers : BeginBatch(w) \/ CommitBatch(w)
  \/ PayOut

Spec == Init /\ [][Next]_vars
=============================================================================
