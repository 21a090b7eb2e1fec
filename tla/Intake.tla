------------------------------- MODULE Intake -------------------------------
(***************************************************************************)
(* How a charge at Stripe or Lava reaches the books: the webhooks, which   *)
(* may be lost, repeated, reordered or forgotten by a crash, and the       *)
(* nightly reconciliation, which compares the books with Lava's journal.   *)
(*                                                                         *)
(* A contract is one checkout.  Its charges are numbered: the first, then  *)
(* the renewals.  A payment is named by the charge it was written for, the *)
(* row that the checkout wrote by <<contract, 0>>.                         *)
(***************************************************************************)
EXTENDS Naturals

CONSTANTS Contracts,
          Renewals,  \* bound: renewals of a contract
          Followed,  \* bound: the kinds of condition whose items are followed
          None

\* What an item can be about; items about a provider that did not answer are
\* left out.
Kinds == {"event unlinked", "sale without payment", "event not succeeded",
          "failed yet succeeded", "sale not succeeded", "sale never fulfilled",
          "invoice paid", "invoice not paid"}

\* None is neither a charge nor a condition.
ASSUME IntakeAssumption ==
  /\ Renewals \in Nat /\ Followed \subseteq Kinds
  /\ None \notin Contracts \X Nat /\ None \notin Kinds \X (Contracts \X Nat)

VARIABLES
  way,      \* contract -> how it was opened: none, invoice and page (Lava), stripe
  charge,   \* charge -> none, declined, paid, or cheap: paid, at another price
  wire,     \* webhooks the provider still means to deliver
  events,   \* payment_provider_events
  pay,      \* payments
  sub,      \* contract -> none, active, past_due: the subscriptions row bound to it
  opened,   \* charge -> how often access was opened on it
  alerted,  \* charges the team was told about at once
  latest,   \* condition -> none, open, resolved: its newest reconciliation item
  job,      \* the reconciliation run under way
  covered,  \* charges some finished run found in the journal
  told,     \* charges named by an item that was written open
  closed    \* conditions an operator ever resolved

books == <<pay, sub, opened>>
desk == <<latest, job, covered, told, closed>>
vars == <<way, charge, wire, events, books, alerted, desk>>

Charges == Contracts \X (1..(Renewals + 1))
Checkout(k) == <<k, 0>>
PaymentIds == Charges \cup {Checkout(k) : k \in Contracts}
Lava(c) == way[c[1]] \in {"invoice", "page"}
First(c) == c[2] = 1
Paid(c) == charge[c] \in {"paid", "cheap"}

Conditions == Followed \X PaymentIds

Idle == [at |-> "idle"]

Init ==
  /\ way = [k \in Contracts |-> "none"]
  /\ charge = [c \in Charges |-> "none"]
  /\ wire = {} /\ events = {}
  /\ pay = [p \in {} |-> None]
  /\ sub = [k \in Contracts |-> "none"]
  /\ opened = [c \in Charges |-> 0]
  /\ alerted = {} /\ covered = {} /\ told = {} /\ closed = {}
  /\ latest = [x \in Conditions |-> "none"]
  /\ job = Idle

(***************************************************************************)
(* The providers.                                                          *)
(***************************************************************************)
\* create_checkout: Lava's invoice is known at once, Stripe's and the offer
\* page's are not.  The member has the link before the transaction commits.
Pending(kind, k) ==
  [status |-> "pending", approved |-> FALSE, bound |-> kind = "invoice",
   invoice |-> IF kind = "invoice" THEN <<k, 1>> ELSE None]

Offer(k) ==
  /\ way[k] = "none"
  /\ \E kind \in {"invoice", "page", "stripe"}, committed \in BOOLEAN :
       /\ way' = [way EXCEPT ![k] = kind]
       /\ pay' = IF committed
                 THEN [p \in DOMAIN pay \cup {Checkout(k)} |->
                         IF p = Checkout(k) THEN Pending(kind, k) ELSE pay[p]]
                 ELSE pay
  /\ UNCHANGED <<charge, wire, events, sub, opened, alerted, desk>>

\* A renewal comes a period after the charge before it, and a night in between.
Due(c) ==
  /\ way[c[1]] # "none" /\ charge[c] \in {"none", "declined"}
  /\ ~First(c) => LET before == <<c[1], c[2] - 1>>
                  IN Paid(before) /\ (way[c[1]] = "invoice" => before \in covered)

Message(kind, c) == [kind |-> kind, of |-> c]

\* The price of a page can be another one than the bot's.
Settles(c) ==
  /\ Due(c)
  /\ \E price \in {"paid", "cheap"} :
       /\ price = "cheap" => way[c[1]] = "page" /\ First(c)
       /\ charge' = [charge EXCEPT ![c] = price]
  /\ wire' = wire \cup {Message("paid", c)}
                  \cup (IF First(c) /\ ~Lava(c) THEN {Message("completed", c)} ELSE {})
  /\ UNCHANGED <<way, events, books, alerted, desk>>

Declines(c) ==
  /\ Due(c) /\ charge[c] = "none"
  /\ charge' = [charge EXCEPT ![c] = "declined"]
  /\ wire' = wire \cup {Message("failed", c)}
  /\ UNCHANGED <<way, events, books, alerted, desk>>

(***************************************************************************)
(* A webhook.                                                              *)
(***************************************************************************)
\* _find_..._payment_for_invoice: by the invoice, by the payment id the first
\* charge carries, by the contract if the payment is pending.
ByInvoice(c) == {p \in DOMAIN pay : pay[p].invoice = c}
Named(c) == IF First(c) THEN {Checkout(c[1])} \cap DOMAIN pay ELSE {}
ByContract(c) ==
  {p \in DOMAIN pay : p[1] = c[1] /\ pay[p].bound /\ pay[p].status = "pending"}
Find(c) ==
  IF ByInvoice(c) # {} THEN ByInvoice(c)
  ELSE IF Named(c) # {} THEN Named(c)
  ELSE ByContract(c)

\* Stripe's metadata names the buyer and the plan; of a Lava charge only the
\* subscriptions row of its contract can.
Creatable(c) == ~Lava(c) \/ sub[c[1]] # "none"
Target(c) == IF Find(c) # {} THEN Find(c) ELSE IF Creatable(c) THEN {c} ELSE {}

\* A page sale without an invoice of its own is held to the recorded price.
Mismatch(c, p) ==
  /\ p \in DOMAIN pay /\ Lava(c) /\ First(c)
  /\ pay[p].invoice = None /\ charge[c] = "cheap"

Bind(c, p, status, approved) ==
  pay' = [q \in DOMAIN pay \cup {p} |->
            IF q = p THEN [status |-> status, approved |-> approved, bound |-> TRUE, invoice |-> c]
            ELSE pay[q]]

Recorded(m, p) == events' = events \cup {[kind |-> m.kind, of |-> m.of, payment |-> p]}
Seen(m) == \E e \in events : e.kind = m.kind /\ e.of = m.of
Approved(p) == p \in DOMAIN pay /\ pay[p].approved

\* fulfill_payment
Fulfil(c, p) ==
  /\ Bind(c, p, "succeeded", TRUE)
  /\ opened' = [opened EXCEPT ![c] = @ + 1]
  /\ sub' = [sub EXCEPT ![c[1]] = "active"]

\* Broken variant: an approved payment is fulfilled for every invoice.
TakePaidAgain(m) ==
  LET c == m.of
  IN \/ Target(c) = {} /\ Recorded(m, None) /\ UNCHANGED books
     \/ \E p \in Target(c) :
          /\ Recorded(m, p)
          /\ IF Mismatch(c, p) THEN UNCHANGED books ELSE Fulfil(c, p)
TakePaid(m) ==
  LET c == m.of
  IN \/ Target(c) = {} /\ Recorded(m, None) /\ UNCHANGED books
     \/ \E p \in Target(c) :
          /\ Recorded(m, p)
          /\ IF Approved(p) \/ Mismatch(c, p) THEN UNCHANGED books ELSE Fulfil(c, p)

\* A failed payment is marked, the bound row goes into grace.
TakeFailed(m) ==
  LET c == m.of
  IN /\ \/ Find(c) = {} /\ Recorded(m, None) /\ UNCHANGED pay
        \/ \E p \in Find(c) :
             /\ Recorded(m, p)
             /\ IF Approved(p) THEN UNCHANGED pay ELSE Bind(c, p, "failed", FALSE)
     /\ sub' = [sub EXCEPT ![c[1]] = IF @ = "none" THEN @ ELSE "past_due"]
     /\ UNCHANGED opened

\* checkout.session.completed binds; without its payment the answer is 400.
TakeCompleted(m) ==
  LET p == Checkout(m.of[1])
  IN /\ p \in DOMAIN pay
     /\ Recorded(m, p)
     /\ pay' = [pay EXCEPT ![p].bound = TRUE]
     /\ UNCHANGED <<sub, opened>>

\* A Lava charge that cannot be acted on is told at once, if the alert gets out.
Tells(m) ==
  \/ UNCHANGED alerted
  \/ /\ m.kind = "paid" /\ Lava(m.of) /\ ~Seen(m)
     /\ Target(m.of) = {} \/ \E p \in Target(m.of) : Mismatch(m.of, p)
     /\ alerted' = alerted \cup {m.of}

\* The answer goes out before the commit: whatever happened to the one, the
\* provider may repeat the webhook or be done with it.
Deliver(m) ==
  /\ m \in wire
  /\ wire' \in {wire, wire \ {m}}
  /\ Tells(m)
  /\ \/ UNCHANGED <<events, books>>
     \/ /\ ~Seen(m)
        /\ \/ m.kind = "paid" /\ TakePaid(m)
           \/ m.kind = "failed" /\ TakeFailed(m)
           \/ m.kind = "completed" /\ TakeCompleted(m)
  /\ UNCHANGED <<way, charge, desk>>

(***************************************************************************)
(* The reconciliation run: it reads the books, then asks the providers,    *)
(* then reads what became of each condition, and commits.                  *)
(***************************************************************************)
RunReads ==
  /\ job = Idle
  /\ job' = [at |-> "read", pay |-> pay, events |-> events, sub |-> sub]
  /\ UNCHANGED <<way, charge, wire, events, books, alerted, latest, covered, told, closed>>

\* scan_stripe_local and scan_lava_local: events against payments.
PaidIssues(seen) ==
  LET paid == {e \in seen.events : e.kind = "paid"}
      unlinked == {e \in paid : e.payment = None}
      undone == {e \in paid \ unlinked : seen.pay[e.payment].status # "succeeded"}
  IN {<<"event unlinked", e.of>> : e \in unlinked} \cup {<<"event not succeeded", e.payment>> : e \in undone}
FailedIssues(seen) ==
  LET failed == {e \in seen.events : e.kind = "failed" /\ e.payment # None}
  IN {<<"failed yet succeeded", e.payment>> :
        e \in {e \in failed : seen.pay[e.payment].status = "succeeded"}}
LocalIssues(seen) == PaidIssues(seen) \cup FailedIssues(seen)

\* compare_stripe_remote walks the payments that know their invoice.
InvoiceIssues(seen) ==
  LET known == {p \in DOMAIN seen.pay : way[p[1]] = "stripe" /\ seen.pay[p].invoice # None}
      done(p) == seen.pay[p].status = "succeeded"
  IN {<<"invoice paid", p>> : p \in {p \in known : Paid(seen.pay[p].invoice) /\ ~done(p)}}
     \cup {<<"invoice not paid", p>> : p \in {p \in known : ~Paid(seen.pay[p].invoice) /\ done(p)}}

\* compare_lava_remote walks the journal, which lists what the API sold: the
\* first charge names its payment, a renewal is found by its invoice.
Journal == {c \in Charges : way[c[1]] = "invoice" /\ Paid(c)}
Match(seen, c) ==
  IF First(c) THEN {Checkout(c[1])} \cap DOMAIN seen.pay
  ELSE {p \in DOMAIN seen.pay : seen.pay[p].invoice = c}
\* Broken variant: a sale with a payment is a sale accounted for.
FindingLenient(seen, c) ==
  IF Match(seen, c) = {} THEN <<"sale without payment", c>> ELSE None
Finding(seen, c) ==
  IF Match(seen, c) = {} THEN <<"sale without payment", c>>
  ELSE LET p == CHOOSE p \in Match(seen, c) : TRUE
       IN IF seen.pay[p].status # "succeeded" THEN <<"sale not succeeded", p>>
          ELSE IF seen.sub[p[1]] = "none" THEN <<"sale never fulfilled", p>>
          ELSE None
JournalIssues(seen) == {Finding(seen, c) : c \in Journal} \ {None}

\* A condition is one item; it names the newest of the sales that show it.
Names(seen) ==
  {c \in Journal :
     /\ Finding(seen, c) # None
     /\ ~\E d \in Journal : d[2] > c[2] /\ Finding(seen, d) = Finding(seen, c)}

\* What a provider's collector finds: nothing if it raises, its own rows if the
\* provider does not answer.
Collect(seen, provider, outcome) ==
  IF outcome = "raises" THEN {}
  ELSE {x \in LocalIssues(seen) : Lava(x[2]) <=> provider = "lava"}
       \cup IF outcome = "fails" THEN {}
            ELSE IF provider = "lava" THEN JournalIssues(seen) ELSE InvoiceIssues(seen)

RunCompares(stripe, lava) ==
  /\ job.at = "read"
  /\ job' = [at |-> "compared",
             issues |-> Conditions \cap (Collect(job, "stripe", stripe) \cup Collect(job, "lava", lava)),
             listed |-> IF lava = "answers" THEN Journal ELSE {},
             names |-> [c \in IF lava = "answers" THEN Names(job) ELSE {} |-> Finding(job, c)],
             history |-> latest]
  /\ UNCHANGED <<way, charge, wire, events, books, alerted, latest, covered, told, closed>>

\* A condition keeps the status of its newest item.
Carried(history, x) == IF history[x] = "resolved" THEN "resolved" ELSE "open"

\* Only an item that is written open is on the operator's list.
Opens(history, x) == x \in Conditions => Carried(history, x) = "open"
Shown == {c \in DOMAIN job.names : Opens(job.history, job.names[c])}

Records(then) ==
  /\ job.at = "compared"
  /\ latest' = [x \in Conditions |-> IF x \in job.issues THEN Carried(job.history, x) ELSE latest[x]]
  /\ covered' = covered \cup job.listed
  /\ told' = told \cup Shown
  /\ job' = then
  /\ UNCHANGED <<way, charge, wire, events, books, alerted, closed>>

\* Broken variant: the job is not scheduled again.
RunRecordsOnce == Records([at |-> "done"])
RunRecords == Records(Idle)

\* The process dies: nothing of the run stays.
RunDies ==
  /\ job # Idle
  /\ job' = Idle
  /\ UNCHANGED <<way, charge, wire, events, books, alerted, latest, covered, told, closed>>

\* resolve_item on the newest item of a condition.
Resolve(x) ==
  /\ latest[x] = "open"
  /\ latest' = [latest EXCEPT ![x] = "resolved"]
  /\ closed' = closed \cup {x}
  /\ UNCHANGED <<way, charge, wire, events, books, alerted, job, covered, told>>

Reopen(x) ==
  /\ latest[x] = "resolved"
  /\ latest' = [latest EXCEPT ![x] = "open"]
  /\ UNCHANGED <<way, charge, wire, events, books, alerted, job, covered, told, closed>>

Next ==
  \/ \E k \in Contracts : Offer(k)
  \/ \E c \in Charges : Settles(c) \/ Declines(c)
  \/ \E m \in wire : Deliver(m)
  \/ RunReads \/ RunRecords \/ RunDies
  \/ \E stripe, lava \in {"answers", "fails", "raises"} : RunCompares(stripe, lava)
  \/ \E x \in Conditions : Resolve(x) \/ Reopen(x)

\* The scheduler starts a run every night; again and again one can read the
\* journal, and such a run is not cut short for ever.
Fairness ==
  /\ WF_vars(RunReads) /\ SF_vars(RunRecords)
  /\ SF_vars(\E stripe \in {"answers", "fails", "raises"} : RunCompares(stripe, "answers"))
  /\ SF_vars(job.at = "compared" /\ job.listed # {} /\ RunRecords)

Spec == Init /\ [][Next]_vars /\ Fairness
=============================================================================
