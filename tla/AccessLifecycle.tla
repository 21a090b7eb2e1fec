-------------------------- MODULE AccessLifecycle --------------------------
(***************************************************************************)
(* The life of a member's access: the `subscriptions` rows, the member's   *)
(* seat in the Telegram chats and the invite links that lead there, the    *)
(* API and bot transactions that write the rows, the hourly                *)
(* kick_expired_job, and Stripe as the code sees it.                       *)
(*                                                                         *)
(* A transaction is READ COMMITTED and its rows are loaded without a lock, *)
(* so a handler that awaits Telegram or HTTP between its read and its      *)
(* commit is two actions, Begin... and Commit..., with the rows it loaded  *)
(* kept in between; it commits by Flush, column by column.  The Stripe     *)
(* handlers that SELECT ... FOR UPDATE the row they write are one action.  *)
(*                                                                         *)
(* Overlap = TRUE is the program as deployed.  Overlap = FALSE lets a      *)
(* handler or the job start only when nothing else runs: it shows what the *)
(* code guarantees sequentially, and so what each race costs.              *)
(***************************************************************************)
EXTENDS SubscriptionRow, FiniteSets

CONSTANTS
  Workers,        \* concurrent API and bot handlers
  Owner,          \* the member who holds each provider subscription
  PlanDays,       \* plan.duration_days
  StartFloor,     \* access_start_floor_at (0: not configured)
  RemovalsArmed,  \* kick_expired_job's expiry sweep is not refused
  Answers,        \* the Telegram answers of this instance
  Overlap,        \* transactions and the job may interleave
  MaxSubs,        \* bound: rows of the table
  Horizon,        \* bound: last day
  MaxBuys,        \* bound: checkouts, USDT payments and gifts
  MaxRemote,      \* bound: renewals, failures and cancellations at Stripe
  MaxAdmin,       \* bound: administrator actions
  MaxFaults,      \* bound: failed commits
  MaxCrashes      \* bound: crashes of the bot and of handlers

ASSUME LifecycleAssumption ==
  /\ Owner \in [PSids -> Users]
  /\ PlanDays \in Nat \ {0}
  /\ StartFloor \in Nat
  /\ RemovalsArmed \in BOOLEAN
  /\ Answers \subseteq Outcomes
  /\ Overlap \in BOOLEAN
  /\ MaxSubs \in Nat
  /\ Horizon \in Nat

SubIds == 1..MaxSubs

VARIABLES
  now,      \* utcnow(), in days
  sub,      \* the subscriptions table
  banned,   \* users.is_banned
  inChat,   \* who sits in the Telegram resources
  live,     \* invite links Telegram would still accept
  remote,   \* Stripe's own view of each provider subscription
  events,   \* Stripe events not yet acknowledged
  job,      \* kick_expired_job
  tx,       \* what each API or bot handler has loaded and not yet committed
  refunded, \* rows a refund ended and no later payment extended
  used      \* counters of the bounds, and of the links issued

vars == <<now, sub, banned, inChat, live, remote, events, job, tx,
          refunded, used>>

(***************************************************************************)
(* Types.                                                                  *)
(***************************************************************************)
Links == [user : Users, n : Nat]

EventTypes == {"first_invoice", "renewal_invoice", "payment_failed",
               "updated", "deleted"}
Event == [type : EventTypes, psid : PSids, end : Nat, status : ProviderStatuses]
NoEvent == [type |-> "none", psid |-> NoLink, end |-> 0, status |-> "none"]

Phases == {"idle", "expiry", "ban"}
Stages == {"pick", "record", "alert"}
Job == [phase  : Phases,
        stage  : Stages,
        todo   : SUBSET SubIds,           \* the rest of the batch
        seen   : SUBSET SubIds,
        loaded : [SubIds -> Row],         \* the rows of todo, as loaded
        cur    : SubIds \cup {0},
        answer : Outcomes \cup {"none"}]

Ops == {"idle", "purchase", "ban", "unban", "refund"}
Purchase == [source : Sources, provider : Sources, psid : PSids \cup {NoLink},
             pstatus : ProviderStatuses, end : Time]
NoPurchase == [source |-> "none", provider |-> "none", psid |-> NoLink,
               pstatus |-> "none", end |-> NoTime]
Tx == [op     : Ops,
       user   : Users \cup {NoUser},
       pay    : Purchase,
       loaded : [SubIds -> Row],          \* NoRow where nothing was loaded
       answer : [SubIds -> Outcomes \cup {"none"}], \* Telegram's, row by row
       event  : Event \cup {NoEvent},
       link   : Nat,                      \* the invite it issued, 0 for none
       was    : BOOLEAN]                  \* users.is_banned, as loaded

Remote == [end : Nat, status : {"none", "active", "past_due", "canceled"}]

Counters == {"buys", "remote", "admin", "faults", "crashes", "links"}

NothingLoaded == [i \in SubIds |-> NoRow]
IdleJob == [phase |-> "idle", stage |-> "pick", todo |-> {}, seen |-> {},
            loaded |-> NothingLoaded, cur |-> 0, answer |-> "none"]
NothingAsked == [i \in SubIds |-> "none"]
IdleTx == [op |-> "idle", user |-> NoUser, pay |-> NoPurchase,
           loaded |-> NothingLoaded, answer |-> NothingAsked, event |-> NoEvent,
           link |-> 0, was |-> FALSE]

TypeOK ==
  /\ now \in Nat
  /\ sub \in [SubIds -> Row]
  /\ banned \in [Users -> BOOLEAN]
  /\ inChat \in [Users -> BOOLEAN]
  /\ live \subseteq Links
  /\ remote \in [PSids -> Remote]
  /\ events \subseteq Event
  /\ job \in Job
  /\ tx \in [Workers -> Tx]
  /\ refunded \subseteq SubIds
  /\ used \in [Counters -> Nat]

Init ==
  /\ now = 0
  /\ sub = [i \in SubIds |-> NoRow]
  /\ banned = [u \in Users |-> FALSE]
  /\ inChat = [u \in Users |-> FALSE]
  /\ live = {}
  /\ remote = [p \in PSids |-> [end |-> 0, status |-> "none"]]
  /\ events = {}
  /\ job = IdleJob
  /\ tx = [w \in Workers |-> IdleTx]
  /\ refunded = {}
  /\ used = [c \in Counters |-> 0]

(***************************************************************************)
(* Helpers.                                                                *)
(***************************************************************************)
Spend(counter) == used' = [used EXCEPT ![counter] = @ + 1]

Quiet == job.phase = "idle" /\ \A w \in Workers : tx[w].op = "idle"
MayStart == Overlap \/ Quiet
Idle(w) == tx[w].op = "idle" /\ MayStart

Absent == {i \in SubIds : sub[i].status = "absent"}
NextId == CHOOSE i \in Absent : \A j \in Absent : i <= j

\* A handler that may insert keeps a row of the bounded table for itself.
RoomFor(n) ==
  Cardinality(Absent) >=
    n + Cardinality({w \in Workers : tx[w].op = "purchase"})

RowsOf(u) == {i \in SubIds : sub[i].user = u}
OpenRows(u) ==
  {i \in RowsOf(u) : sub[i].status \in AccessHolding /\ ~sub[i].revoked}
Load(ids) == [i \in SubIds |-> IF i \in ids THEN sub[i] ELSE NoRow]
LoadedIn(rows) == {i \in SubIds : rows[i].status # "absent"}

\* get_active_subscription: the access-holding row that expires last.
Current(rows, u) ==
  LET holding == {i \in SubIds : rows[i].user = u /\ HasAccess(rows[i], now)}
  IN  {i \in holding : \A j \in holding : rows[j].expires <= rows[i].expires}

\* revoke_subscription_access for some rows of u: first the stored link is
\* revoked, then the member is banned and unbanned in every resource.  `removed`
\* are the links of the rows for which all of it worked, `failed` those of the
\* others: their link may be dead too, the member stays in some resource.
Removes(u, removed, failed) ==
  /\ inChat' = IF removed # {} THEN [inChat EXCEPT ![u] = FALSE] ELSE inChat
  /\ \E dead \in {{}, failed} :
       live' = live \ {[user |-> u, n |-> n] : n \in removed \cup dead}

\* Bound: no flood pause reaches past the last day.
Answer(a) == a \in Answers /\ (a = "flood" => now < Horizon)

(***************************************************************************)
(* The clock, the member, Stripe.                                          *)
(***************************************************************************)
\* A handler and a Telegram call take seconds: none is open across a day.
Tick ==
  /\ now < Horizon
  /\ job.stage # "record"
  /\ \A w \in Workers : tx[w].op = "idle"
  /\ now' = now + 1
  /\ UNCHANGED <<sub, banned, inChat, live, remote, events, job, tx,
                 refunded, used>>

\* The member opens a one-time link.
Join(l) ==
  /\ l \in live
  /\ inChat' = [inChat EXCEPT ![l.user] = TRUE]
  /\ live' = live \ {l}
  /\ UNCHANGED <<now, sub, banned, remote, events, job, tx, refunded,
                 used>>

RemoteStep(p, status, end, sent) ==
  /\ remote' = [remote EXCEPT ![p] = [end |-> end, status |-> status]]
  /\ events' = events \cup
       {[type |-> t, psid |-> p, end |-> end, status |-> status] : t \in sent}
  /\ UNCHANGED <<now, sub, banned, inChat, live, job, tx, refunded>>

Checkout(p) ==
  /\ remote[p].status = "none"
  /\ used["buys"] < MaxBuys
  /\ Spend("buys")
  /\ RemoteStep(p, "active", now + PlanDays, {"first_invoice"})

\* Stripe opens the next period, paid or not, once the last one has ended.  Its
\* delivery retries (three days) are over before the next invoice.
RemoteDue(p) ==
  /\ remote[p].status = "active"
  /\ remote[p].end <= now
  /\ used["remote"] < MaxRemote
  /\ \A e \in events : e.psid = p => e.type # "first_invoice"

RemoteRenew(p) ==
  /\ RemoteDue(p)
  /\ Spend("remote")
  /\ RemoteStep(p, "active", remote[p].end + PlanDays,
                {"renewal_invoice", "updated"})

RemoteRenewFails(p) ==
  /\ RemoteDue(p)
  /\ Spend("remote")
  /\ RemoteStep(p, "past_due", remote[p].end + PlanDays,
                {"payment_failed", "updated"})

RemoteRecovers(p) ==
  /\ remote[p].status = "past_due"
  /\ used["remote"] < MaxRemote
  /\ Spend("remote")
  /\ RemoteStep(p, "active", remote[p].end, {"renewal_invoice", "updated"})

RemoteCancel(p) ==
  /\ remote[p].status \in {"active", "past_due"}
  /\ used["remote"] < MaxRemote
  /\ Spend("remote")
  /\ RemoteStep(p, "canceled", remote[p].end, {"deleted"})
(***************************************************************************)
(* Purchases: fulfill_payment and redeem_gift_token, which end in          *)
(* create_or_extend_subscription.                                          *)
(***************************************************************************)
StripePurchase(p, end) ==
  [source |-> "stripe", provider |-> "stripe", psid |-> p,
   pstatus |-> "active", end |-> end]
UsdtPurchase ==
  [source |-> "usdt", provider |-> "usdt", psid |-> NoLink,
   pstatus |-> "active", end |-> NoTime]
\* A gift carries no provider, no provider status and no billing period.
GiftPurchase ==
  [source |-> "gift", provider |-> "none", psid |-> NoLink,
   pstatus |-> "none", end |-> NoTime]

PeriodEnd(pay, base) == IF pay.end # NoTime THEN pay.end ELSE base + PlanDays

Extended(r, pay) ==
  LET paid == [r EXCEPT !.expires = Later(@, PeriodEnd(pay, Later(@, now))),
                        !.source = pay.source]
  IN  ApplyProvider(paid, pay.provider, pay.psid, pay.pstatus)

\* access_start_floor: the configured floor, while it lies ahead.
FloorAhead == StartFloor > now

\* A first period may not start before the launch floor.
FirstEnd(pay) ==
  IF FloorAhead THEN StartFloor + PlanDays ELSE PeriodEnd(pay, now)

NewRow(u, pay) ==
  [NoRow EXCEPT !.user = u, !.status = "active", !.source = pay.source,
                !.provider = pay.provider, !.psid = pay.psid,
                !.pstatus = pay.pstatus, !.expires = FirstEnd(pay),
                !.cpe = FirstEnd(pay)]

WithLink(r, n) == IF n = 0 THEN r ELSE [r EXCEPT !.link = n]

\* The rows after create_or_extend_subscription writes row i and releases the
\* provider link everywhere else; `loaded` is the session's identity map, n
\* the new invite link or 0.
Bought(i, u, pay, loaded, n) ==
  LET known(j)  == IF loaded[j].status # "absent" THEN loaded[j] ELSE sub[j]
      bought    == IF sub[i].status = "absent" THEN NewRow(u, pay)
                   ELSE Extended(known(i), pay)
      superseded(j) == j # i /\ pay.psid # NoLink /\ sub[j].psid = pay.psid
  IN  [j \in SubIds |->
         IF j = i THEN Flush(sub[j], known(j), WithLink(bought, n))
         ELSE IF superseded(j) THEN Flush(sub[j], known(j), Released(known(j)))
         ELSE sub[j]]

\* Broken variant: every purchase opens a row of its own.
TargetAnew(rows, u) == {NextId}

\* The row a purchase writes: the current one, or a new one.
Target(rows, u) ==
  IF Current(rows, u) # {} THEN Current(rows, u) ELSE {NextId}

Begin(w, record) ==
  /\ Idle(w)
  /\ tx' = [tx EXCEPT ![w] = record]
  /\ UNCHANGED <<now, sub, banned, remote, events, job, refunded>>

\* The handler asks Telegram for a one-time link, which can fail without
\* stopping it, then loads the rows.  `bought` counts against MaxBuys.
BeginPurchase(w, u, pay, e, bought) ==
  /\ RoomFor(1)
  /\ used["buys"] + bought <= MaxBuys
  /\ \E issued \in {0, 1} :
       LET n == IF issued = 1 THEN used["links"] + 1 ELSE 0
       IN  /\ Begin(w, [IdleTx EXCEPT !.op = "purchase", !.user = u, !.pay = pay,
                          !.loaded = Load(OpenRows(u)), !.event = e, !.link = n])
           /\ live' = live \cup {[user |-> u, n |-> k] : k \in {n} \ {0}}
           /\ used' = [used EXCEPT !["links"] = @ + issued,
                                   !["buys"] = @ + bought]
  /\ UNCHANGED inChat

\* invoice.paid of the checkout: the payment row is locked, no subscription is.
BeginFirstInvoice(w, e) ==
  /\ e \in events /\ e.type = "first_invoice"
  /\ \A v \in Workers : tx[v].event # e
  /\ BeginPurchase(w, Owner[e.psid], StripePurchase(e.psid, e.end), e, 0)

BeginUsdt(w, u) == BeginPurchase(w, u, UsdtPurchase, NoEvent, 1)

BeginGift(w, u) == BeginPurchase(w, u, GiftPurchase, NoEvent, 1)

CommitPurchase(w) ==
  /\ tx[w].op = "purchase"
  /\ \E i \in Target(tx[w].loaded, tx[w].user) :
       /\ sub' = Bought(i, tx[w].user, tx[w].pay, tx[w].loaded, tx[w].link)
       /\ refunded' = refunded \ {i}
  /\ events' = events \ {tx[w].event}
  /\ tx' = [tx EXCEPT ![w] = IdleTx]
  /\ UNCHANGED <<now, banned, inChat, live, remote, job, used>>

(***************************************************************************)
(* Stripe webhooks that lock the subscription row: one action each.        *)
(***************************************************************************)
\* _find_stripe_subscription.
StripeRows(p) ==
  LET claims == {i \in SubIds : sub[i].provider = "stripe" /\ sub[i].psid = p}
  IN  {i \in claims : \A j \in claims : sub[j].expires <= sub[i].expires}

Deliver(e, type) ==
  /\ e \in events
  /\ e.type = type
  /\ MayStart
  /\ events' = events \ {e}
  /\ UNCHANGED <<now, banned, inChat, live, remote, job, tx, used>>

\* invoice.paid of a renewal: no invite link is issued.  In the code the outgoing
\* webhooks are sent between the read and the commit, unlocked when the row it
\* extends is not the one the event names: left out, it is CommitPurchase's race.
DeliverRenewal(e) ==
  LET u == Owner[e.psid]
  IN  /\ Deliver(e, "renewal_invoice")
      /\ RoomFor(1)
      /\ \E i \in Target(sub, u) :
           /\ sub' = Bought(i, u, StripePurchase(e.psid, e.end),
                            NothingLoaded, 0)
           /\ refunded' = refunded \ {i}

DeliverPaymentFailed(e) ==
  /\ Deliver(e, "payment_failed")
  /\ sub' = [i \in SubIds |-> IF i \in StripeRows(e.psid)
                              THEN StartGrace(sub[i], now) ELSE sub[i]]
  /\ UNCHANGED refunded

SubscriptionEvent(r, e) ==
  [r EXCEPT !.pstatus = e.status, !.cpe = e.end,
            !.status = IF e.type = "deleted" \/ e.status = "canceled"
                       THEN "cancelled"
                       ELSE IF e.status \in AccessRestored /\ @ = "cancelled"
                       THEN "active" ELSE @]

\* customer.subscription.updated and .deleted.
DeliverSubscription(e) ==
  /\ Deliver(e, "updated") \/ Deliver(e, "deleted")
  /\ sub' = [i \in SubIds |-> IF i \in StripeRows(e.psid)
                              THEN SubscriptionEvent(sub[i], e) ELSE sub[i]]
  /\ UNCHANGED refunded

\* get_db commits after the response is sent: a handler that dies in between
\* has acknowledged an event it did not apply.
LoseAcknowledged(e) ==
  /\ e \in events
  /\ \A w \in Workers : tx[w].event # e
  /\ used["faults"] < MaxFaults /\ Spend("faults")
  /\ events' = events \ {e}
  /\ UNCHANGED <<now, sub, banned, inChat, live, remote, job, tx,
                 refunded>>

(***************************************************************************)
(* Administrator actions.  Ban, unban and refund talk to Telegram between  *)
(* the read and the commit.                                                *)
(***************************************************************************)
AdminTurn == used["admin"] < MaxAdmin /\ Spend("admin")

\* Ban and unban assign users.is_banned whatever it was, and the UPDATE goes out
\* when the value changes: only then does the handler hold the user's row, and
\* wait for whoever holds it.
Flips(op, was) == (op = "ban" /\ ~was) \/ (op = "unban" /\ was)
UserUnlocked(op, u) ==
  Flips(op, banned[u]) =>
    \A w \in Workers : tx[w].user = u => ~Flips(tx[w].op, tx[w].was)

BeginRemoval(w, op, u, ids) ==
  /\ AdminTurn
  /\ \E a \in [ids -> Answers] :
       /\ \A i \in ids : Answer(a[i])
       /\ Begin(w, [IdleTx EXCEPT
                      !.op = op, !.user = u, !.loaded = Load(ids),
                      !.was = banned[u],
                      !.answer = [i \in SubIds |-> IF i \in ids THEN a[i]
                                                  ELSE "none"]])
       /\ LET removed == {i \in ids : a[i] = "removed"}
          IN  Removes(u, {sub[i].link : i \in removed},
                      {sub[i].link : i \in ids \ removed})

CommitRows(w, written) ==
  LET loaded == tx[w].loaded
  IN  /\ sub' = [i \in SubIds |->
                   IF i \in LoadedIn(loaded)
                   THEN Flush(sub[i], loaded[i], written[i]) ELSE sub[i]]
      /\ tx' = [tx EXCEPT ![w] = IdleTx]
      /\ UNCHANGED <<now, inChat, remote, events, job>>

BeginBan(w, u) ==
  /\ UserUnlocked("ban", u)
  /\ BeginRemoval(w, "ban", u, OpenRows(u))

\* The paid subscription is kept: no status is written.
CommitBan(w) ==
  /\ tx[w].op = "ban"
  /\ banned' = [banned EXCEPT ![tx[w].user] = Net(@, tx[w].was, TRUE)]
  /\ CommitRows(w, [i \in SubIds |->
       RecordAttempt(tx[w].loaded[i], now, tx[w].answer[i], FALSE, FALSE)])
  /\ UNCHANGED <<live, refunded, used>>

Entitled(r) == r.comp \/ AccessEndsAt(r) > now

BanRevoked(u) ==
  {i \in RowsOf(u) : sub[i].status \in AccessHolding /\ sub[i].revoked}

\* One fresh link per row to restore, numbered from the handler's `link`;
\* creating them can fail.  Nothing asks whether the member is banned, nor what
\* took the row's access away.
BeginUnban(w, u) ==
  LET entitled == {i \in BanRevoked(u) : Entitled(sub[i])}
      base     == used["links"] + 1
  IN  /\ UserUnlocked("unban", u)
      /\ used["admin"] < MaxAdmin
      /\ \E issued \in BOOLEAN :
           /\ Begin(w, [IdleTx EXCEPT !.op = "unban", !.user = u,
                                      !.loaded = Load(BanRevoked(u)),
                                      !.was = banned[u],
                                      !.link = IF issued THEN base ELSE 0])
           /\ live' = IF issued
                      THEN live \cup {[user |-> u, n |-> base + i] : i \in entitled}
                      ELSE live
           /\ used' = [used EXCEPT !["admin"] = @ + 1,
                                   !["links"] = IF issued THEN @ + 1 + MaxSubs
                                                ELSE @]
      /\ UNCHANGED inChat

\* Broken variant: only a row that got a fresh link is restored.
RestoredIfInvited(r, n) ==
  IF Entitled(r) /\ n # 0
  THEN [r EXCEPT !.revoked = FALSE, !.retry = NoTime, !.link = n] ELSE r

Restored(r, n) ==
  IF Entitled(r)
  THEN WithLink([r EXCEPT !.revoked = FALSE, !.retry = NoTime], n) ELSE r

CommitUnban(w) ==
  LET number(i) == IF tx[w].link = 0 THEN 0 ELSE tx[w].link + i
  IN  /\ tx[w].op = "unban"
      /\ banned' = [banned EXCEPT ![tx[w].user] = Net(@, tx[w].was, FALSE)]
      /\ CommitRows(w, [i \in SubIds |-> Restored(tx[w].loaded[i], number(i))])
      /\ UNCHANGED <<live, refunded, used>>

\* A confirmed full refund, from the confirmation to the removal it attempts.
BeginRefund(w, u) ==
  /\ OpenRows(u) # {}
  /\ BeginRemoval(w, "refund", u, OpenRows(u))

CommitRefund(w) ==
  /\ tx[w].op = "refund"
  /\ CommitRows(w, [i \in SubIds |->
       RecordAttempt(EndForRefund(tx[w].loaded[i], now), now,
                     tx[w].answer[i], TRUE, FALSE)])
  /\ refunded' = refunded \cup LoadedIn(tx[w].loaded)
  /\ UNCHANGED <<banned, live, used>>

\* extend_days of the row that expires last, when it is active (else the days
\* go to users.bonus_days, which nothing here reads).
ExtendDays(i) ==
  /\ MayStart
  /\ sub[i].status = "active"
  /\ \A j \in RowsOf(sub[i].user) : sub[j].expires <= sub[i].expires
  /\ AdminTurn
  /\ sub' = [sub EXCEPT ![i].expires = @ + PlanDays]
  /\ UNCHANGED <<now, banned, inChat, live, remote, events, job, tx,
                 refunded>>

SetComp(i) ==
  /\ MayStart
  /\ sub[i].status # "absent"
  /\ AdminTurn
  /\ sub' = [sub EXCEPT ![i].comp = ~@]
  /\ refunded' = refunded \ {i}
  /\ UNCHANGED <<now, banned, inChat, live, remote, events, job, tx>>

\* A handler dies, or its commit fails: nothing it loaded is written.  Whether
\* its event is delivered again depends on whether the response was sent.
CrashHandler(w) ==
  /\ tx[w].op # "idle"
  /\ used["crashes"] < MaxCrashes /\ Spend("crashes")
  /\ tx' = [tx EXCEPT ![w] = IdleTx]
  /\ events' \in {events, events \ {tx[w].event}}
  /\ UNCHANGED <<now, sub, banned, inChat, live, remote, job, refunded>>

(***************************************************************************)
(* kick_expired_job.                                                       *)
(***************************************************************************)
DueNow == {i \in SubIds : RemovalsArmed /\ DueForExpiry(sub[i], now)}
BanPending == {i \in SubIds : /\ sub[i].status # "absent"
                              /\ banned[sub[i].user]
                              /\ DueForBan(sub[i], now)}

JobOnly == UNCHANGED <<now, banned, remote, events, tx, refunded>>

\* A pass that finds nothing changes nothing and is not a step.
JobStart ==
  /\ job.phase = "idle" /\ MayStart
  /\ DueNow \cup BanPending # {}
  /\ job' = [IdleJob EXCEPT !.phase = "expiry", !.todo = DueNow,
                            !.loaded = Load(DueNow)]
  /\ JobOnly
  /\ UNCHANGED <<sub, inChat, live, used>>

\* The batch order: expires_at for the sweep, id for the ban drain.
NextInBatch ==
  {i \in job.todo : \A j \in job.todo :
     IF job.phase = "expiry" THEN job.loaded[i].expires <= job.loaded[j].expires
     ELSE i <= j}

\* revoke_subscription_access on the row as loaded.
JobRevoke ==
  /\ job.stage = "pick"
  /\ \E i \in NextInBatch, a \in Outcomes :
       /\ Answer(a)
       /\ LET link == {job.loaded[i].link}
          IN  Removes(job.loaded[i].user, IF a = "removed" THEN link ELSE {},
                      IF a = "removed" THEN {} ELSE link)
       /\ job' = [job EXCEPT !.stage = "record", !.todo = @ \ {i},
                             !.seen = @ \cup {i}, !.cur = i, !.answer = a]
  /\ JobOnly
  /\ UNCHANGED <<sub, used>>

\* record_access_revoke_attempt on the row as loaded, and the commit.
JobRecord ==
  LET i        == job.cur
      loaded   == job.loaded[i]
      recorded == RecordAttempt(loaded, now, job.answer,
                                job.phase = "expiry", job.answer = "never")
      gaveUp   == recorded.abandoned /\ ~loaded.abandoned
  IN  /\ job.stage = "record"
      /\ sub' = [sub EXCEPT ![i] = Flush(@, loaded, recorded)]
      /\ job' = [job EXCEPT !.stage = IF gaveUp THEN "alert" ELSE "pick",
                            !.cur = IF gaveUp THEN @ ELSE 0,
                            !.answer = "none",
                            !.loaded = [@ EXCEPT ![i] = NoRow]]
      /\ JobOnly
      /\ UNCHANGED <<inChat, live, used>>

\* _alert_access_revoke_abandoned: the message may be lost and whatever it
\* raises is logged, so the job goes on either way and nothing keeps a record.
JobAlert ==
  /\ job.stage = "alert"
  /\ job' = [job EXCEPT !.stage = "pick", !.cur = 0]
  /\ JobOnly
  /\ UNCHANGED <<sub, inChat, live, used>>

\* The commit of one member fails.  session.rollback() expires every loaded row
\* and the next `sub.id` cannot be refreshed outside a greenlet: what is left
\* of the batch is skipped, unless this was its last member.
JobRecordFails ==
  /\ job.stage = "record"
  /\ used["faults"] < MaxFaults /\ Spend("faults")
  /\ job' = IF job.todo = {} THEN [job EXCEPT !.stage = "pick", !.cur = 0,
                                              !.answer = "none"]
            ELSE IdleJob
  /\ JobOnly
  /\ UNCHANGED <<sub, inChat, live>>

\* The expiry batch is done: load the ban drain, without the rows seen.
JobDrain ==
  /\ job.phase = "expiry" /\ job.stage = "pick" /\ job.todo = {}
  /\ job' = [job EXCEPT !.phase = "ban", !.todo = BanPending \ job.seen,
                        !.loaded = Load(BanPending \ job.seen)]
  /\ JobOnly
  /\ UNCHANGED <<sub, inChat, live, used>>

JobFinish ==
  /\ job.phase = "ban" /\ job.stage = "pick" /\ job.todo = {}
  /\ job' = IdleJob
  /\ JobOnly
  /\ UNCHANGED <<sub, inChat, live, used>>

CrashBot ==
  /\ job.phase # "idle"
  /\ used["crashes"] < MaxCrashes /\ Spend("crashes")
  /\ job' = IdleJob
  /\ JobOnly
  /\ UNCHANGED <<sub, inChat, live>>

(***************************************************************************)
(* The specification.                                                      *)
(***************************************************************************)
StripeStep == \E p \in PSids :
  \/ Checkout(p) \/ RemoteRenew(p) \/ RemoteRenewFails(p)
  \/ RemoteRecovers(p) \/ RemoteCancel(p)

EventStep == \E e \in events :
  \/ DeliverRenewal(e) \/ DeliverPaymentFailed(e) \/ DeliverSubscription(e)
  \/ LoseAcknowledged(e)

HandlerStep == \E w \in Workers :
  \/ \E e \in events : BeginFirstInvoice(w, e)
  \/ \E u \in Users : \/ BeginUsdt(w, u) \/ BeginGift(w, u)
                      \/ BeginBan(w, u) \/ BeginUnban(w, u)
                      \/ BeginRefund(w, u)
  \/ CrashHandler(w)

CommitStep == \E w \in Workers :
  CommitPurchase(w) \/ CommitBan(w) \/ CommitUnban(w) \/ CommitRefund(w)

PanelStep == \E i \in SubIds : ExtendDays(i) \/ SetComp(i)

JobStep == JobStart \/ JobRevoke \/ JobRecord \/ JobAlert \/ JobDrain
           \/ JobFinish

Next == \/ Tick
        \/ \E l \in live : Join(l)
        \/ StripeStep \/ EventStep \/ HandlerStep \/ CommitStep \/ PanelStep
        \/ JobStep \/ JobRecordFails \/ CrashBot

Spec == Init /\ [][Next]_vars

\* Time passes, APScheduler runs the hourly job and the job runs to its end,
\* and an open handler ends.  No member, administrator or provider is obliged
\* to do anything.
Fairness == WF_vars(Tick) /\ WF_vars(JobStep) /\ WF_vars(CommitStep)

FairSpec == Spec /\ Fairness
=============================================================================
