# The subscription starter: specifications and proofs

The repository sells access to a Telegram channel, a practice chat and a video
portal.  A FastAPI back end takes payments (Stripe, Lava, USDT, manual
transfers) and runs the admin panel and the member portal; an aiogram bot talks
to members and, once an hour, removes those whose time is over.  Both processes
write the same PostgreSQL tables.  This directory holds TLA+ models of that
code, the TLC configurations that check them on small instances, and proofs
that TLAPS checks for every instance.

## 1. The system

| Component (under `src/backend/app/`) | State it keeps | Operations | What makes it correct |
|---|---|---|---|
| Subscription rules `services/subscription.py` | `subscriptions` rows: status, `expires_at`, provider link and period, grace, revoke bookkeeping, `is_comp` | create or extend, release a superseded provider link, grace, end for refund, record a removal attempt | one row per provider subscription; nothing paid is lost; a refund holds |
| Hourly job `bot/tasks.py` | none of its own: a batch of loaded rows | expiry sweep, ban drain, alert | every lapsed or banned row settles; nobody entitled is removed |
| Telegram access `services/channel_access.py` | members in chats, one-time links (at Telegram) | create links, revoke links, ban and unban | nobody is in without a reason; a link dies with the access |
| Stripe and Lava webhooks `api/routers/webhooks_in.py` | `payment_provider_events`, payments | paid, failed, subscription updated and deleted, checkout completed | each charge applied once, in whatever order it is told |
| Checkout and fulfilment `bot/handlers/subscription.py`, `payments/` | `payments` | price, create a checkout, verify a transfer, moderate, fulfil | each sale is served once; each discount is backed |
| Promo codes, referral discount `services/promo.py`, `services/referral.py` | codes, uses, attributions, reservations | validate, use, reserve, settle, link | a limited code is not oversold; one discount per member |
| Gifts `services/gifts.py` | gift rows on payments | create, redeem | one redemption, only of what is still paid |
| Refunds `payments/refund.py`, `api/routers/payments.py` | `refunds` rows, `payments.refunded_amount` | request, synchronise, resolve | never more returned than paid; applied once |
| Partner programme `services/referral_ledger.py` | commission rows, streaks, payout batches | record, vest, cancel, reverse, pay out | no commission is paid twice or for refunded money |
| Reconciliation `services/reconciliation.py` | items by condition, runs | collect, compare, carry, resolve, reopen | no sale stays unnoticed; a resolution survives the next run |
| Cancellation `services/subscription_cancellation.py` | cancellation fields of a subscription, a queue | request, confirm, resolve, digest | the flag proves that the provider has stopped; what it refused stays on the queue |
| Portal sign-in `services/portal_auth.py` | magic links, sessions | issue, redeem, load, revoke | a link opens one session; caps hold; a revoked session stays so |
| Archive `services/vimeo_sync.py`, `api/routers/archive.py`, `portal.py` | videos, modules, memberships | sync, curate, four pages | what an administrator did survives; the pages agree |
| Cutover and removal gate `ops/` | rooms, roster, report, file of failures | plan, remove, retry, gate | only who has not paid comes out, and all of them |
| Reminders `bot/tasks.py` | a mark on the row | read, send, mark | announced before the end, and once |
| Admin sign-in, alerts, exports, support, broadcasts, configuration, front ends, migrations, backups | small or external | CRUD, reads, shell | left aside, see the end |

The components meet in four places.  *Rows:* handlers of the API, of the bot
and the hourly job load the same `subscriptions` rows at READ COMMITTED, mostly
without a lock, await HTTP or Telegram, and commit a difference.  *Events:*
Stripe and Lava deliver at least once and in any order, into a table keyed by
event id.  *Telegram:* a removal or an invite is an external effect that no
rollback undoes.  *Time:* access is a comparison of dates with the clock, so it
changes with no write at all.

What is hard here: two transactions that read one row before either commits; a
Telegram call between the read and the commit; a commit that runs after the
HTTP response (`api/deps.py`, FastAPI 0.141); retries bounded by an attempt
counter; a session that is rolled back in the middle of a batch; events that
come after a refund, or never; a nightly comparison whose findings people
resolve while it runs.  The hazards, each at its line, are in `PROJECT.json`.

## 2. Modules

| Group | Model | What is promised | Instance | Proofs |
|---|---|---|---|---|
| access | `SubscriptionRow` (one row and its rules), `AccessLifecycle` (the state machine) | `AccessProperties`, `AccessScan`; abstract: `AccessLife` | `MCAccess` | `AccessProofs` |
| money | `ReferralRules` (one invitee's book), `RefundLedger` (the state machine) | `LedgerProperties`, `RefundAudit`; abstract: `CommissionLife` | `MCLedger` | `LedgerProofs` |
| buying | `Discounts` (codes, attribution, reservation), `Checkout` (the state machine) | `CheckoutProperties`; abstract: `SaleLife` | `MCCheckout` | `CheckoutProofs` |
| charges | `Intake` (webhooks and the nightly comparison) | `IntakeProperties` | `MCIntake` | `IntakeProofs` |
| cancelling | `Cancellation` | `CancellationProperties` | `MCCancellation` | `CancellationProofs` |
| archive | `Archive` | `ArchiveProperties` | `MCRest` | `PortalProofs` |
| sign-in | `PortalSessions` | `PortalProperties` | `MCRest` | `PortalProofs` |
| cutover | `Cutover` | `CutoverProperties` | `MCRest` | `CutoverProofs` |
| reminders | `Reminders` | `RemindersProperties` | `MCRest` | `RemindersProofs` |

Groups share no variable.  Where the code shares a row, each group keeps the
columns its own rules read: a refund's effect on access is
`BeginRefund`/`CommitRefund` of `AccessLifecycle`, its effect on money and
commissions is `RefundLedger`; a checkout ends in `Checkout` with access opened,
which is `CommitPurchase` in `AccessLifecycle`; a row's contract and flag are in
`Cancellation`, its dates in `AccessLifecycle`.  An operator commented "Broken
variant" is not part of the model: it is a plausible bug that the property
beside it must catch.

### `SubscriptionRow` and `AccessLifecycle`

`sub` is the table.  A row keeps the columns that any rule of access reads; the
texts, `started_at`, `current_period_start`, `cancel_at_period_end` and the
cancellation record are left out.  Dates are day numbers.  `HasAccess` is
`has_subscription_access`, `AccessEndsAt` is `subscription_access_ends_at`
(with `_has_provider_lifecycle`), `DueForExpiry` is the WHERE clause and the
Python filter of `expire_subscriptions`, `DueForBan` is
`subscriptions_pending_ban_revoke`, `RecordAttempt` is
`record_access_revoke_attempt` with the caller's two flags.

A handler that awaits something between its read and its commit is two actions.
`BeginPurchase` issues the invite (before the row is read, as `fulfill_payment`
does) and loads the rows; `CommitPurchase` is `create_or_extend_subscription`
and the commit.  `BeginBan`, `BeginUnban` and `BeginRefund` load the rows and
talk to Telegram; their commits write the difference.  Ban and unban assign
`users.is_banned` whatever it was: a member may be banned twice, and an unban of
somebody who was never banned restores any entitled row it finds removed
(`api/routers/users.py:129`).  Only an assignment that changes the value sends an
UPDATE, and only then does the handler hold the user's row and wait for another
that does (`UserUnlocked`, `was`).  `Flush` is SQLAlchemy's
unit of work: a column is written only when it differs from what was *loaded*,
so an unchanged column keeps what somebody else committed meanwhile, and a
changed one overwrites it.  The Stripe handlers that take `SELECT ... FOR
UPDATE` on the row are one action each (`DeliverRenewal`,
`DeliverPaymentFailed`, `DeliverSubscription`); so are the panel handlers that
await nothing (`ExtendDays`, `SetComp`).

`kick_expired_job` is `JobStart` (refusal, query, batch), `JobRevoke` (Telegram,
for the first of the batch by `expires_at`), `JobRecord` (the attempt and its
commit), `JobAlert` (which may lose its message and keeps no record of it),
`JobDrain` (the second query), `JobFinish`, and its failures: `JobRecordFails`
(a failed commit rolls the session back, which expires every loaded row, and the
loop's unguarded `sub.id` then raises: the rest of the batch is lost) and
`CrashBot`.

Stripe is external: `remote` is its view of each subscription and `events` what
it has not had acknowledged.  Events are delivered in any order;
`LoseAcknowledged` is a commit that fails after the response was sent, and
`CrashHandler` a handler that dies before or after its response.  A handler
never deletes another's event; a redelivered one is stopped by the unique event
id and changes nothing, so it is not a step.

`refunded` is history: rows a refund ended and no later payment extended.

`Overlap = FALSE` lets a handler or the job start only when nothing else runs.
It separates what the code guarantees at all from what only a race breaks.

`AccessScan` adds the night's comparison of Stripe's subscriptions with these
rows (`scan_stripe_local`, `compare_stripe_remote` of
`services/reconciliation.py`) as predicates on the same state, so that a
property may say of a paying member "can come in, or is named by the night's
run".  The local scan alone is not enough: a late `payment_failed` repaints the
row "past_due" and only the comparison with Stripe's answer names it.

`AccessLife` says what a member may rely on.  A row is not there, open or
closed.  A sale opens one row, and none beside a row that gives access; a row is
closed because its time is over or its member is banned; only lifting a ban
opens it again, and only if something of it is left; nobody's row becomes
somebody else's.  Dates move freely: how far a payment carries is the matter of
`EntitledKept` and `RefundSticks`.  `ImplementsAccessLife`
reads the stage off `status` and `access_revoked_at`, and the end off
`AccessEndsAt`.  It holds one handler at a time; with `Overlap = TRUE` TLC
finds two purchases that open two rows.

`KeptSpec` is `Spec` without the two steps by which the code loses sight of a
live invite link: a purchase that extends a row and writes a fresh link over one
nobody has used (`LinksKept`; `services/subscription.py:135`, which does not
call `revoke_invite_link`), and a handler that dies with links issued and no
row that holds them (`NoLinkLost`).  Whoever joins by such a link sits in the
chats with nothing to remove them by.

### `ReferralRules` and `RefundLedger`

`pay`, `refund`, `ref`, `comm` and `batch` are the tables of the same names,
with the columns a rule reads; `stripe` is Stripe's side by idempotency key
(external), `tx` what each open handler has read and will save, `payouts` a
history of money sent.  The clock counts months, because streaks, gates and
windows are months.  Money is whole cents.  `Share` is the 20% rounded to the
nearest cent, once for the commission and once more for every refund, as `_money`
does, so the shares of two halves need not add up to the share of the whole.  A
currency is rated or not; an unrated
one accrues a commission of zero, as `_commission_amount` does.

`Fulfil` is the ledger's half of `fulfill_payment` on the period the purchase
bought.  That period starts now or at the end of the previous one (a USDT
renewal made ahead, a Stripe renewal whose webhook is late), and
`record_referral_commission_intent` tests readiness *at that start*.
`SubscriptionCancelled` is the provider's cancellation.  Both lock the
`referrals` row first and are one action.

A refund handler is `RequestRefund`, or `Probe` and then `Sync` or `Resolve`;
each of these ends in an open `save`, with the payment's row lock held, and
`Commit` (or `Fail`, a rollback) ends it.  `Probe` is the unlocked first SELECT
of `_locked_refund`.  The second SELECT waits for the lock but returns the same
object of SQLAlchemy's identity map, whose columns it does not refresh, so the
handler decides on the copy of `Probe`; the payment itself is first loaded
under the lock and is fresh.  `AskStripe` retrieves by id or creates under the
stored key, which Stripe answers with the first answer again; an answer may be
lost.  `Commit` writes what differs from the copy (`Flushed`), respects
`uq_refunds_one_active_per_payment`, and adjusts the commission, whose
row was loaded without a lock (`tx[w].seen`).

`BeginBatch` is the unlocked SELECT of `vest_due_commissions`, `CommitBatch`
the rest of the request: vesting, lapses and a draft batch, or a 400 that rolls
all of it back.  So vesting is only ever stored together with a batch.
`MarkSent`, `MarkPaid` and `CancelBatch` lock the batch and its rows and are one
action each.  `Tick` waits for open handlers: none lasts a month.  Gift
payments, which earn no commission, and the texts of adjustments are left out;
only the sum of the *adjusted* ones is kept, the *cancelled* and *reduced* ones
being the row's own change.

`RefundAudit` is `refund_consistency_issues`, the part of the nightly
reconciliation that reads refunds against payments, as predicates on the same
state.

### `Discounts` and `Checkout`

`books` are the promo code with its running total, the uses, the referrer of
each member, the attributions and the reservation of the referral discount;
`Discounts` has the rules on them, `Checkout` the transactions.  A handler reads
(`ChooseMethod`, `SubmitEmail`, `SubmitHash`, `VerifyUsdt`, `FollowLink`,
`EditCode`), talks to a provider or an explorer, and writes (`Redeem`,
`Reserve`, `Judge`, `LinkInviter`, `SaveCode`).  Between the two anything may
happen, but for the row locks the code takes (`Locked`).  The providers' answers
are chosen freely; what the code does with each is not: a Lava checkout that is
refused rolls back the use of the code and the reservation, a Stripe checkout
that fails is swallowed by the handler and committed.  `ProviderPaid`,
`Moderate`, `GiveBack` and `ClaimGift` are one transaction each.  The verdict on
a transfer is computed from the transfer (`Chain`), in the order of
`usdt_verifier.py`.

`SaleLife` says what the shop promises of each sale: it is offered, voided or
paid, served once, and given back.  `ImplementsSaleLife` maps the status of the
payment and the number of times access was opened on it to its stages.

### `Intake`

One contract is one checkout with its charges.  `Settles` and `Declines` are the
provider; `wire` is what it still means to tell us.  `Deliver` takes one message
in one transaction (`TakePaid`, `TakeFailed`, `TakeCompleted`), chooses whether
the commit succeeds after the answer was given, and leaves the message on the
wire or not: so a message is lost, repeated, reordered, or forgotten by a crash.
The reconciliation run is `RunReads` (the books), `RunCompares` (the providers'
answers, and then the history of the conditions) and `RunRecords`; `RunDies` may
end it anywhere.  `Resolve` and `Reopen` are the administrator's.

Left out: gifts in `checkout.session.completed`, subscription events (they are
in `AccessLifecycle` and `Cancellation`), `scan_usdt_local`, the fallback match
by e-mail, items about a provider that did not answer, the script for the first
backlog, the windows of 30 days and 1000 rows.  There is one run at a time.
Assumed: renewals carry no payment id (Lava's UTM), and a night passes between
two charges of one contract.

### `Cancellation`

`contract` is the provider's truth, `row` what we wrote down, `press` a button
press between the question to the provider and the commit.  `Press` may have
stopped the charge and lost the answer; `Settle` writes, or rolls back because
the answer to the member could not be sent.  Provider events are not stored: any
event the provider has had reason to send may be delivered at any time, again
and again, or never (`Deliver`), which is weaker than any order.  Rows that
changed contract under an open press are `switched` and exempt, because the code
takes no lock there.  The queue is the set of open rows.  The alert and the daily
digest only read it and are left out: both may be swallowed, and the digest lists
the ten oldest rows (`services/subscription_cancellation.py:395`), so no row of
the queue is sure to be heard of.

### `Archive`

`vimeo` is the owner's account, `sync` the runs under way with what they have
read and fetched, `pair` the membership rows with their tombstones, `edit` the
membership an administrator is changing.  A run is one transaction in steps:
`ListVideos`, `UpsertVideos` (rows read and locked), `FetchShowcases`,
`ReadModules` (the modules as they are before the merge), `Group` (the flush of the
modules, which waits for another run's and locks them; the membership rows; the
primary modules, read), and `FinishSync` (the commit, a collision with another
transaction, or a crash).  What a run has flushed is written with its commit: no
other transaction sees it earlier, and its rows stay locked (`Locked`,
`ModuleLocked`).  What it has *read* may be stale by then: `Merged` puts the title
that was read over the module as it is.  A change of a membership is
`AddToModule` or `RemoveFromModule`, which read the row and the primary module, and
`SaveEdit`, whose UPDATE of the video waits for a run that has flushed it and then
writes the primary it read before; the other edits are one transaction each.  The
four pages of the portal are four operators, written from the four queries.  Left
out: order, thumbnails, durations, descriptions and privacy warnings.

### `PortalSessions`

A redemption is `Click` (the link is found), `Claim` (the conditional UPDATE,
which locks the link), `CountSessions` (under the advisory lock, which is
`Mutex`) and `OpenSession` with the commit; `Turned` or `Crash` ends it without.
A page is `OpenPage` (the session is loaded) and `ClosePage`, whose commit
slides the end of life (`Slid`).  Issuing a link and its cap are one step: the
code has no lock there and the cap can be passed by as many links as are asked
for at once.  `revoke_all_for_user` is never called and left out.

### `Cutover`

The rooms at Telegram, the environment, the bot's users and what each member's
subscription comes to in one word; the gate (`GateReports`, `GateTakes`,
`GateWrites`), the hourly job as one atomic step per member (`Sweep`;
`AccessLifecycle` has it in detail), and the command: `PlanRoster` or
`PlanRetry`, a `Kick` for each member and each attempt, `Finish`.  One removal
does in each room what Telegram answers: done, half done (banned, not unbanned),
refused, or a flood limit, which is waited out once.  One console command runs
at a time.

### `Reminders`

The row of each member, by the days left on it, and the daily run:
`ReadReminders`, then `SendReminder` and `CommitReminder` for one member after
the other, `ReminderDies` or `SkipReminders`.  A run and a purchase fit into a
day.  An administrator's revocation, the comp flag and the pre-launch hold
appear only as days that are skipped.

## 3. Runs

| Run | Shows |
|---|---|
| `AccessStripe` | two overlapping handlers, the job and Stripe's transitions: types, one claimant per provider subscription id, and whoever is charged can come in or is named by the night's run |
| `AccessSettles` | liveness: a lapsed row and a banned member's open row always settle, through refusals, flood pauses, a failed commit and a crash of the bot or of a handler |
| `AccessSweep` | sequentially, with Stripe renewing, failing, recovering and cancelling, and a failed commit: whoever sits in the chats has a row that explains it |
| `AccessPanel` | sequentially, with a launch floor, two purchases and three administrator actions, a ban of a banned and an unban of a free member among them: ban and unban keep what was paid, a refund is not undone, and the rows implement `AccessLife` |
| `LedgerBooks` | one handler at a time, two partners, three payments, lapses, a cancellation, a refund, a payout: waiting rows share their invitee's gate, a batch is worth its rows and takes nobody below the floor, and the books implement `CommissionLife` |
| `LedgerRefunds` | one handler at a time, automatic and manual refunds of one payment whose shares do not divide, with every answer of Stripe, a lost answer or a failed commit: the night's audit of refunds finds nothing, no refund on record returns money twice, a commission keeps the share of what was kept, to within the roundings |
| `LedgerRaces` | two overlapping handlers: no commission paid out twice, no payment refunded beyond its price |
| `CheckoutSales` | two buyers, two concurrent handlers, one use of a code and one transfer: every payment costs what its discount says and every discount has its record, a use of the code or the reservation; one transfer settles one payment; every sale is served once (`SaleLife`) |
| `ReferralSettlesOnce` | **violated**: a member whose reservation has expired reserves again, and both checkouts are paid at the referral price |
| `IntakeSales` | webhooks lost, repeated, reordered and forgotten, and the nightly run: access is opened once for a paid charge, a listed sale is served, shown to an operator or written off with its contract, and (liveness) so is every sale of an invoice in the end, without any webhook |
| `TheRest` | the archive, the sign-in, the cutover, the reminders and the cancellation of a renewal, which share no state; each behaviour plays one of them: 13 properties |
| `ToldOff` | **violated**: after a confirmed cancellation and a new purchase the bot still says that there will be no more charges |

`ToldOff` and `ReferralSettlesOnce` are the runs whose property is expected to
fail; the findings, with the lines they contradict, are in `PROJECT.json`.  A
type invariant is part of one property of each group (`OneClaimant`,
`DiscountBacked`, `OpenedOnce`, `FlagIsProof`, `PagesAgree`, `Accounted`,
`BatchKeepsItsWord`) or proved.

### Where the models and the documents differ

Some promises of comments and documents do not hold of the code as deployed.
The passing runs check what does hold; the rest is named here, with the lines,
and each was seen in a trace or follows from one step of the model.

*Access.*

* A ban drain that has loaded the row writes `access_revoked_at` after an unban
  has committed (`bot/tasks.py:239`), against "the paid subscription state is
  preserved" and "admin unban can cleanly restore"
  (`services/subscription.py:508`, `510`).
* The sweep judges a row, not a member: the old lapsed row of a member who holds
  a fresh one is swept and the member banned out of the chats
  (`bot/tasks.py:184`), while the portal, which asks "the same predicate", lets
  them in, against "A user kicked from the channel cannot reach the archive"
  (`services/subscription.py:66`).
* "One member the bot cannot remove must not cost the other ninety-nine"
  (`bot/tasks.py:177`): a failed commit rolls the session back, which expires
  every loaded row, and the unguarded `sub.id` at line 176 then raises: the rest
  of the batch waits for the next hour (`bot/tasks.py:213`).
* A removal is recorded for good on a row that a renewal has made current while
  the sweep waited for Telegram: the judgement is that of the loaded row
  (`bot/tasks.py:192`, `207`).
* "A gift always grants its full duration" (`services/gifts.py:188`) holds of one
  purchase at a time: two that overlap start from one `expires_at`
  (`services/subscription.py:106`), and the later commit is the only one that
  counts.
* With Stripe events `RefundSticks` fails: a `customer.subscription.updated` after
  a refund whose removal failed moves `current_period_end` ahead again.
* An unban restores any entitled row that was removed, whatever removed it
  (`api/routers/users.py:129`): also the one a sweep or a refund has just closed
  for a member who was never banned, if something of it is left.
* A second purchase writes its link over the first one's, used or not
  (`services/subscription.py:135`), and a handler that dies leaves the links it
  has issued; neither is revoked by a removal, which knows only the link on the
  row (`services/channel_access.py:230`).  Under `Spec` such a purchase makes
  `PresenceAccounted` fail, hence `KeptSpec`.
* "Set means: stop retrying, a human was told once, and the member is still in
  the channel" (`db/models.py:130`): nobody is sure to have been told.  Only the
  job calls the alert, a ban or a refund that makes the last attempt does not
  (`api/routers/users.py:223`); a crash between the commit and the alert loses it;
  and the alert swallows its errors (`bot/tasks.py:287`) and returns `False` after
  a failed send (`observability/alerts.py:119`), which nobody reads.
* `db/models.py:163` says entitlement reads `expires_at` and never the provider
  period, while `subscription_access_ends_at` prefers the period on every
  recurring row, so `extend_days` changes nothing there.
* A Stripe row that USDT or a gift has extended is out of the night's sight, so
  a removal by a stale sweep there is named by nobody.

*Money.*

* "Running total of applied rows" (`db/models.py:263`): `_locked_refund` decides
  on the copy it read before the lock (`api/routers/payments.py:548`, `561`), so
  two confirmations of one partial refund count it twice, and the night's audit
  then reports the total.  One handler at a time, it never has to.
* "Before the invitee completes one uninterrupted three-month paid streak"
  nothing is payable (`services/referral_ledger.py:227`): a period prepaid past
  the gate vests on the day of payment (line 310).
* Rounding: each refund's share is rounded by itself
  (`services/referral_ledger.py:475`, `1047`, `1155`), so partial refunds claw back
  a cent more or less than the commission: 29.99 given back as 15.02 and 14.97
  takes 5.99 of 6.00, 10.00 as 3.33, 3.33 and 3.34 takes 2.01 of 2.00.
  `RefundReachesCommission` bounds the drift by two fifths of a cent for each
  rounding.
* With `Overlap = TRUE` `RefundReachesCommission` and `BatchKeepsItsWord` fail,
  since a refund that read a commission as pending may reduce it after it was
  vested or batched, against "it is NOT auto-reversed"
  (`services/referral_ledger.py:407`); `ReturnedWithinPrice` fails when a
  confirmation, a failure and a new request of one refund interleave.
* With one handler at a time, a partial refund of an unrated payment cancels the
  whole waiting streak, because its target is zero
  (`services/referral_ledger.py:452`); and a request repeated with another
  amount after a rolled-back Stripe refund uses a new key
  (`payments/refund.py:478`), so Stripe may return more than is on record.

*Buying.*

* "The discount can settle at most once" (`services/referral.py:238`): the
  reservation expires after 24 hours, the payment it priced does not, so a
  second checkout may be discounted too and both be paid
  (`payments/fulfillment.py:147`).  "The benefit settles exactly once"
  (`services/referral.py:328`) is true of the reservation, of which the earlier
  payment finds none that is active, not of the price.  The run
  `ReferralSettlesOnce` shows it; `SlotBacks` says what the reservation does
  guarantee: it stands for the newest checkout at the referral price, is spent by
  that one, and was renewed at most once in its term.
* "Leaving the caller's transaction usable" (`payments/usdt_verifier.py:430`,
  `services/referral.py:307`): `begin_nested` flushes what is pending before it
  opens the savepoint, so the unique conflict may strike outside of it and fail the
  whole request.  `Judge` and `Reserve` have both outcomes.
* A Stripe checkout that fails after the use of the code was written leaves the
  use (`bot/handlers/subscription.py:556`): the next attempt is priced without.

*Charges.*

* The payment id in Lava's metadata is said to recover the payment of an
  interrupted commit (`payments/lava_provider.py:115`); the rollback takes the
  payment row it names.
* A resolution or a reopening committed between a run's reading of the history
  and its commit is overwritten: the run writes the status it read
  (`services/reconciliation.py:155`).
* An item is born with the status of its condition's last one, and a condition
  names the payment, not the sale (`services/reconciliation.py:155`-`176`): once an
  operator has resolved an item about a sale, a later sale of that contract may be
  written "resolved" and never be on a list.  `SaleAccounted` counts as shown only
  what was written open, and exempts the contracts of which an operator has
  resolved a sale (`WrittenOff`).
* A sale of the offer page declined at another price binds its invoice, so the
  amount guard is passed by on the retry.
* `_remote_fetch_issue` without an `entity_id` gives all failed fetches one key.
* A paid event of Stripe that is lost altogether is reported by nobody: the
  comparison walks invoices that some payment already knows.
* A USDT payment approved by hand without a hash would be named every night
  (`usdt_succeeded_missing_verification`).

*Cancelling.*

* `cancel_resolved_at` is not cleared by a new request, so a refused one may
  never enter the queue; a later confirmed request clears an earlier refused one
  though its older contract still charges; a purchase on another contract makes
  the item of the queue show the wrong one; the queue ignores the status of the
  row.
* With two presses of one member at once `RefusalStaysOpen` fails: the first is
  told "yes" on the old contract, a purchase moves the row to a new one, on
  which the second is refused; the first then writes its flag and "confirmed"
  onto the new contract, and the second's refusal finds the flag set
  (`bot/handlers/subscription.py:1090`).  Hence the hypothesis of its theorem.
* The row is not locked between the question to the provider and the commit: the
  answer about the old contract is written beside a new one
  (`bot/handlers/subscription.py:1090`), so "cancel_at_period_end means the provider
  will not charge again" fails on such rows.  They are `switched`, and
  `FlagIsProof` does not speak of them.  The answer "an administrator will see to
  it" precedes the commit, so a crash loses the promise.

*Archive.*

* "Admin edits survive re-sync: module renames via a last-synced snapshot": a name
  committed between a run's read of the module and its flush is overwritten, and
  the snapshot then equals the title, so no later run sees that there was a name
  (`services/vimeo_sync.py:364`-`413`, `api/routers/archive.py:374`).  Without the
  exemption `Merging` TLC finds it; `RenameSticks` speaks of every other name.
* `archive_videos.module_id` may name a module the video is no longer in:
  `recompute_primary_module` (`services/vimeo_sync.py:499`-`514`) reads before its
  UPDATE waits for the run that holds the video's row.  The pages do not read that
  column, so `PagesAgree` holds all the same and says nothing of it but that the
  module exists.
* Overlapping syncs hide a video the other run has just created, and no later
  sync shows it again: a temporarily missing video stays hidden as well.  Two
  runs that create one video collide on its key.
* A name given by an administrator that coincides with Vimeo's is later
  overwritten; an edited title of a video is overwritten by the next sync.  A
  membership added by hand that Vimeo also lists leaves no tombstone when it is
  removed, and the next sync adds it again.
* `/videos` is capped at 2000 rows (`_PORTAL_VIDEOS_LIMIT`), the documents speak
  of 3000 lessons.  `update_module` does not recompute primary modules, so a
  video may name a hidden one.

*Cutover.*

* Who pays during the run, which takes over an hour, is removed all the same:
  the plan is made once.  `PlanIsExact` speaks of the moment of the plan.
* A username on the allowlist spares only a line with that username; a stale
  username that belongs to another paid person by now keeps a stranger in.
* The gate's rows are not locked: a renewal between its query and its commit is
  overwritten with "expired".  "GATE CLEAR" does not count the rows in
  Telegram's retry window.
* A half-removed member who then pays stays banned.  The file of failures is
  written only at the end.

*Reminders.*

* A renewal between the run's query and the commit of the mark leaves the new
  period unannounced (`crossed`).
* USDT that extends a row paid by card keeps its provider id, so the member
  never gets a reminder although nobody will charge again.

### Bounds

One member and one provider subscription suffice for the per-row properties,
since no handler relates two members, except the order of a batch.  Two or three
rows: a second row is what a purchase after a lapse makes, a third what a
concurrent one does; liveness is about one row at a time and has one.  A horizon
of 3 or 4 days with a plan of 2 and a grace of 1 lets a period be bought, lapse, be
extended and lapse again; where there is no Stripe, a horizon of 2 with a plan of 1
does.
`MaxAttempts = 2` puts the limit one retry away.  Two handlers are enough for
every race found; the third concurrent actor is the job.  `MaxBuys`,
`MaxRemote`, `MaxAdmin`, `MaxFaults` and `MaxCrashes` count what the
environment may do.  Deadlock checking is off: at the horizon the system stops.

`AccessSweep` has one purchase and no crash of a handler, so every link is kept
there under `Spec` and `PresenceAccounted` needs no hypothesis; the theorem
covers any number of purchases and crashes of the bot under `KeptSpec`.
`AccessPanel` checks the refinement of `AccessLife` where rows are extended,
banned, refunded, restored and revoked; what Stripe does to them there is the
theorem's, which has every action.

For the ledger: in `LedgerBooks` two payments of one invitee make a streak that
can be extended or lapse, a third of another partner's invitee makes a batch of
two partners; `VestingMonths = 2` with periods of one or two months puts the
gate before, at and after the end of a period, and `Horizon = 3` lets it pass.
Each commission is 2 units and the threshold 3, so one is below the floor, two
of one partner above it, and two of different partners must not be combined.
`LedgerRefunds` needs two refunds of half the price and one fault, on one
payment: refunds of different payments share nothing but the streak, which
`LedgerBooks` covers.  Its price is 14 cents and each half 7: the share of the
whole is 3, of each half 1, so the roundings do not cancel out.  `LedgerRaces` has
one refund, so that two handlers contend for it, and two batches, so that a
released row can be batched again.

For `CheckoutSales`: two buyers and two handlers make every pair of concurrent
transactions; one use of the code and one transfer make them compete; two
payments are what a cap, a reservation and a hash need to be taken twice; four
handlers started, and two days for the 24 hours of a reservation.
`ReferralSettlesOnce` needs one buyer and transfers only.

For `IntakeSales`: one contract with a first charge and a renewal, since charges
of different contracts meet only in the matching, which is by contract.  The
items of two kinds are followed from run to run (`Followed`), the two that name
a payment and may so outlive the sale they were about; every kind is computed
in every run.

For `TheRest`, side by side.  *Archive*: one video, one showcase, one module made
by hand, two titles and two runs, which is what a tombstone and a merge are about.
It is checked from three sides, since all of it at once is beyond the time of a
run.  "names" has an empty showcase, two runs and renames at any moment; "members"
two runs and the showcase's module, never hidden, with memberships edited at any
moment; "modules" one run and both modules.  Outside of "names" there is one title.
The showcase is never deleted and holds only listed videos (`ArchiveBound` of
`MCRest`), and while two runs are under way only names or memberships are edited
(`OthersRest`).  The theorems have none of these bounds.  *Sign-in*: three links
and sessions, two clicks, a cap of two links and one session.  *Cutover*: two
people, one username, two rooms, two environments; a purchase, two removals of the
hourly job, one run of the command and one of the gate; rooms answer done, half or
refused.  The pre-launch hold and rooms known only by a link are in the model and
not in the instance.  *Reminders*: two members, a window of two days, a term of
three, four days at most.  *Cancelling*: one contract at Stripe and one at Lava, two
rows (a purchase after a lapse makes a second), one press at a time, any number of
events, purchases, lapses and resolutions.

### Fairness

Weak fairness of the clock, of `JobStep` (APScheduler runs the job every hour,
`_build_scheduler`, and a pass ends) and of `CommitStep` (a handler ends).  No
member, administrator or provider is obliged to do anything; failures are
bounded and not fair.  `JobRevoke` chooses Telegram's answer freely, so
settlement never relies on a removal that works: it relies on the attempt
bound.

`IntakeSales` assumes that a run starts every night (weak fairness of
`RunReads`), that again and again one can read Lava's journal, and that such a
run is not cut short for ever (strong fairness).  No webhook is fair, so what
surfaces does so by the run alone.

## 4. Proofs

Each theorem holds for every value of the constants that meets the named
assumptions of the modules it is about.  Where a theorem has a hypothesis, the
runs named in section 3 check it under the same one, and without it the property
fails of the code: section 3 says how, except where noted.  The inductive
invariants were found with TLC on the runs' instances before they were proved.

### Access (`AccessProofs`)

Whatever interleaves:

* `TypeCorrect`: `Spec => []TypeOK`.  The inductive invariant adds
  `IdsKnown`: an open handler works for a member, and a job past its pick works
  on a row, for otherwise the row it writes might not be one.
* `ClaimantCorrect`: `Spec => []OneClaimant`.  `ClaimsApart` is not
  inductive.  A purchase releases the id it binds on the rows that carry it *in
  the table*, but writes the release as a difference from the rows it *loaded*:
  had it loaded a row before the id was bound there, that difference would be
  empty and two rows would carry the id.  `LoadSound` says this cannot be, and
  rests on `TxSound` (a purchase that binds an id works on the first invoice
  still queued) and `EventsSound` (an id has one first invoice, and no renewal
  while it is queued).  So the property rests on Stripe sending no renewal
  before the first invoice is acknowledged, which the model assumes in
  `RemoteDue` and the README states here.

One handler at a time (`~Overlap`), the invariant is `SeqInv`: at most one of
the handlers and the job is under way, and what it has loaded is what the table
still holds (`TxFresh`, `JobFresh`), so that `Flush` writes what the handler
decided.  From it

* `PresenceAccountedCorrect`: `~Overlap => (KeptSpec => []PresenceAccounted)`,
  with Stripe, failed commits and crashes of the bot.  The hypothesis is about
  steps, so it is part of the specification; the steps it takes out are those
  the code really takes and should not (section 2).  `SeatInv` adds that every
  live link is on an open row of its member or is one a handler will write there
  (`LinksHeld`), and that whoever is inside has an open row or a handler about
  to open one (`Seated`): a purchase, or an unban that finds a row to restore.
  A removal comes before its commit: `Leaving` (a ban or a refund) and `Swept`
  (the job) say that a member who is still inside, or still has a live link, has
  it by a row whose removal failed, and that row stays open.
* `ImplementsAccessLifeCorrect`: `~Overlap => (Spec => ImplementsAccessLife)`.
  A refinement, step by step: `StepWritten` lists everything a step may do to a
  row (sold, renewed, amended, attempted, repaid, returned) and `RowLife` what
  each does to its life.  `LifeInv` adds to `SeqInv` that an expired row has
  been removed from (`ExpiredIsOut`), for otherwise an event that makes it
  "cancelled" would open it.  That a row is opened again only for a free member
  needs no invariant: an unban leaves the member free, whoever they were.

`Panel` is `~Overlap` and no Stripe subscription: payments in USDT, gifts,
administrators, the job.

* `RefundSticksCorrect`: `Panel => (Spec => []RefundSticks)`.  `Ended`: a
  refunded row is cancelled and all its dates are past, grace included, so
  neither an unban nor an extension of days finds anything to revive.
* `EntitledKeptCorrect`: `Panel => (Spec => []EntitledKept)`.  `OnlyBans`: a
  removal recorded on an active row inside its period comes from a ban.  The
  job's removals are not among them because of `Covered`: without Stripe no row
  is sold for longer than it gives access.

`NothingLost` is no lost delivery, failed commit or crash; `OneEach` is one
Stripe subscription to a member, for as long as the history runs.

* `PayingOrNamedCorrect`: `(NothingLost /\ OneEach) => (Spec =>
  []PayingOrNamed)`, with overlapping purchases, webhooks, passes of the job and
  any administrators.  `SaleInv` adds to `ClaimInv` that a subscription Stripe
  charges for has its first invoice queued or a row that claims it (`Sold`);
  that nobody has seen an id before its first invoice is handled (`NotYet`), so
  that the difference a purchase writes does bind it; that a row with an id is
  its owner's (`Owned`); that loaded rows stay (`LoadedStay`); and that
  an open purchase has a row left to insert (`Room`).  At rest the row is
  found: it gives access, or `ShutOutRemotely` names it.  Both hypotheses are
  needed.  A lost first invoice leaves no row, so nothing for this run to judge.
  And the code lets a member check out twice: with two subscriptions TLC finds
  that a late first invoice of the first, already cancelled one takes the
  member's current row from the second, whose deletion then ends it, and the
  second is charged for with no row.

### Ledger (`LedgerProofs`)

With any number of overlapping handlers, from `IInv`:

* `PaidOutOnceCorrect`: `Spec => []PaidOutOnce`.  It is not inductive:
  `VestDue` writes "vested" on the rows that were pending when it read them,
  whatever they are now, so a paid row may lose its status.  `BooksSound` says
  what it cannot lose: its place in a paid batch, which takes it out of every
  later one.  It also says that a payment still pending has no commission, for
  recording one starts from a fresh row in no batch.
* `NeverOverRefundedCorrect`: `Spec => []NeverOverRefunded`.  `HandlersSound`
  adds that what an open handler will save is within the price and belongs to a
  payment somebody made; `RefundsKnown` carries the latter to the table.  The
  proof does not need the row lock: a late commit overwrites the total with one
  that is within the price, which is also why the total can be that
  of one confirmation too many while this holds.

One handler at a time, from `SeqInv`: the types; `OneAtATime`; what a handler
has read is what is stored (`HandlersCurrent`); the waiting rows of
an invitee wait for the gate of a streak that has not been earned yet
(`Streaks`); each batch is worth its rows (`Rows`, `Words`);
the confirmed refunds of a payment add up to its total and the open one fits
into the rest (`RefundsAddUp`); and what is left of a commission is the share of
what is left of the payment, to within the roundings (`Shares`).

* `PendingShareTheGateCorrect`, `BatchKeepsItsWordCorrect` (with the ledger's
  types), `AuditStaysQuietCorrect`, `ReturnedWithinPriceCorrect`, each of the form
  `~Overlap => (Spec => []...)`.
* `RefundReachesCommissionCorrect`: `~Overlap => (Spec =>
  []RefundReachesCommission)`, for any price, amounts and number of refunds.
  `ShareNearest` bounds one rounding.  A waiting commission is rounded afresh from
  what is left, so only an earned one drifts, by one rounding for each refund that
  has been accounted for; `ShareMonotone` shows that what is claimed from it is
  never more than its row is worth.
* `ImplementsCommissionLifeCorrect`: `~Overlap => (Spec =>
  ImplementsCommissionLife)`.  A refinement, step by step: recording, vesting,
  cancelling and reducing a row settle it, `MarkPaid` is the payout of its
  batch, everything else is a stutter.

Sums over sets of rows and of refunds are folds.  `Total` is the same sum as a
recursive function on the subsets of a finite set, and the lemmas `TotalStep`,
`TotalSplit`, `TotalSame` and `TotalMonotone` are what the proofs use of it.
They need no induction theorem: a smallest number, or a smallest finite subset,
that broke the claim would have a predecessor that breaks it as well.
`AmountTotal` and its kin say that the operators of the model are such totals.

### Checkout (`CheckoutProofs`)

For any buyers, inviters, prices, transfers and number of handlers:

* `DiscountBackedCorrect`: `Spec => []DiscountBacked`.  `Backed` splits it: the
  code's total is the number of uses (`UsesCounted`), each use names the payment of
  its member that was priced by the code (`UsesBacked`) and such a payment has its
  use (`PromosRecorded`), every payment costs what its discount says (`Priced`), and
  a member's reservation stands for the newest payment at the referral price, spent
  when that one opens access (`SlotsBacked`).  `DesksKnow` says what an open handler
  may rely on: nobody else settles the payment it asks the explorer about, and a
  reservation it is about to make is for no gift.
* `TransferPaysOnceCorrect`: `Spec => []TransferPaysOnce`.
* `ImplementsSaleLifeCorrect`: `Spec => ImplementsSaleLife`.  A refinement;
  it needs `OpensLater`: a sale that is pending, in review or an unredeemed gift
  has opened nothing yet.

### Intake (`IntakeProofs`)

For any contracts, renewals and conditions followed:

* `OpenedOnceCorrect`: `Spec => []OpenedOnce`.  `WireKnows`: a message tells of
  a charge the provider made; `Books`: access was opened as often as a payment
  stands for the charge as paid, and no two payments share an invoice.
* `SaleAccountedCorrect`: `Spec => []SaleAccounted`.  `Journals` follows a run
  from the reading of the books to its record: what it has listed is accounted for,
  or among what it is about to name (`ListKnows`).  It does not follow that a named
  sale is shown: an item whose condition the run read as resolved is written
  resolved.  `HistoryKnows` says that such a condition was resolved by an operator,
  which writes its contract off.  `InOrder`, that a renewal is charged after the
  night that found its predecessor, rests on the assumption of section 2 that a
  night passes between two charges.

`IntakeAssumption` says, since the proofs, that `None` is no condition: a
condition is a pair, and no run ever gave `None` as one.

### Cancelling (`CancellationProofs`)

* `FlagIsProofCorrect`: `Spec => []FlagIsProof`, for any number of presses at
  once.  `FlagHolds` is the property for the row's present contract;
  `PressesKnow` that a press was told the truth and that its row, unless
  switched, still has the contract it asked about or none; `OneLive` and
  `OneClaim` that a member has one live row and a contract one row, so that an
  event finds the row it is about.
* `RefusalStaysOpenCorrect`: `OnePress => (Spec => []RefusalStaysOpen)`.
  `OnePress` is a single press at a time; two break it (section 3).
  `RefusalsRecorded`: the row of a refused contract says "manual"; `Clean`: it
  says nothing false of the contract it has, switched or not.

`CancellationAssumption` says, since the proofs, that the one-time means of
payment are USDT and gifts and that row ids are positive, as in the code.

### Portal and archive (`PortalProofs`)

* `PortalTypeCorrect`: `PortalSpec => []PortalTypeOK`.
* `LinkOpensOneCorrect`: `PortalSpec => []LinkOpensOne`.  It rests on
  `OneHolder`, the row lock as an invariant: a link claimed by a click under way
  has one holder and is not used; on `ClicksHaveLinks`, and on
  `FreshFromNowhere`: a session that was not opened comes from no link.
* `RevokedStaysCorrect`: `PortalSpec => RevokedStays`, from the types: neither
  the commit of a page nor the cap turns "revoked" into anything else.
* `WithinCapCorrect`: `PortalSpec => []WithinCap`.  `CapInv`: one redemption at
  a time has counted, and the live sessions are among those it counted.
* `PruneSticksCorrect`, `RenameSticksCorrect`, `PagesAgreeCorrect`:
  `ArchiveSpec => []...`, for any videos, modules and overlapping runs, without
  the bounds of the run.  `AInv` adds what a run and an edit hold between their
  steps (`RunsOK`, `EditOK`): a run adds rows only of videos that will be known
  and drops only rows the showcase does not back (`PlanOK`), and of a module that
  bears an administrator's name it has read a title that was not Vimeo's
  (`SeenOK`), so its merge keeps it.  Further, that a row or tombstone is of a video
  the archive knows, so that a sync that lists the video finds it (`RowsKnown`), and
  that a title given by hand differs from the last one synced (`OwnDiffers`).

### Cutover (`CutoverProofs`)

* `PlanIsExactCorrect`, `AccountedCorrect`, `GateTellsJobCorrect`: `CutoverSpec
  => []...`, for any people, rooms, rosters and answers.  `RemovedAreOut`: who
  was planned, has not been moved by anybody else and is neither left to do nor
  failed, is out of every room of the run.  `GateSeen`: the rows the gate writes
  are of people the bot has seen, whatever they have become since it read them.

### Reminders (`RemindersProofs`)

For any members, window and longer term:

* `ToldOnceCorrect`: `RemindersSpec => []ToldOnce`.  `MarkFollows` says where
  the mark is between the message and the commit; `OneEntry` that a run has a
  member once.
* `ToldBeforeEndCorrect`: `RemindersSpec => ToldBeforeEnd`.  `DaysExcused`
  counts the failed days against the days left: whoever is inside the window
  and untold was failed on every day of it that has passed; `MarkIsDue` says
  that a mark belongs to the period it is found in.

### Model-checked only

* Liveness (`LapseSettles`, `BanSettles`, `SaleSurfaces`): it
  needs `ENABLED` and fairness, which the provers do not have.
* `ToldOff` and `ReferralSettlesOnce`, which are expected to fail.

## 5. Plan and what is left out

Every invariant, action property and refinement that a passing run checks is
proved; what is left to the runs is liveness.  Next to be modelled:
`scan_usdt_local`, and a purchase whose link is revoked before it is
overwritten, under which `KeptSpec` would be `Spec` without crashes.

Not modelled, and why:

* Admin sign-in, second factor and throttles share no state with members, money
  or access.
* Alerts are a window per key in Redis; a model that depends on one treats it as
  possibly swallowed.  Metrics and the heartbeat are reads and one write.
* Google Sheets and CRM exports, listings, the comp status check: reads.
* Outgoing webhooks, broadcasts, the support desk: best effort without a retry
  state, or CRUD.
* Configuration, migrations, backups, front ends: no state of a protocol.
* In modelled components: texts, amounts beyond what a rule compares, the
  parsing of provider payloads, rosters and explorers' answers, and the limits
  of listings.
