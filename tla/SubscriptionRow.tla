-------------------------- MODULE SubscriptionRow --------------------------
(***************************************************************************)
(* One row of the `subscriptions` table and the pure functions of          *)
(* services/subscription.py on it: who has access, until when, whether the *)
(* hourly job must remove the member, what a failed renewal, a refund and  *)
(* a Telegram removal attempt write.                                       *)
(*                                                                         *)
(* A datetime is a day number, NULL is NoTime.  Columns no rule of access  *)
(* reads (started_at, current_period_start, error text,       *)
(* cancel_at_period_end, the cancellation record) are left out.            *)
(***************************************************************************)
EXTENDS Integers

CONSTANTS
  Users,        \* members (users.id)
  PSids,        \* provider subscription ids (Stripe `sub_...`)
  NoUser,       \* the user_id of a row that does not exist
  NoLink,       \* provider_subscription_id IS NULL
  GraceDays,    \* DEFAULT_GRACE_DAYS
  MaxAttempts   \* MAX_ACCESS_REVOKE_ATTEMPTS

ASSUME RowAssumption ==
  /\ NoUser \notin Users
  /\ NoLink \notin PSids
  /\ GraceDays \in Nat
  /\ MaxAttempts \in Nat \ {0}

NoTime == -1
Time == Nat \cup {NoTime}

\* "absent" is an id no row has yet; the other three are the sub_status values
\* the code writes ("gifted" is declared in the enum and never assigned).
Statuses == {"absent", "active", "expired", "cancelled"}
AccessHolding == {"active", "cancelled"}
Recurring == {"stripe", "lava"}
AccessRestored == {"active", "trialing"}
Sources == {"none", "stripe", "lava", "usdt", "gift"}
ProviderStatuses == {"none", "active", "past_due", "canceled", "refunded"}

Row == [user      : Users \cup {NoUser},
        status    : Statuses,
        source    : Sources,
        provider  : Sources,             \* "none" is NULL
        psid      : PSids \cup {NoLink}, \* provider_subscription_id
        pstatus   : ProviderStatuses,    \* provider_status
        expires   : Nat,                 \* expires_at
        cpe       : Time,                \* current_period_end
        link      : Nat,                 \* invite_link: its number, 0 is NULL
        grace     : Time,                \* grace_ends_at
        comp      : BOOLEAN,             \* is_comp
        revoked   : BOOLEAN,             \* access_revoked_at IS NOT NULL
        abandoned : BOOLEAN,             \* access_revoke_abandoned_at IS NOT NULL
        attempts  : Nat,                 \* access_revoke_attempts
        retry     : Time]                \* access_revoke_retry_after_at

NoRow == [user |-> NoUser, status |-> "absent", source |-> "none",
          provider |-> "none", psid |-> NoLink, pstatus |-> "none",
          expires |-> 0, cpe |-> NoTime, link |-> 0, grace |-> NoTime, comp |-> FALSE,
          revoked |-> FALSE, abandoned |-> FALSE, attempts |-> 0,
          retry |-> NoTime]

Later(a, b) == IF a >= b THEN a ELSE b

(***************************************************************************)
(* Access.                                                                 *)
(***************************************************************************)
HasProviderLifecycle(r) ==
  /\ (IF r.provider # "none" THEN r.provider ELSE r.source) \in Recurring
  /\ r.psid # NoLink \/ r.pstatus # "none" \/ r.cpe # NoTime

\* The date the money runs to: the provider's period end on a recurring row,
\* expires_at on every other one.
PaidUntil(r) ==
  IF HasProviderLifecycle(r) /\ r.cpe # NoTime THEN r.cpe ELSE r.expires

AccessEndsAt(r) == Later(PaidUntil(r), r.grace)

HasAccess(r, t) ==
  /\ ~r.revoked
  /\ r.status \in AccessHolding
  /\ r.comp \/ AccessEndsAt(r) > t

RetryReady(r, t) == r.retry = NoTime \/ r.retry <= t

ShouldRevoke(r, t) ==
  /\ ~HasAccess(r, t)
  /\ ~r.revoked
  /\ ~r.abandoned
  /\ r.status \in AccessHolding
  /\ RetryReady(r, t)

\* The WHERE clause and the Python filter of expire_subscriptions.
DueForExpiry(r, t) == ~r.comp /\ ShouldRevoke(r, t)

\* Broken variant: the ban drain selects as the sweep does.
DueForBanOnceLapsed(r, t) == ShouldRevoke(r, t)

\* subscriptions_pending_ban_revoke, for a row whose user is banned.
DueForBan(r, t) ==
  /\ r.status \in AccessHolding
  /\ ~r.revoked
  /\ ~r.abandoned
  /\ RetryReady(r, t)

(***************************************************************************)
(* What the handlers write.                                                *)
(***************************************************************************)
StartGrace(r, t) ==
  LET paid == IF r.cpe # NoTime THEN r.cpe ELSE r.expires
      ends == Later(paid, t) + GraceDays
  IN  [r EXCEPT !.grace = Later(@, ends), !.pstatus = "past_due"]

\* Broken variant: the refund cancels the row and leaves its dates.
EndForRefundStatusOnly(r, t) ==
  [r EXCEPT !.grace = NoTime, !.pstatus = "refunded", !.status = "cancelled"]

EndForRefund(r, t) ==
  [r EXCEPT !.expires = t, !.cpe = t, !.grace = NoTime, !.retry = NoTime,
            !.pstatus = "refunded", !.status = "cancelled"]

\* The answer of Telegram to one removal: "removed", "flood" (retry after a
\* pause), "refused" (a failure that may pass), "never" (a permanent refusal).
Outcomes == {"removed", "flood", "refused", "never"}

\* Broken variants: no attempt is the last one; every attempt counts as done.
RecordAttemptForever(r, t, outcome, markExpired, permanent) ==
  IF outcome = "removed"
  THEN [r EXCEPT !.attempts = @ + 1, !.revoked = TRUE, !.retry = NoTime,
                 !.status = IF markExpired /\ @ # "cancelled" THEN "expired" ELSE @]
  ELSE [r EXCEPT !.retry = IF outcome = "flood" THEN t + 1 ELSE NoTime]
RecordAttemptBlind(r, t, outcome, markExpired, permanent) ==
  [r EXCEPT !.attempts = @ + 1, !.revoked = TRUE, !.retry = NoTime,
            !.status = IF markExpired /\ @ # "cancelled" THEN "expired" ELSE @]

\* record_access_revoke_attempt.  `permanent` is the caller's argument: the ban
\* and refund handlers never pass it.  A flood pause runs to the next day of
\* the model's clock.
RecordAttempt(r, t, outcome, markExpired, permanent) ==
  LET tried  == [r EXCEPT !.attempts = @ + 1]
      gaveUp == ~r.abandoned /\ (permanent \/ tried.attempts >= MaxAttempts)
  IN  IF outcome = "removed"
      THEN [tried EXCEPT !.revoked = TRUE, !.retry = NoTime,
                         !.abandoned = FALSE,
                         !.status = IF markExpired /\ @ # "cancelled"
                                    THEN "expired" ELSE @]
      ELSE [tried EXCEPT !.retry = IF outcome = "flood" /\ ~gaveUp
                                   THEN t + 1 ELSE NoTime,
                         !.abandoned = @ \/ gaveUp]

\* _apply_provider_lifecycle on a row create_or_extend_subscription extends;
\* "none" and NoLink stand for the arguments that are None.
ApplyProvider(r, provider, psid, pstatus) ==
  LET bound == [r EXCEPT !.provider = IF provider = "none" THEN @ ELSE provider,
                         !.psid = IF psid = NoLink THEN @ ELSE psid,
                         !.pstatus = IF pstatus = "none" THEN @ ELSE pstatus,
                         !.cpe = r.expires]
  IN  IF pstatus \in AccessRestored
      THEN [bound EXCEPT !.grace = NoTime, !.retry = NoTime]
      ELSE bound

\* What a transaction's UPDATE leaves in one column: SQLAlchemy writes the
\* columns whose value differs from the one it loaded and no others.
Net(stored, loaded, value) == IF value # loaded THEN value ELSE stored

Flush(s, l, v) ==
  [user      |-> Net(s.user, l.user, v.user),
   status    |-> Net(s.status, l.status, v.status),
   source    |-> Net(s.source, l.source, v.source),
   provider  |-> Net(s.provider, l.provider, v.provider),
   psid      |-> Net(s.psid, l.psid, v.psid),
   pstatus   |-> Net(s.pstatus, l.pstatus, v.pstatus),
   expires   |-> Net(s.expires, l.expires, v.expires),
   cpe       |-> Net(s.cpe, l.cpe, v.cpe),
   link      |-> Net(s.link, l.link, v.link),
   grace     |-> Net(s.grace, l.grace, v.grace),
   comp      |-> Net(s.comp, l.comp, v.comp),
   revoked   |-> Net(s.revoked, l.revoked, v.revoked),
   abandoned |-> Net(s.abandoned, l.abandoned, v.abandoned),
   attempts  |-> Net(s.attempts, l.attempts, v.attempts),
   retry     |-> Net(s.retry, l.retry, v.retry)]

\* Broken variant: the superseded row is marked and keeps the id.
ReleasedStatusOnly(r) == [r EXCEPT !.pstatus = "none"]

\* release_superseded_provider_link on one superseded row.
Released(r) == [r EXCEPT !.psid = NoLink, !.pstatus = "none"]
=============================================================================
