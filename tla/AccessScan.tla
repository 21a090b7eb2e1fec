----------------------------- MODULE AccessScan -----------------------------
(***************************************************************************)
(* The nightly reconciliation of Stripe's subscriptions with the rows of   *)
(* AccessLifecycle: scan_stripe_local and compare_stripe_remote on what    *)
(* they read in one transaction.  The rule that asks for                   *)
(* cancel_at_period_end, a column no rule of access reads, is left out.    *)
(***************************************************************************)
EXTENDS AccessProperties

\* collect_stripe_discrepancies
Fetched == {i \in SubIds : sub[i].provider = "stripe" \/ sub[i].source = "stripe"}

\* _liveness_key: later expiry first, the newest row between equals.
Outlives(i, j) ==
  \/ sub[i].expires > sub[j].expires
  \/ sub[i].expires = sub[j].expires /\ i > j

\* current_provider_subscription_rows: of the rows that claim one subscription
\* only the live one is judged.
Judged ==
  {i \in Fetched :
     \A j \in Fetched \ {i} :
       (sub[i].psid # NoLink /\ sub[j].psid = sub[i].psid) => Outlives(i, j)}

\* stripe_active_subscription_missing_provider_id
Unlinked(r) ==
  r.status = "active" /\ r.psid = NoLink /\ HasAccess(r, now) /\ ~r.comp

\* stripe_provider_active_without_local_access
ShutOut(r) == r.pstatus \in AccessRestored /\ ~HasAccess(r, now)

\* stripe_past_due_missing_grace
Ungraced(r) == r.pstatus = "past_due" /\ r.grace = NoTime

\* Broken variant: only rows that are active are compared with Stripe.
ShutOutWhileActive(r) ==
  /\ r.status = "active" /\ r.psid # NoLink
  /\ remote[r.psid].status = "active" /\ ~HasAccess(r, now)

\* stripe_remote_active_subscription_without_local_access
ShutOutRemotely(r) ==
  r.psid # NoLink /\ remote[r.psid].status = "active" /\ ~HasAccess(r, now)

Named == {i \in Judged : \/ Unlinked(sub[i]) \/ ShutOut(sub[i])
                         \/ Ungraced(sub[i]) \/ ShutOutRemotely(sub[i])}

\* Every delivery has been handled and no transaction is open.
AtRest(p) == Quiet /\ \A e \in events : e.psid # p

\* "A subscriber may be paying in Stripe while local Telegram/portal access is
\* unavailable": whoever Stripe has charged for today can come in, or the
\* night's run finds a row of theirs, also when the hourly job removed them
\* while the renewal was being recorded, or a late payment_failed has repainted
\* the row since (scan_stripe_local, compare_stripe_remote).  A row that a USDT
\* payment or a gift has extended is out of the run's sight.
PayingOrNamed ==
  \A p \in PSids :
    ( /\ remote[p].status = "active" /\ remote[p].end > now
      /\ AtRest(p)
      /\ \A i \in SubIds : sub[i].psid = p => i \in Fetched )
    => \/ Current(sub, Owner[p]) # {}
       \/ \E i \in Named : sub[i].psid = p
=============================================================================
