---------------------------- MODULE ReferralRules ----------------------------
(***************************************************************************)
(* The partner programme's arithmetic: services/referral_ledger.py as      *)
(* functions on one invitee's `referrals` row and commission rows.         *)
(*                                                                         *)
(* A book is [ref |-> the row, comm |-> every commission, by the payment   *)
(* it came from]; `mine` is the set of the invitee's payments.  The clock  *)
(* counts months, NULL is NoTime.  Money is in cents at the rate of one   *)
(* dollar; a share is rounded as _money does, once for every refund.       *)
(***************************************************************************)
EXTENDS Integers, FiniteSets, FiniteSetsExt

CONSTANTS
  Payments,       \* payments.id
  BatchIds,       \* referral_payout_batches.id
  Partner,        \* the partner whose invitee made each payment
  Threshold,      \* PAYOUT_THRESHOLD_USD
  VestingMonths,  \* VESTING_MONTHS
  WindowMonths    \* EARNING_WINDOW_MONTHS

ASSUME RulesAssumption ==
  /\ IsFiniteSet(Payments)
  /\ DOMAIN Partner = Payments
  /\ BatchIds \subseteq Nat \ {0}
  /\ Threshold \in Nat \ {0}
  /\ VestingMonths \in Nat \ {0}
  /\ WindowMonths \in Nat \ {0}

NoTime == -1
Time == Nat \cup {NoTime}
Earlier(a, b) == IF a <= b THEN a ELSE b
Later(a, b) == IF a >= b THEN a ELSE b

Referral == [started   : Time,  \* partner_earning_started_at
             ends      : Time,  \* partner_earning_ends_at
             covered   : Time,  \* retention_coverage_ends_at
             gate      : Time,  \* retention_gate_at
             qualified : Time]  \* retention_qualified_at
NoReferral == [started |-> NoTime, ends |-> NoTime, covered |-> NoTime,
               gate |-> NoTime, qualified |-> NoTime]

Commission == [status : {"none", "pending", "vested", "cancelled", "paid"},
               amount : Nat,              \* amount_usd
               vests  : Time,             \* vests_at
               batch  : BatchIds \cup {0},\* payout_batch_id, 0 is NULL
               clawed : Nat]              \* sum of its "adjusted" adjustments
NoCommission == [status |-> "none", amount |-> 0, vests |-> NoTime,
                 batch |-> 0, clawed |-> 0]

\* _commission_amount: 20% to the nearest cent.  A fifth of whole cents is
\* never half a cent, so that ROUND_HALF_UP is the nearest.
Share(money) == (money + 2) \div 5

(***************************************************************************)
(* Retention.                                                              *)
(***************************************************************************)
\* _retention_ready
Ready(r, t) ==
  \/ r.qualified # NoTime
  \/ /\ r.gate # NoTime /\ r.covered # NoTime
     /\ t >= r.gate /\ r.covered >= r.gate

MarkQualified(r) == [r EXCEPT !.qualified = IF @ = NoTime THEN r.gate ELSE @]
ResetStreak(r) == [r EXCEPT !.covered = NoTime, !.gate = NoTime]

Pending(comm, P) == {p \in P : comm[p].status = "pending"}
Mark(comm, P, status) ==
  [p \in DOMAIN comm |->
     IF p \in P THEN [comm[p] EXCEPT !.status = status] ELSE comm[p]]

Vested(b, P) == [ref |-> MarkQualified(b.ref), comm |-> Mark(b.comm, P, "vested")]
Dropped(b, P) == [ref |-> ResetStreak(b.ref), comm |-> Mark(b.comm, P, "cancelled")]

\* Broken variant: the invitee qualifies and the waiting rows are forgotten.
QualifyRowless(b, mine, t) ==
  IF Ready(b.ref, t) THEN [b EXCEPT !.ref = MarkQualified(@)] ELSE b

\* _qualify_referral_if_ready
Qualify(b, mine, t) ==
  IF Ready(b.ref, t) THEN Vested(b, Pending(b.comm, mine)) ELSE b

\* _cancel_pending_streak
CancelStreak(b, mine, t) ==
  IF Ready(b.ref, t) THEN Vested(b, Pending(b.comm, mine))
  ELSE Dropped(b, Pending(b.comm, mine))

\* _extend_retention_streak
ExtendStreak(b, mine, from, until) ==
  LET cut == CancelStreak(b, mine, from)
      Fresh(r) == [r EXCEPT !.covered = until, !.gate = from + VestingMonths]
  IN  IF b.ref.covered = NoTime THEN [b EXCEPT !.ref = Fresh(@)]
      ELSE IF from <= b.ref.covered
           THEN [b EXCEPT !.ref.covered = Later(@, until)]
           ELSE IF cut.ref.qualified # NoTime THEN cut
                ELSE [cut EXCEPT !.ref = Fresh(@)]

\* record_referral_commission_intent for payment p, covering from..until.
RecordIntent(b, mine, p, from, until, amount) ==
  LET opened == IF b.ref.started # NoTime THEN b
                ELSE [b EXCEPT !.ref.started = from,
                               !.ref.ends = from + WindowMonths]
      grown  == IF opened.ref.qualified = NoTime
                THEN ExtendStreak(opened, mine, from, until) ELSE opened
      now_   == grown.ref.qualified # NoTime
      row    == [NoCommission EXCEPT !.status = IF now_ THEN "vested" ELSE "pending",
                                     !.amount = amount,
                                     !.vests = IF now_ THEN from ELSE grown.ref.gate]
      kept   == [grown EXCEPT !.comm[p] = row]
  IN  IF opened.ref.started <= from /\ from < opened.ref.ends
      THEN IF now_ THEN kept ELSE Qualify(kept, mine, from)
      ELSE opened

(***************************************************************************)
(* Refunds: adjust_commission_for_refund.                                  *)
(***************************************************************************)
\* Broken variants: an earned commission is left alone, or reduced in place.
ClawNothing(b, p, worth) == b
ClawFromRow(b, p, worth) == [b EXCEPT !.comm[p].amount = @ - worth]

\* A negative adjustment beside an earned commission.
Claw(b, p, worth) == [b EXCEPT !.comm[p].clawed = @ + worth]

\* `seen` is the commission of p as the handler loaded it, `amount` what is
\* given back now, `left` what is not refunded after that.
Adjusted(b, seen, mine, p, amount, left, t) ==
  LET target    == Earlier(Share(left), seen.amount)
      q         == IF seen.status = "pending" /\ seen.vests <= t
                   THEN Qualify(b, mine, t) ELSE b
      earned    == \/ seen.status # "pending"
                   \/ b.comm[p].status = "pending" /\ q.comm[p].status = "vested"
      cut       == IF earned THEN q ELSE CancelStreak(q, mine, t)
      vestedNow == q.comm[p].status = "pending" /\ cut.comm[p].status = "vested"
  IN  IF seen.status \in {"none", "cancelled"} THEN b
      ELSE IF ~earned /\ left > 0 /\ target > 0
           THEN [q EXCEPT !.comm[p].amount = target]
           ELSE IF ~earned /\ ~vestedNow THEN cut
                ELSE Claw(cut, p, Earlier(seen.amount, Share(amount)))

(***************************************************************************)
(* Payouts.                                                                *)
(***************************************************************************)
\* vest_due_commissions on one invitee's book; `due` is what the unlocked SELECT
\* found pending, and is written whatever became of it since.
VestDue(b, mine, due, t) ==
  LET rows == due \cap mine
  IN  IF rows = {} THEN b
      ELSE IF Ready(b.ref, t) THEN Vested(b, rows)
      ELSE IF b.ref.gate # NoTime /\ b.ref.covered # NoTime /\ b.ref.covered < b.ref.gate
           THEN Dropped(b, rows) ELSE b

Amount(comm, P) == MapThenSumSet(LAMBDA p : comm[p].amount, P)
OfPartner(a, P) == {p \in P : Partner[p] = a}

\* Broken variant: balances of different partners are combined.
EligibleTogether(comm) ==
  LET pool == {p \in Payments : comm[p].status = "vested" /\ comm[p].batch = 0}
  IN  {p \in pool : Amount(comm, pool) >= Threshold}

\* The rows create_referral_payout_batch takes: vested, in no batch, of a
\* partner whose own balance reaches the threshold.
Eligible(comm) ==
  LET pool == {p \in Payments : comm[p].status = "vested" /\ comm[p].batch = 0}
  IN  {p \in pool : Amount(comm, OfPartner(Partner[p], pool)) >= Threshold}
=============================================================================
