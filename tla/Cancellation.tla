----------------------------- MODULE Cancellation -----------------------------
(***************************************************************************)
(* A member who does not want to be charged again                          *)
(* (services/subscription_cancellation.py): the button in the bot asks the *)
(* provider, what the provider refuses becomes an item of a queue that an  *)
(* administrator works by hand, the provider's own events may confirm it,  *)
(* and the member may buy again meanwhile.                                 *)
(*                                                                         *)
(* One member.  Access is only as long as the purchases make it here; the  *)
(* dates are in AccessLifecycle.                                           *)
(***************************************************************************)
EXTENDS FiniteSets, Naturals

CONSTANTS Contracts,  \* recurring contracts the member may enter
          Stripe,     \* those at Stripe, the others are at Lava
          OneTime,    \* purchases without renewal: "usdt", "gift"
          RowIds,     \* bound: subscriptions rows
          Presses,    \* bound: presses of the button under way at once
          NoContract

ASSUME CancellationAssumption ==
  /\ Stripe \subseteq Contracts /\ NoContract \notin Contracts
  /\ OneTime \subseteq {"usdt", "gift"} /\ RowIds \subseteq Nat \ {0}

VARIABLES
  contract,  \* at the provider: none, charging, stopped
  subs,      \* subscriptions
  press,     \* presses of the button under way
  refused,   \* row -> contract of its last request, if the provider refused it
  switched   \* rows that changed contract under an open press

cancelGhosts == <<refused, switched>>
cancelVars == <<contract, subs, press, cancelGhosts>>

Absent == [live |-> FALSE, by |-> "none", psid |-> NoContract, status |-> "other",
           flag |-> FALSE, state |-> "none", resolved |-> FALSE]
Idle == [row |-> 0, psid |-> NoContract, again |-> FALSE, stopped |-> FALSE]

CancelInit ==
  /\ contract = [k \in Contracts |-> "none"]
  /\ subs = [i \in RowIds |-> Absent]
  /\ press = [h \in Presses |-> Idle]
  /\ refused = [i \in RowIds |-> NoContract]
  /\ switched = {}

By(k) == IF k \in Stripe THEN "stripe" ELSE "lava"
LiveRows == {i \in RowIds : subs[i].live}
Free == {i \in RowIds : subs[i].by = "none"}

\* effective_cancel_state: the provider's word first, then our own record.
SaidOff(r) == r.status = "cancelled" \/ r.flag \/ r.state = "confirmed"

\* open_manual_cancellation_filters, which every view of the queue shares.
Open(r) == r.state = "manual" /\ ~r.resolved /\ ~r.flag /\ r.status # "cancelled"
Queue == {i \in RowIds : Open(subs[i])}

(***************************************************************************)
(* Purchases and the provider.                                             *)
(***************************************************************************)
\* create_or_extend_subscription: a purchase extends the row that gives
\* access, whatever contract it was on, and clears the flag, not the record.
\* Broken variant: the record is cleared with the flag.
PaidClears(r, by, k) ==
  [r EXCEPT !.live = TRUE, !.by = IF by = "gift" /\ @ # "none" THEN @ ELSE by,
            !.psid = IF k = NoContract THEN @ ELSE k,
            !.status = IF by = "gift" THEN @ ELSE "other",
            !.flag = FALSE, !.state = "none"]
Paid(r, by, k) ==
  [r EXCEPT !.live = TRUE, !.by = IF by = "gift" /\ @ # "none" THEN @ ELSE by,
            !.psid = IF k = NoContract THEN @ ELSE k,
            !.status = IF by = "gift" THEN @ ELSE "other",
            !.flag = FALSE]

\* release_superseded_provider_link
Released(r) == [r EXCEPT !.psid = NoContract, !.status = "other"]

Receive(by, k) ==
  \E i \in IF LiveRows # {} THEN LiveRows ELSE {i \in Free : \A j \in Free : i <= j} :
    /\ subs' = [j \in RowIds |->
                 IF j = i THEN Paid(subs[i], by, k)
                 ELSE IF k # NoContract /\ subs[j].psid = k THEN Released(subs[j])
                 ELSE subs[j]]
    /\ switched' = IF k \in {NoContract, subs[i].psid} THEN switched
                  ELSE IF \E h \in Presses : press[h].row = i THEN switched \cup {i}
                  ELSE switched \ {i}

\* The first payment of a contract and its renewals.
Charge(k) ==
  /\ contract[k] # "stopped"
  /\ contract' = [contract EXCEPT ![k] = "charging"]
  /\ Receive(By(k), k)
  /\ UNCHANGED <<press, refused>>

Once(by) ==
  /\ Receive(by, NoContract)
  /\ UNCHANGED <<contract, press, refused>>

\* Somebody cancels at the provider: the member, or an administrator there.
StoppedThere(k) ==
  /\ contract[k] = "charging"
  /\ contract' = [contract EXCEPT ![k] = "stopped"]
  /\ UNCHANGED <<subs, press, cancelGhosts>>

\* What the provider has said of a contract so far.  Stripe stops at the end of
\* the period, then deletes; Lava ends the renewal, and a contract whose access
\* is over loses the flag again (_handle_lava_subscription_event).
Event(status, flag) == [status |-> status, flag |-> flag]
Events(k) ==
  CASE contract[k] = "none" -> {}
    [] contract[k] = "charging" -> IF k \in Stripe THEN {Event("other", FALSE)} ELSE {}
    [] OTHER -> IF k \in Stripe
                THEN {Event("other", FALSE), Event("other", TRUE), Event("cancelled", FALSE)}
                ELSE {Event("cancelled", TRUE), Event("cancelled", FALSE)}

\* _handle_stripe_subscription_event and _handle_lava_subscription_event.  The
\* events come in any order, again and again, or not at all.
Deliver(k) ==
  \E e \in Events(k) :
    /\ subs' = [i \in RowIds |-> IF subs[i].psid = k
                 THEN [subs[i] EXCEPT !.status = e.status, !.flag = e.flag] ELSE subs[i]]
    /\ UNCHANGED <<contract, press, cancelGhosts>>

\* The hourly job or a ban ends the access of the row; a refund also resets
\* what the provider said (end_subscription_access_for_refund).
Lapse(i) ==
  /\ i \in LiveRows
  /\ \/ subs' = [subs EXCEPT ![i].live = FALSE]
     \/ subs' = [subs EXCEPT ![i].live = FALSE, ![i].status = "other", ![i].flag = FALSE]
  /\ UNCHANGED <<contract, press, cancelGhosts>>

(***************************************************************************)
(* The button.                                                             *)
(***************************************************************************)
\* _dispatch_to_provider answers only for a Stripe or Lava row with an id.
Askable(r) == r.by \in {"stripe", "lava"} /\ r.psid # NoContract /\ contract[r.psid] = "charging"

\* request_autorenew_cancellation, up to the answer of the provider.  It may
\* have stopped the charge although its answer was lost.
Press(h) ==
  \E i \in LiveRows :
    /\ press[h] = Idle
    /\ ~SaidOff(subs[i])
    /\ \E yes \in BOOLEAN, done \in BOOLEAN :
         /\ yes => subs[i].psid # NoContract /\ subs[i].by # "usdt"
         /\ yes => done \/ contract[subs[i].psid] = "stopped"
         /\ done => Askable(subs[i])
         /\ press' = [press EXCEPT ![h] =
                         [row |-> i, psid |-> subs[i].psid, again |-> subs[i].state = "manual",
                          stopped |-> yes]]
         /\ contract' = IF done THEN [contract EXCEPT ![subs[i].psid] = "stopped"] ELSE contract
    /\ UNCHANGED <<subs, cancelGhosts>>

\* What the transaction writes: the columns that differ from those it loaded.
\* Broken variant: the flag says that the member asked.
RecordedAsked(r, p) ==
  [r EXCEPT !.state = IF p.stopped THEN "confirmed" ELSE "manual", !.flag = TRUE]
Recorded(r, p) ==
  IF p.stopped THEN [r EXCEPT !.state = "confirmed", !.flag = TRUE]
  ELSE IF p.again THEN r
  ELSE [r EXCEPT !.state = "manual"]

\* The rest of the handler: the alert, the answer to the member, the commit.
\* An answer that cannot be sent rolls the record back, a crash loses it.
Settle(h) ==
  LET p == press[h]
      i == p.row
  IN /\ p # Idle
     /\ press' = [press EXCEPT ![h] = Idle]
     /\ \/ UNCHANGED <<subs, refused>>
        \/ /\ subs' = [subs EXCEPT ![i] = Recorded(@, p)]
           /\ refused' = [refused EXCEPT ![i] = IF p.stopped THEN NoContract ELSE p.psid]
     /\ UNCHANGED <<contract, switched>>

\* What the bot says of the row: _subscription_manage_text, the button
\* "sub_cancel_already", and a press on a row that is confirmed.
SaysOff(i) == subs[i].live /\ SaidOff(subs[i])

(***************************************************************************)
(* The team.                                                               *)
(***************************************************************************)
\* resolve_cancellation: nobody asks the provider.
Resolve(i) ==
  /\ subs[i].state # "none" /\ ~subs[i].resolved
  /\ subs' = [subs EXCEPT ![i].resolved = TRUE]
  /\ UNCHANGED <<contract, press, cancelGhosts>>

CancelNext ==
  \/ \E k \in Contracts : Charge(k) \/ StoppedThere(k) \/ Deliver(k)
  \/ \E by \in OneTime : Once(by)
  \/ \E i \in RowIds : Lapse(i) \/ Resolve(i)
  \/ \E h \in Presses : Press(h) \/ Settle(h)

CancelSpec == CancelInit /\ [][CancelNext]_cancelVars
=============================================================================
