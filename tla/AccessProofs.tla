---------------------------- MODULE AccessProofs ----------------------------
(***************************************************************************)
(* The subscription rows, for any number of members, provider              *)
(* subscriptions, handlers and rows and any bounds.  First what each write *)
(* does to a row, then the types, then the invariant under OneClaimant:    *)
(* these hold whatever interleaves.  After them, one handler at a time: an *)
(* open handler writes to what it has read (SeqInv), hence, where only     *)
(* Telegram and the panel act, a refund sticks and a ban keeps what was    *)
(* paid.  Then, with handlers that overlap again, that whoever pays can    *)
(* come in or is named.                                                    *)
(* Last, one handler at a time again, where the members sit: nobody is in  *)
(* the chats unaccounted for while no link is lost (SeatInv), and the rows *)
(* live as AccessLife has it (LifeInv).                                    *)
(***************************************************************************)
EXTENDS AccessScan, FiniteSetTheorems, WellFoundedInduction, TLAPS

(***************************************************************************)
(* What the writes do to one row: it stays a Row, and its                  *)
(* provider_subscription_id is kept, released or bound as stated.          *)
(***************************************************************************)
LEMMA FlushRow ==
  ASSUME NEW s \in Row, NEW l \in Row, NEW v \in Row
  PROVE  /\ Flush(s, l, v) \in Row
         /\ Flush(s, l, v).psid = Net(s.psid, l.psid, v.psid)
BY DEF Flush, Net, Row

\* What record_access_revoke_attempt writes is a row, whatever Telegram answered.
LEMMA RecordAttemptRow ==
  ASSUME NEW r \in Row, NEW t \in Nat, NEW o, NEW m \in BOOLEAN,
         NEW p \in BOOLEAN
  PROVE  /\ RecordAttempt(r, t, o, m, p) \in Row
         /\ RecordAttempt(r, t, o, m, p).psid = r.psid
<1> DEFINE tried  == [r EXCEPT !.attempts = @ + 1]
           gaveUp == ~r.abandoned /\ (p \/ tried.attempts >= MaxAttempts)
           status == IF m /\ r.status # "cancelled" THEN "expired" ELSE r.status
           done   == [tried EXCEPT !.revoked = TRUE, !.retry = NoTime,
                                   !.abandoned = FALSE, !.status = status]
           retry  == IF o = "flood" /\ ~gaveUp THEN t + 1 ELSE NoTime
           kept   == [tried EXCEPT !.retry = retry,
                                   !.abandoned = r.abandoned \/ gaveUp]
<1>1. tried \in Row /\ tried.psid = r.psid /\ tried.status = r.status
      /\ tried.abandoned = r.abandoned
  BY DEF Row
<1>2. status \in Statuses /\ retry \in Time /\ NoTime \in Time
  BY DEF Row, Statuses, Time, NoTime
<1>3. (r.abandoned \/ gaveUp) \in BOOLEAN
  OBVIOUS
<1> HIDE DEF retry, status, gaveUp
<1>4. done \in Row /\ done.psid = r.psid
  BY <1>1, <1>2 DEF Row
<1>5. kept \in Row /\ kept.psid = r.psid
  <2> DEFINE b == r.abandoned \/ gaveUp
  <2>1. b \in BOOLEAN BY <1>3
  <2> HIDE DEF b, tried
  <2>2. [tried EXCEPT !.retry = retry, !.abandoned = b] \in Row
        /\ [tried EXCEPT !.retry = retry, !.abandoned = b].psid = tried.psid
    BY <1>1, <1>2, <2>1 DEF Row
  <2> QED BY <2>2, <1>1 DEF b
<1>6. RecordAttempt(r, t, o, m, p) = IF o = "removed" THEN done ELSE kept
  BY <1>1 DEF RecordAttempt, gaveUp, status, retry
<1> QED BY <1>4, <1>5, <1>6

\* end_access_for_refund collapses a row's dates into a row.
LEMMA RefundRow ==
  ASSUME NEW r \in Row, NEW t \in Nat
  PROVE  EndForRefund(r, t) \in Row /\ EndForRefund(r, t).psid = r.psid
BY DEF EndForRefund, Row, Time, NoTime, Statuses, ProviderStatuses

\* start_provider_grace leaves a row.
LEMMA GraceRow ==
  ASSUME NEW r \in Row, NEW t \in Nat
  PROVE  StartGrace(r, t) \in Row /\ StartGrace(r, t).psid = r.psid
<1> DEFINE paid == IF r.cpe # NoTime THEN r.cpe ELSE r.expires
           ends == Later(paid, t) + GraceDays
           grace == Later(r.grace, ends)
<1>1. grace \in Time /\ "past_due" \in ProviderStatuses
  BY RowAssumption DEF Row, Time, NoTime, Later, ProviderStatuses
<1> HIDE DEF grace
<1>2. [r EXCEPT !.grace = grace, !.pstatus = "past_due"] \in Row
  BY <1>1 DEF Row
<1> QED BY <1>2 DEF StartGrace, grace, Row

\* An unban, with or without a fresh link, leaves a row.
LEMMA RestoredRow ==
  ASSUME NEW r \in Row, NEW n \in Nat, now \in Nat
  PROVE  Restored(r, n) \in Row /\ Restored(r, n).psid = r.psid
<1>1. NoTime \in Time
  BY DEF Time
<1>2. [r EXCEPT !.revoked = FALSE, !.retry = NoTime] \in Row
      /\ [r EXCEPT !.revoked = FALSE, !.retry = NoTime].psid = r.psid
  BY <1>1 DEF Row
<1>3. \A q \in Row : WithLink(q, n) \in Row /\ WithLink(q, n).psid = q.psid
  BY DEF WithLink, Row
<1> QED BY <1>2, <1>3 DEF Restored

\* A subscription event writes a status, a period end and a row.
LEMMA SubscriptionEventRow ==
  ASSUME NEW r \in Row, NEW e \in Event
  PROVE  /\ SubscriptionEvent(r, e) \in Row
         /\ SubscriptionEvent(r, e).psid = r.psid
<1> DEFINE status == IF e.type = "deleted" \/ e.status = "canceled"
                     THEN "cancelled"
                     ELSE IF e.status \in AccessRestored /\ r.status = "cancelled"
                     THEN "active" ELSE r.status
<1>1. status \in Statuses /\ e.end \in Time /\ e.status \in ProviderStatuses
  BY DEF Statuses, Row, Event, Time
<1> HIDE DEF status
<1>2. [r EXCEPT !.pstatus = e.status, !.cpe = e.end, !.status = status] \in Row
  BY <1>1 DEF Row
<1> QED BY <1>2 DEF SubscriptionEvent, status, Row

\* The id nobody has used yet is a row too.
LEMMA NoRowRow == NoRow \in Row
BY DEF NoRow, Row, Statuses, Sources, ProviderStatuses, Time

\* Releasing a provider link leaves a row.
LEMMA ReleasedRow ==
  ASSUME NEW r \in Row
  PROVE  Released(r) \in Row /\ Released(r).psid = NoLink
BY DEF Released, Row, ProviderStatuses

\* The row a first purchase inserts is a row, launch floor or not.
LEMMA NewRowRow ==
  ASSUME NEW u \in Users \cup {NoUser}, NEW pay \in Purchase, now \in Nat
  PROVE  NewRow(u, pay) \in Row /\ NewRow(u, pay).psid = pay.psid
<1>1. FirstEnd(pay) \in Nat
  BY LifecycleAssumption DEF FirstEnd, FloorAhead, PeriodEnd, Purchase, Time, NoTime
<1>2. pay.source \in Sources /\ pay.provider \in Sources
      /\ pay.psid \in PSids \cup {NoLink} /\ pay.pstatus \in ProviderStatuses
  BY DEF Purchase
<1> DEFINE end == FirstEnd(pay)
<1>3. end \in Nat /\ end \in Time /\ NoTime \in Time
  BY <1>1 DEF Time
<1> HIDE DEF end
<1>4. [NoRow EXCEPT !.user = u, !.status = "active", !.source = pay.source,
                    !.provider = pay.provider, !.psid = pay.psid,
                    !.pstatus = pay.pstatus, !.expires = end, !.cpe = end] \in Row
  BY NoRowRow, <1>2, <1>3 DEF Row, Statuses
<1> QED BY <1>4, NoRowRow DEF NewRow, end, Row

\* The row a purchase extends is a row.
LEMMA ExtendedRow ==
  ASSUME NEW r \in Row, NEW pay \in Purchase, now \in Nat
  PROVE  /\ Extended(r, pay) \in Row
         /\ Extended(r, pay).psid = IF pay.psid = NoLink THEN r.psid ELSE pay.psid
<1> DEFINE expires == Later(r.expires, PeriodEnd(pay, Later(r.expires, now)))
           paid == [r EXCEPT !.expires = expires, !.source = pay.source]
           provider == IF pay.provider = "none" THEN paid.provider ELSE pay.provider
           psid == IF pay.psid = NoLink THEN r.psid ELSE pay.psid
           pstatus == IF pay.pstatus = "none" THEN paid.pstatus ELSE pay.pstatus
           bound == [paid EXCEPT !.provider = provider, !.psid = psid,
                                 !.pstatus = pstatus, !.cpe = paid.expires]
           restored == [bound EXCEPT !.grace = NoTime, !.retry = NoTime]
<1>1. expires \in Nat
  BY LifecycleAssumption DEF Later, PeriodEnd, Purchase, Time, NoTime, Row
<1>2. pay.source \in Sources
  BY DEF Purchase
<1> HIDE DEF expires
<1>3. paid \in Row /\ paid.psid = r.psid
  BY <1>1, <1>2 DEF Row
<1> HIDE DEF paid
<1>4. provider \in Sources /\ psid \in PSids \cup {NoLink}
      /\ pstatus \in ProviderStatuses /\ paid.expires \in Time /\ NoTime \in Time
  BY <1>3 DEF Purchase, Row, Time
<1> HIDE DEF provider, psid, pstatus
<1>5. bound \in Row /\ bound.psid = psid
  BY <1>3, <1>4 DEF Row
<1> HIDE DEF bound
<1>6. restored \in Row /\ restored.psid = psid
  BY <1>4, <1>5 DEF Row
<1>7. Extended(r, pay) = IF pay.pstatus \in AccessRestored THEN restored ELSE bound
  BY <1>3 DEF Extended, ApplyProvider, paid, expires, bound, provider, psid, pstatus
<1> QED BY <1>5, <1>6, <1>7 DEF psid
(***************************************************************************)
(* Types.                                                                  *)
(***************************************************************************)
\* What the types alone leave open: an open handler works for a member, and a
\* job past its pick works on a row.
IdsKnown ==
  /\ \A w \in Workers : tx[w].op # "idle" => tx[w].user \in Users
  /\ job.stage # "pick" => job.cur \in SubIds

TypeInv == TypeOK /\ IdsKnown

\* A session that has loaded nothing, and an idle job and handler, are typed.
LEMMA NothingTyped ==
  /\ NothingLoaded \in [SubIds -> Row]
  /\ IdleJob \in Job
  /\ IdleTx \in Tx
<1>1. NothingLoaded \in [SubIds -> Row]
  BY NoRowRow DEF NothingLoaded
<1>2. IdleJob \in Job
  BY <1>1 DEF IdleJob, Job, Phases, Stages
<1>3. NoPurchase \in Purchase
  BY DEF NoPurchase, Purchase, Sources, ProviderStatuses, Time
<1>4. IdleTx \in Tx
  BY <1>1, <1>3 DEF IdleTx, Tx, Ops, NothingAsked
<1> QED BY <1>1, <1>2, <1>4

\* Reading rows of a typed table gives typed rows.
LEMMA LoadTyped ==
  ASSUME TypeOK, NEW ids
  PROVE  Load(ids) \in [SubIds -> Row]
BY NoRowRow DEF TypeOK, Load

\* create_or_extend_subscription takes a typed table to a typed table.
LEMMA BoughtTyped ==
  ASSUME TypeOK, NEW i, NEW u \in Users, NEW pay \in Purchase,
         NEW loaded \in [SubIds -> Row], NEW n \in Nat
  PROVE  Bought(i, u, pay, loaded, n) \in [SubIds -> Row]
<1> DEFINE known(j) == IF loaded[j].status # "absent" THEN loaded[j] ELSE sub[j]
           bought == IF sub[i].status = "absent" THEN NewRow(u, pay)
                     ELSE Extended(known(i), pay)
           value(j) == IF j = i THEN Flush(sub[j], known(j), WithLink(bought, n))
                       ELSE IF j # i /\ pay.psid # NoLink /\ sub[j].psid = pay.psid
                       THEN Flush(sub[j], known(j), Released(known(j)))
                       ELSE sub[j]
<1>1. ASSUME NEW j \in SubIds PROVE value(j) \in Row
  <2>1. known(j) \in Row /\ sub[j] \in Row /\ now \in Nat
    BY DEF TypeOK
  <2>2. ASSUME j = i PROVE bought \in Row
    BY <2>1, <2>2, NewRowRow, ExtendedRow
  <2>3. ASSUME j = i PROVE WithLink(bought, n) \in Row
    BY <2>2, <2>3 DEF WithLink, Row
  <2>4. Released(known(j)) \in Row
    BY <2>1, ReleasedRow
  <2> HIDE DEF known, bought
  <2> QED BY <2>1, <2>3, <2>4, FlushRow
<1>2. Bought(i, u, pay, loaded, n) = [j \in SubIds |-> value(j)]
  BY DEF Bought
<1> HIDE DEF value
<1> QED BY <1>1, <1>2

\* Counting an event against its bound keeps the counters natural.
LEMMA SpendTyped ==
  ASSUME TypeOK, NEW c \in Counters, Spend(c)
  PROVE  used' \in [Counters -> Nat]
BY DEF TypeOK, Spend

\* The steps of Stripe, of the clock and of the member.
LEMMA OutsideTyped ==
  ASSUME TypeInv, Tick \/ (\E l \in live : Join(l)) \/ StripeStep
  PROVE  TypeInv'
<1> USE DEF TypeInv, IdsKnown
<1>1. CASE Tick
  BY <1>1 DEF TypeOK, Tick
<1>2. CASE \E l \in live : Join(l)
  BY <1>2 DEF TypeOK, Join, Links
<1>3. CASE StripeStep
  <2>1. ASSUME NEW p \in PSids, NEW status \in {"active", "past_due", "canceled"},
               NEW end \in Nat, NEW sent \in SUBSET EventTypes,
               RemoteStep(p, status, end, sent), used' \in [Counters -> Nat]
        PROVE  TypeInv'
    <3>1. remote' \in [PSids -> Remote]
      BY <2>1 DEF TypeOK, RemoteStep, Remote
    <3>2. events' \subseteq Event
      BY <2>1 DEF TypeOK, RemoteStep, Event, ProviderStatuses
    <3> QED BY <2>1, <3>1, <3>2 DEF TypeOK, RemoteStep
  <2>2. PICK p \in PSids : \/ Checkout(p) \/ RemoteRenew(p)
                           \/ RemoteRenewFails(p) \/ RemoteRecovers(p)
                           \/ RemoteCancel(p)
    BY <1>3 DEF StripeStep
  <2>3. used' \in [Counters -> Nat]
    BY <2>2, SpendTyped DEF Checkout, RemoteRenew, RemoteRenewFails,
       RemoteRecovers, RemoteCancel, Counters
  <2>4. remote[p].end \in Nat /\ remote[p].end + PlanDays \in Nat
        /\ now + PlanDays \in Nat
    BY LifecycleAssumption DEF TypeOK, Remote
  <2>5. CASE Checkout(p)
    BY <2>5, <2>3, <2>4, <2>1 DEF Checkout, EventTypes
  <2>6. CASE RemoteRenew(p)
    BY <2>6, <2>3, <2>4, <2>1 DEF RemoteRenew, EventTypes
  <2>7. CASE RemoteRenewFails(p)
    BY <2>7, <2>3, <2>4, <2>1 DEF RemoteRenewFails, EventTypes
  <2>8. CASE RemoteRecovers(p)
    BY <2>8, <2>3, <2>4, <2>1 DEF RemoteRecovers, EventTypes
  <2>9. CASE RemoteCancel(p)
    BY <2>9, <2>3, <2>4, <2>1 DEF RemoteCancel, EventTypes
  <2> QED BY <2>2, <2>5, <2>6, <2>7, <2>8, <2>9
<1> QED BY <1>1, <1>2, <1>3

\* Every Stripe webhook handler keeps the state typed.
LEMMA EventTyped ==
  ASSUME TypeInv, EventStep
  PROVE  TypeInv'
<1> USE DEF TypeInv, IdsKnown
<1>1. PICK e \in events : \/ DeliverRenewal(e) \/ DeliverPaymentFailed(e)
                          \/ DeliverSubscription(e) \/ LoseAcknowledged(e)
  BY DEF EventStep
<1>2. e \in Event /\ now \in Nat /\ \A i \in SubIds : sub[i] \in Row
  BY DEF TypeOK
<1>3. CASE DeliverRenewal(e)
  <2>1. Owner[e.psid] \in Users
        /\ StripePurchase(e.psid, e.end) \in Purchase
    BY <1>2, LifecycleAssumption
       DEF Event, StripePurchase, Purchase, Sources, ProviderStatuses, Time
  <2>2. sub' \in [SubIds -> Row]
    BY <1>3, <2>1, BoughtTyped, NothingTyped DEF DeliverRenewal
  <2> QED BY <1>3, <2>2 DEF TypeOK, DeliverRenewal, Deliver
<1>4. CASE DeliverPaymentFailed(e)
  BY <1>4, <1>2, GraceRow DEF TypeOK, DeliverPaymentFailed, Deliver
<1>5. CASE DeliverSubscription(e)
  BY <1>5, <1>2, SubscriptionEventRow DEF TypeOK, DeliverSubscription, Deliver
<1>6. CASE LoseAcknowledged(e)
  BY <1>6, SpendTyped DEF TypeOK, LoseAcknowledged, Counters
<1> QED BY <1>1, <1>3, <1>4, <1>5, <1>6

\* Starting a handler keeps the state typed.
LEMMA BeginTyped ==
  ASSUME TypeInv, NEW w, NEW record \in Tx, record.user \in Users,
         Begin(w, record), used' \in [Counters -> Nat],
         inChat' \in [Users -> BOOLEAN], live' \subseteq Links
  PROVE  TypeInv'
<1>1. tx' \in [Workers -> Tx]
  BY DEF TypeInv, TypeOK, Begin
<1>2. \A v \in Workers : tx'[v].op # "idle" => tx'[v].user \in Users
  BY DEF TypeInv, TypeOK, IdsKnown, Begin
<1> QED BY <1>1, <1>2 DEF TypeInv, TypeOK, IdsKnown, Begin

\* Starting a purchase, invite included, keeps the state typed.
LEMMA BeginPurchaseTyped ==
  ASSUME TypeInv, NEW w, NEW u \in Users, NEW pay \in Purchase,
         NEW e \in Event \cup {NoEvent}, NEW bought \in {0, 1},
         BeginPurchase(w, u, pay, e, bought)
  PROVE  TypeInv'
<1> DEFINE n(issued) == IF issued = 1 THEN used["links"] + 1 ELSE 0
           record(issued) ==
             [IdleTx EXCEPT !.op = "purchase", !.user = u, !.pay = pay,
                !.loaded = Load(OpenRows(u)), !.event = e, !.link = n(issued)]
<1>1. PICK issued \in {0, 1} :
        /\ Begin(w, record(issued))
        /\ live' = live \cup {[user |-> u, n |-> k] : k \in {n(issued)} \ {0}}
        /\ used' = [used EXCEPT !["links"] = @ + issued, !["buys"] = @ + bought]
  BY DEF BeginPurchase
<1>2. n(issued) \in Nat
  BY DEF TypeInv, TypeOK, Counters
<1> HIDE DEF n
<1>3. record(issued) \in Tx /\ record(issued).user \in Users
  <2>1. Load(OpenRows(u)) \in [SubIds -> Row] /\ "purchase" \in Ops
    BY LoadTyped DEF TypeInv, Ops
  <2> QED BY <1>2, <2>1, NothingTyped DEF Tx
<1>4. used' \in [Counters -> Nat]
  BY <1>1 DEF TypeInv, TypeOK, Counters
<1>5. live' \subseteq Links
  BY <1>1, <1>2 DEF TypeInv, TypeOK, Links
<1>6. inChat' \in [Users -> BOOLEAN]
  BY DEF BeginPurchase, TypeInv, TypeOK
<1> HIDE DEF record
<1> QED BY <1>1, <1>3, <1>4, <1>5, <1>6, BeginTyped

\* A Telegram removal keeps the seats and the links typed.
LEMMA RemovesTyped ==
  ASSUME TypeOK, NEW u, NEW removed, NEW failed, Removes(u, removed, failed)
  PROVE  inChat' \in [Users -> BOOLEAN] /\ live' \subseteq Links
BY DEF TypeOK, Removes

\* Starting a ban or a refund keeps the state typed.
LEMMA BeginRemovalTyped ==
  ASSUME TypeInv, NEW w, NEW op \in Ops, NEW u \in Users, NEW ids,
         BeginRemoval(w, op, u, ids)
  PROVE  TypeInv'
<1> DEFINE answers(a) == [i \in SubIds |-> IF i \in ids THEN a[i] ELSE "none"]
           removed(a) == {i \in ids : a[i] = "removed"}
           record(a) == [IdleTx EXCEPT !.op = op, !.user = u, !.loaded = Load(ids), !.was = banned[u],
                                       !.answer = answers(a)]
<1>1. PICK a \in [ids -> Answers] :
        /\ Begin(w, record(a))
        /\ Removes(u, {sub[i].link : i \in removed(a)},
                   {sub[i].link : i \in ids \ removed(a)})
  BY DEF BeginRemoval
<1>2. answers(a) \in [SubIds -> Outcomes \cup {"none"}]
  BY LifecycleAssumption
<1> HIDE DEF answers, removed
<1>3. record(a) \in Tx /\ record(a).user \in Users
  <2>1. Load(ids) \in [SubIds -> Row] /\ banned[u] \in BOOLEAN
    BY LoadTyped DEF TypeInv, TypeOK
  <2> QED BY <1>2, <2>1, NothingTyped DEF Tx
<1>4. inChat' \in [Users -> BOOLEAN] /\ live' \subseteq Links
  BY <1>1, RemovesTyped DEF TypeInv
<1>5. used' \in [Counters -> Nat]
  BY SpendTyped DEF BeginRemoval, AdminTurn, Counters, TypeInv
<1> HIDE DEF record
<1> QED BY <1>1, <1>3, <1>4, <1>5, BeginTyped

\* Starting an unban, invites included, keeps the state typed.
LEMMA BeginUnbanTyped ==
  ASSUME TypeInv, NEW w, NEW u \in Users, BeginUnban(w, u)
  PROVE  TypeInv'
<1> DEFINE entitled == {i \in BanRevoked(u) : Entitled(sub[i])}
           base == used["links"] + 1
           link(issued) == IF issued THEN base ELSE 0
           fresh == {[user |-> u, n |-> base + i] : i \in entitled}
           record(issued) == [IdleTx EXCEPT !.op = "unban", !.user = u,
                                !.loaded = Load(BanRevoked(u)), !.was = banned[u], !.link = link(issued)]
<1>1. PICK issued \in BOOLEAN :
        /\ Begin(w, record(issued))
        /\ live' = IF issued THEN live \cup fresh ELSE live
        /\ used' = [used EXCEPT !["admin"] = @ + 1,
                                !["links"] = IF issued THEN @ + 1 + MaxSubs ELSE @]
  BY DEF BeginUnban
<1>2. /\ used \in [Counters -> Nat] /\ "links" \in Counters /\ MaxSubs \in Nat
      /\ base \in Nat /\ link(issued) \in Nat
  BY LifecycleAssumption DEF TypeInv, TypeOK, Counters
<1>3. used' \in [Counters -> Nat]
  BY <1>1, <1>2 DEF Counters
<1>4. fresh \subseteq Links
  <2>1. entitled \subseteq SubIds
    BY DEF BanRevoked, RowsOf
  <2>2. \A i \in SubIds : base + i \in Nat
    BY <1>2 DEF SubIds
  <2> HIDE DEF entitled, base
  <2> QED BY <2>1, <2>2 DEF Links
<1> HIDE DEF link, fresh
<1>5. live' \subseteq Links
  BY <1>1, <1>4 DEF TypeInv, TypeOK
<1>6. record(issued) \in Tx /\ record(issued).user \in Users
  <2>1. /\ Load(BanRevoked(u)) \in [SubIds -> Row] /\ "unban" \in Ops
        /\ banned[u] \in BOOLEAN
    BY LoadTyped DEF TypeInv, TypeOK, Ops
  <2> QED BY <1>2, <2>1, NothingTyped DEF Tx
<1>7. inChat' \in [Users -> BOOLEAN]
  BY DEF BeginUnban, TypeInv, TypeOK
<1> HIDE DEF record
<1> QED BY <1>1, <1>3, <1>5, <1>6, <1>7, BeginTyped

\* Every handler start, and a handler's crash, keeps the state typed.
LEMMA HandlerTyped ==
  ASSUME TypeInv, HandlerStep
  PROVE  TypeInv'
<1>1. PICK w \in Workers :
        \/ \E e \in events : BeginFirstInvoice(w, e)
        \/ \E u \in Users : \/ BeginUsdt(w, u) \/ BeginGift(w, u)
                            \/ BeginBan(w, u) \/ BeginUnban(w, u)
                            \/ BeginRefund(w, u)
        \/ CrashHandler(w)
  BY DEF HandlerStep
<1>2. ASSUME NEW e \in events, BeginFirstInvoice(w, e) PROVE TypeInv'
  <2>1. e \in Event /\ Owner[e.psid] \in Users
        /\ StripePurchase(e.psid, e.end) \in Purchase
    BY LifecycleAssumption DEF TypeInv, TypeOK, Event, StripePurchase, Purchase,
       Sources, ProviderStatuses, Time
  <2> QED BY <1>2, <2>1, BeginPurchaseTyped DEF BeginFirstInvoice
<1>3. ASSUME NEW u \in Users, BeginUsdt(w, u) \/ BeginGift(w, u) PROVE TypeInv'
  <2>1. UsdtPurchase \in Purchase /\ GiftPurchase \in Purchase
    BY DEF UsdtPurchase, GiftPurchase, Purchase, Sources, ProviderStatuses, Time
  <2> QED BY <1>3, <2>1, BeginPurchaseTyped DEF BeginUsdt, BeginGift
<1>4. ASSUME NEW u \in Users, BeginBan(w, u) \/ BeginRefund(w, u) PROVE TypeInv'
  BY <1>4, BeginRemovalTyped DEF BeginBan, BeginRefund, Ops
<1>5. ASSUME NEW u \in Users, BeginUnban(w, u) PROVE TypeInv'
  BY <1>5, BeginUnbanTyped
<1>6. CASE CrashHandler(w)
  BY <1>6, SpendTyped, NothingTyped
     DEF CrashHandler, TypeInv, TypeOK, IdsKnown, Counters, IdleTx
<1> QED BY <1>1, <1>2, <1>3, <1>4, <1>5, <1>6

\* Writing back loaded rows keeps the table and the handlers typed.
LEMMA CommitRowsTyped ==
  ASSUME TypeInv, NEW w \in Workers, NEW written, CommitRows(w, written),
         \A i \in SubIds : written[i] \in Row,
         banned' \in [Users -> BOOLEAN], live' \subseteq Links,
         refunded' \subseteq SubIds, used' \in [Counters -> Nat]
  PROVE  TypeInv'
<1>1. tx[w].loaded \in [SubIds -> Row]
  BY DEF TypeInv, TypeOK, Tx
<1>2. sub' \in [SubIds -> Row]
  BY <1>1, FlushRow DEF TypeInv, TypeOK, CommitRows
<1>3. tx' \in [Workers -> Tx]
      /\ \A v \in Workers : tx'[v].op # "idle" => tx'[v].user \in Users
  BY NothingTyped DEF TypeInv, TypeOK, IdsKnown, CommitRows, IdleTx
<1> QED BY <1>2, <1>3 DEF TypeInv, TypeOK, IdsKnown, CommitRows

\* The flag a ban or an unban leaves is a flag.
LEMMA FlagTyped ==
  ASSUME NEW old \in [Users -> BOOLEAN], NEW u \in Users, NEW a \in BOOLEAN, NEW b \in BOOLEAN
  PROVE  [old EXCEPT ![u] = Net(@, a, b)] \in [Users -> BOOLEAN]
<1>1. Net(old[u], a, b) \in BOOLEAN
  BY DEF Net
<1> QED BY <1>1

\* Every commit keeps the state typed.
LEMMA CommitTyped ==
  ASSUME TypeInv, CommitStep
  PROVE  TypeInv'
<1>1. PICK w \in Workers : CommitPurchase(w) \/ CommitBan(w) \/ CommitUnban(w)
                           \/ CommitRefund(w)
  BY DEF CommitStep
<1>2. /\ tx[w] \in Tx /\ tx[w].loaded \in [SubIds -> Row] /\ now \in Nat
      /\ tx[w].pay \in Purchase /\ tx[w].link \in Nat
      /\ tx[w].op # "idle" => tx[w].user \in Users
  BY DEF TypeInv, TypeOK, IdsKnown, Tx, Counters
<1>3. CASE CommitPurchase(w)
  <2> DEFINE u == tx[w].user
  <2>1. PICK i \in Target(tx[w].loaded, u) :
          /\ sub' = Bought(i, u, tx[w].pay, tx[w].loaded, tx[w].link)
          /\ refunded' = refunded \ {i}
    BY <1>3 DEF CommitPurchase
  <2>2. u \in Users
    BY <1>2, <1>3 DEF CommitPurchase
  <2>3. sub' \in [SubIds -> Row]
    BY <1>2, <2>1, <2>2, BoughtTyped DEF TypeInv
  <2>4. tx' \in [Workers -> Tx]
        /\ \A v \in Workers : tx'[v].op # "idle" => tx'[v].user \in Users
    BY <1>3, NothingTyped DEF TypeInv, TypeOK, IdsKnown, CommitPurchase, IdleTx
  <2>5. refunded' \subseteq SubIds /\ events' \subseteq Event
    BY <1>3, <2>1 DEF TypeInv, TypeOK, CommitPurchase
  <2> HIDE DEF u
  <2> QED
    BY <1>3, <2>3, <2>4, <2>5 DEF TypeInv, TypeOK, IdsKnown, CommitPurchase
<1>4. CASE CommitBan(w)
  <2> DEFINE written == [i \in SubIds |->
               RecordAttempt(tx[w].loaded[i], now, tx[w].answer[i], FALSE, FALSE)]
  <2>1. \A i \in SubIds : written[i] \in Row
    BY <1>2, RecordAttemptRow
  <2>2. banned' \in [Users -> BOOLEAN] /\ CommitRows(w, written)
        /\ live' \subseteq Links /\ refunded' \subseteq SubIds
        /\ used' \in [Counters -> Nat]
    <3>1. banned' \in [Users -> BOOLEAN]
      BY <1>2, <1>4, FlagTyped DEF CommitBan, TypeInv, TypeOK, Tx
    <3> QED BY <1>4, <3>1 DEF CommitBan, TypeInv, TypeOK
  <2> HIDE DEF written
  <2> QED BY <2>1, <2>2, CommitRowsTyped
<1>5. CASE CommitRefund(w)
  <2> DEFINE written == [i \in SubIds |->
               RecordAttempt(EndForRefund(tx[w].loaded[i], now), now, tx[w].answer[i],
                             TRUE, FALSE)]
  <2>1. \A i \in SubIds : written[i] \in Row
    BY <1>2, RecordAttemptRow, RefundRow
  <2>2. banned' \in [Users -> BOOLEAN] /\ CommitRows(w, written)
        /\ live' \subseteq Links /\ refunded' \subseteq SubIds
        /\ used' \in [Counters -> Nat]
    BY <1>5 DEF CommitRefund, TypeInv, TypeOK, LoadedIn
  <2> HIDE DEF written
  <2> QED BY <2>1, <2>2, CommitRowsTyped
<1>6. CASE CommitUnban(w)
  <2> DEFINE number(i) == IF tx[w].link = 0 THEN 0 ELSE tx[w].link + i
             written == [i \in SubIds |-> Restored(tx[w].loaded[i], number(i))]
  <2>1. \A i \in SubIds : number(i) \in Nat
    BY <1>2, LifecycleAssumption DEF SubIds
  <2> HIDE DEF number
  <2>2. \A i \in SubIds : written[i] \in Row
    BY <1>2, <2>1, RestoredRow
  <2>3. banned' \in [Users -> BOOLEAN] /\ CommitRows(w, written)
        /\ live' \subseteq Links /\ refunded' \subseteq SubIds
        /\ used' \in [Counters -> Nat]
    <3>1. banned' \in [Users -> BOOLEAN]
      BY <1>2, <1>6, FlagTyped DEF CommitUnban, TypeInv, TypeOK, Tx
    <3> QED BY <1>6, <3>1 DEF CommitUnban, TypeInv, TypeOK, number
  <2> HIDE DEF written
  <2> QED BY <2>2, <2>3, CommitRowsTyped
<1> QED BY <1>1, <1>3, <1>4, <1>5, <1>6

\* extend_days and the comp flag keep the state typed.
LEMMA PanelTyped ==
  ASSUME TypeInv, PanelStep
  PROVE  TypeInv'
<1>1. PICK i \in SubIds : ExtendDays(i) \/ SetComp(i)
  BY DEF PanelStep
<1>2. sub[i] \in Row
  BY DEF TypeInv, TypeOK
<1>3. used' \in [Counters -> Nat]
  BY <1>1, SpendTyped DEF ExtendDays, SetComp, AdminTurn, Counters, TypeInv
<1>4. sub' \in [SubIds -> Row]
  <2>1. [sub[i] EXCEPT !.expires = @ + PlanDays] \in Row
    BY <1>2, LifecycleAssumption DEF Row
  <2>2. [sub[i] EXCEPT !.comp = ~@] \in Row
    BY <1>2 DEF Row
  <2> QED BY <1>1, <2>1, <2>2 DEF TypeInv, TypeOK, ExtendDays, SetComp
<1> QED BY <1>1, <1>3, <1>4 DEF TypeInv, TypeOK, IdsKnown, ExtendDays, SetComp

\* Every step of kick_expired_job keeps the state typed.
LEMMA JobTyped ==
  ASSUME TypeInv, JobStep \/ JobRecordFails \/ CrashBot
  PROVE  TypeInv'
<1> USE DEF TypeInv, IdsKnown
<1>1. /\ job.loaded \in [SubIds -> Row] /\ job.todo \subseteq SubIds
      /\ job.seen \subseteq SubIds /\ job.cur \in SubIds \cup {0} /\ now \in Nat
      /\ job \in Job
  BY DEF TypeOK, Job
<1>2. CASE JobStart
  <2>1. DueNow \subseteq SubIds /\ Load(DueNow) \in [SubIds -> Row]
    BY LoadTyped DEF DueNow
  <2>2. job' \in Job
    BY <1>2, <2>1, NothingTyped DEF JobStart, Job, Phases
  <2>3. job'.stage = "pick"
    BY <1>2, <1>1 DEF JobStart, IdleJob
  <2> QED BY <1>2, <2>2, <2>3 DEF TypeOK, JobStart, JobOnly
<1>3. CASE JobRevoke
  <2>1. PICK i \in NextInBatch, a \in Outcomes :
          /\ LET link == {job.loaded[i].link}
             IN  Removes(job.loaded[i].user, IF a = "removed" THEN link ELSE {},
                         IF a = "removed" THEN {} ELSE link)
          /\ job' = [job EXCEPT !.stage = "record", !.todo = @ \ {i},
                               !.seen = @ \cup {i}, !.cur = i, !.answer = a]
    BY <1>3 DEF JobRevoke
  <2>2. i \in SubIds
    BY <1>1 DEF NextInBatch
  <2>3. job' \in Job
    BY <1>1, <2>1, <2>2 DEF Job, Stages
  <2>4. inChat' \in [Users -> BOOLEAN] /\ live' \subseteq Links
    BY <2>1, RemovesTyped
  <2>5. job'.cur \in SubIds
    BY <1>1, <2>1, <2>2 DEF Job
  <2> QED BY <1>3, <2>3, <2>4, <2>5 DEF TypeOK, JobRevoke, JobOnly
<1>4. CASE JobRecord
  <2> DEFINE i == job.cur
             loaded == job.loaded[i]
             recorded == RecordAttempt(loaded, now, job.answer,
                                       job.phase = "expiry", job.answer = "never")
             gaveUp == recorded.abandoned /\ ~loaded.abandoned
             stage == IF gaveUp THEN "alert" ELSE "pick"
             cur == IF gaveUp THEN i ELSE 0
             rest == [job.loaded EXCEPT ![i] = NoRow]
  <2>1. ASSUME i \in SubIds PROVE recorded \in Row
    BY <1>1, <2>1, RecordAttemptRow
  <2>2. sub' = [sub EXCEPT ![i] = Flush(@, loaded, recorded)]
        /\ job' = [job EXCEPT !.stage = stage, !.cur = cur, !.answer = "none",
                             !.loaded = rest]
    BY <1>4 DEF JobRecord
  <2>3. sub' \in [SubIds -> Row]
    <3> HIDE DEF recorded, loaded
    <3>1. ASSUME i \in SubIds PROVE Flush(sub[i], loaded, recorded) \in Row
      BY <3>1, <2>1, <1>1, FlushRow DEF TypeOK, loaded
    <3> HIDE DEF i
    <3> QED BY <2>2, <3>1 DEF TypeOK
  <2>4. stage \in Stages /\ cur \in SubIds \cup {0} /\ rest \in [SubIds -> Row]
    BY <1>1, NoRowRow DEF Stages
  <2>5. job' \in Job
    <3> HIDE DEF stage, cur, rest
    <3> QED BY <1>1, <2>2, <2>4 DEF Job
  <2>6. job'.stage # "pick" => job'.cur \in SubIds
    <3>1. job'.stage = stage /\ job'.cur = cur
      <4> HIDE DEF stage, cur, rest
      <4> QED BY <1>1, <2>2 DEF Job
    <3> HIDE DEF gaveUp
    <3> QED BY <1>4, <3>1 DEF JobRecord
  <2> QED BY <1>4, <2>3, <2>5, <2>6 DEF TypeOK, JobRecord, JobOnly
<1>5. CASE JobAlert
  <2>1. job' \in Job /\ job'.stage = "pick"
    BY <1>1, <1>5 DEF JobAlert, Job, Stages
  <2> QED BY <1>5, <2>1 DEF TypeOK, JobAlert, JobOnly
<1>6. CASE JobDrain
  <2>1. BanPending \ job.seen \subseteq SubIds
        /\ Load(BanPending \ job.seen) \in [SubIds -> Row]
    BY LoadTyped DEF BanPending
  <2>2. job' \in Job /\ job'.stage = "pick"
    BY <1>1, <1>6, <2>1 DEF JobDrain, Job, Phases
  <2> QED BY <1>6, <2>2 DEF TypeOK, JobDrain, JobOnly
<1>7. CASE JobFinish
  BY <1>7, NothingTyped DEF TypeOK, JobFinish, JobOnly, IdleJob
<1>8. CASE JobRecordFails
  <2>1. job' \in Job /\ job'.stage = "pick"
    BY <1>1, <1>8, NothingTyped DEF JobRecordFails, Job, Stages, IdleJob
  <2> QED BY <1>8, <2>1, SpendTyped DEF TypeOK, JobRecordFails, JobOnly, Counters
<1>9. CASE CrashBot
  BY <1>9, NothingTyped, SpendTyped DEF TypeOK, CrashBot, JobOnly, Counters, IdleJob
<1> QED BY <1>2, <1>3, <1>4, <1>5, <1>6, <1>7, <1>8, <1>9 DEF JobStep

\* The empty database is typed.
LEMMA TypeInit == Init => TypeInv
<1> SUFFICES ASSUME Init PROVE TypeInv
  OBVIOUS
<1>1. TypeOK
  BY NoRowRow, NothingTyped DEF Init, TypeOK, Remote
<1> QED BY <1>1 DEF Init, TypeInv, IdsKnown, IdleTx, IdleJob

\* Every step keeps the state typed: one case per group of actions.
LEMMA TypeStep == TypeInv /\ [Next]_vars => TypeInv'
<1> SUFFICES ASSUME TypeInv, [Next]_vars PROVE TypeInv'
  OBVIOUS
<1>1. CASE UNCHANGED vars
  BY <1>1 DEF vars, TypeInv, TypeOK, IdsKnown
<1>2. CASE Next
  BY <1>2, OutsideTyped, EventTyped, HandlerTyped, CommitTyped, PanelTyped,
     JobTyped DEF Next
<1> QED BY <1>1, <1>2

\* Every column, loaded row, open transaction and batch keeps its type, in
\* every instance.
THEOREM TypeCorrect == Spec => []TypeOK
<1>1. Spec => []TypeInv
  BY TypeInit, TypeStep, PTL DEF Spec
<1>2. TypeInv => TypeOK
  BY DEF TypeInv
<1> QED BY <1>1, <1>2, PTL

(***************************************************************************)
(* Exactly one row claims a provider subscription id.                      *)
(*                                                                         *)
(* ClaimsApart is not inductive.  A purchase that binds an id releases it  *)
(* on the rows that carry it in the table, but writes the release as a     *)
(* difference from the rows it loaded: had it loaded the row before the id *)
(* was bound there, the difference would be empty and the row would keep   *)
(* the id.  LoadSound excludes that, because nobody else binds the id      *)
(* while the purchase is open: the first invoice of a subscription is one  *)
(* event (EventsSound), it stays queued until its transaction ends         *)
(* (TxSound), and Stripe sends no renewal before it.                       *)
(***************************************************************************)
EventsSound ==
  /\ \A e \in events : remote[e.psid].status # "none"
  /\ \A e, f \in events :
       (e.type = "first_invoice" /\ f.psid = e.psid) =>
         /\ f.type = "first_invoice" => f = e
         /\ f.type # "renewal_invoice"
         /\ remote[e.psid].status # "past_due"

Binds(w) == tx[w].op = "purchase" /\ tx[w].pay.psid # NoLink

TxSound ==
  /\ \A w \in Workers : Binds(w) =>
       /\ tx[w].event \in events
       /\ tx[w].event.type = "first_invoice"
       /\ tx[w].event.psid = tx[w].pay.psid
  /\ \A v, w \in Workers :
       (v # w /\ tx[v].event # NoEvent) => tx[v].event # tx[w].event

LoadSound ==
  \A w \in Workers, i \in SubIds :
    ( /\ Binds(w)
      /\ tx[w].loaded[i].status # "absent"
      /\ sub[i].psid = tx[w].pay.psid )
    => tx[w].loaded[i].psid = tx[w].pay.psid

ClaimInv == TypeInv /\ EventsSound /\ TxSound /\ LoadSound /\ ClaimsApart

\* What a purchase does to the ids: the row it writes keeps its id, loses it
\* or takes the one bought, and no other row still carries that one.
LEMMA BoughtPsids ==
  ASSUME TypeInv, NEW i, NEW u \in Users, NEW pay \in Purchase,
         NEW loaded \in [SubIds -> Row], NEW n \in Nat,
         \A j \in SubIds : /\ pay.psid # NoLink
                          /\ loaded[j].status # "absent"
                          /\ sub[j].psid = pay.psid
                          => loaded[j].psid = pay.psid,
         NEW j \in SubIds
  PROVE  LET new == Bought(i, u, pay, loaded, n)[j].psid
         IN  /\ new \in {sub[j].psid, NoLink, pay.psid}
             /\ (j # i /\ pay.psid # NoLink) => new # pay.psid
             /\ j # i => new \in {sub[j].psid, NoLink}
<1> DEFINE known == IF loaded[j].status # "absent" THEN loaded[j] ELSE sub[j]
           bought == IF sub[i].status = "absent" THEN NewRow(u, pay)
                     ELSE Extended(known, pay)
           superseded == pay.psid # NoLink /\ sub[j].psid = pay.psid
           value == IF j = i THEN Flush(sub[j], known, WithLink(bought, n))
                    ELSE IF superseded THEN Flush(sub[j], known, Released(known))
                    ELSE sub[j]
<1>1. known \in Row /\ sub[j] \in Row /\ now \in Nat
  BY DEF TypeInv, TypeOK
<1>2. Bought(i, u, pay, loaded, n)[j] = value
  BY DEF Bought
<1>3. CASE j = i
  <2>1. bought \in Row
        /\ \/ bought.psid = pay.psid
           \/ pay.psid = NoLink /\ bought.psid = known.psid
    BY <1>1, <1>3, NewRowRow, ExtendedRow
  <2>2. WithLink(bought, n) \in Row /\ WithLink(bought, n).psid = bought.psid
    BY <2>1 DEF WithLink, Row
  <2> HIDE DEF known, bought
  <2>3. value.psid = Net(sub[j].psid, known.psid, bought.psid)
    BY <1>1, <1>3, <2>2, FlushRow
  <2> HIDE DEF value
  <2> QED BY <1>2, <1>3, <2>1, <2>3 DEF Net
<1>4. CASE j # i /\ superseded
  <2>1. known.psid = pay.psid
    BY <1>4
  <2>2. Released(known) \in Row /\ Released(known).psid = NoLink
    BY <1>1, ReleasedRow
  <2> HIDE DEF known
  <2>3. value.psid = Net(sub[j].psid, known.psid, NoLink)
    BY <1>1, <1>4, <2>2, FlushRow
  <2> HIDE DEF value
  <2> QED BY <1>2, <1>4, <2>1, <2>3 DEF Net
<1>5. CASE j # i /\ ~superseded
  BY <1>2, <1>5
<1> QED BY <1>3, <1>4, <1>5

\* A step that binds no id keeps what the open purchases know.
LEMMA KeptPsids ==
  ASSUME LoadSound, ClaimsApart,
         \A i \in SubIds : sub'[i].psid = sub[i].psid,
         \A w \in Workers : Binds(w)' =>
           \/ tx'[w] = tx[w]
           \/ \A i \in SubIds : tx'[w].loaded[i].status # "absent"
                               => tx'[w].loaded[i] = sub[i]
  PROVE  LoadSound' /\ ClaimsApart'
<1>1. ClaimsApart'
  BY DEF ClaimsApart
<1>2. ASSUME NEW w \in Workers, NEW i \in SubIds, Binds(w)',
             tx'[w].loaded[i].status # "absent", sub'[i].psid = tx'[w].pay.psid
      PROVE  tx'[w].loaded[i].psid = tx'[w].pay.psid
  <2>1. CASE tx'[w] = tx[w]
    BY <1>2, <2>1 DEF LoadSound, Binds
  <2>2. CASE tx'[w] # tx[w]
    BY <1>2, <2>2
  <2> QED BY <2>1, <2>2
<1>3. LoadSound'
  BY <1>2 DEF LoadSound
<1> QED BY <1>1, <1>3

\* Deliveries and crashes only remove events: what is known of each stays so.
LEMMA EventsShrink ==
  ASSUME EventsSound, events' \subseteq events, remote' = remote
  PROVE  EventsSound'
BY DEF EventsSound

\* A transaction that ends takes only its own event away.
LEMMA TxEnds ==
  ASSUME TxSound, NEW w, tx' = [tx EXCEPT ![w] = IdleTx],
         tx \in [Workers -> Tx], events \ {tx[w].event} \subseteq events', w \in Workers
  PROVE  /\ TxSound'
         /\ \A v \in Workers : Binds(v)' => v # w /\ tx'[v] = tx[v] /\ Binds(v)
<1>1. \A v \in Workers : tx'[v] = IF v = w THEN IdleTx ELSE tx[v]
  OBVIOUS
<1>2. IdleTx.op = "idle" /\ IdleTx.event = NoEvent
  BY DEF IdleTx
<1>3. \A v \in Workers : Binds(v)' => v # w /\ tx'[v] = tx[v] /\ Binds(v)
  BY <1>1, <1>2 DEF Binds
<1>4. ASSUME NEW v \in Workers, Binds(v)'
      PROVE  tx'[v].event \in events' /\ tx'[v].event.type = "first_invoice"
             /\ tx'[v].event.psid = tx'[v].pay.psid
  <2>1. v # w /\ tx'[v] = tx[v] /\ Binds(v)
    BY <1>3, <1>4
  <2>2. /\ tx[v].event \in events /\ tx[v].event.type = "first_invoice"
        /\ tx[v].event.psid = tx[v].pay.psid
    BY <2>1 DEF TxSound
  <2>3. tx[v].event # NoEvent
    BY <2>2 DEF NoEvent
  <2>4. tx[v].event # tx[w].event
    BY <2>1, <2>3 DEF TxSound
  <2> QED BY <2>1, <2>2, <2>4
<1>5. ASSUME NEW u \in Workers, NEW v \in Workers, u # v, tx'[u].event # NoEvent
      PROVE  tx'[u].event # tx'[v].event
  BY <1>1, <1>2, <1>5 DEF TxSound
<1> QED BY <1>3, <1>4, <1>5 DEF TxSound

\* Stripe and the clock touch no row and no claim.
LEMMA OutsideClaim ==
  ASSUME ClaimInv, Tick \/ (\E l \in live : Join(l)) \/ StripeStep
  PROVE  EventsSound' /\ TxSound' /\ LoadSound' /\ ClaimsApart'
<1> USE DEF ClaimInv
<1>1. sub' = sub /\ tx' = tx
  BY DEF Tick, Join, StripeStep, Checkout, RemoteRenew, RemoteRenewFails,
     RemoteRecovers, RemoteCancel, RemoteStep
<1>2. LoadSound' /\ ClaimsApart'
  BY <1>1 DEF LoadSound, ClaimsApart, Binds
<1>3. events \subseteq events'
  BY DEF Tick, Join, StripeStep, Checkout, RemoteRenew, RemoteRenewFails,
     RemoteRecovers, RemoteCancel, RemoteStep
<1>4. TxSound'
  BY <1>1, <1>3 DEF TxSound, Binds
<1>5. EventsSound'
  <2>1. CASE Tick \/ \E l \in live : Join(l)
    BY <2>1 DEF Tick, Join, EventsSound
  <2>2. ASSUME NEW p \in PSids, NEW status \in {"active", "past_due", "canceled"},
               NEW end, NEW sent, RemoteStep(p, status, end, sent),
               \/ /\ sent = {"first_invoice"} /\ status = "active"
                  /\ remote[p].status = "none"
               \/ /\ "first_invoice" \notin sent
                  /\ remote[p].status # "none"
                  /\ \/ \A e \in events : e.psid = p => e.type # "first_invoice"
                     \/ "renewal_invoice" \notin sent /\ status # "past_due"
        PROVE  EventsSound'
    <3> DEFINE new(t) == [type |-> t, psid |-> p, end |-> end, status |-> status]
    <3>1. remote' = [remote EXCEPT ![p] = [end |-> end, status |-> status]]
          /\ events' = events \cup {new(t) : t \in sent}
      BY <2>2 DEF RemoteStep
    <3>2. remote \in [PSids -> Remote] /\ \A e \in events : e.psid \in PSids
      BY DEF TypeInv, TypeOK, Event
    <3>3. \A e \in events' : e \in events \/ (e.psid = p /\ e.type \in sent)
      BY <3>1
    <3>4. remote'[p].status = status
      BY <3>1, <3>2
    <3>5. \A q \in PSids : q # p => remote'[q] = remote[q]
      BY <3>1, <3>2
    <3>6. ASSUME NEW e \in events' PROVE remote'[e.psid].status # "none"
      BY <3>2, <3>3, <3>4, <3>5 DEF EventsSound
    <3>7. ASSUME NEW e \in events', NEW f \in events',
                 e.type = "first_invoice", f.psid = e.psid
          PROVE  /\ f.type = "first_invoice" => f = e
                 /\ f.type # "renewal_invoice"
                 /\ remote'[e.psid].status # "past_due"
      <4>1. CASE e.psid # p
        BY <3>2, <3>3, <3>5, <3>7, <4>1 DEF EventsSound
      <4>2. CASE e.psid = p /\ sent = {"first_invoice"} /\ status = "active"
                 /\ remote[p].status = "none"
        <5>1. e \notin events /\ f \notin events
          BY <3>7, <4>2 DEF EventsSound
        <5> QED BY <3>1, <3>4, <3>7, <4>2, <5>1
      <4>3. CASE e.psid = p /\ ~(sent = {"first_invoice"} /\ status = "active"
                                 /\ remote[p].status = "none")
        <5>1. e \in events /\ "renewal_invoice" \notin sent /\ status # "past_due"
              /\ "first_invoice" \notin sent
          BY <2>2, <3>3, <3>7, <4>3
        <5> QED BY <3>3, <3>4, <3>7, <4>3, <5>1 DEF EventsSound
      <4> QED BY <4>1, <4>2, <4>3
    <3> QED BY <3>6, <3>7 DEF EventsSound
  <2>3. CASE StripeStep
    <3>1. PICK p \in PSids : \/ Checkout(p) \/ RemoteRenew(p)
                             \/ RemoteRenewFails(p) \/ RemoteRecovers(p)
                             \/ RemoteCancel(p)
      BY <2>3 DEF StripeStep
    <3>2. CASE Checkout(p)
      BY <3>2, <2>2 DEF Checkout
    <3>3. CASE RemoteRenew(p)
      BY <3>3, <2>2 DEF RemoteRenew, RemoteDue
    <3>4. CASE RemoteRenewFails(p)
      BY <3>4, <2>2 DEF RemoteRenewFails, RemoteDue
    <3>5. CASE RemoteRecovers(p)
      <4>1. \A e \in events : e.psid = p => e.type # "first_invoice"
        BY <3>5 DEF RemoteRecovers, EventsSound
      <4> QED BY <3>5, <4>1, <2>2 DEF RemoteRecovers
    <3>6. CASE RemoteCancel(p)
      BY <3>6, <2>2 DEF RemoteCancel
    <3> QED BY <3>1, <3>2, <3>3, <3>4, <3>5, <3>6
  <2> QED BY <2>1, <2>3
<1> QED BY <1>2, <1>4, <1>5

\* A webhook that writes rows keeps one claimant per subscription id.
LEMMA EventClaim ==
  ASSUME ClaimInv, EventStep
  PROVE  EventsSound' /\ TxSound' /\ LoadSound' /\ ClaimsApart'
<1> USE DEF ClaimInv
<1>1. PICK e \in events : \/ DeliverRenewal(e) \/ DeliverPaymentFailed(e)
                          \/ DeliverSubscription(e) \/ LoseAcknowledged(e)
  BY DEF EventStep
<1>2. events' = events \ {e} /\ remote' = remote /\ tx' = tx
  BY <1>1 DEF DeliverRenewal, DeliverPaymentFailed, DeliverSubscription,
     LoseAcknowledged, Deliver
<1>3. EventsSound'
  BY <1>2, EventsShrink
<1>4. \A w \in Workers : Binds(w) => tx[w].event # e
  BY <1>1 DEF TxSound, DeliverRenewal, DeliverPaymentFailed,
     DeliverSubscription, LoseAcknowledged, Deliver
<1>5. TxSound'
  BY <1>2, <1>4 DEF TxSound, Binds
<1>6. CASE DeliverRenewal(e)
  <2>1. e \in Event /\ e.psid \in PSids /\ Owner[e.psid] \in Users
        /\ StripePurchase(e.psid, e.end) \in Purchase
    BY LifecycleAssumption DEF TypeInv, TypeOK, Event, StripePurchase, Purchase,
       Sources, ProviderStatuses, Time
  <2>2. PICK i : sub' = Bought(i, Owner[e.psid], StripePurchase(e.psid, e.end),
                               NothingLoaded, 0)
    BY <1>6 DEF DeliverRenewal
  <2>3. \A j \in SubIds : NothingLoaded[j].status = "absent"
    BY DEF NothingLoaded, NoRow
  <2>4. StripePurchase(e.psid, e.end).psid = e.psid /\ e.psid # NoLink
    BY <2>1, RowAssumption DEF StripePurchase
  <2>5. ASSUME NEW j \in SubIds
        PROVE  /\ sub'[j].psid \in {sub[j].psid, NoLink, e.psid}
               /\ j # i => sub'[j].psid # e.psid
               /\ j # i => sub'[j].psid \in {sub[j].psid, NoLink}
    BY <2>1, <2>2, <2>3, <2>4, NothingTyped, BoughtPsids
  <2>6. ClaimsApart'
    BY <2>5 DEF ClaimsApart
  <2>7. \A w \in Workers : Binds(w) => tx[w].pay.psid # e.psid
    BY <1>6 DEF DeliverRenewal, Deliver, TxSound, EventsSound
  <2>8. LoadSound'
    BY <1>2, <2>5, <2>7 DEF LoadSound, Binds
  <2> QED BY <1>3, <1>5, <2>6, <2>8
<1>7. CASE ~DeliverRenewal(e)
  <2>1. e \in Event /\ now \in Nat /\ \A i \in SubIds : sub[i] \in Row
    BY DEF TypeInv, TypeOK
  <2>2. \A i \in SubIds : sub'[i].psid = sub[i].psid
    BY <1>1, <1>7, <2>1, GraceRow, SubscriptionEventRow
       DEF DeliverPaymentFailed, DeliverSubscription, LoseAcknowledged
  <2> QED BY <1>2, <1>3, <1>5, <2>2, KeptPsids
<1> QED BY <1>6, <1>7

\* Starting or losing a handler writes no row.
LEMMA HandlerClaim ==
  ASSUME ClaimInv, HandlerStep
  PROVE  EventsSound' /\ TxSound' /\ LoadSound' /\ ClaimsApart'
<1> USE DEF ClaimInv
<1>0. tx \in [Workers -> Tx] /\ \A i \in SubIds : sub[i] \in Row
  BY DEF TypeInv, TypeOK
<1>1. PICK w \in Workers :
        \/ \E e \in events : BeginFirstInvoice(w, e)
        \/ \E u \in Users : \/ BeginUsdt(w, u) \/ BeginGift(w, u)
                            \/ BeginBan(w, u) \/ BeginUnban(w, u)
                            \/ BeginRefund(w, u)
        \/ CrashHandler(w)
  BY DEF HandlerStep
<1>2. ASSUME NEW record, NEW ids, Begin(w, record),
             record.loaded = Load(ids),
             \/ /\ record.op # "purchase" \/ record.pay.psid = NoLink
                /\ record.event = NoEvent
             \/ /\ record.event \in events
                /\ record.event.type = "first_invoice"
                /\ record.event.psid = record.pay.psid
                /\ \A v \in Workers : tx[v].event # record.event
      PROVE  EventsSound' /\ TxSound' /\ LoadSound' /\ ClaimsApart'
  <2>1. sub' = sub /\ remote' = remote /\ events' = events
        /\ \A v \in Workers : tx'[v] = IF v = w THEN record ELSE tx[v]
    BY <1>0, <1>2 DEF Begin
  <2>2. EventsSound'
    BY <1>2, <2>1, EventsShrink
  <2>3. ASSUME NEW i \in SubIds
        PROVE  record.loaded[i].status # "absent" => record.loaded[i] = sub[i]
    BY <1>2 DEF Load, NoRow
  <2>4. LoadSound' /\ ClaimsApart'
    BY <2>1, <2>3, KeptPsids
  <2>5. ASSUME NEW v \in Workers, Binds(v)'
        PROVE  tx'[v].event \in events' /\ tx'[v].event.type = "first_invoice"
               /\ tx'[v].event.psid = tx'[v].pay.psid
    BY <1>2, <2>1, <2>5 DEF TxSound, Binds
  <2>6. ASSUME NEW u \in Workers, NEW v \in Workers, u # v, tx'[u].event # NoEvent
        PROVE  tx'[u].event # tx'[v].event
    BY <1>2, <2>1, <2>6 DEF TxSound
  <2> QED BY <2>2, <2>4, <2>5, <2>6 DEF TxSound
<1>3. ASSUME NEW u \in Users, NEW pay, NEW e, NEW bought,
             BeginPurchase(w, u, pay, e, bought),
             \/ pay.psid = NoLink /\ e = NoEvent
             \/ /\ e \in events /\ e.type = "first_invoice" /\ e.psid = pay.psid
                /\ \A v \in Workers : tx[v].event # e
      PROVE  EventsSound' /\ TxSound' /\ LoadSound' /\ ClaimsApart'
  <2> DEFINE record(n) ==
        [IdleTx EXCEPT !.op = "purchase", !.user = u, !.pay = pay,
           !.loaded = Load(OpenRows(u)), !.event = e, !.link = n]
  <2>1. PICK n : Begin(w, record(n))
    BY <1>3 DEF BeginPurchase
  <2>2. record(n).loaded = Load(OpenRows(u)) /\ record(n).event = e
        /\ record(n).pay = pay
    BY DEF IdleTx
  <2> HIDE DEF record
  <2> QED BY <1>2, <1>3, <2>1, <2>2
<1>4. ASSUME NEW op \in {"ban", "refund"}, NEW u, NEW ids, BeginRemoval(w, op, u, ids)
      PROVE  EventsSound' /\ TxSound' /\ LoadSound' /\ ClaimsApart'
  <2> DEFINE record(a) == [IdleTx EXCEPT !.op = op, !.user = u, !.loaded = Load(ids), !.was = banned[u],
                                         !.answer = a]
  <2>1. PICK a : Begin(w, record(a))
    BY <1>4 DEF BeginRemoval
  <2>2. record(a).op # "purchase" /\ record(a).event = NoEvent
        /\ record(a).loaded = Load(ids)
    BY DEF IdleTx
  <2> HIDE DEF record
  <2> QED BY <1>2, <2>1, <2>2
<1>5. ASSUME NEW e \in events, BeginFirstInvoice(w, e)
      PROVE  EventsSound' /\ TxSound' /\ LoadSound' /\ ClaimsApart'
  <2>1. Owner[e.psid] \in Users /\ StripePurchase(e.psid, e.end).psid = e.psid
    BY LifecycleAssumption DEF TypeInv, TypeOK, Event, StripePurchase
  <2> QED BY <1>3, <1>5, <2>1 DEF BeginFirstInvoice
<1>6. ASSUME NEW u \in Users, BeginUsdt(w, u) \/ BeginGift(w, u)
      PROVE  EventsSound' /\ TxSound' /\ LoadSound' /\ ClaimsApart'
  <2>1. UsdtPurchase.psid = NoLink /\ GiftPurchase.psid = NoLink
    BY DEF UsdtPurchase, GiftPurchase
  <2> QED BY <1>3, <1>6, <2>1 DEF BeginUsdt, BeginGift
<1>7. ASSUME NEW u \in Users, BeginUnban(w, u)
      PROVE  EventsSound' /\ TxSound' /\ LoadSound' /\ ClaimsApart'
  <2> DEFINE record(n) == [IdleTx EXCEPT !.op = "unban", !.user = u,
                                         !.loaded = Load(BanRevoked(u)), !.was = banned[u], !.link = n]
  <2>1. PICK n : Begin(w, record(n))
    BY <1>7 DEF BeginUnban
  <2>2. record(n).op # "purchase" /\ record(n).event = NoEvent
        /\ record(n).loaded = Load(BanRevoked(u))
    BY DEF IdleTx
  <2> HIDE DEF record
  <2> QED BY <1>2, <2>1, <2>2
<1>8. CASE CrashHandler(w)
  <2>1. /\ tx' = [tx EXCEPT ![w] = IdleTx] /\ sub' = sub /\ remote' = remote
        /\ events' \subseteq events /\ events \ {tx[w].event} \subseteq events'
    BY <1>8 DEF CrashHandler
  <2>2. TxSound' /\ \A v \in Workers : Binds(v)' => tx'[v] = tx[v]
    BY <1>0, <2>1, TxEnds
  <2> QED BY <2>1, <2>2, EventsShrink, KeptPsids
<1> QED BY <1>1, <1>4, <1>5, <1>6, <1>7, <1>8 DEF BeginBan, BeginRefund

\* No commit makes a second claimant, from however old a read.
LEMMA CommitClaim ==
  ASSUME ClaimInv, CommitStep
  PROVE  EventsSound' /\ TxSound' /\ LoadSound' /\ ClaimsApart'
<1> USE DEF ClaimInv
<1>0. tx \in [Workers -> Tx] /\ \A i \in SubIds : sub[i] \in Row
  BY DEF TypeInv, TypeOK
<1>1. PICK w \in Workers : CommitPurchase(w) \/ CommitBan(w) \/ CommitUnban(w)
                           \/ CommitRefund(w)
  BY DEF CommitStep
<1>2. /\ tx' = [tx EXCEPT ![w] = IdleTx] /\ remote' = remote
      /\ events' \subseteq events /\ events \ {tx[w].event} \subseteq events'
  BY <1>1 DEF CommitPurchase, CommitBan, CommitUnban, CommitRefund, CommitRows
<1>3. EventsSound' /\ TxSound'
      /\ \A v \in Workers : Binds(v)' => v # w /\ tx'[v] = tx[v] /\ Binds(v)
  BY <1>0, <1>2, EventsShrink, TxEnds
<1>4. /\ tx[w].loaded \in [SubIds -> Row] /\ now \in Nat /\ tx[w].pay \in Purchase
      /\ tx[w].link \in Nat
      /\ tx[w].op # "idle" => tx[w].user \in Users
  BY DEF TypeInv, TypeOK, IdsKnown, Tx, Counters
<1>5. CASE CommitPurchase(w)
  <2> DEFINE u == tx[w].user
             pay == tx[w].pay
  <2>1. PICK i \in Target(tx[w].loaded, u) :
          sub' = Bought(i, u, pay, tx[w].loaded, tx[w].link)
    BY <1>5 DEF CommitPurchase
  <2>2. u \in Users
    BY <1>4, <1>5 DEF CommitPurchase
  <2>3. \A j \in SubIds : /\ pay.psid # NoLink
                          /\ tx[w].loaded[j].status # "absent"
                          /\ sub[j].psid = pay.psid
                          => tx[w].loaded[j].psid = pay.psid
    BY <1>5 DEF LoadSound, Binds, CommitPurchase
  <2> HIDE DEF u
  <2>4. ASSUME NEW j \in SubIds
        PROVE  /\ sub'[j].psid \in {sub[j].psid, NoLink, pay.psid}
               /\ (j # i /\ pay.psid # NoLink) => sub'[j].psid # pay.psid
               /\ j # i => sub'[j].psid \in {sub[j].psid, NoLink}
    BY <1>4, <2>1, <2>2, <2>3, BoughtPsids
  <2>5. ClaimsApart'
    BY <2>4 DEF ClaimsApart
  <2>6. ASSUME NEW v \in Workers, Binds(v)'
        PROVE  tx[v].pay.psid # pay.psid
    <3>1. v # w /\ Binds(v)
      BY <1>3, <2>6
    <3>2. ASSUME tx[v].pay.psid = pay.psid PROVE FALSE
      <4>1. Binds(w)
        BY <1>5, <3>1, <3>2 DEF Binds, CommitPurchase
      <4>2. tx[v].event = tx[w].event /\ tx[v].event.type = "first_invoice"
        BY <3>1, <3>2, <4>1 DEF TxSound, EventsSound
      <4> QED BY <3>1, <4>2 DEF TxSound, NoEvent
    <3> QED BY <3>2
  <2>7. ASSUME NEW v \in Workers, NEW j \in SubIds, Binds(v)',
               tx'[v].loaded[j].status # "absent", sub'[j].psid = tx'[v].pay.psid
        PROVE  tx'[v].loaded[j].psid = tx'[v].pay.psid
    <3>1. tx'[v] = tx[v] /\ Binds(v)
      BY <1>3, <2>7
    <3>2. sub[j].psid = tx[v].pay.psid
      BY <2>4, <2>6, <2>7, <3>1 DEF Binds
    <3> QED BY <2>7, <3>1, <3>2 DEF LoadSound
  <2>8. LoadSound'
    BY <2>7 DEF LoadSound
  <2> QED BY <1>3, <2>5, <2>8
<1>6. CASE ~CommitPurchase(w)
  <2>1. ASSUME NEW written, CommitRows(w, written),
               \A j \in SubIds : /\ written[j] \in Row
                                /\ written[j].psid = tx[w].loaded[j].psid
        PROVE  \A j \in SubIds : sub'[j].psid = sub[j].psid
    BY <1>0, <1>4, <2>1, FlushRow DEF CommitRows, Net
  <2>2. CASE CommitBan(w)
    <3> DEFINE written == [i \in SubIds |->
                 RecordAttempt(tx[w].loaded[i], now, tx[w].answer[i], FALSE, FALSE)]
    <3>1. ASSUME NEW j \in SubIds
          PROVE  written[j] \in Row /\ written[j].psid = tx[w].loaded[j].psid
      <4>1. tx[w].loaded[j] \in Row
        BY <1>4
      <4>2. written[j] = RecordAttempt(tx[w].loaded[j], now, tx[w].answer[j], FALSE, FALSE)
        OBVIOUS
      <4>3. /\ RecordAttempt(tx[w].loaded[j], now, tx[w].answer[j], FALSE, FALSE) \in Row
            /\ RecordAttempt(tx[w].loaded[j], now, tx[w].answer[j], FALSE, FALSE).psid
                 = tx[w].loaded[j].psid
        BY <1>4, <4>1, RecordAttemptRow
      <4> QED BY <4>2, <4>3
    <3>2. CommitRows(w, written)
      BY <2>2 DEF CommitBan
    <3> HIDE DEF written
    <3> QED BY <1>3, <2>1, <3>1, <3>2, KeptPsids
  <2>3. CASE CommitRefund(w)
    <3> DEFINE written == [i \in SubIds |->
                 RecordAttempt(EndForRefund(tx[w].loaded[i], now), now,
                               tx[w].answer[i], TRUE, FALSE)]
    <3>1. ASSUME NEW j \in SubIds
          PROVE  written[j] \in Row /\ written[j].psid = tx[w].loaded[j].psid
      <4> DEFINE ended == EndForRefund(tx[w].loaded[j], now)
      <4>1. ended \in Row /\ ended.psid = tx[w].loaded[j].psid
        BY <1>4, RefundRow
      <4>2. written[j] = RecordAttempt(ended, now, tx[w].answer[j], TRUE, FALSE)
        OBVIOUS
      <4> HIDE DEF ended
      <4>3. /\ RecordAttempt(ended, now, tx[w].answer[j], TRUE, FALSE) \in Row
            /\ RecordAttempt(ended, now, tx[w].answer[j], TRUE, FALSE).psid = ended.psid
        BY <1>4, <4>1, RecordAttemptRow
      <4> QED BY <4>1, <4>2, <4>3
    <3>2. CommitRows(w, written)
      BY <2>3 DEF CommitRefund
    <3> HIDE DEF written
    <3> QED BY <1>3, <2>1, <3>1, <3>2, KeptPsids
  <2>4. CASE CommitUnban(w)
    <3> DEFINE number(i) == IF tx[w].link = 0 THEN 0 ELSE tx[w].link + i
               written == [i \in SubIds |-> Restored(tx[w].loaded[i], number(i))]
    <3>1. ASSUME NEW j \in SubIds
          PROVE  written[j] \in Row /\ written[j].psid = tx[w].loaded[j].psid
      <4>1. number(j) \in Nat
        BY <1>4, LifecycleAssumption DEF SubIds
      <4>2. written[j] = Restored(tx[w].loaded[j], number(j))
        OBVIOUS
      <4> HIDE DEF number, written
      <4> QED BY <1>4, <4>1, <4>2, RestoredRow
    <3>2. CommitRows(w, written)
      BY <2>4 DEF CommitUnban
    <3> HIDE DEF written
    <3> QED BY <1>3, <2>1, <3>1, <3>2, KeptPsids
  <2> QED BY <1>1, <1>6, <2>2, <2>3, <2>4
<1> QED BY <1>5, <1>6

\* The panel and the removal job never write a provider subscription id.
LEMMA RestClaim ==
  ASSUME ClaimInv, PanelStep \/ JobStep \/ JobRecordFails \/ CrashBot
  PROVE  EventsSound' /\ TxSound' /\ LoadSound' /\ ClaimsApart'
<1> USE DEF ClaimInv
<1>1. tx' = tx /\ events' = events /\ remote' = remote
  BY DEF PanelStep, ExtendDays, SetComp, JobStep, JobStart, JobRevoke, JobRecord,
     JobAlert, JobDrain, JobFinish, JobRecordFails, CrashBot, JobOnly
<1>2. EventsSound' /\ TxSound'
  BY <1>1 DEF EventsSound, TxSound, Binds
<1>3. /\ sub \in [SubIds -> Row] /\ job.loaded \in [SubIds -> Row] /\ now \in Nat
      /\ job.stage # "pick" => job.cur \in SubIds
  BY DEF TypeInv, TypeOK, IdsKnown, Job
<1>4. \A i \in SubIds : sub'[i].psid = sub[i].psid
  <2>1. CASE PanelStep
    BY <2>1, <1>3 DEF PanelStep, ExtendDays, SetComp, Row
  <2>2. CASE JobRecord
    <3> DEFINE loaded == job.loaded[job.cur]
               recorded == RecordAttempt(loaded, now, job.answer,
                                         job.phase = "expiry", job.answer = "never")
    <3>1. job.cur \in SubIds
      BY <1>3, <2>2 DEF JobRecord
    <3>2. recorded \in Row /\ recorded.psid = loaded.psid
      <4> DEFINE expiring == job.phase = "expiry"
                 permanent == job.answer = "never"
      <4>1. loaded \in Row /\ expiring \in BOOLEAN /\ permanent \in BOOLEAN
        BY <1>3, <3>1
      <4>2. recorded = RecordAttempt(loaded, now, job.answer, expiring, permanent)
        OBVIOUS
      <4> HIDE DEF loaded, recorded, expiring, permanent
      <4>3. /\ RecordAttempt(loaded, now, job.answer, expiring, permanent) \in Row
            /\ RecordAttempt(loaded, now, job.answer, expiring, permanent).psid
                 = loaded.psid
        BY <1>3, <4>1, RecordAttemptRow
      <4> QED BY <4>2, <4>3
    <3>3. sub' = [sub EXCEPT ![job.cur] = Flush(@, loaded, recorded)]
      BY <2>2 DEF JobRecord
    <3>4. Flush(sub[job.cur], loaded, recorded).psid = sub[job.cur].psid
      <4> HIDE DEF recorded
      <4> QED BY <1>3, <3>1, <3>2, FlushRow DEF Net
    <3> HIDE DEF recorded, loaded
    <3> QED BY <1>3, <3>1, <3>3, <3>4
  <2>3. CASE ~PanelStep /\ ~JobRecord
    BY <2>3 DEF JobStep, JobStart, JobRevoke, JobAlert, JobDrain, JobFinish,
       JobRecordFails, CrashBot
  <2> QED BY <2>1, <2>2, <2>3
<1> QED BY <1>1, <1>2, <1>4, KeptPsids

\* Nobody claims anything in the empty database.
LEMMA ClaimInit == Init => ClaimInv
<1> SUFFICES ASSUME Init PROVE ClaimInv
  OBVIOUS
<1>1. \A w \in Workers : tx[w].op = "idle" /\ tx[w].event = NoEvent
  BY DEF Init, IdleTx
<1>2. \A i \in SubIds : sub[i].psid = NoLink
  BY DEF Init, NoRow
<1>3. events = {}
  BY DEF Init
<1> QED
  BY <1>1, <1>2, <1>3, TypeInit
     DEF ClaimInv, EventsSound, TxSound, LoadSound, Binds, ClaimsApart

\* Every step keeps the claims unique: one case per group of actions.
LEMMA ClaimStep == ClaimInv /\ [Next]_vars => ClaimInv'
<1> SUFFICES ASSUME ClaimInv, [Next]_vars PROVE ClaimInv'
  OBVIOUS
<1>1. TypeInv'
  BY TypeStep DEF ClaimInv
<1>2. CASE UNCHANGED vars
  BY <1>1, <1>2
     DEF vars, ClaimInv, EventsSound, TxSound, LoadSound, Binds, ClaimsApart
<1>3. CASE Next
  BY <1>1, <1>3, OutsideClaim, EventClaim, HandlerClaim, CommitClaim, RestClaim
     DEF Next, ClaimInv
<1> QED BY <1>2, <1>3

\* Whatever interleaves, two rows never claim one provider subscription id
\* (release_superseded_provider_link), and every column keeps its type.
THEOREM ClaimantCorrect == Spec => []OneClaimant
<1>1. Spec => []ClaimInv
  BY ClaimInit, ClaimStep, PTL DEF Spec
<1>2. ClaimInv => OneClaimant
  BY DEF ClaimInv, TypeInv, OneClaimant
<1> QED BY <1>1, <1>2, PTL

(***************************************************************************)
(* The program one handler at a time.                                      *)
(*                                                                         *)
(* With Overlap = FALSE a handler or a pass of the job starts only when    *)
(* nothing else is at work, so what it loaded still is what the table      *)
(* holds when it writes: the flush of a difference is the write itself.    *)
(***************************************************************************)
OneAtATime ==
  \A w \in Workers : tx[w].op # "idle" =>
    /\ job.phase = "idle"
    /\ \A v \in Workers : tx[v].op # "idle" => v = w

\* What a handler loaded is what the tables hold.
TxFresh ==
  \A w \in Workers :
    /\ tx[w].op \in {"purchase", "ban", "refund"} => tx[w].loaded = Load(OpenRows(tx[w].user))
    /\ tx[w].op = "unban" => tx[w].loaded = Load(BanRevoked(tx[w].user))
    /\ tx[w].op = "purchase" => Absent # {}
    /\ tx[w].op \in {"ban", "unban"} => tx[w].was = banned[tx[w].user]

\* The row the job is at, before it has recorded, and the rows it still has to do.
AtWork == job.todo \cup (IF job.stage = "record" THEN {job.cur} ELSE {})
JobFresh ==
  /\ job.phase = "idle" => job.stage = "pick" /\ job.todo = {}
  /\ job.stage = "record" => job.cur \notin job.todo
  /\ \A i \in AtWork :
       /\ i \in SubIds /\ job.loaded[i] = sub[i] /\ sub[i].status \in AccessHolding
       /\ job.phase = "expiry" => ~HasAccess(sub[i], now)
       /\ job.phase = "ban" => banned[sub[i].user]

Blank == \A i \in SubIds : sub[i].status = "absent" => sub[i] = NoRow

SeqInv == TypeInv /\ OneAtATime /\ TxFresh /\ JobFresh /\ Blank

\* Access never comes with time.
LEMMA AccessFades ==
  ASSUME NEW r \in Row, NEW s \in Nat, NEW t \in Nat, s <= t, ~HasAccess(r, s)
  PROVE  ~HasAccess(r, t)
<1>1. AccessEndsAt(r) \in Int
  BY DEF AccessEndsAt, PaidUntil, Later, Row, Time, NoTime
<1> HIDE DEF AccessEndsAt
<1> QED BY <1>1 DEF HasAccess

\* The difference from the stored row is the row written.
LEMMA FlushFresh ==
  ASSUME NEW s \in Row, NEW v \in Row
  PROVE  Flush(s, s, v) = v
<1>1. \A x, y : Net(x, x, y) = y
  BY DEF Net
<1>2. Flush(s, s, v) =
        [user |-> v.user, status |-> v.status, source |-> v.source, provider |-> v.provider,
         psid |-> v.psid, pstatus |-> v.pstatus, expires |-> v.expires, cpe |-> v.cpe,
         link |-> v.link, grace |-> v.grace, comp |-> v.comp, revoked |-> v.revoked,
         abandoned |-> v.abandoned, attempts |-> v.attempts, retry |-> v.retry]
  BY <1>1 DEF Flush
<1> QED BY <1>2 DEF Row

\* record_access_revoke_attempt touches no date, and a removal expires the row
\* unless it is cancelled or the caller keeps the status.
LEMMA RecordAttemptKeeps ==
  ASSUME NEW r \in Row, NEW t \in Nat, NEW o, NEW m \in BOOLEAN, NEW p \in BOOLEAN
  PROVE  LET new == RecordAttempt(r, t, o, m, p)
         IN  /\ new.user = r.user /\ new.expires = r.expires /\ new.cpe = r.cpe
             /\ new.grace = r.grace /\ new.comp = r.comp /\ new.source = r.source
             /\ new.provider = r.provider /\ new.pstatus = r.pstatus
             /\ new.status \in {r.status, "expired"}
             /\ (r.status = "cancelled" \/ ~m \/ o # "removed") => new.status = r.status
             /\ new.revoked = (r.revoked \/ o = "removed")
             /\ (m /\ o = "removed" /\ r.status # "cancelled") => new.status = "expired"
<1> DEFINE tried  == [r EXCEPT !.attempts = @ + 1]
           gaveUp == ~r.abandoned /\ (p \/ tried.attempts >= MaxAttempts)
           status == IF m /\ r.status # "cancelled" THEN "expired" ELSE r.status
           done   == [tried EXCEPT !.revoked = TRUE, !.retry = NoTime,
                                   !.abandoned = FALSE, !.status = status]
           retry  == IF o = "flood" /\ ~gaveUp THEN t + 1 ELSE NoTime
           kept   == [tried EXCEPT !.retry = retry,
                                   !.abandoned = r.abandoned \/ gaveUp]
<1>1. tried = [r EXCEPT !.attempts = @ + 1] /\ tried.status = r.status /\ tried.abandoned = r.abandoned
  BY DEF Row
<1>2. RecordAttempt(r, t, o, m, p) = IF o = "removed" THEN done ELSE kept
  BY <1>1 DEF RecordAttempt
<1>3. /\ tried.user = r.user /\ tried.expires = r.expires /\ tried.cpe = r.cpe
      /\ tried.grace = r.grace /\ tried.comp = r.comp /\ tried.source = r.source
      /\ tried.provider = r.provider /\ tried.pstatus = r.pstatus
      /\ tried.revoked = r.revoked /\ tried.status = r.status /\ tried \in Row
  BY DEF Row
<1> HIDE DEF tried, gaveUp, retry
<1>4. CASE o = "removed"
  <2>1. RecordAttempt(r, t, o, m, p) = done
    BY <1>2, <1>4
  <2> QED BY <1>3, <1>4, <2>1 DEF Row
<1>5. CASE o # "removed"
  <2>1. RecordAttempt(r, t, o, m, p) = kept
    BY <1>2, <1>5
  <2>2. r.revoked \in BOOLEAN
    BY DEF Row
  <2> QED BY <1>3, <1>5, <2>1, <2>2 DEF Row
<1> QED BY <1>4, <1>5

\* A set of numbers that is not empty has a least one.
LEMMA LeastNumber ==
  ASSUME NEW T \in SUBSET Nat, T # {}
  PROVE  \E x \in T : \A y \in T : x <= y
<1> DEFINE R == OpToRel(<, Nat)
<1>1. IsWellFoundedOn(R, Nat)
  BY NatLessThanWellFounded, Zenon
<1> HIDE DEF R
<1>2. PICK x \in T : \A y \in T : <<y, x>> \notin R
  BY <1>1, WFMin
<1>3. \A y \in T : ~(y < x)
  BY <1>2 DEF R, OpToRel
<1> QED BY <1>3

\* Of finitely many rows one expires last.
LEMMA Latest ==
  ASSUME NEW T, IsFiniteSet(T), T # {}, NEW f, \A i \in T : f[i] \in Int
  PROVE  \E i \in T : \A j \in T : f[j] <= f[i]
<1> DEFINE above(i) == {j \in T : f[j] > f[i]}
           sizes == {Cardinality(above(i)) : i \in T}
<1>1. \A i \in T : IsFiniteSet(above(i)) /\ Cardinality(above(i)) \in Nat
  BY FS_Subset, FS_CardinalityType
<1>2. sizes \in SUBSET Nat /\ sizes # {}
  BY <1>1
<1>3. PICK n \in sizes : \A k \in sizes : n <= k
  BY <1>2, LeastNumber
<1>4. PICK i \in T : Cardinality(above(i)) = n
  BY <1>3
<1>5. ASSUME NEW j \in T, f[j] > f[i] PROVE FALSE
  <2>1. above(j) \in SUBSET above(i) /\ above(j) # above(i)
    BY <1>5
  <2>2. Cardinality(above(j)) <= Cardinality(above(i))
        /\ Cardinality(above(j)) # Cardinality(above(i))
    <3> HIDE DEF above
    <3> QED BY <1>1, <2>1, FS_Subset
  <2>3. n <= Cardinality(above(j))
    BY <1>3
  <2> HIDE DEF above
  <2> QED BY <1>1, <1>4, <2>2, <2>3
<1>6. \A j \in T : f[j] <= f[i]
  BY <1>5
<1> QED BY <1>6

\* What a purchase writes when the rows it loaded are those of the table.
LEMMA BoughtRows ==
  ASSUME TypeInv, NEW u \in Users, NEW pay \in Purchase, NEW loaded \in [SubIds -> Row],
         NEW n \in Nat, \A j \in SubIds : loaded[j] \in {NoRow, sub[j]},
         NEW rows, \A j \in SubIds : rows[j] \in {NoRow, sub[j]},
         Absent # {}, NEW i \in Target(rows, u),
         sub' = Bought(i, u, pay, loaded, n)
  PROVE  /\ i \in SubIds
         /\ \/ /\ sub[i].status = "absent" /\ sub'[i] = WithLink(NewRow(u, pay), n)
               /\ Current(rows, u) = {}
            \/ /\ HasAccess(sub[i], now) /\ sub[i].user = u
               /\ sub'[i] = WithLink(Extended(sub[i], pay), n)
         /\ \A j \in SubIds \ {i} :
              \/ sub'[j] = sub[j]
              \/ /\ pay.psid # NoLink /\ sub[j].psid = pay.psid
                 /\ sub'[j] = Released(sub[j])
<1>0. sub \in [SubIds -> Row] /\ now \in Nat
  BY DEF TypeInv, TypeOK
<1>1. NoRow.status = "absent" /\ "absent" \notin AccessHolding
  BY DEF NoRow, AccessHolding
<1>2. \A j \in SubIds : (IF loaded[j].status # "absent" THEN loaded[j] ELSE sub[j]) = sub[j]
  BY <1>1
<1>3. /\ i \in SubIds
      /\ \/ sub[i].status = "absent" /\ Current(rows, u) = {}
         \/ sub[i].status # "absent" /\ HasAccess(sub[i], now) /\ sub[i].user = u
  <2>1. CASE Current(rows, u) # {}
    <3>1. i \in SubIds /\ rows[i].user = u /\ HasAccess(rows[i], now)
      BY <2>1 DEF Target, Current
    <3>2. rows[i].status \in AccessHolding
      BY <3>1 DEF HasAccess
    <3>3. rows[i] = sub[i]
      BY <1>1, <3>1, <3>2
    <3> QED BY <1>1, <3>1, <3>2, <3>3
  <2>2. CASE Current(rows, u) = {}
    <3>1. i = NextId
      BY <2>2 DEF Target
    <3>2. \E k \in Absent : \A j \in Absent : k <= j
      <4>1. Absent \in SUBSET Nat
        BY DEF Absent, SubIds
      <4> QED BY <4>1, LeastNumber
    <3>3. NextId \in Absent
      BY <3>2 DEF NextId
    <3> QED BY <2>2, <3>1, <3>3 DEF Absent
  <2> QED BY <2>1, <2>2
<1>4. WithLink(NewRow(u, pay), n) \in Row /\ WithLink(Extended(sub[i], pay), n) \in Row
  <2>1. NewRow(u, pay) \in Row /\ Extended(sub[i], pay) \in Row
    BY <1>0, <1>3, NewRowRow, ExtendedRow
  <2> QED BY <2>1 DEF WithLink, Row
<1>5. \/ sub[i].status = "absent" /\ sub'[i] = WithLink(NewRow(u, pay), n)
      \/ /\ HasAccess(sub[i], now) /\ sub[i].user = u
         /\ sub'[i] = WithLink(Extended(sub[i], pay), n)
  <2>1. sub'[i] = Flush(sub[i], sub[i], WithLink(IF sub[i].status = "absent" THEN NewRow(u, pay)
                                                 ELSE Extended(sub[i], pay), n))
    BY <1>2, <1>3 DEF Bought
  <2> QED BY <1>0, <1>3, <1>4, <2>1, FlushFresh
<1>6. ASSUME NEW j \in SubIds \ {i}
      PROVE  \/ sub'[j] = sub[j]
             \/ /\ pay.psid # NoLink /\ sub[j].psid = pay.psid
                /\ sub'[j] = Released(sub[j])
  <2>1. sub'[j] = IF pay.psid # NoLink /\ sub[j].psid = pay.psid
                  THEN Flush(sub[j], sub[j], Released(sub[j])) ELSE sub[j]
    BY <1>2 DEF Bought
  <2>2. Released(sub[j]) \in Row
    BY <1>0, ReleasedRow
  <2> QED BY <1>0, <2>1, <2>2, FlushFresh
<1> QED BY <1>3, <1>5, <1>6

\* What a purchase and an unban write, column by column.
LEMMA LinkKeeps ==
  ASSUME NEW r \in Row, NEW n \in Nat
  PROVE  LET new == WithLink(r, n)
         IN  /\ new.user = r.user /\ new.status = r.status /\ new.expires = r.expires
             /\ new.cpe = r.cpe /\ new.grace = r.grace /\ new.comp = r.comp
             /\ new.revoked = r.revoked /\ new.abandoned = r.abandoned
BY DEF WithLink, Row

LEMMA NewRowIs ==
  ASSUME NEW u \in Users, NEW pay \in Purchase, now \in Nat, NEW n \in Nat
  PROVE  LET new == WithLink(NewRow(u, pay), n)
         IN  /\ new.user = u /\ new.status = "active" /\ new.expires = FirstEnd(pay)
             /\ new.cpe = FirstEnd(pay) /\ ~new.revoked /\ ~new.abandoned
             /\ FirstEnd(pay) \in Nat
<1> DEFINE end == FirstEnd(pay)
<1>1. end \in Nat
  BY LifecycleAssumption DEF FirstEnd, FloorAhead, PeriodEnd, Purchase, Time, NoTime
<1>2. NewRow(u, pay) \in Row
  BY NewRowRow
<1>3. NewRow(u, pay) =
        [NoRow EXCEPT !.user = u, !.status = "active", !.source = pay.source,
                      !.provider = pay.provider, !.psid = pay.psid,
                      !.pstatus = pay.pstatus, !.expires = end, !.cpe = end]
  BY DEF NewRow
<1> HIDE DEF end
<1>4. /\ NewRow(u, pay).user = u /\ NewRow(u, pay).status = "active"
      /\ NewRow(u, pay).expires = end /\ NewRow(u, pay).cpe = end
      /\ ~NewRow(u, pay).revoked /\ ~NewRow(u, pay).abandoned
  BY <1>3 DEF NoRow
<1>5. /\ WithLink(NewRow(u, pay), n).user = u /\ WithLink(NewRow(u, pay), n).status = "active"
      /\ WithLink(NewRow(u, pay), n).expires = end /\ WithLink(NewRow(u, pay), n).cpe = end
      /\ ~WithLink(NewRow(u, pay), n).revoked /\ ~WithLink(NewRow(u, pay), n).abandoned
  BY <1>2, <1>4, LinkKeeps
<1> QED BY <1>1, <1>5 DEF end

LEMMA ExtendedIs ==
  ASSUME NEW r \in Row, NEW pay \in Purchase, now \in Nat, NEW n \in Nat
  PROVE  LET new == WithLink(Extended(r, pay), n)
             end == Later(r.expires, PeriodEnd(pay, Later(r.expires, now)))
         IN  /\ new.user = r.user /\ new.status = r.status /\ new.expires = end
             /\ new.cpe = end /\ new.revoked = r.revoked /\ new.abandoned = r.abandoned
             /\ new.comp = r.comp /\ end \in Nat /\ end >= r.expires
<1> DEFINE end == Later(r.expires, PeriodEnd(pay, Later(r.expires, now)))
           paid == [r EXCEPT !.expires = end, !.source = pay.source]
           provider == IF pay.provider = "none" THEN paid.provider ELSE pay.provider
           psid == IF pay.psid = NoLink THEN paid.psid ELSE pay.psid
           pstatus == IF pay.pstatus = "none" THEN paid.pstatus ELSE pay.pstatus
           bound == [paid EXCEPT !.provider = provider, !.psid = psid, !.pstatus = pstatus,
                                 !.cpe = paid.expires]
           clear == [bound EXCEPT !.grace = NoTime, !.retry = NoTime]
<1>1. end \in Nat /\ end >= r.expires
  BY LifecycleAssumption DEF Later, PeriodEnd, Purchase, Row, Time, NoTime
<1>2. Extended(r, pay) = IF pay.pstatus \in AccessRestored THEN clear ELSE bound
  BY DEF Extended, ApplyProvider
<1>3. Extended(r, pay) \in Row
  BY ExtendedRow
<1> HIDE DEF end, provider, psid, pstatus
<1>4. /\ paid.user = r.user /\ paid.status = r.status /\ paid.expires = end
      /\ paid.revoked = r.revoked /\ paid.abandoned = r.abandoned /\ paid.comp = r.comp
      /\ paid = [r EXCEPT !.expires = end, !.source = pay.source]
  BY DEF Row
<1>5. /\ bound.user = r.user /\ bound.status = r.status /\ bound.expires = end
      /\ bound.cpe = end
      /\ bound.revoked = r.revoked /\ bound.abandoned = r.abandoned /\ bound.comp = r.comp
      /\ clear.user = r.user /\ clear.status = r.status /\ clear.expires = end
      /\ clear.cpe = end
      /\ clear.revoked = r.revoked /\ clear.abandoned = r.abandoned /\ clear.comp = r.comp
  BY <1>4 DEF Row
<1> HIDE DEF bound, clear
<1>6. \A q \in {bound, clear} :
        /\ q.user = r.user /\ q.status = r.status /\ q.expires = end /\ q.cpe = end
        /\ q.revoked = r.revoked /\ q.abandoned = r.abandoned /\ q.comp = r.comp
  BY <1>5
<1>7. Extended(r, pay) \in {bound, clear}
  BY <1>2
<1> DEFINE new == WithLink(Extended(r, pay), n)
<1>8. /\ new.user = r.user /\ new.status = r.status /\ new.expires = end /\ new.cpe = end
      /\ new.revoked = r.revoked /\ new.abandoned = r.abandoned /\ new.comp = r.comp
  BY <1>3, <1>6, <1>7, LinkKeeps
<1> QED BY <1>1, <1>8 DEF end

LEMMA RefundKeeps ==
  ASSUME NEW r \in Row, NEW t \in Nat
  PROVE  LET new == EndForRefund(r, t)
         IN  /\ new \in Row /\ new.user = r.user /\ new.status = "cancelled"
             /\ new.expires = t /\ new.cpe = t /\ new.grace = NoTime
             /\ new.comp = r.comp /\ new.revoked = r.revoked
<1>1. EndForRefund(r, t) \in Row
  BY RefundRow
<1>2. EndForRefund(r, t) =
        [r EXCEPT !.expires = t, !.cpe = t, !.grace = NoTime, !.retry = NoTime,
                  !.pstatus = "refunded", !.status = "cancelled"]
  BY DEF EndForRefund
<1> QED BY <1>1, <1>2 DEF Row

LEMMA RestoredKeeps ==
  ASSUME NEW r \in Row, NEW n \in Nat
  PROVE  LET new == Restored(r, n)
         IN  /\ new.user = r.user /\ new.status = r.status /\ new.expires = r.expires
             /\ new.cpe = r.cpe /\ new.grace = r.grace /\ new.comp = r.comp
             /\ new.abandoned = r.abandoned
             /\ Entitled(r) => ~new.revoked
             /\ ~Entitled(r) => new = r
<1> DEFINE open == [r EXCEPT !.revoked = FALSE, !.retry = NoTime]
<1>1. open \in Row
  BY DEF Row, Time
<1>2. /\ open.user = r.user /\ open.status = r.status /\ open.expires = r.expires
      /\ open.cpe = r.cpe /\ open.grace = r.grace /\ open.comp = r.comp
      /\ open.abandoned = r.abandoned /\ ~open.revoked
  BY DEF Row
<1>3. Restored(r, n) = IF Entitled(r) THEN WithLink(open, n) ELSE r
  BY DEF Restored
<1> HIDE DEF open
<1> QED BY <1>1, <1>2, <1>3, LinkKeeps

\* A purchase that finds no current row finds none that gives access.
LEMMA NoCurrent ==
  ASSUME TypeInv, NEW u, NEW rows, rows \in {sub, Load(OpenRows(u))}, Current(rows, u) = {},
         NEW j \in SubIds, sub[j].user = u
  PROVE  ~HasAccess(sub[j], now)
<1> SUFFICES ASSUME HasAccess(sub[j], now) PROVE FALSE
  OBVIOUS
<1>0. sub \in [SubIds -> Row]
  BY DEF TypeInv, TypeOK
<1> DEFINE holding == {i \in SubIds : rows[i].user = u /\ HasAccess(rows[i], now)}
           date == [i \in SubIds |-> rows[i].expires]
<1>1. rows \in [SubIds -> Row]
  BY <1>0, NoRowRow DEF Load
<1>2. j \in holding
  BY DEF HasAccess, Load, OpenRows, RowsOf
<1>3. IsFiniteSet(holding)
  <2>1. IsFiniteSet(SubIds) /\ holding \subseteq SubIds
    BY LifecycleAssumption, FS_Interval DEF SubIds
  <2> QED BY <2>1, FS_Subset
<1>4. \A i \in holding : date[i] \in Int
  BY <1>1 DEF Row
<1>5. PICK i \in holding : \A k \in holding : date[k] <= date[i]
  <2> HIDE DEF holding, date
  <2> QED BY <1>2, <1>3, <1>4, Latest
<1>6. i \in Current(rows, u)
  BY <1>5 DEF Current
<1> QED BY <1>6

\* What each commit writes, one handler at a time.
LEMMA PurchaseWrites ==
  ASSUME SeqInv, NEW w \in Workers, CommitPurchase(w)
  PROVE  LET u == tx[w].user  pay == tx[w].pay  n == tx[w].link
         IN  \E i \in SubIds :
               /\ \/ /\ sub[i].status = "absent" /\ sub'[i] = WithLink(NewRow(u, pay), n)
                     /\ \A j \in SubIds : sub[j].user = u => ~HasAccess(sub[j], now)
                  \/ /\ HasAccess(sub[i], now) /\ sub[i].user = u
                     /\ sub'[i] = WithLink(Extended(sub[i], pay), n)
               /\ \A j \in SubIds \ {i} :
                    \/ sub'[j] = sub[j]
                    \/ /\ pay.psid # NoLink /\ sub[j].psid = pay.psid
                       /\ sub'[j] = Released(sub[j])
               /\ refunded' = refunded \ {i}
<1> DEFINE u == tx[w].user  pay == tx[w].pay  n == tx[w].link  loaded == tx[w].loaded
<1>1. u \in Users /\ pay \in Purchase /\ n \in Nat /\ loaded \in [SubIds -> Row]
  BY DEF SeqInv, TypeInv, TypeOK, IdsKnown, Tx, CommitPurchase
<1>2. loaded = Load(OpenRows(u)) /\ Absent # {}
  BY DEF SeqInv, TxFresh, CommitPurchase
<1>3. \A j \in SubIds : loaded[j] \in {NoRow, sub[j]}
  BY <1>2 DEF Load
<1>4. PICK i \in Target(loaded, u) :
        sub' = Bought(i, u, pay, loaded, n) /\ refunded' = refunded \ {i}
  BY DEF CommitPurchase
<1>5. TypeInv
  BY DEF SeqInv
<1>6. Current(loaded, u) = {} =>
        \A j \in SubIds : sub[j].user = u => ~HasAccess(sub[j], now)
  BY <1>2, <1>5, NoCurrent
<1> HIDE DEF u, pay, n, loaded
<1> QED BY <1>1, <1>2, <1>3, <1>4, <1>5, <1>6, BoughtRows DEF u, pay, n, loaded

\* The rows a ban, an unban or a refund loads.
Taken(w) == IF tx[w].op = "unban" THEN BanRevoked(tx[w].user) ELSE OpenRows(tx[w].user)

LEMMA RowsWritten ==
  ASSUME SeqInv, NEW w \in Workers, tx[w].op \in {"ban", "unban", "refund"},
         NEW written \in [SubIds -> Row], CommitRows(w, written)
  PROVE  /\ Taken(w) \subseteq SubIds /\ LoadedIn(tx[w].loaded) = Taken(w)
         /\ \A i \in Taken(w) : /\ tx[w].loaded[i] = sub[i] /\ sub[i].user = tx[w].user
                                /\ sub[i].status \in AccessHolding
         /\ \A i \in SubIds : sub'[i] = IF i \in Taken(w) THEN written[i] ELSE sub[i]
<1>1. tx[w].loaded = Load(Taken(w)) /\ Taken(w) \subseteq SubIds
      /\ \A i \in Taken(w) : sub[i].user = tx[w].user /\ sub[i].status \in AccessHolding
  BY DEF SeqInv, TxFresh, Taken, OpenRows, BanRevoked, RowsOf
<1>2. NoRow.status = "absent" /\ "absent" \notin AccessHolding
  BY DEF NoRow, AccessHolding
<1>3. \A i \in SubIds : tx[w].loaded[i] = IF i \in Taken(w) THEN sub[i] ELSE NoRow
  BY <1>1 DEF Load
<1>4. LoadedIn(tx[w].loaded) = Taken(w)
  BY <1>1, <1>2, <1>3 DEF LoadedIn
<1>5. \A i \in SubIds : sub'[i] = IF i \in Taken(w) THEN Flush(sub[i], sub[i], written[i]) ELSE sub[i]
  BY <1>3, <1>4 DEF CommitRows
<1>6. \A i \in SubIds : sub[i] \in Row
  BY DEF SeqInv, TypeInv, TypeOK
<1> QED BY <1>1, <1>3, <1>4, <1>5, <1>6, FlushFresh

LEMMA BanWrites ==
  ASSUME SeqInv, NEW w \in Workers, CommitBan(w)
  PROVE  \A i \in SubIds :
           /\ i \in OpenRows(tx[w].user) =>
                sub'[i] = RecordAttempt(sub[i], now, tx[w].answer[i], FALSE, FALSE)
           /\ i \notin OpenRows(tx[w].user) => sub'[i] = sub[i]
<1> DEFINE written == [i \in SubIds |->
             RecordAttempt(tx[w].loaded[i], now, tx[w].answer[i], FALSE, FALSE)]
<1>1. CommitRows(w, written) /\ tx[w].op = "ban"
  BY DEF CommitBan
<1>2. written \in [SubIds -> Row]
  BY RecordAttemptRow DEF SeqInv, TypeInv, TypeOK, Tx
<1>3. Taken(w) = OpenRows(tx[w].user)
  BY <1>1 DEF Taken
<1>4. \A i \in Taken(w) : written[i] = RecordAttempt(sub[i], now, tx[w].answer[i], FALSE, FALSE)
  <2>1. \A i \in Taken(w) : i \in SubIds /\ tx[w].loaded[i] = sub[i]
    BY <1>1, <1>2, RowsWritten
  <2> QED BY <2>1
<1> HIDE DEF written
<1> QED BY <1>1, <1>2, <1>3, <1>4, RowsWritten

LEMMA RefundWrites ==
  ASSUME SeqInv, NEW w \in Workers, CommitRefund(w)
  PROVE  /\ \A i \in SubIds :
              /\ i \in OpenRows(tx[w].user) =>
                   sub'[i] = RecordAttempt(EndForRefund(sub[i], now), now, tx[w].answer[i],
                                           TRUE, FALSE)
              /\ i \notin OpenRows(tx[w].user) => sub'[i] = sub[i]
         /\ refunded' = refunded \cup OpenRows(tx[w].user)
<1> DEFINE written == [i \in SubIds |->
             RecordAttempt(EndForRefund(tx[w].loaded[i], now), now, tx[w].answer[i], TRUE, FALSE)]
<1>1. CommitRows(w, written) /\ tx[w].op = "refund"
  BY DEF CommitRefund
<1>2. written \in [SubIds -> Row]
  <2>1. \A i \in SubIds : tx[w].loaded[i] \in Row /\ now \in Nat
    BY DEF SeqInv, TypeInv, TypeOK, Tx
  <2>2. \A i \in SubIds : EndForRefund(tx[w].loaded[i], now) \in Row
    BY <2>1, RefundRow
  <2> QED BY <2>1, <2>2, RecordAttemptRow
<1>3. Taken(w) = OpenRows(tx[w].user)
  BY <1>1 DEF Taken
<1>4. \A i \in Taken(w) :
        written[i] = RecordAttempt(EndForRefund(sub[i], now), now, tx[w].answer[i], TRUE, FALSE)
  <2>1. \A i \in Taken(w) : i \in SubIds /\ tx[w].loaded[i] = sub[i]
    BY <1>1, <1>2, RowsWritten
  <2> QED BY <2>1
<1> HIDE DEF written
<1>5. LoadedIn(tx[w].loaded) = Taken(w)
  BY <1>1, <1>2, RowsWritten
<1> QED BY <1>1, <1>2, <1>3, <1>4, <1>5, RowsWritten DEF CommitRefund

LEMMA UnbanWrites ==
  ASSUME SeqInv, NEW w \in Workers, CommitUnban(w)
  PROVE  \A i \in SubIds :
           /\ i \in BanRevoked(tx[w].user) =>
                \E n \in Nat : /\ sub'[i] = Restored(sub[i], n)
                               /\ tx[w].link # 0 => n = tx[w].link + i
           /\ i \notin BanRevoked(tx[w].user) => sub'[i] = sub[i]
<1> DEFINE number(i) == IF tx[w].link = 0 THEN 0 ELSE tx[w].link + i
           written == [i \in SubIds |-> Restored(tx[w].loaded[i], number(i))]
<1>1. CommitRows(w, written) /\ tx[w].op = "unban"
  BY DEF CommitUnban
<1>2. \A i \in SubIds : number(i) \in Nat
  BY LifecycleAssumption DEF SubIds, SeqInv, TypeInv, TypeOK, Tx
<1>6. \A i \in SubIds : tx[w].link # 0 => number(i) = tx[w].link + i
  OBVIOUS
<1> HIDE DEF number
<1>3. written \in [SubIds -> Row]
  BY <1>2, RestoredRow DEF SeqInv, TypeInv, TypeOK, Tx
<1>4. Taken(w) = BanRevoked(tx[w].user)
  BY <1>1 DEF Taken
<1>5. \A i \in Taken(w) : i \in SubIds /\ written[i] = Restored(sub[i], number(i))
  <2>1. \A i \in Taken(w) : i \in SubIds /\ tx[w].loaded[i] = sub[i]
    BY <1>1, <1>3, RowsWritten
  <2> QED BY <2>1
<1> HIDE DEF written
<1> QED BY <1>1, <1>2, <1>3, <1>4, <1>5, <1>6, RowsWritten

LEMMA JobWrites ==
  ASSUME SeqInv, JobRecord
  PROVE  /\ job.cur \in AtWork /\ job.cur \in SubIds /\ job.phase # "idle"
         /\ sub[job.cur].status \in AccessHolding
         /\ sub' = [sub EXCEPT ![job.cur] =
                      RecordAttempt(sub[job.cur], now, job.answer,
                                    job.phase = "expiry", job.answer = "never")]
<1>1. job.stage = "record" /\ job.cur \in AtWork
  BY DEF JobRecord, AtWork
<1>2. job.cur \in SubIds /\ job.loaded[job.cur] = sub[job.cur]
      /\ sub[job.cur].status \in AccessHolding /\ job.phase # "idle"
  BY <1>1 DEF SeqInv, JobFresh
<1> DEFINE expiring == job.phase = "expiry"
           permanent == job.answer = "never"
           r == sub[job.cur]
           recorded == RecordAttempt(r, now, job.answer, expiring, permanent)
<1>3. sub' = [sub EXCEPT ![job.cur] = Flush(r, r, recorded)]
  BY <1>2 DEF JobRecord
<1>4. r \in Row /\ now \in Nat /\ expiring \in BOOLEAN /\ permanent \in BOOLEAN
  BY <1>2 DEF SeqInv, TypeInv, TypeOK
<1> HIDE DEF expiring, permanent, r
<1>5. recorded \in Row
  BY <1>4, RecordAttemptRow
<1>6. Flush(r, r, recorded) = recorded
  BY <1>4, <1>5, FlushFresh
<1> QED BY <1>1, <1>2, <1>3, <1>6 DEF r, expiring, permanent

\* Steps that leave the rows, the handlers and the job as they are.
LEMMA SeqStays ==
  ASSUME SeqInv, TypeInv', UNCHANGED <<sub, tx, job, banned>>, now <= now'
  PROVE  SeqInv'
<1>1. OneAtATime' /\ Blank'
  BY DEF SeqInv, OneAtATime, Blank
<1>2. TxFresh'
  BY DEF SeqInv, TxFresh, Load, OpenRows, BanRevoked, RowsOf, Absent
<1>3. \A i \in SubIds : ~HasAccess(sub[i], now) => ~HasAccess(sub[i], now')
  BY AccessFades DEF SeqInv, TypeInv, TypeOK
<1>4. JobFresh'
  BY <1>3 DEF SeqInv, JobFresh, AtWork
<1> QED BY <1>1, <1>2, <1>4 DEF SeqInv

\* A handler that starts: nothing else is at work.
LEMMA SeqBegins ==
  ASSUME SeqInv, TypeInv', ~Overlap, NEW w \in Workers, NEW record, MayStart,
         tx' = [tx EXCEPT ![w] = record], UNCHANGED <<sub, job, banned, now>>,
         record.op \in {"purchase", "ban", "refund"} => record.loaded = Load(OpenRows(record.user)),
         record.op = "unban" => record.loaded = Load(BanRevoked(record.user)),
         record.op = "purchase" => Absent # {},
         record.op \in {"ban", "unban"} => record.was = banned[record.user]
  PROVE  SeqInv'
<1>1. job.phase = "idle" /\ \A v \in Workers : tx[v].op = "idle"
  BY DEF MayStart, Quiet
<1>2. \A v \in Workers : tx'[v] = IF v = w THEN record ELSE tx[v]
  BY DEF SeqInv, TypeInv, TypeOK
<1>3. OneAtATime' /\ Blank'
  BY <1>1, <1>2 DEF SeqInv, OneAtATime, Blank
<1>4. TxFresh'
  <2>1. \A v \in Workers : v # w => tx'[v].op = "idle"
    BY <1>1, <1>2
  <2>2. /\ tx'[w] = record
        /\ \A u : Load(OpenRows(u))' = Load(OpenRows(u))
        /\ \A u : Load(BanRevoked(u))' = Load(BanRevoked(u))
        /\ Absent' = Absent
    BY <1>2 DEF Load, OpenRows, BanRevoked, RowsOf, Absent
  <2> QED BY <2>1, <2>2 DEF TxFresh
<1>5. JobFresh'
  BY DEF SeqInv, JobFresh, AtWork
<1> QED BY <1>3, <1>4, <1>5 DEF SeqInv

\* A handler that ends, or a webhook or panel request of one transaction: nothing
\* is at work afterwards.
LEMMA SeqEnds ==
  ASSUME SeqInv, TypeInv', UNCHANGED job, job.phase = "idle",
         \A v \in Workers : tx'[v].op = "idle", Blank'
  PROVE  SeqInv'
<1>1. OneAtATime' /\ TxFresh'
  BY DEF OneAtATime, TxFresh
<1>2. JobFresh'
  BY DEF SeqInv, JobFresh, AtWork
<1> QED BY <1>1, <1>2 DEF SeqInv

LEMMA SeqInitially == Init => SeqInv
<1> SUFFICES ASSUME Init PROVE SeqInv
  OBVIOUS
<1>1. \A w \in Workers : tx[w].op = "idle"
  BY DEF Init, IdleTx
<1>2. OneAtATime /\ TxFresh
  BY <1>1 DEF OneAtATime, TxFresh
<1>3. JobFresh /\ Blank
  BY DEF Init, IdleJob, JobFresh, AtWork, Blank, NoRow
<1> QED BY <1>2, <1>3, TypeInit DEF SeqInv

LEMMA SeqOutside ==
  ASSUME SeqInv, TypeInv',
         \/ UNCHANGED vars \/ Tick \/ (\E l \in live : Join(l)) \/ StripeStep
         \/ \E e \in events : LoseAcknowledged(e)
  PROVE  SeqInv'
<1>1. now \in Nat
  BY DEF SeqInv, TypeInv, TypeOK
<1>2. UNCHANGED <<sub, tx, job, banned>> /\ now <= now'
  BY <1>1 DEF vars, Tick, Join, StripeStep, Checkout, RemoteRenew, RemoteRenewFails,
     RemoteRecovers, RemoteCancel, RemoteStep, LoseAcknowledged
<1> QED BY <1>2, SeqStays

\* There is a row left for whoever may buy.
LEMMA RoomIsThere ==
  ASSUME RoomFor(1), Quiet
  PROVE  Absent # {}
<1>1. {w \in Workers : tx[w].op = "purchase"} = {}
  BY DEF Quiet
<1> DEFINE buying == {w \in Workers : tx[w].op = "purchase"}
<1>2. Cardinality(Absent) >= 1
  <2>1. Cardinality(Absent) >= 1 + Cardinality(buying)
    BY DEF RoomFor
  <2>2. Cardinality(buying) = 0
    BY <1>1, FS_EmptySet
  <2> HIDE DEF buying
  <2> QED BY <2>1, <2>2
<1> QED BY <1>2, FS_EmptySet

LEMMA SeqHandler ==
  ASSUME SeqInv, TypeInv', ~Overlap, HandlerStep
  PROVE  SeqInv'
<1>1. ASSUME NEW w \in Workers, NEW u \in Users, NEW pay, NEW e, NEW bought,
             BeginPurchase(w, u, pay, e, bought)
      PROVE  SeqInv'
  <2>1. PICK n : Begin(w, [IdleTx EXCEPT !.op = "purchase", !.user = u, !.pay = pay,
                             !.loaded = Load(OpenRows(u)), !.event = e, !.link = n])
    BY <1>1 DEF BeginPurchase
  <2> DEFINE record == [IdleTx EXCEPT !.op = "purchase", !.user = u, !.pay = pay,
                          !.loaded = Load(OpenRows(u)), !.event = e, !.link = n]
  <2>2. record.op = "purchase" /\ record.loaded = Load(OpenRows(record.user))
    BY DEF IdleTx
  <2>3. MayStart /\ tx' = [tx EXCEPT ![w] = record] /\ UNCHANGED <<sub, job, banned, now>>
    BY <2>1 DEF Begin, Idle
  <2>4. Absent # {}
    BY <1>1, <2>3, RoomIsThere DEF BeginPurchase, MayStart
  <2> HIDE DEF record
  <2> QED BY <1>1, <2>2, <2>3, <2>4, SeqBegins
<1>2. ASSUME NEW w \in Workers, NEW e \in events, BeginFirstInvoice(w, e)
      PROVE  SeqInv'
  <2>1. Owner[e.psid] \in Users
    BY LifecycleAssumption DEF SeqInv, TypeInv, TypeOK, Event
  <2> QED BY <1>1, <1>2, <2>1 DEF BeginFirstInvoice
<1>3. ASSUME NEW w \in Workers, NEW u \in Users, BeginUsdt(w, u) \/ BeginGift(w, u)
      PROVE  SeqInv'
  BY <1>1, <1>3 DEF BeginUsdt, BeginGift
<1>4. ASSUME NEW w \in Workers, NEW u \in Users, NEW op \in {"ban", "refund"},
             BeginRemoval(w, op, u, OpenRows(u))
      PROVE  SeqInv'
  <2>1. PICK a : Begin(w, [IdleTx EXCEPT !.op = op, !.user = u, !.loaded = Load(OpenRows(u)), !.was = banned[u],
                             !.answer = [i \in SubIds |-> IF i \in OpenRows(u) THEN a[i] ELSE "none"]])
    BY <1>4 DEF BeginRemoval
  <2> DEFINE record == [IdleTx EXCEPT !.op = op, !.user = u, !.loaded = Load(OpenRows(u)), !.was = banned[u],
                          !.answer = [i \in SubIds |-> IF i \in OpenRows(u) THEN a[i] ELSE "none"]]
  <2>2. /\ record.op = op /\ record.loaded = Load(OpenRows(record.user))
        /\ record.was = banned[record.user]
    BY DEF IdleTx
  <2>3. MayStart /\ tx' = [tx EXCEPT ![w] = record] /\ UNCHANGED <<sub, job, banned, now>>
    BY <2>1 DEF Begin, Idle
  <2> HIDE DEF record
  <2> QED BY <2>2, <2>3, SeqBegins
<1>5. ASSUME NEW w \in Workers, NEW u \in Users, BeginUnban(w, u)
      PROVE  SeqInv'
  <2>1. PICK n : Begin(w, [IdleTx EXCEPT !.op = "unban", !.user = u,
                                         !.loaded = Load(BanRevoked(u)), !.was = banned[u], !.link = n])
    BY <1>5 DEF BeginUnban
  <2> DEFINE record == [IdleTx EXCEPT !.op = "unban", !.user = u,
                                      !.loaded = Load(BanRevoked(u)), !.was = banned[u], !.link = n]
  <2>2. /\ record.op = "unban" /\ record.loaded = Load(BanRevoked(record.user))
        /\ record.was = banned[record.user]
    BY DEF IdleTx
  <2>3. MayStart /\ tx' = [tx EXCEPT ![w] = record] /\ UNCHANGED <<sub, job, banned, now>>
    BY <2>1 DEF Begin, Idle
  <2> HIDE DEF record
  <2> QED BY <2>2, <2>3, SeqBegins
<1>6. ASSUME NEW w \in Workers, CrashHandler(w)
      PROVE  SeqInv'
  <2>1. UNCHANGED job /\ sub' = sub /\ \A v \in Workers : tx'[v].op = "idle"
    BY <1>6 DEF CrashHandler, IdleTx, SeqInv, TypeInv, TypeOK, OneAtATime
  <2>2. job.phase = "idle" /\ Blank'
    BY <1>6, <2>1 DEF CrashHandler, SeqInv, OneAtATime, Blank
  <2> QED BY <2>1, <2>2, SeqEnds
<1> QED BY <1>2, <1>3, <1>4, <1>5, <1>6 DEF HandlerStep, BeginBan, BeginRefund

\* A commit fills no row it did not load and empties none.
LEMMA SeqCommit ==
  ASSUME SeqInv, TypeInv', CommitStep
  PROVE  SeqInv'
<1>0. sub \in [SubIds -> Row] /\ now \in Nat
  BY DEF SeqInv, TypeInv, TypeOK
<1>1. PICK w \in Workers : CommitPurchase(w) \/ CommitBan(w) \/ CommitUnban(w) \/ CommitRefund(w)
  BY DEF CommitStep
<1>2. tx[w].op # "idle" /\ tx' = [tx EXCEPT ![w] = IdleTx] /\ UNCHANGED job
  BY <1>1 DEF CommitPurchase, CommitBan, CommitUnban, CommitRefund, CommitRows
<1>3. job.phase = "idle" /\ \A v \in Workers : tx'[v].op = "idle"
  BY <1>2 DEF IdleTx, SeqInv, TypeInv, TypeOK, OneAtATime
<1>4. CASE CommitPurchase(w)
  <2> DEFINE u == tx[w].user  pay == tx[w].pay  n == tx[w].link
  <2>1. PICK i \in SubIds :
          /\ \/ sub[i].status = "absent" /\ sub'[i] = WithLink(NewRow(u, pay), n)
             \/ /\ HasAccess(sub[i], now) /\ sub[i].user = u
                /\ sub'[i] = WithLink(Extended(sub[i], pay), n)
          /\ \A j \in SubIds \ {i} :
               \/ sub'[j] = sub[j]
               \/ /\ pay.psid # NoLink /\ sub[j].psid = pay.psid
                  /\ sub'[j] = Released(sub[j])
    BY <1>4, PurchaseWrites
  <2>2. sub'[i].status # "absent"
    <3>1. u \in Users /\ pay \in Purchase /\ n \in Nat
      BY <1>2 DEF SeqInv, TypeInv, TypeOK, IdsKnown, Tx
    <3> HIDE DEF u, pay, n
    <3>2. CASE sub'[i] = WithLink(NewRow(u, pay), n)
      BY <1>0, <3>1, <3>2, NewRowIs
    <3>3. CASE HasAccess(sub[i], now) /\ sub'[i] = WithLink(Extended(sub[i], pay), n)
      BY <1>0, <3>1, <3>3, ExtendedIs DEF HasAccess, AccessHolding
    <3> QED BY <2>1, <3>2, <3>3
  <2>3. \A j \in SubIds \ {i} : sub'[j].status = "absent" => sub'[j] = NoRow
    <3>1. \A r \in Row : Released(r).status = r.status
      BY DEF Released, Row
    <3>2. NoRow.psid = NoLink
      BY DEF NoRow
    <3> QED BY <1>0, <2>1, <3>1, <3>2 DEF SeqInv, Blank
  <2>4. Blank'
    BY <2>2, <2>3 DEF Blank
  <2> QED BY <1>2, <1>3, <2>4, SeqEnds
<1>5. ASSUME NEW i \in SubIds, CommitBan(w) \/ CommitUnban(w) \/ CommitRefund(w),
             sub'[i].status = "absent"
      PROVE  sub'[i] = sub[i] /\ sub[i].status = "absent"
  <2>1. sub[i] \in Row /\ EndForRefund(sub[i], now) \in Row
        /\ EndForRefund(sub[i], now).status = "cancelled"
        /\ "absent" \notin AccessHolding /\ "expired" # "absent"
    BY <1>0, RefundKeeps DEF AccessHolding
  <2>2. \A u : i \in OpenRows(u) \cup BanRevoked(u) => sub[i].status \in AccessHolding
    BY DEF OpenRows, BanRevoked
  <2>3. CASE CommitBan(w)
    <3> DEFINE u == tx[w].user  o == tx[w].answer[i]
    <3>1. i \in OpenRows(u) => sub'[i] = RecordAttempt(sub[i], now, o, FALSE, FALSE)
      BY <2>3, BanWrites
    <3>2. i \notin OpenRows(u) => sub'[i] = sub[i]
      BY <2>3, BanWrites
    <3> HIDE DEF u, o
    <3>3. RecordAttempt(sub[i], now, o, FALSE, FALSE).status \in {sub[i].status, "expired"}
      BY <1>0, RecordAttemptKeeps
    <3> QED BY <1>5, <2>1, <2>2, <3>1, <3>2, <3>3
  <2>4. CASE CommitUnban(w)
    BY <1>0, <1>5, <2>1, <2>2, <2>4, UnbanWrites, RestoredKeeps
  <2>5. CASE CommitRefund(w)
    <3> DEFINE u == tx[w].user  o == tx[w].answer[i]
    <3>1. i \in OpenRows(u) =>
            sub'[i] = RecordAttempt(EndForRefund(sub[i], now), now, o, TRUE, FALSE)
      BY <2>5, RefundWrites
    <3>2. i \notin OpenRows(u) => sub'[i] = sub[i]
      BY <2>5, RefundWrites
    <3> HIDE DEF u, o
    <3>3. RecordAttempt(EndForRefund(sub[i], now), now, o, TRUE, FALSE).status
            \in {"cancelled", "expired"}
      BY <1>0, <2>1, RecordAttemptKeeps
    <3> QED BY <1>5, <2>1, <2>2, <3>1, <3>2, <3>3
  <2> QED BY <1>5, <2>3, <2>4, <2>5
<1>6. CASE CommitBan(w) \/ CommitUnban(w) \/ CommitRefund(w)
  <2>1. Blank'
    BY <1>5, <1>6 DEF SeqInv, Blank
  <2> QED BY <1>2, <1>3, <2>1, SeqEnds
<1> QED BY <1>1, <1>4, <1>6

\* A webhook of one transaction, or the panel, finds nothing at work.
LEMMA SeqAlone ==
  ASSUME SeqInv, TypeInv', ~Overlap, PanelStep \/ \E e \in events :
           DeliverRenewal(e) \/ DeliverPaymentFailed(e) \/ DeliverSubscription(e)
  PROVE  SeqInv'
<1>0. sub \in [SubIds -> Row] /\ now \in Nat
  BY DEF SeqInv, TypeInv, TypeOK
<1>1. Quiet /\ UNCHANGED <<tx, job>>
  BY DEF PanelStep, ExtendDays, SetComp, MayStart, DeliverRenewal, DeliverPaymentFailed,
     DeliverSubscription, Deliver
<1>2. CASE PanelStep
  <2>1. \A i \in SubIds : sub'[i].status = sub[i].status /\ (sub[i].status = "absent" => sub'[i] = sub[i])
    BY <1>0, <1>2 DEF PanelStep, ExtendDays, SetComp, Row
  <2>2. Blank'
    BY <2>1 DEF SeqInv, Blank
  <2> QED BY <1>1, <2>2, SeqEnds DEF Quiet
<1>3. ASSUME NEW e \in events, DeliverPaymentFailed(e) \/ DeliverSubscription(e)
      PROVE  SeqInv'
  <2>1. \A i \in SubIds : i \notin StripeRows(e.psid) => sub'[i] = sub[i]
    BY <1>3 DEF DeliverPaymentFailed, DeliverSubscription
  <2>2. \A i \in StripeRows(e.psid) : sub[i].status # "absent"
    BY DEF StripeRows, SeqInv, Blank, NoRow
  <2>3. \A i \in StripeRows(e.psid) : i \in SubIds /\ sub'[i].status # "absent"
    <3> SUFFICES ASSUME NEW i \in StripeRows(e.psid) PROVE i \in SubIds /\ sub'[i].status # "absent"
      OBVIOUS
    <3>1. i \in SubIds /\ sub[i] \in Row
      BY <1>0 DEF StripeRows
    <3>2. CASE DeliverPaymentFailed(e)
      <4>1. sub'[i].status = sub[i].status
        BY <3>1, <3>2 DEF DeliverPaymentFailed, StartGrace, Row
      <4> QED BY <2>2, <3>1, <4>1
    <3>3. CASE DeliverSubscription(e)
      <4>1. sub'[i] = SubscriptionEvent(sub[i], e)
        BY <3>1, <3>3 DEF DeliverSubscription
      <4>2. SubscriptionEvent(sub[i], e).status \in {"cancelled", "active", sub[i].status}
        BY <3>1 DEF SubscriptionEvent, Row
      <4> QED BY <2>2, <3>1, <4>1, <4>2
    <3> QED BY <1>3, <3>2, <3>3
  <2>4. Blank'
    BY <2>1, <2>3 DEF SeqInv, Blank
  <2> QED BY <1>1, <2>4, SeqEnds DEF Quiet
<1>4. ASSUME NEW e \in events, DeliverRenewal(e)
      PROVE  SeqInv'
  <2> DEFINE u == Owner[e.psid]  pay == StripePurchase(e.psid, e.end)
  <2>1. u \in Users /\ pay \in Purchase /\ TypeInv
    BY LifecycleAssumption DEF SeqInv, TypeInv, TypeOK, Event, StripePurchase, Purchase,
       Sources, ProviderStatuses, Time
  <2>2. Absent # {}
    BY <1>1, <1>4, RoomIsThere DEF DeliverRenewal
  <2>3. PICK i \in Target(sub, u) : sub' = Bought(i, u, pay, NothingLoaded, 0)
    BY <1>4 DEF DeliverRenewal
  <2>4. NothingLoaded \in [SubIds -> Row] /\ \A j \in SubIds : NothingLoaded[j] = NoRow
    BY NothingTyped DEF NothingLoaded
  <2> HIDE DEF u, pay
  <2>5. /\ \/ sub[i].status = "absent" /\ sub'[i] = WithLink(NewRow(u, pay), 0)
           \/ HasAccess(sub[i], now) /\ sub'[i] = WithLink(Extended(sub[i], pay), 0)
        /\ \A j \in SubIds \ {i} : sub'[j] = sub[j] \/ (sub[j].psid # NoLink /\ sub'[j] = Released(sub[j]))
        /\ i \in SubIds
    BY <2>1, <2>2, <2>3, <2>4, BoughtRows
  <2>6. sub'[i].status # "absent"
    <3>1. CASE sub'[i] = WithLink(NewRow(u, pay), 0)
      BY <1>0, <2>1, <3>1, NewRowIs
    <3>2. CASE HasAccess(sub[i], now) /\ sub'[i] = WithLink(Extended(sub[i], pay), 0)
      BY <1>0, <2>1, <2>5, <3>2, ExtendedIs DEF HasAccess, AccessHolding
    <3> QED BY <2>5, <3>1, <3>2
  <2>7. \A j \in SubIds \ {i} : sub'[j].status = "absent" => sub'[j] = NoRow
    <3>1. \A r \in Row : Released(r).status = r.status
      BY DEF Released, Row
    <3>2. NoRow.psid = NoLink
      BY DEF NoRow
    <3> QED BY <1>0, <2>5, <3>1, <3>2 DEF SeqInv, Blank
  <2>8. Blank'
    BY <2>5, <2>6, <2>7 DEF Blank
  <2> QED BY <1>1, <2>8, SeqEnds DEF Quiet
<1> QED BY <1>2, <1>3, <1>4

\* The job: while it is at work no handler is, and what it loaded stays true of
\* the rows it has still to do.
LEMMA SeqJob ==
  ASSUME SeqInv, TypeInv', ~Overlap, JobStep \/ JobRecordFails \/ CrashBot
  PROVE  SeqInv'
<1>0. sub \in [SubIds -> Row] /\ now \in Nat /\ job \in Job
  BY DEF SeqInv, TypeInv, TypeOK
<1>1. UNCHANGED <<tx, banned, now>>
  BY DEF JobStep, JobStart, JobRevoke, JobRecord, JobAlert, JobDrain, JobFinish,
     JobRecordFails, CrashBot, JobOnly
<1>2. \A w \in Workers : tx[w].op = "idle"
  <2>1. CASE JobStart
    BY <2>1 DEF JobStart, MayStart, Quiet
  <2>2. CASE ~JobStart
    <3>1. job.phase # "idle"
      BY <2>2 DEF JobStep, JobRevoke, NextInBatch, JobRecord, JobAlert, JobDrain, JobFinish,
         JobRecordFails, CrashBot, SeqInv, JobFresh
    <3> QED BY <3>1 DEF SeqInv, OneAtATime
  <2> QED BY <2>1, <2>2
<1>3. OneAtATime' /\ TxFresh'
  BY <1>1, <1>2 DEF OneAtATime, TxFresh
<1>4. CASE JobRecord
  <2> DEFINE i == job.cur
  <2>1. /\ i \in AtWork /\ i \in SubIds /\ sub[i].status \in AccessHolding
        /\ sub' = [sub EXCEPT ![i] = RecordAttempt(sub[i], now, job.answer,
                                       job.phase = "expiry", job.answer = "never")]
    BY <1>4, JobWrites
  <2>2. \A k \in SubIds \ {i} : sub'[k] = sub[k]
    BY <2>1
  <2>3. sub'[i].status # "absent"
    <3> DEFINE expiring == job.phase = "expiry"
               permanent == job.answer = "never"
    <3>1. sub'[i] = RecordAttempt(sub[i], now, job.answer, expiring, permanent)
      BY <1>0, <2>1
    <3>2. expiring \in BOOLEAN /\ permanent \in BOOLEAN /\ sub[i] \in Row
      BY <1>0, <2>1
    <3> HIDE DEF expiring, permanent, i
    <3>3. sub'[i].status \in {sub[i].status, "expired"}
      BY <1>0, <3>1, <3>2, RecordAttemptKeeps
    <3> QED BY <2>1, <3>3 DEF AccessHolding
  <2>4. Blank'
    BY <2>2, <2>3 DEF SeqInv, Blank
  <2>5. i \notin job.todo /\ job.stage = "record"
    BY <1>4 DEF JobRecord, SeqInv, JobFresh
  <2>6. /\ job'.todo = job.todo /\ job'.phase = job.phase /\ job'.stage # "record"
        /\ \A k \in SubIds \ {i} : job'.loaded[k] = job.loaded[k]
        /\ job.phase # "idle"
    BY <1>0, <1>4, <2>5 DEF JobRecord, Job, SeqInv, JobFresh
  <2>7. JobFresh'
    <3>1. AtWork' = job.todo /\ job.todo \subseteq AtWork
      BY <2>6 DEF AtWork
    <3> HIDE DEF i
    <3> QED BY <1>1, <2>2, <2>5, <2>6, <3>1 DEF SeqInv, JobFresh
  <2> QED BY <1>3, <2>4, <2>7 DEF SeqInv
<1>5. CASE ~JobRecord
  <2>1. sub' = sub
    BY <1>5 DEF JobStep, JobStart, JobRevoke, JobAlert, JobDrain, JobFinish,
     JobRecordFails, CrashBot
  <2>2. Blank'
    BY <2>1 DEF SeqInv, Blank
  <2>3. \A ids, k : k \in ids /\ k \in SubIds => Load(ids)[k] = sub[k]
    BY DEF Load
  <2>4. CASE JobStart
    <3>1. job' = [IdleJob EXCEPT !.phase = "expiry", !.todo = DueNow, !.loaded = Load(DueNow)]
      BY <2>4 DEF JobStart
    <3>2. job'.phase = "expiry" /\ job'.stage = "pick" /\ AtWork' = DueNow
          /\ job'.loaded = Load(DueNow)
      BY <3>1 DEF IdleJob, AtWork
    <3>3. \A k \in DueNow : k \in SubIds /\ sub[k].status \in AccessHolding /\ ~HasAccess(sub[k], now)
      BY DEF DueNow, DueForExpiry, ShouldRevoke
    <3>4. JobFresh'
      BY <1>1, <2>1, <2>3, <3>2, <3>3 DEF JobFresh
    <3> QED BY <1>3, <2>2, <3>4 DEF SeqInv
  <2>5. CASE JobDrain
    <3> DEFINE ids == BanPending \ job.seen
    <3>1. job' = [job EXCEPT !.phase = "ban", !.todo = ids, !.loaded = Load(ids)]
          /\ job.stage = "pick"
      BY <2>5 DEF JobDrain
    <3>2. \A k \in ids : k \in SubIds /\ sub[k].status \in AccessHolding /\ banned[sub[k].user]
      BY DEF BanPending, DueForBan
    <3> HIDE DEF ids
    <3>3. job'.phase = "ban" /\ job'.stage = "pick" /\ AtWork' = ids
          /\ job'.loaded = Load(ids)
      BY <1>0, <3>1 DEF Job, AtWork
    <3>4. JobFresh'
      BY <1>1, <2>1, <2>3, <3>2, <3>3 DEF JobFresh
    <3> QED BY <1>3, <2>2, <3>4 DEF SeqInv
  <2>6. CASE JobRevoke
    <3>1. PICK i \in NextInBatch, a \in Outcomes :
            job' = [job EXCEPT !.stage = "record", !.todo = @ \ {i},
                               !.seen = @ \cup {i}, !.cur = i, !.answer = a]
      BY <2>6 DEF JobRevoke
    <3>2. i \in job.todo /\ job.phase # "idle"
      BY <3>1 DEF NextInBatch, SeqInv, JobFresh
    <3>3. /\ job'.stage = "record" /\ job'.todo = job.todo \ {i} /\ job'.cur = i
          /\ job'.phase = job.phase /\ job'.loaded = job.loaded
      BY <1>0, <3>1 DEF Job
    <3>4. AtWork' \subseteq AtWork /\ i \notin job'.todo
      BY <3>2, <3>3 DEF AtWork
    <3>5. JobFresh'
      BY <1>1, <2>1, <3>2, <3>3, <3>4 DEF SeqInv, JobFresh
    <3> QED BY <1>3, <2>2, <3>5 DEF SeqInv
  <2>7. CASE JobAlert \/ JobFinish \/ JobRecordFails \/ CrashBot
    <3>1. \/ job' = IdleJob
          \/ /\ job'.phase = job.phase /\ job'.stage = "pick" /\ job'.todo = job.todo
             /\ job'.loaded = job.loaded
      BY <1>0, <2>7 DEF JobAlert, JobFinish, JobRecordFails, CrashBot, Job
    <3>2. CASE job' = IdleJob
      <4>1. JobFresh'
        BY <3>2 DEF JobFresh, AtWork, IdleJob
      <4> QED BY <1>3, <2>2, <4>1 DEF SeqInv
    <3>3. CASE /\ job'.phase = job.phase /\ job'.stage = "pick" /\ job'.todo = job.todo
               /\ job'.loaded = job.loaded
      <4>1. AtWork' \subseteq AtWork
        BY <3>3 DEF AtWork
      <4>2. JobFresh'
        BY <1>1, <2>1, <3>3, <4>1 DEF SeqInv, JobFresh
      <4> QED BY <1>3, <2>2, <4>2 DEF SeqInv
    <3> QED BY <3>1, <3>2, <3>3
  <2> QED BY <1>5, <2>4, <2>5, <2>6, <2>7 DEF JobStep
<1> QED BY <1>4, <1>5

LEMMA SeqStep == ~Overlap /\ SeqInv /\ [Next]_vars => SeqInv'
<1> SUFFICES ASSUME ~Overlap, SeqInv, [Next]_vars PROVE SeqInv'
  OBVIOUS
<1>1. TypeInv'
  BY TypeStep DEF SeqInv
<1> QED BY <1>1, SeqOutside, SeqHandler, SeqCommit, SeqAlone, SeqJob DEF Next, EventStep

LEMMA Sequential ==
  ASSUME ~Overlap
  PROVE  Spec => []SeqInv
<1>1. SeqInv /\ [Next]_vars => SeqInv'
  BY SeqStep
<1> QED BY <1>1, SeqInitially, PTL DEF Spec

\* A ban and an unban leave the flag they assign: it still is what they loaded.
LEMMA FlagWritten ==
  ASSUME SeqInv, NEW w \in Workers
  PROVE  /\ CommitBan(w) => banned' = [banned EXCEPT ![tx[w].user] = TRUE]
         /\ CommitUnban(w) => banned' = [banned EXCEPT ![tx[w].user] = FALSE]
<1>1. CommitBan(w) \/ CommitUnban(w) =>
        /\ tx[w].user \in Users /\ tx[w].was = banned[tx[w].user]
        /\ banned[tx[w].user] \in BOOLEAN
  BY DEF SeqInv, TypeInv, TypeOK, IdsKnown, TxFresh, CommitBan, CommitUnban
<1>2. \A a \in BOOLEAN : Net(a, a, TRUE) = TRUE /\ Net(a, a, FALSE) = FALSE
  BY DEF Net
<1> QED BY <1>1, <1>2 DEF CommitBan, CommitUnban

(***************************************************************************)
(* The member panel: payments in USDT, gifts and administrators, one at a  *)
(* time and without Stripe, whose events may raise a cancelled row.        *)
(***************************************************************************)
Panel == ~Overlap /\ PSids = {}

\* A refund leaves a cancelled row whose every date is past.
Ended ==
  \A i \in refunded : /\ sub[i].status = "cancelled" /\ sub[i].expires <= now
                      /\ sub[i].cpe <= now /\ sub[i].grace = NoTime
\* Without Stripe no row is sold for longer than it gives access.
Covered == \A i \in SubIds : sub[i].cpe <= sub[i].expires
\* Only a ban leaves an active row revoked inside the period it was sold for.
OnlyBans ==
  \A i \in SubIds :
    (sub[i].status = "active" /\ sub[i].revoked /\ sub[i].cpe > now) => banned[sub[i].user]

PanelInv == SeqInv /\ Ended /\ Covered /\ OnlyBans

LEMMA NoStripe ==
  ASSUME Panel, PanelInv
  PROVE  /\ events = {} /\ ~StripeStep /\ ~EventStep
         /\ \A w \in Workers : tx[w].pay.psid = NoLink
<1>1. events = {} /\ \A w \in Workers : tx[w].pay.psid = NoLink
  BY DEF Panel, PanelInv, SeqInv, TypeInv, TypeOK, Event, Tx, Purchase
<1> QED BY <1>1 DEF Panel, StripeStep, EventStep

\* Steps that write no row, at most later.
LEMMA PanelStays ==
  ASSUME PanelInv, SeqInv', sub' = sub, UNCHANGED <<banned, refunded>>, now <= now'
  PROVE  PanelInv'
<1>1. /\ now \in Nat /\ now' \in Nat /\ sub \in [SubIds -> Row] /\ refunded \subseteq SubIds
      /\ \A i \in SubIds : sub[i].expires \in Nat /\ sub[i].cpe \in Int
  BY DEF PanelInv, SeqInv, TypeInv, TypeOK, Row, Time, NoTime
<1>2. Ended' /\ Covered' /\ OnlyBans'
  BY <1>1 DEF PanelInv, Ended, Covered, OnlyBans
<1> QED BY <1>2 DEF PanelInv

LEMMA PanelPurchase ==
  ASSUME Panel, PanelInv, SeqInv', NEW w \in Workers, CommitPurchase(w)
  PROVE  PanelInv'
<1> DEFINE u == tx[w].user  pay == tx[w].pay  n == tx[w].link
<1>1. /\ u \in Users /\ pay \in Purchase /\ n \in Nat /\ now \in Nat /\ sub \in [SubIds -> Row]
      /\ refunded \subseteq SubIds /\ pay.psid = NoLink
  BY NoStripe DEF PanelInv, SeqInv, TypeInv, TypeOK, IdsKnown, Tx, CommitPurchase
<1>2. PICK i \in SubIds :
        /\ \/ sub[i].status = "absent" /\ sub'[i] = WithLink(NewRow(u, pay), n)
           \/ /\ HasAccess(sub[i], now)
              /\ sub'[i] = WithLink(Extended(sub[i], pay), n)
        /\ \A j \in SubIds \ {i} : sub'[j] = sub[j]
        /\ refunded' = refunded \ {i}
  <2>1. SeqInv
    BY DEF PanelInv
  <2> HIDE DEF u, pay, n
  <2> QED BY <1>1, <2>1, PurchaseWrites DEF u, pay, n
<1> HIDE DEF u, pay, n
<1>3. sub'[i].cpe = sub'[i].expires /\ ~sub'[i].revoked /\ sub'[i].expires \in Nat
  <2>1. CASE sub'[i] = WithLink(NewRow(u, pay), n)
    BY <1>1, <2>1, NewRowIs
  <2>2. CASE HasAccess(sub[i], now) /\ sub'[i] = WithLink(Extended(sub[i], pay), n)
    <3>1. ~sub[i].revoked
      BY <2>2 DEF HasAccess
    <3> QED BY <1>1, <1>2, <2>2, <3>1, ExtendedIs
  <2> QED BY <1>2, <2>1, <2>2
<1>4. now' = now /\ banned' = banned
  BY DEF CommitPurchase
<1>5. Ended' /\ Covered' /\ OnlyBans'
  BY <1>1, <1>2, <1>3, <1>4 DEF PanelInv, Ended, Covered, OnlyBans
<1> QED BY <1>5 DEF PanelInv

LEMMA PanelBan ==
  ASSUME PanelInv, SeqInv', NEW w \in Workers, CommitBan(w)
  PROVE  PanelInv'
<1> DEFINE u == tx[w].user  answer == tx[w].answer
<1>1. /\ u \in Users /\ now \in Nat /\ sub \in [SubIds -> Row] /\ refunded \subseteq SubIds
      /\ banned \in [Users -> BOOLEAN] /\ SeqInv
  BY DEF PanelInv, SeqInv, TypeInv, TypeOK, IdsKnown, Tx, CommitBan
<1>2. /\ banned' = [banned EXCEPT ![u] = TRUE] /\ now' = now /\ refunded' = refunded
  BY <1>1, FlagWritten DEF CommitBan, CommitRows
<1>3. \A i \in SubIds :
        /\ i \in OpenRows(u) => sub'[i] = RecordAttempt(sub[i], now, answer[i], FALSE, FALSE)
        /\ i \notin OpenRows(u) => sub'[i] = sub[i]
  BY <1>1, BanWrites
<1>4. \A i \in OpenRows(u) : i \in SubIds /\ sub[i].user = u
  BY DEF OpenRows, RowsOf
<1> HIDE DEF u, answer
<1>5. \A i \in SubIds :
        /\ sub'[i].status = sub[i].status /\ sub'[i].expires = sub[i].expires
        /\ sub'[i].cpe = sub[i].cpe /\ sub'[i].grace = sub[i].grace /\ sub'[i].user = sub[i].user
        /\ sub'[i].revoked = sub[i].revoked \/ sub[i].user = u
  <2> SUFFICES ASSUME NEW i \in SubIds, i \in OpenRows(u)
               PROVE  /\ sub'[i].status = sub[i].status /\ sub'[i].expires = sub[i].expires
                      /\ sub'[i].cpe = sub[i].cpe /\ sub'[i].grace = sub[i].grace
                      /\ sub'[i].user = sub[i].user
    BY <1>3, <1>4
  <2> DEFINE o == answer[i]
  <2>1. sub[i] \in Row /\ sub'[i] = RecordAttempt(sub[i], now, o, FALSE, FALSE)
    BY <1>1, <1>3
  <2> DEFINE keep == FALSE
             new == RecordAttempt(sub[i], now, o, keep, keep)
  <2> HIDE DEF o
  <2>2. keep \in BOOLEAN /\ ~keep
    OBVIOUS
  <2> HIDE DEF keep
  <2>3. /\ new.status = sub[i].status /\ new.expires = sub[i].expires /\ new.cpe = sub[i].cpe
        /\ new.grace = sub[i].grace /\ new.user = sub[i].user
    BY <1>1, <2>1, <2>2, RecordAttemptKeeps
  <2> QED BY <2>1, <2>3 DEF keep
<1>6. Ended' /\ Covered' /\ OnlyBans'
  BY <1>1, <1>2, <1>5 DEF PanelInv, Ended, Covered, OnlyBans
<1> QED BY <1>6 DEF PanelInv

LEMMA PanelUnban ==
  ASSUME PanelInv, SeqInv', NEW w \in Workers, CommitUnban(w)
  PROVE  PanelInv'
<1> DEFINE u == tx[w].user
<1>1. /\ u \in Users /\ now \in Nat /\ sub \in [SubIds -> Row] /\ refunded \subseteq SubIds
      /\ banned \in [Users -> BOOLEAN] /\ SeqInv
  BY DEF PanelInv, SeqInv, TypeInv, TypeOK, IdsKnown, Tx, CommitUnban
<1>2. /\ banned' = [banned EXCEPT ![u] = FALSE] /\ now' = now /\ refunded' = refunded
  BY <1>1, FlagWritten DEF CommitUnban, CommitRows
<1>3. \A i \in SubIds :
        /\ i \in BanRevoked(u) => \E n \in Nat : sub'[i] = Restored(sub[i], n)
        /\ i \notin BanRevoked(u) => sub'[i] = sub[i]
  BY <1>1, UnbanWrites
<1> HIDE DEF u
<1>4. \A i \in SubIds :
        /\ sub'[i].status = sub[i].status /\ sub'[i].expires = sub[i].expires
        /\ sub'[i].cpe = sub[i].cpe /\ sub'[i].grace = sub[i].grace /\ sub'[i].user = sub[i].user
        /\ (i \in BanRevoked(u) /\ sub'[i].revoked) => ~Entitled(sub[i])
        /\ i \notin BanRevoked(u) => sub'[i].revoked = sub[i].revoked
  BY <1>1, <1>3, RestoredKeeps
<1>5. \A i \in SubIds : ~Entitled(sub[i]) => sub[i].cpe <= now
  <2> SUFFICES ASSUME NEW i \in SubIds, sub[i].cpe > now PROVE AccessEndsAt(sub[i]) > now
    BY <1>1 DEF Entitled, Row, Time, NoTime
  <2>1. /\ sub[i].cpe <= sub[i].expires /\ sub[i].expires \in Nat /\ sub[i].cpe \in Int
        /\ sub[i].grace \in Int
    BY <1>1 DEF PanelInv, Covered, Row, Time, NoTime
  <2>2. PaidUntil(sub[i]) \in {sub[i].cpe, sub[i].expires}
    BY DEF PaidUntil
  <2> QED BY <1>1, <2>1, <2>2 DEF AccessEndsAt, Later
<1>6. Ended' /\ Covered'
  BY <1>1, <1>2, <1>4 DEF PanelInv, Ended, Covered
<1>7. OnlyBans'
  <2> SUFFICES ASSUME NEW i \in SubIds, sub[i].status = "active", sub'[i].revoked, sub[i].cpe > now
               PROVE  banned'[sub[i].user]
    BY <1>2, <1>4 DEF OnlyBans
  <2>0. sub[i].cpe \in Int
    BY <1>1 DEF Row, Time, NoTime
  <2>1. i \notin BanRevoked(u)
    BY <1>1, <1>4, <1>5, <2>0
  <2>2. sub[i].revoked /\ sub[i].user # u
    BY <1>4, <2>1 DEF BanRevoked, RowsOf, AccessHolding
  <2>3. banned[sub[i].user]
    BY <2>2 DEF PanelInv, OnlyBans
  <2> QED BY <1>1, <1>2, <2>2, <2>3
<1> QED BY <1>6, <1>7 DEF PanelInv

LEMMA PanelRefund ==
  ASSUME PanelInv, SeqInv', NEW w \in Workers, CommitRefund(w)
  PROVE  PanelInv'
<1> DEFINE u == tx[w].user  answer == tx[w].answer
<1>1. /\ now \in Nat /\ sub \in [SubIds -> Row] /\ refunded \subseteq SubIds /\ SeqInv
  BY DEF PanelInv, SeqInv, TypeInv, TypeOK
<1>2. now' = now /\ banned' = banned
  BY DEF CommitRefund, CommitRows
<1>3. /\ \A i \in SubIds :
           /\ i \in OpenRows(u) =>
                sub'[i] = RecordAttempt(EndForRefund(sub[i], now), now, answer[i], TRUE, FALSE)
           /\ i \notin OpenRows(u) => sub'[i] = sub[i]
      /\ refunded' = refunded \cup OpenRows(u)
  BY <1>1, RefundWrites
<1>4. OpenRows(u) \subseteq SubIds
  BY DEF OpenRows, RowsOf
<1> HIDE DEF u, answer
<1>5. \A i \in OpenRows(u) :
        /\ sub'[i].status = "cancelled" /\ sub'[i].expires = now /\ sub'[i].cpe = now
        /\ sub'[i].grace = NoTime
  <2> SUFFICES ASSUME NEW i \in OpenRows(u)
               PROVE  /\ sub'[i].status = "cancelled" /\ sub'[i].expires = now /\ sub'[i].cpe = now
                      /\ sub'[i].grace = NoTime
    OBVIOUS
  <2> DEFINE r == EndForRefund(sub[i], now)
  <2>1. r \in Row /\ r.status = "cancelled" /\ r.expires = now /\ r.cpe = now /\ r.grace = NoTime
    BY <1>1, <1>4, RefundKeeps
  <2> DEFINE o == answer[i]
  <2>2. sub'[i] = RecordAttempt(r, now, o, TRUE, FALSE)
    BY <1>3, <1>4
  <2> DEFINE mark == TRUE
             keep == FALSE
             new == RecordAttempt(r, now, o, mark, keep)
  <2> HIDE DEF r, o
  <2>3. mark \in BOOLEAN /\ keep \in BOOLEAN
    OBVIOUS
  <2> HIDE DEF mark, keep
  <2>4. /\ new.status = "cancelled" /\ new.expires = now /\ new.cpe = now
        /\ new.grace = NoTime
    BY <1>1, <2>1, <2>3, RecordAttemptKeeps
  <2> QED BY <2>2, <2>4 DEF mark, keep
<1>6. \A i \in SubIds \ OpenRows(u) : sub'[i] = sub[i]
  BY <1>3
<1>7. Ended'
  BY <1>1, <1>2, <1>3, <1>5, <1>6 DEF PanelInv, Ended
<1>8. Covered' /\ OnlyBans'
  BY <1>1, <1>2, <1>5, <1>6 DEF PanelInv, Covered, OnlyBans
<1> QED BY <1>7, <1>8 DEF PanelInv

LEMMA PanelJob ==
  ASSUME PanelInv, SeqInv', JobRecord
  PROVE  PanelInv'
<1> DEFINE i == job.cur
           expiring == job.phase = "expiry"
           permanent == job.answer = "never"
<1>1. /\ now \in Nat /\ sub \in [SubIds -> Row] /\ refunded \subseteq SubIds /\ SeqInv
      /\ job.phase \in Phases
  BY DEF PanelInv, SeqInv, TypeInv, TypeOK, Job
<1>2. /\ i \in AtWork /\ i \in SubIds /\ job.phase # "idle"
      /\ sub' = [sub EXCEPT ![i] = RecordAttempt(sub[i], now, job.answer, expiring, permanent)]
  BY <1>1, JobWrites
<1>3. now' = now /\ banned' = banned /\ refunded' = refunded
  BY DEF JobRecord, JobOnly
<1>4. expiring \in BOOLEAN /\ permanent \in BOOLEAN /\ (~expiring => banned[sub[i].user])
  BY <1>1, <1>2 DEF Phases, SeqInv, JobFresh
<1> HIDE DEF i, expiring, permanent
<1>5. /\ \A k \in SubIds \ {i} : sub'[k] = sub[k]
      /\ sub'[i] = RecordAttempt(sub[i], now, job.answer, expiring, permanent)
  BY <1>1, <1>2
<1>6. /\ sub'[i].expires = sub[i].expires /\ sub'[i].cpe = sub[i].cpe
      /\ sub'[i].grace = sub[i].grace /\ sub'[i].user = sub[i].user
      /\ sub[i].status = "cancelled" => sub'[i].status = "cancelled"
      /\ sub'[i].status \in {sub[i].status, "expired"}
      /\ sub'[i].revoked = (sub[i].revoked \/ job.answer = "removed")
      /\ (expiring /\ job.answer = "removed" /\ sub[i].status # "cancelled")
           => sub'[i].status = "expired"
  BY <1>1, <1>2, <1>4, <1>5, RecordAttemptKeeps
<1>7. Ended' /\ Covered'
  BY <1>1, <1>2, <1>3, <1>5, <1>6 DEF PanelInv, Ended, Covered
<1>8. OnlyBans'
  <2>1. (sub'[i].status = "active" /\ sub'[i].revoked /\ sub'[i].cpe > now)
          => banned[sub[i].user]
    <3>1. sub'[i].status = "active" => sub[i].status = "active"
      BY <1>6
    <3>2. CASE sub[i].revoked
      BY <1>2, <1>6, <3>1, <3>2 DEF PanelInv, OnlyBans
    <3>3. CASE job.answer = "removed"
      BY <1>4, <1>6, <3>1, <3>3
    <3> QED BY <1>6, <3>2, <3>3
  <2> QED BY <1>2, <1>3, <1>5, <1>6, <2>1 DEF PanelInv, OnlyBans
<1> QED BY <1>7, <1>8 DEF PanelInv

LEMMA PanelStepKeeps == Panel /\ PanelInv /\ [Next]_vars => PanelInv'
<1> SUFFICES ASSUME Panel, PanelInv, [Next]_vars PROVE PanelInv'
  OBVIOUS
<1>1. SeqInv'
  BY SeqStep DEF Panel, PanelInv
<1>2. now \in Nat /\ sub \in [SubIds -> Row]
  BY DEF PanelInv, SeqInv, TypeInv, TypeOK
<1>3. CASE UNCHANGED vars \/ Tick \/ \E l \in live : Join(l)
  BY <1>1, <1>2, <1>3, PanelStays DEF vars, Tick, Join
<1>4. CASE HandlerStep
  <2>1. \A w \in Workers : \A r : Begin(w, r) => UNCHANGED <<sub, banned, refunded, now>>
    BY DEF Begin
  <2>2. \A w \in Workers : CrashHandler(w) => UNCHANGED <<sub, banned, refunded, now>>
    BY DEF CrashHandler
  <2> DEFINE Still == UNCHANGED <<sub, banned, refunded, now>>
  <2>4. \A w, u, pay, e, n : BeginPurchase(w, u, pay, e, n) => (w \in Workers => Still)
    BY <2>1 DEF BeginPurchase
  <2>5. \A w, op, u, ids : BeginRemoval(w, op, u, ids) => (w \in Workers => Still)
    BY <2>1 DEF BeginRemoval
  <2>6. \A w, u : BeginUnban(w, u) => (w \in Workers => Still)
    BY <2>1 DEF BeginUnban
  <2> HIDE DEF Still
  <2>3. Still
    BY <1>4, <2>2, <2>4, <2>5, <2>6 DEF Still, HandlerStep, BeginFirstInvoice, BeginUsdt,
       BeginGift, BeginBan, BeginRefund
  <2> QED BY <1>1, <1>2, <2>3, PanelStays DEF Still
<1>5. CASE CommitStep
  BY <1>1, <1>5, PanelPurchase, PanelBan, PanelUnban, PanelRefund DEF CommitStep
<1>6. CASE PanelStep
  <2>1. PICK i \in SubIds : ExtendDays(i) \/ SetComp(i)
    BY <1>6 DEF PanelStep
  <2>2. /\ \A k \in SubIds \ {i} : sub'[k] = sub[k]
        /\ sub'[i].status = sub[i].status /\ sub'[i].cpe = sub[i].cpe
        /\ sub'[i].grace = sub[i].grace /\ sub'[i].user = sub[i].user
        /\ sub'[i].revoked = sub[i].revoked /\ UNCHANGED <<banned, now>>
        /\ sub'[i].expires >= sub[i].expires
        /\ refunded' \subseteq refunded
        /\ i \in refunded' => sub[i].status = "active"
    BY <1>2, <2>1, LifecycleAssumption DEF ExtendDays, SetComp, Row
  <2>3. \A k \in SubIds : sub[k].cpe \in Int /\ sub[k].expires \in Nat /\ sub'[k].expires \in Nat
    BY <1>1, <1>2 DEF SeqInv, TypeInv, TypeOK, Row, Time, NoTime
  <2>4. Ended'
    BY <2>2, <2>3 DEF PanelInv, SeqInv, TypeInv, TypeOK, Ended
  <2>5. Covered' /\ OnlyBans'
    BY <2>2, <2>3 DEF PanelInv, Covered, OnlyBans
  <2> QED BY <1>1, <2>4, <2>5 DEF PanelInv
<1>7. CASE JobStep \/ JobRecordFails \/ CrashBot
  <2>1. CASE JobRecord
    BY <1>1, <2>1, PanelJob
  <2>2. CASE ~JobRecord
    <3>1. UNCHANGED <<sub, banned, refunded, now>>
      BY <1>7, <2>2 DEF JobStep, JobStart, JobRevoke, JobAlert, JobDrain, JobFinish,
         JobRecordFails, CrashBot, JobOnly
    <3> QED BY <1>1, <1>2, <3>1, PanelStays
  <2> QED BY <2>1, <2>2
<1> QED BY <1>3, <1>4, <1>5, <1>6, <1>7, NoStripe DEF Next

LEMMA PanelAlways ==
  ASSUME Panel
  PROVE  Spec => []PanelInv
<1>1. ASSUME Init PROVE PanelInv
  <2>1. Ended /\ Covered /\ OnlyBans
    BY <1>1 DEF Init, NoRow, NoTime, Ended, Covered, OnlyBans
  <2> QED BY <1>1, <2>1, SeqInitially DEF PanelInv
<1>2. PanelInv /\ [Next]_vars => PanelInv'
  BY PanelStepKeeps
<1> QED BY <1>1, <1>2, PTL DEF Spec

\* A full refund holds until somebody pays again (end_access_for_refund), whatever
\* bans, extensions and removals follow.
THEOREM RefundSticksCorrect == Panel => (Spec => []RefundSticks)
<1> SUFFICES ASSUME Panel PROVE Spec => []RefundSticks
  OBVIOUS
<1>1. ASSUME PanelInv PROVE RefundSticks
  <2> SUFFICES ASSUME NEW i \in refunded, ~sub[i].comp PROVE ~HasAccess(sub[i], now)
    BY DEF RefundSticks
  <2>1. /\ sub[i].expires <= now /\ sub[i].cpe <= now /\ sub[i].grace = NoTime /\ now \in Nat
        /\ sub[i].expires \in Nat /\ sub[i].cpe \in Int
    BY <1>1 DEF PanelInv, Ended, SeqInv, TypeInv, TypeOK, Row, Time, NoTime
  <2>2. PaidUntil(sub[i]) \in {sub[i].cpe, sub[i].expires}
    BY DEF PaidUntil
  <2> QED BY <2>1, <2>2 DEF HasAccess, AccessEndsAt, Later, NoTime
<1> QED BY <1>1, PanelAlways, PTL

\* A ban keeps what was paid for (user_action): a member who is not
\* banned has every active row they are inside the period of.
THEOREM EntitledKeptCorrect == Panel => (Spec => []EntitledKept)
<1> SUFFICES ASSUME Panel PROVE Spec => []EntitledKept
  OBVIOUS
<1>1. PanelInv => EntitledKept
  BY DEF PanelInv, OnlyBans, EntitledKept
<1> QED BY <1>1, PanelAlways, PTL

(***************************************************************************)
(* Whoever Stripe has charged for today can come in or is named.  Stripe   *)
(* charges for a subscription whose first invoice is still to be handled   *)
(* (Invoiced) or that a row claims (Sold), and a row is its owner's        *)
(* (Owned), so the night's run finds it.  With one subscription to a       *)
(* member no later payment takes the id off the row; a lost delivery or a  *)
(* handler that dies leaves nothing to find.                               *)
(***************************************************************************)
NothingLost == MaxFaults = 0 /\ MaxCrashes = 0
OneEach == \A p, q \in PSids : Owner[p] = Owner[q] => p = q

Owned ==
  \A i \in SubIds : sub[i].psid # NoLink =>
     sub[i].status # "absent" /\ sub[i].user = Owner[sub[i].psid]

\* A row that a handler or the job has loaded is there to stay.
LoadedStay ==
  \A w \in Workers, i \in SubIds : tx[w].loaded[i].status # "absent" =>
     sub[i].status # "absent" /\ sub[i].user = tx[w].loaded[i].user

JobKnows ==
  /\ \A i \in job.todo : sub[i].status # "absent"
  /\ job.stage = "record" => sub[job.cur].status # "absent"

Buyers == {w \in Workers : tx[w].op = "purchase"}
Room == IsFiniteSet(Buyers) /\ Cardinality(Absent) >= Cardinality(Buyers)

\* A purchase that binds an id is its owner's; every other one answers no event.
BuyersKnow ==
  \A w \in Buyers :
    IF tx[w].pay.psid = NoLink THEN tx[w].event = NoEvent
    ELSE tx[w].user = Owner[tx[w].pay.psid]

Invoiced(p) == \E e \in events : e.type = "first_invoice" /\ e.psid = p
Unclaimed(p) ==
  \A i \in SubIds : /\ sub[i].psid # p
                    /\ \A w \in Workers : tx[w].loaded[i].psid # p
NotYet == \A p \in PSids : (remote[p].status = "none" \/ Invoiced(p)) => Unclaimed(p)
Sold ==
  \A p \in PSids : remote[p].status # "none" =>
    Invoiced(p) \/ \E i \in SubIds : sub[i].psid = p

SaleInv == /\ ClaimInv /\ Owned /\ LoadedStay /\ JobKnows /\ Room /\ BuyersKnow
           /\ NotYet /\ Sold

\* The rows keep their ids, their members and their presence.
SameRows ==
  \A i \in SubIds : /\ sub'[i].psid = sub[i].psid /\ sub'[i].user = sub[i].user
                    /\ (sub'[i].status = "absent") <=> (sub[i].status = "absent")

\* Taking an element leaves all but one.
LEMMA TakesOne ==
  ASSUME NEW A, IsFiniteSet(A), NEW n \in Nat, Cardinality(A) >= 1 + n, NEW x
  PROVE  A # {} /\ Cardinality(A \ {x}) >= n
<1>1. Cardinality(A) \in Nat /\ Cardinality({}) = 0
  BY FS_CardinalityType, FS_EmptySet
<1>2. CASE x \in A
  <2>1. Cardinality(A \ {x}) = Cardinality(A) - 1
    BY <1>2, FS_RemoveElement
  <2> QED BY <1>1, <1>2, <2>1
<1>3. CASE x \notin A
  <2>1. A \ {x} = A
    BY <1>3
  <2> QED BY <1>1, <2>1
<1> QED BY <1>2, <1>3

\* Where the rows are the same, so is the room.
LEMMA SameRoom ==
  ASSUME Room, SameRows, Buyers' = Buyers
  PROVE  Room'
<1>1. Absent' = Absent
  BY DEF SameRows, Absent
<1> QED BY <1>1 DEF Room

\* Steps that write no id and end or start no purchase.
LEMMA SaleStays ==
  ASSUME SaleInv, ClaimInv', SameRows, JobKnows',
         \A w \in Workers :
           tx'[w] = tx[w] \/ (tx'[w] = IdleTx /\ tx[w].op # "purchase"),
         \A p \in PSids :
           /\ remote'[p].status = "none" \/ Invoiced(p)'
              => remote[p].status = "none" \/ Invoiced(p)
           /\ remote'[p].status # "none"
              => Invoiced(p)' \/ (remote[p].status # "none" /\ ~Invoiced(p))
  PROVE  SaleInv'
<1>1. IdleTx.op = "idle" /\ \A i \in SubIds : IdleTx.loaded[i].status = "absent"
                            /\ IdleTx.loaded[i].psid = NoLink
  BY DEF IdleTx, NothingLoaded, NoRow
<1>2. Owned'
  BY DEF SaleInv, Owned, SameRows
<1>3. LoadedStay'
  BY <1>1 DEF SaleInv, LoadedStay, SameRows
<1>4. Buyers' = Buyers /\ \A w \in Buyers : tx'[w] = tx[w]
  BY <1>1 DEF Buyers
<1>5. Room'
  BY <1>4, SameRoom DEF SaleInv
<1>6. BuyersKnow'
  BY <1>4 DEF SaleInv, BuyersKnow
<1>7. \A p \in PSids : Unclaimed(p) => Unclaimed(p)'
  BY <1>1, RowAssumption DEF Unclaimed, SameRows
<1>8. NotYet'
  BY <1>7 DEF SaleInv, NotYet
<1>9. Sold'
  BY DEF SaleInv, Sold, SameRows
<1> QED BY <1>2, <1>3, <1>5, <1>6, <1>8, <1>9 DEF SaleInv

\* A handler that starts has read rows of the table.
LEMMA SaleBegins ==
  ASSUME SaleInv, ClaimInv', NEW w \in Workers, NEW record, NEW ids,
         tx' = [tx EXCEPT ![w] = record], UNCHANGED <<sub, remote, events, job>>,
         record.loaded = Load(ids), tx[w].op = "idle",
         record.op = "purchase" =>
           /\ RoomFor(1)
           /\ IF record.pay.psid = NoLink THEN record.event = NoEvent
              ELSE record.user = Owner[record.pay.psid]
  PROVE  SaleInv'
<1>1. \A v \in Workers : tx'[v] = IF v = w THEN record ELSE tx[v]
  BY DEF SaleInv, ClaimInv, TypeInv, TypeOK
<1>2. \A i \in SubIds : record.loaded[i] \in {NoRow, sub[i]}
  BY DEF Load
<1>3. NoRow.status = "absent" /\ NoRow.psid = NoLink
  BY DEF NoRow
<1>4. Owned' /\ JobKnows' /\ Sold'
  BY DEF SaleInv, Owned, JobKnows, Sold, Invoiced
<1>5. LoadedStay'
  BY <1>1, <1>2, <1>3 DEF SaleInv, LoadedStay
<1>6. Room'
  <2>1. IsFiniteSet(Buyers) /\ Cardinality(Buyers) \in Nat /\ w \notin Buyers
    BY FS_CardinalityType DEF SaleInv, Room, Buyers
  <2>2. Absent' = Absent
    BY DEF Absent
  <2>3. CASE record.op = "purchase"
    <3>1. Buyers' = Buyers \cup {w}
      BY <1>1, <2>3 DEF Buyers
    <3>2. IsFiniteSet(Buyers') /\ Cardinality(Buyers') = Cardinality(Buyers) + 1
      BY <2>1, <3>1, FS_AddElement
    <3>3. Cardinality(Absent) >= 1 + Cardinality(Buyers)
      BY <2>3 DEF RoomFor, Buyers
    <3> QED BY <2>1, <2>2, <3>2, <3>3 DEF Room
  <2>4. CASE record.op # "purchase"
    <3>1. Buyers' = Buyers
      BY <1>1, <2>1, <2>4 DEF Buyers
    <3> QED BY <2>2, <3>1 DEF SaleInv, Room
  <2> QED BY <2>3, <2>4
<1>7. BuyersKnow'
  BY <1>1 DEF SaleInv, BuyersKnow, Buyers
<1>8. NotYet'
  <2>1. \A p \in PSids : Unclaimed(p) => Unclaimed(p)'
    BY <1>1, <1>2, <1>3, RowAssumption DEF Unclaimed
  <2> QED BY <2>1 DEF SaleInv, NotYet, Invoiced
<1> QED BY <1>4, <1>5, <1>6, <1>7, <1>8 DEF SaleInv

\* What a purchase writes: the row of its member takes the id it binds, and no
\* other row changes hands.
LEMMA PurchaseBinds ==
  ASSUME TypeInv, Owned, NEW u \in Users, NEW pay \in Purchase,
         NEW loaded \in [SubIds -> Row], NEW n \in Nat,
         NEW rows, rows = loaded \/ rows = sub,
         \A j \in SubIds : loaded[j].status # "absent" =>
           /\ sub[j].status # "absent" /\ sub[j].user = loaded[j].user
           /\ pay.psid # NoLink => loaded[j].psid # pay.psid,
         Absent # {}, NEW i \in Target(rows, u),
         sub' = Bought(i, u, pay, loaded, n)
  PROVE  /\ i \in SubIds /\ (sub[i].status = "absent" \/ sub[i].user = u)
         /\ sub'[i].status # "absent" /\ sub'[i].user = u
         /\ sub'[i].psid = IF pay.psid = NoLink THEN sub[i].psid ELSE pay.psid
         /\ \A j \in SubIds \ {i} :
              /\ sub'[j].user = sub[j].user
              /\ (sub'[j].status = "absent") <=> (sub[j].status = "absent")
              /\ (pay.psid = NoLink \/ sub[j].psid # pay.psid) => sub'[j].psid = sub[j].psid
              /\ (pay.psid # NoLink /\ sub[j].psid = pay.psid) =>
                   sub'[j].psid \in {NoLink, pay.psid}
<1> DEFINE known(j) == IF loaded[j].status # "absent" THEN loaded[j] ELSE sub[j]
           bought == IF sub[i].status = "absent" THEN NewRow(u, pay) ELSE Extended(known(i), pay)
<1>0. /\ sub \in [SubIds -> Row] /\ now \in Nat
      /\ \A s, l, v : /\ Flush(s, l, v).user = Net(s.user, l.user, v.user)
                      /\ Flush(s, l, v).status = Net(s.status, l.status, v.status)
                      /\ Flush(s, l, v).psid = Net(s.psid, l.psid, v.psid)
  BY DEF TypeInv, TypeOK, Flush
<1>1. NoRow.status = "absent" /\ "absent" \notin AccessHolding
  BY DEF NoRow, AccessHolding
<1>2. \A j \in SubIds : /\ known(j) \in Row /\ known(j).user = sub[j].user
                        /\ known(j).status = "absent" <=> sub[j].status = "absent"
                        /\ (pay.psid # NoLink /\ known(j).psid = pay.psid) => known(j) = sub[j]
  BY <1>0
<1>3. i \in SubIds /\ (sub[i].status = "absent" \/ sub[i].user = u)
  <2>1. CASE Current(rows, u) # {}
    <3>1. i \in SubIds /\ rows[i].user = u /\ HasAccess(rows[i], now)
      BY <2>1 DEF Target, Current
    <3>2. rows[i].status # "absent"
      BY <1>1, <3>1 DEF HasAccess
    <3> QED BY <3>1, <3>2
  <2>2. CASE Current(rows, u) = {}
    <3>1. Absent \in SUBSET Nat
      BY DEF Absent, SubIds
    <3>2. \E k \in Absent : \A j \in Absent : k <= j
      BY <3>1, LeastNumber
    <3>3. NextId \in Absent
      BY <3>2 DEF NextId
    <3> QED BY <2>2, <3>3 DEF Target, Absent
  <2> QED BY <2>1, <2>2
<1>4. /\ WithLink(bought, n).user = u /\ WithLink(bought, n).status # "absent"
      /\ sub[i].status # "absent" => WithLink(bought, n).status = known(i).status
      /\ WithLink(bought, n).psid = IF sub[i].status # "absent" /\ pay.psid = NoLink
                                    THEN known(i).psid ELSE pay.psid
  <2>1. \A r \in Row : WithLink(r, n).psid = r.psid
    BY DEF WithLink, Row
  <2>2. CASE sub[i].status = "absent"
    <3>1. bought = NewRow(u, pay)
      BY <2>2
    <3> HIDE DEF bought
    <3> QED BY <1>0, <2>1, <2>2, <3>1, NewRowIs, NewRowRow
  <2>3. CASE sub[i].status # "absent"
    <3>1. bought = Extended(known(i), pay) /\ known(i) \in Row /\ known(i).user = u
          /\ known(i).status # "absent"
      BY <1>2, <1>3, <2>3
    <3> DEFINE r == known(i)  x == Extended(r, pay)
    <3>2. r \in Row /\ r.user = u /\ r.status # "absent" /\ bought = x
      BY <3>1
    <3> HIDE DEF bought, r
    <3>3. /\ WithLink(x, n).user = r.user /\ WithLink(x, n).status = r.status
      BY <1>0, <3>2, ExtendedIs
    <3>4. x \in Row /\ x.psid = IF pay.psid = NoLink THEN r.psid ELSE pay.psid
      BY <1>0, <3>2, ExtendedRow
    <3>5. WithLink(x, n).psid = x.psid
      BY <2>1, <3>4
    <3> HIDE DEF x
    <3>6. /\ WithLink(bought, n).user = u /\ WithLink(bought, n).status = r.status
          /\ WithLink(bought, n).psid = IF pay.psid = NoLink THEN r.psid ELSE pay.psid
      BY <3>2, <3>3, <3>4, <3>5
    <3> QED BY <2>3, <3>2, <3>6 DEF r
  <2> QED BY <2>2, <2>3
<1>5. sub[i].status = "absent" => sub[i].psid = NoLink /\ known(i) = sub[i]
  BY <1>3 DEF Owned
<1>6. /\ sub'[i].status # "absent" /\ sub'[i].user = u
      /\ sub'[i].psid = IF pay.psid = NoLink THEN sub[i].psid ELSE pay.psid
  <2>1. sub'[i] = Flush(sub[i], known(i), WithLink(bought, n))
    BY <1>3 DEF Bought
  <2> DEFINE v == WithLink(bought, n)  l == known(i)
  <2>2. /\ sub'[i].user = Net(sub[i].user, l.user, v.user)
        /\ sub'[i].status = Net(sub[i].status, l.status, v.status)
        /\ sub'[i].psid = Net(sub[i].psid, l.psid, v.psid)
    BY <1>0, <2>1
  <2>3. l.user = sub[i].user /\ (l.status = "absent" <=> sub[i].status = "absent")
        /\ ((pay.psid # NoLink /\ l.psid = pay.psid) => l = sub[i])
    BY <1>2, <1>3
  <2> HIDE DEF v, l, bought
  <2> QED BY <1>3, <1>4, <1>5, <2>2, <2>3 DEF Net, v, l
<1>7. ASSUME NEW j \in SubIds \ {i}
      PROVE  /\ sub'[j].user = sub[j].user
             /\ (sub'[j].status = "absent") <=> (sub[j].status = "absent")
             /\ (pay.psid = NoLink \/ sub[j].psid # pay.psid) => sub'[j].psid = sub[j].psid
             /\ (pay.psid # NoLink /\ sub[j].psid = pay.psid) =>
                  sub'[j].psid \in {NoLink, pay.psid}
  <2>1. sub'[j] = IF pay.psid # NoLink /\ sub[j].psid = pay.psid
                  THEN Flush(sub[j], known(j), Released(known(j))) ELSE sub[j]
    BY DEF Bought
  <2> DEFINE l == known(j)  v == Released(l)
  <2>2. l \in Row
    BY <1>2
  <2> HIDE DEF l, known
  <2>3. v.user = l.user /\ v.status = l.status /\ v.psid = NoLink
    BY <2>2 DEF Released, Row
  <2> HIDE DEF v
  <2> QED BY <1>0, <2>1, <2>3 DEF Net, l, v
<1> QED BY <1>3, <1>6, <1>7

\* A purchase that ends: its row takes the id, the first invoice of that id is
\* no longer queued, and every other sale is as before.
LEMMA SaleBuys ==
  ASSUME SaleInv, ClaimInv', OneEach, NEW u \in Users, NEW pay \in Purchase,
         NEW loaded \in [SubIds -> Row], NEW n \in Nat,
         NEW rows, rows = loaded \/ rows = sub,
         \A j \in SubIds : loaded[j].status # "absent" =>
           /\ sub[j].status # "absent" /\ sub[j].user = loaded[j].user
           /\ pay.psid # NoLink => loaded[j].psid # pay.psid,
         Absent # {}, NEW i \in Target(rows, u),
         sub' = Bought(i, u, pay, loaded, n),
         UNCHANGED <<remote, job>>,
         \A w \in Workers : tx'[w] = tx[w] \/ tx'[w] = IdleTx,
         IsFiniteSet(Buyers'), Cardinality(Absent \ {i}) >= Cardinality(Buyers'),
         pay.psid # NoLink => u = Owner[pay.psid] /\ remote[pay.psid].status # "none",
         \A p \in PSids : IF p = pay.psid THEN ~Invoiced(p)' ELSE Invoiced(p)' <=> Invoiced(p)
  PROVE  SaleInv'
<1>0. /\ Owned /\ TypeInv /\ sub \in [SubIds -> Row] /\ pay.psid \in PSids \cup {NoLink}
      /\ NoLink \notin PSids
  BY RowAssumption DEF SaleInv, ClaimInv, TypeInv, TypeOK, Purchase
<1>1. /\ i \in SubIds /\ (sub[i].status = "absent" \/ sub[i].user = u)
      /\ sub'[i].status # "absent" /\ sub'[i].user = u
      /\ sub'[i].psid = IF pay.psid = NoLink THEN sub[i].psid ELSE pay.psid
      /\ \A j \in SubIds \ {i} :
           /\ sub'[j].user = sub[j].user
           /\ (sub'[j].status = "absent") <=> (sub[j].status = "absent")
           /\ (pay.psid = NoLink \/ sub[j].psid # pay.psid) => sub'[j].psid = sub[j].psid
           /\ (pay.psid # NoLink /\ sub[j].psid = pay.psid) =>
                sub'[j].psid \in {NoLink, pay.psid}
  BY <1>0, PurchaseBinds
<1>2. IdleTx.op = "idle" /\ \A j \in SubIds : IdleTx.loaded[j].status = "absent"
                            /\ IdleTx.loaded[j].psid = NoLink
  BY DEF IdleTx, NothingLoaded, NoRow
<1>3. \A j \in SubIds : sub[j].status # "absent" =>
        sub'[j].status # "absent" /\ sub'[j].user = sub[j].user
  BY <1>1
<1>4. Owned'
  <2>1. ASSUME NEW j \in SubIds, sub'[j].psid # NoLink
        PROVE  sub'[j].status # "absent" /\ sub'[j].user = Owner[sub'[j].psid]
    <3>1. CASE j = i /\ pay.psid # NoLink
      BY <1>1, <3>1
    <3>2. CASE j = i /\ pay.psid = NoLink
      BY <1>0, <1>1, <2>1, <3>2 DEF Owned
    <3>3. CASE j # i
      BY <1>0, <1>1, <2>1, <3>3 DEF Owned
    <3> QED BY <3>1, <3>2, <3>3
  <2> QED BY <2>1 DEF Owned
<1>5. LoadedStay'
  BY <1>2, <1>3 DEF SaleInv, LoadedStay
<1>6. JobKnows'
  <2>1. job.todo \subseteq SubIds /\ (job.stage = "record" => job.cur \in SubIds)
    BY <1>0 DEF TypeInv, TypeOK, IdsKnown, Job
  <2> QED BY <1>3, <2>1 DEF SaleInv, JobKnows
<1>7. Room'
  <2>1. Absent \ {i} \subseteq Absent' /\ IsFiniteSet(Absent')
    <3>1. IsFiniteSet(SubIds) /\ Absent' \subseteq SubIds
      BY LifecycleAssumption, FS_Interval DEF SubIds, Absent
    <3> QED BY <1>1, <3>1, FS_Subset DEF Absent
  <2>2. /\ Cardinality(Absent \ {i}) <= Cardinality(Absent')
        /\ Cardinality(Absent \ {i}) \in Nat /\ Cardinality(Absent') \in Nat
    BY <2>1, FS_Subset, FS_CardinalityType
  <2>3. Cardinality(Buyers') \in Nat
    BY FS_CardinalityType
  <2> QED BY <2>2, <2>3 DEF Room
<1>8. BuyersKnow'
  <2>1. \A w \in Buyers' : w \in Buyers /\ tx'[w] = tx[w]
    BY <1>2 DEF Buyers
  <2> QED BY <2>1 DEF SaleInv, BuyersKnow
<1>9. NotYet'
  <2>1. ASSUME NEW p \in PSids, p # pay.psid, Unclaimed(p) PROVE Unclaimed(p)'
    <3>1. \A j \in SubIds : sub'[j].psid # p
      BY <1>0, <1>1, <2>1 DEF Unclaimed
    <3> QED BY <1>0, <1>2, <2>1, <3>1 DEF Unclaimed
  <2>2. ASSUME NEW p \in PSids, remote'[p].status = "none" \/ Invoiced(p)'
        PROVE  p # pay.psid /\ (remote[p].status = "none" \/ Invoiced(p))
    BY <1>0, <2>2
  <2> QED BY <2>1, <2>2 DEF SaleInv, NotYet
<1>10. Sold'
  <2>1. ASSUME NEW p \in PSids, NEW j \in SubIds, sub[j].psid = p, p # pay.psid
        PROVE  sub'[j].psid = p
    <3>1. CASE j # i
      BY <1>1, <2>1, <3>1
    <3>2. CASE j = i /\ pay.psid = NoLink
      BY <1>1, <2>1, <3>2
    <3>3. CASE j = i /\ pay.psid # NoLink
      <4>1. sub[i].user = Owner[p] /\ sub[i].status # "absent"
        BY <1>0, <2>1, <3>3 DEF Owned
      <4>2. Owner[p] = Owner[pay.psid] /\ pay.psid \in PSids
        BY <1>0, <1>1, <3>3, <4>1
      <4> QED BY <2>1, <4>2 DEF OneEach
    <3> QED BY <3>1, <3>2, <3>3
  <2>2. ASSUME NEW p \in PSids, remote'[p].status # "none"
        PROVE  Invoiced(p)' \/ \E j \in SubIds : sub'[j].psid = p
    <3>1. CASE p = pay.psid
      BY <1>0, <1>1, <3>1
    <3>2. CASE p # pay.psid
      BY <2>1, <2>2, <3>2 DEF SaleInv, Sold
    <3> QED BY <3>1, <3>2
  <2> QED BY <2>2 DEF Sold
<1> QED BY <1>4, <1>5, <1>6, <1>7, <1>8, <1>9, <1>10 DEF SaleInv

\* Nothing is sold in the empty database.
LEMMA SaleInit == Init => SaleInv
<1> SUFFICES ASSUME Init PROVE SaleInv
  OBVIOUS
<1>1. /\ \A w \in Workers : tx[w] = IdleTx
      /\ \A i \in SubIds : sub[i] = NoRow
      /\ events = {} /\ job = IdleJob /\ \A p \in PSids : remote[p].status = "none"
  BY DEF Init
<1>2. /\ IdleTx.op = "idle" /\ IdleJob.todo = {} /\ IdleJob.stage = "pick"
      /\ NoRow.status = "absent" /\ NoRow.psid = NoLink
      /\ \A i \in SubIds : IdleTx.loaded[i] = NoRow
  BY DEF IdleTx, IdleJob, NoRow, NothingLoaded
<1>3. Room
  <2>1. Buyers = {}
    BY <1>1, <1>2 DEF Buyers
  <2>2. IsFiniteSet(Absent)
    <3>1. IsFiniteSet(SubIds) /\ Absent \subseteq SubIds
      BY LifecycleAssumption, FS_Interval DEF SubIds, Absent
    <3> QED BY <3>1, FS_Subset
  <2>3. Cardinality(Absent) \in Nat
    BY <2>2, FS_CardinalityType
  <2>4. IsFiniteSet(Buyers) /\ Cardinality(Buyers) = 0
    BY <2>1, FS_EmptySet
  <2> QED BY <2>3, <2>4 DEF Room
<1>4. Owned /\ LoadedStay /\ JobKnows
  BY <1>1, <1>2 DEF Owned, LoadedStay, JobKnows
<1>5. BuyersKnow /\ NotYet /\ Sold
  BY <1>1, <1>2, RowAssumption DEF BuyersKnow, Buyers, NotYet, Unclaimed, Sold
<1> QED BY <1>3, <1>4, <1>5, ClaimInit DEF SaleInv

\* The clock, the member and Stripe: a checkout is invoiced.
LEMMA SaleOutside ==
  ASSUME SaleInv, ClaimInv',
         UNCHANGED vars \/ Tick \/ (\E l \in live : Join(l)) \/ StripeStep
  PROVE  SaleInv'
<1>1. UNCHANGED <<sub, tx, job>>
  BY DEF vars, Tick, Join, StripeStep, Checkout, RemoteRenew, RemoteRenewFails,
     RemoteRecovers, RemoteCancel, RemoteStep
<1>2. SameRows /\ JobKnows'
  BY <1>1 DEF SaleInv, JobKnows, SameRows
<1>3. ASSUME NEW p \in PSids
      PROVE  /\ remote'[p].status = "none" \/ Invoiced(p)'
                => remote[p].status = "none" \/ Invoiced(p)
             /\ remote'[p].status # "none"
                => Invoiced(p)' \/ (remote[p].status # "none" /\ ~Invoiced(p))
  <2>1. CASE UNCHANGED vars \/ Tick \/ \E l \in live : Join(l)
    BY <2>1 DEF vars, Tick, Join, Invoiced
  <2>2. ASSUME NEW q \in PSids, NEW status \in {"active", "past_due", "canceled"},
               NEW end, NEW sent, RemoteStep(q, status, end, sent),
               \/ sent = {"first_invoice"} /\ remote[q].status = "none"
               \/ "first_invoice" \notin sent /\ remote[q].status # "none"
        PROVE  /\ remote'[p].status = "none" \/ Invoiced(p)'
                  => remote[p].status = "none" \/ Invoiced(p)
               /\ remote'[p].status # "none"
                  => Invoiced(p)' \/ (remote[p].status # "none" /\ ~Invoiced(p))
    <3> DEFINE new(t) == [type |-> t, psid |-> q, end |-> end, status |-> status]
    <3>1. /\ remote' = [remote EXCEPT ![q] = [end |-> end, status |-> status]]
          /\ events' = events \cup {new(t) : t \in sent}
          /\ remote \in [PSids -> Remote]
      BY <2>2 DEF RemoteStep, SaleInv, ClaimInv, TypeInv, TypeOK
    <3>2. \A e \in events' : e \in events \/ (e.psid = q /\ e.type \in sent)
      BY <3>1
    <3>3. Invoiced(p) => Invoiced(p)'
      BY <3>1 DEF Invoiced
    <3>4. CASE p # q
      <4>1. remote'[p] = remote[p]
        BY <3>1, <3>4
      <4>2. Invoiced(p)' => Invoiced(p)
        BY <3>2, <3>4 DEF Invoiced
      <4> QED BY <3>3, <4>1, <4>2
    <3>5. CASE p = q /\ "first_invoice" \notin sent
      <4>1. Invoiced(p)' => Invoiced(p)
        BY <3>2, <3>5 DEF Invoiced
      <4>2. remote'[p].status # "none" /\ remote[p].status # "none"
        BY <2>2, <3>1, <3>5
      <4> QED BY <3>3, <4>1, <4>2
    <3>6. CASE p = q /\ sent = {"first_invoice"} /\ remote[q].status = "none"
      <4>1. new("first_invoice") \in events'
        BY <3>1, <3>6
      <4>2. Invoiced(p)'
        BY <3>6, <4>1 DEF Invoiced
      <4> QED BY <3>6, <4>2
    <3> QED BY <2>2, <3>4, <3>5, <3>6
  <2>3. CASE StripeStep
    <3>1. PICK q \in PSids : \/ Checkout(q) \/ RemoteRenew(q)
                             \/ RemoteRenewFails(q) \/ RemoteRecovers(q)
                             \/ RemoteCancel(q)
      BY <2>3 DEF StripeStep
    <3>2. CASE Checkout(q)
      BY <3>2, <2>2 DEF Checkout
    <3>3. CASE RemoteRenew(q) \/ RemoteRenewFails(q)
      BY <3>3, <2>2 DEF RemoteRenew, RemoteRenewFails, RemoteDue
    <3>4. CASE RemoteRecovers(q)
      BY <3>4, <2>2 DEF RemoteRecovers
    <3>5. CASE RemoteCancel(q)
      BY <3>5, <2>2 DEF RemoteCancel
    <3> QED BY <3>1, <3>2, <3>3, <3>4, <3>5
  <2> QED BY <2>1, <2>3
<1> QED BY <1>1, <1>2, <1>3, SaleStays

\* A webhook: a renewal is a purchase, the others write no id.
LEMMA SaleEvent ==
  ASSUME SaleInv, ClaimInv', NothingLost, OneEach, EventStep
  PROVE  SaleInv'
<1>0. /\ TypeInv /\ EventsSound /\ sub \in [SubIds -> Row] /\ now \in Nat
      /\ events \subseteq Event
  BY DEF SaleInv, ClaimInv, TypeInv, TypeOK
<1>1. PICK e \in events : \/ DeliverRenewal(e) \/ DeliverPaymentFailed(e)
                          \/ DeliverSubscription(e)
  BY <1>0 DEF EventStep, LoseAcknowledged, NothingLost, TypeInv, TypeOK, Counters
<1>2. /\ e \in Event /\ events' = events \ {e} /\ e.type # "first_invoice"
      /\ UNCHANGED <<remote, job, tx>>
  BY <1>0, <1>1 DEF DeliverRenewal, DeliverPaymentFailed, DeliverSubscription, Deliver
<1>3. \A p \in PSids : Invoiced(p)' <=> Invoiced(p)
  BY <1>2 DEF Invoiced
<1>4. CASE DeliverPaymentFailed(e) \/ DeliverSubscription(e)
  <2>1. ASSUME NEW i \in SubIds
        PROVE  /\ sub'[i].psid = sub[i].psid /\ sub'[i].user = sub[i].user
               /\ (sub'[i].status = "absent") <=> (sub[i].status = "absent")
    <3>1. sub[i].status = "absent" => sub[i].psid = NoLink
      BY DEF SaleInv, Owned
    <3>2. CASE DeliverPaymentFailed(e)
      <4>1. sub'[i] = sub[i] \/ sub'[i] = StartGrace(sub[i], now)
        BY <3>2 DEF DeliverPaymentFailed
      <4>2. /\ StartGrace(sub[i], now).user = sub[i].user
            /\ StartGrace(sub[i], now).status = sub[i].status
        BY <1>0 DEF StartGrace, Row
      <4> QED BY <1>0, <4>1, <4>2, GraceRow
    <3>3. CASE DeliverSubscription(e)
      <4>1. \/ sub'[i] = sub[i]
            \/ sub'[i] = SubscriptionEvent(sub[i], e) /\ sub[i].psid = e.psid
        BY <3>3 DEF DeliverSubscription, StripeRows
      <4>2. e.psid # NoLink
        BY <1>2, RowAssumption DEF Event
      <4>3. /\ SubscriptionEvent(sub[i], e).user = sub[i].user
            /\ SubscriptionEvent(sub[i], e).status \in {"cancelled", "active", sub[i].status}
        BY <1>0 DEF SubscriptionEvent, Row
      <4> QED BY <1>0, <1>2, <3>1, <4>1, <4>2, <4>3, SubscriptionEventRow
    <3> QED BY <1>4, <3>2, <3>3
  <2>2. SameRows
    BY <2>1 DEF SameRows
  <2>3. JobKnows'
    <3>1. job.todo \subseteq SubIds /\ (job.stage = "record" => job.cur \in SubIds)
      BY <1>0 DEF TypeInv, TypeOK, IdsKnown, Job
    <3> QED BY <1>2, <2>2, <3>1 DEF SaleInv, JobKnows, SameRows
  <2>4. \A p \in PSids :
           /\ remote'[p].status = "none" \/ Invoiced(p)'
              => remote[p].status = "none" \/ Invoiced(p)
           /\ remote'[p].status # "none"
              => Invoiced(p)' \/ (remote[p].status # "none" /\ ~Invoiced(p))
    BY <1>2, <1>3
  <2> QED BY <1>2, <2>2, <2>3, <2>4, SaleStays
<1>5. CASE DeliverRenewal(e)
  <2> DEFINE u == Owner[e.psid]  pay == StripePurchase(e.psid, e.end)
  <2>1. u \in Users /\ pay \in Purchase /\ pay.psid = e.psid /\ pay.psid \in PSids
    BY <1>2, LifecycleAssumption DEF Event, StripePurchase, Purchase, Sources,
       ProviderStatuses, Time
  <2>2. PICK i \in Target(sub, u) : sub' = Bought(i, u, pay, NothingLoaded, 0)
    BY <1>5 DEF DeliverRenewal
  <2>3. \A j \in SubIds : NothingLoaded[j].status = "absent"
    BY DEF NothingLoaded, NoRow
  <2>4. IsFiniteSet(Absent)
    <3>1. IsFiniteSet(SubIds) /\ Absent \subseteq SubIds
      BY LifecycleAssumption, FS_Interval DEF SubIds, Absent
    <3> QED BY <3>1, FS_Subset
  <2>5. /\ Buyers' = Buyers /\ IsFiniteSet(Buyers) /\ Cardinality(Buyers) \in Nat
        /\ Cardinality(Absent) >= 1 + Cardinality(Buyers)
    BY <1>2, <1>5, FS_CardinalityType DEF SaleInv, Room, Buyers, DeliverRenewal, RoomFor
  <2>6. Absent # {} /\ Cardinality(Absent \ {i}) >= Cardinality(Buyers)
    BY <2>4, <2>5, TakesOne
  <2>7. remote[e.psid].status # "none" /\ ~Invoiced(e.psid)
    BY <1>0, <1>5 DEF EventsSound, Invoiced, DeliverRenewal, Deliver
  <2> HIDE DEF u, pay
  <2>8. \A p \in PSids :
          IF p = pay.psid THEN ~Invoiced(p)' ELSE Invoiced(p)' <=> Invoiced(p)
    BY <1>3, <2>1, <2>7
  <2>9. u = Owner[pay.psid]
    BY <2>1 DEF u
  <2> QED BY <1>2, <2>1, <2>2, <2>3, <2>5, <2>6, <2>7, <2>8, <2>9, NothingTyped, SaleBuys
<1> QED BY <1>1, <1>4, <1>5

\* A handler that starts; none dies.
LEMMA SaleHandler ==
  ASSUME SaleInv, ClaimInv', NothingLost, HandlerStep
  PROVE  SaleInv'
<1>0. TypeInv /\ events \subseteq Event
  BY DEF SaleInv, ClaimInv, TypeInv, TypeOK
<1>1. ASSUME NEW w \in Workers, NEW u, NEW pay, NEW e, NEW bought,
             BeginPurchase(w, u, pay, e, bought), UNCHANGED events,
             IF pay.psid = NoLink THEN e = NoEvent ELSE u = Owner[pay.psid]
      PROVE  SaleInv'
  <2>1. PICK n : Begin(w, [IdleTx EXCEPT !.op = "purchase", !.user = u, !.pay = pay,
                             !.loaded = Load(OpenRows(u)), !.event = e, !.link = n])
    BY <1>1 DEF BeginPurchase
  <2> DEFINE record == [IdleTx EXCEPT !.op = "purchase", !.user = u, !.pay = pay,
                          !.loaded = Load(OpenRows(u)), !.event = e, !.link = n]
  <2>2. /\ record.loaded = Load(OpenRows(u)) /\ record.pay = pay /\ record.user = u
        /\ record.event = e
    BY DEF IdleTx
  <2>3. tx' = [tx EXCEPT ![w] = record] /\ UNCHANGED <<sub, remote, events, job>>
        /\ tx[w].op = "idle" /\ RoomFor(1)
    BY <1>1, <2>1 DEF Begin, Idle, BeginPurchase
  <2> HIDE DEF record
  <2> QED BY <1>1, <2>2, <2>3, SaleBegins
<1>2. ASSUME NEW w \in Workers, NEW op \in {"ban", "refund"}, NEW u, NEW ids,
             BeginRemoval(w, op, u, ids)
      PROVE  SaleInv'
  <2> DEFINE record(a) == [IdleTx EXCEPT !.op = op, !.user = u, !.loaded = Load(ids), !.was = banned[u],
                                         !.answer = a]
  <2>1. PICK a : Begin(w, record(a))
    BY <1>2 DEF BeginRemoval
  <2>2. record(a).op # "purchase" /\ record(a).loaded = Load(ids)
    BY DEF IdleTx
  <2>3. tx' = [tx EXCEPT ![w] = record(a)] /\ UNCHANGED <<sub, remote, events, job>>
        /\ tx[w].op = "idle"
    BY <2>1 DEF Begin, Idle
  <2> HIDE DEF record
  <2> QED BY <2>2, <2>3, SaleBegins
<1>3. ASSUME NEW w \in Workers, NEW u \in Users, BeginUnban(w, u)
      PROVE  SaleInv'
  <2> DEFINE record(n) == [IdleTx EXCEPT !.op = "unban", !.user = u,
                                         !.loaded = Load(BanRevoked(u)), !.was = banned[u], !.link = n]
  <2>1. PICK n : Begin(w, record(n))
    BY <1>3 DEF BeginUnban
  <2>2. record(n).op # "purchase" /\ record(n).loaded = Load(BanRevoked(u))
    BY DEF IdleTx
  <2>3. tx' = [tx EXCEPT ![w] = record(n)] /\ UNCHANGED <<sub, remote, events, job>>
        /\ tx[w].op = "idle"
    BY <2>1 DEF Begin, Idle
  <2> HIDE DEF record
  <2> QED BY <2>2, <2>3, SaleBegins
<1>4. ASSUME NEW w \in Workers, NEW e \in events, BeginFirstInvoice(w, e)
      PROVE  SaleInv'
  <2>1. StripePurchase(e.psid, e.end).psid = e.psid /\ e.psid # NoLink
    BY <1>0, RowAssumption DEF StripePurchase, Event
  <2>2. BeginPurchase(w, Owner[e.psid], StripePurchase(e.psid, e.end), e, 0)
    BY <1>4 DEF BeginFirstInvoice
  <2>3. UNCHANGED events
    BY <2>2 DEF BeginPurchase, Begin
  <2> QED BY <1>1, <2>1, <2>2, <2>3
<1>5. ASSUME NEW w \in Workers, NEW u \in Users, BeginUsdt(w, u) \/ BeginGift(w, u)
      PROVE  SaleInv'
  <2>1. UsdtPurchase.psid = NoLink /\ GiftPurchase.psid = NoLink
    BY DEF UsdtPurchase, GiftPurchase
  <2>2. UNCHANGED events
    BY <1>5 DEF BeginUsdt, BeginGift, BeginPurchase, Begin
  <2> QED BY <1>1, <1>5, <2>1, <2>2 DEF BeginUsdt, BeginGift
<1>6. \A w \in Workers : ~CrashHandler(w)
  BY <1>0 DEF CrashHandler, NothingLost, TypeInv, TypeOK, Counters
<1> QED BY <1>2, <1>3, <1>4, <1>5, <1>6 DEF HandlerStep, BeginBan, BeginRefund

\* A row written from one that was loaded keeps its member and its presence.
LEMMA WrittenStays ==
  ASSUME NEW s \in Row, NEW l \in Row, NEW v \in Row, s.status # "absent",
         v.user = l.user, v.psid = l.psid, v.status \in {l.status, "expired", "cancelled"}
  PROVE  LET new == Flush(s, l, v)
         IN  new.user = s.user /\ new.psid = s.psid /\ new.status # "absent"
<1>1. /\ Flush(s, l, v).user = Net(s.user, l.user, v.user)
      /\ Flush(s, l, v).status = Net(s.status, l.status, v.status)
      /\ Flush(s, l, v).psid = Net(s.psid, l.psid, v.psid)
  BY DEF Flush
<1> QED BY <1>1 DEF Net

\* A ban, an unban or a refund that ends writes no id.
LEMMA SaleWrites ==
  ASSUME SaleInv, ClaimInv', NEW w \in Workers, tx[w].op # "purchase", UNCHANGED events,
         NEW written, CommitRows(w, written),
         \A i \in SubIds :
           /\ written[i] \in Row /\ written[i].user = tx[w].loaded[i].user
           /\ written[i].psid = tx[w].loaded[i].psid
           /\ written[i].status \in {tx[w].loaded[i].status, "expired", "cancelled"}
  PROVE  SaleInv'
<1>0. /\ TypeInv /\ sub \in [SubIds -> Row] /\ tx \in [Workers -> Tx]
      /\ tx[w].loaded \in [SubIds -> Row]
  BY DEF SaleInv, ClaimInv, TypeInv, TypeOK, Tx
<1>1. UNCHANGED <<remote, job>> /\ tx' = [tx EXCEPT ![w] = IdleTx]
  BY DEF CommitRows
<1>2. ASSUME NEW i \in SubIds
      PROVE  /\ sub'[i].psid = sub[i].psid /\ sub'[i].user = sub[i].user
             /\ (sub'[i].status = "absent") <=> (sub[i].status = "absent")
  <2>1. CASE tx[w].loaded[i].status = "absent"
    BY <2>1 DEF CommitRows, LoadedIn
  <2>2. CASE tx[w].loaded[i].status # "absent"
    <3>1. sub'[i] = Flush(sub[i], tx[w].loaded[i], written[i])
      BY <2>2 DEF CommitRows, LoadedIn
    <3>2. sub[i].status # "absent"
      BY <2>2 DEF SaleInv, LoadedStay
    <3> QED BY <1>0, <3>1, <3>2, WrittenStays
  <2> QED BY <2>1, <2>2
<1>3. SameRows
  BY <1>2 DEF SameRows
<1>4. JobKnows'
  <2>1. job.todo \subseteq SubIds /\ (job.stage = "record" => job.cur \in SubIds)
    BY <1>0 DEF TypeInv, TypeOK, IdsKnown, Job
  <2> QED BY <1>1, <1>3, <2>1 DEF SaleInv, JobKnows, SameRows
<1>5. \A v \in Workers : tx'[v] = tx[v] \/ (tx'[v] = IdleTx /\ tx[v].op # "purchase")
  BY <1>0, <1>1
<1>6. \A p \in PSids :
         /\ remote'[p].status = "none" \/ Invoiced(p)'
            => remote[p].status = "none" \/ Invoiced(p)
         /\ remote'[p].status # "none"
            => Invoiced(p)' \/ (remote[p].status # "none" /\ ~Invoiced(p))
  BY <1>1 DEF Invoiced
<1> QED BY <1>3, <1>4, <1>5, <1>6, SaleStays

\* A purchase that ends binds what it was paid for.
LEMMA SaleCommit ==
  ASSUME SaleInv, ClaimInv', OneEach, NEW w \in Workers, CommitPurchase(w)
  PROVE  SaleInv'
<1> DEFINE u == tx[w].user  pay == tx[w].pay  loaded == tx[w].loaded  n == tx[w].link
<1>0. /\ TypeInv /\ EventsSound /\ TxSound /\ tx \in [Workers -> Tx] /\ tx[w].op = "purchase"
      /\ w \in Buyers
  BY DEF SaleInv, ClaimInv, TypeInv, TypeOK, CommitPurchase, Buyers
<1>1. u \in Users /\ pay \in Purchase /\ loaded \in [SubIds -> Row] /\ n \in Nat
  BY <1>0 DEF TypeInv, IdsKnown, Tx
<1>2. PICK i \in Target(loaded, u) : sub' = Bought(i, u, pay, loaded, n)
  BY DEF CommitPurchase
<1>3. /\ UNCHANGED <<remote, job>> /\ events' = events \ {tx[w].event}
      /\ tx' = [tx EXCEPT ![w] = IdleTx]
  BY DEF CommitPurchase
<1>4. pay.psid # NoLink =>
        /\ tx[w].event \in events /\ tx[w].event.type = "first_invoice"
        /\ tx[w].event.psid = pay.psid
        /\ pay.psid \in PSids /\ Invoiced(pay.psid) /\ Unclaimed(pay.psid)
        /\ u = Owner[pay.psid] /\ remote[pay.psid].status # "none"
  <2> SUFFICES ASSUME pay.psid # NoLink
               PROVE  /\ tx[w].event \in events /\ tx[w].event.type = "first_invoice"
                      /\ tx[w].event.psid = pay.psid
                      /\ pay.psid \in PSids /\ Invoiced(pay.psid) /\ Unclaimed(pay.psid)
                      /\ u = Owner[pay.psid] /\ remote[pay.psid].status # "none"
    OBVIOUS
  <2>1. /\ tx[w].event \in events /\ tx[w].event.type = "first_invoice"
        /\ tx[w].event.psid = pay.psid
    BY <1>0 DEF TxSound, Binds
  <2>2. pay.psid \in PSids /\ Invoiced(pay.psid) /\ remote[pay.psid].status # "none"
    BY <1>0, <1>1, <2>1 DEF Purchase, Invoiced, EventsSound
  <2>3. Unclaimed(pay.psid)
    BY <2>2 DEF SaleInv, NotYet
  <2>4. u = Owner[pay.psid]
    BY <1>0 DEF SaleInv, BuyersKnow
  <2> QED BY <2>1, <2>2, <2>3, <2>4
<1>5. \A j \in SubIds : loaded[j].status # "absent" =>
        /\ sub[j].status # "absent" /\ sub[j].user = loaded[j].user
        /\ pay.psid # NoLink => loaded[j].psid # pay.psid
  BY <1>4 DEF SaleInv, LoadedStay, Unclaimed
<1>6. /\ IsFiniteSet(Buyers') /\ Cardinality(Buyers') \in Nat
      /\ Absent # {} /\ Cardinality(Absent \ {i}) >= Cardinality(Buyers')
  <2>1. Buyers' = Buyers \ {w}
    BY <1>0, <1>3 DEF Buyers, IdleTx
  <2>2. /\ IsFiniteSet(Buyers') /\ Cardinality(Buyers') = Cardinality(Buyers) - 1
        /\ Cardinality(Buyers') \in Nat /\ Cardinality(Buyers) \in Nat
    BY <1>0, <2>1, FS_RemoveElement, FS_CardinalityType DEF SaleInv, Room
  <2>3. IsFiniteSet(Absent)
    <3>1. IsFiniteSet(SubIds) /\ Absent \subseteq SubIds
      BY LifecycleAssumption, FS_Interval DEF SubIds, Absent
    <3> QED BY <3>1, FS_Subset
  <2>4. Cardinality(Absent) \in Nat /\ Cardinality(Absent) >= 1 + Cardinality(Buyers')
    BY <2>2, <2>3, FS_CardinalityType DEF SaleInv, Room
  <2>5. Absent # {} /\ Cardinality(Absent \ {i}) >= Cardinality(Buyers')
    <3> DEFINE k == Cardinality(Buyers')
    <3>1. k \in Nat /\ Cardinality(Absent) >= 1 + k
      BY <2>2, <2>4
    <3> HIDE DEF k
    <3>2. Absent # {} /\ Cardinality(Absent \ {i}) >= k
      BY <2>3, <3>1, TakesOne
    <3> QED BY <3>2 DEF k
  <2> QED BY <2>2, <2>5
<1>7. ASSUME NEW p \in PSids
      PROVE  IF p = pay.psid THEN ~Invoiced(p)' ELSE Invoiced(p)' <=> Invoiced(p)
  <2>1. CASE p = pay.psid
    <3>1. \A f \in events : (f.type = "first_invoice" /\ f.psid = p) => f = tx[w].event
      BY <1>0, <1>4, <2>1, RowAssumption DEF EventsSound
    <3> QED BY <1>3, <2>1, <3>1 DEF Invoiced
  <2>2. CASE p # pay.psid
    <3>1. tx[w].event = NoEvent \/ tx[w].event.psid = pay.psid
      BY <1>0, <1>4 DEF SaleInv, BuyersKnow
    <3>2. \A f \in events : (f.type = "first_invoice" /\ f.psid = p) => f # tx[w].event
      BY <2>2, <3>1 DEF NoEvent
    <3> QED BY <1>3, <2>2, <3>2 DEF Invoiced
  <2> QED BY <2>1, <2>2
<1>8. \A v \in Workers : tx'[v] = tx[v] \/ tx'[v] = IdleTx
  BY <1>0, <1>3
<1>9. pay.psid # NoLink => u = Owner[pay.psid] /\ remote[pay.psid].status # "none"
  BY <1>4
<1> HIDE DEF u, pay, loaded, n
<1> QED BY <1>1, <1>2, <1>3, <1>5, <1>6, <1>7, <1>8, <1>9, SaleBuys

\* An attempt to remove a member keeps the row's member, id and presence.
LEMMA AttemptStays ==
  ASSUME NEW r \in Row, NEW o, NEW m \in BOOLEAN, NEW p \in BOOLEAN, now \in Nat
  PROVE  LET new == RecordAttempt(r, now, o, m, p)
         IN  /\ new \in Row /\ new.psid = r.psid /\ new.user = r.user
             /\ new.status \in {r.status, "expired"}
BY RecordAttemptRow, RecordAttemptKeeps

\* What the other three commits write over a row they loaded.
LEMMA SaleRestored ==
  ASSUME SaleInv, ClaimInv', NEW w \in Workers,
         CommitBan(w) \/ CommitUnban(w) \/ CommitRefund(w)
  PROVE  SaleInv'
<1>0. /\ now \in Nat /\ tx[w].loaded \in [SubIds -> Row] /\ tx[w].link \in Nat
      /\ MaxSubs \in Nat
  BY LifecycleAssumption DEF SaleInv, ClaimInv, TypeInv, TypeOK, Tx
<1>1. CASE CommitBan(w)
  <2> DEFINE written == [i \in SubIds |->
               RecordAttempt(tx[w].loaded[i], now, tx[w].answer[i], FALSE, FALSE)]
  <2>1. ASSUME NEW i \in SubIds
        PROVE  /\ written[i] \in Row /\ written[i].user = tx[w].loaded[i].user
               /\ written[i].psid = tx[w].loaded[i].psid
               /\ written[i].status \in {tx[w].loaded[i].status, "expired", "cancelled"}
    <3> DEFINE l == tx[w].loaded[i]  a == tx[w].answer[i]
    <3>1. l \in Row
      BY <1>0
    <3> HIDE DEF l, a
    <3> DEFINE m == FALSE
    <3>2. m \in BOOLEAN
      OBVIOUS
    <3> HIDE DEF m
    <3>3. LET new == RecordAttempt(l, now, a, m, m)
          IN  /\ new \in Row /\ new.psid = l.psid /\ new.user = l.user
              /\ new.status \in {l.status, "expired"}
      BY <1>0, <3>1, <3>2, AttemptStays
    <3>4. written[i] = RecordAttempt(l, now, a, m, m)
      BY DEF l, a, m
    <3> QED BY <3>3, <3>4 DEF l
  <2>2. CommitRows(w, written) /\ tx[w].op # "purchase" /\ UNCHANGED events
    BY <1>1 DEF CommitBan, CommitRows
  <2> HIDE DEF written
  <2> QED BY <2>1, <2>2, SaleWrites
<1>2. CASE CommitUnban(w)
  <2> DEFINE number(i) == IF tx[w].link = 0 THEN 0 ELSE tx[w].link + i
             written == [i \in SubIds |-> Restored(tx[w].loaded[i], number(i))]
  <2>1. ASSUME NEW i \in SubIds
        PROVE  /\ written[i] \in Row /\ written[i].user = tx[w].loaded[i].user
               /\ written[i].psid = tx[w].loaded[i].psid
               /\ written[i].status \in {tx[w].loaded[i].status, "expired", "cancelled"}
    <3> DEFINE l == tx[w].loaded[i]  k == number(i)
    <3>1. l \in Row /\ k \in Nat
      BY <1>0 DEF SubIds
    <3>2. written[i] = Restored(l, k)
      OBVIOUS
    <3> HIDE DEF l, k, written
    <3>3. Restored(l, k) \in Row /\ Restored(l, k).psid = l.psid
          /\ Restored(l, k).user = l.user /\ Restored(l, k).status = l.status
      BY <1>0, <3>1, RestoredRow, RestoredKeeps
    <3> QED BY <3>2, <3>3 DEF l
  <2>2. CommitRows(w, written) /\ tx[w].op # "purchase" /\ UNCHANGED events
    BY <1>2 DEF CommitUnban, CommitRows
  <2> HIDE DEF written
  <2> QED BY <2>1, <2>2, SaleWrites
<1>3. CASE CommitRefund(w)
  <2> DEFINE written == [i \in SubIds |->
               RecordAttempt(EndForRefund(tx[w].loaded[i], now), now, tx[w].answer[i],
                             TRUE, FALSE)]
  <2>1. ASSUME NEW i \in SubIds
        PROVE  /\ written[i] \in Row /\ written[i].user = tx[w].loaded[i].user
               /\ written[i].psid = tx[w].loaded[i].psid
               /\ written[i].status \in {tx[w].loaded[i].status, "expired", "cancelled"}
    <3> DEFINE l == tx[w].loaded[i]  a == tx[w].answer[i]  x == EndForRefund(l, now)
    <3>1. l \in Row
      BY <1>0
    <3> DEFINE m == TRUE  p == FALSE
    <3>2. m \in BOOLEAN /\ p \in BOOLEAN /\ written[i] = RecordAttempt(x, now, a, m, p)
      OBVIOUS
    <3> HIDE DEF l, a, m, p, written
    <3>3. x \in Row /\ x.psid = l.psid /\ x.user = l.user /\ x.status = "cancelled"
      BY <1>0, <3>1, RefundRow, RefundKeeps
    <3> HIDE DEF x
    <3>4. LET new == RecordAttempt(x, now, a, m, p)
          IN  /\ new \in Row /\ new.psid = x.psid /\ new.user = x.user
              /\ new.status \in {x.status, "expired"}
      BY <1>0, <3>2, <3>3, AttemptStays
    <3> QED BY <3>2, <3>3, <3>4 DEF l
  <2>2. CommitRows(w, written) /\ tx[w].op # "purchase" /\ UNCHANGED events
    BY <1>3 DEF CommitRefund, CommitRows
  <2> HIDE DEF written
  <2> QED BY <2>1, <2>2, SaleWrites
<1> QED BY <1>1, <1>2, <1>3

\* The panel and the removal job.
LEMMA SaleRest ==
  ASSUME SaleInv, ClaimInv', PanelStep \/ JobStep \/ JobRecordFails \/ CrashBot
  PROVE  SaleInv'
<1>0. /\ TypeInv /\ sub \in [SubIds -> Row] /\ now \in Nat /\ job \in Job
      /\ job.stage # "pick" => job.cur \in SubIds
      /\ JobKnows
  BY DEF SaleInv, ClaimInv, TypeInv, TypeOK, IdsKnown
<1>1. UNCHANGED <<tx, events, remote>>
  BY DEF PanelStep, ExtendDays, SetComp, JobStep, JobStart, JobRevoke, JobRecord,
     JobAlert, JobDrain, JobFinish, JobRecordFails, CrashBot, JobOnly
<1>2. SameRows
  <2>1. CASE PanelStep
    BY <2>1, <1>0 DEF PanelStep, ExtendDays, SetComp, Row, SameRows
  <2>2. CASE JobRecord
    <3> DEFINE i == job.cur  l == job.loaded[i]  expiring == job.phase = "expiry"
               permanent == job.answer = "never"  a == job.answer
               x == RecordAttempt(l, now, a, expiring, permanent)
    <3>1. i \in SubIds /\ sub[i].status # "absent" /\ sub' = [sub EXCEPT ![i] = Flush(@, l, x)]
      BY <1>0, <2>2 DEF JobRecord, JobKnows
    <3>2. l \in Row /\ expiring \in BOOLEAN /\ permanent \in BOOLEAN
      BY <1>0, <3>1 DEF Job
    <3> HIDE DEF l, a, expiring, permanent
    <3>3. x \in Row /\ x.psid = l.psid /\ x.user = l.user /\ x.status \in {l.status, "expired"}
      BY <1>0, <3>2, AttemptStays
    <3> HIDE DEF x, i
    <3>4. /\ Flush(sub[i], l, x).user = sub[i].user /\ Flush(sub[i], l, x).psid = sub[i].psid
          /\ Flush(sub[i], l, x).status # "absent"
      BY <1>0, <3>1, <3>2, <3>3, WrittenStays
    <3> QED BY <1>0, <3>1, <3>4 DEF SameRows
  <2>3. CASE ~PanelStep /\ ~JobRecord
    <3>1. sub' = sub
      BY <2>3 DEF JobStep, JobStart, JobRevoke, JobAlert, JobDrain, JobFinish,
         JobRecordFails, CrashBot
    <3> QED BY <3>1 DEF SameRows
  <2> QED BY <2>1, <2>2, <2>3
<1>3. JobKnows'
  <2>0. /\ job.todo \subseteq SubIds
        /\ \A i \in SubIds : sub[i].status # "absent" => sub'[i].status # "absent"
    BY <1>0, <1>2 DEF Job, SameRows
  <2>1. CASE PanelStep
    BY <1>0, <2>0, <2>1 DEF PanelStep, ExtendDays, SetComp, JobKnows
  <2>2. CASE JobRecord \/ JobAlert
    <3>1. job'.todo = job.todo /\ job'.stage # "record"
      BY <1>0, <2>2 DEF JobRecord, JobAlert, Job
    <3> QED BY <1>0, <2>0, <3>1 DEF JobKnows
  <2>3. CASE JobRevoke
    <3>1. PICK i \in NextInBatch : \E a : job' =
            [job EXCEPT !.stage = "record", !.todo = @ \ {i}, !.seen = @ \cup {i},
                        !.cur = i, !.answer = a]
      BY <2>3 DEF JobRevoke
    <3>2. i \in job.todo /\ job'.todo = job.todo \ {i} /\ job'.cur = i
      BY <1>0, <3>1 DEF NextInBatch, Job
    <3> QED BY <1>0, <2>0, <3>2 DEF JobKnows
  <2>4. CASE JobStart
    <3>1. job'.todo = DueNow /\ job'.stage = "pick"
      BY <2>4 DEF JobStart, IdleJob
    <3>2. \A i \in DueNow : i \in SubIds /\ sub[i].status # "absent"
      BY DEF DueNow, DueForExpiry, ShouldRevoke, AccessHolding
    <3> QED BY <2>0, <3>1, <3>2 DEF JobKnows
  <2>5. CASE JobDrain
    <3>1. job'.todo = BanPending \ job.seen /\ job'.stage = "pick"
      BY <1>0, <2>5 DEF JobDrain, Job
    <3>2. \A i \in BanPending : i \in SubIds /\ sub[i].status # "absent"
      BY DEF BanPending
    <3> QED BY <2>0, <3>1, <3>2 DEF JobKnows
  <2>6. CASE JobFinish \/ CrashBot \/ JobRecordFails
    <3>1. job'.todo = {} /\ job'.stage = "pick"
      <4>1. IdleJob.todo = {} /\ IdleJob.stage = "pick"
        BY DEF IdleJob
      <4>2. CASE JobFinish \/ CrashBot
        BY <4>1, <4>2 DEF JobFinish, CrashBot
      <4>3. CASE JobRecordFails
        <5>1. \/ job' = IdleJob
              \/ /\ job.todo = {}
                 /\ job' = [job EXCEPT !.stage = "pick", !.cur = 0, !.answer = "none"]
          BY <4>3 DEF JobRecordFails
        <5> QED BY <1>0, <4>1, <5>1 DEF Job
      <4> QED BY <2>6, <4>2, <4>3
    <3> QED BY <3>1 DEF JobKnows
  <2> QED BY <2>1, <2>2, <2>3, <2>4, <2>5, <2>6 DEF JobStep
<1>4. \A p \in PSids :
         /\ remote'[p].status = "none" \/ Invoiced(p)'
            => remote[p].status = "none" \/ Invoiced(p)
         /\ remote'[p].status # "none"
            => Invoiced(p)' \/ (remote[p].status # "none" /\ ~Invoiced(p))
  BY <1>1 DEF Invoiced, SaleInv, Sold, NotYet
<1>5. \A v \in Workers : tx'[v] = tx[v] \/ (tx'[v] = IdleTx /\ tx[v].op # "purchase")
  BY <1>1
<1> QED BY <1>2, <1>3, <1>4, <1>5, SaleStays

\* Every step keeps what is known of each sale: one case per group of actions.
LEMMA SaleStep == NothingLost /\ OneEach /\ SaleInv /\ [Next]_vars => SaleInv'
<1> SUFFICES ASSUME NothingLost, OneEach, SaleInv, [Next]_vars PROVE SaleInv'
  OBVIOUS
<1>1. ClaimInv'
  BY ClaimStep DEF SaleInv
<1>2. CASE UNCHANGED vars \/ Tick \/ (\E l \in live : Join(l)) \/ StripeStep
  BY <1>1, <1>2, SaleOutside
<1>3. CASE EventStep \/ HandlerStep
  BY <1>1, <1>3, SaleEvent, SaleHandler
<1>4. CASE CommitStep
  BY <1>1, <1>4, SaleCommit, SaleRestored DEF CommitStep
<1>5. CASE PanelStep \/ JobStep \/ JobRecordFails \/ CrashBot
  BY <1>1, <1>5, SaleRest
<1> QED BY <1>2, <1>3, <1>4, <1>5 DEF Next

\* A subscription whose first invoice is handled is its owner's row's: that row
\* gives access, or the night's run judges it and finds it shut out.
LEMMA SaleNamed == SaleInv => PayingOrNamed
<1> SUFFICES ASSUME SaleInv, NEW p \in PSids, remote[p].status = "active", AtRest(p),
                    \A i \in SubIds : sub[i].psid = p => i \in Fetched,
                    \A i \in Named : sub[i].psid # p
             PROVE  Current(sub, Owner[p]) # {}
  BY DEF PayingOrNamed
<1>1. PICK i \in SubIds : sub[i].psid = p
  BY DEF SaleInv, Sold, Invoiced, AtRest
<1>2. p # NoLink /\ sub[i].user = Owner[p]
  BY <1>1, RowAssumption DEF SaleInv, Owned
<1>3. i \in Judged
  BY <1>1, <1>2 DEF Judged, Fetched, SaleInv, ClaimInv, ClaimsApart
<1>4. HasAccess(sub[i], now)
  BY <1>1, <1>2, <1>3 DEF Named, ShutOutRemotely
<1> DEFINE holding == {j \in SubIds : sub[j].user = Owner[p] /\ HasAccess(sub[j], now)}
           expires == [j \in holding |-> sub[j].expires]
<1>5. IsFiniteSet(holding) /\ holding # {} /\ \A j \in holding : expires[j] \in Int
  <2>1. IsFiniteSet(SubIds)
    BY LifecycleAssumption, FS_Interval DEF SubIds
  <2>2. IsFiniteSet(holding)
    BY <2>1, FS_Subset
  <2>3. \A j \in SubIds : sub[j].expires \in Int
    BY DEF SaleInv, ClaimInv, TypeInv, TypeOK, Row
  <2> QED BY <1>2, <1>4, <2>2, <2>3
<1>6. \E j \in holding : \A k \in holding : expires[k] <= expires[j]
  <2> HIDE DEF holding, expires
  <2> QED BY <1>5, Latest
<1> QED BY <1>6 DEF Current

\* "A subscriber may be paying in Stripe while local Telegram/portal access is
\* unavailable": whoever Stripe has charged for today can come in or is named by
\* the night's run (scan_stripe_local, compare_stripe_remote), whatever handlers,
\* administrators and the hourly job do meanwhile, when a member holds one
\* subscription and no delivery, commit or process is lost.
THEOREM PayingOrNamedCorrect == (NothingLost /\ OneEach) => (Spec => []PayingOrNamed)
<1> SUFFICES ASSUME NothingLost, OneEach PROVE Spec => []PayingOrNamed
  OBVIOUS
<1>1. SaleInv /\ [Next]_vars => SaleInv'
  BY SaleStep
<1> QED BY <1>1, SaleInit, SaleNamed, PTL DEF Spec

(***************************************************************************)
(* Whoever sits in the chats, and every link that leads there, is held by  *)
(* an open row of theirs, or by the handler at work for them.              *)
(***************************************************************************)
\* The rows S account for the seat and for every live link of u.
Accounts(S, u) ==
  /\ inChat[u] => S # {}
  /\ \A l \in live : l.user = u => \E i \in S : sub[i].link = l.n

\* The rows an unban at work will reopen.
Reinstated(w) == {i \in BanRevoked(tx[w].user) : Entitled(sub[i])}

\* The links a handler has asked for, and the members it is seating.
Serves(w, l) ==
  /\ tx[w].user = l.user /\ tx[w].link # 0
  /\ \/ tx[w].op = "purchase" /\ l.n = tx[w].link
     \/ tx[w].op = "unban" /\ \E i \in Reinstated(w) : l.n = tx[w].link + i
Seats(w, u) ==
  /\ tx[w].user = u
  /\ \/ tx[w].op = "purchase"
     \/ tx[w].op = "unban" /\ Reinstated(w) # {}

LinksHeld ==
  \A l \in live : \/ \E i \in OpenRows(l.user) : sub[i].link = l.n
                  \/ \E w \in Workers : Serves(w, l)
Seated ==
  \A u \in Users : inChat[u] => OpenRows(u) # {} \/ \E w \in Workers : Seats(w, u)

\* Whoever is being banned or refunded is accounted for by the rows Telegram did
\* not clear, and whoever the job has just removed by the other rows of theirs.
StillIn(w) == {i \in OpenRows(tx[w].user) : tx[w].answer[i] # "removed"}
Leaving ==
  \A w \in Workers :
    tx[w].op \in {"ban", "refund"} => Accounts(StillIn(w), tx[w].user)
Swept ==
  (job.stage = "record" /\ job.answer = "removed") =>
    \A u \in Users : sub[job.cur].user = u => Accounts(OpenRows(u) \ {job.cur}, u)

SeatInv == SeqInv /\ LinksHeld /\ Seated /\ Leaving /\ Swept

LEMMA OpenIs ==
  \A u : \A i : i \in OpenRows(u) <=>
     /\ i \in SubIds /\ sub[i].user = u
     /\ sub[i].status \in AccessHolding /\ ~sub[i].revoked
BY DEF OpenRows, RowsOf

LEMMA LiveLinks ==
  ASSUME SeqInv
  PROVE  \A l \in live : l.user \in Users /\ l = Opens(l.user, l.n)
BY DEF SeqInv, TypeInv, TypeOK, Links, Opens

\* With nothing at work the open rows account for everybody.
AllHeld == \A u \in Users : Accounts(OpenRows(u), u)

LEMMA AtRestHeld ==
  ASSUME SeatInv, Quiet
  PROVE  AllHeld
<1>1. \A w \in Workers : tx[w].op = "idle"
  BY DEF Quiet
<1>2. \A w \in Workers : \A l : ~Serves(w, l)
  BY <1>1 DEF Serves
<1>3. \A w \in Workers : \A u : ~Seats(w, u)
  BY <1>1 DEF Seats
<1> QED BY <1>2, <1>3 DEF SeatInv, AllHeld, Accounts, LinksHeld, Seated

LEMMA HeldAtRest ==
  ASSUME SeqInv, AllHeld, \A w \in Workers : tx[w].op = "idle", job.stage # "record"
  PROVE  SeatInv
<1>1. LinksHeld /\ Seated
  BY LiveLinks DEF AllHeld, Accounts, LinksHeld, Seated
<1>2. Leaving /\ Swept
  BY DEF Leaving, Swept
<1> QED BY <1>1, <1>2 DEF SeatInv

\* A write keeps a member accounted for by rows that stay open and keep their
\* link, if it is live.
LEMMA Carried ==
  ASSUME SeqInv, NEW u \in Users, NEW S, Accounts(S, u), UNCHANGED <<inChat, live>>,
         \A i \in S : /\ i \in OpenRows(u)'
                      /\ sub'[i].link = sub[i].link \/ Opens(u, sub[i].link) \notin live
  PROVE  Accounts(OpenRows(u), u)'
<1>1. \A l \in live : l.user = u => l = Opens(u, l.n)
  BY LiveLinks
<1> QED BY <1>1 DEF Accounts

\* What is at work serves one member: the open rows account for all others.
LEMMA OthersHeld ==
  ASSUME SeatInv, NEW u \in Users, \A w \in Workers : tx[w].op # "idle" => tx[w].user # u
  PROVE  Accounts(OpenRows(u), u)
<1>1. \A w \in Workers : \A l \in live : Serves(w, l) => l.user # u
  BY DEF Serves
<1>2. \A w \in Workers : ~Seats(w, u)
  BY DEF Seats
<1> QED BY <1>1, <1>2 DEF SeatInv, Accounts, LinksHeld, Seated

LEMMA SeatEnds ==
  ASSUME SeqInv', \A w \in Workers : tx'[w].op = "idle", job'.stage # "record",
         \A u \in Users : Accounts(OpenRows(u), u)'
  PROVE  SeatInv'
<1>1. SeqInv' /\ AllHeld' /\ (\A w \in Workers : tx[w].op = "idle")' /\ (job.stage # "record")'
  BY DEF AllHeld
<1> QED BY <1>1, HeldAtRest, PTL

\* A webhook or panel request finds nothing at work, closes no row and moves no
\* link.
LEMMA SeatAlone ==
  ASSUME SeatInv, SeqInv', Quiet, UNCHANGED <<tx, job, inChat, live>>,
         \A i \in SubIds :
           (sub[i].status \in AccessHolding /\ ~sub[i].revoked) =>
             /\ sub'[i].user = sub[i].user /\ sub'[i].status \in AccessHolding
             /\ ~sub'[i].revoked /\ sub'[i].link = sub[i].link
  PROVE  SeatInv'
<1>1. AllHeld
  BY AtRestHeld
<1>2. ASSUME NEW u \in Users, NEW i \in OpenRows(u)
      PROVE  i \in OpenRows(u)' /\ sub'[i].link = sub[i].link
  BY OpenIs DEF OpenRows, RowsOf
<1>3. \A u \in Users : Accounts(OpenRows(u), u)'
  BY <1>1, <1>2, Carried DEF AllHeld, SeatInv
<1>4. (\A w \in Workers : tx'[w].op = "idle") /\ job'.stage # "record"
  BY DEF Quiet, SeatInv, SeqInv, JobFresh
<1> QED BY <1>3, <1>4, SeatEnds

\* Steps that write no row and start and end nothing: a link at most is used.
LEMMA SeatStays ==
  ASSUME SeatInv, SeqInv', UNCHANGED <<sub, tx>>,
         \A w \in Workers : tx[w].op = "unban" => now' = now,
         \/ UNCHANGED <<inChat, live>>
         \/ \E l \in live : /\ inChat' = [inChat EXCEPT ![l.user] = TRUE]
                            /\ live' = live \ {l},
         job'.stage = "record" => UNCHANGED job
  PROVE  SeatInv'
<1>0. inChat \in [Users -> BOOLEAN] /\ \A l \in live : l.user \in Users
  BY DEF SeatInv, SeqInv, TypeInv, TypeOK, Links
<1>1. \A u : OpenRows(u)' = OpenRows(u) /\ BanRevoked(u)' = BanRevoked(u)
  BY DEF OpenRows, BanRevoked, RowsOf
<1>2. \A w \in Workers : tx[w].op = "unban" => Reinstated(w)' = Reinstated(w)
  BY <1>1 DEF Reinstated, Entitled
<1>3. \A w \in Workers : /\ \A l : Serves(w, l)' <=> Serves(w, l)
                         /\ \A u : Seats(w, u)' <=> Seats(w, u)
  BY <1>2 DEF Serves, Seats
<1>4. live' \subseteq live
  OBVIOUS
<1>5. \A u \in Users : inChat'[u] => inChat[u] \/ \E l \in live : l.user = u
  BY <1>0
<1>6. LinksHeld'
  BY <1>1, <1>3, <1>4 DEF SeatInv, LinksHeld
<1>7. \A l \in live : \A w \in Workers : Serves(w, l) => Seats(w, l.user)
  BY DEF Serves, Seats
<1>8. Seated'
  BY <1>1, <1>3, <1>5, <1>7 DEF SeatInv, LinksHeld, Seated
<1>9. \A u \in Users : \A S : Accounts(S, u) => Accounts(S, u)'
  BY <1>4, <1>5 DEF Accounts
<1>10. Leaving'
  <2>1. \A w \in Workers : StillIn(w)' = StillIn(w)
    BY <1>1 DEF StillIn
  <2>2. \A w \in Workers : tx[w].op # "idle" => tx[w].user \in Users
    BY DEF SeatInv, SeqInv, TypeInv, IdsKnown
  <2> QED BY <1>9, <2>1, <2>2 DEF SeatInv, Leaving
<1>11. Swept'
  <2> SUFFICES ASSUME job'.stage = "record", job'.answer = "removed",
                      NEW u \in Users, sub'[job'.cur].user = u
               PROVE  Accounts(OpenRows(u) \ {job.cur}, u)'
    BY DEF Swept
  <2>1. job' = job /\ sub' = sub
    OBVIOUS
  <2>2. Accounts(OpenRows(u) \ {job.cur}, u)
    BY <2>1 DEF SeatInv, Swept
  <2>3. (OpenRows(u) \ {job.cur})' = OpenRows(u) \ {job.cur}
    BY <1>1, <2>1
  <2> QED BY <1>9, <2>2, <2>3
<1> QED BY <1>6, <1>8, <1>10, <1>11 DEF SeatInv

LEMMA SeatOutside ==
  ASSUME SeatInv, SeqInv',
         \/ UNCHANGED vars \/ Tick \/ (\E l \in live : Join(l)) \/ StripeStep
         \/ \E e \in events : LoseAcknowledged(e)
  PROVE  SeatInv'
<1>1. UNCHANGED <<sub, tx, job>>
  BY DEF vars, Tick, Join, StripeStep, Checkout, RemoteRenew, RemoteRenewFails,
     RemoteRecovers, RemoteCancel, RemoteStep, LoseAcknowledged
<1>2. \A w \in Workers : tx[w].op = "unban" => now' = now
  BY DEF vars, Tick, Join, StripeStep, Checkout, RemoteRenew, RemoteRenewFails,
     RemoteRecovers, RemoteCancel, RemoteStep, LoseAcknowledged
<1>3. \/ UNCHANGED <<inChat, live>>
      \/ \E l \in live : /\ inChat' = [inChat EXCEPT ![l.user] = TRUE]
                         /\ live' = live \ {l}
  BY DEF vars, Tick, Join, StripeStep, Checkout, RemoteRenew, RemoteRenewFails,
     RemoteRecovers, RemoteCancel, RemoteStep, LoseAcknowledged
<1> QED BY <1>1, <1>2, <1>3, SeatStays

\* What a webhook or the panel writes to an open row leaves it open.
LEMMA StripeKeepsOpen ==
  ASSUME NEW r \in Row, r.status \in AccessHolding, NEW t, NEW e
  PROVE  /\ StartGrace(r, t).user = r.user /\ StartGrace(r, t).status = r.status
         /\ StartGrace(r, t).revoked = r.revoked /\ StartGrace(r, t).link = r.link
         /\ SubscriptionEvent(r, e).user = r.user
         /\ SubscriptionEvent(r, e).status \in AccessHolding
         /\ SubscriptionEvent(r, e).revoked = r.revoked
         /\ SubscriptionEvent(r, e).link = r.link
         /\ Released(r).user = r.user /\ Released(r).status = r.status
         /\ Released(r).revoked = r.revoked /\ Released(r).link = r.link
<1>1. /\ StartGrace(r, t).user = r.user /\ StartGrace(r, t).status = r.status
      /\ StartGrace(r, t).revoked = r.revoked /\ StartGrace(r, t).link = r.link
  BY DEF StartGrace, Row
<1>2. /\ Released(r).user = r.user /\ Released(r).status = r.status
      /\ Released(r).revoked = r.revoked /\ Released(r).link = r.link
  BY DEF Released, Row
<1> DEFINE status == IF e.type = "deleted" \/ e.status = "canceled" THEN "cancelled"
                     ELSE IF e.status \in AccessRestored /\ r.status = "cancelled"
                     THEN "active" ELSE r.status
<1>3. SubscriptionEvent(r, e) = [r EXCEPT !.pstatus = e.status, !.cpe = e.end, !.status = status]
  BY DEF SubscriptionEvent, Row
<1>4. status \in AccessHolding
  BY DEF AccessHolding
<1> HIDE DEF status
<1>5. /\ SubscriptionEvent(r, e).user = r.user
      /\ SubscriptionEvent(r, e).status = status
      /\ SubscriptionEvent(r, e).revoked = r.revoked
      /\ SubscriptionEvent(r, e).link = r.link
  BY <1>3 DEF Row
<1> QED BY <1>1, <1>2, <1>4, <1>5

\* What a purchase leaves of the link of the row it extends.
LEMMA ExtendedLink ==
  ASSUME NEW r \in Row, NEW pay \in Purchase, now \in Nat, NEW n \in Nat
  PROVE  WithLink(Extended(r, pay), n).link = IF n = 0 THEN r.link ELSE n
<1> DEFINE end == Later(r.expires, PeriodEnd(pay, Later(r.expires, now)))
           paid == [r EXCEPT !.expires = end, !.source = pay.source]
           provider == IF pay.provider = "none" THEN paid.provider ELSE pay.provider
           psid == IF pay.psid = NoLink THEN paid.psid ELSE pay.psid
           pstatus == IF pay.pstatus = "none" THEN paid.pstatus ELSE pay.pstatus
           bound == [paid EXCEPT !.provider = provider, !.psid = psid, !.pstatus = pstatus,
                                 !.cpe = paid.expires]
           clear == [bound EXCEPT !.grace = NoTime, !.retry = NoTime]
<1>1. Extended(r, pay) = IF pay.pstatus \in AccessRestored THEN clear ELSE bound
  BY DEF Extended, ApplyProvider
<1> HIDE DEF end, provider, psid, pstatus
<1>2. bound.link = r.link /\ clear.link = r.link
  BY DEF Row
<1>3. Extended(r, pay) \in Row /\ Extended(r, pay).link = r.link
  BY <1>1, <1>2, ExtendedRow
<1> QED BY <1>3 DEF WithLink, Row

LEMMA SeatEvent ==
  ASSUME SeatInv, SeqInv', ~Overlap, PanelStep \/ \E e \in events :
           DeliverRenewal(e) \/ DeliverPaymentFailed(e) \/ DeliverSubscription(e)
  PROVE  SeatInv'
<1>0. sub \in [SubIds -> Row] /\ now \in Nat /\ SeqInv /\ TypeInv
  BY DEF SeatInv, SeqInv, TypeInv, TypeOK
<1>1. Quiet /\ UNCHANGED <<tx, job, inChat, live>>
  BY DEF PanelStep, ExtendDays, SetComp, MayStart, DeliverRenewal, DeliverPaymentFailed,
     DeliverSubscription, Deliver
<1> DEFINE Kept(i) ==
             /\ sub'[i].user = sub[i].user /\ sub'[i].status \in AccessHolding
             /\ ~sub'[i].revoked /\ sub'[i].link = sub[i].link
<1>2. ASSUME PanelStep, NEW i \in SubIds, sub[i].status \in AccessHolding, ~sub[i].revoked
      PROVE  Kept(i)
  BY <1>0, <1>2 DEF PanelStep, ExtendDays, SetComp, Row
<1>3. ASSUME NEW e \in events, DeliverPaymentFailed(e) \/ DeliverSubscription(e),
             NEW i \in SubIds, sub[i].status \in AccessHolding, ~sub[i].revoked
      PROVE  Kept(i)
  <2>1. sub'[i] \in {sub[i], StartGrace(sub[i], now), SubscriptionEvent(sub[i], e)}
    BY <1>3 DEF DeliverPaymentFailed, DeliverSubscription
  <2> QED BY <1>0, <1>3, <2>1, StripeKeepsOpen
<1>4. ASSUME NEW e \in events, DeliverRenewal(e),
             NEW i \in SubIds, sub[i].status \in AccessHolding, ~sub[i].revoked
      PROVE  Kept(i)
  <2> DEFINE u == Owner[e.psid]  pay == StripePurchase(e.psid, e.end)
  <2>1. u \in Users /\ pay \in Purchase
    BY <1>0, LifecycleAssumption DEF TypeInv, TypeOK, Event, StripePurchase, Purchase,
       Sources, ProviderStatuses, Time
  <2>2. Absent # {}
    BY <1>1, <1>4, RoomIsThere DEF DeliverRenewal
  <2>3. PICK k \in Target(sub, u) : sub' = Bought(k, u, pay, NothingLoaded, 0)
    BY <1>4 DEF DeliverRenewal
  <2>4. NothingLoaded \in [SubIds -> Row] /\ \A j \in SubIds : NothingLoaded[j] = NoRow
    BY NothingTyped DEF NothingLoaded
  <2> HIDE DEF u, pay
  <2>5. /\ \/ sub[k].status = "absent"
           \/ sub'[k] = WithLink(Extended(sub[k], pay), 0)
        /\ \A j \in SubIds \ {k} : sub'[j] \in {sub[j], Released(sub[j])}
    BY <1>0, <2>1, <2>2, <2>3, <2>4, BoughtRows
  <2>6. CASE i = k
    <3>1. sub'[i] = WithLink(Extended(sub[i], pay), 0)
      BY <1>4, <2>5, <2>6 DEF AccessHolding
    <3> QED BY <1>0, <1>4, <2>1, <3>1, ExtendedIs, ExtendedLink
  <2>7. CASE i # k
    BY <1>0, <1>4, <2>5, <2>7, StripeKeepsOpen
  <2> QED BY <2>6, <2>7
<1>5. \A i \in SubIds : (sub[i].status \in AccessHolding /\ ~sub[i].revoked) => Kept(i)
  BY <1>2, <1>3, <1>4
<1> QED BY <1>1, <1>5, SeatAlone

\* A handler that starts finds nothing at work: it answers for the links it asked
\* for, and for whom Telegram has just removed.
LEMMA SeatBegins ==
  ASSUME SeatInv, SeqInv', Quiet, NEW w \in Workers, NEW record,
         tx' = [tx EXCEPT ![w] = record], UNCHANGED <<sub, job>>,
         \A l \in live' : l \in live \/ Serves(w, l)',
         \A u \in Users : inChat'[u] => inChat[u],
         record.op \in {"ban", "refund"} =>
           Accounts(StillIn(w), tx[w].user)'
  PROVE  SeatInv'
<1>1. AllHeld
  BY AtRestHeld
<1>2. \A u : OpenRows(u)' = OpenRows(u)
  BY DEF OpenRows, RowsOf
<1>3. \A v \in Workers : v # w => tx'[v].op = "idle"
  BY DEF Quiet, SeatInv, SeqInv, TypeInv, TypeOK
<1>4. tx'[w] = record
  BY DEF SeatInv, SeqInv, TypeInv, TypeOK
<1>5. Seated'
  BY <1>1, <1>2 DEF AllHeld, Accounts, Seated
<1>6. \A l \in live : l.user \in Users
  BY DEF SeatInv, SeqInv, TypeInv, TypeOK, Links
<1>7. LinksHeld'
  <2> SUFFICES ASSUME NEW l \in live'
               PROVE  \/ \E i \in OpenRows(l.user)' : sub'[i].link = l.n
                      \/ \E v \in Workers : Serves(v, l)'
    BY DEF LinksHeld
  <2>1. CASE l \in live
    BY <1>1, <1>2, <1>6, <2>1 DEF AllHeld, Accounts
  <2> QED BY <2>1
<1>8. Leaving'
  <2> SUFFICES ASSUME NEW v \in Workers, tx'[v].op \in {"ban", "refund"}
               PROVE  Accounts(StillIn(v), tx[v].user)'
    BY DEF Leaving
  <2>1. v = w
    BY <1>3
  <2> QED BY <1>4, <2>1
<1>9. Swept'
  BY DEF Quiet, SeatInv, SeqInv, JobFresh, Swept
<1> QED BY <1>5, <1>7, <1>8, <1>9 DEF SeatInv

LEMMA SeatHandler ==
  ASSUME SeatInv, SeqInv', ~Overlap, HandlerStep, \A w \in Workers : ~CrashHandler(w)
  PROVE  SeatInv'
<1>0. /\ tx \in [Workers -> Tx] /\ used \in [Counters -> Nat] /\ sub \in [SubIds -> Row]
      /\ inChat \in [Users -> BOOLEAN] /\ SeqInv
  BY DEF SeatInv, SeqInv, TypeInv, TypeOK
<1>1. ASSUME NEW w \in Workers, NEW u, NEW pay, NEW e, NEW bought,
             BeginPurchase(w, u, pay, e, bought)
      PROVE  SeatInv'
  <2> DEFINE record(n) == [IdleTx EXCEPT !.op = "purchase", !.user = u, !.pay = pay,
                             !.loaded = Load(OpenRows(u)), !.event = e, !.link = n]
  <2>1. PICK n : /\ Begin(w, record(n))
                 /\ live' = live \cup {[user |-> u, n |-> k] : k \in {n} \ {0}}
                 /\ inChat' = inChat
    BY <1>1 DEF BeginPurchase
  <2>2. record(n).op = "purchase" /\ record(n).user = u /\ record(n).link = n
    BY DEF IdleTx
  <2>3. Quiet /\ tx' = [tx EXCEPT ![w] = record(n)] /\ UNCHANGED <<sub, job>>
    BY <2>1 DEF Begin, Idle, MayStart
  <2> HIDE DEF record
  <2>4. tx'[w] = record(n)
    BY <1>0, <2>3
  <2>5. ASSUME NEW l \in live', l \notin live PROVE Serves(w, l)'
    <3>1. l = [user |-> u, n |-> n] /\ n # 0
      BY <2>1, <2>5
    <3> QED BY <2>2, <2>4, <3>1 DEF Serves
  <2> QED BY <2>1, <2>2, <2>3, <2>5, SeatBegins
<1>2. ASSUME NEW w \in Workers, NEW op \in {"ban", "refund"}, NEW u \in Users,
             BeginRemoval(w, op, u, OpenRows(u))
      PROVE  SeatInv'
  <2> DEFINE answer(a) == [i \in SubIds |-> IF i \in OpenRows(u) THEN a[i] ELSE "none"]
             record(a) == [IdleTx EXCEPT !.op = op, !.user = u, !.loaded = Load(OpenRows(u)), !.was = banned[u],
                                         !.answer = answer(a)]
             gone(a) == {i \in OpenRows(u) : a[i] = "removed"}
  <2>1. PICK a : /\ Begin(w, record(a))
                 /\ Removes(u, {sub[i].link : i \in gone(a)},
                            {sub[i].link : i \in OpenRows(u) \ gone(a)})
    BY <1>2 DEF BeginRemoval
  <2>2. record(a).op = op /\ record(a).user = u /\ record(a).answer = answer(a)
    BY DEF IdleTx
  <2>3. Quiet /\ tx' = [tx EXCEPT ![w] = record(a)] /\ UNCHANGED <<sub, job>>
    BY <2>1 DEF Begin, Idle, MayStart
  <2> HIDE DEF record
  <2>4. tx'[w] = record(a)
    BY <1>0, <2>3
  <2>5. OpenRows(u)' = OpenRows(u) /\ OpenRows(u) \subseteq SubIds
    BY <2>3 DEF OpenRows, RowsOf
  <2>6. StillIn(w)' = OpenRows(u) \ gone(a)
    <3>1. StillIn(w)' = {i \in OpenRows(u) : answer(a)[i] # "removed"}
      BY <2>2, <2>4, <2>5 DEF StillIn
    <3>2. \A i \in OpenRows(u) : answer(a)[i] = a[i]
      BY <2>5
    <3> QED BY <3>1, <3>2
  <2>7. Accounts(OpenRows(u), u)
    BY <2>3, AtRestHeld DEF AllHeld
  <2>8. /\ inChat' = IF gone(a) # {} THEN [inChat EXCEPT ![u] = FALSE] ELSE inChat
        /\ live' \subseteq live
        /\ \A i \in gone(a) : Opens(u, sub[i].link) \notin live'
    BY <2>1 DEF Removes, Opens
  <2> HIDE DEF gone
  <2>9. Accounts(StillIn(w), u)'
    <3>1. inChat'[u] => OpenRows(u) \ gone(a) # {}
      BY <1>0, <2>7, <2>8 DEF Accounts
    <3>2. ASSUME NEW l \in live', l.user = u
          PROVE  \E i \in OpenRows(u) \ gone(a) : sub'[i].link = l.n
      <4>1. PICK i \in OpenRows(u) : sub[i].link = l.n
        BY <2>7, <2>8, <3>2 DEF Accounts
      <4>2. l = Opens(u, l.n)
        BY <1>0, <2>8, <3>2, LiveLinks
      <4> QED BY <2>3, <2>8, <4>1, <4>2
    <3> QED BY <2>6, <3>1, <3>2 DEF Accounts
  <2>10. \A v \in Users : inChat'[v] => inChat[v]
    BY <1>0, <2>8
  <2>11. Accounts(StillIn(w), tx[w].user)'
    BY <2>2, <2>4, <2>9
  <2> QED BY <2>3, <2>8, <2>10, <2>11, SeatBegins
<1>3. ASSUME NEW w \in Workers, NEW u \in Users, BeginUnban(w, u)
      PROVE  SeatInv'
  <2> DEFINE entitled == {i \in BanRevoked(u) : Entitled(sub[i])}
             record(n) == [IdleTx EXCEPT !.op = "unban", !.user = u,
                                         !.loaded = Load(BanRevoked(u)), !.was = banned[u], !.link = n]
  <2>1. PICK n : /\ Begin(w, record(n))
                 /\ \/ live' = live
                    \/ n # 0 /\ live' = live \cup {[user |-> u, n |-> n + i] : i \in entitled}
                 /\ inChat' = inChat
    <3>1. PICK issued \in BOOLEAN :
            /\ Begin(w, record(IF issued THEN used["links"] + 1 ELSE 0))
            /\ live' = IF issued
                       THEN live \cup {[user |-> u, n |-> used["links"] + 1 + i] : i \in entitled}
                       ELSE live
      BY <1>3 DEF BeginUnban
    <3>2. used["links"] \in Nat /\ inChat' = inChat
      BY <1>0, <1>3 DEF BeginUnban, Counters
    <3> HIDE DEF record, entitled
    <3> QED BY <3>1, <3>2
  <2>2. record(n).op = "unban" /\ record(n).user = u /\ record(n).link = n
    BY DEF IdleTx
  <2>3. Quiet /\ tx' = [tx EXCEPT ![w] = record(n)] /\ UNCHANGED <<sub, job, now>>
    BY <2>1 DEF Begin, Idle, MayStart
  <2> HIDE DEF record
  <2>4. tx'[w] = record(n)
    BY <1>0, <2>3
  <2>5. Reinstated(w)' = entitled
    <3>1. BanRevoked(u)' = BanRevoked(u)
      BY <2>3 DEF BanRevoked, RowsOf
    <3> QED BY <2>2, <2>3, <2>4, <3>1 DEF Reinstated, Entitled
  <2> HIDE DEF entitled
  <2>6. ASSUME NEW l \in live', l \notin live PROVE Serves(w, l)'
    <3>1. PICK i \in entitled : l = [user |-> u, n |-> n + i] /\ n # 0
      BY <2>1, <2>6
    <3> QED BY <2>2, <2>4, <2>5, <3>1 DEF Serves
  <2> QED BY <2>1, <2>2, <2>3, <2>6, SeatBegins
<1> QED BY <1>1, <1>2, <1>3 DEF HandlerStep, BeginFirstInvoice, BeginUsdt, BeginGift,
     BeginBan, BeginRefund

\* An attempt to remove a member, a refund and a lifted ban, and the link.
LEMMA AttemptLink ==
  ASSUME NEW r \in Row, NEW t \in Nat, NEW o, NEW m \in BOOLEAN, NEW p \in BOOLEAN
  PROVE  RecordAttempt(r, t, o, m, p).link = r.link
<1> DEFINE tried == [r EXCEPT !.attempts = @ + 1]
<1>1. tried.link = r.link /\ tried \in Row
  BY DEF Row
<1> HIDE DEF tried
<1>2. \A gaveUp, retry, status :
        /\ [tried EXCEPT !.revoked = TRUE, !.retry = NoTime, !.abandoned = FALSE,
                         !.status = status].link = tried.link
        /\ [tried EXCEPT !.retry = retry, !.abandoned = gaveUp].link = tried.link
  BY <1>1 DEF Row
<1> QED BY <1>1, <1>2 DEF RecordAttempt, tried

LEMMA RefundLink ==
  ASSUME NEW r \in Row, NEW t \in Nat
  PROVE  EndForRefund(r, t).link = r.link
BY DEF EndForRefund, Row

LEMMA RestoredLink ==
  ASSUME NEW r \in Row, NEW n \in Nat \ {0}, Entitled(r)
  PROVE  Restored(r, n).link = n
<1> DEFINE open == [r EXCEPT !.revoked = FALSE, !.retry = NoTime]
<1>1. open \in Row
  BY DEF Row, Time
<1>2. Restored(r, n) = WithLink(open, n)
  BY DEF Restored
<1> HIDE DEF open
<1> QED BY <1>1, <1>2 DEF WithLink, Row

\* A ban or a refund that ends leaves open the rows Telegram did not clear.
LEMMA SeatLeaves ==
  ASSUME SeatInv, SeqInv', NEW w \in Workers, CommitBan(w) \/ CommitRefund(w)
  PROVE  SeatInv'
<1>0. sub \in [SubIds -> Row] /\ now \in Nat /\ SeqInv
  BY DEF SeatInv, SeqInv, TypeInv, TypeOK
<1>1. PICK u \in Users :
      /\ tx[w].op \in {"ban", "refund"} /\ tx[w].user = u
      /\ tx' = [tx EXCEPT ![w] = IdleTx] /\ UNCHANGED <<inChat, live, job>>
      /\ job.phase = "idle" /\ \A v \in Workers : tx[v].op # "idle" => v = w
  <2>1. tx[w].op \in {"ban", "refund"}
    BY DEF CommitBan, CommitRefund
  <2> QED BY <1>0, <2>1 DEF CommitBan, CommitRefund, CommitRows, SeqInv, OneAtATime, TypeInv, IdsKnown
<1>2. (\A v \in Workers : tx'[v].op = "idle") /\ job'.stage # "record"
  BY <1>0, <1>1 DEF IdleTx, SeqInv, JobFresh, TypeInv, TypeOK
<1>3. ASSUME NEW i \in SubIds
      PROVE  /\ i \notin OpenRows(u) => sub'[i] = sub[i]
             /\ i \in StillIn(w) => i \in OpenRows(u)' /\ sub'[i].link = sub[i].link
  <2>1. \/ sub'[i] = sub[i] /\ i \notin OpenRows(u)
        \/ /\ i \in OpenRows(u)
           /\ \/ sub'[i] = RecordAttempt(sub[i], now, tx[w].answer[i], FALSE, FALSE)
              \/ sub'[i] = RecordAttempt(EndForRefund(sub[i], now), now, tx[w].answer[i],
                                         TRUE, FALSE)
    BY <1>0, <1>1, BanWrites, RefundWrites
  <2>2. SUFFICES ASSUME i \in OpenRows(u), tx[w].answer[i] # "removed"
                 PROVE  i \in OpenRows(u)' /\ sub'[i].link = sub[i].link
    BY <1>1, <2>1 DEF StillIn
  <2>3. sub[i].user = u /\ sub[i].status \in AccessHolding /\ ~sub[i].revoked
    BY <2>2, OpenIs
  <2> DEFINE yes == TRUE  no == FALSE  o == tx[w].answer[i]  ended == EndForRefund(sub[i], now)
  <2>4. /\ yes \in BOOLEAN /\ no \in BOOLEAN /\ sub[i] \in Row /\ ended \in Row
        /\ ended.user = u /\ ended.status = "cancelled" /\ ~ended.revoked
        /\ ended.link = sub[i].link
    BY <1>0, <2>3, RefundKeeps, RefundLink
  <2>5. \/ sub'[i] = RecordAttempt(sub[i], now, o, no, no)
        \/ sub'[i] = RecordAttempt(ended, now, o, yes, no)
    BY <2>1, <2>2
  <2> HIDE DEF yes, no, o, ended
  <2>6. o # "removed"
    BY <2>2 DEF o
  <2>7. CASE sub'[i] = RecordAttempt(sub[i], now, o, no, no)
    <3>1. sub'[i].link = sub[i].link
      BY <1>0, <2>4, <2>7, AttemptLink
    <3>2. /\ sub'[i].user = sub[i].user
          /\ ~no => sub'[i].status = sub[i].status
          /\ sub'[i].revoked = (sub[i].revoked \/ o = "removed")
      BY <1>0, <2>4, <2>7, RecordAttemptKeeps
    <3> QED BY <2>3, <2>6, <3>1, <3>2 DEF OpenRows, RowsOf, no
  <2>8. CASE sub'[i] = RecordAttempt(ended, now, o, yes, no)
    <3>1. sub'[i].link = sub[i].link
      BY <1>0, <2>4, <2>8, AttemptLink
    <3>2. /\ sub'[i].user = u /\ sub'[i].status = "cancelled"
          /\ sub'[i].revoked = (ended.revoked \/ o = "removed")
      BY <1>0, <2>4, <2>8, RecordAttemptKeeps
    <3> QED BY <2>4, <2>6, <3>1, <3>2 DEF OpenRows, RowsOf, AccessHolding
  <2> QED BY <2>5, <2>7, <2>8
<1>4. ASSUME NEW v \in Users PROVE Accounts(OpenRows(v), v)'
  <2>1. CASE v = u
    <3>1. Accounts(StillIn(w), v) /\ StillIn(w) \subseteq SubIds
      BY <1>1, <2>1, OpenIs DEF SeatInv, Leaving, StillIn
    <3> QED BY <1>0, <1>1, <1>3, <2>1, <3>1, Carried
  <2>2. CASE v # u
    <3>1. Accounts(OpenRows(v), v)
      BY <1>1, <2>2, OthersHeld
    <3>2. ASSUME NEW i \in OpenRows(v) PROVE i \in OpenRows(v)' /\ sub'[i].link = sub[i].link
      <4>1. i \in SubIds /\ i \notin OpenRows(u)
        BY <2>2, OpenIs
      <4> QED BY <1>3, <4>1, OpenIs DEF OpenRows, RowsOf
    <3> QED BY <1>0, <1>1, <3>1, <3>2, Carried
  <2> QED BY <2>1, <2>2
<1> QED BY <1>2, <1>4, SeatEnds

\* An unban that ends has reopened the rows its links were for.
LEMMA SeatReturns ==
  ASSUME SeatInv, SeqInv', NEW w \in Workers, CommitUnban(w)
  PROVE  SeatInv'
<1>0. sub \in [SubIds -> Row] /\ now \in Nat /\ SeqInv /\ tx[w].link \in Nat /\ MaxSubs \in Nat
  BY LifecycleAssumption DEF SeatInv, SeqInv, TypeInv, TypeOK, Tx
<1>1. PICK u \in Users :
      /\ tx[w].op = "unban" /\ tx[w].user = u
      /\ tx' = [tx EXCEPT ![w] = IdleTx] /\ UNCHANGED <<inChat, live, job>>
      /\ job.phase = "idle" /\ \A v \in Workers : tx[v].op # "idle" => v = w
  <2>1. tx[w].op = "unban"
    BY DEF CommitUnban
  <2> QED BY <1>0, <2>1 DEF CommitUnban, CommitRows, SeqInv, OneAtATime, TypeInv, IdsKnown
<1>2. (\A v \in Workers : tx'[v].op = "idle") /\ job'.stage # "record"
  BY <1>0, <1>1 DEF IdleTx, SeqInv, JobFresh, TypeInv, TypeOK
<1>3. \A i \in SubIds :
        /\ i \in BanRevoked(u) =>
             \E n \in Nat : sub'[i] = Restored(sub[i], n) /\ (tx[w].link # 0 => n = tx[w].link + i)
        /\ i \notin BanRevoked(u) => sub'[i] = sub[i]
  BY <1>0, <1>1, UnbanWrites
<1>4. ASSUME NEW v \in Users, NEW i \in OpenRows(v)
      PROVE  i \in OpenRows(v)' /\ sub'[i].link = sub[i].link
  <2>1. i \in SubIds /\ i \notin BanRevoked(u)
    BY OpenIs DEF BanRevoked
  <2> QED BY <1>3, <2>1, OpenIs DEF OpenRows, RowsOf
<1>5. ASSUME NEW i \in Reinstated(w)
      PROVE  /\ i \in OpenRows(u)'
             /\ tx[w].link # 0 => sub'[i].link = tx[w].link + i
  <2>1. /\ i \in SubIds /\ i \in BanRevoked(u) /\ Entitled(sub[i])
        /\ sub[i].user = u /\ sub[i].status \in AccessHolding
    BY <1>1 DEF Reinstated, BanRevoked, RowsOf
  <2>2. PICK n \in Nat : sub'[i] = Restored(sub[i], n) /\ (tx[w].link # 0 => n = tx[w].link + i)
    BY <1>3, <2>1
  <2>3. sub'[i].user = u /\ sub'[i].status \in AccessHolding /\ ~sub'[i].revoked
    BY <1>0, <2>1, <2>2, RestoredKeeps
  <2>4. tx[w].link # 0 => n # 0
    BY <1>0, <2>1, <2>2 DEF SubIds
  <2> QED BY <1>0, <2>1, <2>2, <2>3, <2>4, RestoredLink DEF OpenRows, RowsOf
<1>6. ASSUME NEW v \in Users PROVE Accounts(OpenRows(v), v)'
  <2>1. CASE v = u
    <3>1. inChat'[v] => OpenRows(v)' # {}
      <4>1. inChat[v] => OpenRows(v) # {} \/ Reinstated(w) # {}
        BY <1>1 DEF SeatInv, Seated, Seats
      <4> QED BY <1>1, <1>4, <1>5, <2>1, <4>1
    <3>2. ASSUME NEW l \in live, l.user = v
          PROVE  \E i \in OpenRows(v)' : sub'[i].link = l.n
      <4>1. \/ \E i \in OpenRows(v) : sub[i].link = l.n
            \/ tx[w].link # 0 /\ \E i \in Reinstated(w) : l.n = tx[w].link + i
        BY <1>1, <3>2 DEF SeatInv, LinksHeld, Serves
      <4> QED BY <1>4, <1>5, <2>1, <4>1
    <3> QED BY <1>1, <3>1, <3>2 DEF Accounts
  <2>2. CASE v # u
    <3>1. Accounts(OpenRows(v), v)
      BY <1>1, <2>2, OthersHeld
    <3> QED BY <1>0, <1>1, <1>4, <3>1, Carried
  <2> QED BY <2>1, <2>2
<1> QED BY <1>2, <1>6, SeatEnds

\* A purchase that ends has put its link on the row it wrote, over one that was
\* dead.
LEMMA SeatBuys ==
  ASSUME SeatInv, SeqInv', NEW w \in Workers, CommitPurchase(w), LinksKept
  PROVE  SeatInv'
<1>0. sub \in [SubIds -> Row] /\ now \in Nat /\ SeqInv
  BY DEF SeatInv, SeqInv, TypeInv, TypeOK
<1>1. PICK u \in Users, pay \in Purchase, n \in Nat :
      /\ tx[w].op = "purchase" /\ tx[w].user = u /\ tx[w].pay = pay /\ tx[w].link = n
      /\ tx' = [tx EXCEPT ![w] = IdleTx] /\ UNCHANGED <<inChat, live, job>>
      /\ job.phase = "idle" /\ \A v \in Workers : tx[v].op # "idle" => v = w
  <2>1. tx[w].op = "purchase"
    BY DEF CommitPurchase
  <2> QED BY <1>0, <2>1 DEF CommitPurchase, SeqInv, OneAtATime, TypeInv, TypeOK, Tx, IdsKnown
<1>2. (\A v \in Workers : tx'[v].op = "idle") /\ job'.stage # "record"
  BY <1>0, <1>1 DEF IdleTx, SeqInv, JobFresh, TypeInv, TypeOK
<1>3. PICK i \in SubIds :
        /\ \/ sub[i].status = "absent" /\ sub'[i] = WithLink(NewRow(u, pay), n)
           \/ /\ HasAccess(sub[i], now) /\ sub[i].user = u
              /\ sub'[i] = WithLink(Extended(sub[i], pay), n)
        /\ \A j \in SubIds \ {i} : sub'[j] \in {sub[j], Released(sub[j])}
  BY <1>0, <1>1, PurchaseWrites
<1>4. /\ sub'[i].user = u /\ sub'[i].status \in AccessHolding /\ ~sub'[i].revoked
      /\ n # 0 => sub'[i].link = n
  <2>1. CASE sub[i].status = "absent" /\ sub'[i] = WithLink(NewRow(u, pay), n)
    <3>1. sub'[i].user = u /\ sub'[i].status = "active" /\ ~sub'[i].revoked
      BY <1>0, <2>1, NewRowIs
    <3>2. NewRow(u, pay) \in Row
      BY <1>0, NewRowRow
    <3> QED BY <2>1, <3>1, <3>2 DEF WithLink, Row, AccessHolding
  <2>2. CASE /\ HasAccess(sub[i], now) /\ sub[i].user = u
             /\ sub'[i] = WithLink(Extended(sub[i], pay), n)
    <3>1. /\ sub'[i].user = u /\ sub'[i].status = sub[i].status
          /\ sub'[i].revoked = sub[i].revoked
      BY <1>0, <2>2, ExtendedIs
    <3>2. n # 0 => sub'[i].link = n
      BY <1>0, <2>2, ExtendedLink
    <3> QED BY <2>2, <3>1, <3>2 DEF HasAccess
  <2> QED BY <1>3, <2>1, <2>2
<1>5. i \in OpenRows(u)'
  BY <1>4 DEF OpenRows, RowsOf
<1>6. ASSUME NEW v \in Users, NEW j \in OpenRows(v)
      PROVE  /\ j \in OpenRows(v)'
             /\ sub'[j].link = sub[j].link \/ Opens(v, sub[j].link) \notin live
  <2>1. j \in SubIds /\ sub[j].user = v /\ sub[j].status \in AccessHolding /\ ~sub[j].revoked
    BY <1>6, OpenIs
  <2>2. CASE j = i
    <3>1. sub[i].user = u
      BY <1>3, <2>1, <2>2 DEF AccessHolding
    <3> QED BY <1>5, <2>1, <2>2, <3>1 DEF LinksKept
  <2>3. CASE j # i
    <3>1. sub'[j] \in {sub[j], Released(sub[j])} /\ sub[j] \in Row
      BY <1>0, <1>3, <2>1, <2>3
    <3>2. /\ sub'[j].user = v /\ sub'[j].status \in AccessHolding /\ ~sub'[j].revoked
          /\ sub'[j].link = sub[j].link
      BY <2>1, <3>1, StripeKeepsOpen
    <3> QED BY <2>1, <3>2 DEF OpenRows, RowsOf
  <2> QED BY <2>2, <2>3
<1>7. ASSUME NEW v \in Users PROVE Accounts(OpenRows(v), v)'
  <2>1. CASE v = u
    <3>1. ASSUME NEW l \in live, l.user = v
          PROVE  \E j \in OpenRows(v)' : sub'[j].link = l.n
      <4>1. l = Opens(v, l.n)
        BY <1>0, <3>1, LiveLinks
      <4>2. (\E j \in OpenRows(v) : sub[j].link = l.n) \/ (n # 0 /\ l.n = n)
        BY <1>1, <3>1 DEF SeatInv, LinksHeld, Serves
      <4> QED BY <1>4, <1>5, <1>6, <2>1, <4>1, <4>2
    <3> QED BY <1>1, <1>5, <2>1, <3>1 DEF Accounts
  <2>2. CASE v # u
    <3>1. Accounts(OpenRows(v), v)
      BY <1>1, <2>2, OthersHeld
    <3> QED BY <1>0, <1>1, <1>6, <3>1, Carried
  <2> QED BY <2>1, <2>2
<1> QED BY <1>2, <1>7, SeatEnds

\* The hourly job: what it has removed is accounted for by the member's other
\* rows until it is on record.
LEMMA SeatJob ==
  ASSUME SeatInv, SeqInv', ~Overlap, JobStep \/ JobRecordFails \/ CrashBot
  PROVE  SeatInv'
<1>0. /\ sub \in [SubIds -> Row] /\ now \in Nat /\ job \in Job /\ SeqInv
      /\ inChat \in [Users -> BOOLEAN]
  BY DEF SeatInv, SeqInv, TypeInv, TypeOK
<1>1. UNCHANGED tx
  BY DEF JobStep, JobStart, JobRevoke, JobRecord, JobAlert, JobDrain, JobFinish,
     JobRecordFails, CrashBot, JobOnly
<1>2. \A w \in Workers : tx[w].op = "idle"
  <2>1. CASE JobStart
    BY <2>1 DEF JobStart, MayStart, Quiet
  <2>2. CASE ~JobStart
    <3>1. job.phase # "idle"
      BY <1>0, <2>2 DEF JobStep, JobRevoke, NextInBatch, JobRecord, JobAlert, JobDrain, JobFinish,
         JobRecordFails, CrashBot, SeqInv, JobFresh
    <3> QED BY <1>0, <3>1 DEF SeqInv, OneAtATime
  <2> QED BY <2>1, <2>2
<1>3. \A u \in Users : Accounts(OpenRows(u), u)
  BY <1>2, OthersHeld
<1>4. CASE JobStart \/ JobAlert \/ JobDrain \/ JobFinish \/ JobRecordFails \/ CrashBot
  <2>1. UNCHANGED <<sub, inChat, live>> /\ job'.stage # "record"
    <3>1. UNCHANGED <<sub, inChat, live>>
      BY <1>4 DEF JobStart, JobAlert, JobDrain, JobFinish, JobRecordFails, CrashBot
    <3>2. IdleJob.stage = "pick" /\ IdleJob \in Job
      BY NothingTyped DEF IdleJob
    <3>3. CASE JobStart
      BY <3>1, <3>2, <3>3 DEF JobStart, Job
    <3>4. CASE JobAlert \/ JobDrain
      BY <1>0, <3>1, <3>4 DEF JobAlert, JobDrain, Job
    <3>5. CASE JobFinish \/ JobRecordFails \/ CrashBot
      BY <1>0, <3>1, <3>2, <3>5 DEF JobFinish, JobRecordFails, CrashBot, Job
    <3> QED BY <1>4, <3>1, <3>3, <3>4, <3>5
  <2>2. \A u \in Users : OpenRows(u)' = OpenRows(u)
    BY <2>1 DEF OpenRows, RowsOf
  <2>3. \A u \in Users : Accounts(OpenRows(u), u)'
    BY <1>3, <2>1, <2>2 DEF Accounts
  <2> QED BY <1>1, <1>2, <2>1, <2>3, SeatEnds
<1>5. CASE JobRevoke
  <2>1. PICK i \in NextInBatch, a \in Outcomes :
          /\ Removes(job.loaded[i].user,
                     IF a = "removed" THEN {job.loaded[i].link} ELSE {},
                     IF a = "removed" THEN {} ELSE {job.loaded[i].link})
          /\ job' = [job EXCEPT !.stage = "record", !.todo = @ \ {i},
                                !.seen = @ \cup {i}, !.cur = i, !.answer = a]
          /\ UNCHANGED sub
    BY <1>5 DEF JobRevoke
  <2>2. i \in SubIds /\ job.loaded[i] = sub[i]
    BY <1>0, <2>1 DEF NextInBatch, AtWork, SeqInv, JobFresh
  <2>3. job'.stage = "record" /\ job'.answer = a /\ job'.cur = i
    BY <1>0, <2>1 DEF Job
  <2>4. /\ inChat' = IF a = "removed" THEN [inChat EXCEPT ![sub[i].user] = FALSE] ELSE inChat
        /\ live' \subseteq live
        /\ a = "removed" => Opens(sub[i].user, sub[i].link) \notin live'
    BY <2>1, <2>2 DEF Removes, Opens
  <2>5. \A u : OpenRows(u)' = OpenRows(u)
    BY <2>1 DEF OpenRows, RowsOf
  <2>6. \A u \in Users : Accounts(OpenRows(u), u)'
    BY <1>0, <1>3, <2>1, <2>4, <2>5 DEF Accounts
  <2>7. LinksHeld' /\ Seated'
    <3>1. \A l \in live' : l.user \in Users
      BY <1>0, <2>4, LiveLinks
    <3> QED BY <2>6, <3>1 DEF LinksHeld, Seated, Accounts
  <2>8. Leaving'
    BY <1>1, <1>2 DEF Leaving
  <2>9. Swept'
    <3> SUFFICES ASSUME a = "removed", NEW u \in Users, sub[i].user = u
                 PROVE  Accounts(OpenRows(u) \ {job.cur}, u)'
      BY <2>1, <2>3 DEF Swept
    <3>1. ~inChat'[u]
      BY <1>0, <2>4
    <3>2. ASSUME NEW l \in live', l.user = u
          PROVE  \E j \in OpenRows(u) \ {i} : sub[j].link = l.n
      <4>1. l = Opens(u, l.n) /\ l \in live
        BY <1>0, <2>4, <3>2, LiveLinks
      <4>2. PICK j \in OpenRows(u) : sub[j].link = l.n
        BY <1>3, <3>2, <4>1 DEF Accounts
      <4> QED BY <2>4, <4>1, <4>2
    <3> QED BY <2>1, <2>3, <2>5, <3>1, <3>2 DEF Accounts
  <2> QED BY <2>7, <2>8, <2>9 DEF SeatInv
<1>6. CASE JobRecord
  <2> DEFINE expiring == job.phase = "expiry"
             permanent == job.answer = "never"
  <2>1. PICK i \in SubIds :
          /\ job.cur = i /\ job.stage = "record"
          /\ sub' = [sub EXCEPT ![i] =
                       RecordAttempt(sub[i], now, job.answer, expiring, permanent)]
    BY <1>0, <1>6, JobWrites DEF JobRecord
  <2>2. UNCHANGED <<inChat, live>> /\ job'.stage # "record"
    BY <1>0, <1>6 DEF JobRecord, Job
  <2>3. \A j \in SubIds : j # i => sub'[j] = sub[j]
    BY <2>1
  <2>4. expiring \in BOOLEAN /\ permanent \in BOOLEAN
        /\ sub'[i] = RecordAttempt(sub[i], now, job.answer, expiring, permanent)
    BY <1>0, <2>1
  <2> HIDE DEF expiring, permanent
  <2>5. sub'[i].link = sub[i].link
    BY <1>0, <2>4, AttemptLink
  <2>6. /\ sub'[i].user = sub[i].user
        /\ job.answer # "removed" => sub'[i].status = sub[i].status
        /\ sub'[i].revoked = (sub[i].revoked \/ job.answer = "removed")
    BY <1>0, <2>4, RecordAttemptKeeps
  <2>7. ASSUME NEW u \in Users, NEW j \in OpenRows(u), j # i \/ job.answer # "removed"
        PROVE  j \in OpenRows(u)' /\ sub'[j].link = sub[j].link
    <3>1. j \in SubIds /\ sub[j].user = u /\ sub[j].status \in AccessHolding /\ ~sub[j].revoked
      BY <2>7, OpenIs
    <3> QED BY <2>3, <2>5, <2>6, <2>7, <3>1 DEF OpenRows, RowsOf
  <2>8. ASSUME NEW u \in Users PROVE Accounts(OpenRows(u), u)'
    <3>1. CASE job.answer = "removed" /\ sub[i].user = u
      <4>1. Accounts(OpenRows(u) \ {i}, u)
        BY <2>1, <3>1 DEF SeatInv, Swept
      <4> QED BY <1>0, <2>2, <2>7, <4>1, Carried
    <3>2. CASE job.answer # "removed" \/ sub[i].user # u
      <4>1. \A j \in OpenRows(u) : j # i \/ job.answer # "removed"
        BY <3>2, OpenIs
      <4> QED BY <1>0, <1>3, <2>2, <2>7, <4>1, Carried
    <3> QED BY <3>1, <3>2
  <2> QED BY <1>1, <1>2, <2>2, <2>8, SeatEnds
<1> QED BY <1>4, <1>5, <1>6 DEF JobStep

LEMMA SeatInit == Init => SeatInv
<1> SUFFICES ASSUME Init PROVE SeatInv
  OBVIOUS
<1>1. SeqInv
  BY SeqInitially
<1>2. AllHeld /\ (\A w \in Workers : tx[w].op = "idle") /\ job.stage # "record"
  BY DEF Init, IdleTx, IdleJob, AllHeld, Accounts
<1> QED BY <1>1, <1>2, HeldAtRest

LEMMA SeatStep == ~Overlap /\ SeatInv /\ [Next /\ NoLinkLost]_vars => SeatInv'
<1> SUFFICES ASSUME ~Overlap, SeatInv, [Next /\ NoLinkLost]_vars PROVE SeatInv'
  OBVIOUS
<1>1. SeqInv'
  BY SeqStep DEF SeatInv
<1>2. CASE UNCHANGED vars
  BY <1>1, <1>2, SeatOutside
<1>3. CASE Next /\ NoLinkLost
  <2>1. LinksKept /\ \A w \in Workers : ~CrashHandler(w)
    BY <1>3 DEF NoLinkLost
  <2>2. CommitStep => SeatInv'
    BY <1>1, <2>1, SeatBuys, SeatLeaves, SeatReturns DEF CommitStep
  <2> QED BY <1>1, <1>3, <2>1, <2>2, SeatOutside, SeatEvent, SeatHandler, SeatJob
       DEF Next, EventStep
<1> QED BY <1>2, <1>3

\* One handler at a time, and unless a link is overwritten or left behind,
\* nobody sits in the chats unaccounted for: whatever is bought, banned,
\* refunded, restored and swept, and whichever commits fail (kick_expired_job,
\* user_action, create_or_extend_subscription).
THEOREM PresenceAccountedCorrect == ~Overlap => (KeptSpec => []PresenceAccounted)
<1> SUFFICES ASSUME ~Overlap PROVE KeptSpec => []PresenceAccounted
  OBVIOUS
<1>1. Init => SeatInv
  BY SeatInit
<1>2. SeatInv /\ [Next /\ NoLinkLost]_vars => SeatInv'
  BY SeatStep
<1>3. SeatInv => PresenceAccounted
  BY DEF SeatInv, Seated, Seats, PresenceAccounted
<1> QED BY <1>1, <1>2, <1>3, PTL DEF KeptSpec

(***************************************************************************)
(* The life of a row, handler by handler, and what AccessLife sees of it.  *)
(***************************************************************************)
\* An expired row has been removed from.
ExpiredIsOut == \A i \in SubIds : sub[i].status = "expired" => sub[i].revoked
LifeInv == SeqInv /\ ExpiredIsOut

Open(r) == r.status \in AccessHolding /\ ~r.revoked

\* All a step may do to a row.
SoldRow(i, u) ==
  /\ sub[i].status = "absent"
  /\ \E pay \in Purchase, n \in Nat : sub'[i] = WithLink(NewRow(u, pay), n)
  /\ \A j \in SubIds : sub[j].user = u => ~HasAccess(sub[j], now)
  /\ \A j \in SubIds \ {i} : sub[j].status = "absent" => sub'[j] = sub[j]
Renewed(i) ==
  /\ HasAccess(sub[i], now)
  /\ \E pay \in Purchase, n \in Nat : sub'[i] = WithLink(Extended(sub[i], pay), n)
Amended(i) ==
  /\ sub[i].status # "absent"
  /\ \/ sub'[i] = Released(sub[i])
     \/ sub'[i] = StartGrace(sub[i], now)
     \/ \E e \in Event : sub'[i] = SubscriptionEvent(sub[i], e)
     \/ sub[i].status = "active" /\ sub'[i] = [sub[i] EXCEPT !.expires = @ + PlanDays]
     \/ sub'[i] = [sub[i] EXCEPT !.comp = ~@]
Attempted(i) ==
  /\ sub[i].status \in AccessHolding
  /\ \E o \in Outcomes \cup {"none"}, m \in BOOLEAN, p \in BOOLEAN :
       /\ sub'[i] = RecordAttempt(sub[i], now, o, m, p)
       /\ banned'[sub[i].user] \/ ~HasAccess(sub[i], now)
Repaid(i) ==
  /\ Open(sub[i])
  /\ \E o \in Outcomes \cup {"none"}, m \in BOOLEAN, p \in BOOLEAN :
       sub'[i] = RecordAttempt(EndForRefund(sub[i], now), now, o, m, p)
Returned(i) ==
  /\ sub[i].status \in AccessHolding /\ sub[i].revoked /\ Entitled(sub[i])
  /\ ~banned'[sub[i].user]
  /\ \E n \in Nat : sub'[i] = Restored(sub[i], n)

Written(i) ==
  \/ sub'[i] = sub[i]
  \/ \E u \in Users : SoldRow(i, u)
  \/ Renewed(i) \/ Amended(i) \/ Attempted(i) \/ Repaid(i) \/ Returned(i)

\* A purchase sells a row or renews one, and releases the others.
LEMMA BuysWritten ==
  ASSUME SeqInv, NEW u \in Users, NEW pay \in Purchase, NEW n \in Nat, NEW i \in SubIds,
         \/ /\ sub[i].status = "absent" /\ sub'[i] = WithLink(NewRow(u, pay), n)
            /\ \A j \in SubIds : sub[j].user = u => ~HasAccess(sub[j], now)
         \/ HasAccess(sub[i], now) /\ sub'[i] = WithLink(Extended(sub[i], pay), n),
         \A j \in SubIds \ {i} :
           sub'[j] = sub[j] \/ (sub[j].psid # NoLink /\ sub'[j] = Released(sub[j]))
  PROVE  \A k \in SubIds : Written(k)
<1>1. \A j \in SubIds : sub[j].status = "absent" => sub[j].psid = NoLink
  BY DEF SeqInv, Blank, NoRow
<1>2. \A j \in SubIds \ {i} : sub[j].status = "absent" => sub'[j] = sub[j]
  BY <1>1
<1>3. \A j \in SubIds \ {i} : Written(j)
  BY <1>1 DEF Written, Amended
<1>4. CASE /\ sub[i].status = "absent" /\ sub'[i] = WithLink(NewRow(u, pay), n)
           /\ \A j \in SubIds : sub[j].user = u => ~HasAccess(sub[j], now)
  <2>1. SoldRow(i, u)
    BY <1>2, <1>4 DEF SoldRow
  <2> QED BY <1>3, <2>1 DEF Written
<1>5. CASE HasAccess(sub[i], now) /\ sub'[i] = WithLink(Extended(sub[i], pay), n)
  BY <1>3, <1>5 DEF Written, Renewed
<1> QED BY <1>4, <1>5

\* Every step but the passing of a day writes rows in these ways only.
LEMMA StepWritten ==
  ASSUME ~Overlap, LifeInv, [Next]_vars, NEW k \in SubIds
  PROVE  Written(k)
<1> SUFFICES ASSUME sub' # sub PROVE Written(k)
  BY DEF Written
<1>0. /\ sub \in [SubIds -> Row] /\ now \in Nat /\ SeqInv /\ TypeInv
      /\ tx \in [Workers -> Tx] /\ banned \in [Users -> BOOLEAN]
  BY DEF LifeInv, SeqInv, TypeInv, TypeOK
<1>1. ASSUME NEW w \in Workers, CommitPurchase(w) PROVE Written(k)
  <2> DEFINE u == tx[w].user  pay == tx[w].pay  n == tx[w].link
  <2>1. u \in Users /\ pay \in Purchase /\ n \in Nat
    BY <1>0, <1>1 DEF TypeInv, IdsKnown, Tx, CommitPurchase
  <2>2. \E i \in SubIds :
          /\ \/ /\ sub[i].status = "absent" /\ sub'[i] = WithLink(NewRow(u, pay), n)
                /\ \A j \in SubIds : sub[j].user = u => ~HasAccess(sub[j], now)
             \/ HasAccess(sub[i], now) /\ sub'[i] = WithLink(Extended(sub[i], pay), n)
          /\ \A j \in SubIds \ {i} :
               sub'[j] = sub[j] \/ (sub[j].psid # NoLink /\ sub'[j] = Released(sub[j]))
    BY <1>0, <1>1, PurchaseWrites
  <2> HIDE DEF u, pay, n
  <2> QED BY <1>0, <2>1, <2>2, BuysWritten
<1>2. ASSUME NEW e \in events, DeliverRenewal(e) PROVE Written(k)
  <2> DEFINE u == Owner[e.psid]  pay == StripePurchase(e.psid, e.end)
  <2>1. u \in Users /\ pay \in Purchase
    BY <1>0, LifecycleAssumption DEF TypeInv, TypeOK, Event, StripePurchase, Purchase,
       Sources, ProviderStatuses, Time
  <2>2. Absent # {}
    <3>1. Quiet
      BY <1>2 DEF DeliverRenewal, Deliver, MayStart
    <3> QED BY <1>2, <3>1, RoomIsThere DEF DeliverRenewal
  <2>3. PICK i \in Target(sub, u) : sub' = Bought(i, u, pay, NothingLoaded, 0)
    BY <1>2 DEF DeliverRenewal
  <2>4. NothingLoaded \in [SubIds -> Row] /\ \A j \in SubIds : NothingLoaded[j] = NoRow
    BY NothingTyped DEF NothingLoaded
  <2>5. Current(sub, u) = {} => \A j \in SubIds : sub[j].user = u => ~HasAccess(sub[j], now)
    BY <1>0, NoCurrent
  <2> HIDE DEF u, pay
  <2>6. /\ i \in SubIds
        /\ \/ /\ sub[i].status = "absent" /\ sub'[i] = WithLink(NewRow(u, pay), 0)
              /\ Current(sub, u) = {}
           \/ HasAccess(sub[i], now) /\ sub'[i] = WithLink(Extended(sub[i], pay), 0)
        /\ \A j \in SubIds \ {i} : sub'[j] = sub[j] \/ (sub[j].psid # NoLink /\ sub'[j] = Released(sub[j]))
    BY <1>0, <2>1, <2>2, <2>3, <2>4, BoughtRows
  <2> QED BY <1>0, <2>1, <2>5, <2>6, BuysWritten
<1>3. ASSUME NEW e \in events, DeliverPaymentFailed(e) \/ DeliverSubscription(e)
      PROVE  Written(k)
  <2>1. e \in Event
    BY <1>0 DEF TypeInv, TypeOK
  <2>2. k \in StripeRows(e.psid) => sub[k].status # "absent"
    BY <1>0 DEF StripeRows, SeqInv, Blank, NoRow
  <2>3. \/ sub'[k] = sub[k]
        \/ /\ k \in StripeRows(e.psid)
           /\ \/ sub'[k] = StartGrace(sub[k], now)
              \/ sub'[k] = SubscriptionEvent(sub[k], e)
    BY <1>3 DEF DeliverPaymentFailed, DeliverSubscription
  <2> QED BY <2>1, <2>2, <2>3 DEF Written, Amended
<1>4. CASE PanelStep
  <2>1. PICK i \in SubIds : ExtendDays(i) \/ SetComp(i)
    BY <1>4 DEF PanelStep
  <2>2. \/ sub'[k] = sub[k]
        \/ /\ sub[k].status # "absent"
           /\ \/ sub[k].status = "active" /\ sub'[k] = [sub[k] EXCEPT !.expires = @ + PlanDays]
              \/ sub'[k] = [sub[k] EXCEPT !.comp = ~@]
    BY <1>0, <2>1 DEF ExtendDays, SetComp
  <2> QED BY <2>2 DEF Written, Amended
<1>5. ASSUME NEW w \in Workers, CommitBan(w) PROVE Written(k)
  <2> DEFINE no == FALSE
  <2>1. tx[w].user \in Users /\ banned' = [banned EXCEPT ![tx[w].user] = TRUE]
    BY <1>0, <1>5, FlagWritten DEF CommitBan, TypeInv, IdsKnown
  <2>2. \/ sub'[k] = sub[k]
        \/ /\ k \in OpenRows(tx[w].user)
           /\ sub'[k] = RecordAttempt(sub[k], now, tx[w].answer[k], no, no)
    BY <1>0, <1>5, BanWrites
  <2>3. tx[w].answer[k] \in Outcomes \cup {"none"} /\ no \in BOOLEAN
    BY <1>0 DEF Tx
  <2> HIDE DEF no
  <2>4. k \in OpenRows(tx[w].user) =>
          sub[k].status \in AccessHolding /\ banned'[sub[k].user]
    BY <1>0, <2>1, OpenIs
  <2> QED BY <2>2, <2>3, <2>4 DEF Written, Attempted
<1>6. ASSUME NEW w \in Workers, CommitRefund(w) PROVE Written(k)
  <2> DEFINE no == FALSE  yes == TRUE
  <2>1. \/ sub'[k] = sub[k]
        \/ /\ k \in OpenRows(tx[w].user)
           /\ sub'[k] = RecordAttempt(EndForRefund(sub[k], now), now, tx[w].answer[k], yes, no)
    BY <1>0, <1>6, RefundWrites
  <2>2. tx[w].answer[k] \in Outcomes \cup {"none"} /\ no \in BOOLEAN /\ yes \in BOOLEAN
    BY <1>0 DEF Tx
  <2> HIDE DEF no, yes
  <2>3. k \in OpenRows(tx[w].user) => Open(sub[k])
    BY OpenIs DEF Open
  <2> QED BY <2>1, <2>2, <2>3 DEF Written, Repaid
<1>7. ASSUME NEW w \in Workers, CommitUnban(w) PROVE Written(k)
  <2>1. tx[w].user \in Users /\ banned' = [banned EXCEPT ![tx[w].user] = FALSE]
    BY <1>0, <1>7, FlagWritten DEF CommitUnban, TypeInv, IdsKnown
  <2>2. \/ sub'[k] = sub[k]
        \/ k \in BanRevoked(tx[w].user) /\ \E n \in Nat : sub'[k] = Restored(sub[k], n)
    BY <1>0, <1>7, UnbanWrites
  <2>3. k \in BanRevoked(tx[w].user) =>
          /\ sub[k].status \in AccessHolding /\ sub[k].revoked /\ sub[k].user = tx[w].user
    BY DEF BanRevoked, RowsOf
  <2>4. \A n \in Nat : Restored(sub[k], n) = sub[k] \/ Entitled(sub[k])
    BY DEF Restored
  <2> QED BY <1>0, <2>1, <2>2, <2>3, <2>4 DEF Written, Returned
<1>8. CASE JobRecord
  <2> DEFINE expiring == job.phase = "expiry"
             permanent == job.answer = "never"
  <2>1. PICK i \in SubIds :
          /\ i \in AtWork /\ job.phase # "idle" /\ sub[i].status \in AccessHolding
          /\ sub' = [sub EXCEPT ![i] = RecordAttempt(sub[i], now, job.answer, expiring, permanent)]
    BY <1>0, <1>8, JobWrites
  <2>2. banned[sub[i].user] \/ ~HasAccess(sub[i], now)
    BY <1>0, <2>1 DEF SeqInv, JobFresh, TypeInv, TypeOK, Job, Phases
  <2>3. UNCHANGED banned /\ job.answer \in Outcomes \cup {"none"}
        /\ expiring \in BOOLEAN /\ permanent \in BOOLEAN
    BY <1>0, <1>8 DEF JobRecord, JobOnly, TypeInv, TypeOK, Job
  <2> HIDE DEF expiring, permanent
  <2> QED BY <1>0, <2>1, <2>2, <2>3 DEF Written, Attempted
<1>9. \/ PanelStep \/ JobRecord
      \/ \E w \in Workers : CommitPurchase(w) \/ CommitBan(w) \/ CommitUnban(w) \/ CommitRefund(w)
      \/ \E e \in events : DeliverRenewal(e) \/ DeliverPaymentFailed(e) \/ DeliverSubscription(e)
  <2>1. ~(UNCHANGED vars \/ Tick \/ (\E l \in live : Join(l)) \/ StripeStep)
    BY DEF vars, Tick, Join, StripeStep, Checkout, RemoteRenew, RemoteRenewFails, RemoteRecovers,
       RemoteCancel, RemoteStep
  <2>2. ~HandlerStep
    <3>1. \A w \in Workers : ~CrashHandler(w) /\ \A r : ~Begin(w, r)
      BY DEF CrashHandler, Begin
    <3>2. \A w \in Workers : \A u, pay, e, bought : ~BeginPurchase(w, u, pay, e, bought)
      BY <3>1 DEF BeginPurchase
    <3>3. \A w \in Workers : \A op, u, ids : ~BeginRemoval(w, op, u, ids)
      BY <3>1 DEF BeginRemoval
    <3>4. \A w \in Workers, u \in Users : ~BeginUnban(w, u)
      BY <3>1 DEF BeginUnban
    <3> QED BY <3>1, <3>2, <3>3, <3>4 DEF HandlerStep, BeginFirstInvoice, BeginUsdt, BeginGift,
       BeginBan, BeginRefund
  <2>3. (JobStep \/ JobRecordFails \/ CrashBot) => JobRecord
    BY DEF JobStep, JobStart, JobRevoke, JobAlert, JobDrain, JobFinish, JobRecordFails, CrashBot
  <2>4. \A e \in events : ~LoseAcknowledged(e)
    BY DEF LoseAcknowledged
  <2> QED BY <2>1, <2>2, <2>3, <2>4 DEF Next, EventStep, CommitStep
<1> QED BY <1>1, <1>2, <1>3, <1>4, <1>5, <1>6, <1>7, <1>8, <1>9

\* The dates a row's access ends by, and what an attempt, a refund and an unban
\* do to them.
LEMMA EndsSame ==
  ASSUME NEW r, NEW s, s.provider = r.provider, s.source = r.source, s.psid = r.psid,
         s.pstatus = r.pstatus, s.cpe = r.cpe, s.expires = r.expires, s.grace = r.grace
  PROVE  AccessEndsAt(s) = AccessEndsAt(r)
BY DEF AccessEndsAt, PaidUntil, HasProviderLifecycle

LEMMA AttemptEnds ==
  ASSUME NEW r \in Row, now \in Nat, NEW o, NEW m \in BOOLEAN, NEW p \in BOOLEAN
  PROVE  AccessEndsAt(RecordAttempt(r, now, o, m, p)) = AccessEndsAt(r)
<1> DEFINE s == RecordAttempt(r, now, o, m, p)
<1>1. /\ s.expires = r.expires /\ s.cpe = r.cpe /\ s.grace = r.grace /\ s.source = r.source
      /\ s.provider = r.provider /\ s.pstatus = r.pstatus /\ s.psid = r.psid
  BY RecordAttemptKeeps, AttemptStays
<1> HIDE DEF s
<1> QED BY <1>1, EndsSame DEF s

LEMMA RefundEnds ==
  ASSUME NEW r \in Row, now \in Nat
  PROVE  AccessEndsAt(EndForRefund(r, now)) = now
<1> DEFINE s == EndForRefund(r, now)
<1>1. s.expires = now /\ s.cpe = now /\ s.grace = NoTime
  BY RefundKeeps
<1> HIDE DEF s
<1>2. PaidUntil(s) = now
  BY <1>1 DEF PaidUntil
<1> QED BY <1>1, <1>2 DEF AccessEndsAt, Later, NoTime, s

LEMMA RestoredEnds ==
  ASSUME NEW r \in Row, NEW n \in Nat
  PROVE  AccessEndsAt(Restored(r, n)) = AccessEndsAt(r)
<1> DEFINE open == [r EXCEPT !.revoked = FALSE, !.retry = NoTime]
<1>1. open \in Row
  BY DEF Row, Time
<1>2. /\ open.expires = r.expires /\ open.cpe = r.cpe /\ open.grace = r.grace
      /\ open.source = r.source /\ open.provider = r.provider /\ open.pstatus = r.pstatus
      /\ open.psid = r.psid
  BY DEF Row
<1>3. Restored(r, n) = IF Entitled(r) THEN WithLink(open, n) ELSE r
  BY DEF Restored
<1> HIDE DEF open
<1> DEFINE linked == WithLink(open, n)
<1>4. /\ linked.expires = open.expires /\ linked.cpe = open.cpe /\ linked.grace = open.grace
      /\ linked.source = open.source /\ linked.provider = open.provider
      /\ linked.pstatus = open.pstatus /\ linked.psid = open.psid
  BY <1>1 DEF WithLink, Row
<1> HIDE DEF linked
<1>5. AccessEndsAt(linked) = AccessEndsAt(r)
  BY <1>2, <1>4, EndsSame
<1> QED BY <1>3, <1>5 DEF linked

\* What a provider event, a release and the panel leave of a row.
LEMMA AmendedLife ==
  ASSUME LifeInv, NEW k \in SubIds, Amended(k)
  PROVE  /\ sub'[k].user = sub[k].user /\ LifeOf(sub'[k]) = LifeOf(sub[k])
         /\ sub'[k].status = "expired" => sub'[k].revoked
<1> DEFINE r == sub[k]
           s == sub'[k]
<1>0. /\ r \in Row /\ now \in Nat /\ r.status # "absent"
      /\ r.status = "expired" => r.revoked
  BY DEF LifeInv, SeqInv, TypeInv, TypeOK, ExpiredIsOut, Amended
<1>1. CASE \E e \in Event : s = SubscriptionEvent(r, e)
  <2>1. PICK e \in Event : s = SubscriptionEvent(r, e)
    BY <1>1
  <2> DEFINE status == IF e.type = "deleted" \/ e.status = "canceled"
                       THEN "cancelled"
                       ELSE IF e.status \in AccessRestored /\ r.status = "cancelled"
                       THEN "active" ELSE r.status
  <2>2. s = [r EXCEPT !.pstatus = e.status, !.cpe = e.end, !.status = status]
    BY <2>1 DEF SubscriptionEvent
  <2>3. \/ status \in AccessHolding /\ r.status \in AccessHolding \cup {"expired"}
        \/ status = r.status
    BY <1>0 DEF AccessHolding, Row, Statuses
  <2> HIDE DEF status
  <2>4. s.user = r.user /\ s.status = status /\ s.revoked = r.revoked
    BY <1>0, <2>2 DEF Row
  <2> HIDE DEF r, s
  <2> QED BY <1>0, <2>3, <2>4 DEF LifeOf, AccessHolding, r, s
<1>2. CASE s = StartGrace(r, now)
  <2> DEFINE grace == Later(r.grace, Later(IF r.cpe # NoTime THEN r.cpe ELSE r.expires, now) + GraceDays)
  <2>1. s = [r EXCEPT !.grace = grace, !.pstatus = "past_due"]
    BY <1>2 DEF StartGrace
  <2> HIDE DEF grace
  <2>2. s.user = r.user /\ s.status = r.status /\ s.revoked = r.revoked
    BY <1>0, <2>1 DEF Row
  <2> QED BY <1>0, <2>2 DEF LifeOf
<1>3. CASE \/ s = Released(r) \/ s = [r EXCEPT !.expires = @ + PlanDays]
           \/ s = [r EXCEPT !.comp = ~@]
  <2>1. s.user = r.user /\ s.status = r.status /\ s.revoked = r.revoked
    BY <1>0, <1>3 DEF Released, Row
  <2> QED BY <1>0, <2>1 DEF LifeOf
<1> QED BY <1>1, <1>2, <1>3 DEF Amended

\* A removal closes a row of a banned member or one whose time is over.
LEMMA AttemptedLife ==
  ASSUME LifeInv, NEW k \in SubIds, Attempted(k) \/ Repaid(k)
  PROVE  /\ sub'[k].user = sub[k].user
         /\ sub'[k].status = "expired" => sub'[k].revoked
         /\ \/ LifeOf(sub'[k]) = LifeOf(sub[k])
            \/ /\ LifeOf(sub[k]) = "open" /\ LifeOf(sub'[k]) = "closed"
               /\ banned'[sub[k].user] \/ AccessEndsAt(sub'[k]) <= now
<1> DEFINE r == sub[k]
           s == sub'[k]
<1>0. r \in Row /\ now \in Nat /\ r.status \in AccessHolding
  BY DEF LifeInv, SeqInv, TypeInv, TypeOK, Attempted, Repaid, Open
<1>1. CASE Attempted(k)
  <2>1. PICK o \in Outcomes \cup {"none"}, m \in BOOLEAN, p \in BOOLEAN :
          /\ s = RecordAttempt(r, now, o, m, p)
          /\ banned'[r.user] \/ ~HasAccess(r, now)
    BY <1>1 DEF Attempted
  <2>2. /\ s.user = r.user /\ s.status \in {r.status, "expired"}
        /\ o # "removed" => s.status = r.status
        /\ s.revoked = (r.revoked \/ o = "removed")
    BY <1>0, <2>1, RecordAttemptKeeps
  <2>3. AccessEndsAt(s) = AccessEndsAt(r)
    BY <1>0, <2>1, AttemptEnds
  <2>4. ~HasAccess(r, now) => r.revoked \/ AccessEndsAt(r) <= now
    <3>1. AccessEndsAt(r) \in Int
      BY <1>0 DEF AccessEndsAt, PaidUntil, Later, Row, Time, NoTime
    <3> QED BY <1>0, <3>1 DEF HasAccess
  <2>5. r.revoked \in BOOLEAN
    BY <1>0 DEF Row
  <2> HIDE DEF r, s
  <2> QED BY <1>0, <2>1, <2>2, <2>3, <2>4, <2>5 DEF LifeOf, AccessHolding, r, s
<1>2. CASE Repaid(k)
  <2>1. PICK o \in Outcomes \cup {"none"}, m \in BOOLEAN, p \in BOOLEAN :
          s = RecordAttempt(EndForRefund(r, now), now, o, m, p)
    BY <1>2 DEF Repaid
  <2> DEFINE ended == EndForRefund(r, now)
  <2>2. /\ ended \in Row /\ ended.user = r.user /\ ended.status = "cancelled"
        /\ ended.revoked = r.revoked
    BY <1>0, RefundKeeps
  <2>3. AccessEndsAt(ended) = now
    BY <1>0, RefundEnds
  <2> HIDE DEF ended
  <2>4. /\ s.user = ended.user /\ s.status = ended.status
        /\ s.revoked = (ended.revoked \/ o = "removed")
    BY <1>0, <2>1, <2>2, RecordAttemptKeeps DEF ended
  <2>5. AccessEndsAt(s) = AccessEndsAt(ended)
    BY <1>0, <2>1, <2>2, AttemptEnds DEF ended
  <2>6. r.revoked \in BOOLEAN
    BY <1>0 DEF Row
  <2> HIDE DEF r, s
  <2> QED BY <1>0, <2>2, <2>3, <2>4, <2>5, <2>6 DEF LifeOf, AccessHolding, r, s
<1> QED BY <1>1, <1>2

\* What a step does to the life of a row.
LEMMA RowLife ==
  ASSUME LifeInv, NEW k \in SubIds, Written(k)
  PROVE  /\ sub[k].status # "absent" => sub'[k].user = sub[k].user
         /\ sub'[k].status = "expired" => sub'[k].revoked
         /\ \/ LifeOf(sub'[k]) = LifeOf(sub[k])
            \/ /\ LifeOf(sub[k]) = "none" /\ LifeOf(sub'[k]) = "open"
               /\ sub'[k].user \in Users /\ SoldRow(k, sub'[k].user)
            \/ /\ LifeOf(sub[k]) = "open" /\ LifeOf(sub'[k]) = "closed"
               /\ banned'[sub[k].user] \/ AccessEndsAt(sub'[k]) <= now
            \/ /\ LifeOf(sub[k]) = "closed" /\ LifeOf(sub'[k]) = "open"
               /\ ~banned'[sub[k].user]
               /\ sub'[k].comp \/ AccessEndsAt(sub'[k]) > now
<1>0. /\ sub[k] \in Row /\ now \in Nat
      /\ sub[k].status = "expired" => sub[k].revoked
  BY DEF LifeInv, SeqInv, TypeInv, TypeOK, ExpiredIsOut
<1>1. CASE sub'[k] = sub[k]
  BY <1>0, <1>1
<1>2. ASSUME NEW u \in Users, SoldRow(k, u)
      PROVE  /\ LifeOf(sub[k]) = "none" /\ LifeOf(sub'[k]) = "open" /\ sub'[k].user = u
             /\ sub[k].status = "absent" /\ sub'[k].status = "active"
  <2>1. PICK pay \in Purchase, n \in Nat : sub'[k] = WithLink(NewRow(u, pay), n)
    BY <1>2 DEF SoldRow
  <2>2. sub'[k].user = u /\ sub'[k].status = "active" /\ ~sub'[k].revoked
    BY <1>0, <2>1, NewRowIs
  <2> QED BY <1>2, <2>2 DEF SoldRow, LifeOf, AccessHolding
<1>3. CASE Renewed(k)
  <2>1. PICK pay \in Purchase, n \in Nat : sub'[k] = WithLink(Extended(sub[k], pay), n)
    BY <1>3 DEF Renewed
  <2>2. /\ sub'[k].user = sub[k].user /\ sub'[k].status = sub[k].status
        /\ sub'[k].revoked = sub[k].revoked
    BY <1>0, <2>1, ExtendedIs
  <2> QED BY <1>0, <2>2 DEF LifeOf
<1>4. CASE Amended(k)
  BY <1>4, AmendedLife
<1>5. CASE Attempted(k) \/ Repaid(k)
  BY <1>5, AttemptedLife
<1>6. CASE Returned(k)
  <2>1. PICK n \in Nat : sub'[k] = Restored(sub[k], n)
    BY <1>6 DEF Returned
  <2>2. /\ sub'[k].user = sub[k].user /\ sub'[k].status = sub[k].status
        /\ sub'[k].comp = sub[k].comp /\ ~sub'[k].revoked
        /\ AccessEndsAt(sub'[k]) = AccessEndsAt(sub[k])
    BY <1>0, <1>6, <2>1, RestoredKeeps, RestoredEnds DEF Returned
  <2> QED BY <1>6, <2>2 DEF Returned, Entitled, LifeOf, AccessHolding
<1> QED BY <1>1, <1>2, <1>3, <1>4, <1>5, <1>6 DEF Written

\* Only the clock moves the day.
LEMMA DayOrWork ==
  ASSUME [Next]_vars
  PROVE  Tick \/ now' = now
<1>1. ASSUME HandlerStep PROVE now' = now
  <2>1. \A w \in Workers : (CrashHandler(w) => now' = now) /\ \A r : Begin(w, r) => now' = now
    BY DEF CrashHandler, Begin
  <2>2. \A w \in Workers : \A u, pay, e, bought : BeginPurchase(w, u, pay, e, bought) => now' = now
    BY <2>1 DEF BeginPurchase
  <2>3. \A w \in Workers : \A op, u, ids : BeginRemoval(w, op, u, ids) => now' = now
    BY <2>1 DEF BeginRemoval
  <2>4. \A w \in Workers, u \in Users : BeginUnban(w, u) => now' = now
    BY <2>1 DEF BeginUnban
  <2> QED BY <1>1, <2>1, <2>2, <2>3, <2>4 DEF HandlerStep, BeginFirstInvoice, BeginUsdt, BeginGift,
     BeginBan, BeginRefund
<1>2. CommitStep => now' = now
  BY DEF CommitStep, CommitPurchase, CommitBan, CommitUnban, CommitRefund, CommitRows
<1>3. EventStep \/ StripeStep \/ (\E l \in live : Join(l)) => now' = now
  BY DEF EventStep, DeliverRenewal, DeliverPaymentFailed, DeliverSubscription, Deliver,
     LoseAcknowledged, StripeStep, Checkout, RemoteRenew, RemoteRenewFails, RemoteRecovers,
     RemoteCancel, RemoteStep, Join
<1>4. PanelStep => now' = now
  BY DEF PanelStep, ExtendDays, SetComp
<1>5. JobStep \/ JobRecordFails \/ CrashBot => now' = now
  BY DEF JobStep, JobStart, JobRevoke, JobRecord, JobAlert, JobDrain, JobFinish,
     JobRecordFails, CrashBot, JobOnly
<1> QED BY <1>1, <1>2, <1>3, <1>4, <1>5 DEF Next, vars

LEMMA LifeInitially == Init => LifeInv
<1> SUFFICES ASSUME Init PROVE LifeInv
  OBVIOUS
<1>1. ExpiredIsOut
  BY DEF Init, NoRow, ExpiredIsOut
<1> QED BY <1>1, SeqInitially DEF LifeInv

LEMMA LifeInvStep == ~Overlap /\ LifeInv /\ [Next]_vars => LifeInv'
<1> SUFFICES ASSUME ~Overlap, LifeInv, [Next]_vars PROVE LifeInv'
  OBVIOUS
<1>1. \A k \in SubIds : sub'[k].status = "expired" => sub'[k].revoked
  BY StepWritten, RowLife
<1>2. ExpiredIsOut'
  BY <1>1 DEF ExpiredIsOut
<1> QED BY <1>2, SeqStep DEF LifeInv

\* A day is a Day, and every other step the Work of some rows, one sale at most.
LEMMA LifeStep ==
  ASSUME ~Overlap, LifeInv, [Next]_vars
  PROVE  [Life!Next]_<<now, [i \in SubIds |-> LifeOf(sub[i])], [i \in SubIds |-> sub[i].user],
                       [i \in SubIds |-> AccessEndsAt(sub[i])], [i \in SubIds |-> sub[i].comp],
                       banned>>
<1>1. CASE Tick
  <2>1. now' = now + 1 /\ UNCHANGED <<sub, banned>>
    BY <1>1 DEF Tick
  <2>2. Life!Day
    BY <2>1 DEF Life!Day
  <2> QED BY <2>2 DEF Life!Next
<1>2. CASE now' = now
  <2>1. \A k \in SubIds : Written(k)
    BY StepWritten
  <2>2. \A k \in SubIds :
          /\ sub[k].status # "absent" => sub'[k].user = sub[k].user
          /\ \/ LifeOf(sub'[k]) = LifeOf(sub[k])
             \/ /\ LifeOf(sub[k]) = "none" /\ LifeOf(sub'[k]) = "open"
                /\ sub'[k].user \in Users /\ SoldRow(k, sub'[k].user)
             \/ /\ LifeOf(sub[k]) = "open" /\ LifeOf(sub'[k]) = "closed"
                /\ banned'[sub[k].user] \/ AccessEndsAt(sub'[k]) <= now
             \/ /\ LifeOf(sub[k]) = "closed" /\ LifeOf(sub'[k]) = "open"
                /\ ~banned'[sub[k].user]
                /\ sub'[k].comp \/ AccessEndsAt(sub'[k]) > now
    BY <2>1, RowLife
  <2>3. \A k \in SubIds : LifeOf(sub[k]) # "none" => sub[k].status # "absent"
    BY DEF LifeOf
  <2>4. \A k \in SubIds : Life!Keeps(k) \/ Life!Sell(k) \/ Life!Close(k) \/ Life!Reopen(k)
    <3> SUFFICES ASSUME NEW k \in SubIds
                 PROVE  Life!Keeps(k) \/ Life!Sell(k) \/ Life!Close(k) \/ Life!Reopen(k)
      OBVIOUS
    <3>1. CASE LifeOf(sub'[k]) = LifeOf(sub[k])
      BY <3>1 DEF Life!Keeps
    <3>2. CASE /\ LifeOf(sub[k]) = "none" /\ LifeOf(sub'[k]) = "open"
               /\ sub'[k].user \in Users /\ SoldRow(k, sub'[k].user)
      <4>1. \A j \in SubIds : Life!Access(j) => HasAccess(sub[j], now)
        BY DEF Life!Access, Life!Left, LifeOf, HasAccess
      <4>2. \A j \in SubIds : sub[j].user = sub'[k].user => ~Life!Access(j)
        BY <3>2, <4>1 DEF SoldRow
      <4> QED BY <3>2, <4>2 DEF Life!Sell
    <3>3. CASE /\ LifeOf(sub[k]) = "open" /\ LifeOf(sub'[k]) = "closed"
               /\ banned'[sub[k].user] \/ AccessEndsAt(sub'[k]) <= now
      BY <3>3 DEF Life!Close
    <3>4. CASE /\ LifeOf(sub[k]) = "closed" /\ LifeOf(sub'[k]) = "open"
               /\ ~banned'[sub[k].user]
               /\ sub'[k].comp \/ AccessEndsAt(sub'[k]) > now
      BY <1>2, <3>4 DEF Life!Reopen, Life!Left
    <3> QED BY <2>2, <3>1, <3>2, <3>3, <3>4
  <2>5. \A i \in SubIds : [k \in SubIds |-> LifeOf(sub[k])][i] # "none" =>
          [k \in SubIds |-> sub[k].user]'[i] = [k \in SubIds |-> sub[k].user][i]
    BY <2>2, <2>3
  <2>6. ASSUME NEW i \in SubIds, NEW j \in SubIds, Life!Sell(i), Life!Sell(j)
        PROVE  i = j
    <3>1. \A k \in {i, j} : LifeOf(sub[k]) = "none" /\ LifeOf(sub'[k]) = "open"
      BY <2>6 DEF Life!Sell
    <3>2. SoldRow(i, sub'[i].user) /\ sub[j].status = "absent"
      BY <2>2, <3>1 DEF LifeOf
    <3>3. i # j => sub'[j] = sub[j]
      BY <3>2 DEF SoldRow
    <3> QED BY <3>1, <3>3
  <2>7. Life!Work
    BY <1>2, <2>4, <2>5, <2>6 DEF Life!Work
  <2> QED BY <2>7 DEF Life!Next
<1> QED BY <1>1, <1>2, DayOrWork

\* One handler at a time, the subscriptions table does what AccessLife lets a
\* row do: a purchase opens one row and none beside a row that gives access; a
\* row is closed because its time is over or its member banned; it opens again
\* only for a member who is not banned, and if something of it is left
\* (create_or_extend_subscription, record_access_revoke_attempt,
\* end_access_for_refund, user_action).
THEOREM ImplementsAccessLifeCorrect == ~Overlap => (Spec => ImplementsAccessLife)
<1> SUFFICES ASSUME ~Overlap PROVE Spec => ImplementsAccessLife
  OBVIOUS
<1>1. Init => Life!Init
  <2> SUFFICES ASSUME Init PROVE Life!Init
    OBVIOUS
  <2>1. \A i \in SubIds : LifeOf(sub[i]) = "none"
    BY DEF Init, NoRow, LifeOf
  <2> QED BY <2>1 DEF Init, Life!Init
<1>2. LifeInv /\ [Next]_vars => LifeInv'
  BY LifeInvStep
<1>3. LifeInv /\ [Next]_vars =>
        [Life!Next]_<<now, [i \in SubIds |-> LifeOf(sub[i])], [i \in SubIds |-> sub[i].user],
                      [i \in SubIds |-> AccessEndsAt(sub[i])], [i \in SubIds |-> sub[i].comp],
                      banned>>
  BY LifeStep
<1> QED BY <1>1, <1>2, <1>3, LifeInitially, PTL DEF Spec, ImplementsAccessLife, Life!Spec
=============================================================================
