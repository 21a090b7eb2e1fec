-------------------------- MODULE CancellationProofs --------------------------
(***************************************************************************)
(* In every instance of Cancellation - any number of contracts, rows and   *)
(* presses at once - the flag is proof that the provider has stopped; and  *)
(* with one press at a time a refused request stays in the queue.          *)
(***************************************************************************)
EXTENDS CancellationProperties, FiniteSetTheorems, TLAPS

States == {"none", "charging", "stopped"}
Pressing == [row : RowIds \cup {0}, psid : Contracts \cup {NoContract}, again : BOOLEAN, stopped : BOOLEAN]

Typed ==
  /\ contract \in [Contracts -> States]
  /\ subs \in [RowIds -> Rows]
  /\ press \in [Presses -> Pressing]
  /\ refused \in [RowIds -> Contracts \cup {NoContract}] /\ switched \subseteq RowIds

OneLive == \A i, j \in LiveRows : i = j
OneClaim == \A i, j \in RowIds : subs[i].psid # NoContract /\ subs[i].psid = subs[j].psid => i = j

\* The row says that the provider has stopped charging.
Says(r) == r.flag \/ r.status = "cancelled"
Stopped(k) == k # NoContract /\ contract[k] = "stopped"
FlagHolds ==
  \A i \in RowIds \ switched : subs[i].psid # NoContract /\ Says(subs[i]) => Stopped(subs[i].psid)

\* What an open press remembers: a "yes" of the provider stays true, and its row
\* is still on the contract it asked about, or on none, unless it is switched.
PressKnows(h) ==
  press[h] # Idle =>
    /\ press[h].row \in RowIds
    /\ press[h].stopped => Stopped(press[h].psid)
    /\ press[h].row \notin switched => subs[press[h].row].psid \in {press[h].psid, NoContract}
PressesKnow == \A h \in Presses : PressKnows(h)

FInv == Typed /\ OneLive /\ OneClaim /\ FlagHolds /\ PressesKnow

(***************************************************************************)
(* The operators.                                                          *)
(***************************************************************************)
LEMMA RowParts ==
  ASSUME NEW r \in Rows
  PROVE  /\ r = [live |-> r.live, by |-> r.by, psid |-> r.psid, status |-> r.status,
                 flag |-> r.flag, state |-> r.state, resolved |-> r.resolved]
         /\ r.live \in BOOLEAN /\ r.flag \in BOOLEAN /\ r.resolved \in BOOLEAN
         /\ r.psid \in Contracts \cup {NoContract} /\ r.status \in {"other", "cancelled"}
         /\ r.state \in {"none", "manual", "confirmed"}
BY DEF Rows

LEMMA EventSays ==
  ASSUME NEW s, NEW f \in BOOLEAN
  PROVE  Event(s, f).status = s /\ Event(s, f).flag = f
BY DEF Event

\* A purchase: the row gives access and has no flag; a gift leaves what the
\* provider said.
LEMMA PaidRow ==
  ASSUME NEW r \in Rows, NEW by \in {"stripe", "lava", "usdt", "gift"},
         NEW k \in Contracts \cup {NoContract}
  PROVE  /\ Paid(r, by, k) \in Rows
         /\ Paid(r, by, k).live /\ ~Paid(r, by, k).flag
         /\ Paid(r, by, k).psid = IF k = NoContract THEN r.psid ELSE k
         /\ Paid(r, by, k).state = r.state /\ Paid(r, by, k).resolved = r.resolved
         /\ by # "gift" => Paid(r, by, k).status = "other"
         /\ Paid(r, by, k).status \in {"other", r.status}
BY DEF Paid, Rows

LEMMA ReleasedRow ==
  ASSUME NEW r \in Rows
  PROVE  /\ Released(r) \in Rows /\ Released(r).psid = NoContract /\ Released(r).status = "other"
         /\ Released(r).live = r.live /\ Released(r).flag = r.flag
         /\ Released(r).state = r.state /\ Released(r).resolved = r.resolved
BY DEF Released, Rows

\* The commit of a press touches the flag only with a "yes".
LEMMA RecordedRow ==
  ASSUME NEW r \in Rows, NEW p \in Pressing
  PROVE  /\ Recorded(r, p) \in Rows
         /\ Recorded(r, p).live = r.live /\ Recorded(r, p).psid = r.psid
         /\ Recorded(r, p).status = r.status /\ Recorded(r, p).resolved = r.resolved
         /\ Recorded(r, p).flag => r.flag \/ p.stopped
BY DEF Recorded, Rows, Pressing

LEMMA RefusedRow ==
  ASSUME NEW r \in Rows, NEW p \in Pressing, ~p.stopped, p.again => r.state = "manual"
  PROVE  /\ Recorded(r, p).state = "manual" /\ Recorded(r, p).psid = r.psid
         /\ Recorded(r, p).flag => r.flag
         /\ Recorded(r, p).status = r.status
BY DEF Recorded, Rows, Pressing

\* What the provider has said of a contract is true of it.
LEMMA DeliveredSays ==
  ASSUME contract \in [Contracts -> States], NEW k \in Contracts, NEW e \in Events(k)
  PROVE  /\ e.status \in {"other", "cancelled"} /\ e.flag \in BOOLEAN
         /\ e.flag \/ e.status = "cancelled" => contract[k] = "stopped"
<1>1. contract[k] \in States
  OBVIOUS
<1>2. CASE contract[k] = "none"
  BY <1>2 DEF Events
<1>3. CASE contract[k] = "charging"
  <2>1. e = Event("other", FALSE)
    BY <1>3 DEF Events
  <2> QED BY <2>1, EventSays
<1>4. CASE contract[k] = "stopped"
  <2>1. PICK status \in {"other", "cancelled"}, flag \in BOOLEAN : e = Event(status, flag)
    BY <1>4 DEF Events
  <2> QED BY <1>4, <2>1, EventSays
<1> QED BY <1>1, <1>2, <1>3, <1>4 DEF States

\* At most one row gives access.
LEMMA LiveCounted == OneLive => Cardinality(LiveRows) <= 1
<1>1. CASE LiveRows = {}
  BY <1>1, FS_EmptySet
<1>2. CASE LiveRows # {}
  <2>1. PICK i : i \in LiveRows
    BY <1>2
  <2>2. OneLive => LiveRows = {i}
    BY <2>1 DEF OneLive
  <2>3. Cardinality({i}) = 1
    BY FS_Singleton
  <2> QED BY <2>2, <2>3
<1> QED BY <1>1, <1>2

LEMMA FlagIsProofFollows == FInv => FlagIsProof
<1> SUFFICES ASSUME FInv PROVE FlagIsProof
  OBVIOUS
<1>1. CancelTypeOK
  BY LiveCounted DEF FInv, Typed, OneClaim, CancelTypeOK, States, Pressing
<1> QED BY <1>1 DEF FInv, FlagHolds, FlagIsProof, Says, Stopped

LEMMA FlagInit == CancelInit => FInv
<1> SUFFICES ASSUME CancelInit PROVE FInv
  OBVIOUS
<1> USE CancellationAssumption DEF CancelInit, Absent, Idle
<1>1. Typed
  BY DEF Typed, States, Rows, Pressing
<1>2. OneLive /\ OneClaim /\ FlagHolds /\ PressesKnow
  BY DEF OneLive, LiveRows, OneClaim, FlagHolds, Says, PressesKnow, PressKnows
<1> QED BY <1>1, <1>2 DEF FInv

(***************************************************************************)
(* The steps.                                                              *)
(***************************************************************************)
\* Rows that keep their contract and give no more access than before, and say
\* that the charge has stopped only when it has.
LEMMA RowsSettle ==
  ASSUME FInv,
         subs' \in [RowIds -> Rows],
         LiveRows' \subseteq LiveRows,
         \A i \in RowIds : /\ subs'[i].psid = subs[i].psid
                           /\ i \notin switched /\ Says(subs'[i]) /\ subs[i].psid # NoContract
                                => Stopped(subs[i].psid),
         contract' \in [Contracts -> States],
         \A k \in Contracts : Stopped(k) => contract'[k] = "stopped",
         press' \in [Presses -> Pressing],
         \A h \in Presses : press'[h] \in {Idle, press[h]} \/ PressKnows(h)',
         refused' \in [RowIds -> Contracts \cup {NoContract}], switched' = switched
  PROVE  FInv'
<1> USE DEF FInv
<1>1. Typed'
  BY DEF Typed
<1>2. OneLive' /\ OneClaim'
  BY DEF OneLive, LiveRows, OneClaim
<1>3. \A k \in Contracts \cup {NoContract} : Stopped(k) => Stopped(k)'
  BY DEF Stopped
<1>4. FlagHolds'
  BY <1>3 DEF FlagHolds, Stopped, Typed, Rows
<1>5. ASSUME NEW h \in Presses PROVE PressKnows(h)'
  <2>1. CASE PressKnows(h)'
    BY <2>1
  <2>2. CASE press'[h] = Idle
    BY <2>2 DEF PressKnows
  <2>3. CASE press'[h] = press[h]
    <3>1. PressKnows(h) /\ press[h] \in Pressing
      BY DEF PressesKnow, Typed
    <3> QED BY <2>3, <3>1, <1>3 DEF PressKnows, Pressing
  <2> QED BY <2>1, <2>2, <2>3
<1> QED BY <1>1, <1>2, <1>4, <1>5 DEF PressesKnow

\* A purchase: one row is on the contract afterwards, and says nothing of it.
LEMMA Receiving ==
  ASSUME FInv, NEW by \in {"stripe", "lava", "usdt", "gift"}, NEW k \in Contracts \cup {NoContract},
         by = "gift" => k = NoContract,
         k # NoContract => ~Stopped(k),
         Receive(by, k),
         contract' \in [Contracts -> States],
         \A c \in Contracts : Stopped(c) => contract'[c] = "stopped",
         UNCHANGED <<press, refused>>
  PROVE  FInv'
<1> USE DEF FInv
<1>1. PICK i \in RowIds :
        /\ LiveRows # {} => i \in LiveRows
        /\ subs' = [j \in RowIds |->
                     IF j = i THEN Paid(subs[i], by, k)
                     ELSE IF k # NoContract /\ subs[j].psid = k THEN Released(subs[j])
                     ELSE subs[j]]
        /\ switched' = IF k \in {NoContract, subs[i].psid} THEN switched
                      ELSE IF \E h \in Presses : press[h].row = i THEN switched \cup {i}
                      ELSE switched \ {i}
  BY DEF Receive, LiveRows, Free
<1>2. \A j \in RowIds : subs[j] \in Rows
  BY DEF Typed
<1>3. subs'[i] = Paid(subs[i], by, k)
  BY <1>1
<1>4. ASSUME NEW j \in RowIds, j # i
      PROVE  /\ subs'[j] \in Rows /\ subs'[j].live = subs[j].live
             /\ subs'[j] = subs[j] \/ (subs'[j].psid = NoContract /\ k # NoContract /\ subs[j].psid = k)
             /\ k # NoContract => subs'[j].psid # k
  BY <1>1, <1>2, <1>4, ReleasedRow
<1>5. /\ subs'[i] \in Rows /\ subs'[i].live /\ ~subs'[i].flag
      /\ subs'[i].psid = IF k = NoContract THEN subs[i].psid ELSE k
      /\ k # NoContract => subs'[i].status = "other"
      /\ subs'[i].status \in {"other", subs[i].status}
  BY <1>2, <1>3, PaidRow
<1>6. Typed'
  BY <1>1, <1>4, <1>5 DEF Typed
<1>7. OneLive'
  BY <1>1, <1>4 DEF OneLive, LiveRows
<1>8. OneClaim'
  BY <1>4, <1>5 DEF OneClaim
<1>9. \A c \in Contracts \cup {NoContract} : Stopped(c) => Stopped(c)'
  BY DEF Stopped
<1>10. FlagHolds'
  <2> SUFFICES ASSUME NEW j \in RowIds, j \notin switched', subs'[j].psid # NoContract, Says(subs'[j])
               PROVE  contract'[subs'[j].psid] = "stopped"
    BY DEF FlagHolds, Stopped
  <2>1. CASE j = i
    <3>1. k = NoContract /\ subs'[i].psid = subs[i].psid /\ i \notin switched /\ Says(subs[i])
      BY <1>1, <1>5, <2>1 DEF Says
    <3> QED BY <2>1, <3>1, <1>2, <1>9 DEF FlagHolds, Rows, Stopped
  <2>2. CASE j # i
    <3>1. subs'[j] = subs[j] /\ j \notin switched
      BY <1>1, <1>4, <2>2
    <3> QED BY <3>1, <1>2, <1>9 DEF FlagHolds, Rows, Stopped
  <2> QED BY <2>1, <2>2
<1>11. ASSUME NEW h \in Presses PROVE PressKnows(h)'
  <2> SUFFICES ASSUME press[h] # Idle PROVE PressKnows(h)'
    BY DEF PressKnows
  <2>1. PressKnows(h) /\ press[h] \in Pressing /\ press'[h] = press[h]
    BY DEF PressesKnow, Typed
  <2> DEFINE j == press[h].row
  <2>2. j \in RowIds
    BY <2>1 DEF PressKnows
  <2>3. j \notin switched' => subs'[j].psid \in {press[h].psid, NoContract}
    <3>1. CASE j = i
      BY <1>1, <1>5, <2>1, <3>1 DEF PressKnows
    <3>2. CASE j # i
      BY <1>1, <1>4, <2>1, <2>2, <3>2 DEF PressKnows
    <3> QED BY <3>1, <3>2
  <2> QED BY <2>1, <2>2, <2>3, <1>9 DEF PressKnows, Pressing
<1> QED BY <1>6, <1>7, <1>8, <1>10, <1>11 DEF PressesKnow

LEMMA ReceiveKeeps ==
  ASSUME FInv, NEW k \in Contracts, Charge(k) \/ \E by \in OneTime : Once(by)
  PROVE  FInv'
<1>1. contract \in [Contracts -> States]
  BY DEF FInv, Typed
<1>2. CASE Charge(k)
  BY <1>1, <1>2, CancellationAssumption, Receiving DEF Charge, By, Stopped, States
<1>3. CASE \E by \in OneTime : Once(by)
  BY <1>1, <1>3, CancellationAssumption, Receiving DEF Once, Stopped
<1> QED BY <1>2, <1>3

\* An event only repeats what the provider has done.
LEMMA DeliverKeeps ==
  ASSUME FInv, NEW k \in Contracts, Deliver(k)
  PROVE  FInv'
<1> USE DEF FInv
<1>1. PICK e \in Events(k) :
        subs' = [i \in RowIds |-> IF subs[i].psid = k
                  THEN [subs[i] EXCEPT !.status = e.status, !.flag = e.flag] ELSE subs[i]]
  BY DEF Deliver
<1>2. /\ e.status \in {"other", "cancelled"} /\ e.flag \in BOOLEAN
      /\ e.flag \/ e.status = "cancelled" => contract[k] = "stopped"
  BY DeliveredSays DEF Typed
<1>3. ASSUME NEW i \in RowIds
      PROVE  /\ subs'[i] \in Rows /\ subs'[i].psid = subs[i].psid /\ subs'[i].live = subs[i].live
             /\ subs[i].psid = k => subs'[i].flag = e.flag /\ subs'[i].status = e.status
             /\ subs[i].psid # k => subs'[i] = subs[i]
  BY <1>1, <1>2 DEF Typed, Rows
<1>4. ASSUME NEW i \in RowIds, i \notin switched, Says(subs'[i]), subs[i].psid # NoContract
      PROVE  Stopped(subs[i].psid)
  BY <1>2, <1>3, <1>4 DEF Says, Stopped, FlagHolds
<1>5. subs' \in [RowIds -> Rows]
  BY <1>1, <1>3
<1>6. LiveRows' \subseteq LiveRows
  BY <1>3 DEF LiveRows
<1> QED BY <1>3, <1>4, <1>5, <1>6, RowsSettle DEF Deliver, cancelGhosts, Typed, Stopped

\* What else changes a row but the button and purchases.
LEMMA RestKeeps ==
  ASSUME FInv, \/ \E k \in Contracts : StoppedThere(k)
               \/ \E i \in RowIds : Lapse(i) \/ Resolve(i)
               \/ UNCHANGED cancelVars
  PROVE  FInv'
<1> USE DEF FInv
<1>1. \A i \in RowIds : i \notin switched /\ Says(subs[i]) /\ subs[i].psid # NoContract => Stopped(subs[i].psid)
  BY DEF FlagHolds
<1>2. ASSUME NEW k \in Contracts, StoppedThere(k) PROVE FInv'
  <2>1. LiveRows' \subseteq LiveRows
    BY <1>2 DEF StoppedThere, LiveRows
  <2> QED BY <1>1, <1>2, <2>1, RowsSettle DEF StoppedThere, cancelGhosts, Typed, Stopped, States
<1>3. ASSUME NEW i \in RowIds, Lapse(i) PROVE FInv'
  <2> DEFINE ended == [subs[i] EXCEPT !.live = FALSE]
             reset == [subs[i] EXCEPT !.live = FALSE, !.status = "other", !.flag = FALSE]
  <2>0. subs[i] \in Rows /\ i \in LiveRows
    BY <1>3 DEF Typed, Lapse
  <2>1. /\ ended \in Rows /\ ended.psid = subs[i].psid /\ ~ended.live
        /\ Says(ended) => Says(subs[i])
    BY <2>0 DEF Rows, Says
  <2>2. /\ reset \in Rows /\ reset.psid = subs[i].psid /\ ~reset.live /\ ~Says(reset)
    BY <2>0 DEF Rows, Says
  <2>3. subs' = [subs EXCEPT ![i] = ended] \/ subs' = [subs EXCEPT ![i] = reset]
    BY <1>3 DEF Lapse
  <2> HIDE DEF ended, reset
  <2>4. ASSUME NEW j \in RowIds
        PROVE  /\ subs'[j].psid = subs[j].psid
               /\ Says(subs'[j]) => Says(subs[j])
    BY <2>1, <2>2, <2>3 DEF Typed
  <2>5. subs' \in [RowIds -> Rows] /\ LiveRows' \subseteq LiveRows
    BY <2>0, <2>1, <2>2, <2>3 DEF Typed, LiveRows
  <2>6. UNCHANGED <<contract, press, refused, switched>>
    BY <1>3 DEF Lapse, cancelGhosts
  <2> QED BY <1>1, <2>4, <2>5, <2>6, RowsSettle DEF Typed, Stopped
<1>4. ASSUME NEW i \in RowIds, Resolve(i) PROVE FInv'
  <2>1. ASSUME NEW j \in RowIds
        PROVE  /\ subs'[j] \in Rows /\ subs'[j].psid = subs[j].psid /\ subs'[j].live = subs[j].live
               /\ Says(subs'[j]) => Says(subs[j])
    BY <1>4 DEF Resolve, Typed, Rows, Says
  <2>2. subs' \in [RowIds -> Rows]
    BY <1>4, <2>1 DEF Resolve, Typed
  <2>3. LiveRows' \subseteq LiveRows
    BY <2>1 DEF LiveRows
  <2> QED BY <1>1, <1>4, <2>1, <2>2, <2>3, RowsSettle DEF Resolve, cancelGhosts, Typed, Stopped
<1>5. CASE UNCHANGED cancelVars
  <2>1. LiveRows' \subseteq LiveRows
    BY <1>5 DEF cancelVars, LiveRows
  <2> QED BY <1>1, <1>5, <2>1, RowsSettle DEF cancelVars, cancelGhosts, Typed, Stopped
<1> QED BY <1>2, <1>3, <1>4, <1>5

\* The question to the provider: an answer "yes" means that it has stopped.
LEMMA PressKeeps ==
  ASSUME FInv, NEW h \in Presses, Press(h)
  PROVE  FInv'
<1> USE DEF FInv
<1>1. PICK i \in LiveRows, yes \in BOOLEAN, done \in BOOLEAN :
        /\ yes => subs[i].psid # NoContract
        /\ yes => done \/ contract[subs[i].psid] = "stopped"
        /\ done => Askable(subs[i])
        /\ press' = [press EXCEPT ![h] = [row |-> i, psid |-> subs[i].psid,
                                         again |-> subs[i].state = "manual", stopped |-> yes]]
        /\ contract' = IF done THEN [contract EXCEPT ![subs[i].psid] = "stopped"] ELSE contract
  BY DEF Press
<1>2. i \in RowIds /\ subs[i] \in Rows /\ subs[i].psid \in Contracts \cup {NoContract}
  BY DEF LiveRows, Typed, Rows
<1>3. /\ contract' \in [Contracts -> States]
      /\ \A k \in Contracts : Stopped(k) => contract'[k] = "stopped"
      /\ yes => contract'[subs[i].psid] = "stopped"
  BY <1>1, <1>2 DEF Typed, States, Stopped, Askable
<1>4. /\ press' \in [Presses -> Pressing]
      /\ press'[h].row = i /\ press'[h].psid = subs[i].psid /\ press'[h].stopped = yes
      /\ \A g \in Presses : g # h => press'[g] = press[g]
  BY <1>1, <1>2 DEF Typed, Pressing
<1>5. PressKnows(h)'
  BY <1>1, <1>2, <1>3, <1>4 DEF PressKnows, Stopped, Press
<1>6. LiveRows' \subseteq LiveRows
  BY DEF Press, LiveRows
<1> QED BY <1>3, <1>4, <1>5, <1>6, RowsSettle DEF Press, cancelGhosts, Typed, FlagHolds

\* The commit of a press: the flag with a "yes", on a row that is still on the
\* contract, or switched.
LEMMA SettleKeeps ==
  ASSUME FInv, NEW h \in Presses, Settle(h)
  PROVE  FInv'
<1> DEFINE p == press[h]
           i == p.row
<1> USE DEF FInv
<1>1. PressKnows(h) /\ p \in Pressing /\ p # Idle /\ i \in RowIds
  BY DEF PressesKnow, Typed, Settle, PressKnows
<1>2. /\ press' \in [Presses -> Pressing]
      /\ press'[h] = Idle /\ \A g \in Presses : g # h => press'[g] = press[g]
  BY CancellationAssumption DEF Settle, Typed, Pressing, Idle
<1>3. /\ subs' \in [RowIds -> Rows] /\ refused' \in [RowIds -> Contracts \cup {NoContract}]
      /\ \A j \in RowIds : subs'[j] = subs[j] \/ (j = i /\ subs'[j] = Recorded(subs[i], p))
  <2>1. CASE UNCHANGED <<subs, refused>>
    BY <2>1 DEF Typed
  <2>2. CASE /\ subs' = [subs EXCEPT ![i] = Recorded(@, p)]
             /\ refused' = [refused EXCEPT ![i] = IF p.stopped THEN NoContract ELSE p.psid]
    BY <1>1, <2>2, RecordedRow DEF Typed, Pressing
  <2> QED BY <2>1, <2>2 DEF Settle
<1>4. ASSUME NEW j \in RowIds
      PROVE  /\ subs'[j].psid = subs[j].psid /\ subs'[j].live = subs[j].live
             /\ j \notin switched /\ Says(subs'[j]) /\ subs[j].psid # NoContract => Stopped(subs[j].psid)
  <2>1. CASE subs'[j] = subs[j]
    BY <2>1 DEF FlagHolds
  <2>2. CASE j = i /\ subs'[j] = Recorded(subs[i], p)
    <3>1. subs[i] \in Rows /\ subs'[i] = Recorded(subs[i], p)
      BY <1>1, <2>2 DEF Typed
    <3> HIDE DEF i, p
    <3>3. /\ subs'[i].psid = subs[i].psid /\ subs'[i].live = subs[i].live
          /\ Says(subs'[i]) => Says(subs[i]) \/ p.stopped
      BY <1>1, <3>1, RecordedRow DEF Says
    <3>2. i \notin switched /\ p.stopped /\ subs[i].psid # NoContract => Stopped(subs[i].psid)
      BY <1>1 DEF PressKnows, i, p
    <3> QED BY <1>1, <2>2, <3>1, <3>2, <3>3 DEF FlagHolds, i, p
  <2> QED BY <1>3, <2>1, <2>2
<1>5. LiveRows' \subseteq LiveRows
  BY <1>4 DEF LiveRows
<1> QED BY <1>2, <1>3, <1>4, <1>5, RowsSettle DEF Settle, Typed, Stopped

LEMMA FlagStep == FInv /\ [CancelNext]_cancelVars => FInv'
<1> SUFFICES ASSUME FInv, [CancelNext]_cancelVars PROVE FInv'
  OBVIOUS
<1>1. ASSUME NEW k \in Contracts, Charge(k) \/ StoppedThere(k) \/ Deliver(k) PROVE FInv'
  BY <1>1, ReceiveKeeps, RestKeeps, DeliverKeeps
<1>2. ASSUME NEW by \in OneTime, Once(by) PROVE FInv'
  <2>1. contract \in [Contracts -> States]
    BY DEF FInv, Typed
  <2> QED BY <1>2, <2>1, CancellationAssumption, Receiving DEF Once, Stopped
<1>3. ASSUME NEW i \in RowIds, Lapse(i) \/ Resolve(i) PROVE FInv'
  BY <1>3, RestKeeps
<1>4. ASSUME NEW h \in Presses, Press(h) \/ Settle(h) PROVE FInv'
  BY <1>4, PressKeeps, SettleKeeps
<1>5. CASE UNCHANGED cancelVars
  BY <1>5, RestKeeps
<1> QED BY <1>1, <1>2, <1>3, <1>4, <1>5 DEF CancelNext

\* "cancel_at_period_end means the provider will not charge again": the flag and
\* the status are proof of it, for any number of presses, purchases and late
\* events, on every row that kept its contract while a press was open
\* (request_autorenew_cancellation, the two subscription event handlers).
THEOREM FlagIsProofCorrect == CancelSpec => []FlagIsProof
<1>1. CancelInit => FInv
  BY FlagInit
<1>2. FInv /\ [CancelNext]_cancelVars => FInv'
  BY FlagStep
<1>3. FInv => FlagIsProof
  BY FlagIsProofFollows
<1> QED BY <1>1, <1>2, <1>3, PTL DEF CancelSpec

(***************************************************************************)
(* A refused request, with one press under way at a time.  Two presses can *)
(* break it: one is told "yes" on the old contract and commits its flag    *)
(* after the row has switched to a new one, which the other has just been   *)
(* refused.                                                                *)
(***************************************************************************)
OnePress == \A g, h \in Presses : g = h

\* What the row says of its contract is true, switched or not.
Clean(i) == Says(subs[i]) => Stopped(subs[i].psid)
RefusalsRecorded == \A i \in RowIds : refused[i] # NoContract => subs[i].state = "manual" /\ Clean(i)
PressClean(h) ==
  press[h] # Idle =>
    /\ press[h].again => subs[press[h].row].state = "manual"
    /\ Clean(press[h].row)

RInv == FInv /\ RefusalsRecorded /\ \A h \in Presses : PressClean(h)

LEMMA RefusalFollows == RInv => RefusalStaysOpen
<1> SUFFICES ASSUME RInv, NEW i \in RowIds, refused[i] # NoContract, contract[refused[i]] = "charging",
                    subs[i].psid \in {refused[i], NoContract}
             PROVE  i \in Queue \/ subs[i].resolved
  BY DEF RefusalStaysOpen
<1>1. subs[i].state = "manual" /\ Clean(i) /\ subs[i] \in Rows
  BY DEF RInv, RefusalsRecorded, FInv, Typed
<1>2. ~Says(subs[i])
  BY <1>1 DEF Clean, Stopped
<1> QED BY <1>1, <1>2 DEF Queue, Open, Says, Rows

LEMMA RefusalInit == CancelInit => RInv
<1> SUFFICES ASSUME CancelInit PROVE RInv
  OBVIOUS
<1>1. FInv
  BY FlagInit
<1> QED BY <1>1 DEF RInv, RefusalsRecorded, PressClean, CancelInit

\* A step that leaves the record alone and says nothing new that is untrue.
LEMMA RecordsKeep ==
  ASSUME RInv, FInv',
         \A i \in RowIds : subs'[i].state = subs[i].state /\ (Clean(i) => Clean(i)'),
         UNCHANGED <<press, refused>>
  PROVE  RInv'
<1> USE DEF RInv
<1>1. RefusalsRecorded'
  BY DEF RefusalsRecorded
<1>2. ASSUME NEW h \in Presses PROVE PressClean(h)'
  BY DEF PressClean, FInv, PressesKnow, PressKnows
<1> QED BY <1>1, <1>2

LEMMA ReceiveRecords ==
  ASSUME RInv, FInv', NEW by \in {"stripe", "lava", "usdt", "gift"}, NEW k \in Contracts \cup {NoContract},
         k # NoContract => ~Stopped(k),
         Receive(by, k),
         \A c \in Contracts : Stopped(c) => contract'[c] = "stopped",
         by = "gift" => k = NoContract,
         UNCHANGED <<press, refused>>
  PROVE  RInv'
<1>1. PICK i \in RowIds :
        subs' = [j \in RowIds |->
                  IF j = i THEN Paid(subs[i], by, k)
                  ELSE IF k # NoContract /\ subs[j].psid = k THEN Released(subs[j])
                  ELSE subs[j]]
  BY DEF Receive, LiveRows, Free
<1>2. \A j \in RowIds : subs[j] \in Rows
  BY DEF RInv, FInv, Typed
<1>3. \A c \in Contracts \cup {NoContract} : Stopped(c) => Stopped(c)'
  BY DEF Stopped
<1>4. subs'[i] = Paid(subs[i], by, k)
  BY <1>1
<1>5. /\ ~Paid(subs[i], by, k).flag
      /\ Paid(subs[i], by, k).psid = IF k = NoContract THEN subs[i].psid ELSE k
      /\ Paid(subs[i], by, k).state = subs[i].state
      /\ by # "gift" => Paid(subs[i], by, k).status = "other"
      /\ Paid(subs[i], by, k).status \in {"other", subs[i].status}
  <2>1. subs[i] \in Rows
    BY <1>2
  <2>2. by \in {"stripe", "lava", "usdt", "gift"} /\ k \in Contracts \cup {NoContract}
    OBVIOUS
  <2> QED BY <2>1, <2>2 DEF Paid, Rows
<1>6. ASSUME NEW j \in RowIds PROVE subs'[j].state = subs[j].state
  <2>1. CASE j = i
    BY <2>1, <1>4, <1>5
  <2>2. CASE j # i
    <3>1. subs'[j] \in {subs[j], Released(subs[j])}
      BY <1>1, <2>2
    <3> QED BY <3>1, <1>2, ReleasedRow
  <2> QED BY <2>1, <2>2
<1>7. ASSUME NEW j \in RowIds, Clean(j) PROVE Clean(j)'
  <2> SUFFICES ASSUME Says(subs'[j]) PROVE contract'[subs'[j].psid] = "stopped" /\ subs'[j].psid # NoContract
    BY DEF Clean, Stopped
  <2>1. CASE j = i
    <3>3. k = NoContract /\ subs'[j].psid = subs[j].psid /\ Says(subs[j])
      BY <1>4, <1>5, <2>1 DEF Says
    <3> QED BY <3>3, <1>2, <1>3, <1>7 DEF Clean, Stopped, Rows
  <2>2. CASE j # i /\ k # NoContract /\ subs[j].psid = k
    <3>1. subs'[j] = Released(subs[j])
      BY <1>1, <2>2
    <3>2. Says(subs[j])
      BY <3>1, <1>2, ReleasedRow DEF Says
    <3> QED BY <2>2, <3>2, <1>7 DEF Clean
  <2>3. CASE j # i /\ ~(k # NoContract /\ subs[j].psid = k)
    <3>1. subs'[j] = subs[j]
      BY <1>1, <2>3
    <3> QED BY <3>1, <1>2, <1>3, <1>7 DEF Clean, Stopped, Rows
  <2> QED BY <2>1, <2>2, <2>3
<1> QED BY <1>6, <1>7, RecordsKeep

\* Everything but the button: no record changes, and no event is untrue.
LEMMA OthersRecord ==
  ASSUME RInv, FInv',
         \/ \E k \in Contracts : Charge(k) \/ StoppedThere(k) \/ Deliver(k)
         \/ \E by \in OneTime : Once(by)
         \/ \E i \in RowIds : Lapse(i) \/ Resolve(i)
         \/ UNCHANGED cancelVars
  PROVE  RInv'
<1>1. /\ contract \in [Contracts -> States]
      /\ \A i \in RowIds : subs[i] \in Rows
  BY DEF RInv, FInv, Typed
<1>2. ASSUME NEW k \in Contracts, Charge(k) PROVE RInv'
  BY <1>1, <1>2, CancellationAssumption, ReceiveRecords DEF Charge, By, Stopped, States
<1>3. ASSUME NEW by \in OneTime, Once(by) PROVE RInv'
  BY <1>1, <1>3, CancellationAssumption, ReceiveRecords DEF Once, Stopped
<1>4. ASSUME NEW k \in Contracts, StoppedThere(k) PROVE RInv'
  BY <1>1, <1>4, RecordsKeep DEF StoppedThere, cancelGhosts, Clean, Stopped
<1>5. ASSUME NEW k \in Contracts, Deliver(k) PROVE RInv'
  <2>1. PICK e \in Events(k) :
          subs' = [i \in RowIds |-> IF subs[i].psid = k
                    THEN [subs[i] EXCEPT !.status = e.status, !.flag = e.flag] ELSE subs[i]]
    BY <1>5 DEF Deliver
  <2>2. e.flag \/ e.status = "cancelled" => contract[k] = "stopped"
    BY <1>1, DeliveredSays
  <2>3. ASSUME NEW i \in RowIds, subs[i].psid = k
        PROVE  /\ subs'[i].state = subs[i].state /\ subs'[i].psid = k
               /\ subs'[i].flag = e.flag /\ subs'[i].status = e.status
    BY <1>1, <2>1, <2>3 DEF Rows
  <2>4. ASSUME NEW i \in RowIds, subs[i].psid # k PROVE subs'[i] = subs[i]
    BY <2>1, <2>4
  <2>5. UNCHANGED <<contract, press, refused>>
    BY <1>5 DEF Deliver, cancelGhosts
  <2>6. ASSUME NEW i \in RowIds PROVE subs'[i].state = subs[i].state /\ (Clean(i) => Clean(i)')
    <3>1. CASE subs[i].psid = k
      BY <2>2, <2>3, <2>5, <3>1, CancellationAssumption DEF Clean, Says, Stopped
    <3>2. CASE subs[i].psid # k
      BY <2>4, <2>5, <3>2 DEF Clean, Stopped
    <3> QED BY <3>1, <3>2
  <2> QED BY <2>5, <2>6, RecordsKeep
<1>6. ASSUME NEW i \in RowIds, Lapse(i) PROVE RInv'
  <2> DEFINE ended == [subs[i] EXCEPT !.live = FALSE]
             reset == [subs[i] EXCEPT !.live = FALSE, !.status = "other", !.flag = FALSE]
  <2>1. /\ ended.psid = subs[i].psid /\ ended.state = subs[i].state
        /\ Says(ended) => Says(subs[i])
        /\ reset.state = subs[i].state /\ ~Says(reset)
    BY <1>1 DEF Rows, Says
  <2>2. subs' = [subs EXCEPT ![i] = ended] \/ subs' = [subs EXCEPT ![i] = reset]
    BY <1>6 DEF Lapse
  <2> HIDE DEF ended, reset
  <2>3. UNCHANGED <<contract, press, refused>> /\ subs \in [RowIds -> Rows]
    BY <1>6 DEF Lapse, cancelGhosts, RInv, FInv, Typed
  <2>4. ASSUME NEW j \in RowIds PROVE subs'[j].state = subs[j].state /\ (Clean(j) => Clean(j)')
    <3>1. CASE subs'[j] = subs[j]
      BY <3>1, <2>3 DEF Clean, Stopped
    <3>2. CASE j = i /\ subs'[j] = ended
      <4>1. Says(subs'[j]) => Says(subs[j])
        BY <3>2, <2>1
      <4>2. subs'[j].state = subs[j].state /\ subs'[j].psid = subs[j].psid
        BY <3>2, <2>1
      <4> QED BY <4>1, <4>2, <2>3 DEF Clean, Stopped
    <3>3. CASE j = i /\ subs'[j] = reset
      <4>1. subs'[j].state = subs[j].state /\ ~Says(subs'[j])
        BY <3>3, <2>1
      <4> QED BY <4>1 DEF Clean
    <3> QED BY <2>2, <2>3, <3>1, <3>2, <3>3
  <2> QED BY <2>3, <2>4, RecordsKeep
<1>7. ASSUME NEW i \in RowIds, Resolve(i) PROVE RInv'
  <2> DEFINE done == [subs[i] EXCEPT !.resolved = TRUE]
  <2>1. done.psid = subs[i].psid /\ done.state = subs[i].state /\ (Says(done) => Says(subs[i]))
    BY <1>1 DEF Rows, Says
  <2>2. subs' = [subs EXCEPT ![i] = done] /\ subs \in [RowIds -> Rows]
    BY <1>7 DEF Resolve, RInv, FInv, Typed
  <2> HIDE DEF done
  <2>3. UNCHANGED <<contract, press, refused>>
    BY <1>7 DEF Resolve, cancelGhosts
  <2>4. ASSUME NEW j \in RowIds PROVE subs'[j].state = subs[j].state /\ (Clean(j) => Clean(j)')
    <3>1. CASE j # i
      BY <3>1, <2>2, <2>3 DEF Clean, Stopped
    <3>2. CASE j = i
      <4>1. subs'[j] = done
        BY <3>2, <2>2
      <4>2. Says(subs'[j]) => Says(subs[j])
        BY <3>2, <4>1, <2>1
      <4>3. subs'[j].state = subs[j].state /\ subs'[j].psid = subs[j].psid
        BY <3>2, <4>1, <2>1
      <4> QED BY <4>2, <4>3, <2>3 DEF Clean, Stopped
    <3> QED BY <3>1, <3>2
  <2> QED BY <2>3, <2>4, RecordsKeep
<1>8. CASE UNCHANGED cancelVars
  <2>1. UNCHANGED <<contract, subs, press, refused>>
    BY <1>8 DEF cancelVars, cancelGhosts
  <2> QED BY <2>1, RecordsKeep DEF Clean, Stopped
<1> QED BY <1>2, <1>3, <1>4, <1>5, <1>6, <1>7, <1>8

\* A press is made on a row that does not say the charge has stopped.
LEMMA PressRecords ==
  ASSUME RInv, FInv', NEW h \in Presses, Press(h)
  PROVE  RInv'
<1>1. PICK i \in LiveRows, yes \in BOOLEAN, done \in BOOLEAN :
        /\ ~SaidOff(subs[i])
        /\ done => Askable(subs[i])
        /\ press' = [press EXCEPT ![h] = [row |-> i, psid |-> subs[i].psid,
                                         again |-> subs[i].state = "manual", stopped |-> yes]]
        /\ contract' = IF done THEN [contract EXCEPT ![subs[i].psid] = "stopped"] ELSE contract
  BY DEF Press
<1>2. /\ i \in RowIds /\ subs[i] \in Rows /\ UNCHANGED <<subs, refused>>
      /\ contract \in [Contracts -> States] /\ press \in [Presses -> Pressing]
  BY DEF LiveRows, RInv, FInv, Typed, Press, cancelGhosts
<1>3. \A k \in Contracts : Stopped(k) => contract'[k] = "stopped"
  BY <1>1, <1>2 DEF Stopped
<1>4. ASSUME NEW j \in RowIds, Clean(j) PROVE Clean(j)'
  <2>1. subs[j] \in Rows
    BY DEF RInv, FInv, Typed
  <2> QED BY <2>1, <1>2, <1>3, <1>4 DEF Clean, Stopped, Rows
<1>5. RefusalsRecorded'
  BY <1>2, <1>4 DEF RInv, RefusalsRecorded
<1>6. ~Says(subs[i])
  BY <1>1 DEF SaidOff, Says
<1>7. ASSUME NEW g \in Presses PROVE PressClean(g)'
  <2>1. CASE g = h
    <3>1. press'[h].row = i /\ (press'[h].again => subs[i].state = "manual")
      BY <1>1, <1>2
    <3> QED BY <2>1, <3>1, <1>2, <1>6 DEF PressClean, Clean
  <2>2. CASE g # h
    <3>1. press'[g] = press[g]
      BY <1>1, <1>2, <2>2
    <3> QED BY <3>1, <1>2, <1>4 DEF RInv, FInv, PressesKnow, PressKnows, PressClean
  <2> QED BY <2>1, <2>2
<1> QED BY <1>5, <1>7 DEF RInv

\* The commit of the only press under way.
LEMMA SettleRecords ==
  ASSUME OnePress, RInv, FInv', NEW h \in Presses, Settle(h)
  PROVE  RInv'
<1> DEFINE p == press[h]
<1>0. PICK i : i = p.row
  OBVIOUS
<1>1. /\ PressClean(h) /\ p \in Pressing /\ p # Idle /\ i \in RowIds /\ subs[i] \in Rows
      /\ subs \in [RowIds -> Rows] /\ refused \in [RowIds -> Contracts \cup {NoContract}]
  BY <1>0 DEF RInv, FInv, Typed, PressesKnow, PressKnows, Settle
<1>2. UNCHANGED contract /\ \A g \in Presses : press'[g] = Idle
  BY DEF Settle, OnePress, RInv, FInv, Typed
<1>3. RefusalsRecorded'
  <2>1. CASE UNCHANGED <<subs, refused>>
    BY <2>1, <1>2 DEF RInv, RefusalsRecorded, Clean, Stopped
  <2>2. CASE /\ subs' = [subs EXCEPT ![i] = Recorded(@, p)]
             /\ refused' = [refused EXCEPT ![i] = IF p.stopped THEN NoContract ELSE p.psid]
    <3>1. subs'[i] = Recorded(subs[i], p) /\ (refused'[i] # NoContract => ~p.stopped)
      BY <1>1, <2>2
    <3>2. ASSUME NEW j \in RowIds, j # i PROVE subs'[j] = subs[j] /\ refused'[j] = refused[j]
      BY <1>1, <2>2, <3>2
    <3>3. (p.again => subs[i].state = "manual") /\ Clean(i)
      BY <1>0, <1>1 DEF PressClean
    <3> HIDE DEF p
    <3>4. ASSUME ~p.stopped
          PROVE  /\ subs'[i].state = "manual" /\ subs'[i].psid = subs[i].psid
                 /\ Says(subs'[i]) => Says(subs[i])
      BY <1>1, <3>1, <3>3, <3>4, RefusedRow DEF Says
    <3>5. refused'[i] # NoContract => subs'[i].state = "manual" /\ Clean(i)'
      BY <1>2, <3>1, <3>3, <3>4 DEF Clean, Stopped
    <3>6. ASSUME NEW j \in RowIds, j # i
          PROVE  refused'[j] # NoContract => subs'[j].state = "manual" /\ Clean(j)'
      BY <1>2, <3>2, <3>6 DEF RInv, RefusalsRecorded, Clean, Stopped
    <3> QED BY <3>5, <3>6 DEF RefusalsRecorded
  <2> QED BY <1>0, <2>1, <2>2 DEF Settle
<1> QED BY <1>2, <1>3 DEF RInv, PressClean

LEMMA RefusalStep == OnePress /\ RInv /\ [CancelNext]_cancelVars => RInv'
<1> SUFFICES ASSUME OnePress, RInv, [CancelNext]_cancelVars PROVE RInv'
  OBVIOUS
<1>1. FInv'
  BY FlagStep DEF RInv
<1>2. ASSUME NEW h \in Presses, Press(h) \/ Settle(h) PROVE RInv'
  BY <1>1, <1>2, PressRecords, SettleRecords
<1>3. CASE \/ \E k \in Contracts : Charge(k) \/ StoppedThere(k) \/ Deliver(k)
           \/ \E by \in OneTime : Once(by)
           \/ \E i \in RowIds : Lapse(i) \/ Resolve(i)
           \/ UNCHANGED cancelVars
  BY <1>1, <1>3, OthersRecord
<1> QED BY <1>2, <1>3 DEF CancelNext

\* A contract the provider refused to stop stays in the team's queue, for any
\* number of contracts and rows, while it is charged and nobody resolved it
\* (request_autorenew_cancellation, open_manual_cancellation_filters); one press
\* of the button at a time.
THEOREM RefusalStaysOpenCorrect == OnePress => (CancelSpec => []RefusalStaysOpen)
<1> SUFFICES ASSUME OnePress PROVE CancelSpec => []RefusalStaysOpen
  OBVIOUS
<1>1. CancelInit => RInv
  BY RefusalInit
<1>2. RInv /\ [CancelNext]_cancelVars => RInv'
  BY RefusalStep
<1>3. RInv => RefusalStaysOpen
  BY RefusalFollows
<1> QED BY <1>1, <1>2, <1>3, PTL DEF CancelSpec
=============================================================================
