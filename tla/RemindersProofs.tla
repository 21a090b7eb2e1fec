---------------------------- MODULE RemindersProofs ----------------------------
(***************************************************************************)
(* Reminders come once and in time, in every instance: any members, any    *)
(* window, any longer term.                                                *)
(***************************************************************************)
EXTENDS RemindersProperties, TLAPS

Sources == {"none", "usdt", "stripe", "gift"}
Rows == [left : Nat, source : Sources, linked : BOOLEAN, notified : BOOLEAN]
Waits(m) == \E e \in todo : e.who = m
\* Who is owed a message: a period paid in USDT that no run has crossed.
Owed(m) == held[m].source = "usdt" /\ ~held[m].linked /\ ~crossed[m]

Shape ==
  /\ held \in [Members -> Rows] /\ ran \in BOOLEAN
  /\ todo \subseteq [who : Members, left : Nat] /\ sent \in Members \cup {Unsent}
  /\ told \in [Members -> Nat] /\ excused \in [Members -> Nat]
  /\ lost \in [Members -> BOOLEAN] /\ crossed \in [Members -> BOOLEAN]
  /\ \A m \in Members : held[m].left = 0 => held[m].source = "none"

\* A run has one entry for a member, none for the one it has just told, and
\* nothing is left of it before the next one begins.
OneEntry ==
  /\ \A e, f \in todo : e.who = f.who => e = f
  /\ \A m \in Members : sent = m => ~Waits(m)
  /\ ~ran => todo = {} /\ sent = Unsent

\* Who waits was not told yet; who was told has the mark, or is about to.
MarkFollows ==
  \A m \in Members :
    /\ Waits(m) => told[m] = 0 \/ lost[m]
    /\ told[m] > 0 => lost[m] \/ held[m].notified \/ sent = m
    /\ told[m] > 1 => lost[m]

\* A mark, and the message before it, belong to the period they are found in.
MarkIsDue ==
  \A m \in Members :
    /\ sent = m => told[m] > 0 \/ crossed[m]
    /\ Owed(m) /\ held[m].notified => told[m] > 0

\* Every day of the window that passed in silence is accounted for, today once
\* the run is through with the member.
DaysExcused ==
  \A m \in Members :
    Owed(m) /\ told[m] = 0 /\ held[m].left \in 1..Window =>
      excused[m] >= Window - held[m].left + (IF ran /\ ~Waits(m) THEN 1 ELSE 0)

RInv == Shape /\ OneEntry /\ MarkFollows /\ MarkIsDue /\ DaysExcused

LEMMA Numbers ==
  Window \in Nat \ {0} /\ Term \in Nat /\ Term > Window /\ Unsent \notin Members
  BY RemindersAssumption

LEMMA RemindersInitially == RemindersInit => RInv
<1> SUFFICES ASSUME RemindersInit PROVE RInv
  OBVIOUS
<1> USE DEF RemindersInit, NoRow
<1>1. Shape
  BY DEF Shape, Rows, Sources
<1>2. OneEntry
  BY Numbers DEF OneEntry, Waits
<1>3. MarkFollows
  BY DEF MarkFollows, Waits
<1>4. MarkIsDue
  BY Numbers DEF MarkIsDue, Owed
<1>5. DaysExcused
  BY DEF DaysExcused, Owed
<1> QED BY <1>1, <1>2, <1>3, <1>4, <1>5 DEF RInv

\* A purchase begins a period longer than the window.
LEMMA PurchaseKeeps ==
  ASSUME RInv, NEW m \in Members, NEW source \in {"usdt", "stripe", "gift"},
         Purchase(m, source)
  PROVE  RInv'
<1> USE DEF RInv
<1>1. held[m] \in Rows
  BY DEF Shape
<1>2. /\ Extended(held[m], source) \in Rows
      /\ Extended(held[m], source).left \in Nat /\ Extended(held[m], source).left > Window
      /\ Extended(held[m], source).notified => source # "usdt"
      /\ Extended(held[m], source).source = source
  <2>1. held[m].left + Term \in Nat /\ held[m].left + Term > Window
    BY <1>1, Numbers DEF Rows
  <2>2. /\ (held[m].linked \/ source = "stripe") \in BOOLEAN
        /\ (held[m].notified /\ source # "usdt") \in BOOLEAN
    OBVIOUS
  <2>3. source \in Sources
    BY DEF Sources
  <2> HIDE DEF RInv
  <2> QED BY <2>1, <2>2, <2>3 DEF Extended, Rows
<1>3. \A n \in Members :
        /\ held'[n] = IF n = m THEN Extended(held[m], source) ELSE held[n]
        /\ told'[n] = IF n = m THEN 0 ELSE told[n]
        /\ excused'[n] = IF n = m THEN 0 ELSE excused[n]
        /\ lost'[n] = IF n = m THEN FALSE ELSE lost[n]
        /\ crossed'[n] = IF n = m THEN Busy(m) ELSE crossed[n]
  BY DEF Purchase, Shape
<1>4. UNCHANGED <<ran, todo, sent>>
  BY DEF Purchase
<1>5. Shape'
  <2>1. held' \in [Members -> Rows]
    BY <1>2 DEF Purchase, Shape
  <2>2. told' \in [Members -> Nat] /\ excused' \in [Members -> Nat]
    BY DEF Purchase, Shape
  <2>3. lost' \in [Members -> BOOLEAN]
    BY DEF Purchase, Shape
  <2>4. Busy(m) \in BOOLEAN
    BY DEF Busy
  <2>5. crossed' \in [Members -> BOOLEAN]
    BY <2>4 DEF Purchase, Shape
  <2>6. Extended(held[m], source).left # 0
    BY <1>2, Numbers
  <2>7. \A n \in Members : held'[n].left = 0 => held'[n].source = "none"
    BY <1>3, <2>6 DEF Shape
  <2> QED BY <1>4, <2>1, <2>2, <2>3, <2>5, <2>7 DEF Shape
<1>6. OneEntry'
  BY <1>4 DEF OneEntry, Waits
<1>7. MarkFollows'
  <2> SUFFICES ASSUME NEW n \in Members
               PROVE  /\ Waits(n)' => told'[n] = 0 \/ lost'[n]
                      /\ told'[n] > 0 => lost'[n] \/ held'[n].notified \/ sent' = n
                      /\ told'[n] > 1 => lost'[n]
    BY DEF MarkFollows
  <2>1. CASE n = m
    <3>1. told'[n] = 0
      BY <1>3, <2>1
    <3>2. ~(told'[n] > 0) /\ ~(told'[n] > 1)
      BY <3>1
    <3> QED BY <3>1, <3>2
  <2>2. CASE n # m
    BY <1>3, <1>4, <2>2 DEF MarkFollows, Waits
  <2> QED BY <2>1, <2>2
<1>8. MarkIsDue'
  BY <1>2, <1>3, <1>4 DEF MarkIsDue, Owed, Busy
<1>9. DaysExcused'
  <2>1. held'[m] = Extended(held[m], source)
    BY <1>3
  <2>2. held'[m].left \in Nat /\ held'[m].left > Window
    BY <1>2, <2>1
  <2>3. ~(held'[m].left \in 1..Window)
    BY <2>2, Numbers
  <2> QED BY <1>3, <1>4, <2>3 DEF DaysExcused, Owed, Waits
<1> QED BY <1>5, <1>6, <1>7, <1>8, <1>9

\* A failed day is counted for who is in the window, and never uncounted.
LEMMA Blamed ==
  ASSUME Shape, NEW failed \in SUBSET Members, Blame(failed)
  PROVE  /\ excused' \in [Members -> Nat]
         /\ \A m \in Members :
              excused'[m] = IF m \in failed /\ held[m].left \in 1..Window
                            THEN excused[m] + 1 ELSE excused[m]
  BY DEF Blame, Shape

LEMMA ReadKeeps ==
  ASSUME RInv, ReadReminders
  PROVE  RInv'
<1> USE DEF RInv
<1>1. /\ ~ran /\ ran' = TRUE /\ todo = {} /\ sent = Unsent
      /\ todo' = {[who |-> m, left |-> held[m].left] : m \in {n \in Members : DueReminder(n)}}
      /\ UNCHANGED <<held, sent, told, excused, lost, crossed>>
  BY DEF ReadReminders, OneEntry, history
<1>2. \A m \in Members : Waits(m)' <=> DueReminder(m)
  <2> SUFFICES ASSUME NEW m \in Members PROVE Waits(m)' <=> DueReminder(m)
    OBVIOUS
  <2>1. ASSUME DueReminder(m) PROVE Waits(m)'
    <3>1. [who |-> m, left |-> held[m].left] \in todo'
      BY <1>1, <2>1
    <3> QED BY <3>1 DEF Waits
  <2>2. ASSUME Waits(m)' PROVE DueReminder(m)
    <3>1. PICK n \in Members : DueReminder(n) /\ [who |-> n, left |-> held[n].left].who = m
      BY <1>1, <2>2 DEF Waits
    <3> QED BY <3>1
  <2> QED BY <2>1, <2>2
<1>3. Shape'
  BY <1>1 DEF Shape, Rows
<1>4. OneEntry'
  BY <1>1, Numbers DEF OneEntry, Waits
<1>5. MarkFollows'
  <2>1. \A m \in Members : told[m] = 0 \/ told[m] > 0
    BY DEF Shape
  <2>2. \A m \in Members : sent # m /\ sent' # m
    BY <1>1, Numbers
  <2> QED BY <1>1, <1>2, <2>1, <2>2 DEF MarkFollows, DueReminder
<1>6. MarkIsDue'
  BY <1>1 DEF MarkIsDue, Owed
<1>7. DaysExcused'
  <2> SUFFICES ASSUME NEW m \in Members, Owed(m), told[m] = 0, held[m].left \in 1..Window
               PROVE  excused[m] >= Window - held[m].left + (IF Waits(m)' THEN 0 ELSE 1)
    BY <1>1 DEF DaysExcused, Owed
  <2>1. Waits(m)'
    BY <1>2 DEF DueReminder, Owed, MarkIsDue, Shape
  <2>2. excused[m] >= Window - held[m].left + 0
    BY <1>1 DEF DaysExcused
  <2> QED BY <2>1, <2>2
<1> QED BY <1>3, <1>4, <1>5, <1>6, <1>7

LEMMA SkipKeeps ==
  ASSUME RInv, SkipReminders
  PROVE  RInv'
<1> USE DEF RInv
<1>1. /\ ~ran /\ ran' = TRUE /\ todo = {} /\ sent = Unsent
      /\ UNCHANGED <<held, todo, sent, told, lost, crossed>>
  BY DEF SkipReminders, OneEntry
<1>2. /\ excused' \in [Members -> Nat]
      /\ \A m \in Members :
           excused'[m] = IF held[m].left \in 1..Window THEN excused[m] + 1 ELSE excused[m]
  BY Blamed DEF SkipReminders
<1>3. Shape'
  BY <1>1, <1>2 DEF Shape
<1>4. OneEntry' /\ MarkFollows' /\ MarkIsDue'
  BY <1>1 DEF OneEntry, MarkFollows, MarkIsDue, Owed, Waits
<1>5. DaysExcused'
  <2> SUFFICES ASSUME NEW m \in Members, Owed(m), told[m] = 0, held[m].left \in 1..Window
               PROVE  excused'[m] >= Window - held[m].left + 1
    BY <1>1 DEF DaysExcused, Owed, Waits
  <2>1. excused[m] >= Window - held[m].left + 0
    BY <1>1 DEF DaysExcused
  <2>2. excused'[m] = excused[m] + 1 /\ excused[m] \in Nat /\ held[m].left \in Nat
    BY <1>2 DEF Shape, Rows
  <2> QED BY <2>1, <2>2, Numbers
<1> QED BY <1>3, <1>4, <1>5

LEMMA SendKeeps ==
  ASSUME RInv, SendReminder
  PROVE  RInv'
<1> USE DEF RInv
<1>1. PICK e \in todo :
        /\ todo' = todo \ {e} /\ sent = Unsent
        /\ UNCHANGED <<held, ran, lost, crossed>>
        /\ \/ sent' = e.who /\ told' = [told EXCEPT ![e.who] = @ + 1] /\ UNCHANGED excused
           \/ sent' = Unsent /\ Blame({e.who}) /\ UNCHANGED told
  BY DEF SendReminder, Nearest
<1>2. e.who \in Members /\ ran
  BY DEF Shape, OneEntry
<1>3. \A m \in Members : Waits(m)' <=> Waits(m) /\ m # e.who
  BY <1>1 DEF Waits, OneEntry
<1>4. Waits(e.who)
  BY DEF Waits
<1>5. OneEntry'
  BY <1>1, <1>2, <1>3, Numbers DEF OneEntry
<1>6. CASE sent' = e.who /\ told' = [told EXCEPT ![e.who] = @ + 1] /\ UNCHANGED excused
  <2>1. \A m \in Members : told'[m] = IF m = e.who THEN told[m] + 1 ELSE told[m]
    BY <1>6 DEF Shape
  <2>2. Shape'
    BY <1>1, <1>2, <1>6 DEF Shape
  <2>3. MarkFollows'
    BY <1>1, <1>2, <1>3, <1>4, <1>6, <2>1, Numbers DEF MarkFollows, Shape
  <2>4. MarkIsDue'
    BY <1>1, <1>2, <1>6, <2>1 DEF MarkIsDue, Owed, Shape
  <2>5. DaysExcused'
    BY <1>1, <1>3, <1>6, <2>1 DEF DaysExcused, Owed, Shape
  <2> QED BY <1>5, <2>2, <2>3, <2>4, <2>5
<1>7. CASE sent' = Unsent /\ Blame({e.who}) /\ UNCHANGED told
  <2>1. /\ excused' \in [Members -> Nat]
        /\ \A m \in Members :
             excused'[m] = IF m = e.who /\ held[m].left \in 1..Window
                           THEN excused[m] + 1 ELSE excused[m]
    BY <1>2, <1>7, Blamed
  <2>2. Shape'
    BY <1>1, <1>7, <2>1 DEF Shape
  <2>3. MarkFollows' /\ MarkIsDue'
    BY <1>1, <1>3, <1>7, Numbers DEF MarkFollows, MarkIsDue, Owed
  <2>4. DaysExcused'
    <3> SUFFICES ASSUME NEW m \in Members, Owed(m), told[m] = 0, held[m].left \in 1..Window
                 PROVE  excused'[m] >= Window - held[m].left
                                         + (IF ran /\ ~Waits(m)' THEN 1 ELSE 0)
      BY <1>1, <1>7 DEF DaysExcused, Owed
    <3>1. excused[m] >= Window - held[m].left + (IF ran /\ ~Waits(m) THEN 1 ELSE 0)
      BY DEF DaysExcused
    <3>2. excused[m] \in Nat /\ held[m].left \in Nat
      BY DEF Shape, Rows
    <3>3. CASE m = e.who
      BY <1>2, <1>4, <2>1, <3>1, <3>2, <3>3, Numbers
    <3>4. CASE m # e.who
      BY <1>3, <2>1, <3>1, <3>4
    <3> QED BY <3>3, <3>4
  <2> QED BY <1>5, <2>2, <2>3, <2>4
<1> QED BY <1>1, <1>6, <1>7

LEMMA CommitKeeps ==
  ASSUME RInv, CommitReminder
  PROVE  RInv'
<1> USE DEF RInv
<1>1. /\ sent \in Members /\ sent' = Unsent
      /\ UNCHANGED <<ran, todo, told, excused, lost, crossed>>
  BY DEF CommitReminder, Shape, history
<1>2. \A m \in Members : /\ held'[m].left = held[m].left
                         /\ held'[m].source = held[m].source
                         /\ held'[m].linked = held[m].linked
                         /\ held'[m].notified = (m = sent \/ held[m].notified)
  BY DEF CommitReminder, Shape, Rows
<1>3. Shape'
  BY <1>1 DEF CommitReminder, Shape, Rows
<1>4. OneEntry'
  BY <1>1, Numbers DEF OneEntry, Waits
<1>5. MarkFollows'
  BY <1>1, <1>2 DEF MarkFollows, Waits
<1>6. MarkIsDue'
  BY <1>1, <1>2, Numbers DEF MarkIsDue, Owed
<1>7. DaysExcused'
  BY <1>1, <1>2 DEF DaysExcused, Owed, Waits
<1> QED BY <1>3, <1>4, <1>5, <1>6, <1>7

LEMMA DeathKeeps ==
  ASSUME RInv, ReminderDies
  PROVE  RInv'
<1> DEFINE waiting == {e.who : e \in todo}
<1> USE DEF RInv
<1>1. /\ ran /\ todo' = {} /\ sent' = Unsent
      /\ UNCHANGED <<held, ran, told, crossed>>
      /\ Blame(waiting)
  BY DEF ReminderDies, OneEntry
<1>2. \A m \in Members : lost'[m] = (lost[m] \/ m = sent)
  BY DEF ReminderDies
<1>3. waiting \subseteq Members
  BY DEF Shape
<1>4. \A m \in Members : m \in waiting <=> Waits(m)
  BY DEF Waits
<1> HIDE DEF waiting
<1>5. /\ excused' \in [Members -> Nat]
      /\ \A m \in Members :
           excused'[m] = IF m \in waiting /\ held[m].left \in 1..Window
                         THEN excused[m] + 1 ELSE excused[m]
  BY <1>1, <1>3, Blamed
<1>6. Shape'
  BY <1>1, <1>5 DEF Shape, ReminderDies
<1>7. OneEntry'
  BY <1>1, Numbers DEF OneEntry, Waits
<1>8. MarkFollows'
  BY <1>1, <1>2, Numbers DEF MarkFollows, Waits
<1>9. MarkIsDue'
  BY <1>1, Numbers DEF MarkIsDue, Owed
<1>10. DaysExcused'
  <2> SUFFICES ASSUME NEW m \in Members, Owed(m), told[m] = 0, held[m].left \in 1..Window
               PROVE  excused'[m] >= Window - held[m].left + 1
    BY <1>1 DEF DaysExcused, Owed, Waits
  <2>1. excused[m] >= Window - held[m].left + (IF ~Waits(m) THEN 1 ELSE 0)
    BY <1>1 DEF DaysExcused
  <2>2. excused[m] \in Nat /\ held[m].left \in Nat
    BY DEF Shape, Rows
  <2> QED BY <1>4, <1>5, <2>1, <2>2, Numbers
<1> QED BY <1>6, <1>7, <1>8, <1>9, <1>10

LEMMA MidnightKeeps ==
  ASSUME RInv, Midnight
  PROVE  RInv'
<1> USE DEF RInv
<1>1. ran /\ ran' = FALSE /\ todo = {} /\ todo' = {} /\ sent = Unsent /\ sent' = Unsent
  BY DEF Midnight
<1>2. \A m \in Members : Older(held[m]) \in Rows /\ held'[m] = Older(held[m])
  <2> TAKE m \in Members
  <2>1. held[m] \in Rows /\ held'[m] = Older(held[m])
    BY DEF Midnight, Shape
  <2>2. CASE held[m].left <= 1
    BY <2>1, <2>2 DEF Older, NoRow, Rows, Sources
  <2>3. CASE ~(held[m].left <= 1)
    <3>1. held[m].left - 1 \in Nat
      BY <2>1, <2>3 DEF Rows
    <3> QED BY <2>1, <2>3, <3>1 DEF Older, Rows
  <2> QED BY <2>1, <2>2, <2>3
<1>3. \A m \in Members :
        /\ told'[m] = IF held'[m] = NoRow THEN 0 ELSE told[m]
        /\ excused'[m] = IF held'[m] = NoRow THEN 0 ELSE excused[m]
        /\ lost'[m] = (held'[m] # NoRow /\ lost[m])
        /\ crossed'[m] = (held'[m] # NoRow /\ crossed[m])
  BY DEF Midnight
<1>4. \A m \in Members :
        held'[m] # NoRow =>
          /\ held[m].left \in Nat /\ held[m].left > 1 /\ held'[m].left = held[m].left - 1
          /\ held'[m].source = held[m].source /\ held'[m].linked = held[m].linked
          /\ held'[m].notified = held[m].notified
  <2> SUFFICES ASSUME NEW m \in Members, held'[m] # NoRow
               PROVE  /\ held[m].left \in Nat /\ held[m].left > 1
                      /\ held'[m].left = held[m].left - 1
                      /\ held'[m].source = held[m].source /\ held'[m].linked = held[m].linked
                      /\ held'[m].notified = held[m].notified
    OBVIOUS
  <2>1. held[m] \in Rows /\ held'[m] = Older(held[m])
    BY <1>2 DEF Shape
  <2>2. ~(held[m].left <= 1) /\ held'[m] = [held[m] EXCEPT !.left = held[m].left - 1]
    BY <2>1 DEF Older
  <2>3. held[m].left \in Nat /\ held[m].left > 1
    BY <2>1, <2>2 DEF Rows
  <2> QED BY <2>1, <2>2, <2>3 DEF Rows
<1>5. NoRow.source = "none" /\ NoRow.source # "usdt"
  BY DEF NoRow
<1>6. Shape'
  <2>1. held' \in [Members -> Rows]
    BY <1>2 DEF Midnight
  <2>2. told' \in [Members -> Nat] /\ excused' \in [Members -> Nat]
    BY DEF Midnight, Shape
  <2>3. lost' \in [Members -> BOOLEAN] /\ crossed' \in [Members -> BOOLEAN]
    BY DEF Midnight
  <2>4. \A m \in Members : held'[m].left = 0 => held'[m].source = "none"
    <3> TAKE m \in Members
    <3>1. held'[m] # NoRow => held'[m].left # 0
      BY <1>4
    <3> QED BY <1>5, <3>1
  <2> QED BY <1>1, <2>1, <2>2, <2>3, <2>4 DEF Shape
<1>7. OneEntry'
  BY <1>1, Numbers DEF OneEntry, Waits
<1>8. MarkFollows'
  <2> SUFFICES ASSUME NEW m \in Members
               PROVE  /\ Waits(m)' => told'[m] = 0 \/ lost'[m]
                      /\ told'[m] > 0 => lost'[m] \/ held'[m].notified \/ sent' = m
                      /\ told'[m] > 1 => lost'[m]
    BY DEF MarkFollows
  <2>1. sent # m /\ ~Waits(m)'
    BY <1>1, Numbers DEF Waits
  <2>2. CASE held'[m] = NoRow
    <3>1. told'[m] = 0 /\ ~(told'[m] > 0) /\ ~(told'[m] > 1)
      BY <1>3, <2>2
    <3> QED BY <3>1
  <2>3. CASE held'[m] # NoRow
    BY <1>3, <1>4, <2>1, <2>3 DEF MarkFollows
  <2> QED BY <2>2, <2>3
<1>9. MarkIsDue'
  BY <1>1, <1>3, <1>4, <1>5, Numbers DEF MarkIsDue, Owed
<1>10. DaysExcused'
  <2> SUFFICES ASSUME NEW m \in Members, Owed(m)', told'[m] = 0, held'[m].left \in 1..Window
               PROVE  excused'[m] >= Window - held'[m].left
    BY <1>1, <1>6, Numbers DEF DaysExcused, Shape, Rows
  <2>1. held'[m] # NoRow
    BY <1>5 DEF Owed
  <2>2. Owed(m) /\ told[m] = 0 /\ excused'[m] = excused[m] /\ excused[m] \in Nat
    BY <1>3, <1>4, <2>1 DEF Owed, Shape
  <2>3. CASE held[m].left \in 1..Window
    BY <1>1, <1>4, <2>1, <2>2, <2>3, Numbers DEF DaysExcused, Waits
  <2>4. CASE held[m].left = Window + 1
    BY <1>4, <2>1, <2>2, <2>4, Numbers
  <2> QED BY <1>4, <2>1, <2>3, <2>4, Numbers
<1> QED BY <1>6, <1>7, <1>8, <1>9, <1>10

LEMMA RemindersSteps == RInv /\ [RemindersNext]_remindVars => RInv'
<1> SUFFICES ASSUME RInv, [RemindersNext]_remindVars PROVE RInv'
  OBVIOUS
<1>1. CASE UNCHANGED remindVars
  BY <1>1 DEF remindVars, RInv, Shape, OneEntry, MarkFollows, MarkIsDue, DaysExcused, Owed, Waits
<1>2. CASE RemindersNext
  BY <1>2, PurchaseKeeps, ReadKeeps, SkipKeeps, SendKeeps, CommitKeeps, DeathKeeps, MidnightKeeps
     DEF RemindersNext
<1> QED BY <1>1, <1>2

LEMMA RemindersInductive == RemindersSpec => []RInv
<1> QED BY RemindersInitially, RemindersSteps, PTL DEF RemindersSpec

\* A period is announced at most once, except after a message whose mark was
\* lost (notified_expiring), for any members, window and term.
THEOREM ToldOnceCorrect == RemindersSpec => []ToldOnce
<1>1. RInv => ToldOnce
  BY DEF RInv, MarkFollows, ToldOnce
<1> QED BY <1>1, RemindersInductive, PTL

\* "nobody's reminder is lost by skipping": a USDT period that runs out
\* unannounced was failed on every day of the window, or crossed by a run.
THEOREM ToldBeforeEndCorrect == RemindersSpec => ToldBeforeEnd
<1>1. ASSUME RInv, [RemindersNext]_remindVars
      PROVE  [\A m \in Members :
                held[m].source = "usdt" /\ ~held[m].linked /\ held'[m].source = "none" =>
                  told[m] > 0 \/ excused[m] >= Window \/ crossed[m]]_remindVars
  <2> SUFFICES ASSUME RemindersNext, NEW m \in Members, held[m].source = "usdt",
                      ~held[m].linked, held'[m].source = "none"
               PROVE  told[m] > 0 \/ excused[m] >= Window \/ crossed[m]
    BY <1>1
  <2> USE DEF RInv
  <2>1. held \in [Members -> Rows] /\ held[m] \in Rows
    BY <1>1 DEF Shape
  <2>2. CASE Midnight
    <3>1. held[m].left <= 1 /\ ran /\ ~Waits(m)
      BY <2>1, <2>2 DEF Midnight, Older, Rows, Waits
    <3>2. held[m].left \in 1..Window => told[m] > 0 \/ excused[m] >= Window \/ crossed[m]
      BY <1>1, <2>1, <3>1, Numbers DEF DaysExcused, Owed, Shape, Rows
    <3>3. held[m].left \in Nat /\ held[m].left # 0
      BY <1>1, <2>1 DEF Shape, Rows
    <3> QED BY <3>1, <3>2, <3>3, Numbers
  <2>3. CASE \E n \in Members, source \in {"usdt", "stripe", "gift"} : Purchase(n, source)
    BY <2>1, <2>3 DEF Purchase, Extended
  <2>4. CASE CommitReminder
    BY <2>1, <2>4 DEF CommitReminder
  <2>5. CASE UNCHANGED held
    BY <2>5
  <2> QED BY <2>2, <2>3, <2>4, <2>5
          DEF RemindersNext, ReadReminders, SkipReminders, SendReminder, ReminderDies
<1> QED BY <1>1, RemindersInductive, PTL DEF RemindersSpec, ToldBeforeEnd
================================================================================
