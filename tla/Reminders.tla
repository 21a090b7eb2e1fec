------------------------------- MODULE Reminders -------------------------------
(***************************************************************************)
(* The daily reminder to members who paid once in USDT, the only ones      *)
(* nobody charges again (bot/tasks.py: remind_expiring_job), beside the    *)
(* purchases that move the end of their rows (services/subscription.py).   *)
(*                                                                         *)
(* Days are counted down to the end of the row a member holds, 0 without a *)
(* row.  A run fits into its day, and so does a purchase.                  *)
(***************************************************************************)
EXTENDS Naturals, FiniteSets

CONSTANTS Members,
          Window,         \* DEFAULT_EXPIRY_REMINDER_DAYS
          Term,           \* days of a purchase
          MaxLeft,        \* bound on the days a member may hold
          Unsent          \* no message under way

ASSUME RemindersAssumption ==
  /\ Window \in Nat \ {0} /\ Term \in Nat /\ Term > Window /\ MaxLeft \in Nat
  /\ Unsent \notin Members

VARIABLES
  held,     \* the row with access: days left, source, provider link, notified_expiring
  ran,      \* today's run has begun, or never will
  todo,     \* the run's rows, with the days they had when it read them
  sent,     \* whose message is delivered and not yet committed
  \* What happened to the period the member is in:
  told,     \* messages delivered
  excused,  \* days on which the bot, Telegram or the database failed the member
  lost,     \* a message was delivered and its mark was not committed
  crossed   \* the period began while a run that had read the old one was busy

remindVars == <<held, ran, todo, sent, told, excused, lost, crossed>>
history == <<told, excused, lost, crossed>>

NoRow == [left |-> 0, source |-> "none", linked |-> FALSE, notified |-> FALSE]

RemindersInit ==
  /\ held = [m \in Members |-> NoRow]
  /\ ran = FALSE /\ todo = {} /\ sent = Unsent
  /\ told = [m \in Members |-> 0] /\ excused = [m \in Members |-> 0]
  /\ lost = [m \in Members |-> FALSE] /\ crossed = [m \in Members |-> FALSE]

\* is_manual_usdt_expiry_reminder_due, the query's conditions again
DueReminder(m) ==
  /\ held[m].source = "usdt" /\ ~held[m].linked /\ ~held[m].notified
  /\ held[m].left \in 1..Window

Busy(m) == sent = m \/ \E e \in todo : e.who = m

(***************************************************************************)
(* create_or_extend_subscription, as far as the reminder reads its row: a  *)
(* link to a recurring contract stays on the row whatever is bought later, *)
(* and only USDT that moves the end asks for a new reminder.               *)
(***************************************************************************)
\* Broken variant: a mark outlives the period it was set for.
ExtendedQuietly(r, source) ==
  [left |-> r.left + Term, source |-> source,
   linked |-> r.linked \/ source = "stripe", notified |-> r.notified]
Extended(r, source) ==
  [left |-> r.left + Term, source |-> source,
   linked |-> r.linked \/ source = "stripe",
   notified |-> r.notified /\ source # "usdt"]

Purchase(m, source) ==
  /\ held[m].left + Term <= MaxLeft
  /\ held' = [held EXCEPT ![m] = Extended(@, source)]
  /\ told' = [told EXCEPT ![m] = 0] /\ excused' = [excused EXCEPT ![m] = 0]
  /\ lost' = [lost EXCEPT ![m] = FALSE] /\ crossed' = [crossed EXCEPT ![m] = Busy(m)]
  /\ UNCHANGED <<ran, todo, sent>>

(***************************************************************************)
(* remind_expiring_job.  The rows it read are not read again: a commit     *)
(* leaves them as they are in memory (expire_on_commit is off).            *)
(***************************************************************************)
Blame(failed) == excused' = [m \in Members |->
  IF m \in failed /\ held[m].left \in 1..Window THEN excused[m] + 1 ELSE excused[m]]

\* expiring_manual_usdt: one query, the nearest end first
ReadReminders ==
  /\ ~ran /\ ran' = TRUE
  /\ todo' = {[who |-> m, left |-> held[m].left] : m \in {n \in Members : DueReminder(n)}}
  /\ UNCHANGED <<held, sent, history>>

\* The pre-launch hold, or the bot is not up at ten o'clock.
SkipReminders ==
  /\ ~ran /\ ran' = TRUE
  /\ Blame(Members)
  /\ UNCHANGED <<held, todo, sent, told, lost, crossed>>

Nearest == {e \in todo : \A f \in todo : e.left <= f.left}

\* _safe_send: a failure is swallowed, and the row waits for tomorrow.
SendReminder ==
  /\ sent = Unsent
  /\ \E e \in Nearest :
       /\ todo' = todo \ {e}
       /\ \/ sent' = e.who /\ told' = [told EXCEPT ![e.who] = @ + 1]
             /\ UNCHANGED excused
          \/ sent' = Unsent /\ Blame({e.who}) /\ UNCHANGED told
  /\ UNCHANGED <<held, ran, lost, crossed>>

\* Broken variant: the commit is left to the end of the run, which has none.
CommitNothing ==
  /\ sent # Unsent /\ sent' = Unsent
  /\ UNCHANGED <<held, ran, todo, history>>
\* The mark and nothing else, whatever the row has become.
CommitReminder ==
  /\ sent # Unsent /\ sent' = Unsent
  /\ held' = [held EXCEPT ![sent].notified = TRUE]
  /\ UNCHANGED <<ran, todo, history>>

\* The process dies, or a commit fails and nothing catches it.
ReminderDies ==
  /\ sent # Unsent \/ todo # {}
  /\ lost' = [m \in Members |-> lost[m] \/ m = sent]
  /\ Blame({e.who : e \in todo})
  /\ todo' = {} /\ sent' = Unsent
  /\ UNCHANGED <<held, ran, told, crossed>>

(***************************************************************************)
(* Midnight.  A row that runs out is not extended again: the next purchase *)
(* makes a new one.                                                        *)
(***************************************************************************)
Older(r) == IF r.left <= 1 THEN NoRow ELSE [r EXCEPT !.left = @ - 1]

Midnight ==
  /\ ran /\ ran' = FALSE /\ todo = {} /\ sent = Unsent
  /\ held' = [m \in Members |-> Older(held[m])]
  /\ told' = [m \in Members |-> IF held'[m] = NoRow THEN 0 ELSE told[m]]
  /\ excused' = [m \in Members |-> IF held'[m] = NoRow THEN 0 ELSE excused[m]]
  /\ lost' = [m \in Members |-> held'[m] # NoRow /\ lost[m]]
  /\ crossed' = [m \in Members |-> held'[m] # NoRow /\ crossed[m]]
  /\ UNCHANGED <<todo, sent>>

RemindersNext ==
  \/ \E m \in Members, source \in {"usdt", "stripe", "gift"} : Purchase(m, source)
  \/ ReadReminders \/ SkipReminders \/ SendReminder \/ CommitReminder \/ ReminderDies
  \/ Midnight

RemindersSpec == RemindersInit /\ [][RemindersNext]_remindVars
=============================================================================
