-------------------------- MODULE RemindersProperties --------------------------
(***************************************************************************)
(* What Reminders guarantees.                                              *)
(***************************************************************************)
EXTENDS Reminders

\* A period is announced once (notified_expiring), except after a message whose
\* mark was lost: "once" here is at least once (remind_expiring_job commits
\* after it sends).
ToldOnce == \A m \in Members : told[m] > 1 => lost[m]

\* "nobody's reminder is lost by skipping": a period paid in USDT that runs out
\* was announced before, unless the run failed the member on every day of the
\* window, or the period was bought while a run still held the one before it.
ToldBeforeEnd ==
  [][\A m \in Members :
       held[m].source = "usdt" /\ ~held[m].linked /\ held'[m].source = "none" =>
         told[m] > 0 \/ excused[m] >= Window \/ crossed[m]]_remindVars
=============================================================================
