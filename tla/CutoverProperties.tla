--------------------------- MODULE CutoverProperties ---------------------------
(***************************************************************************)
(* What Cutover guarantees.                                                *)
(***************************************************************************)
EXTENDS Cutover

CutoverTypeOK ==
  /\ settings \in Environments /\ users \in [People -> Names \cup {NoId, "stranger"}]
  /\ row \in [People -> {"none", "paid", "team", "due", "later", "expired", "given_up"}]
  /\ \A p \in People : users[p] = "stranger" => row[p] = "none"
  /\ place \in [People -> [Rooms -> {"in", "out", "banned"}]]
  /\ gate \subseteq People /\ verdict \in {"none", "clear", "red"} /\ fell \subseteq People
  /\ run.left \subseteq run.planned /\ run.failed \subseteq run.planned \ run.left
  /\ run.again \in run.left \cup {NoId} /\ failures \subseteq People

\* "On 15 September everyone who has not paid comes out", and only they: nobody
\* who has access or whose id is on the allowlist is planned for removal, and
\* everybody else on the roster is, whoever the usernames belong to by now
\* (build_plan).
PlanIsExact ==
  /\ run.planned \cap run.spared = {}
  /\ \A e \in run.lines :
       /\ e.id \notin run.spared \cup {NoId} /\ e.name \notin run.allow.names
       /\ e.name = NoId \/ e.id \in run.known
       => e.id \in run.planned

\* A member the command reports as removed is out of every room and banned from
\* none, so that they can pay and come back; everybody else is still to be done
\* or in the list of failures (apply_removals, kick_user).
Accounted ==
  /\ CutoverTypeOK
  /\ \A p \in run.planned \ run.moved :
       \/ p \in run.left \cup run.failed
       \/ \A r \in Targets(run) : place[p][r] = "out"

\* "The exit code is the answer": after a clear verdict the hourly job finds
\* nobody but those who have fallen due since (expiry_removal_gate).
GateTellsJob == verdict = "clear" => Due \subseteq fell
=============================================================================
