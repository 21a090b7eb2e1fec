----------------------------- MODULE CutoverProofs -----------------------------
(***************************************************************************)
(* In every instance of Cutover - any people, rooms, rosters, environments *)
(* and answers of Telegram - the plan of a run is exact, whom it reports   *)
(* as removed is out of every room, and the gate's clear verdict is true.  *)
(***************************************************************************)
EXTENDS CutoverProperties, TLAPS

Rows == {"none", "paid", "team", "due", "later", "expired", "given_up"}
Places == {"in", "out", "banned"}

\* A run has no rooms and no allowlist before it is planned.
Runs ==
  [at : {"idle", "removing"}, rooms : {{}} \cup [Rooms -> {"chat", "link", "unset"}],
   named : SUBSET Rooms, lines : SUBSET Lines,
   allow : {{}} \cup [ids : SUBSET People, names : SUBSET Names],
   spared : SUBSET People, known : SUBSET People, planned : SUBSET People,
   left : SUBSET People, again : People \cup {NoId}, failed : SUBSET People,
   moved : SUBSET People]

\* Who has a row has been seen by the bot.
Seen == \A p \in People : users[p] = "stranger" => row[p] = "none"

Typed ==
  /\ settings \in Environments /\ users \in [People -> Names \cup {NoId, "stranger"}]
  /\ row \in [People -> Rows] /\ Seen
  /\ place \in [People -> [Rooms -> Places]]
  /\ gate \subseteq People /\ verdict \in {"none", "clear", "red"} /\ fell \subseteq People
  /\ failures \subseteq People

\* The rows the gate has read belong to people the bot has seen, and it writes
\* them whatever they have become.
GateSeen == \A p \in gate : users[p] # "stranger"

RunTyped ==
  /\ run \in Runs
  /\ run.left \subseteq run.planned /\ run.failed \subseteq run.planned \ run.left
  /\ run.again \in run.left \cup {NoId}

\* Whom the run has dealt with, has not failed on and nobody moved since.
RemovedAreOut ==
  \A p \in run.planned \ run.moved :
    p \in run.left \cup run.failed \/ \A r \in Targets(run) : place[p][r] = "out"

CInv == Typed /\ GateSeen /\ RunTyped /\ PlanIsExact /\ RemovedAreOut /\ GateTellsJob

(***************************************************************************)
(* The operators.                                                          *)
(***************************************************************************)
\* kick_user: what it makes of one member's rooms; "ok" means out of every room
\* a ban can land on.
LEMMA KickedRooms ==
  ASSUME NEW at \in [Rooms -> Places], NEW chats \in SUBSET Rooms, NEW links,
         NEW k \in Kicked(at, chats, links)
  PROVE  /\ k.at \in [Rooms -> Places]
         /\ k.result = "ok" => \A r \in chats : k.at[r] = "out"
<1>1. PICK f \in [chats \cup links -> Answers \cup {"refused"}] :
        /\ k.at = [r \in Rooms |-> CASE r \in chats /\ f[r] = "done" -> "out"
                                     [] r \in chats /\ f[r] = "half" -> "banned"
                                     [] OTHER -> at[r]]
        /\ k.result = Answered(f)
  <2>1. PICK f \in [chats \cup links -> Answers \cup {"refused"}] :
          k = [at |-> [r \in Rooms |-> CASE r \in chats /\ f[r] = "done" -> "out"
                                        [] r \in chats /\ f[r] = "half" -> "banned"
                                        [] OTHER -> at[r]],
               result |-> Answered(f)]
    BY DEF Kicked
  <2> QED BY <2>1
<1>2. k.at \in [Rooms -> Places]
  BY <1>1 DEF Places
<1>3. Answered(f) = "ok" => \A r \in DOMAIN f : f[r] = "done"
  BY DEF Answered
<1> QED BY <1>1, <1>2, <1>3

\* Nobody whose id is on the allowlist and nobody with access is removed.
LEMMA RemovesSpare ==
  ASSUME Typed, NEW lines \in SUBSET Lines, NEW allow,
         NEW p \in Removes(lines, allow)
  PROVE  p \in People /\ p \notin allow.ids /\ ~HasAccess(p)
<1>1. PICK e \in lines : Verdict(e, allow) = "remove" /\ p \in IdOf(e)
  BY DEF Removes
<1>2. IdOf(e) \cap allow.ids = {} /\ \A u \in UserOf(e) : ~HasAccess(u)
  BY <1>1 DEF Verdict
<1>3. e.id \in People \cup {NoId}
  BY DEF Lines
<1>4. UserOf(e) \subseteq People
  BY <1>3 DEF UserOf, HolderOf
<1>5. CASE e.id # NoId
  <2>1. p = e.id /\ p \in People
    BY <1>1, <1>3, <1>5 DEF IdOf
  <2>2. users[p] # "stranger" => UserOf(e) = {p}
    BY <1>5, <2>1 DEF UserOf
  <2>3. users[p] = "stranger" => ~HasAccess(p)
    BY <2>1 DEF Typed, Seen, HasAccess
  <2> QED BY <1>1, <1>2, <2>1, <2>2, <2>3
<1>6. CASE e.id = NoId
  BY <1>1, <1>2, <1>4, <1>6 DEF IdOf
<1> QED BY <1>5, <1>6

\* A line with an id that nobody spares is planned by its id, if no username of
\* somebody else can be taken for it.
LEMMA RemovesRest ==
  ASSUME Typed, NEW lines, NEW allow, NEW e \in lines,
         e.id \in People, e.id # NoId, e.id \notin allow.ids, ~HasAccess(e.id),
         e.name \notin allow.names,
         e.name = NoId \/ users[e.id] # "stranger"
  PROVE  e.id \in Removes(lines, allow)
<1>1. IdOf(e) = {e.id}
  BY DEF IdOf
<1>2. UserOf(e) \subseteq {e.id}
  BY DEF UserOf
<1>3. Verdict(e, allow) = "remove"
  BY <1>1, <1>2 DEF Verdict
<1> QED BY <1>1, <1>3 DEF Removes

\* What a change of a member's row or rooms leaves of the run.
SamePlan ==
  /\ run' \in Runs
  /\ run'.rooms = run.rooms /\ run'.lines = run.lines /\ run'.allow = run.allow
  /\ run'.spared = run.spared /\ run'.known = run.known /\ run'.planned = run.planned

LEMMA MovedRun ==
  ASSUME RunTyped, NEW p \in People, Moved(p)
  PROVE  /\ SamePlan /\ RunTyped'
         /\ run'.left = run.left /\ run'.failed = run.failed
         /\ run.moved \subseteq run'.moved
         /\ p \in run.planned => p \in run'.moved
<1>1. CASE p \notin run.planned
  BY <1>1 DEF RunTyped, Moved, SamePlan
<1>2. CASE p \in run.planned
  BY <1>2 DEF RunTyped, Moved, SamePlan, Runs
<1> QED BY <1>1, <1>2

LEMMA PlanKept == SamePlan /\ PlanIsExact => PlanIsExact'
BY DEF SamePlan, PlanIsExact

\* Rooms change only for members the run then counts as moved.
LEMMA MovedStayOut ==
  ASSUME RunTyped, RemovedAreOut, NEW p \in People, Moved(p),
         \A q \in People : q # p => place'[q] = place[q]
  PROVE  RemovedAreOut'
<1>1. /\ SamePlan /\ run'.left = run.left /\ run'.failed = run.failed
      /\ run.moved \subseteq run'.moved
      /\ p \in run.planned => p \in run'.moved
  BY MovedRun
<1>4. run.planned \subseteq People
  BY DEF RunTyped, Runs
<1>2. Targets(run') = Targets(run)
  BY <1>1 DEF SamePlan, Targets
<1>3. ASSUME NEW q \in run.planned, q \notin run'.moved
      PROVE  q \in run.left \cup run.failed \/ \A r \in Targets(run) : place'[q][r] = "out"
  BY <1>1, <1>3, <1>4 DEF RemovedAreOut
<1> QED BY <1>1, <1>2, <1>3 DEF RemovedAreOut, SamePlan

(***************************************************************************)
(* The steps.                                                              *)
(***************************************************************************)
LEMMA CutoverStart == CutoverInit => CInv
<1> SUFFICES ASSUME CutoverInit PROVE CInv
  OBVIOUS
<1>1. Typed /\ GateSeen
  BY CutoverAssumption DEF CutoverInit, Typed, Seen, GateSeen, Rows, Places
<1>2. RunTyped /\ PlanIsExact /\ RemovedAreOut
  BY DEF CutoverInit, NoRun, RunTyped, Runs, PlanIsExact, RemovedAreOut
<1>3. GateTellsJob
  BY DEF CutoverInit, GateTellsJob
<1> QED BY <1>1, <1>2, <1>3 DEF CInv

\* Members, the panel and the hourly job.
LEMMA MembersKeep ==
  ASSUME CInv, NEW p \in People,
         \/ Pay(p) \/ FallDue(p) \/ MarkTeam(p) \/ Sweep(p) \/ \E r \in Rooms : Join(p, r)
  PROVE  CInv'
<1> USE DEF CInv
<1>1. Moved(p)
  BY DEF Pay, FallDue, MarkTeam, Sweep, Join
<1>2. RunTyped' /\ PlanIsExact'
  BY <1>1, MovedRun, PlanKept
<1>3. CASE Pay(p)
  <2>1. /\ row' = [row EXCEPT ![p] = "paid"]
        /\ users' = [users EXCEPT ![p] = IF @ = "stranger" THEN NoId ELSE @]
        /\ UNCHANGED <<settings, place, gate, verdict, fell, failures>>
    BY <1>3 DEF Pay
  <2>2. Typed' /\ GateSeen'
    BY <2>1, CutoverAssumption DEF Typed, Seen, GateSeen, Rows
  <2>3. RemovedAreOut'
    BY <1>1, <2>1, MovedStayOut
  <2>4. GateTellsJob'
    BY <2>1 DEF GateTellsJob, Due, Typed
  <2> QED BY <1>2, <2>2, <2>3, <2>4
<1>4. CASE FallDue(p)
  <2>1. /\ row[p] \in {"paid", "later"} /\ row' = [row EXCEPT ![p] = "due"]
        /\ fell' = IF verdict = "clear" THEN fell \cup {p} ELSE {}
        /\ UNCHANGED <<settings, users, place, gate, verdict, failures>>
    BY <1>4 DEF FallDue
  <2>2. Typed' /\ GateSeen'
    BY <2>1 DEF Typed, Seen, GateSeen, Rows
  <2>3. RemovedAreOut'
    BY <1>1, <2>1, MovedStayOut
  <2>4. GateTellsJob'
    BY <2>1 DEF GateTellsJob, Due, Typed
  <2> QED BY <1>2, <2>2, <2>3, <2>4
<1>5. CASE MarkTeam(p)
  <2>1. /\ row[p] \in {"paid", "due", "later"} /\ row' = [row EXCEPT ![p] = "team"]
        /\ UNCHANGED <<settings, users, place, gate, verdict, fell, failures>>
    BY <1>5 DEF MarkTeam
  <2>2. Typed' /\ GateSeen'
    BY <2>1 DEF Typed, Seen, GateSeen, Rows
  <2>3. RemovedAreOut'
    BY <1>1, <2>1, MovedStayOut
  <2>4. GateTellsJob'
    BY <2>1 DEF GateTellsJob, Due, Typed
  <2> QED BY <1>2, <2>2, <2>3, <2>4
<1>6. CASE Sweep(p)
  <2>1. PICK k \in KickedBy(p, settings) :
          /\ place' = [place EXCEPT ![p] = k.at]
          /\ row' = [row EXCEPT ![p] = CASE k.result = "ok" -> "expired"
                                         [] k.result = "flood" -> "later"
                                         [] OTHER -> "given_up"]
    BY <1>6 DEF Sweep
  <2>2. p \in Due /\ UNCHANGED <<settings, users, gate, verdict, fell, failures>>
    BY <1>6 DEF Sweep
  <2>3. k.at \in [Rooms -> Places]
    <3>1. place[p] \in [Rooms -> Places]
      BY DEF Typed
    <3> QED BY <2>1, <3>1, KickedRooms DEF KickedBy, Targets
  <2>4. PICK s \in {"expired", "later", "given_up"} : row' = [row EXCEPT ![p] = s]
    BY <2>1
  <2>5. Typed' /\ GateSeen'
    BY <2>1, <2>2, <2>3, <2>4 DEF Typed, Seen, GateSeen, Rows, Due
  <2>6. RemovedAreOut'
    <3>1. \A q \in People : q # p => place'[q] = place[q]
      BY <2>1 DEF Typed
    <3> QED BY <1>1, <3>1, MovedStayOut
  <2>7. GateTellsJob'
    BY <2>2, <2>4 DEF GateTellsJob, Due, Typed
  <2> QED BY <1>2, <2>5, <2>6, <2>7
<1>7. ASSUME NEW r \in Rooms, Join(p, r) PROVE CInv'
  <2>1. /\ place' = [place EXCEPT ![p][r] = "in"]
        /\ UNCHANGED <<settings, users, row, gate, verdict, fell, failures>>
    BY <1>7 DEF Join, people
  <2>2. Typed' /\ GateSeen' /\ GateTellsJob'
    BY <2>1 DEF Typed, Seen, GateSeen, Places, GateTellsJob, Due
  <2>3. RemovedAreOut'
    <3>1. \A q \in People : q # p => place'[q] = place[q]
      BY <2>1 DEF Typed
    <3> QED BY <1>1, <3>1, MovedStayOut
  <2> QED BY <1>2, <2>2, <2>3
<1> QED BY <1>3, <1>4, <1>5, <1>6, <1>7

\* The gate: clear means that nobody is due when it is printed.
LEMMA GateKeeps ==
  ASSUME CInv, Deploy \/ GateReports \/ GateWrites \/ \E ids \in SUBSET People : GateTakes(ids)
  PROVE  CInv'
<1> USE DEF CInv
<1>1. UNCHANGED <<users, place, run, failures>>
  BY DEF Deploy, GateReports, GateWrites, GateTakes, people
<1>2. RunTyped' /\ PlanIsExact' /\ RemovedAreOut'
  BY <1>1 DEF RunTyped, PlanIsExact, RemovedAreOut, Targets
<1>3. CASE Deploy
  BY <1>1, <1>2, <1>3, CutoverAssumption
     DEF Deploy, people, Typed, Seen, GateSeen, GateTellsJob, Due
<1>4. CASE GateReports
  BY <1>1, <1>2, <1>4
     DEF GateReports, people, Typed, Seen, GateSeen, GateTellsJob, Due, Printed
<1>5. ASSUME NEW ids \in SUBSET People, GateTakes(ids) PROVE CInv'
  BY <1>1, <1>2, <1>5
     DEF GateTakes, people, Typed, Seen, GateSeen, GateTellsJob, Due
<1>6. CASE GateWrites
  <2>1. /\ gate' = {} /\ row' = Closed(gate) /\ fell' = {} /\ UNCHANGED settings
        /\ verdict' = Printed(LeftAfter(gate))
    BY <1>6 DEF GateWrites
  <2>2. Closed(gate) \in [People -> Rows] /\ Seen'
    BY <1>1, <2>1 DEF Closed, Typed, Rows, Seen, GateSeen
  <2>3. Due' = LeftAfter(gate)
    BY <2>1 DEF Due, LeftAfter
  <2>4. Typed' /\ GateSeen' /\ GateTellsJob'
    BY <1>1, <2>1, <2>2, <2>3 DEF Typed, GateSeen, GateTellsJob, Printed
  <2> QED BY <1>2, <2>4
<1> QED BY <1>3, <1>4, <1>5, <1>6

\* A plan: spared and planned are disjoint, and every certain line is planned.
LEMMA PlanKeeps ==
  ASSUME CInv, NEW lines \in SUBSET Lines, NEW allow \in Allowlists, NEW named \in SUBSET Rooms,
         Plan(lines, allow, named)
  PROVE  CInv'
<1> USE DEF CInv
<1> DEFINE gone == Removes(lines, allow)
           spared == allow.ids \cup {p \in People : HasAccess(p)}
           known == {p \in People : users[p] # "stranger"}
<1>1. allow \in [ids : SUBSET People, names : SUBSET Names]
  BY CutoverAssumption
<1>2. gone \subseteq People /\ gone \cap spared = {}
  BY RemovesSpare
<1>3. /\ run' = [NoRun EXCEPT !.at = "removing", !.rooms = settings.rooms, !.named = named,
                   !.lines = lines, !.allow = allow, !.spared = spared, !.known = known,
                   !.planned = gone, !.left = gone]
      /\ UNCHANGED <<settings, users, row, place, gate, verdict, fell, failures>>
  BY DEF Plan, people
<1>4. ASSUME NEW e \in lines,
             e.id \notin spared \cup {NoId}, e.name \notin allow.names,
             e.name = NoId \/ e.id \in known
      PROVE  e.id \in gone
  <2>1. e.id \in People /\ e.id # NoId
    BY <1>4 DEF Lines
  <2> QED BY <1>1, <1>4, <2>1, RemovesRest
<1>5. /\ settings.rooms \in [Rooms -> {"chat", "link", "unset"}]
      /\ spared \subseteq People /\ known \subseteq People
  BY <1>1 DEF Typed, Environments
<1> HIDE DEF gone, spared, known
<1>6. /\ run' \in Runs
      /\ run'.lines = lines /\ run'.allow = allow /\ run'.spared = spared /\ run'.known = known
      /\ run'.planned = gone /\ run'.left = gone /\ run'.failed = {} /\ run'.again = NoId
  BY <1>1, <1>2, <1>3, <1>5 DEF Runs, NoRun
<1>7. RunTyped'
  BY <1>6 DEF RunTyped
<1>8. PlanIsExact'
  BY <1>2, <1>4, <1>6 DEF PlanIsExact
<1>9. RemovedAreOut'
  BY <1>6 DEF RemovedAreOut
<1>10. Typed' /\ GateSeen' /\ GateTellsJob'
  BY <1>3 DEF Typed, Seen, GateSeen, GateTellsJob, Due
<1> QED BY <1>7, <1>8, <1>9, <1>10

LEMMA PlansKeep ==
  ASSUME CInv, NEW allow \in Allowlists, NEW named \in SUBSET Rooms,
         PlanRoster(allow, named) \/ PlanRetry(allow, named)
  PROVE  CInv'
<1>1. CASE PlanRoster(allow, named)
  BY <1>1, PlanKeeps, CutoverAssumption DEF PlanRoster
<1>2. CASE PlanRetry(allow, named)
  <2>1. {[id |-> p, name |-> NoId] : p \in failures} \subseteq Lines
    BY CutoverAssumption DEF CInv, Typed, Lines
  <2> QED BY <1>2, <2>1, PlanKeeps DEF PlanRetry
<1> QED BY <1>1, <1>2

\* One member of the plan is tried.
LEMMA KickKeeps ==
  ASSUME CInv, NEW p \in People, Kick(p)
  PROVE  CInv'
<1> USE DEF CInv
<1>1. PICK k \in KickedBy(p, run) :
        /\ place' = [place EXCEPT ![p] = k.at]
        /\ run' = IF k.result = "flood" /\ ~(run.again = p) THEN [run EXCEPT !.again = p]
                  ELSE [run EXCEPT !.left = @ \ {p}, !.again = NoId,
                          !.failed = IF k.result = "ok" THEN @ ELSE @ \cup {p}]
  BY DEF Kick
<1>2. p \in run.left /\ run.again \in {NoId, p}
      /\ UNCHANGED <<settings, users, row, gate, verdict, fell, failures>>
  BY DEF Kick, people
<1>3. /\ k.at \in [Rooms -> Places]
      /\ k.result = "ok" => \A r \in Targets(run) : k.at[r] = "out"
  <2>1. place[p] \in [Rooms -> Places] /\ Targets(run) \in SUBSET Rooms
    BY DEF Typed, Targets
  <2>2. k \in Kicked(place[p], Targets(run), Configured(run) \ Targets(run))
    BY <1>1 DEF KickedBy
  <2>3. k.at \in [Rooms -> Places]
    BY <2>1, <2>2, KickedRooms
  <2>4. ASSUME k.result = "ok", NEW r \in Targets(run) PROVE k.at[r] = "out"
    BY <2>1, <2>2, <2>4, KickedRooms
  <2> QED BY <2>3, <2>4
<1>4. Typed' /\ GateSeen' /\ GateTellsJob'
  BY <1>1, <1>2, <1>3 DEF Typed, Seen, GateSeen, GateTellsJob, Due
<1>5. /\ place'[p] = k.at /\ \A q \in People : q # p => place'[q] = place[q]
      /\ run.planned \subseteq People
  BY <1>1 DEF Typed, RunTyped, Runs
<1>6. CASE run' = [run EXCEPT !.again = p]
  <2>1. /\ SamePlan /\ RunTyped' /\ run'.left = run.left /\ run'.failed = run.failed
        /\ run'.moved = run.moved
    BY <1>2, <1>6 DEF RunTyped, Runs, SamePlan
  <2>2. Targets(run') = Targets(run)
    BY <2>1 DEF SamePlan, Targets
  <2>3. RemovedAreOut'
    BY <1>2, <1>5, <2>1, <2>2 DEF RemovedAreOut, SamePlan
  <2> QED BY <1>4, <2>1, <2>3, PlanKept
<1>7. CASE run' = [run EXCEPT !.left = @ \ {p}, !.again = NoId,
                     !.failed = IF k.result = "ok" THEN @ ELSE @ \cup {p}]
  <2> DEFINE failed == IF k.result = "ok" THEN run.failed ELSE run.failed \cup {p}
  <2>4. /\ run \in Runs /\ failed \in SUBSET People /\ run.left \ {p} \in SUBSET People
        /\ run.failed \subseteq failed /\ failed \subseteq run.failed \cup {p}
        /\ k.result # "ok" => p \in failed
    BY DEF RunTyped, Runs
  <2>5. run' = [run EXCEPT !.left = run.left \ {p}, !.again = NoId, !.failed = failed]
    BY <1>7, <2>4 DEF Runs
  <2> HIDE DEF failed
  <2>6. /\ SamePlan /\ run'.left = run.left \ {p} /\ run'.moved = run.moved
        /\ run'.again = NoId /\ run'.failed = failed
    <3>1. run' \in Runs
      BY <2>4, <2>5 DEF Runs
    <3>2. /\ run'.rooms = run.rooms /\ run'.lines = run.lines /\ run'.allow = run.allow
          /\ run'.spared = run.spared /\ run'.known = run.known /\ run'.planned = run.planned
          /\ run'.moved = run.moved
      BY <2>4, <2>5 DEF Runs
    <3>3. run'.left = run.left \ {p} /\ run'.again = NoId /\ run'.failed = failed
      BY <2>4, <2>5 DEF Runs
    <3> QED BY <3>1, <3>2, <3>3 DEF SamePlan
  <2>1. RunTyped'
    BY <1>2, <2>4, <2>6 DEF RunTyped, SamePlan
  <2>2. Targets(run') = Targets(run)
    BY <2>6 DEF SamePlan, Targets
  <2>3. RemovedAreOut'
    BY <1>3, <1>5, <2>2, <2>4, <2>6 DEF RemovedAreOut, SamePlan
  <2> QED BY <1>4, <2>1, <2>3, <2>6, PlanKept
<1> QED BY <1>1, <1>6, <1>7

LEMMA FinishKeeps == CInv /\ (Finish \/ UNCHANGED cutoverVars) => CInv'
<1> SUFFICES ASSUME CInv, Finish \/ UNCHANGED cutoverVars PROVE CInv'
  OBVIOUS
<1> USE DEF CInv
<1>1. CASE UNCHANGED cutoverVars
  BY <1>1 DEF cutoverVars, Typed, Seen, GateSeen, RunTyped, PlanIsExact, RemovedAreOut, Targets,
              GateTellsJob, Due
<1>2. CASE Finish
  <2>1. /\ run' = NoRun /\ failures' \subseteq People
        /\ UNCHANGED <<settings, users, row, place, gate, verdict, fell>>
    BY <1>2 DEF Finish, people, Typed, RunTyped, Runs
  <2>2. RunTyped' /\ PlanIsExact' /\ RemovedAreOut'
    BY <2>1 DEF NoRun, RunTyped, Runs, PlanIsExact, RemovedAreOut
  <2>3. Typed' /\ GateSeen' /\ GateTellsJob'
    BY <2>1 DEF Typed, Seen, GateSeen, GateTellsJob, Due
  <2> QED BY <2>2, <2>3
<1> QED BY <1>1, <1>2

LEMMA CutoverInvariant == CutoverSpec => []CInv
<1>1. CInv /\ [CutoverNext]_cutoverVars => CInv'
  BY MembersKeep, GateKeeps, PlansKeep, KickKeeps, FinishKeeps DEF CutoverNext
<1> QED BY <1>1, CutoverStart, PTL DEF CutoverSpec

\* Nobody who has access or whose id is on the allowlist is planned for removal,
\* and every other line that can be told is, for every roster, whatever the
\* usernames belong to (build_plan).
THEOREM PlanIsExactCorrect == CutoverSpec => []PlanIsExact
BY CutoverInvariant, PTL DEF CInv

\* Whom a run reports as removed is out of every room and banned from none,
\* whatever Telegram answers in each, and whatever the job and the members do
\* meanwhile (apply_removals, kick_user).
THEOREM AccountedCorrect == CutoverSpec => []Accounted
<1>1. CInv => Accounted
  BY DEF CInv, Typed, Seen, RunTyped, RemovedAreOut, Accounted, CutoverTypeOK, Rows, Places
<1> QED BY <1>1, CutoverInvariant, PTL

\* After a clear verdict the hourly job finds nobody but those who have fallen
\* due since, however the rows change between the gate's read and its write
\* (expire_rows, verify).
THEOREM GateTellsJobCorrect == CutoverSpec => []GateTellsJob
BY CutoverInvariant, PTL DEF CInv
=============================================================================
