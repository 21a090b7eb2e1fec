-------------------------------- MODULE Cutover --------------------------------
(***************************************************************************)
(* Taking members out of the Telegram rooms: the command that turns free   *)
(* communities into paid ones (ops/cutover.py), the gate before the hourly *)
(* removals are armed (ops/expiry_removal_gate.py), the binding of the     *)
(* hourly job to its rooms (bot/tasks.py), and what one removal does in    *)
(* each room (services/channel_access.py).                                 *)
(*                                                                         *)
(* A member's subscription is one word here; AccessLifecycle has its dates *)
(* and the job's own records.  A roster is what parsing leaves of it: lines *)
(* with an id, a username or both.                                         *)
(***************************************************************************)
EXTENDS FiniteSets, Naturals

CONSTANTS People, Names, Rooms,
          NoId,       \* a field that is not there
          Rosters,    \* the exports: sets of lines
          Allowlists, \* [ids, names], the administrators fetched included
          Settings,   \* the environments an operator may write
          Answers,    \* what Telegram may do to one removal in one room
          MaxPays, MaxKicks, MaxRuns, MaxChecks \* bounds

Lines == [id : People \cup {NoId}, name : Names \cup {NoId}] \ {[id |-> NoId, name |-> NoId]}
Environments == [rooms : [Rooms -> {"chat", "link", "unset"}],
                 hold : BOOLEAN, armed : BOOLEAN, expect : SUBSET Rooms]

ASSUME CutoverAssumption ==
  /\ NoId \notin People \cup Names \cup {"stranger"} /\ "stranger" \notin Names
  /\ Rosters \subseteq SUBSET Lines /\ Settings \subseteq Environments
  /\ Allowlists \subseteq [ids : SUBSET People, names : SUBSET Names]
  /\ Answers \subseteq {"done", "half", "flood", "refused"}
  /\ MaxPays \in Nat /\ MaxKicks \in Nat /\ MaxRuns \in Nat /\ MaxChecks \in Nat

VARIABLES
  settings,       \* .env; every process reads it when it starts
  users,          \* the username the bot knows someone by, or "stranger"
  row,            \* none, paid, team, due, later (due, in Telegram's retry
                  \* window), expired, given_up (Telegram refuses for good)
  place,          \* Telegram: person -> room -> in, out, banned
  gate,           \* the gate's transaction: the rows it is asked to close
  verdict, fell,  \* what the gate last printed, and who fell due since it was clear
  run, failures,  \* the command under way, and the file of its failures
  done            \* purchases, removals tried and runs so far, for the bounds

cutoverVars == <<settings, users, row, place, gate, verdict, fell, run, failures, done>>
people == <<users, row>>

NoRun == [at |-> "idle", rooms |-> {}, named |-> {}, lines |-> {}, allow |-> {}, spared |-> {}, known |-> {},
             planned |-> {}, left |-> {}, again |-> NoId, failed |-> {}, moved |-> {}]

CutoverInit ==
  /\ settings \in Settings
  /\ users \in {u \in [People -> Names \cup {NoId, "stranger"}] :
                  \A p, q \in People : u[p] = u[q] /\ u[p] \in Names => p = q}
  /\ row \in [People -> {"none", "paid"}]
  /\ \A p \in People : row[p] = "paid" => users[p] # "stranger"
  /\ place = [p \in People |-> [r \in Rooms |-> "in"]]
  /\ gate = {} /\ verdict = "none" /\ fell = {}
  /\ run = NoRun /\ failures = {}
  /\ done = [pays |-> 0, kicks |-> 0, runs |-> 0, checks |-> 0]

\* The operator runs one command at a time.
Console == gate = {} /\ run.at = "idle"

\* has_subscription_access; a row in the retry window has lost it.
HasAccess(p) == row[p] \in {"paid", "team"}
Due == {p \in People : row[p] = "due"}

Configured(s) == {r \in Rooms : s.rooms[r] # "unset"}
\* target_chat_ids and _removal_target_chat_ids: the rooms a ban can land on.
Targets(s) == {r \in Rooms : s.rooms[r] = "chat"}

(***************************************************************************)
(* kick_user: ban and unban in every configured room.  A flood limit may   *)
(* fall between the two; a room known by its link alone always refuses.    *)
(***************************************************************************)
\* Broken variant: one room is enough.
AnsweredAny(answers) ==
  CASE \E r \in DOMAIN answers : answers[r] = "done" -> "ok"
    [] \E r \in DOMAIN answers : answers[r] \in {"flood", "half"} -> "flood"
    [] OTHER -> "failed"
Answered(answers) ==
  CASE \E r \in DOMAIN answers : answers[r] \in {"flood", "half"} -> "flood"
    [] DOMAIN answers # {} /\ \A r \in DOMAIN answers : answers[r] = "done" -> "ok"
    [] OTHER -> "failed"

Kicked(at, chats, links) ==
  {[at |-> [r \in Rooms |-> CASE r \in chats /\ f[r] = "done" -> "out"
                              [] r \in chats /\ f[r] = "half" -> "banned"
                              [] OTHER -> at[r]],
    result |-> Answered(f)] :
     f \in {g \in [chats \cup links -> Answers \cup {"refused"}] :
              \A r \in links : g[r] = "refused"}}
KickedBy(p, s) == Kicked(place[p], Targets(s), Configured(s) \ Targets(s))

(***************************************************************************)
(* Members and the operator's environment.                                 *)
(***************************************************************************)
Moved(p) == run' = IF p \notin run.planned THEN run ELSE [run EXCEPT !.moved = @ \cup {p}]
Count(what, max) == done[what] < max /\ done' = [done EXCEPT ![what] = @ + 1]

Deploy ==
  /\ settings' \in Settings
  /\ UNCHANGED <<people, place, gate, verdict, fell, run, failures, done>>

Pay(p) ==
  /\ ~HasAccess(p) /\ Count("pays", MaxPays)
  /\ row' = [row EXCEPT ![p] = "paid"]
  /\ users' = [users EXCEPT ![p] = IF @ = "stranger" THEN NoId ELSE @]
  /\ Moved(p)
  /\ UNCHANGED <<settings, place, gate, verdict, fell, failures>>

\* One of the links that came with the purchase.
Join(p, r) ==
  /\ HasAccess(p) /\ place[p][r] = "out" /\ r \in Targets(settings)
  /\ place' = [place EXCEPT ![p][r] = "in"]
  /\ Moved(p)
  /\ UNCHANGED <<settings, people, gate, verdict, fell, failures, done>>

\* The window closes, or the retry window opens again.
FallDue(p) ==
  /\ row[p] \in {"paid", "later"}
  /\ row' = [row EXCEPT ![p] = "due"]
  /\ fell' = IF verdict = "clear" THEN fell \cup {p} ELSE {}
  /\ Moved(p)
  /\ UNCHANGED <<settings, users, done, place, gate, verdict, failures>>

\* The panel's mark for the client's own team
MarkTeam(p) ==
  /\ row[p] \in {"paid", "due", "later"}
  /\ row' = [row EXCEPT ![p] = "team"]
  /\ Moved(p)
  /\ UNCHANGED <<settings, users, done, place, gate, verdict, fell, failures>>

(***************************************************************************)
(* The hourly job, one member at a time.                                   *)
(***************************************************************************)
\* _expiry_removals_refusal, behind the hold
Armed(s) == ~s.hold /\ s.armed /\ Targets(s) # {} /\ s.expect = Targets(s)

Sweep(p) ==
  /\ Armed(settings) /\ p \in Due /\ Count("kicks", MaxKicks)
  /\ \E k \in KickedBy(p, settings) :
       /\ place' = [place EXCEPT ![p] = k.at]
       /\ row' = [row EXCEPT ![p] = CASE k.result = "ok" -> "expired"
                                      [] k.result = "flood" -> "later"
                                      [] OTHER -> "given_up"]
  /\ Moved(p)
  /\ UNCHANGED <<settings, users, gate, verdict, fell, failures>>

(***************************************************************************)
(* expiry_removal_gate: the job's own selector, read without a lock.       *)
(***************************************************************************)
Printed(due) == IF due = {} THEN "clear" ELSE "red"

GateReports ==
  /\ Console /\ Count("checks", MaxChecks)
  /\ verdict' = Printed(Due) /\ fell' = {}
  /\ UNCHANGED <<settings, people, place, gate, run, failures>>

\* expire_rows: only rows the gate has just read; everything else is refused.
GateTakes(ids) ==
  /\ Console /\ ids # {} /\ ids \subseteq Due /\ Count("checks", MaxChecks)
  /\ gate' = ids
  /\ UNCHANGED <<settings, people, place, verdict, fell, run, failures>>

Closed(ids) == [p \in People |-> IF p \in ids THEN "expired" ELSE row[p]]
\* Broken variant: it is assumed that nobody is left.
LeftAfterNone(ids) == {}
\* The gate is run again rather than assumed.
LeftAfter(ids) == {p \in People : Closed(ids)[p] = "due"}

\* The status and nothing else; the rows may have changed since.
GateWrites ==
  /\ gate # {} /\ gate' = {}
  /\ row' = Closed(gate)
  /\ verdict' = Printed(LeftAfter(gate)) /\ fell' = {}
  /\ UNCHANGED <<settings, users, done, place, run, failures>>

(***************************************************************************)
(* The cutover command.                                                    *)
(***************************************************************************)
HolderOf(name) == {q \in People : users[q] = name}

\* Broken variant: the username is looked up first.
UserOfName(e) ==
  IF e.name # NoId /\ HolderOf(e.name) # {} THEN HolderOf(e.name)
  ELSE IF e.id # NoId /\ users[e.id] # "stranger" THEN {e.id} ELSE {}
\* build_plan: the user of a line, by id and then by username
UserOf(e) ==
  IF e.id # NoId /\ users[e.id] # "stranger" THEN {e.id}
  ELSE IF e.name # NoId THEN HolderOf(e.name) ELSE {}
IdOf(e) == IF e.id # NoId THEN {e.id} ELSE UserOf(e)

Verdict(e, allow) ==
  CASE IdOf(e) \cap allow.ids # {} \/ e.name \in allow.names -> "keep_allowlisted"
    [] \E u \in UserOf(e) : HasAccess(u) -> "keep_paid"
    [] IdOf(e) = {} -> "unresolved"
    [] OTHER -> "remove"

Removes(lines, allow) == UNION {IdOf(e) : e \in {l \in lines : Verdict(l, allow) = "remove"}}

\* check_apply_guards
Confirmed(named) == Targets(settings) # {} /\ named = Targets(settings)

Plan(lines, allow, named) ==
  /\ Console /\ lines # {}
  /\ ~settings.hold /\ Confirmed(named)
  /\ LET to_remove == Removes(lines, allow)
     IN run' = [NoRun EXCEPT !.at = "removing", !.rooms = settings.rooms, !.named = named,
                  !.lines = lines, !.allow = allow,
                  !.spared = allow.ids \cup {p \in People : HasAccess(p)},
                  !.known = {p \in People : users[p] # "stranger"},
                  !.planned = to_remove, !.left = to_remove]
  /\ UNCHANGED <<settings, people, place, gate, verdict, fell, failures>>

PlanRoster(allow, named) ==
  /\ Count("runs", MaxRuns)
  /\ \E lines \in Rosters : Plan(lines, allow, named)
\* "Feed the failures back in as a second, much smaller roster"
PlanRetry(allow, named) ==
  /\ Plan({[id |-> p, name |-> NoId] : p \in failures}, allow, named)
  /\ UNCHANGED done

\* apply_removals, one member: a flood limit is waited out once.
Kick(p) ==
  LET again == run.again = p
  IN /\ run.at = "removing" /\ p \in run.left /\ run.again \in {NoId, p}
     /\ Count("kicks", MaxKicks)
     /\ \E k \in KickedBy(p, run) :
          /\ place' = [place EXCEPT ![p] = k.at]
          /\ run' = IF k.result = "flood" /\ ~again THEN [run EXCEPT !.again = p]
                    ELSE [run EXCEPT !.left = @ \ {p}, !.again = NoId,
                            !.failed = IF k.result = "ok" THEN @ ELSE @ \cup {p}]
     /\ UNCHANGED <<settings, people, gate, verdict, fell, failures>>

\* The last member, the limit or Ctrl-C: a file of failures if there are any.
Finish ==
  /\ run.at = "removing"
  /\ run' = NoRun
  /\ failures' = IF run.failed # {} THEN run.failed ELSE failures
  /\ UNCHANGED <<settings, people, place, gate, verdict, fell, done>>

CutoverNext ==
  \/ Deploy \/ GateReports \/ GateWrites \/ Finish
  \/ \E p \in People : Pay(p) \/ FallDue(p) \/ MarkTeam(p) \/ Sweep(p) \/ Kick(p)
  \/ \E p \in People, r \in Rooms : Join(p, r)
  \/ \E ids \in SUBSET People : GateTakes(ids)
  \/ \E allow \in Allowlists, named \in SUBSET Rooms :
       PlanRoster(allow, named) \/ PlanRetry(allow, named)

CutoverSpec == CutoverInit /\ [][CutoverNext]_cutoverVars
=============================================================================
