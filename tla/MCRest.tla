--------------------------------- MODULE MCRest ---------------------------------
(***************************************************************************)
(* The archive, the sessions that open it, the cutover, the reminders and  *)
(* the cancellation of a renewal share no state here: a behaviour plays    *)
(* one of them while the others rest, so one run checks the five of them   *)
(* at the cost of their sum.                                               *)
(***************************************************************************)
EXTENDS ArchiveProperties, PortalProperties, CutoverProperties, RemindersProperties,
        CancellationProperties, TLC

CONSTANTS v1, a1, m1, t1, t2, s1, s2, c1, c2, p1, p2, n1, r1, r2, m2, m3, k1, k2, h1

VARIABLE side

vars == <<side, archiveVars, portalVars, cutoverVars, remindVars, cancelVars>>

\* A member by id with a username that someone else has by now, that username
\* alone, and a member by id alone.
Line(id, name) == [id |-> id, name |-> name]
OneRoster == {{Line(p1, n1), Line(NoId, n1), Line(p2, NoId)}}
TwoLists == {[ids |-> {}, names |-> {}], [ids |-> {p2}, names |-> {n1}]}
\* Two rooms and nothing armed; one room, and the hourly job armed for it.
Env(x, y, expect) ==
  [rooms |-> (r1 :> x @@ r2 :> y), hold |-> FALSE, armed |-> expect # {}, expect |-> expect]
TwoEnvironments == {Env("chat", "chat", {}), Env("chat", "unset", {r1})}

\* The archive is checked from three sides: the titles of a showcase that is
\* empty; the memberships under two runs, with modules of Vimeo's only and none
\* hidden; and the memberships under one run, with all modules.
ArchiveSides == {"names", "members", "modules"}
\* Bounds: the showcase is never deleted, which to a run looks like a fetch that
\* failed, and holds no video that Vimeo does not list; outside of "names" it has
\* one title.
ArchiveBound ==
  LET catalogue == vimeo.showcases
      ByHand    == \E m \in Manual : module[m].there
      OneTitle  == \A a \in Albums : module[a].title \in {None, catalogue.title[a]}
  IN /\ DOMAIN catalogue.members = Albums
     /\ \A a \in Albums : catalogue.members[a] \subseteq vimeo.videos
     /\ side = "names" => vimeo.videos = {} /\ ~ByHand
     /\ side = "members" => OneTitle /\ ~ByHand /\ \A a \in Albums : module[a].there => module[a].active
     /\ side = "modules" => OneTitle /\ \E s \in Syncs : sync[s] = Resting
\* Bound: nobody but the runs does anything while two are under way, except that
\* modules are renamed ("names") and memberships edited.
OthersRest ==
  (\A s \in Syncs : sync[s].at # "idle") /\ sync' = sync
    => UNCHANGED <<vimeo, video>> /\ (side = "members" => UNCHANGED module)
\* Bound: the member has lost the last row that could be bought.
RowsSpent == LiveRows \cup Free = {}

Init ==
  /\ ArchiveInit /\ PortalInit /\ CutoverInit /\ RemindersInit /\ CancelInit
  /\ side \in ArchiveSides \cup {"portal", "cutover", "reminders", "cancel"}
  /\ ArchiveBound /\ (side \notin ArchiveSides => vimeo.videos = {})
  /\ side # "portal" => access
  /\ IF side = "cutover" THEN users[p1] # n1 /\ users[p2] = n1
     ELSE /\ users = [p \in People |-> "stranger"] /\ settings.expect = {r1}

Next ==
  \/ side \in ArchiveSides /\ ArchiveNext
     /\ UNCHANGED <<side, portalVars, cutoverVars, remindVars, cancelVars>>
     /\ ArchiveBound' /\ OthersRest
     /\ (side # "names" => vimeo'.showcases.title = vimeo.showcases.title)
  \/ side = "portal" /\ PortalNext
     /\ UNCHANGED <<side, archiveVars, cutoverVars, remindVars, cancelVars>>
  \/ side = "cutover" /\ CutoverNext
     /\ UNCHANGED <<side, archiveVars, portalVars, remindVars, cancelVars>>
  \/ side = "reminders" /\ RemindersNext
     /\ UNCHANGED <<side, archiveVars, portalVars, cutoverVars, cancelVars>>
  \/ side = "cancel" /\ CancelNext
     /\ UNCHANGED <<side, archiveVars, portalVars, cutoverVars, remindVars>>
  \/ side = "cancel" /\ RowsSpent /\ UNCHANGED vars

Spec == Init /\ [][Next]_vars

AnyRun == Permutations(Syncs) \cup Permutations(Titles)
=============================================================================
