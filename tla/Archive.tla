-------------------------------- MODULE Archive --------------------------------
(***************************************************************************)
(* The video archive (services/vimeo_sync.py, api/routers/archive.py, the  *)
(* pages of api/routers/portal.py): videos and showcases copied from Vimeo *)
(* by a daily job and by an administrator's button, curated by hand in     *)
(* between, and shown to members by module.                                *)
(*                                                                         *)
(* A title stands for the three merged fields of a module.  The order of   *)
(* videos and modules, thumbnails, durations and privacy are left out.     *)
(* What a transaction has flushed is written with its commit; the rows it  *)
(* flushed stay locked until then.                                         *)
(***************************************************************************)
EXTENDS FiniteSets, Naturals

CONSTANTS Videos, Albums, Manual, \* videos and showcases of Vimeo, modules made by hand
          Titles,
          Syncs,                  \* bound: sync runs under way at once
          None

ASSUME ArchiveAssumption ==
  Albums \cap Manual = {} /\ None \notin Albums \cup Manual \cup Titles

VARIABLES
  vimeo,    \* what the owner keeps at Vimeo
  video,    \* archive_videos, by visibility; a draft counts as hidden
  module,   \* archive_modules
  pair,     \* archive_video_modules: the row of a video in a module
  primary,  \* archive_videos.module_id
  sync,     \* sync runs under way
  edit,     \* the change of a membership an administrator has under way (bound: one)
  own,      \* album -> title an administrator gave its module
  pruned    \* Vimeo memberships an administrator removed

archive == <<video, module, pair, primary>>
ghosts == <<own, pruned>>
archiveVars == <<vimeo, archive, sync, edit, ghosts>>

Modules == Albums \cup Manual
NoModule == [there |-> FALSE, active |-> FALSE, title |-> None, last |-> None]
NoFetch == [members |-> [a \in {} |-> {}], title |-> [a \in {} |-> None]]
NoPlan == [add |-> {}, drop |-> {}, primary |-> [v \in {} |-> None]]
Resting == [at |-> "idle", listing |-> {}, create |-> {}, hide |-> {}, fetch |-> NoFetch,
            seen |-> [a \in {} |-> NoModule], plan |-> NoPlan]
NoEdit == [at |-> "idle", pair |-> <<>>, read |-> "none", row |-> "none", primary |-> None]

Showcases == UNION {[members : [as -> SUBSET Videos], title : [as -> Titles]] : as \in SUBSET Albums}
Catalogue == [videos : SUBSET Videos, showcases : Showcases]

ArchiveInit ==
  /\ vimeo \in Catalogue
  /\ video = [v \in Videos |-> "absent"]
  /\ module = [m \in Modules |-> NoModule]
  /\ pair = [p \in Videos \X Modules |-> "none"]
  /\ primary = [v \in Videos |-> None]
  /\ sync = [s \in Syncs |-> Resting] /\ edit = NoEdit
  /\ own = [a \in Albums |-> None] /\ pruned = {}

Known == {v \in Videos : video[v] # "absent"}
\* An effective membership: a row that is not a tombstone.
Shown(row) == row \in {"vimeo", "admin"}

\* The SELECT of recompute_primary_module: an active module the video is in; which
\* one is a matter of order.  Its UPDATE comes with the commit.
Recomputed(v, rows) ==
  LET in == {m \in Modules : module[m].active /\ Shown(rows[<<v, m>>])}
  IN IF in = {} THEN {None} ELSE in
\* The foreign key of module_id.
Refers(m) == m = None \/ module[m].there

(***************************************************************************)
(* A sync run: one transaction around two fetches.                         *)
(***************************************************************************)
OwnerEdits ==
  /\ vimeo' \in Catalogue
  /\ UNCHANGED <<archive, sync, edit, ghosts>>

\* fetch_vimeo_videos: all pages or none.
ListVideos(s) ==
  /\ sync[s].at = "idle"
  /\ \/ sync' = [sync EXCEPT ![s].at = "listed", ![s].listing = vimeo.videos]
     \/ sync' = [sync EXCEPT ![s].at = "written"]
  /\ UNCHANGED <<vimeo, archive, edit, ghosts>>

\* upsert_videos: the rows are read now and written with the commit; a known
\* video keeps its visibility unless Vimeo no longer lists it.  Every listed row
\* is written (synced_at) and stays locked until the commit.
UpsertVideos(s) ==
  /\ sync[s].at = "listed"
  /\ sync' = [sync EXCEPT ![s].at = "written",
                          ![s].listing = @ \cap Known,
                          ![s].create = sync[s].listing \ Known,
                          ![s].hide = {v \in Known \ sync[s].listing : video[v] = "visible"}]
  /\ UNCHANGED <<vimeo, archive, edit, ghosts>>

Locked(v) ==
  \E s \in Syncs : /\ sync[s].at # "listed"
                   /\ v \in sync[s].listing \cup sync[s].hide \cup DOMAIN sync[s].plan.primary

\* fetch_showcases: all albums with their members, or nothing; also after a
\* listing of the videos that failed.
FetchShowcases(s) ==
  /\ sync[s].at = "written"
  /\ \E fetch \in {NoFetch, vimeo.showcases} :
       sync' = [sync EXCEPT ![s].at = IF fetch = NoFetch THEN "grouped" ELSE "fetched",
                            ![s].fetch = fetch]
  /\ UNCHANGED <<vimeo, archive, edit, ghosts>>

\* upsert_showcase_modules: the modules as they are before the merge.
ReadModules(s) ==
  /\ sync[s].at = "fetched"
  /\ sync' = [sync EXCEPT ![s].at = "merging",
                          ![s].seen = [a \in DOMAIN sync[s].fetch.title |->
                                         [module[a] EXCEPT !.active = FALSE]]]
  /\ UNCHANGED <<vimeo, archive, edit, ghosts>>

\* Broken variant: the snapshot is what the module shows.
MergedOwn(m, seen, title) ==
  LET t == IF seen.title = seen.last THEN title ELSE m.title
  IN [m EXCEPT !.title = t, !.last = t]
\* _merge_module on the module as it was read, over the module as it is: a title
\* that was the last synced one is overwritten.
Merged(m, seen, title) ==
  [m EXCEPT !.title = IF seen.title = seen.last /\ title # seen.title THEN title ELSE @,
            !.last = IF title # seen.last THEN title ELSE @]

Synced(run) ==
  [m \in Modules |->
    IF m \notin DOMAIN run.fetch.title THEN module[m]
    ELSE IF run.seen[m].there THEN Merged(module[m], run.seen[m], run.fetch.title[m])
    ELSE [there |-> TRUE, active |-> TRUE, title |-> run.fetch.title[m],
          last |-> run.fetch.title[m]]]

\* Broken variant: a tombstone is dropped although the showcase backs it.
ReconciledClean(row, listed) ==
  CASE listed /\ row = "none" -> "vimeo"
    [] row = "removed" \/ (~listed /\ row = "vimeo") -> "none"
    [] OTHER -> row
\* reconcile_membership: rows of administrators and tombstones still backed by
\* the showcase are left alone.
Reconciled(row, listed) ==
  CASE listed /\ row = "none" -> "vimeo"
    [] ~listed /\ row \in {"vimeo", "removed"} -> "none"
    [] OTHER -> row

ModuleLocked(m) == \E s \in Syncs : sync[s].at = "grouped" /\ m \in DOMAIN sync[s].fetch.title

\* The flush of the modules, which waits for another run's and locks them; then the
\* rows are read, flushed as reconciled, and the primary modules of their videos read.
Group(s) ==
  LET run  == sync[s]
      rows == [p \in Videos \X Modules |->
                 IF p[2] \in DOMAIN run.fetch.members
                 THEN Reconciled(pair[p], p[1] \in run.fetch.members[p[2]]
                                            \cap (Known \cup run.create))
                 ELSE pair[p]]
      changed(row) == {p \in DOMAIN rows : rows[p] # pair[p] /\ rows[p] = row}
      affected == {p[1] : p \in changed("vimeo") \cup changed("none")}
  IN /\ run.at = "merging" /\ \A m \in DOMAIN run.fetch.title : ~ModuleLocked(m)
     /\ \E found \in [affected -> Modules \cup {None}] :
          /\ \A v \in affected : found[v] \in Recomputed(v, rows)
          /\ sync' = [sync EXCEPT ![s].at = "grouped",
                        ![s].plan = [add |-> changed("vimeo"), drop |-> changed("none"),
                                     primary |-> found]]
     /\ UNCHANGED <<vimeo, archive, edit, ghosts>>

\* A row that another transaction made first, or a module that is gone.
Collides(run) ==
  \/ run.create \cap Known # {}
  \/ \E m \in DOMAIN run.fetch.title : ~run.seen[m].there /\ module[m].there
  \/ \E p \in run.plan.add : pair[p] # "none"
  \/ \E v \in DOMAIN run.plan.primary : ~Refers(run.plan.primary[v])

\* What sync_showcases has flushed.
Regrouped(run) ==
  /\ module' = Synced(run)
  /\ pair' = [p \in Videos \X Modules |->
                IF p \in run.plan.add THEN "vimeo"
                ELSE IF p \in run.plan.drop /\ pair[p] # "admin" THEN "none" ELSE pair[p]]
  /\ primary' = [v \in Videos |-> IF v \in DOMAIN run.plan.primary
                                  THEN run.plan.primary[v] ELSE primary[v]]
  /\ own' = [a \in Albums |->
               IF a \in DOMAIN run.fetch.title /\ own[a] = run.fetch.title[a] THEN None
               ELSE own[a]]
  /\ pruned' = {p \in pruned : p[2] \in DOMAIN run.fetch.members
                                 => p[1] \in run.fetch.members[p[2]]}

\* The commit of sync_archive, or a crash.  A run that collides with another
\* transaction is rolled back whole.
FinishSync(s) ==
  LET run == sync[s]
  IN /\ run.at = "grouped"
     /\ sync' = [sync EXCEPT ![s] = Resting]
     /\ \/ UNCHANGED <<archive, ghosts>>
        \/ /\ ~Collides(run)
           /\ video' = [v \in Videos |-> IF v \in run.create THEN "visible"
                                         ELSE IF v \in run.hide THEN "hidden" ELSE video[v]]
           /\ Regrouped(run)
     /\ UNCHANGED <<vimeo, edit>>

(***************************************************************************)
(* The administrator.                                                      *)
(***************************************************************************)
\* update_video
SetVisibility(v) ==
  /\ v \in Known /\ ~Locked(v)
  /\ \E to \in {"visible", "hidden"} : video' = [video EXCEPT ![v] = to]
  /\ UNCHANGED <<vimeo, module, pair, primary, sync, edit, ghosts>>

\* A membership is read and flushed as `row`, and the primary module read.
Begin(at, v, m, row) ==
  /\ edit = NoEdit
  /\ \E found \in Recomputed(v, [pair EXCEPT ![<<v, m>>] = row]) :
       edit' = [at |-> at, pair |-> <<v, m>>, read |-> pair[<<v, m>>], row |-> row,
                primary |-> found]
  /\ UNCHANGED <<vimeo, archive, sync, ghosts>>

\* add_video_module
AddToModule(v, m) ==
  /\ v \in Known /\ module[m].there
  /\ Begin("add", v, m, CASE pair[<<v, m>>] = "none" -> "admin"
                          [] pair[<<v, m>>] = "removed" -> "vimeo"
                          [] OTHER -> pair[<<v, m>>])

\* remove_video_module: a row Vimeo backs stays as a tombstone.
RemoveFromModule(v, m) ==
  /\ Shown(pair[<<v, m>>])
  /\ Begin("remove", v, m, IF pair[<<v, m>>] = "admin" THEN "none" ELSE "removed")

\* The row came or went since it was read, or a module did.
Stale ==
  \/ (edit.read = "none") # (pair[edit.pair] = "none") /\ edit.row # "none"
  \/ edit.at = "add" /\ ~module[edit.pair[2]].there
  \/ ~Refers(edit.primary)

\* The UPDATE of the video, which waits for a run that has flushed it, and the
\* commit; or an error, and all is rolled back.
SaveEdit ==
  LET p == edit.pair
  IN /\ edit.at # "idle" /\ ~Locked(p[1])
     /\ edit' = NoEdit
     /\ IF Stale THEN UNCHANGED <<pair, primary, pruned>>
        ELSE /\ pair' = [pair EXCEPT ![p] = IF edit.row = edit.read THEN @ ELSE edit.row]
             /\ primary' = [primary EXCEPT ![p[1]] = edit.primary]
             /\ pruned' = IF edit.row = "removed" THEN pruned \cup {p} ELSE pruned \ {p}
     /\ UNCHANGED <<vimeo, video, module, sync, own>>

\* create_module
CreateModule(m) ==
  /\ m \in Manual /\ ~module[m].there
  /\ module' = [module EXCEPT ![m] = [NoModule EXCEPT !.there = TRUE, !.active = TRUE]]
  /\ UNCHANGED <<vimeo, video, pair, primary, sync, edit, ghosts>>

\* update_module: the primary modules are not recomputed.
HideModule(m) ==
  /\ module[m].there /\ ~ModuleLocked(m)
  /\ module' = [module EXCEPT ![m].active = ~@]
  /\ UNCHANGED <<vimeo, video, pair, primary, sync, edit, ghosts>>
\* A run has read the module with Vimeo's title and is yet to write it: the name
\* given now may be overwritten, and does not count as the administrator's.
Merging(m) ==
  \E s \in Syncs : /\ sync[s].at = "merging" /\ m \in DOMAIN sync[s].fetch.title
                   /\ sync[s].seen[m].title = sync[s].seen[m].last
RenameModule(a, t) ==
  /\ module[a].there /\ ~ModuleLocked(a)
  /\ module' = [module EXCEPT ![a].title = t]
  /\ own' = [own EXCEPT ![a] = IF t = module[a].last \/ Merging(a) THEN None ELSE t]
  /\ UNCHANGED <<vimeo, video, pair, primary, sync, edit, pruned>>

\* delete_module refuses a module of Vimeo's.
DeleteModule(m) ==
  /\ m \in Manual /\ module[m].there
  /\ module' = [module EXCEPT ![m] = NoModule]
  /\ pair' = [p \in DOMAIN pair |-> IF p[2] = m THEN "none" ELSE pair[p]]
  /\ primary' = [v \in Videos |-> IF primary[v] = m THEN None ELSE primary[v]]
  /\ UNCHANGED <<vimeo, video, sync, edit, ghosts>>

ArchiveNext ==
  \/ OwnerEdits
  \/ \E s \in Syncs : \/ ListVideos(s) \/ UpsertVideos(s) \/ FetchShowcases(s)
                      \/ ReadModules(s) \/ Group(s) \/ FinishSync(s)
  \/ \E v \in Videos : SetVisibility(v)
  \/ \E v \in Videos, m \in Modules : AddToModule(v, m) \/ RemoveFromModule(v, m)
  \/ SaveEdit
  \/ \E m \in Modules : CreateModule(m) \/ HideModule(m) \/ DeleteModule(m)
  \/ \E a \in Albums, t \in Titles : RenameModule(a, t)

ArchiveSpec == ArchiveInit /\ [][ArchiveNext]_archiveVars

(***************************************************************************)
(* What a member sees, one operator per page.                              *)
(***************************************************************************)
Visible == {v \in Videos : video[v] = "visible"}
Active == {m \in Modules : module[m].there /\ module[m].active}

\* list_videos: the catalogue, its modules and the rest.
Grouping == [m \in Active |-> {v \in Visible : Shown(pair[<<v, m>>])}]
Ungrouped == Visible \ UNION {Grouping[m] : m \in Active}

\* list_module_cards: one card per module that is not empty, with its count.
Cards ==
  {[of |-> m, count |-> Cardinality({v \in Visible : Shown(pair[<<v, m>>])})] :
     m \in {n \in Active : \E v \in Visible : Shown(pair[<<v, n>>])}}
OrphanCount ==
  Cardinality({v \in Visible : \A m \in Active : ~Shown(pair[<<v, m>>])})

\* module_card_videos, for an active module
ModulePage(m) == {v \in Videos : Shown(pair[<<v, m>>]) /\ video[v] = "visible"}

\* Broken variant: a module that is hidden still counts.
OrphanPageEver == {v \in Visible : \A m \in Modules : ~Shown(pair[<<v, m>>])}
\* orphan_card_videos
OrphanPage ==
  LET grouped == {v \in Videos : \E m \in Modules : Shown(pair[<<v, m>>]) /\ module[m].active}
  IN Visible \ grouped
=============================================================================
