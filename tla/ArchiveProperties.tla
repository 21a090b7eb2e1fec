--------------------------- MODULE ArchiveProperties ---------------------------
(***************************************************************************)
(* What Archive guarantees.                                                *)
(***************************************************************************)
EXTENDS Archive

ArchiveTypeOK ==
  /\ vimeo \in Catalogue
  /\ video \in [Videos -> {"absent", "visible", "hidden"}]
  /\ module \in [Modules -> [there : BOOLEAN, active : BOOLEAN, title : Titles \cup {None},
                             last : Titles \cup {None}]]
  /\ pair \in [Videos \X Modules -> {"none", "vimeo", "removed", "admin"}]
  /\ primary \in [Videos -> Modules \cup {None}]
  /\ \A m \in Modules : module[m].active => module[m].there
  /\ \A v \in Videos : Refers(primary[v])

\* "a tombstone so the removal survives the next sync": what an administrator
\* took out of a showcase's module is not shown there again, whatever is
\* fetched and in whatever order runs finish, until an administrator puts it
\* back or a sync has seen it leave the showcase.
PruneSticks == \A p \in pruned : pair[p] = "removed"

\* "Admin edits survive re-sync: module renames via a last-synced snapshot": a
\* name given by hand stays, until Vimeo has taken the same name.  A name given
\* while a run is between its read of the module and its write of it is not kept.
RenameSticks == \A a \in Albums : own[a] # None => module[a].title = own[a]

\* The pages of the portal agree: every visible video can be reached, under its
\* modules or among the rest and never both, and no card counts a video its page
\* does not show.
PagesAgree ==
  /\ ArchiveTypeOK
  /\ \A m \in Active : ModulePage(m) = Grouping[m]
  /\ Cards = {[of |-> m, count |-> Cardinality(ModulePage(m))] :
                m \in {n \in Active : ModulePage(n) # {}}}
  /\ OrphanPage = Ungrouped /\ OrphanCount = Cardinality(OrphanPage)
  /\ OrphanPage \cup UNION {ModulePage(m) : m \in Active} = Visible
  /\ \A m \in Active : OrphanPage \cap ModulePage(m) = {}
=============================================================================
