----------------------------- MODULE RepositoryGC -----------------------------
(***************************************************************************)
(* Repository::gc on a repository that is being used (repository.rs).      *)
(*                                                                         *)
(* gc lists the snapshots, walks the trees they name to collect what is    *)
(* reachable, lists the objects, and deletes those it did not reach, one   *)
(* by one.  It takes no lock, and the chunk_cache of open handles is not   *)
(* told.  The roots are walked with get_tree, which parses the root chunk  *)
(* as the JSON of a Tree and treats any failure as a tree without entries. *)
(* What commit_archive stores is the bincode of an Archive, which is no    *)
(* such JSON; a client of put_tree and commit_snapshot stores real trees.  *)
(***************************************************************************)
EXTENDS Repository

CONSTANT TreeRuns   \* the runs that store their root with put_tree

ASSUME TreeRunsAssumption == TreeRuns \subseteq Runs

VARIABLES
  phase,      \* where gc is
  listed,     \* the snapshots gc has listed
  reachable,  \* the object ids gc has reached
  toDelete,   \* listed objects gc did not reach and has yet to delete
  late,       \* objects that were written since gc listed the objects (history)
  exposed     \* exposed[r]: what has put the archive of run r at risk (history)

gcVars == <<phase, listed, reachable, toDelete>>
allVars == <<vars, gcVars, late, exposed>>

\* gc listed the snapshots without that of run r and deleted an object that r had
\* written or found stored; gc failed to read the snapshot of r; gc did not learn
\* what the root of r refers to.
Exposures == {"overtaken", "unlisted", "unread"}

GCTypeOK ==
  /\ TypeOK
  /\ phase \in {"idle", "walking", "deleting"}
  /\ listed \subseteq Runs
  /\ reachable \subseteq Chunks
  /\ toDelete \subseteq Chunks
  /\ late \subseteq Chunks
  /\ exposed \in [Runs -> SUBSET Exposures]

GCInit ==
  /\ Init
  /\ phase = "idle"
  /\ listed = {}
  /\ reachable = {}
  /\ toDelete = {}
  /\ late = {}
  /\ exposed = [r \in Runs |-> {}]

Expose(runs, how) ==
  exposed' = [r \in Runs |-> exposed[r] \cup (IF r \in runs THEN {how} ELSE {})]

\* gc: list the snapshots.
StartGC ==
  /\ phase = "idle"
  /\ phase' = "walking"
  /\ \E snapshots \in Listings :
       /\ listed' = snapshots
       /\ Expose(Committed \ snapshots, "unlisted")
  /\ UNCHANGED <<vars, reachable, toDelete, late>>

\* What get_tree may make of the root of run r: its entries, or nothing if the
\* root cannot be read or is no tree.
TreeEntries(r) ==
  {{}} \cup (IF r \in TreeRuns \cap stored THEN {items[r]} ELSE {})

\* Faulty: the chunks of the files in a tree are not taken as reached.
WalkRootOnly(r) ==
  /\ phase = "walking"
  /\ r \in listed \ reachable
  /\ reachable' = reachable \cup {r}
  /\ UNCHANGED <<vars, phase, listed, toDelete, late, exposed>>

\* traverse_tree: the root is reached, and what its tree refers to.
Walk(r) ==
  /\ phase = "walking"
  /\ r \in listed \ reachable
  /\ \E entries \in TreeEntries(r) :
       /\ reachable' = reachable \cup {r} \cup entries
       /\ Expose(IF entries = items[r] THEN {} ELSE {r}, "unread")
  /\ UNCHANGED <<vars, phase, listed, toDelete, late>>

\* gc: every tree is walked; list the objects.
ListObjects ==
  /\ phase = "walking"
  /\ listed \subseteq reachable
  /\ phase' = "deleting"
  /\ toDelete' = stored \ reachable
  /\ UNCHANGED <<vars, listed, reachable, late, exposed>>

\* gc: delete one unreached object.  Deleting one that is gone succeeds.
DeleteObject(c) ==
  /\ phase = "deleting"
  /\ c \in toDelete
  /\ stored' = stored \ {c}
  /\ toDelete' = toDelete \ {c}
  /\ Expose({r \in Runs \ listed : c \in cache[r]}, "overtaken")
  /\ UNCHANGED <<snap, name, doomed, runVars, phase, listed, reachable, late>>

\* gc is over, and what it knew is forgotten.
EndGC ==
  /\ phase' = "idle"
  /\ listed' = {}
  /\ reachable' = {}
  /\ toDelete' = {}
  /\ late' = {}
  /\ UNCHANGED <<vars, exposed>>

\* Faulty: the first deletion that fails ends gc with Ok.
FinishGCAnyway == phase = "deleting" /\ EndGC

\* gc: all deletions done, return Ok.
FinishGC == phase = "deleting" /\ toDelete = {} /\ EndGC

\* An error ends gc, or the process dies.
AbortGC == phase # "idle" /\ EndGC

GCStep ==
  \/ StartGC
  \/ \E r \in Runs : Walk(r)
  \/ ListObjects
  \/ \E c \in Chunks : DeleteObject(c)
  \/ FinishGC
  \/ AbortGC

\* Backups and deletions do not ask whether gc runs.
ClientStep ==
  /\ (\E r \in Runs : RunStep(r)) \/ DeleteStep
  /\ late' = IF phase = "deleting" THEN late \cup (stored' \ stored) ELSE late
  /\ UNCHANGED <<gcVars, exposed>>

GCNext == GCStep \/ ClientStep

GCSpec == GCInit /\ [][GCNext]_allVars

-------------------------------------------------------------------------------
(***************************************************************************)
(* Properties                                                              *)
(***************************************************************************)

\* gc collects the root object of a committed archive only behind the back of its
\* backup, which had not committed when gc listed the snapshots, or because it
\* could not read its snapshot.
RootsKept ==
  \A r \in Committed : exposed[r] \subseteq {"unread"} => r \in stored

\* The rest of an archive it collects only for these reasons too, or because it
\* could not read the root as a tree, which is so with all that commit_archive
\* stored.  A backup that overlaps gc commits an archive that is stored in full,
\* if gc deleted nothing that its handle takes for stored.
TreesKept ==
  \A r \in Committed : exposed[r] = {} => Readable(r)

\* What gc spares of the committed archives, whatever they share, however often gc
\* is interrupted, and whatever backups do beside it.
ArchivesSpared == RootsKept /\ TreesKept

\* A gc that returns Ok has left nothing but the roots it listed, what trees among
\* them refer to, and what was written since it listed the objects.  So it has
\* collected the data of every archive that commit_archive stored, but what is
\* also in a tree.
NoGarbageLeft ==
  [][FinishGC =>
       \A c \in stored : c \in listed \cup late \/ \E r \in listed \cap TreeRuns : c \in items[r]
    ]_allVars
===============================================================================
