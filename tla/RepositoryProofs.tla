--------------------------- MODULE RepositoryProofs ---------------------------
(***************************************************************************)
(* What the repository guarantees for every set of chunks, runs and names: *)
(* by itself, with a garbage collection beside it, and with damaged        *)
(* objects and a borg verify beside it.                                    *)
(***************************************************************************)
EXTENDS RepositoryGC, RepositoryVerify, TLAPS

-------------------------------------------------------------------------------
(***************************************************************************)
(* Backups, deletions and crashes                                          *)
(*                                                                         *)
(* What Repository guarantees for every set of chunks, runs and names:     *)
(* committed archives stay restorable, and the repository implements       *)
(* BackupStore.                                                            *)
(*                                                                         *)
(* Restorable is not inductive: a step of a run that has not committed     *)
(* says nothing about what it collected.  The invariant Ordered adds the   *)
(* chain that the order of the calls in create_with_mapping keeps: what is *)
(* collected is cached, what is cached is stored, and the snapshot comes   *)
(* after the root.                                                         *)
(***************************************************************************)

CacheStored == \A r \in Runs : cache[r] \subseteq stored
ItemsCached == \A r \in Runs : items[r] \subseteq cache[r]
RootCached == \A r \in Runs : pc[r] \in {"root", "done"} => r \in cache[r]
SnapAfterDone == \A r \in Runs : snap[r] # "none" <=> pc[r] = "done"
DoomedExisted == \A r \in doomed : snap[r] # "none"

Ordered ==
  /\ CacheStored
  /\ ItemsCached
  /\ RootCached
  /\ SnapAfterDone
  /\ DoomedExisted

\* A run collects nothing before it has opened its handle.
NothingYet == \A r \in Runs : pc[r] = "start" => cache[r] = {} /\ items[r] = {}

LEMMA TypeStep == TypeOK /\ [Next]_vars => TypeOK'
<1> SUFFICES ASSUME TypeOK, [Next]_vars
             PROVE  TypeOK'
  OBVIOUS
<1> USE DEF TypeOK, SnapState, RunState, Chunks
<1>1. ASSUME NEW r \in Runs, Open(r)
      PROVE  TypeOK'
  BY <1>1 DEF Open, Goto
<1>2. ASSUME NEW r \in Runs, CheckName(r)
      PROVE  TypeOK'
  BY <1>2 DEF CheckName, Goto
<1>3. ASSUME NEW r \in Runs, NEW c \in Data, AddChunk(r, c)
      PROVE  TypeOK'
  BY <1>3 DEF AddChunk, Goto, PutObject
<1>4. ASSUME NEW r \in Runs, StoreRoot(r)
      PROVE  TypeOK'
  BY <1>4 DEF StoreRoot, Goto, PutObject
<1>5. ASSUME NEW r \in Runs, CommitSnapshot(r)
      PROVE  TypeOK'
  BY <1>5 DEF CommitSnapshot, Goto
<1>6. ASSUME NEW r \in Runs, Abort(r)
      PROVE  TypeOK'
  BY <1>6 DEF Abort
<1>7. ASSUME NEW n \in Names, FindArchive(n)
      PROVE  TypeOK'
  BY <1>7 DEF FindArchive, Listings, Committed, runVars
<1>8. ASSUME NEW s \in Runs, DeleteSnapshot(s) \/ AbandonDelete(s)
      PROVE  TypeOK'
  BY <1>8 DEF DeleteSnapshot, AbandonDelete, runVars
<1>9. CASE UNCHANGED vars
  BY <1>9 DEF vars
<1>10. QED
  BY <1>1, <1>2, <1>3, <1>4, <1>5, <1>6, <1>7, <1>8, <1>9
     DEF Next, RunStep, DeleteStep

\* The state of every variable stays in its type: the handles of
\* repository.rs only ever hold chunk ids, and a run only the stages listed.
THEOREM TypeCorrect == Spec => []TypeOK
<1>1. Init => TypeOK
  BY DEF Init, TypeOK, SnapState, RunState, Chunks
<1>2. QED
  BY <1>1, TypeStep, PTL DEF Spec

LEMMA OrderedStep == TypeOK /\ Ordered /\ [Next]_vars => Ordered'
<1> SUFFICES ASSUME TypeOK, Ordered, [Next]_vars
             PROVE  Ordered'
  OBVIOUS
<1> USE DEF TypeOK, SnapState, RunState, Chunks, Ordered, CacheStored,
            ItemsCached, RootCached, SnapAfterDone, DoomedExisted
<1>1. ASSUME NEW r \in Runs, Open(r)
      PROVE  Ordered'
  BY <1>1 DEF Open, Goto
<1>2. ASSUME NEW r \in Runs, CheckName(r)
      PROVE  Ordered'
  BY <1>2 DEF CheckName, Goto
<1>3. ASSUME NEW r \in Runs, NEW c \in Data, AddChunk(r, c)
      PROVE  Ordered'
  BY <1>3 DEF AddChunk, Goto, PutObject
<1>4. ASSUME NEW r \in Runs, StoreRoot(r)
      PROVE  Ordered'
  BY <1>4 DEF StoreRoot, Goto, PutObject
<1>5. ASSUME NEW r \in Runs, CommitSnapshot(r)
      PROVE  Ordered'
  BY <1>5 DEF CommitSnapshot, Goto
<1>6. ASSUME NEW r \in Runs, Abort(r)
      PROVE  Ordered'
  BY <1>6 DEF Abort, Active
<1>7. ASSUME NEW n \in Names, FindArchive(n)
      PROVE  Ordered'
  BY <1>7 DEF FindArchive, Listings, Committed, runVars
<1>8. ASSUME NEW s \in Runs, DeleteSnapshot(s) \/ AbandonDelete(s)
      PROVE  Ordered'
  BY <1>8 DEF DeleteSnapshot, AbandonDelete, runVars
<1>9. CASE UNCHANGED vars
  BY <1>9 DEF vars
<1>10. QED
  BY <1>1, <1>2, <1>3, <1>4, <1>5, <1>6, <1>7, <1>8, <1>9
     DEF Next, RunStep, DeleteStep

\* The order of the writes of create_with_mapping and commit_archive is kept
\* by every run, at every point where a run may be interrupted.
THEOREM OrderedCorrect == Spec => []Ordered
<1>1. Init => Ordered
  BY DEF Init, Ordered, CacheStored, ItemsCached, RootCached, SnapAfterDone,
         DoomedExisted
<1>2. QED
  BY <1>1, OrderedStep, TypeCorrect, PTL DEF Spec

LEMMA NothingYetStep == TypeOK /\ NothingYet /\ [Next]_vars => NothingYet'
<1> SUFFICES ASSUME TypeOK, NothingYet, [Next]_vars
             PROVE  NothingYet'
  OBVIOUS
<1> USE DEF TypeOK, NothingYet, Goto
<1>1. ASSUME NEW r \in Runs, RunStep(r)
      PROVE  NothingYet'
  BY <1>1 DEF RunStep, Open, CheckName, AddChunk, PutObject, StoreRoot, CommitSnapshot,
       Abort, Active
<1>2. CASE DeleteStep \/ UNCHANGED vars
  BY <1>2 DEF DeleteStep, FindArchive, DeleteSnapshot, AbandonDelete, runVars, vars
<1>3. QED
  BY <1>1, <1>2 DEF Next

LEMMA OrderedRestorable == TypeOK /\ Ordered => Restorable
<1> SUFFICES ASSUME TypeOK, Ordered, NEW r \in Committed
             PROVE  Readable(r)
  BY DEF Restorable
<1>1. r \in Runs /\ pc[r] = "done"
  BY DEF Committed, Ordered, SnapAfterDone
<1>2. r \in cache[r] /\ items[r] \subseteq cache[r] /\ cache[r] \subseteq stored
  BY <1>1 DEF Ordered, RootCached, ItemsCached, CacheStored
<1>3. QED
  BY <1>2 DEF Readable

\* Every committed archive can be restored in full, whatever the number of
\* concurrent backups, and wherever they are interrupted.
THEOREM RestorableCorrect == Spec => []Restorable
BY OrderedCorrect, TypeCorrect, OrderedRestorable, PTL

\* What a user is shown of a snapshot when nothing is damaged.
Shown(st) == IF st = "none" THEN "new"
             ELSE IF st = "committed" THEN "restorable" ELSE "deleted"

LEMMA NothingDamaged ==
  TypeOK /\ Ordered => UserStatus = [r \in Runs |-> Shown(snap[r])]
<1> SUFFICES ASSUME TypeOK, Ordered, NEW r \in Runs
             PROVE  UserStatus[r] = Shown(snap[r])
  BY DEF UserStatus
<1>1. snap[r] = "committed" => Readable(r)
  BY OrderedRestorable DEF Restorable, Committed
<1>2. snap[r] \in SnapState
  BY DEF TypeOK
<1>3. QED
  BY <1>1, <1>2 DEF UserStatus, Shown, SnapState

\* Every step of the repository is a Commit, a Delete or nothing at all.
LEMMA PromiseStep ==
  ASSUME TypeOK, TypeOK', Ordered, Ordered', [Next]_vars
  PROVE  [Promise!Next]_UserStatus
<1>1. UserStatus = [r \in Runs |-> Shown(snap[r])]
  BY NothingDamaged
<1>2. UserStatus' = [r \in Runs |-> Shown(snap'[r])]
  <2>1. (UserStatus = [r \in Runs |-> Shown(snap[r])])'
    BY NothingDamaged, PTL
  <2> QED
    BY <2>1 DEF Shown
<1>3. ASSUME UNCHANGED snap
      PROVE  UNCHANGED UserStatus
  BY <1>1, <1>2, <1>3
<1>4. ASSUME NEW r \in Runs, CommitSnapshot(r)
      PROVE  Promise!Commit(r)
  <2>1. snap[r] = "none"
    BY <1>4 DEF CommitSnapshot, Goto, Ordered, SnapAfterDone
  <2>2. snap' = [snap EXCEPT ![r] = "committed"]
    BY <1>4 DEF CommitSnapshot
  <2>3. QED
    BY <1>1, <1>2, <2>1, <2>2 DEF Shown, Promise!Commit, TypeOK
<1>5. ASSUME NEW s \in Runs, DeleteSnapshot(s)
      PROVE  Promise!Delete(s) \/ UNCHANGED UserStatus
  <2>1. snap[s] \in {"committed", "deleted"}
    BY <1>5 DEF DeleteSnapshot, Ordered, DoomedExisted, TypeOK, SnapState
  <2>2. snap' = [snap EXCEPT ![s] = "deleted"]
    BY <1>5 DEF DeleteSnapshot
  <2>3. QED
    BY <1>1, <1>2, <2>1, <2>2 DEF Shown, Promise!Delete, TypeOK
<1>6. QED
  BY <1>3, <1>4, <1>5
     DEF Next, RunStep, DeleteStep, Promise!Next, vars, Open, CheckName,
         AddChunk, StoreRoot, Abort, FindArchive, AbandonDelete

\* The repository implements BackupStore.
THEOREM PromiseKept == Spec => KeepsPromise
<1>1. Init => Promise!Init
  BY DEF Init, Promise!Init, UserStatus
<1>2. QED
  BY <1>1, TypeCorrect, OrderedCorrect, PromiseStep, PTL
     DEF Spec, KeepsPromise, Promise!Spec

-------------------------------------------------------------------------------
(***************************************************************************)
(* Garbage collection                                                      *)
(*                                                                         *)
(* What gc guarantees, however it is interleaved with backups, deletions   *)
(* and failures: an archive that was not exposed keeps its root and all it *)
(* refers to.                                                              *)
(*                                                                         *)
(* Neither is inductive.  GCInv adds what handles know: that of a run that *)
(* gc has not overtaken takes only what is in the store for stored, and    *)
(* whatever gc deletes of an archive it has not listed its handle knew.    *)
(* And it adds what gc knows: at each phase it has listed the snapshots    *)
(* there were, then reached their roots, and deletes nothing it reached.   *)
(***************************************************************************)

\* Runs that no gc has overtaken or overlooked.
Guarded == {r \in Runs : exposed[r] \subseteq {"unread"}}

\* All that the open handle of a guarded run remembers is in the store.
HandlesTrue ==
  \A r \in Guarded : pc[r] \in {"opened", "walk", "root"} => cache[r] \subseteq stored

GCKnows ==
  /\ phase = "idle" => listed = {} /\ reachable = {}
  /\ \A r \in listed : snap[r] # "none"
  /\ reachable \cap Runs \subseteq listed
  /\ phase = "deleting" => listed \subseteq reachable
  /\ phase = "deleting" => toDelete \cap reachable = {}

GCInv ==
  /\ HandlesTrue
  /\ ItemsCached
  /\ RootCached
  /\ NothingYet
  /\ SnapAfterDone
  /\ DoomedExisted
  /\ GCKnows
  /\ RootsKept

\* gc has reached what the roots it walked refer to, if it could read them.
TreesReached ==
  \A r \in Committed \cap reachable : exposed[r] = {} => items[r] \subseteq reachable

TreesInv == TreesKept /\ TreesReached

-------------------------------------------------------------------------------
LEMMA GCTypeStep == GCTypeOK /\ [GCNext]_allVars => GCTypeOK'
<1> SUFFICES ASSUME GCTypeOK, [GCNext]_allVars
             PROVE  GCTypeOK'
  OBVIOUS
<1>1. TypeOK /\ phase \in {"idle", "walking", "deleting"} /\ listed \subseteq Runs
      /\ reachable \subseteq Chunks /\ toDelete \subseteq Chunks /\ late \subseteq Chunks
      /\ exposed \in [Runs -> SUBSET Exposures]
  BY DEF GCTypeOK
<1>2. CASE ClientStep
  <2>1. [Next]_vars
    BY <1>2 DEF ClientStep, Next
  <2>2. TypeOK'
    BY <1>1, <2>1, TypeStep
  <2>3. QED
    BY <1>1, <1>2, <2>2 DEF ClientStep, gcVars, GCTypeOK, TypeOK
<1>3. CASE UNCHANGED vars /\ GCStep
  <2>1. TypeOK'
    BY <1>1, <1>3, TypeStep
  <2>2. /\ phase' \in {"idle", "walking", "deleting"}
        /\ listed' \subseteq Runs
        /\ reachable' \subseteq Chunks
        /\ toDelete' \subseteq Chunks
        /\ late' \subseteq Chunks
        /\ exposed' \in [Runs -> SUBSET Exposures]
    BY <1>1, <1>3 DEF GCStep, StartGC, Walk, ListObjects, DeleteObject,
       FinishGC, AbortGC, EndGC, Listings, Committed, TreeEntries, TypeOK, Chunks,
       Expose, Exposures
  <2>3. QED
    BY <2>1, <2>2 DEF GCTypeOK
<1>4. ASSUME NEW c \in Chunks, DeleteObject(c)
      PROVE  GCTypeOK'
  BY <1>1, <1>4 DEF DeleteObject, TypeOK, GCTypeOK, runVars, Expose, Exposures
<1>5. CASE UNCHANGED allVars
  BY <1>1, <1>5, TypeStep DEF allVars, gcVars, GCTypeOK
<1>6. QED
  BY <1>2, <1>3, <1>4, <1>5
     DEF GCNext, GCStep, StartGC, Walk, ListObjects, FinishGC, AbortGC, EndGC

\* The state of gc stays in its type, however it is interleaved with backups.
THEOREM GCTypeCorrect == GCSpec => []GCTypeOK
<1>1. GCInit => GCTypeOK
  BY DEF GCInit, GCTypeOK, Init, TypeOK, SnapState, RunState, Chunks, Exposures
<1>2. QED
  BY <1>1, GCTypeStep, PTL DEF GCSpec

\* What was exposed before is not guarded later.
LEMMA GuardedShrinks ==
  ASSUME GCTypeOK, [GCNext]_allVars
  PROVE  /\ Guarded' \subseteq Guarded
         /\ \A r \in Runs : exposed'[r] = {} => exposed[r] = {}
<1>1. \A r \in Runs : exposed[r] \subseteq exposed'[r]
  BY DEF GCTypeOK, GCNext, GCStep, ClientStep, StartGC, Walk, ListObjects, DeleteObject,
         FinishGC, AbortGC, EndGC, Expose, allVars
<1>2. QED
  BY <1>1 DEF Guarded

\* A step of a client keeps it: it knows nothing of gc, which needs only that
\* the order of the writes is kept.
LEMMA ClientKeepsGCInv ==
  ASSUME GCTypeOK, GCInv, ClientStep
  PROVE  GCInv'
<1> USE DEF GCTypeOK, TypeOK, SnapState, RunState, Chunks, GCInv, HandlesTrue, ItemsCached,
            RootCached, NothingYet, SnapAfterDone, DoomedExisted, GCKnows, RootsKept,
            Committed
<1>0. UNCHANGED <<phase, listed, reachable, toDelete, exposed>> /\ Guarded' = Guarded
  BY DEF ClientStep, gcVars, Guarded
<1>1. ASSUME NEW r \in Runs, Open(r)
      PROVE  GCInv'
  BY <1>0, <1>1 DEF Open, Goto, Guarded
<1>2. ASSUME NEW r \in Runs, CheckName(r)
      PROVE  GCInv'
  BY <1>0, <1>2 DEF CheckName, Goto, Guarded
<1>3. ASSUME NEW r \in Runs, NEW c \in Data, AddChunk(r, c)
      PROVE  GCInv'
  BY <1>0, <1>3 DEF AddChunk, Goto, PutObject, Guarded
<1>4. ASSUME NEW r \in Runs, StoreRoot(r)
      PROVE  GCInv'
  BY <1>0, <1>4 DEF StoreRoot, Goto, PutObject, Guarded
<1>5. ASSUME NEW r \in Runs, CommitSnapshot(r)
      PROVE  GCInv'
  BY <1>0, <1>5 DEF CommitSnapshot, Goto, Guarded
<1>6. ASSUME NEW r \in Runs, Abort(r)
      PROVE  GCInv'
  BY <1>0, <1>6 DEF Abort, Active, Guarded
<1>7. ASSUME NEW n \in Names, FindArchive(n)
      PROVE  GCInv'
  BY <1>0, <1>7 DEF FindArchive, Listings, runVars, Guarded
<1>8. ASSUME NEW s \in Runs, DeleteSnapshot(s) \/ AbandonDelete(s)
      PROVE  GCInv'
  BY <1>0, <1>8 DEF DeleteSnapshot, AbandonDelete, runVars, Guarded
<1>9. QED
  BY <1>1, <1>2, <1>3, <1>4, <1>5, <1>6, <1>7, <1>8 DEF ClientStep, RunStep, DeleteStep

\* A step of gc keeps it: it deletes only what it has not reached, it has reached
\* the root of every snapshot it listed, and the handle of a run it has not listed
\* knows the root that it takes away.
LEMMA GCKeepsGCInv ==
  ASSUME GCTypeOK, GCInv, GCStep
  PROVE  GCInv'
<1> USE DEF GCTypeOK, TypeOK, SnapState, RunState, Chunks, GCInv, HandlesTrue, ItemsCached,
            RootCached, NothingYet, SnapAfterDone, DoomedExisted, GCKnows, RootsKept,
            Committed, vars
<1>0. Guarded' \subseteq Guarded
  BY GuardedShrinks DEF GCNext
<1>1. CASE StartGC
  BY <1>0, <1>1 DEF StartGC, Listings, Guarded
<1>2. ASSUME NEW r \in Runs, Walk(r)
      PROVE  GCInv'
  BY <1>0, <1>2, DataIsNotRoot DEF Walk, TreeEntries, Guarded
<1>3. CASE ListObjects
  BY <1>3 DEF ListObjects, Guarded
<1>4. ASSUME NEW c \in Chunks, DeleteObject(c)
      PROVE  GCInv'
  <2>1. \A r \in Guarded' \ listed : c \notin cache[r]
    BY <1>4 DEF DeleteObject, Expose, Guarded
  <2>2. \A r \in listed : pc[r] = "done" /\ c # r
    BY <1>4 DEF DeleteObject
  <2>3. HandlesTrue'
    BY <1>0, <1>4, <2>1, <2>2 DEF DeleteObject, runVars, Guarded
  <2>4. RootsKept'
    <3> SUFFICES ASSUME NEW r \in Committed, r \in Guarded'
                 PROVE  r \in stored'
      BY <1>4 DEF DeleteObject, runVars, Guarded
    <3>1. r \in stored /\ r \in cache[r]
      BY <1>0 DEF Guarded
    <3>2. c # r
      BY <2>1, <2>2, <3>1
    <3>3. QED
      BY <1>4, <3>1, <3>2 DEF DeleteObject
  <2>5. GCKnows'
    BY <1>4 DEF DeleteObject
  <2>6. QED
    BY <1>4, <2>3, <2>4, <2>5 DEF DeleteObject, runVars
<1>5. CASE FinishGC \/ AbortGC
  BY <1>5 DEF FinishGC, AbortGC, EndGC, Guarded
<1>6. QED
  BY <1>1, <1>2, <1>3, <1>4, <1>5 DEF GCStep

\* The invariant behind what gc spares.
THEOREM GCInvCorrect == GCSpec => []GCInv
<1>1. GCInit => GCInv
  BY DEF GCInit, GCInv, Init, HandlesTrue, ItemsCached, RootCached, NothingYet, SnapAfterDone,
         DoomedExisted, GCKnows, RootsKept, Committed, Guarded
<1>2. GCTypeOK /\ GCInv /\ [GCNext]_allVars => GCInv'
  <2>1. GCTypeOK /\ GCInv /\ UNCHANGED allVars => GCInv'
    BY DEF allVars, gcVars, vars, GCInv, HandlesTrue, ItemsCached, RootCached, NothingYet,
           SnapAfterDone, DoomedExisted, GCKnows, RootsKept, Committed, Guarded
  <2>2. QED
    BY <2>1, ClientKeepsGCInv, GCKeepsGCInv DEF GCNext
<1>3. QED
  BY <1>1, <1>2, GCTypeCorrect, PTL DEF GCSpec

\* gc never collects the root of a committed archive that it has not overtaken or
\* overlooked, wherever gc is interrupted and whatever trees it cannot read.
THEOREM RootsKeptCorrect == GCSpec => []RootsKept
<1>1. GCInv => RootsKept
  BY DEF GCInv
<1>2. QED
  BY <1>1, GCInvCorrect, PTL

\* What an unexposed archive refers to is in the store, and what gc has walked
\* of it is reached.
LEMMA TreesStep ==
  ASSUME GCTypeOK, GCInv, TreesInv, [GCNext]_allVars
  PROVE  TreesInv'
<1> USE DEF TreesInv, TreesKept, TreesReached, Readable, Committed, GCTypeOK, TypeOK, Chunks
<1>0. \A r \in Runs : exposed'[r] = {} => exposed[r] = {}
  BY GuardedShrinks
<1>1. ASSUME NEW r \in Runs, CommitSnapshot(r), UNCHANGED <<gcVars, exposed>>
      PROVE  TreesInv'
  <2>1. exposed[r] = {} => {r} \cup items[r] \subseteq stored
    BY <1>1 DEF CommitSnapshot, Goto, GCInv, HandlesTrue, ItemsCached, RootCached, Guarded
  <2>2. r \notin reachable
    BY <1>1 DEF CommitSnapshot, Goto, GCInv, GCKnows, SnapAfterDone
  <2>3. QED
    BY <1>0, <1>1, <2>1, <2>2 DEF CommitSnapshot, Goto, gcVars, SnapState
<1>2. ASSUME NEW r \in Runs, NEW c \in Data, AddChunk(r, c), UNCHANGED gcVars
      PROVE  TreesInv'
  BY <1>0, <1>2 DEF AddChunk, Goto, PutObject, gcVars, GCInv, SnapAfterDone, SnapState
<1>3. ASSUME NEW r \in Runs, UNCHANGED gcVars,
             Open(r) \/ CheckName(r) \/ StoreRoot(r) \/ Abort(r)
      PROVE  TreesInv'
  BY <1>0, <1>3 DEF Open, CheckName, StoreRoot, PutObject, Abort, gcVars
<1>4. CASE DeleteStep /\ UNCHANGED gcVars
  BY <1>0, <1>4 DEF DeleteStep, FindArchive, DeleteSnapshot, AbandonDelete, runVars,
              gcVars, SnapState
<1>5. ASSUME NEW r \in Runs, Walk(r)
      PROVE  TreesInv'
  <2>1. exposed'[r] = {} => reachable' = reachable \cup {r} \cup items[r]
    BY <1>5 DEF Walk, Expose
  <2>2. \A s \in Runs \cap reachable' : s = r \/ s \in reachable
    BY <1>5, DataIsNotRoot DEF Walk, TreeEntries
  <2>3. reachable \subseteq reachable'
    BY <1>5 DEF Walk
  <2>4. QED
    BY <1>0, <1>5, <2>1, <2>2, <2>3 DEF Walk, vars
<1>6. ASSUME NEW c \in Chunks, DeleteObject(c)
      PROVE  TreesInv'
  <2>1. \A s \in Committed : exposed'[s] = {} => c \notin {s} \cup items[s]
    <3> SUFFICES ASSUME NEW s \in Committed, exposed'[s] = {}
                 PROVE  c \notin {s} \cup items[s]
      OBVIOUS
    <3>1. CASE s \in listed
      BY <1>0, <1>6, <3>1 DEF DeleteObject, GCInv, GCKnows
    <3>2. CASE s \notin listed
      <4>1. c \notin cache[s]
        BY <1>6, <3>2 DEF DeleteObject, Expose
      <4>2. {s} \cup items[s] \subseteq cache[s]
        BY DEF GCInv, ItemsCached, RootCached, SnapAfterDone
      <4>3. QED
        BY <4>1, <4>2
    <3>3. QED
      BY <3>1, <3>2
  <2>2. QED
    BY <1>0, <1>6, <2>1 DEF DeleteObject, runVars
<1>7. CASE StartGC \/ ListObjects \/ FinishGC \/ AbortGC \/ UNCHANGED allVars
  BY <1>0, <1>7 DEF StartGC, ListObjects, FinishGC, AbortGC, EndGC, allVars, gcVars, vars
<1>8. QED
  BY <1>1, <1>2, <1>3, <1>4, <1>5, <1>6, <1>7 DEF GCNext, GCStep, ClientStep, RunStep

\* An archive that was not exposed to gc in any way stays restorable in full.
THEOREM TreesKeptCorrect == GCSpec => []TreesKept
<1>1. GCInit => TreesInv
  BY DEF GCInit, Init, TreesInv, TreesKept, TreesReached, Committed
<1>2. GCTypeOK /\ GCInv /\ TreesInv /\ [GCNext]_allVars => TreesInv'
  BY TreesStep
<1>3. TreesInv => TreesKept
  BY DEF TreesInv
<1>4. QED
  BY <1>1, <1>2, <1>3, GCTypeCorrect, GCInvCorrect, PTL DEF GCSpec

\* gc spares the root of every archive that it could list, and all of it if the
\* root is a tree it could read; of the archive of a backup beside it, it collects
\* something only if the backup's handle took that for stored.
THEOREM ArchivesSparedCorrect == GCSpec => []ArchivesSpared
<1>1. RootsKept /\ TreesKept => ArchivesSpared
  BY DEF ArchivesSpared
<1>2. QED
  BY <1>1, RootsKeptCorrect, TreesKeptCorrect, PTL

-------------------------------------------------------------------------------
\* What gc has reached are the roots it listed and what trees among them refer to,
\* and while it deletes, what is in the store is reached, yet to be deleted, or
\* was written since it listed the objects.
GarbageInv ==
  /\ \A c \in reachable : c \in listed \/ \E r \in listed \cap TreeRuns : c \in items[r]
  /\ phase = "deleting" => stored \subseteq reachable \cup toDelete \cup late

\* What a listed run refers to does not change any more.
LEMMA GarbageStep ==
  ASSUME GCTypeOK, GCInv, GarbageInv, [GCNext]_allVars
  PROVE  GarbageInv'
<1> USE DEF GarbageInv, GCTypeOK, TypeOK, Chunks
<1>1. CASE ClientStep
  <2>1. UNCHANGED <<phase, listed, reachable, toDelete>>
    BY <1>1 DEF ClientStep, gcVars
  <2>2. \A r \in Runs : items[r] \subseteq items'[r]
    BY <1>1 DEF ClientStep, RunStep, DeleteStep, Open, CheckName, AddChunk, StoreRoot,
         CommitSnapshot, Abort, FindArchive, DeleteSnapshot, AbandonDelete, runVars
  <2>3. phase = "deleting" => late' = late \cup (stored' \ stored)
    BY <1>1 DEF ClientStep
  <2>4. QED
    BY <2>1, <2>2, <2>3
<1>2. CASE StartGC
  BY <1>2 DEF StartGC, GCInv, GCKnows, vars
<1>3. ASSUME NEW r \in Runs, Walk(r)
      PROVE  GarbageInv'
  BY <1>3 DEF Walk, TreeEntries, vars
<1>4. CASE ListObjects
  BY <1>4 DEF ListObjects, vars
<1>5. ASSUME NEW c \in Chunks, DeleteObject(c)
      PROVE  GarbageInv'
  BY <1>5 DEF DeleteObject, runVars
<1>6. CASE FinishGC \/ AbortGC
  BY <1>6 DEF FinishGC, AbortGC, EndGC, vars
<1>7. CASE UNCHANGED allVars
  BY <1>7 DEF allVars, gcVars, vars
<1>8. QED
  BY <1>1, <1>2, <1>3, <1>4, <1>5, <1>6, <1>7 DEF GCNext, GCStep

\* A gc that returns Ok leaves nothing in the store but the roots it listed, what
\* trees among them refer to, and what was written since it listed the objects.
THEOREM NoGarbageLeftCorrect == GCSpec => NoGarbageLeft
<1>1. GCInit => GarbageInv
  BY DEF GCInit, Init, GarbageInv
<1>2. GarbageInv /\ FinishGC =>
        \A c \in stored : c \in listed \cup late \/ \E r \in listed \cap TreeRuns : c \in items[r]
  BY DEF GarbageInv, FinishGC
<1>3. QED
  BY <1>1, <1>2, GarbageStep, GCTypeCorrect, GCInvCorrect, PTL DEF GCSpec, NoGarbageLeft

-------------------------------------------------------------------------------
(***************************************************************************)
(* Verification                                                            *)
(*                                                                         *)
(* What a borg verify may be believed, for every number of backups, names, *)
(* chunks and damaged objects, and whichever parts it was told to do.      *)
(*                                                                         *)
(* Neither PassedIsSound nor MissingIsLostOrNew is inductive: both speak   *)
(* of the end of the command.  Progress says what its handle knows in each *)
(* phase before: while it has raised no alarm, a chunk it has read is      *)
(* damaged only if that was done to it since; an archive it vouches for    *)
(* has existed, and if it is the only one of its name, what was said of    *)
(* the index has been carried over to it; and unless objects were lost or  *)
(* a backup committed since, the index has all that archives refer to.     *)
(***************************************************************************)

VerifyTypeOK ==
  /\ TypeOK
  /\ {rotten, lost, known, todo, struck} \subseteq SUBSET Chunks
  /\ since \in [Runs -> SUBSET Chunks]
  /\ vpc \in {"idle", "chunks", "archives", "restore", "sample", "done", "aborted"}
  /\ args \subseteq Parts
  /\ pending \subseteq Names /\ vouched \subseteq Names
  /\ alarms \subseteq {"corrupt", "unreadable", "missing"}
  /\ upset \subseteq {"commit", "delete", "unread", "lost"}

\* The chunks of the index that verify_all has read, if it was to read them.
Read == IF vpc = "chunks" THEN known \ todo ELSE known

\* No chunk that was read is damaged but what was struck since.
ReadTrue ==
  alarms = {} /\ "chunks" \in args /\ vpc \in {"chunks", "archives", "restore", "sample"} =>
    Read \cap Damaged \subseteq struck

\* The name of an archive that it vouches for is that of one there is or was.
VouchedExisted == \A n \in vouched : \E s \in Runs : name[s] = n /\ snap[s] # "none"

\* The only archive of a name it vouches for is undamaged, but for what was struck.
VouchedTrue ==
  alarms = {} /\ "chunks" \in args =>
    \A r \in Runs :
      snap[r] # "none" /\ name[r] \in vouched /\ NoTwin(r) =>
        ({r} \cup items[r]) \cap Damaged \subseteq struck

\* The index has all chunks of all archives, if nothing was lost and none is new.
IndexComplete ==
  vpc \in {"chunks", "archives"} /\ upset \cap {"lost", "commit"} = {} =>
    \A r \in Committed : items[r] \subseteq known

Progress ==
  /\ ReadTrue
  /\ VouchedExisted
  /\ VouchedTrue
  /\ IndexComplete
  /\ MissingIsLostOrNew

-------------------------------------------------------------------------------
(***************************************************************************)
(* The repository below a borg verify                                      *)
(***************************************************************************)

\* To the repository, a step is one of its own, or the opening of a handle by
\* which lost objects are not seen.
LEMMA RepositoryStep ==
  ASSUME [VerifyNext]_verifyVars
  PROVE  [Next]_vars \/ \E r \in Runs : OpenBackup(r)
BY DEF VerifyNext, VerifyStep, BackupStep, DeletionStep, Damage, BackupGoesOn, Next,
       OpenVerify, VerifyChunk, RestoreChunk, AbortVerify, LoadManifest, VerifyArchive,
       LoadSample, ChooseLatest, Summary, verifyVars

\* What the proofs about Repository rest on.
Sound == TypeOK /\ Ordered /\ NothingYet

LEMMA SoundStep ==
  ASSUME Sound, [VerifyNext]_verifyVars
  PROVE  Sound'
<1>1. CASE [Next]_vars
  BY <1>1, TypeStep, OrderedStep, NothingYetStep DEF Sound
<1>2. ASSUME NEW r \in Runs, OpenBackup(r)
      PROVE  Sound'
  <2>1. TypeOK' /\ NothingYet'
    BY <1>2 DEF OpenBackup, Goto, Sound, TypeOK, RunState, NothingYet
  <2>2. CacheStored' /\ ItemsCached'
    BY <1>2 DEF OpenBackup, Goto, Sound, TypeOK, Ordered, CacheStored, ItemsCached, NothingYet
  <2>3. RootCached' /\ SnapAfterDone' /\ DoomedExisted'
    BY <1>2 DEF OpenBackup, Goto, Sound, TypeOK, Ordered, RootCached, SnapAfterDone, DoomedExisted
  <2>4. QED
    BY <2>1, <2>2, <2>3 DEF Sound, Ordered
<1>3. QED
  BY <1>1, <1>2, RepositoryStep

\* Backups that do not see lost objects keep the repository as sound as others.
THEOREM SoundCorrect == VerifySpec => []Sound
<1>1. VerifyInit => Sound
  BY DEF VerifyInit, Init, Sound, TypeOK, SnapState, RunState, Chunks, Ordered, CacheStored,
         ItemsCached, RootCached, SnapAfterDone, DoomedExisted, NothingYet
<1>2. QED
  BY <1>1, SoundStep, PTL DEF VerifySpec

\* What a handle takes for stored was stored when it was opened, or written by it.
LostSince ==
  \A r \in Runs : pc[r] # "start" => cache[r] \cap lost \subseteq since[r]

LEMMA LostSinceStep ==
  ASSUME Sound, LostSince, [VerifyNext]_verifyVars
  PROVE  LostSince'
<1> USE DEF LostSince, Sound, TypeOK
<1>1. CASE VerifyStep /\ UNCHANGED since
  BY <1>1 DEF VerifyStep, OpenVerify, VerifyChunk, RestoreChunk, AbortVerify, LoadManifest,
       VerifyArchive, LoadSample, ChooseLatest, Summary, vars
<1>2. ASSUME NEW r \in Runs, OpenBackup(r), UNCHANGED since
      PROVE  LostSince'
  BY <1>2 DEF OpenBackup, Goto
<1>3. ASSUME NEW r \in Runs, BackupGoesOn(r), UNCHANGED since
      PROVE  LostSince'
  <2>1. /\ pc'[r] # "opened" /\ RunStep(r)
        /\ lost' = lost \ (cache'[r] \ cache[r])
    BY <1>3 DEF BackupGoesOn
  <2>2. \A q \in Runs \ {r} : cache'[q] = cache[q] /\ pc'[q] = pc[q]
    BY <2>1 DEF RunStep, Open, CheckName, AddChunk, StoreRoot, PutObject, CommitSnapshot, Abort, Goto
  <2>3. pc[r] = "start" => cache'[r] = cache[r]
    BY <2>1 DEF RunStep, Open, CheckName, AddChunk, StoreRoot, CommitSnapshot, Abort, Goto
  <2>4. pc[r] # "start" => cache'[r] \cap lost' \subseteq since'[r]
    BY <1>3, <2>1
  <2>5. pc[r] = "start" => cache[r] = {}
    BY DEF NothingYet
  <2>6. QED
    BY <1>3, <2>1, <2>2, <2>3, <2>4, <2>5
<1>4. CASE DeletionStep /\ UNCHANGED since
  BY <1>4 DEF DeletionStep, DeleteStep, FindArchive, DeleteSnapshot, AbandonDelete, runVars
<1>5. ASSUME NEW c \in Chunks, Damage(c)
      PROVE  LostSince'
  BY <1>5 DEF Damage, vars
<1>6. CASE UNCHANGED verifyVars
  BY <1>6 DEF verifyVars, vars
<1>7. QED
  BY <1>1, <1>2, <1>3, <1>4, <1>5, <1>6 DEF VerifyNext, BackupStep

\* A committed archive refers to nothing that was not written, nor to anything that
\* the medium had lost before its backup opened the repository.
THEOREM RestorableUnlessLostCorrect == VerifySpec => []RestorableUnlessLost
<1>1. VerifyInit => LostSince
  BY DEF VerifyInit, Init, LostSince
<1>2. Sound /\ LostSince => RestorableUnlessLost
  <2> SUFFICES ASSUME Sound, LostSince, NEW r \in Committed
               PROVE  Readable(r) /\ ({r} \cup items[r]) \cap lost \subseteq since[r]
    BY DEF RestorableUnlessLost
  <2>1. Readable(r)
    BY OrderedRestorable DEF Sound, Restorable
  <2>2. r \in Runs /\ pc[r] = "done"
    BY DEF Committed, Sound, Ordered, SnapAfterDone
  <2>3. {r} \cup items[r] \subseteq cache[r]
    BY <2>2 DEF Sound, Ordered, RootCached, ItemsCached
  <2>4. QED
    BY <2>1, <2>2, <2>3 DEF LostSince
<1>3. QED
  BY <1>1, <1>2, LostSinceStep, SoundCorrect, PTL DEF VerifySpec

-------------------------------------------------------------------------------
(***************************************************************************)
(* Types                                                                   *)
(***************************************************************************)

LEMMA VerifyTypeStep ==
  ASSUME VerifyTypeOK, Sound, [VerifyNext]_verifyVars
  PROVE  VerifyTypeOK'
<1> USE DEF VerifyTypeOK
<1>0. TypeOK' /\ since' \in [Runs -> SUBSET Chunks]
  <2>1. since' \in [Runs -> SUBSET Chunks]
    BY DEF VerifyNext, Damage, verifyVars
  <2>2. QED
    BY <2>1, SoundStep DEF Sound
<1>1. ASSUME NEW c \in Chunks, VerifyChunk(c) \/ RestoreChunk(c)
      PROVE  VerifyTypeOK'
  BY <1>0, <1>1 DEF VerifyChunk, RestoreChunk, Go, ReadObject, Alarm, Upset
<1>2. CASE OpenVerify
  BY <1>0, <1>2, CommandsAssumption DEF OpenVerify, TypeOK
<1>3. CASE AbortVerify \/ Summary
  BY <1>0, <1>3 DEF AbortVerify, Summary, Go
<1>4. CASE LoadManifest
  BY <1>0, <1>4 DEF LoadManifest, Go, Listings, Listed, Upset, Committed, TypeOK
<1>5. CASE ChooseLatest
  <2>1. pending' \subseteq Names
    BY <1>5 DEF ChooseLatest, Listings, Committed, TypeOK
  <2>2. upset' \subseteq {"commit", "delete", "unread", "lost"}
    BY <1>5 DEF ChooseLatest, Listed, Upset
  <2>3. QED
    BY <1>0, <1>5, <2>1, <2>2 DEF ChooseLatest, Go
<1>6. ASSUME NEW n \in Names, VerifyArchive(n)
      PROVE  VerifyTypeOK'
  BY <1>0, <1>6 DEF VerifyArchive, Go, Listed, Upset, Alarm
<1>7. ASSUME NEW n \in Names, LoadSample(n)
      PROVE  VerifyTypeOK'
  BY <1>0, <1>7 DEF LoadSample, Go, Listings, Listed, Upset, Alarm, Loaded, Committed, TypeOK, Chunks
<1>8. CASE BackupStep
  BY <1>0, <1>8 DEF BackupStep, OpenBackup, BackupGoesOn, command, Upset
<1>9. CASE DeletionStep
  BY <1>0, <1>9 DEF DeletionStep, command, Upset
<1>10. ASSUME NEW c \in Chunks, Damage(c)
       PROVE  VerifyTypeOK'
  BY <1>0, <1>10 DEF Damage, command
<1>11. CASE UNCHANGED verifyVars
  BY <1>0, <1>11 DEF verifyVars, command
<1>12. QED
  BY <1>1, <1>2, <1>3, <1>4, <1>5, <1>6, <1>7, <1>8, <1>9, <1>10, <1>11
     DEF VerifyNext, VerifyStep

\* The phases of the command, and what it holds in each, stay what they are
\* declared to be.
THEOREM VerifyTypeCorrect == VerifySpec => []VerifyTypeOK
<1>1. VerifyInit => VerifyTypeOK
  BY DEF VerifyInit, Init, VerifyTypeOK, TypeOK, SnapState, RunState, Chunks
<1>2. QED
  BY <1>1, VerifyTypeStep, SoundCorrect, PTL DEF VerifySpec

-------------------------------------------------------------------------------
(***************************************************************************)
(* What the command knows                                                  *)
(***************************************************************************)

\* Of an archive there is or was, nothing is forgotten but whether it is there.
LEMMA ArchivesStay ==
  ASSUME Sound, [VerifyNext]_verifyVars
  PROVE  /\ name' = name
         /\ \A r \in Runs : snap[r] # "none" => snap'[r] # "none" /\ items'[r] = items[r]
         /\ \A r \in Runs : NoTwin(r)' => NoTwin(r)
<1>1. /\ name' = name
      /\ \A r \in Runs : snap[r] # "none" => snap'[r] # "none" /\ items'[r] = items[r]
  <2>1. CASE [Next]_vars
    BY <2>1 DEF Sound, TypeOK, Ordered, SnapAfterDone, Next, RunStep, DeleteStep, Open,
         CheckName, AddChunk, StoreRoot, CommitSnapshot, Abort, FindArchive, DeleteSnapshot,
         AbandonDelete, Goto, runVars, vars
  <2>2. ASSUME NEW r \in Runs, OpenBackup(r)
        PROVE  UNCHANGED <<name, snap, items>>
    BY <2>2 DEF OpenBackup
  <2>3. QED
    BY <2>1, <2>2, RepositoryStep
<1>2. QED
  BY <1>1 DEF NoTwin

\* Rot, loss and the steps of others leave the command what it has.
LEMMA OthersKeepProgress ==
  ASSUME Sound, VerifyTypeOK, Progress, VerifyNext,
         BackupStep \/ DeletionStep \/ \E c \in Chunks : Damage(c)
  PROVE  Progress'
<1>0. /\ UNCHANGED <<vpc, args, known, todo, alarms, vouched>>
      /\ Damaged' \subseteq Damaged \cup struck'
      /\ struck \subseteq struck'
      /\ upset \subseteq upset'
  BY DEF BackupStep, OpenBackup, BackupGoesOn, DeletionStep, Damage, command, Damaged, Upset
<1>1. /\ name' = name
      /\ \A r \in Runs : snap[r] # "none" => snap'[r] # "none" /\ items'[r] = items[r]
      /\ \A r \in Runs : NoTwin(r)' => NoTwin(r)
  BY ArchivesStay
<1>2. \A r \in Runs : snap[r] = "none" /\ snap'[r] # "none" => "commit" \in upset'
  <2>1. ASSUME NEW r \in Runs, BackupGoesOn(r)
        PROVE  \A s \in Runs : snap'[s] # snap[s] => "commit" \in upset'
    <3>1. \A s \in Runs : s # r => snap'[s] = snap[s]
      BY <2>1 DEF BackupGoesOn, RunStep, Open, CheckName, AddChunk, StoreRoot, CommitSnapshot,
           Abort, Sound, TypeOK
    <3>2. QED
      BY <2>1, <3>1 DEF BackupGoesOn, Upset
  <2>2. CASE DeletionStep
    BY <2>2 DEF DeletionStep, DeleteStep, FindArchive, DeleteSnapshot, AbandonDelete,
         Sound, Ordered, DoomedExisted, TypeOK
  <2>3. QED
    BY <2>1, <2>2 DEF BackupStep, OpenBackup, Damage, vars
<1>3. ReadTrue'
  BY <1>0 DEF Progress, ReadTrue, Read
<1>4. VouchedExisted'
  BY <1>0, <1>1 DEF Progress, VouchedExisted
<1>5. VouchedTrue'
  <2> SUFFICES ASSUME alarms = {}, "chunks" \in args, NEW r \in Runs, snap'[r] # "none",
                      name[r] \in vouched, NoTwin(r)'
               PROVE  ({r} \cup items'[r]) \cap Damaged' \subseteq struck'
    BY <1>0, <1>1 DEF VouchedTrue
  <2>1. snap[r] # "none"
    BY <1>1 DEF Progress, VouchedExisted, NoTwin
  <2>2. ({r} \cup items[r]) \cap Damaged \subseteq struck
    BY <1>1, <2>1 DEF Progress, VouchedTrue
  <2>3. QED
    BY <1>0, <1>1, <2>1, <2>2
<1>6. IndexComplete'
  <2> SUFFICES ASSUME vpc \in {"chunks", "archives"}, upset' \cap {"lost", "commit"} = {},
                      NEW r \in Committed'
               PROVE  items'[r] \subseteq known
    BY <1>0 DEF IndexComplete
  <2>1. snap[r] # "none" /\ r \in Runs
    BY <1>2 DEF Committed
  <2>2. snap[r] = "committed"
    BY <2>1 DEF Committed, BackupStep, OpenBackup, BackupGoesOn, RunStep, Open, CheckName, AddChunk,
         StoreRoot, CommitSnapshot, Abort, DeletionStep, DeleteStep, FindArchive,
         DeleteSnapshot, AbandonDelete, Goto, Damage, vars, Sound, TypeOK, Ordered, SnapAfterDone
  <2>3. QED
    BY <1>0, <1>1, <2>1, <2>2 DEF Progress, IndexComplete, Committed
<1>7. MissingIsLostOrNew'
  BY <1>0 DEF Progress, MissingIsLostOrNew
<1>8. QED
  BY <1>3, <1>4, <1>5, <1>6, <1>7 DEF Progress

\* What the command does itself: it vouches for an archive only if all its chunks
\* are in an index that, as far as it was read, has read true.
LEMMA CommandKeepsProgress ==
  ASSUME Sound, VerifyTypeOK, Progress, VerifyStep
  PROVE  Progress'
<1>0. UNCHANGED <<vars, rotten, lost>>
  BY DEF VerifyStep, OpenVerify, VerifyChunk, RestoreChunk, AbortVerify, LoadManifest,
         VerifyArchive, LoadSample, ChooseLatest, Summary
<1>1. UNCHANGED Damaged /\ UNCHANGED Committed /\ \A r \in Runs : NoTwin(r)' <=> NoTwin(r)
  BY <1>0 DEF Damaged, Committed, NoTwin, vars
<1> USE DEF ReadTrue, Read, VouchedExisted, VouchedTrue, IndexComplete, MissingIsLostOrNew
<1>2. CASE OpenVerify
  <2>1. upset' \cap {"lost"} = {} => \A r \in Committed : items[r] \subseteq known'
    BY <1>2, OrderedRestorable DEF OpenVerify, Sound, Restorable, Readable
  <2>2. vouched' = {} /\ alarms' = {} /\ vpc' = "chunks"
    BY <1>2 DEF OpenVerify
  <2>3. ReadTrue'
    BY <1>1, <1>2, <2>2 DEF OpenVerify
  <2>4. QED
    BY <1>0, <1>1, <2>1, <2>2, <2>3 DEF Progress, vars
<1>3. ASSUME NEW c \in Chunks, VerifyChunk(c) \/ RestoreChunk(c)
      PROVE  Progress'
  <2>1. /\ alarms' = {} => alarms = {} /\ c \notin Damaged
        /\ alarms' \subseteq alarms \cup {"corrupt"}
        /\ upset \subseteq upset'
        /\ upset' \cap {"lost", "commit"} = upset \cap {"lost", "commit"}
    BY <1>3 DEF VerifyChunk, RestoreChunk, ReadObject, Alarm, Upset
  <2>2. UNCHANGED <<vpc, args, known, vouched, struck>> /\ todo' = todo \ {c}
    BY <1>3 DEF VerifyChunk, RestoreChunk, Go
  <2>3. QED
    BY <1>0, <1>1, <2>1, <2>2 DEF Progress, vars
<1>4. CASE AbortVerify
  BY <1>0, <1>1, <1>4 DEF AbortVerify, Progress, vars
<1>5. CASE LoadManifest
  <2>1. /\ todo = {} /\ vpc = "chunks" /\ vpc' = "archives"
        /\ UNCHANGED <<args, known, todo, vouched, alarms, struck>>
        /\ upset \subseteq upset'
        /\ upset' \cap {"lost", "commit"} = upset \cap {"lost", "commit"}
    BY <1>5 DEF LoadManifest, Go, Listed, Upset
  <2>2. QED
    BY <1>0, <1>1, <2>1 DEF Progress, vars
<1>6. ASSUME NEW n \in Names, VerifyArchive(n)
      PROVE  Progress'
  <2>1. PICK manifest \in Listings :
          /\ Listed(manifest)
          /\ \/ Alarm("unreadable") /\ UNCHANGED vouched
             \/ \E s \in Loaded(n, manifest) :
                  \/ items[s] \subseteq known /\ vouched' = vouched \cup {n} /\ UNCHANGED alarms
                  \/ ~(items[s] \subseteq known) /\ Alarm("missing") /\ UNCHANGED vouched
    BY <1>6 DEF VerifyArchive
  <2>2. /\ vpc = "archives"
        /\ UNCHANGED <<vpc, args, known, todo, struck>>
        /\ upset \subseteq upset'
        /\ upset' \cap {"lost", "commit"} = upset \cap {"lost", "commit"}
    BY <1>6, <2>1 DEF VerifyArchive, Go, Listed, Upset
  <2>3. \A s \in Loaded(n, manifest) : s \in Committed /\ name[s] = n /\ s \notin Damaged
    BY <2>1 DEF Loaded, Listings
  <2>4. CASE Alarm("unreadable") /\ UNCHANGED vouched
    BY <1>0, <1>1, <2>2, <2>4 DEF Progress, Alarm, vars
  <2>5. ASSUME NEW s \in Loaded(n, manifest), items[s] \subseteq known,
               vouched' = vouched \cup {n}, UNCHANGED alarms
        PROVE  Progress'
    <3>1. s \in Runs /\ snap[s] # "none" /\ name[s] = n /\ s \notin Damaged
      BY <2>3 DEF Committed
    <3>2. VouchedExisted'
      BY <1>0, <2>5, <3>1 DEF Progress, vars
    <3>3. \A r \in Runs : name[r] = n /\ NoTwin(r) => r = s
      BY <3>1 DEF NoTwin
    <3>4. VouchedTrue'
      BY <1>0, <1>1, <2>2, <2>5, <3>1, <3>3 DEF Progress, vars
    <3>5. QED
      BY <1>0, <1>1, <2>2, <2>5, <3>2, <3>4 DEF Progress, vars
  <2>6. ASSUME NEW s \in Loaded(n, manifest), ~(items[s] \subseteq known),
               Alarm("missing"), UNCHANGED vouched
        PROVE  Progress'
    <3>1. upset \cap {"lost", "commit"} # {}
      BY <2>2, <2>3, <2>6 DEF Progress
    <3>2. QED
      BY <1>0, <1>1, <2>2, <2>6, <3>1 DEF Progress, Alarm, vars
  <2>7. QED
    BY <2>1, <2>4, <2>5, <2>6
<1>7. ASSUME \/ ChooseLatest
             \/ \E n \in Names : LoadSample(n)
             \/ Summary
      PROVE  Progress'
  <2>1. /\ vpc \notin {"idle", "chunks", "aborted"}
        /\ vpc' \in {"restore", "sample", "done"}
        /\ UNCHANGED <<args, vouched, struck>>
        /\ known' = known \/ vpc' = "done"
        /\ alarms' = {} => alarms = {}
        /\ alarms' \subseteq alarms \cup {"unreadable"}
        /\ upset \subseteq upset'
    BY <1>7 DEF ChooseLatest, LoadSample, Summary, Go, Listed, Alarm, Upset
  <2>2. vpc' # "done" => vpc \in {"archives", "restore"}
    BY <1>7 DEF ChooseLatest, LoadSample, Summary, Go
  <2>3. QED
    BY <1>0, <1>1, <2>1, <2>2 DEF Progress, vars
<1>8. QED
  BY <1>2, <1>3, <1>4, <1>5, <1>6, <1>7 DEF VerifyStep

\* What the command knows, in every phase and whatever goes on beside it.
THEOREM ProgressCorrect == VerifySpec => []Progress
<1>1. VerifyInit => Progress
  BY DEF VerifyInit, Progress, ReadTrue, VouchedExisted, VouchedTrue, IndexComplete,
         MissingIsLostOrNew
<1>2. Sound /\ VerifyTypeOK /\ Progress /\ UNCHANGED verifyVars => Progress'
  BY DEF verifyVars, command, vars, Progress, ReadTrue, Read, VouchedExisted, VouchedTrue,
         IndexComplete, MissingIsLostOrNew, NoTwin, Damaged, Committed
<1>3. Sound /\ VerifyTypeOK /\ Progress /\ [VerifyNext]_verifyVars => Progress'
  BY <1>2, OthersKeepProgress, CommandKeepsProgress DEF VerifyNext
<1>4. QED
  BY <1>1, <1>3, SoundCorrect, VerifyTypeCorrect, PTL DEF VerifySpec

\* An archive that a passed verification of chunks and archives reported OK is there
\* in full and reads true, but for what was damaged after the command began.
THEOREM PassedIsSoundCorrect == VerifySpec => []PassedIsSound
<1>1. Sound /\ Progress => PassedIsSound
  BY OrderedRestorable DEF Sound, Restorable, Progress, VouchedTrue, PassedIsSound, Passed,
     Committed
<1>2. QED
  BY <1>1, SoundCorrect, ProgressCorrect, PTL

\* Chunks are reported missing only where objects were lost or a backup was
\* committed while the command ran.
THEOREM MissingIsLostOrNewCorrect == VerifySpec => []MissingIsLostOrNew
<1>1. Progress => MissingIsLostOrNew
  BY DEF Progress
<1>2. QED
  BY <1>1, ProgressCorrect, PTL
===============================================================================
