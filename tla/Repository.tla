------------------------------ MODULE Repository ------------------------------
(***************************************************************************)
(* The repository of borg-core (repository.rs) under concurrent backups.   *)
(*                                                                         *)
(* A repository is a bag of files behind an opendal operator: content      *)
(* addressed objects and one JSON file per snapshot.  Every command opens  *)
(* a Repository handle of its own: the handle lists the objects once, in   *)
(* Repository::open, and from then on decides from that private            *)
(* chunk_cache whether a chunk has to be written.  Nothing coordinates two *)
(* handles.                                                                *)
(*                                                                         *)
(* A run is one backup: Repository::open followed by                       *)
(* ArchiveCreator::create_with_mapping on that handle.  The id of a run    *)
(* also stands for the SHA-256 of the root object it stores (the bincode   *)
(* of an Archive holds the time of the run, so no two runs share it), and  *)
(* for the snapshot it commits.                                            *)
(*                                                                         *)
(* One write, read or listing of the storage is one step, as it is on an   *)
(* object store; a crash or an error may come between any two of them.     *)
(***************************************************************************)
EXTENDS FiniteSets

CONSTANTS
  Data,        \* ids of file data chunks
  Runs,        \* backup runs; also the ids of the root objects they store
  Names,       \* archive names
  FlakyReads   \* may reading a snapshot file fail while listing them?

ASSUME DataIsNotRoot == Data \cap Runs = {}
ASSUME FlakyReadsAssumption == FlakyReads \in BOOLEAN

Chunks == Data \cup Runs

VARIABLES
  stored,   \* the objects in objects/
  snap,     \* snap[r]: the snapshot of run r, in snapshots/
  name,     \* name[r]: the archive name run r was given (never changes)
  pc,       \* pc[r]: where run r is
  cache,    \* cache[r]: chunk_cache of the handle of run r
  items,    \* items[r]: the chunk ids collected in the archive of run r
  doomed    \* snapshots a delete_archive has found and not deleted yet

runVars == <<pc, cache, items>>
vars == <<stored, snap, name, pc, cache, items, doomed>>

SnapState == {"none", "committed", "deleted"}
RunState == {"start", "opened", "walk", "root", "done", "failed"}
Active == {"start", "opened", "walk", "root"}

TypeOK ==
  /\ stored \subseteq Chunks
  /\ snap \in [Runs -> SnapState]
  /\ name \in [Runs -> Names]
  /\ pc \in [Runs -> RunState]
  /\ cache \in [Runs -> SUBSET Chunks]
  /\ items \in [Runs -> SUBSET Data]
  /\ doomed \subseteq Runs

Committed == {r \in Runs : snap[r] = "committed"}

\* What list_snapshots may return: a snapshot whose file cannot be read or
\* parsed is dropped with a warning, the others are returned.
Listings == IF FlakyReads THEN SUBSET Committed ELSE {Committed}

Init ==
  /\ stored = {}
  /\ snap = [r \in Runs |-> "none"]
  /\ name \in [Runs -> Names]
  /\ pc = [r \in Runs |-> "start"]
  /\ cache = [r \in Runs |-> {}]
  /\ items = [r \in Runs |-> {}]
  /\ doomed = {}

Goto(r, from, to) ==
  /\ pc[r] = from
  /\ pc' = [pc EXCEPT ![r] = to]

\* Repository::open: chunk_cache is what list_objects returns now.
Open(r) ==
  /\ Goto(r, "start", "opened")
  /\ cache' = [cache EXCEPT ![r] = stored]
  /\ UNCHANGED <<stored, snap, name, items, doomed>>

\* create_with_mapping: refuse a name that the manifest already holds.
CheckName(r) ==
  /\ \E manifest \in Listings :
       IF \E s \in manifest : name[s] = name[r]
         THEN Goto(r, "opened", "failed")
         ELSE Goto(r, "opened", "walk")
  /\ UNCHANGED <<stored, snap, name, cache, items, doomed>>

\* Faulty: the id is cached though the write may have failed.
PutObjectUnchecked(r, c) ==
  IF c \in cache[r]
    THEN UNCHANGED <<stored, cache>>
    ELSE /\ stored' \in {stored, stored \cup {c}}
         /\ cache' = [cache EXCEPT ![r] = @ \cup {c}]

\* put_chunk: a chunk in the cache is a duplicate and is not written; another
\* is written, whether or not it is in the store, and then cached.
PutObject(r, c) ==
  IF c \in cache[r]
    THEN UNCHANGED <<stored, cache>>
    ELSE /\ stored' = stored \cup {c}
         /\ cache' = [cache EXCEPT ![r] = @ \cup {c}]

\* process_entry: one chunk of a file is stored and its id kept.
AddChunk(r, c) ==
  /\ Goto(r, "walk", "walk")
  /\ PutObject(r, c)
  /\ items' = [items EXCEPT ![r] = @ \cup {c}]
  /\ UNCHANGED <<snap, name, doomed>>

\* commit_archive, first half: the archive itself is stored as a chunk.
StoreRoot(r) ==
  /\ Goto(r, "walk", "root")
  /\ PutObject(r, r)
  /\ UNCHANGED <<snap, name, items, doomed>>

\* Faulty: the snapshot is written before the root it names.
CommitSnapshotEarly(r) ==
  /\ Goto(r, "walk", "done")
  /\ snap' = [snap EXCEPT ![r] = "committed"]
  /\ UNCHANGED <<stored, name, cache, items, doomed>>

\* commit_archive, second half: the snapshot that names the root is written.
CommitSnapshot(r) ==
  /\ Goto(r, "root", "done")
  /\ snap' = [snap EXCEPT ![r] = "committed"]
  /\ UNCHANGED <<stored, name, cache, items, doomed>>

\* A storage call returns an error that `?` passes up, or the process dies.
Abort(r) ==
  /\ pc[r] \in Active
  /\ pc' = [pc EXCEPT ![r] = "failed"]
  /\ UNCHANGED <<stored, snap, name, cache, items, doomed>>

\* delete_archive, first half: list the snapshots and take the first with the
\* name; the listing has no order, so any of them may be the first.
FindArchive(n) ==
  \E manifest \in Listings :
    \E s \in {t \in manifest : name[t] = n} :
      /\ doomed' = doomed \cup {s}
      /\ UNCHANGED <<stored, snap, name, runVars>>

\* delete_archive, second half: deleting a file that is gone succeeds too.
DeleteSnapshot(s) ==
  /\ s \in doomed
  /\ doomed' = doomed \ {s}
  /\ snap' = [snap EXCEPT ![s] = "deleted"]
  /\ UNCHANGED <<stored, name, runVars>>

\* The process deleting the archive dies, or the deletion fails.
AbandonDelete(s) ==
  /\ s \in doomed
  /\ doomed' = doomed \ {s}
  /\ UNCHANGED <<stored, snap, name, runVars>>

RunStep(r) ==
  \/ Open(r)
  \/ CheckName(r)
  \/ \E c \in Data : AddChunk(r, c)
  \/ StoreRoot(r)
  \/ CommitSnapshot(r)
  \/ Abort(r)

DeleteStep ==
  \/ \E n \in Names : FindArchive(n)
  \/ \E s \in Runs : DeleteSnapshot(s) \/ AbandonDelete(s)

Next == (\E r \in Runs : RunStep(r)) \/ DeleteStep

Spec == Init /\ [][Next]_vars

-------------------------------------------------------------------------------
(***************************************************************************)
(* Properties                                                              *)
(***************************************************************************)

\* Everything ArchiveRestorer reads to restore the archive of run r.
Readable(r) == {r} \cup items[r] \subseteq stored

\* A committed archive can be restored in full: its root object and every data
\* chunk it refers to are in the store, whatever other runs, crashes and
\* deletions did.  It rests on the order of the writes in create_with_mapping
\* and on put_chunk never trusting a cache entry that is not in the store.
Restorable == \A r \in Committed : Readable(r)

\* What a user can do with the archive of each run.
UserStatus ==
  [r \in Runs |-> CASE snap[r] = "none" -> "new"
                    [] snap[r] = "committed" /\ Readable(r) -> "restorable"
                    [] snap[r] = "committed" /\ ~Readable(r) -> "damaged"
                    [] snap[r] = "deleted" -> "deleted"]

Promise == INSTANCE BackupStore WITH Archives <- Runs, status <- UserStatus

\* The repository implements BackupStore: an archive appears in the listing
\* complete, in the one step that writes its snapshot, and nothing but its
\* deletion makes it unreadable.
KeepsPromise == Promise!Spec
===============================================================================
