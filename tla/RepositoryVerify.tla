--------------------------- MODULE RepositoryVerify ---------------------------
(***************************************************************************)
(* borg verify on a repository that is being used: run and                 *)
(* run_restore_test of borg-cli/src/commands/verify.rs, over verify_all    *)
(* and verify_archive of borg-core/src/verification.rs.                    *)
(*                                                                         *)
(* The command opens a Repository of its own, so that the chunk index it   *)
(* checks archives against is the listing of that moment.  It may read all *)
(* those chunks; it may load the archives and look their chunks up in the  *)
(* index; it may restore some files of one archive.  It takes no lock:     *)
(* backups and deletions go on, and objects go on to rot and to get lost.  *)
(*                                                                         *)
(* A rotten object is there, and beyond what its recovery file can mend; a *)
(* lost one is in "stored", as Repository has it, but no longer there.     *)
(* What a torn or mended object makes of verify_chunk is in ChunkFiles.    *)
(***************************************************************************)
EXTENDS Repository, Naturals

CONSTANTS
  Commands,   \* the parts that a command may be told to do
  MaxDamage   \* bound: objects that are damaged, or were since the command began

\* verify_all without --archives-only, the archives without --repository-only,
\* and --test-restore.
Parts == {"chunks", "archives", "restore"}

ASSUME CommandsAssumption == Commands \subseteq SUBSET Parts
ASSUME MaxDamageAssumption == MaxDamage \in Nat

VARIABLES
  rotten,   \* the objects in the store that do not read back as they were
  lost,     \* the objects that are gone from the store
  since,    \* since[r]: those that got lost after run r had opened the
            \* repository (history)
  vpc,      \* what the command is doing
  args,     \* the parts it was told to do
  known,    \* chunk_cache of its handle
  todo,     \* chunks verify_all, or the restore test, has yet to read
  pending,  \* archive names it has yet to verify, or to restore from
  vouched,  \* archive names it has reported OK
  alarms,   \* what it has reported FAILED: a chunk or a sampled file that does not
            \* read true (corrupt), an archive that cannot be loaded (unreadable),
            \* chunks of an archive that are not in the index (missing)
  struck,   \* the objects that were damaged since it began (history)
  upset     \* what else could make it fail since it began (history): a commit, a
            \* delete, a read that failed for once (unread), objects lost before (lost)

command == <<vpc, args, known, todo, pending, vouched, alarms>>
verifyVars == <<vars, rotten, lost, since, command, struck, upset>>

Damaged == rotten \cup lost

VerifyInit ==
  /\ Init
  /\ rotten = {}
  /\ lost = {}
  /\ since = [r \in Runs |-> {}]
  /\ vpc = "idle"
  /\ args = {}
  /\ known = {}
  /\ todo = {}
  /\ pending = {}
  /\ vouched = {}
  /\ alarms = {}
  /\ struck = {}
  /\ upset = {}

Go(from, to) == vpc = from /\ vpc' = to

Alarm(what) == alarms' = alarms \cup {what}

Upset(what) == upset' = upset \cup {what}

\* What a listing of the snapshots leaves out is put down to a failed read.
Listed(manifest) ==
  IF manifest = Committed THEN UNCHANGED upset ELSE Upset("unread")

\* open_repository: the index is what the objects are now.
OpenVerify ==
  /\ vpc \in {"idle", "done", "aborted"}
  /\ vpc' = "chunks"
  /\ args' \in Commands
  /\ known' = stored \ lost
  /\ todo' = IF "chunks" \in args' THEN known' ELSE {}
  /\ pending' = {}
  /\ vouched' = {}
  /\ alarms' = {}
  /\ struck' = {}
  /\ upset' = IF lost = {} THEN {} ELSE {"lost"}
  /\ UNCHANGED <<vars, rotten, lost>>

\* An object is read true, or it is reported: because it is damaged, or because
\* reading it failed, which is reported as a missing chunk.
ReadObject(c) ==
  \/ c \notin Damaged /\ UNCHANGED <<alarms, upset>>
  \/ c \in Damaged /\ Alarm("corrupt") /\ UNCHANGED upset
  \/ FlakyReads /\ Alarm("corrupt") /\ Upset("unread")

\* Faulty: what does not read true is dropped from the index.
VerifyAndForget(c) ==
  /\ Go("chunks", "chunks")
  /\ c \in todo
  /\ todo' = todo \ {c}
  /\ ReadObject(c)
  /\ known' = IF c \in Damaged THEN known \ {c} ELSE known
  /\ UNCHANGED <<vars, rotten, lost, args, pending, vouched, struck>>

\* verify_all: verify_chunk on one chunk of the index.
VerifyChunk(c) ==
  /\ Go("chunks", "chunks")
  /\ c \in todo
  /\ todo' = todo \ {c}
  /\ ReadObject(c)
  /\ UNCHANGED <<vars, rotten, lost, args, known, pending, vouched, struck>>

\* verify_all: a chunk that does not decode ends the command with its error;
\* so does a listing that fails, or a kill.  Nothing is known of the result but that.
AbortVerify ==
  /\ vpc \in {"chunks", "archives", "restore"}
  /\ vpc' = "aborted"
  /\ args' = {}
  /\ known' = {}
  /\ todo' = {}
  /\ pending' = {}
  /\ vouched' = {}
  /\ alarms' = {}
  /\ struck' = {}
  /\ upset' = {}
  /\ UNCHANGED <<vars, rotten, lost>>

\* load_manifest: the archives to verify are those it lists, or the one named.
LoadManifest ==
  /\ Go("chunks", "archives")
  /\ todo = {}
  /\ IF "archives" \in args
       THEN \E manifest \in Listings :
              /\ pending' \in {{name[r] : r \in manifest}} \cup {{n} : n \in Names}
              /\ Listed(manifest)
       ELSE UNCHANGED <<pending, upset>>
  /\ UNCHANGED <<vars, rotten, lost, args, known, todo, vouched, alarms, struck>>

\* load_archive takes the first with the name of a listing made anew, and reads its
\* root.  In whichever of the three formats that is, the items have the chunks
\* that were stored.
Loaded(n, manifest) == {s \in manifest : name[s] = n /\ s \notin Damaged}

LoadMayFail(n, manifest) ==
  \/ \A s \in manifest : name[s] # n
  \/ \E s \in manifest \cap Damaged : name[s] = n
  \/ FlakyReads

\* Faulty: an archive whose root can be read is taken for complete.
VerifyArchiveRoot(n) ==
  /\ Go("archives", "archives")
  /\ n \in pending
  /\ pending' = pending \ {n}
  /\ \E s \in {t \in Committed : name[t] = n} :
       IF s \in Damaged
         THEN Alarm("unreadable") /\ UNCHANGED vouched
         ELSE vouched' = vouched \cup {n} /\ UNCHANGED alarms
  /\ UNCHANGED <<vars, rotten, lost, args, known, todo, struck, upset>>

\* verify_archive: the archive is loaded, and its chunks are looked up in the index.
VerifyArchive(n) ==
  /\ Go("archives", "archives")
  /\ n \in pending
  /\ pending' = pending \ {n}
  /\ \E manifest \in Listings :
       /\ Listed(manifest)
       /\ \/ /\ LoadMayFail(n, manifest)
             /\ Alarm("unreadable")
             /\ UNCHANGED vouched
          \/ \E s \in Loaded(n, manifest) :
               IF items[s] \subseteq known
                 THEN vouched' = vouched \cup {n} /\ UNCHANGED alarms
                 ELSE Alarm("missing") /\ UNCHANGED vouched
  /\ UNCHANGED <<vars, rotten, lost, args, known, todo, struck>>

\* --test-restore: the manifest is loaded again and the latest archive taken;
\* the model does not tell which that is.
ChooseLatest ==
  /\ Go("archives", "restore")
  /\ pending = {}
  /\ "restore" \in args
  /\ \E manifest \in Listings :
       /\ Listed(manifest)
       /\ \/ manifest = {} /\ pending' = {}
          \/ \E s \in manifest : pending' = {name[s]}
  /\ UNCHANGED <<vars, rotten, lost, args, known, todo, vouched, alarms, struck>>

\* run_restore_test: load the archive and take the chunks of its first files.
LoadSample(n) ==
  /\ Go("restore", "sample")
  /\ n \in pending
  /\ pending' = {}
  /\ \E manifest \in Listings :
       /\ Listed(manifest)
       /\ \/ /\ LoadMayFail(n, manifest)
             /\ Alarm("unreadable")
             /\ UNCHANGED todo
          \/ \E s \in Loaded(n, manifest) :
               todo' \in SUBSET items[s] /\ UNCHANGED alarms
  /\ UNCHANGED <<vars, rotten, lost, args, known, vouched, struck>>

\* restore_single_file: one chunk is read; what fails is reported.
RestoreChunk(c) ==
  /\ Go("sample", "sample")
  /\ c \in todo
  /\ todo' = todo \ {c}
  /\ ReadObject(c)
  /\ UNCHANGED <<vars, rotten, lost, args, known, pending, vouched, struck>>

\* The summary: PASSED if nothing was reported.  The handle is dropped.
Summary ==
  /\ \/ Go("archives", "done") /\ "restore" \notin args
     \/ Go("restore", "done")
     \/ Go("sample", "done")
  /\ pending = {}
  /\ todo = {}
  /\ known' = {}
  /\ UNCHANGED <<vars, rotten, lost, args, todo, pending, vouched, alarms, struck, upset>>

VerifyStep ==
  \/ OpenVerify
  \/ \E c \in Chunks : VerifyChunk(c) \/ RestoreChunk(c)
  \/ AbortVerify
  \/ LoadManifest
  \/ \E n \in Names : VerifyArchive(n) \/ LoadSample(n)
  \/ ChooseLatest
  \/ Summary

\* Repository::open of a backup: what is lost is not listed.
OpenBackup(r) ==
  /\ Goto(r, "start", "opened")
  /\ cache' = [cache EXCEPT ![r] = stored \ lost]
  /\ UNCHANGED <<stored, snap, name, items, doomed, rotten, lost, upset>>

\* The other steps of a backup: an object that is written is whole again, and the
\* command is not told of a commit.
BackupGoesOn(r) ==
  /\ RunStep(r)
  /\ pc'[r] # "opened"
  /\ LET written == cache'[r] \ cache[r] IN
       rotten' = rotten \ written /\ lost' = lost \ written
  /\ IF snap'[r] = snap[r] THEN UNCHANGED upset ELSE Upset("commit")

BackupStep ==
  /\ \E r \in Runs : OpenBackup(r) \/ BackupGoesOn(r)
  /\ UNCHANGED <<command, struck>>

DeletionStep ==
  /\ DeleteStep
  /\ IF snap' = snap THEN UNCHANGED upset ELSE Upset("delete")
  /\ UNCHANGED <<rotten, lost, command, struck>>

\* The medium damages an object, or loses it.
Damage(c) ==
  /\ c \in stored \ Damaged
  /\ Cardinality(Damaged \cup struck \cup {c}) <= MaxDamage
  /\ \/ rotten' = rotten \cup {c} /\ UNCHANGED <<lost, since>>
     \/ /\ lost' = lost \cup {c}
        /\ since' = [r \in Runs |-> since[r] \cup (IF pc[r] = "start" THEN {} ELSE {c})]
        /\ UNCHANGED rotten
  /\ struck' = struck \cup {c}
  /\ UNCHANGED <<vars, command, upset>>

VerifyNext ==
  \/ (VerifyStep \/ BackupStep \/ DeletionStep) /\ UNCHANGED since
  \/ \E c \in Chunks : Damage(c)

VerifySpec == VerifyInit /\ [][VerifyNext]_verifyVars

-------------------------------------------------------------------------------
(***************************************************************************)
(* Properties                                                              *)
(***************************************************************************)

\* All that a committed archive refers to was written, and what of it is not there
\* now got lost after its backup had opened the repository: no backup refers to an
\* object that was lost before, though put_chunk writes only what it does not take
\* for stored.  (A rotten object it does take for stored.)
RestorableUnlessLost ==
  \A r \in Committed : Readable(r) /\ ({r} \cup items[r]) \cap lost \subseteq since[r]

\* No other archive has, or had, the name of the archive of run r.
NoTwin(r) == \A s \in Runs : name[s] = name[r] /\ snap[s] # "none" => s = r

Passed == vpc = "done" /\ alarms = {}

\* A verification of the chunks and the archives that says PASSED can be relied
\* on: an archive it reported OK is there in full and reads true, but for what
\* was damaged after the command began, whatever backups and deletions did
\* meanwhile.  (Of archives that share a name only one has been looked at.)
PassedIsSound ==
  Passed /\ "chunks" \in args =>
    \A r \in Committed :
      name[r] \in vouched /\ NoTwin(r) =>
        Readable(r) /\ ({r} \cup items[r]) \cap Damaged \subseteq struck

\* Chunks are reported missing from an archive only if objects were lost, or if a
\* backup was committed while the command ran, as then the index is the older.
MissingIsLostOrNew == "missing" \in alarms => upset \cap {"lost", "commit"} # {}
===============================================================================
