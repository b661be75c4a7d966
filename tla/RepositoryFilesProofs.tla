------------------------ MODULE RepositoryFilesProofs -------------------------
(***************************************************************************)
(* The files of a repository that take more than one write to get right:   *)
(* the lock file, the descriptor and the key that a passphrase unwraps,    *)
(* and the two files of a chunk.                                           *)
(*                                                                         *)
(* The lock file does not give mutual exclusion, but a lock taken without  *)
(* a race stands, and none is left behind unless a process is killed or    *)
(* fails to write or to remove its file, for every number of processes.    *)
(*                                                                         *)
(* What is stored can be read again, and the passphrase last reported      *)
(* opens the repository, for every number of repositories, passphrases and *)
(* tasks.  The key file is written in place, and a death in the write can  *)
(* take the key: it goes in no other way, so a repository without a key    *)
(* has had a writer that died, or one that is writing now.                 *)
(* Both rest on what a task that is under way holds back: one that         *)
(* makes a repository writes the descriptor before the key, so that        *)
(* backups and imports find a repository without a key; but nobody has a   *)
(* password for it yet, so that backups store nothing there until its key  *)
(* is written, and whoever writes another key meanwhile overlaps.          *)
(*                                                                         *)
(* The two files of a chunk hold what was stored and fit each other, for   *)
(* any number of clients, of pieces and of parity pieces.  The properties  *)
(* speak of moments when no client is writing; the invariant speaks of all *)
(* others too: a piece that is not there yet is due from a client that has *)
(* the file open (Due), and whoever is writing writes the one version the  *)
(* file is of.                                                             *)
(***************************************************************************)
EXTENDS RepositoryLock, RepositoryKeys, ChunkFiles, TLAPS


-------------------------------------------------------------------------------
(***************************************************************************)
(* The lock file                                                           *)
(***************************************************************************)

\* A process sleeps only if it may still poll, so left never gets negative.
SleepersMayPoll == \A p \in Procs : at[p] = "sleep" => left[p] > 0

LockTypeInv == LockTypeOK /\ SleepersMayPoll

LEMMA LockTypeStep == LockTypeInv /\ [LockNext]_lockVars => LockTypeInv'
<1> SUFFICES ASSUME LockTypeInv, [LockNext]_lockVars
             PROVE  LockTypeInv'
  OBVIOUS
<1> USE TimeoutIsNat DEF LockTypeInv, SleepersMayPoll, LockTypeOK, PC
<1>1. ASSUME NEW p \in Procs, NEW m \in {"acquire", "wait"}, Call(p, m)
      PROVE  LockTypeInv'
  BY <1>1 DEF Call, LookAtFile, Goes, AfterUnlocked
<1>2. ASSUME NEW p \in Procs, Poll(p)
      PROVE  LockTypeInv'
  BY <1>2 DEF Poll, LookAtFile, Goes, AfterUnlocked
<1>3. ASSUME NEW p \in Procs, ReadOwner(p) \/ ReadInvalid(p) \/ RemoveInvalid(p)
      PROVE  LockTypeInv'
  BY <1>3 DEF ReadOwner, ReadInvalid, RemoveInvalid, Goes, AfterUnlocked, UnlinkFile
<1>4. ASSUME NEW p \in Procs, AcquireStep(p)
      PROVE  LockTypeInv'
  BY <1>4 DEF AcquireStep, Create, Write, WriteFile, Overwritten, Goes
<1>5. ASSUME NEW p \in Procs, ReleaseStep(p)
      PROVE  LockTypeInv'
  BY <1>5 DEF ReleaseStep, Release, Unlink, UnlinkFile, Goes
<1>6. ASSUME NEW p \in Procs, Fault(p)
      PROVE  LockTypeInv'
  BY <1>6 DEF Fault, CreateFails, WriteFails, SyncFails, RemoveFails, UnlinkFails,
              Kill, WriteFile, Overwritten, Goes, AfterUnlocked
<1>7. CASE UNCHANGED lockVars
  BY <1>7 DEF lockVars
<1>8. QED
  BY <1>1, <1>2, <1>3, <1>4, <1>5, <1>6, <1>7 DEF LockNext, IsLockedStep

LEMMA LockTypeInvariant == LockSpec => []LockTypeInv
<1>1. LockInit => LockTypeInv
  <2> SUFFICES ASSUME LockInit
               PROVE  LockTypeInv
    OBVIOUS
  <2>1. failed \in BOOLEAN
    BY Zenon DEF LockInit
  <2>2. /\ at \in [Procs -> PC]
        /\ mode \in [Procs -> {"acquire", "wait"}]
        /\ left \in [Procs -> 0 .. Timeout]
    BY TimeoutIsNat DEF LockInit, PC
  <2>3. QED
    BY <2>1, <2>2 DEF LockInit, LockTypeInv, LockTypeOK, SleepersMayPoll
<1>2. QED
  BY <1>1, LockTypeStep, PTL DEF LockSpec

\* The variables stay in their types: the polls left never go below zero.
THEOREM LockTypeCorrect == LockSpec => []LockTypeOK
<1>1. LockTypeInv => LockTypeOK
  BY DEF LockTypeInv
<1>2. QED
  BY <1>1, LockTypeInvariant, PTL

\* A lock taken without a race stands until its holder lets it go.
THEOREM LockStandsCorrect == LockSpec => LockStands
<1>1. ASSUME LockTypeInv, [LockNext]_lockVars, NEW p \in Procs, Settled(p), at'[p] = "held"
      PROVE  Settled(p)'
  <2>1. at[p] = "held" /\ file = p
    BY <1>1 DEF Settled
  <2>2. \A q \in Procs \ {p} : at[q] \in {"idle", "read", "sleep", "dead"}
    BY <1>1 DEF Settled
  <2>3. file # "none" /\ file \in Procs
    BY <2>1, ProcsAreNotContents
  <2> USE <1>1, <2>1, <2>2, <2>3 DEF LockTypeInv, LockTypeOK, Settled, Goes
  <2>4. ASSUME NEW q \in Procs, NEW m \in {"acquire", "wait"}, Call(q, m)
        PROVE  Settled(p)'
    BY <2>4 DEF Call, LookAtFile
  <2>5. ASSUME NEW q \in Procs, IsLockedStep(q)
        PROVE  Settled(p)'
    BY <2>5 DEF IsLockedStep, Poll, LookAtFile, ReadOwner, ReadInvalid, RemoveInvalid
  <2>6. ASSUME NEW q \in Procs, AcquireStep(q) \/ ReleaseStep(q)
        PROVE  Settled(p)'
    BY <2>6 DEF AcquireStep, Create, Write, ReleaseStep, Release, Unlink
  <2>7. ASSUME NEW q \in Procs, Fault(q)
        PROVE  Settled(p)'
    BY <2>7 DEF Fault, CreateFails, WriteFails, SyncFails, RemoveFails, UnlinkFails, Kill
  <2>8. CASE UNCHANGED lockVars
    BY <2>8 DEF lockVars
  <2>9. QED
    BY <2>4, <2>5, <2>6, <2>7, <2>8 DEF LockNext
<1>2. LockTypeInv /\ [LockNext]_lockVars
        => [\A p \in Procs : Settled(p) /\ at'[p] = "held" => Settled(p)']_lockVars
  BY <1>1
<1>3. QED
  BY <1>2, LockTypeInvariant, PTL DEF LockSpec, LockStands

\* Unless a process is killed or fails to write or remove its own file, the lock
\* file goes with the last process that has made it its own, whatever races they
\* were in.
THEOREM NothingLeftBehindCorrect == LockSpec => []NothingLeftBehind
<1>1. LockInit => NothingLeftBehind
  BY DEF LockInit, NothingLeftBehind
<1>2. LockTypeInv /\ NothingLeftBehind /\ [LockNext]_lockVars => NothingLeftBehind'
  <2> SUFFICES ASSUME LockTypeInv, NothingLeftBehind, [LockNext]_lockVars, ~failed', file' # "none"
               PROVE  \E p \in Procs : at'[p] \in {"write", "held", "unlink"}
    BY DEF NothingLeftBehind
  <2>0. ~failed
    BY DEF LockNext, IsLockedStep, AcquireStep, ReleaseStep, Fault, Call, Poll,
           ReadOwner, ReadInvalid, RemoveInvalid, Create, Write, Release,
           Unlink, CreateFails, WriteFails, SyncFails, RemoveFails, UnlinkFails,
           Kill, lockVars
  <2> USE DEF LockTypeInv, LockTypeOK, Goes
  <2>1. ASSUME NEW q \in Procs, Create(q) \/ Write(q) \/ (Release(q) /\ file # "none")
        PROVE  at'[q] \in {"write", "held", "unlink"}
    BY <2>1 DEF Create, Write, Release
  <2>2. ASSUME NEW q \in Procs, RemoveInvalid(q) \/ Unlink(q)
        PROVE  FALSE
    BY <2>2 DEF RemoveInvalid, Unlink, UnlinkFile
  <2>3. ASSUME file # "none",
               \A p \in Procs : at[p] \in {"write", "held", "unlink"} => at'[p] = at[p]
        PROVE  \E p \in Procs : at'[p] \in {"write", "held", "unlink"}
    BY <2>0, <2>3 DEF NothingLeftBehind
  <2>4. ASSUME NEW q \in Procs, NEW m \in {"acquire", "wait"}, Call(q, m)
        PROVE  \E p \in Procs : at'[p] \in {"write", "held", "unlink"}
    BY <2>4, <2>3 DEF Call, LookAtFile
  <2>5. ASSUME NEW q \in Procs, Poll(q) \/ ReadOwner(q) \/ ReadInvalid(q)
                                  \/ CreateFails(q) \/ RemoveFails(q)
        PROVE  \E p \in Procs : at'[p] \in {"write", "held", "unlink"}
    BY <2>5, <2>3 DEF Poll, LookAtFile, ReadOwner, ReadInvalid, CreateFails, RemoveFails
  <2>6. ASSUME NEW q \in Procs, Release(q), file = "none"
        PROVE  FALSE
    BY <2>6 DEF Release
  <2>7. CASE UNCHANGED lockVars
    BY <2>7, <2>3 DEF lockVars
  <2>8. ASSUME NEW q \in Procs, WriteFails(q) \/ SyncFails(q) \/ UnlinkFails(q) \/ Kill(q)
        PROVE  FALSE
    BY <2>8 DEF WriteFails, SyncFails, UnlinkFails, Kill
  <2>9. QED
    BY <2>1, <2>2, <2>4, <2>5, <2>6, <2>7, <2>8
       DEF LockNext, IsLockedStep, AcquireStep, ReleaseStep, Fault
<1>3. QED
  BY <1>1, <1>2, LockTypeInvariant, PTL DEF LockSpec

-------------------------------------------------------------------------------
(***************************************************************************)
(* Keys: what holds of the tasks and the files                             *)
(***************************************************************************)

Kinds == {"unused", "ended", "wizard", "init", "change", "import", "backup"}
Steps == {None, "check", "describe", "key", "fill", "told", "keep", "open", "wrap", "put", "keyless"}
Keys == 0 .. FirstKey
Given == Passphrases \cup {None}
Upsets == {"two at the key", "two makers", "foreign key"}
Kept == [reported : [Places -> Given], made : [Places -> Keys], upset : SUBSET Upsets, crashes : Nat]

\* A key file holds a key, or is empty or torn.
KeyFile == [key : Keys \ {NoKey}, pass : Given] \cup {Unwritten, Torn}

Task == [kind : Kinds, pc : Steps, place : Places \cup {None}, pass : Given, new : Given, key : Keys]

KeysTypeOK ==
  /\ descriptor \in [Places -> {"none", "torn", "plain", "encrypted"}]
  /\ keyfile \in [Places -> KeyFile]
  /\ archives \in [Places -> SUBSET Keys]
  /\ session \in [Places -> Given] /\ keyring \in [Places -> Given]
  /\ tasks \in [Tasks -> Task]
  /\ history \in Kept

Calm(what) == what \notin history.upset

\* The step a task is at, while it is under way.
StepAt(task) == IF task.kind \in {"unused", "ended"} THEN "none" ELSE task.pc
StepOf(t) == StepAt(tasks[t])

\* A task that is under way has a place, and is at a step of its kind.
TaskRuns(task) ==
  /\ task.kind \notin {"unused", "ended"} => task.place \in Places
  /\ task.kind \in {"wizard", "init"} => task.pc \in {"check", "describe", "key", "fill", "told", "keep"}
  /\ task.kind \in {"change", "import"} => task.pc \in {"open", "wrap", "fill"}
  /\ task.kind = "backup" => task.pc \in {"open", "put", "keyless"}
  /\ StepAt(task) \in {"told", "keep"} => task.kind = "wizard"
  /\ task.kind = "import" \/ (task.kind = "change" /\ task.pc # "open") => task.key # NoKey
  /\ task.kind = "change" => task.pass # None
  /\ task.kind = "import" => task.pass = None
  /\ task.kind \in {"wizard", "init"} /\ task.pc \in {"key", "fill"} => task.pass # None

TasksRun == \A t \in Tasks : TaskRuns(tasks[t])

\* Before its descriptor is written, a place has nothing, and nobody a password for it.
Blank(p) ==
  /\ keyfile[p].key = NoKey /\ archives[p] = {}
  /\ session[p] = None /\ keyring[p] = None
  /\ \A t \in Tasks : tasks[t].kind = "backup" /\ tasks[t].place = p => tasks[t].pass = None

Late == {"key", "fill", "told", "keep", "wrap", "put", "keyless"}

DescribedFirst ==
  /\ \A p \in Places : descriptor[p] = "none" => Blank(p)
  /\ \A t \in Tasks : StepOf(t) \in Late => descriptor[tasks[t].place] # "none"

NothingReported == \A p \in Places : descriptor[p] = "none" => history.reported[p] = None

\* Makers that were not at it together are alone, and find nothing there.
MakersAlone ==
  Calm("two makers") =>
    /\ \A t, u \in Tasks : Makes(t) /\ Makes(u) /\ tasks[t].place = tasks[u].place => t = u
    /\ \A t \in Tasks : StepOf(t) = "describe" => descriptor[tasks[t].place] = "none"
    /\ \A t \in Tasks : StepOf(t) \in {"key", "wrap", "fill"} => descriptor[tasks[t].place] = "encrypted"

\* Until its maker, t, has written the key, a repository has no archive, no password,
\* and no backup that could store something.
Creates(t) == Makes(t) /\ tasks[t].pc \in {"key", "fill"}

Awaited(t) ==
  LET p == tasks[t].place
  IN  /\ archives[p] = {} /\ session[p] = None /\ keyring[p] = None
      /\ \A u \in Tasks : tasks[u].kind = "backup" /\ tasks[u].place = p =>
           tasks[u].pass = None /\ tasks[u].key = NoKey

\* A backup holds the repository's key, or none and a descriptor that wants none.
BackupFits(t) ==
  tasks[t].kind = "backup" =>
    LET p == tasks[t].place
    IN  IF tasks[t].key # NoKey
        THEN tasks[t].pc = "put" /\ descriptor[p] = "encrypted" /\ tasks[t].key = history.made[p]
        ELSE tasks[t].pc = "put" => descriptor[p] = "plain"

\* What is stored is stored under the repository's key; nothing is stored in an
\* encrypted repository without one.
Fits(p) ==
  /\ \A key \in archives[p] : IF descriptor[p] = "plain" THEN key = NoKey ELSE key = history.made[p]
  /\ descriptor[p] # "plain" => NoKey \notin archives[p]

\* The key file holds the repository's key, if any.
FileFits(p) == keyfile[p].key \in {NoKey, history.made[p]}

Undisturbed == Calm("two makers") /\ Calm("foreign key")

KeysFit ==
  /\ \A t \in Tasks : Creates(t) => Awaited(t)
  /\ \A t \in Tasks : BackupFits(t)
  /\ \A p \in Places : Fits(p) /\ FileFits(p)

KeyInv == Undisturbed => KeysFit

\* A repository's key is only gone from its file in a write.
GoneInWrite == \A p \in Places : history.made[p] # NoKey /\ keyfile[p].key = NoKey => KeyGone(p)

\* Those at the key are alone: the key file they have emptied stays empty, and before
\* a maker writes its key nothing is reported; what it wrote opens with the passphrase
\* that the wizard has yet to report.
RekeysAlone ==
  \A t, u \in Tasks : Rekeys(t) /\ Rekeys(u) /\ tasks[t].place = tasks[u].place => t = u

KeyUnwritten ==
  \A t \in Tasks :
    /\ Creates(t) => keyfile[tasks[t].place].key = NoKey /\ history.reported[tasks[t].place] = None
    /\ StepOf(t) = "fill" => keyfile[tasks[t].place] = Unwritten

TellsTrue ==
  \A t \in Tasks :
    StepOf(t) = "told" /\ tasks[t].pass # None => Unlocks(tasks[t].place, tasks[t].pass)

Opening(p) == history.reported[p] # None => Unlocks(p, history.reported[p]) \/ KeyGone(p)

ReportInv ==
  Calm("two at the key") =>
    /\ Calm("two makers")
    /\ RekeysAlone
    /\ KeyUnwritten
    /\ TellsTrue
    /\ \A p \in Places : Opening(p)

-------------------------------------------------------------------------------
(***************************************************************************)
(* Types                                                                   *)
(***************************************************************************)

LEMMA KeysNumbered == MaxTasks \in Nat /\ Tasks \subseteq Keys \ {NoKey} /\ NoKey \in Keys
BY KeysAssumption DEF Tasks, Keys, NoKey, FirstKey

\* Empty, torn and whole key files.
LEMMA KeyFiles ==
  /\ Unwritten \in KeyFile /\ Torn \in KeyFile /\ Unwritten # Torn
  /\ Unwritten.key = NoKey /\ Torn.key = NoKey
  /\ \A f \in KeyFile : f.key \in Keys /\ (f.key = NoKey => f \in {Unwritten, Torn})
  /\ \A key \in Keys \ {NoKey}, pass \in Given : [key |-> key, pass |-> pass] \in KeyFile
BY KeysNumbered, KeysAssumption DEF KeyFile, Unwritten, Torn

\* The upsets that a step may add.
LEMMA NoteTyped ==
  ASSUME KeysTypeOK, NEW p \in Places, NEW makes \in BOOLEAN, Note(p, makes)
  PROVE  /\ history' \in Kept
         /\ history'.reported = history.reported /\ history'.made = history.made
         /\ history'.upset = history.upset \cup Overlap(p, makes)
BY DEF KeysTypeOK, Kept, Note, Overlap, Upsets

\* What the history keeps of a report, and of a making.
Reports(t, pass) ==
  /\ history' \in Kept
  /\ history'.upset = history.upset
  /\ history'.reported[tasks[t].place] = pass
  /\ \A q \in Places \ {tasks[t].place} : history'.reported[q] = history.reported[q]

MadeWith(t, key) ==
  /\ history'.made[tasks[t].place] = key
  /\ \A q \in Places \ {tasks[t].place} : history'.made[q] = history.made[q]

LEMMA ReportTyped ==
  ASSUME KeysTypeOK, NEW t \in Tasks, tasks[t].place \in Places, NEW pass \in Given, Report(t, pass)
  PROVE  Reports(t, pass) /\ history'.made = history.made
BY DEF KeysTypeOK, Kept, Report, Reports

\* What the storing of a descriptor or a key does.
Describes(p, kind) ==
  /\ descriptor' \in [Places -> {"none", "torn", "plain", "encrypted"}]
  /\ descriptor'[p] = kind
  /\ \A q \in Places \ {p} : descriptor'[q] = descriptor[q]

OnlyFile(p) ==
  /\ keyfile' \in [Places -> KeyFile]
  /\ \A q \in Places \ {p} : keyfile'[q] = keyfile[q]

LEMMA DescriptorWritten ==
  ASSUME KeysTypeOK, NEW p \in Places, NEW kind \in {"plain", "encrypted"},
         Write_descriptor(p, kind)
  PROVE  Describes(p, kind)
BY DEF KeysTypeOK, Write_descriptor, Describes

LEMMA KeyWritten ==
  ASSUME KeysTypeOK, NEW p \in Places, NEW key \in Keys \ {NoKey}, NEW pass \in Given,
         Write_key(p, key, pass)
  PROVE  /\ OnlyFile(p)
         /\ \/ keyfile'[p].key = key /\ keyfile'[p].pass = pass
            \/ keyfile'[p] = Torn /\ keyfile[p] # Unwritten
<1>1. PICK content \in {[key |-> key, pass |-> pass]} \cup (IF keyfile[p] = Unwritten THEN {} ELSE {Torn}) :
        keyfile' = [keyfile EXCEPT ![p] = content]
  BY DEF Write_key
<1>2. /\ content \in KeyFile
      /\ \/ content.key = key /\ content.pass = pass
         \/ content = Torn /\ keyfile[p] # Unwritten
  BY <1>1, KeyFiles
<1> QED
  BY <1>1, <1>2 DEF KeysTypeOK, OnlyFile

LEMMA KeyTruncated ==
  ASSUME KeysTypeOK, NEW p \in Places, Truncate_key(p)
  PROVE  OnlyFile(p) /\ keyfile'[p] = Unwritten
BY KeyFiles DEF KeysTypeOK, Truncate_key, OnlyFile

LEMMA KeyTorn ==
  ASSUME KeysTypeOK, NEW p \in Places, Tear_key(p)
  PROVE  /\ OnlyFile(p)
         /\ \/ keyfile'[p] = Torn
            \/ keyfile[p] # Unwritten /\ keyfile' = keyfile
BY KeyFiles DEF KeysTypeOK, Tear_key, OnlyFile

\* What a step makes of the task that takes it; nothing else is said of field new.
Becomes(t, kind, pc, place, pass, key) ==
  /\ tasks' \in [Tasks -> Task]
  /\ tasks'[t].kind = kind /\ tasks'[t].pc = pc /\ tasks'[t].place = place
  /\ tasks'[t].pass = pass /\ tasks'[t].key = key
  /\ \A u \in Tasks \ {t} : tasks'[u] = tasks[u]

Moves(t, pc) == Becomes(t, tasks[t].kind, pc, tasks[t].place, tasks[t].pass, tasks[t].key)
Stops(t) == Becomes(t, "ended", None, None, None, NoKey)

LEMMA Replaced ==
  ASSUME KeysTypeOK, NEW t \in Tasks, NEW task \in Task, tasks' = [tasks EXCEPT ![t] = task]
  PROVE  Becomes(t, task.kind, task.pc, task.place, task.pass, task.key)
BY DEF KeysTypeOK, Becomes

LEMMA GotoMoves ==
  ASSUME KeysTypeOK, NEW t \in Tasks, NEW pc \in Steps, Goto(t, pc)
  PROVE  Moves(t, pc)
<1>1. tasks \in [Tasks -> Task] /\ tasks[t] \in Task
  BY DEF KeysTypeOK
<1> DEFINE task == [tasks[t] EXCEPT !.pc = pc]
<1>2. /\ task \in Task /\ task.pc = pc
      /\ task.kind = tasks[t].kind /\ task.place = tasks[t].place
      /\ task.pass = tasks[t].pass /\ task.key = tasks[t].key
  BY <1>1 DEF Task
<1>3. tasks' = [tasks EXCEPT ![t] = task]
  BY <1>1 DEF Goto
<1> HIDE DEF task
<1> QED
  BY <1>2, <1>3, Replaced DEF Moves

LEMMA EndStops ==
  ASSUME KeysTypeOK, NEW t \in Tasks, End(t)
  PROVE  Stops(t)
<1>1. /\ Ended \in Task /\ Ended.kind = "ended" /\ Ended.pc = None /\ Ended.place = None
      /\ Ended.pass = None /\ Ended.key = NoKey
  BY KeysNumbered DEF Ended, Unused, Task, Kinds, Steps, Given
<1>2. tasks' = [tasks EXCEPT ![t] = Ended]
  BY DEF End
<1> QED
  BY ONLY <1>1, <1>2, Replaced, KeysTypeOK, t \in Tasks DEF Stops

LEMMA BeginBegins ==
  ASSUME KeysTypeOK, NEW t \in Tasks, NEW task \in Task, Begin(t, task)
  PROVE  /\ tasks[t].kind = "unused"
         /\ Becomes(t, task.kind, task.pc, task.place, task.pass, task.key)
<1>1. tasks' = [tasks EXCEPT ![t] = task] /\ tasks[t].kind = "unused"
  BY DEF Begin
<1> QED
  BY ONLY <1>1, Replaced, KeysTypeOK, t \in Tasks, task \in Task

LEMMA MakeBegins ==
  ASSUME KeysTypeOK, NEW t \in Tasks, NEW p \in Places, NEW kind \in {"wizard", "init"},
         NEW pass \in Given, Make(t, kind, p, pass)
  PROVE  tasks[t].kind = "unused" /\ Becomes(t, kind, "check", p, pass, NoKey)
<1> DEFINE task == [Unused EXCEPT !.kind = kind, !.pc = "check", !.place = p, !.pass = pass]
<1>1. /\ task \in Task /\ task.kind = kind /\ task.pc = "check" /\ task.place = p
      /\ task.pass = pass /\ task.key = NoKey
  BY KeysNumbered DEF Unused, Task, Kinds, Steps, Given
<1>2. Begin(t, task)
  BY DEF Make
<1> HIDE DEF task
<1> QED
  BY <1>1, <1>2, BeginBegins

LEMMA ChangeBegins ==
  ASSUME KeysTypeOK, NEW t \in Tasks, NEW p \in Places, NEW old \in Passphrases,
         NEW new \in Passphrases, Change_passphrase(t, p, old, new)
  PROVE  tasks[t].kind = "unused" /\ old # None /\ Becomes(t, "change", "open", p, old, NoKey)
<1> DEFINE task == [Unused EXCEPT !.kind = "change", !.pc = "open", !.place = p, !.pass = old, !.new = new]
<1>1. /\ task \in Task /\ task.kind = "change" /\ task.pc = "open" /\ task.place = p
      /\ task.pass = old /\ task.key = NoKey
  BY KeysNumbered DEF Unused, Task, Kinds, Steps, Given
<1>2. Begin(t, task)
  BY DEF Change_passphrase
<1> HIDE DEF task
<1> QED
  BY <1>1, <1>2, BeginBegins, KeysAssumption

LEMMA ImportBegins ==
  ASSUME KeysTypeOK, NEW t \in Tasks, NEW p \in Places, NEW from \in Places,
         NEW new \in Passphrases, Import_key(t, p, from, new)
  PROVE  /\ tasks[t].kind = "unused" /\ keyfile[from].key # NoKey
         /\ Becomes(t, "import", "open", p, None, keyfile[from].key)
<1> DEFINE task == [Unused EXCEPT !.kind = "import", !.pc = "open", !.place = p,
                                  !.key = keyfile[from].key, !.new = new]
<1>1. keyfile[from].key \in Keys /\ keyfile[from].key # NoKey
  BY KeyFiles DEF Import_key, KeysTypeOK
<1>2. /\ task \in Task /\ task.kind = "import" /\ task.pc = "open" /\ task.place = p
      /\ task.pass = None /\ task.key = keyfile[from].key
  BY <1>1 DEF Unused, Task, Kinds, Steps, Given
<1>3. Begin(t, task)
  BY DEF Import_key
<1> HIDE DEF task
<1> QED
  BY <1>1, <1>2, <1>3, BeginBegins

LEMMA BackupBegins ==
  ASSUME KeysTypeOK, NEW t \in Tasks, NEW p \in Places, Backup(t, p)
  PROVE  /\ tasks[t].kind = "unused"
         /\ \E pass \in {session[p], keyring[p], None} :
              Becomes(t, "backup", "open", p, pass, NoKey)
<1>1. PICK pass \in {session[p], keyring[p], None} :
        Begin(t, [Unused EXCEPT !.kind = "backup", !.pc = "open", !.place = p, !.pass = pass])
  BY DEF Backup
<1> DEFINE task == [Unused EXCEPT !.kind = "backup", !.pc = "open", !.place = p, !.pass = pass]
<1>2. pass \in Given
  BY DEF KeysTypeOK, Given
<1>3. /\ task \in Task /\ task.kind = "backup" /\ task.pc = "open" /\ task.place = p
      /\ task.pass = pass /\ task.key = NoKey
  BY <1>2, KeysNumbered DEF Unused, Task, Kinds, Steps, Given
<1>4. Begin(t, task)
  BY <1>1
<1> HIDE DEF task
<1>5. tasks[t].kind = "unused" /\ Becomes(t, "backup", "open", p, pass, NoKey)
  BY <1>3, <1>4, BeginBegins
<1> QED
  BY <1>5

\* A task that opens to wrap a key goes on with one, in a repository that is encrypted.
LEMMA OpenToWrapOpens ==
  ASSUME KeysTypeOK, TasksRun, NEW t \in Tasks, OpenToWrap(t)
  PROVE  \/ Stops(t)
         \/ \E key \in Keys \ {NoKey} :
              /\ Becomes(t, tasks[t].kind, "wrap", tasks[t].place, tasks[t].pass, key)
              /\ descriptor[tasks[t].place] = "encrypted"
<1> DEFINE p == tasks[t].place
           key == IF tasks[t].kind = "change" THEN LoadedKey(p, tasks[t].pass) ELSE tasks[t].key
           task == [tasks[t] EXCEPT !.pc = "wrap", !.key = key]
<1>1. CASE End(t)
  BY <1>1, EndStops
<1>2. CASE /\ Opens(p, tasks[t].pass) /\ descriptor[p] = "encrypted"
           /\ tasks' = [tasks EXCEPT ![t].pc = "wrap", ![t].key = key]
  <2>1. tasks[t] \in Task /\ TaskRuns(tasks[t]) /\ tasks[t].kind \in {"change", "import"}
    BY DEF KeysTypeOK, TasksRun, OpenToWrap, Wraps
  <2>2. p \in Places
    BY <2>1 DEF TaskRuns
  <2>3. key \in Keys /\ key # NoKey
    <3>1. keyfile[p].key \in Keys /\ tasks[t].key \in Keys
      BY <2>1, <2>2, KeyFiles DEF KeysTypeOK, Task
    <3> QED
      BY <1>2, <2>1, <2>2, <3>1 DEF TaskRuns, LoadedKey, Opens, Unlocks
  <2> HIDE DEF key
  <2>4. /\ task \in Task /\ task.kind = tasks[t].kind /\ task.pc = "wrap" /\ task.place = p
        /\ task.pass = tasks[t].pass /\ task.key = key
    BY <2>1, <2>3 DEF Task, Steps
  <2>5. tasks' = [tasks EXCEPT ![t] = task]
    BY <1>2 DEF KeysTypeOK
  <2> HIDE DEF task
  <2>6. Becomes(t, tasks[t].kind, "wrap", p, tasks[t].pass, key)
    BY <2>4, <2>5, Replaced
  <2> QED
    BY <1>2, <2>3, <2>6
<1> QED
  BY <1>1, <1>2 DEF OpenToWrap

\* A backup goes on with the key that its passphrase loads.
LEMMA OpenForBackupOpens ==
  ASSUME KeysTypeOK, TasksRun, NEW t \in Tasks, OpenForBackup(t)
  PROVE  \/ Stops(t)
         \/ LET p == tasks[t].place
                pass == tasks[t].pass
            IN  /\ Opens(p, pass)
                /\ \/ Becomes(t, "backup", "put", p, pass, LoadedKey(p, pass))
                      /\ (descriptor[p] = "plain" \/ pass # None)
                   \/ Becomes(t, "backup", "keyless", p, pass, NoKey)
<1> DEFINE p == tasks[t].place
           pass == tasks[t].pass
           key == LoadedKey(p, pass)
           pc == IF descriptor[p] = "encrypted" /\ pass = None THEN "keyless" ELSE "put"
           task == [tasks[t] EXCEPT !.pc = pc, !.key = key]
<1>1. CASE End(t)
  BY <1>1, EndStops
<1>2. CASE Opens(p, pass) /\ tasks' = [tasks EXCEPT ![t].pc = pc, ![t].key = key]
  <2>1. tasks[t] \in Task /\ TaskRuns(tasks[t]) /\ tasks[t].kind = "backup"
    BY DEF KeysTypeOK, TasksRun, OpenForBackup, At
  <2>2. p \in Places
    BY <2>1 DEF TaskRuns
  <2>3. key \in Keys /\ (pc = "keyless" => key = NoKey)
    BY <2>2, KeysNumbered, KeyFiles DEF LoadedKey, KeysTypeOK
  <2>4. /\ pc \in {"keyless", "put"}
        /\ pc = "put" => descriptor[p] = "plain" \/ pass # None
    BY <1>2 DEF Opens
  <2> HIDE DEF key, pc
  <2>5. /\ task \in Task /\ task.kind = "backup" /\ task.pc = pc /\ task.place = p
        /\ task.pass = pass /\ task.key = key
    BY <2>1, <2>3, <2>4 DEF Task, Steps
  <2>6. tasks' = [tasks EXCEPT ![t] = task]
    BY <1>2 DEF KeysTypeOK
  <2> HIDE DEF task
  <2>7. Becomes(t, "backup", pc, p, pass, key)
    BY <2>5, <2>6, Replaced
  <2>8. CASE pc = "put"
    BY <1>2, <2>4, <2>7, <2>8 DEF key
  <2>9. CASE pc = "keyless"
    BY <1>2, <2>3, <2>7, <2>9
  <2> QED
    BY <2>4, <2>8, <2>9
<1> QED
  BY <1>1, <1>2 DEF OpenForBackup

\* Who has a key to write goes on to fill the key file it has emptied.
LEMMA KeyFileOpened ==
  ASSUME KeysTypeOK, TasksRun, NEW t \in Tasks, OpenKeyFile(t)
  PROVE  /\ Moves(t, "fill") /\ Rekeys(t) /\ tasks[t].place \in Places
         /\ (Makes(t) /\ StepOf(t) = "key") \/ (Wraps(t) /\ StepOf(t) = "wrap")
         /\ OnlyFile(tasks[t].place) /\ keyfile'[tasks[t].place] = Unwritten
         /\ UNCHANGED <<descriptor, archives, session, keyring, history>>
<1>1. /\ (Makes(t) /\ StepOf(t) = "key") \/ (Wraps(t) /\ StepOf(t) = "wrap")
      /\ Rekeys(t)
  BY DEF OpenKeyFile, Makes, Wraps, Rekeys, StepOf, StepAt
<1>2. tasks[t].place \in Places
  BY <1>1 DEF TasksRun, TaskRuns, Rekeys, Makes, Wraps
<1> QED
  BY <1>1, <1>2, KeyTruncated, GotoMoves DEF OpenKeyFile, Steps

\* A task that fails ends, and leaves a file it was writing torn.
LEMMA FailedTask ==
  ASSUME KeysTypeOK, TasksRun, NEW t \in Tasks, Fails(t)
  PROVE  /\ Stops(t) /\ tasks[t].place \in Places
         /\ UNCHANGED <<archives, session, keyring, history>>
         /\ \/ UNCHANGED descriptor
            \/ Makes(t) /\ StepOf(t) = "describe" /\ Describes(tasks[t].place, "torn")
         /\ \/ UNCHANGED keyfile /\ tasks[t].pc # "fill"
            \/ /\ Rekeys(t) /\ StepOf(t) = "fill" /\ OnlyFile(tasks[t].place)
               /\ \/ keyfile'[tasks[t].place] = Torn
                  \/ keyfile[tasks[t].place] # Unwritten /\ UNCHANGED keyfile
<1>1. /\ tasks[t] \in Task /\ TaskRuns(tasks[t])
      /\ tasks[t].kind \notin {"unused", "ended"} /\ tasks[t].place \in Places
  BY DEF KeysTypeOK, TasksRun, TaskRuns, Fails
<1>2. tasks[t].pc = "fill" => Rekeys(t) /\ StepOf(t) = "fill"
  BY <1>1 DEF TaskRuns, Task, Kinds, Rekeys, Makes, Wraps, StepOf, StepAt
<1>3. tasks[t].pc = "describe" => Makes(t) /\ StepOf(t) = "describe"
  BY <1>1 DEF TaskRuns, Task, Kinds, Makes, StepOf, StepAt
<1>4. \/ UNCHANGED descriptor
      \/ tasks[t].pc = "describe" /\ Describes(tasks[t].place, "torn")
  BY <1>1 DEF Fails, Describes, KeysTypeOK
<1> QED
  BY <1>1, <1>2, <1>3, <1>4, EndStops, KeyTorn DEF Fails

\* The one who made a repository tells of it, or goes on to do so.
LEMMA ReportMade ==
  ASSUME KeysTypeOK, NEW t \in Tasks, tasks[t].place \in Places, NEW key \in Keys, Report_made(t, key)
  PROVE  /\ MadeWith(t, key)
         /\ \/ tasks[t].kind = "wizard" /\ Moves(t, "told") /\ Reports(t, history.reported[tasks[t].place])
            \/ tasks[t].kind # "wizard" /\ Stops(t) /\ Reports(t, tasks[t].pass)
<1>1. tasks[t].pass \in Given
  BY DEF KeysTypeOK, Task
<1>2. CASE tasks[t].kind = "wizard"
  <2>1. Moves(t, "told") /\ history' = [history EXCEPT !.made[tasks[t].place] = key]
    BY <1>2, GotoMoves DEF Report_made, Steps
  <2> QED
    BY <1>2, <2>1 DEF KeysTypeOK, Kept, Reports, MadeWith
<1>3. CASE tasks[t].kind # "wizard"
  <2>1. Stops(t) /\ history' = [history EXCEPT !.made[tasks[t].place] = key, !.reported[tasks[t].place] = tasks[t].pass]
    BY <1>3, EndStops DEF Report_made
  <2> QED
    BY <1>1, <1>3, <2>1 DEF KeysTypeOK, Kept, Reports, MadeWith
<1> QED
  BY <1>2, <1>3

\* A maker writes its own key, and has made the repository with it.
LEMMA KeyCreated ==
  ASSUME KeysTypeOK, TasksRun, NEW t \in Tasks, CreateKey(t)
  PROVE  /\ Makes(t) /\ Rekeys(t) /\ StepOf(t) = "fill" /\ tasks[t].place \in Places
         /\ tasks[t].pass \in Given /\ t \in Keys \ {NoKey}
         /\ UNCHANGED <<descriptor, archives, session, keyring>>
         /\ OnlyFile(tasks[t].place)
         /\ \/ keyfile'[tasks[t].place].key = t /\ keyfile'[tasks[t].place].pass = tasks[t].pass
            \/ keyfile'[tasks[t].place] = Torn /\ keyfile[tasks[t].place] # Unwritten
         /\ MadeWith(t, t)
         /\ \/ tasks[t].kind = "wizard" /\ Moves(t, "told") /\ Reports(t, history.reported[tasks[t].place])
            \/ tasks[t].kind # "wizard" /\ Stops(t) /\ Reports(t, tasks[t].pass)
<1>1. Makes(t) /\ Rekeys(t) /\ StepOf(t) = "fill"
  BY DEF CreateKey, Makes, Rekeys, StepOf, StepAt
<1>2. tasks[t].place \in Places
  BY <1>1 DEF TasksRun, TaskRuns, Makes
<1>3. tasks[t].pass \in Given /\ t \in Keys \ {NoKey}
  BY KeysNumbered DEF KeysTypeOK, Task
<1>4. /\ OnlyFile(tasks[t].place)
      /\ \/ keyfile'[tasks[t].place].key = t /\ keyfile'[tasks[t].place].pass = tasks[t].pass
         \/ keyfile'[tasks[t].place] = Torn /\ keyfile[tasks[t].place] # Unwritten
  BY <1>2, <1>3, KeyWritten DEF CreateKey
<1>5. /\ MadeWith(t, t)
      /\ \/ tasks[t].kind = "wizard" /\ Moves(t, "told") /\ Reports(t, history.reported[tasks[t].place])
         \/ tasks[t].kind # "wizard" /\ Stops(t) /\ Reports(t, tasks[t].pass)
  BY <1>2, <1>3, ReportMade DEF CreateKey
<1> QED
  BY <1>1, <1>2, <1>3, <1>4, <1>5 DEF CreateKey

\* Who describes a plain repository has made it; an encrypted one still needs a key.
LEMMA Described ==
  ASSUME KeysTypeOK, TasksRun, NEW t \in Tasks, Describe(t)
  PROVE  /\ Makes(t) /\ Rekeys(t) /\ StepOf(t) = "describe" /\ tasks[t].place \in Places
         /\ UNCHANGED <<keyfile, archives, session, keyring>>
         /\ \/ /\ tasks[t].pass = None /\ Describes(tasks[t].place, "plain") /\ MadeWith(t, NoKey)
               /\ \/ tasks[t].kind = "wizard" /\ Moves(t, "told") /\ Reports(t, history.reported[tasks[t].place])
                  \/ tasks[t].kind # "wizard" /\ Stops(t) /\ Reports(t, None)
            \/ /\ tasks[t].pass # None /\ Describes(tasks[t].place, "encrypted")
               /\ Moves(t, "key") /\ UNCHANGED history
<1>1. Makes(t) /\ Rekeys(t) /\ StepOf(t) = "describe"
  BY DEF Describe, Makes, Rekeys, StepOf, StepAt
<1>2. tasks[t].place \in Places
  BY <1>1 DEF TasksRun, TaskRuns, Makes
<1>3. CASE tasks[t].pass = None
  BY <1>1, <1>2, <1>3, ReportMade, DescriptorWritten, KeysNumbered DEF Describe
<1>4. CASE tasks[t].pass # None
  BY <1>1, <1>2, <1>4, GotoMoves, DescriptorWritten DEF Describe, Steps
<1> QED
  BY <1>3, <1>4

\* What is written with a wrapped key.
Rewraps(t) ==
  LET p == tasks[t].place
      made == history.made[p]
  IN  /\ history' \in Kept
      /\ Reports(t, tasks[t].new) \/ history'.upset = history.upset \cup {"foreign key"}
      /\ history'.reported[p] = tasks[t].new
      /\ \A q \in Places \ {p} : history'.reported[q] = history.reported[q]
      /\ MadeWith(t, IF made = NoKey THEN tasks[t].key ELSE made)
      /\ "foreign key" \notin history'.upset => made \in {NoKey, tasks[t].key}

LEMMA Wrapped ==
  ASSUME KeysTypeOK, TasksRun, NEW t \in Tasks, Wrap(t)
  PROVE  /\ Wraps(t) /\ Rekeys(t) /\ StepOf(t) = "fill" /\ tasks[t].place \in Places
         /\ tasks[t].new \in Given /\ tasks[t].key \in Keys \ {NoKey}
         /\ UNCHANGED <<descriptor, archives, session, keyring>> /\ Stops(t)
         /\ OnlyFile(tasks[t].place)
         /\ \/ keyfile'[tasks[t].place].key = tasks[t].key /\ keyfile'[tasks[t].place].pass = tasks[t].new
            \/ keyfile'[tasks[t].place] = Torn /\ keyfile[tasks[t].place] # Unwritten
         /\ Rewraps(t)
<1> DEFINE p == tasks[t].place
           made == history.made[p]
           reported == [history.reported EXCEPT ![p] = tasks[t].new]
           key == IF made = NoKey THEN tasks[t].key ELSE made
           makes == [history.made EXCEPT ![p] = key]
           upset == history.upset \cup (IF made \in {NoKey, tasks[t].key} THEN {} ELSE {"foreign key"})
<1>1. Wraps(t) /\ Rekeys(t) /\ StepOf(t) = "fill"
  BY DEF Wrap, WrapAs, Wraps, Rekeys, StepOf, StepAt
<1>2. p \in Places /\ tasks[t].new \in Given /\ tasks[t].key \in Keys \ {NoKey}
  <2>1. tasks[t] \in Task /\ TaskRuns(tasks[t])
    BY DEF KeysTypeOK, TasksRun
  <2> QED
    BY <1>1, <2>1 DEF TaskRuns, Task, Wraps, StepOf, StepAt
<1>3. /\ OnlyFile(p)
      /\ \/ keyfile'[p].key = tasks[t].key /\ keyfile'[p].pass = tasks[t].new
         \/ keyfile'[p] = Torn /\ keyfile[p] # Unwritten
  BY <1>2, KeyWritten DEF Wrap, WrapAs
<1>4. history' = [history EXCEPT !.reported = reported, !.made = makes, !.upset = upset]
  BY DEF Wrap, WrapAs, KeysTypeOK, Kept
<1>5. /\ reported \in [Places -> Given] /\ reported[p] = tasks[t].new
      /\ \A q \in Places \ {p} : reported[q] = history.reported[q]
  BY <1>2 DEF KeysTypeOK, Kept
<1>6. key \in Keys
  BY <1>2 DEF KeysTypeOK, Kept
<1>7. /\ makes \in [Places -> Keys] /\ makes[p] = key
      /\ \A q \in Places \ {p} : makes[q] = history.made[q]
  <2> HIDE DEF key
  <2> QED
    BY <1>2, <1>6 DEF KeysTypeOK, Kept
<1>8. /\ upset \in SUBSET Upsets
      /\ upset = history.upset \/ upset = history.upset \cup {"foreign key"}
      /\ "foreign key" \notin upset => made \in {NoKey, tasks[t].key}
  BY DEF KeysTypeOK, Kept, Upsets
<1> HIDE DEF reported, makes, upset
<1>9. /\ history' \in Kept /\ history'.reported = reported /\ history'.made = makes
      /\ history'.upset = upset
  BY <1>4, <1>5, <1>7, <1>8 DEF KeysTypeOK, Kept
<1>10. Rewraps(t)
  BY <1>5, <1>7, <1>8, <1>9 DEF Rewraps, Reports, MadeWith
<1> QED
  BY <1>1, <1>2, <1>3, <1>10, EndStops DEF Wrap, WrapAs

\* When one task changes, the others run as before.
LEMMA OneTaskRuns ==
  ASSUME TasksRun, NEW t \in Tasks, NEW kind, NEW pc, NEW place, NEW pass, NEW key,
         Becomes(t, kind, pc, place, pass, key), TaskRuns(tasks'[t])
  PROVE  TasksRun'
BY DEF TasksRun, Becomes

LEMMA StoppedRuns ==
  ASSUME TasksRun, NEW t \in Tasks, Stops(t)
  PROVE  TasksRun'
<1>1. TaskRuns(tasks'[t])
  BY DEF Stops, Becomes, TaskRuns, StepAt
<1> QED
  BY <1>1, OneTaskRuns DEF Stops

\* A step of a task lets it, and the others, be at steps of their kind.
LEMMA TasksRunStep ==
  ASSUME KeysTypeOK, TasksRun, [Next]_vars
  PROVE  tasks' \in [Tasks -> Task] /\ TasksRun'
<1>1. ASSUME NEW t \in Tasks, NEW p \in Places, NEW kind \in {"wizard", "init"},
             NEW pass \in Given, Make(t, kind, p, pass)
      PROVE  tasks' \in [Tasks -> Task] /\ TasksRun'
  <2>1. Becomes(t, kind, "check", p, pass, NoKey)
    BY <1>1, MakeBegins
  <2>2. TaskRuns(tasks'[t])
    BY ONLY <2>1, p \in Places, kind \in {"wizard", "init"} DEF Becomes, TaskRuns, StepAt
  <2> QED
    BY <2>1, <2>2, OneTaskRuns DEF Becomes
<1>2. ASSUME NEW t \in Tasks, NEW p \in Places, NEW old \in Passphrases, NEW new \in Passphrases,
             Change_passphrase(t, p, old, new)
      PROVE  tasks' \in [Tasks -> Task] /\ TasksRun'
  <2>1. old # None /\ Becomes(t, "change", "open", p, old, NoKey)
    BY <1>2, ChangeBegins
  <2>2. TaskRuns(tasks'[t])
    BY ONLY <2>1, p \in Places DEF Becomes, TaskRuns, StepAt
  <2> QED
    BY <2>1, <2>2, OneTaskRuns DEF Becomes
<1>3. ASSUME NEW t \in Tasks, NEW p \in Places, NEW from \in Places, NEW new \in Passphrases,
             Import_key(t, p, from, new)
      PROVE  tasks' \in [Tasks -> Task] /\ TasksRun'
  <2>1. keyfile[from].key # NoKey /\ Becomes(t, "import", "open", p, None, keyfile[from].key)
    BY <1>3, ImportBegins
  <2>2. TaskRuns(tasks'[t])
    BY ONLY <2>1, p \in Places DEF Becomes, TaskRuns, StepAt
  <2> QED
    BY <2>1, <2>2, OneTaskRuns DEF Becomes
<1>4. ASSUME NEW t \in Tasks, NEW p \in Places, Backup(t, p)
      PROVE  tasks' \in [Tasks -> Task] /\ TasksRun'
  <2>1. PICK pass \in {session[p], keyring[p], None} : Becomes(t, "backup", "open", p, pass, NoKey)
    BY <1>4, BackupBegins
  <2>2. TaskRuns(tasks'[t])
    BY ONLY <2>1, p \in Places DEF Becomes, TaskRuns, StepAt
  <2> QED
    BY <2>1, <2>2, OneTaskRuns DEF Becomes
<1>5. ASSUME NEW t \in Tasks, Stops(t)
      PROVE  tasks' \in [Tasks -> Task] /\ TasksRun'
  BY <1>5, StoppedRuns DEF Stops, Becomes
<1>6. ASSUME NEW t \in Tasks, NEW pc \in {"describe", "key", "fill", "told", "keep"}, Moves(t, pc), Makes(t),
             pc \in {"key", "fill"} => tasks[t].pass # None,
             pc \in {"told", "keep"} => tasks[t].kind = "wizard"
      PROVE  tasks' \in [Tasks -> Task] /\ TasksRun'
  <2>1. Becomes(t, tasks[t].kind, pc, tasks[t].place, tasks[t].pass, tasks[t].key)
    BY <1>6 DEF Moves
  <2>2. TaskRuns(tasks'[t])
    BY <1>6, <2>1 DEF Becomes, TasksRun, TaskRuns, StepAt, Makes
  <2> QED
    BY <2>1, <2>2, OneTaskRuns DEF Becomes
<1>7. ASSUME NEW t \in Tasks, CheckExists(t)
      PROVE  tasks' \in [Tasks -> Task] /\ TasksRun'
  <2>1. Makes(t) /\ (Stops(t) \/ Moves(t, "describe"))
    BY <1>7, EndStops, GotoMoves DEF CheckExists, Steps
  <2> QED
    BY <2>1, <1>5, <1>6
<1>8. ASSUME NEW t \in Tasks, Describe(t)
      PROVE  tasks' \in [Tasks -> Task] /\ TasksRun'
  BY <1>5, <1>6, <1>8, Described
<1>9. ASSUME NEW t \in Tasks, CreateKey(t)
      PROVE  tasks' \in [Tasks -> Task] /\ TasksRun'
  BY <1>5, <1>6, <1>9, KeyCreated
<1>10. ASSUME NEW t \in Tasks, Told(t)
       PROVE  tasks' \in [Tasks -> Task] /\ TasksRun'
  <2>1. tasks[t].kind = "wizard" /\ Moves(t, "keep")
    BY <1>10, GotoMoves DEF Told, At, Steps
  <2> QED
    BY <2>1, <1>6 DEF Makes
<1>11. ASSUME NEW t \in Tasks, Fails(t) \/ Add_bookmark(t) \/ Wrap(t) \/ Put_chunk(t)
       PROVE  tasks' \in [Tasks -> Task] /\ TasksRun'
  BY <1>11, <1>5, EndStops DEF Fails, Add_bookmark, Wrap, WrapAs, Put_chunk
<1>12. ASSUME NEW t \in Tasks, OpenToWrap(t)
       PROVE  tasks' \in [Tasks -> Task] /\ TasksRun'
  <2>1. CASE Stops(t)
    BY <2>1, <1>5
  <2>2. CASE \E key \in Keys \ {NoKey} :
               Becomes(t, tasks[t].kind, "wrap", tasks[t].place, tasks[t].pass, key)
    <3>1. PICK key \in Keys \ {NoKey} :
            Becomes(t, tasks[t].kind, "wrap", tasks[t].place, tasks[t].pass, key)
      BY <2>2
    <3>2. tasks[t].kind \in {"change", "import"} /\ TaskRuns(tasks[t])
      BY <1>12 DEF OpenToWrap, Wraps, TasksRun
    <3>3. TaskRuns(tasks'[t])
      BY ONLY <3>1, <3>2 DEF Becomes, TaskRuns, StepAt
    <3> QED
      BY <3>1, <3>3, OneTaskRuns DEF Becomes
  <2> QED
    BY <1>12, <2>1, <2>2, OpenToWrapOpens
<1>13. ASSUME NEW t \in Tasks, OpenForBackup(t)
       PROVE  tasks' \in [Tasks -> Task] /\ TasksRun'
  <2> DEFINE p == tasks[t].place
  <2>1. CASE Stops(t)
    BY <2>1, <1>5
  <2>2. ASSUME NEW pc \in {"put", "keyless"}, NEW key, Becomes(t, "backup", pc, p, tasks[t].pass, key)
        PROVE  tasks' \in [Tasks -> Task] /\ TasksRun'
    <3>1. tasks[t].kind = "backup" /\ TaskRuns(tasks[t])
      BY <1>13 DEF OpenForBackup, At, TasksRun
    <3>2. TaskRuns(tasks'[t])
      BY ONLY <2>2, <3>1 DEF Becomes, TaskRuns, StepAt
    <3> QED
      BY <2>2, <3>2, OneTaskRuns DEF Becomes
  <2> QED
    BY <1>13, <2>1, <2>2, OpenForBackupOpens
<1>14. ASSUME Crash
       PROVE  tasks' \in [Tasks -> Task] /\ TasksRun'
  <2>1. \A t \in Tasks : tasks'[t] = IF tasks[t].kind = "wizard" THEN Ended ELSE tasks[t]
    BY <1>14 DEF Crash
  <2>2. Ended \in Task /\ Ended.kind = "ended"
    BY KeysNumbered DEF Ended, Unused, Task, Kinds, Steps, Given
  <2>3. TaskRuns(Ended)
    BY ONLY <2>2 DEF TaskRuns, StepAt
  <2>4. TasksRun'
    BY <2>1, <2>3 DEF TasksRun
  <2>5. tasks' \in [Tasks -> Task]
    BY <1>14, <2>2 DEF Crash, KeysTypeOK
  <2> QED
    BY <2>4, <2>5
<1>15. ASSUME NEW t \in Tasks, OpenKeyFile(t)
       PROVE  tasks' \in [Tasks -> Task] /\ TasksRun'
  <2>1. /\ Becomes(t, tasks[t].kind, "fill", tasks[t].place, tasks[t].pass, tasks[t].key)
        /\ (Makes(t) /\ StepOf(t) = "key") \/ (Wraps(t) /\ StepOf(t) = "wrap")
        /\ TaskRuns(tasks[t])
    BY <1>15, KeyFileOpened DEF Moves, TasksRun
  <2>2. TaskRuns(tasks'[t])
    BY ONLY <2>1 DEF Becomes, TaskRuns, StepOf, StepAt, Makes, Wraps
  <2> QED
    BY <2>1, <2>2, OneTaskRuns DEF Becomes
<1>16. CASE UNCHANGED tasks
  BY <1>16 DEF KeysTypeOK, TasksRun
<1> QED
  BY <1>1, <1>2, <1>3, <1>4, <1>7, <1>8, <1>9, <1>10, <1>11, <1>12, <1>13, <1>14, <1>15, <1>16
     DEF Next, MakeStep, KeyStep, BackupStep, Select, Given, vars

\* And what it writes keeps its type.
LEMMA TypedStep ==
  ASSUME KeysTypeOK, TasksRun, [Next]_vars
  PROVE  KeysTypeOK'
<1>0. tasks' \in [Tasks -> Task] /\ \A t \in Tasks : tasks[t] \in Task /\ TaskRuns(tasks[t])
  BY TasksRunStep DEF KeysTypeOK, TasksRun
<1>1. ASSUME NEW p \in Places, NEW makes \in BOOLEAN, Note(p, makes),
             UNCHANGED <<descriptor, keyfile, archives, session, keyring>>
      PROVE  KeysTypeOK'
  BY <1>0, <1>1, NoteTyped DEF KeysTypeOK
<1>2. ASSUME NEW t \in Tasks, Fails(t) \/ OpenKeyFile(t)
      PROVE  KeysTypeOK'
  BY <1>0, <1>2, FailedTask, KeyFileOpened DEF KeysTypeOK, OnlyFile, Describes
<1>4. ASSUME NEW t \in Tasks, Describe(t)
      PROVE  KeysTypeOK'
  BY <1>0, <1>4, Described DEF KeysTypeOK, Describes, Reports
<1>5. ASSUME NEW t \in Tasks, CreateKey(t)
      PROVE  KeysTypeOK'
  BY <1>0, <1>5, KeyCreated DEF KeysTypeOK, OnlyFile, Reports
<1>6. ASSUME NEW t \in Tasks, Told(t)
      PROVE  KeysTypeOK'
  <2>1. tasks[t].place \in Places /\ tasks[t].pass \in Given
    BY <1>0, <1>6 DEF Told, At, TaskRuns, Task
  <2> QED
    BY <1>0, <1>6, <2>1, ReportTyped DEF Told, KeysTypeOK, Reports
<1>7. ASSUME NEW t \in Tasks, Add_bookmark(t)
      PROVE  KeysTypeOK'
  <2>1. tasks[t].place \in Places /\ tasks[t].pass \in Given
    BY <1>0, <1>7 DEF Add_bookmark, At, TaskRuns, Task
  <2>2. session' \in [Places -> Given] /\ keyring' \in [Places -> Given]
    BY <1>7, <2>1 DEF Add_bookmark, KeysTypeOK
  <2> QED
    BY <1>0, <1>7, <2>2 DEF Add_bookmark, KeysTypeOK
<1>8. ASSUME NEW t \in Tasks, Wrap(t)
      PROVE  KeysTypeOK'
  BY <1>0, <1>8, Wrapped DEF KeysTypeOK, OnlyFile, Rewraps
<1>9. ASSUME NEW t \in Tasks, Put_chunk(t)
      PROVE  KeysTypeOK'
  <2>1. tasks[t].key \in Keys
    BY <1>0 DEF Task
  <2>2. archives' \in [Places -> SUBSET Keys]
    BY <1>9, <2>1 DEF Put_chunk, KeysTypeOK
  <2> QED
    BY <1>0, <1>9, <2>2 DEF Put_chunk, KeysTypeOK
<1>10. ASSUME NEW p \in Places, Select(p)
       PROVE  KeysTypeOK'
  BY <1>0, <1>10 DEF Select, KeysTypeOK
<1>11. ASSUME Crash
       PROVE  KeysTypeOK'
  <2>1. history' \in Kept
    BY <1>11 DEF Crash, KeysTypeOK, Kept
  <2>2. session' \in [Places -> Given]
    BY <1>11 DEF Crash, Given
  <2> QED
    BY <1>0, <1>11, <2>1, <2>2 DEF Crash, KeysTypeOK
<1>12. CASE UNCHANGED <<descriptor, keyfile, archives, session, keyring, history>>
  BY <1>0, <1>12 DEF KeysTypeOK
<1>13. ASSUME NEW t \in Tasks, NEW p \in Places, Backup(t, p)
       PROVE  KeysTypeOK'
  BY <1>12, <1>13 DEF Backup
<1>14. ASSUME NEW t \in Tasks, CheckExists(t) \/ OpenToWrap(t) \/ OpenForBackup(t)
       PROVE  KeysTypeOK'
  BY <1>12, <1>14 DEF CheckExists, OpenToWrap, OpenForBackup
<1>15. CASE UNCHANGED vars
  BY <1>12, <1>15 DEF vars
<1> QED
  BY <1>1, <1>2, <1>4, <1>5, <1>6, <1>7, <1>8, <1>9, <1>10, <1>11, <1>13, <1>14, <1>15
     DEF Next, MakeStep, KeyStep, BackupStep, Make, Change_passphrase, Import_key

\* What each task keeps to, and the types of all there is, for every number of places,
\* passphrases and tasks.
THEOREM KeysTypeCorrect == Spec => [](KeysTypeOK /\ TasksRun)
<1>1. Init => KeysTypeOK /\ TasksRun
  <2> SUFFICES ASSUME Init PROVE KeysTypeOK /\ TasksRun
    OBVIOUS
  <2>1. PICK pass \in Passphrases :
          /\ keyfile = [p \in Places |-> IF p = First THEN [key |-> FirstKey, pass |-> pass] ELSE Unwritten]
          /\ keyring = [p \in Places |-> IF p = First THEN pass ELSE None]
          /\ history = [reported |-> [p \in Places |-> IF p = First THEN pass ELSE None],
                        made |-> [p \in Places |-> IF p = First THEN FirstKey ELSE NoKey],
                        upset |-> {}, crashes |-> 0]
    BY DEF Init
  <2>2. FirstKey \in Keys \ {NoKey} /\ NoKey \in Keys
    BY KeysNumbered, KeysAssumption DEF FirstKey, Keys, NoKey
  <2>3. /\ Unused \in Task /\ Unused.kind = "unused"
    BY KeysNumbered DEF Unused, Task, Kinds, Steps, Given
  <2>4. TaskRuns(Unused)
    BY ONLY <2>3 DEF TaskRuns, StepAt
  <2>5. TasksRun /\ tasks \in [Tasks -> Task]
    BY <2>3, <2>4 DEF Init, TasksRun
  <2>6. keyfile \in [Places -> KeyFile]
    <3>1. [key |-> FirstKey, pass |-> pass] \in KeyFile /\ Unwritten \in KeyFile
      BY <2>2, KeyFiles DEF Given
    <3> QED
      BY <2>1, <3>1
  <2>7. history \in Kept
    BY <2>1, <2>2 DEF Kept, Given
  <2>8. /\ descriptor \in [Places -> {"none", "torn", "plain", "encrypted"}]
        /\ archives \in [Places -> SUBSET Keys]
        /\ session \in [Places -> Given] /\ keyring \in [Places -> Given]
    BY <2>1 DEF Init, Given
  <2> QED
    BY <2>5, <2>6, <2>7, <2>8 DEF KeysTypeOK
<1>2. (KeysTypeOK /\ TasksRun) /\ [Next]_vars => (KeysTypeOK /\ TasksRun)'
  BY TasksRunStep, TypedStep
<1> QED
  BY <1>1, <1>2, PTL DEF Spec

-------------------------------------------------------------------------------
(***************************************************************************)
(* The descriptor comes first                                              *)
(***************************************************************************)

\* One task's step leaves DescribedFirst, when the repositories' files and the
\* passwords stay.
LEMMA DescribedByTask ==
  ASSUME DescribedFirst, NEW t \in Tasks,
         NEW kind, NEW pc, NEW p, NEW pass, NEW key, Becomes(t, kind, pc, p, pass, key),
         UNCHANGED <<descriptor, keyfile, archives, session, keyring>>,
         \/ kind = "ended" \/ descriptor[p] # "none"
         \/ pc \notin Late /\ (kind = "backup" => pass = None)
  PROVE  DescribedFirst'
<1>1. ASSUME NEW q \in Places, descriptor'[q] = "none"
      PROVE  Blank(q)'
  <2>1. descriptor[q] = "none" /\ Blank(q)
    BY <1>1 DEF DescribedFirst
  <2>2. ASSUME NEW u \in Tasks, tasks'[u].kind = "backup", tasks'[u].place = q
        PROVE  tasks'[u].pass = None
    BY <2>1, <2>2 DEF Becomes, Blank
  <2> QED
    BY <2>1, <2>2 DEF Blank
<1>2. ASSUME NEW u \in Tasks, StepOf(u)' \in Late
      PROVE  descriptor'[tasks'[u].place] # "none"
  BY <1>2 DEF DescribedFirst, Becomes, StepOf, StepAt, Late
<1> QED
  BY <1>1, <1>2 DEF DescribedFirst

\* Who has made a repository goes on at a place that has its descriptor.
LEMMA DescribedByMaker ==
  ASSUME DescribedFirst, NEW t \in Tasks,
         Stops(t) \/ Moves(t, "told") \/ Moves(t, "key") \/ Moves(t, "fill"),
         \A p \in Places : descriptor'[p] = "none" => descriptor[p] = "none" /\ p # tasks[t].place,
         \A p \in Places \ {tasks[t].place} : keyfile'[p] = keyfile[p],
         \A u \in Tasks : StepOf(u) \in Late => tasks[u].place \in Places,
         tasks[t].place \in Places, tasks[t].kind # "backup",
         UNCHANGED <<archives, session, keyring>>
  PROVE  DescribedFirst'
<1>1. ASSUME NEW q \in Places, descriptor'[q] = "none"
      PROVE  Blank(q)'
  <2>1. descriptor[q] = "none" /\ Blank(q) /\ keyfile'[q] = keyfile[q]
    BY <1>1 DEF DescribedFirst
  <2>2. ASSUME NEW u \in Tasks, tasks'[u].kind = "backup", tasks'[u].place = q
        PROVE  tasks'[u].pass = None
    BY <2>1, <2>2 DEF Moves, Stops, Becomes, Blank
  <2> QED
    BY <2>1, <2>2 DEF Blank
<1>2. ASSUME NEW u \in Tasks \ {t}, StepOf(u)' \in Late
      PROVE  descriptor'[tasks'[u].place] # "none"
  BY <1>2 DEF DescribedFirst, Moves, Stops, Becomes, StepOf, StepAt
<1>3. ASSUME StepOf(t)' \in Late
      PROVE  descriptor'[tasks'[t].place] # "none"
  BY <1>3 DEF Moves, Stops, Becomes, StepOf, StepAt, Late
<1> QED
  BY <1>1, <1>2, <1>3 DEF DescribedFirst

LEMMA DescribedStep ==
  ASSUME KeysTypeOK, TasksRun, DescribedFirst, [Next]_vars
  PROVE  DescribedFirst'
<1>0. /\ \A t \in Tasks : tasks[t] \in Task /\ TaskRuns(tasks[t])
      /\ \A u \in Tasks : StepOf(u) \in Late => tasks[u].place \in Places
  BY DEF KeysTypeOK, TasksRun, TaskRuns, StepOf, StepAt, Late
<1>1. ASSUME NEW t \in Tasks, NEW p \in Places, NEW kind \in {"wizard", "init"},
             NEW pass \in Given, Make(t, kind, p, pass)
      PROVE  DescribedFirst'
  <2>1. Becomes(t, kind, "check", p, pass, NoKey)
    BY <1>1, MakeBegins
  <2> QED
    BY <1>1, <2>1, DescribedByTask DEF Make, Late
<1>2. ASSUME NEW t \in Tasks, NEW p \in Places, NEW old \in Passphrases, NEW new \in Passphrases,
             Change_passphrase(t, p, old, new)
      PROVE  DescribedFirst'
  <2>1. Becomes(t, "change", "open", p, old, NoKey)
    BY <1>2, ChangeBegins
  <2> QED
    BY <1>2, <2>1, DescribedByTask DEF Change_passphrase, Late
<1>3. ASSUME NEW t \in Tasks, NEW p \in Places, NEW from \in Places, NEW new \in Passphrases,
             Import_key(t, p, from, new)
      PROVE  DescribedFirst'
  <2>1. Becomes(t, "import", "open", p, None, keyfile[from].key)
    BY <1>3, ImportBegins
  <2> QED
    BY <1>3, <2>1, DescribedByTask DEF Import_key, Late
<1>4. ASSUME NEW t \in Tasks, NEW p \in Places, Backup(t, p)
      PROVE  DescribedFirst'
  <2>1. PICK pass \in {session[p], keyring[p], None} : Becomes(t, "backup", "open", p, pass, NoKey)
    BY <1>4, BackupBegins
  <2>2. descriptor[p] # "none" \/ pass = None
    BY DEF DescribedFirst, Blank
  <2> QED
    BY <1>4, <2>1, <2>2, DescribedByTask DEF Backup, Late
<1>5. ASSUME NEW t \in Tasks, CheckExists(t)
      PROVE  DescribedFirst'
  <2>1. /\ Stops(t) \/ Moves(t, "describe")
        /\ tasks[t].kind # "backup"
    BY <1>5, EndStops, GotoMoves DEF CheckExists, Steps, Makes
  <2> QED
    BY <1>5, <2>1, DescribedByTask DEF CheckExists, Stops, Moves, Late
<1>6. ASSUME NEW t \in Tasks, Fails(t)
      PROVE  DescribedFirst'
  <2>1. Stops(t) /\ tasks[t].place \in Places /\ UNCHANGED <<archives, session, keyring>>
    BY <1>6, FailedTask
  <2>2. ASSUME tasks[t].kind # "backup", tasks[t].pc \in {"describe", "fill"}
        PROVE  DescribedFirst'
    <3>1. \A p \in Places \ {tasks[t].place} : keyfile'[p] = keyfile[p]
      BY <1>6, FailedTask DEF OnlyFile
    <3>2. \/ Describes(tasks[t].place, "torn")
          \/ UNCHANGED <<descriptor, keyfile>>
          \/ UNCHANGED descriptor /\ StepOf(t) = "fill"
      BY <1>6, <2>2, FailedTask
    <3>3. CASE UNCHANGED <<descriptor, keyfile>>
      BY <2>1, <3>3, DescribedByTask DEF Stops
    <3>4. CASE Describes(tasks[t].place, "torn")
      <4>1. \A p \in Places : descriptor'[p] = "none" => descriptor[p] = "none" /\ p # tasks[t].place
        BY <2>1, <3>4 DEF Describes
      <4> QED
        BY <1>0, <2>1, <2>2, <3>1, <4>1, DescribedByMaker
    <3>5. CASE UNCHANGED descriptor /\ StepOf(t) = "fill"
      <4>1. \A p \in Places : descriptor'[p] = "none" => descriptor[p] = "none" /\ p # tasks[t].place
        BY <2>1, <3>5 DEF DescribedFirst, Late
      <4> QED
        BY <1>0, <2>1, <2>2, <3>1, <4>1, DescribedByMaker
    <3> QED
      BY <3>2, <3>3, <3>4, <3>5
  <2>3. \/ tasks[t].kind # "backup" /\ tasks[t].pc \in {"describe", "fill"}
        \/ UNCHANGED <<descriptor, keyfile>>
    BY <1>6, FailedTask DEF StepOf, StepAt, Makes, Rekeys, Wraps
  <2>4. CASE UNCHANGED <<descriptor, keyfile>>
    BY <2>1, <2>4, DescribedByTask DEF Stops
  <2> QED
    BY <2>2, <2>3, <2>4
<1>7. ASSUME NEW t \in Tasks, Describe(t)
      PROVE  DescribedFirst'
  <2>1. /\ tasks[t].place \in Places /\ tasks[t].kind # "backup"
        /\ UNCHANGED <<keyfile, archives, session, keyring>>
        /\ Stops(t) \/ Moves(t, "told") \/ Moves(t, "key")
    BY <1>7, Described DEF Makes
  <2>2. \A p \in Places : descriptor'[p] = "none" => descriptor[p] = "none" /\ p # tasks[t].place
    BY <1>7, Described DEF Describes
  <2> QED
    BY <1>0, <2>1, <2>2, DescribedByMaker
<1>8. ASSUME NEW t \in Tasks, CreateKey(t) \/ Wrap(t) \/ OpenKeyFile(t)
      PROVE  DescribedFirst'
  <2>1. /\ tasks[t].place \in Places /\ StepOf(t) \in Late /\ Rekeys(t)
        /\ UNCHANGED <<descriptor, archives, session, keyring>>
        /\ Stops(t) \/ Moves(t, "told") \/ Moves(t, "fill")
        /\ OnlyFile(tasks[t].place)
    BY <1>8, KeyCreated, Wrapped, KeyFileOpened DEF Late
  <2>2. descriptor[tasks[t].place] # "none" /\ tasks[t].kind # "backup"
    BY <2>1 DEF DescribedFirst, Rekeys, Makes, Wraps
  <2>3. \A p \in Places \ {tasks[t].place} : keyfile'[p] = keyfile[p]
    BY <2>1 DEF OnlyFile
  <2> QED
    BY <1>0, <2>1, <2>2, <2>3, DescribedByMaker
<1>9. ASSUME NEW t \in Tasks, Told(t)
      PROVE  DescribedFirst'
  <2>1. Moves(t, "keep")
    BY <1>9, GotoMoves DEF Told, Steps
  <2>2. descriptor[tasks[t].place] # "none"
    BY <1>9 DEF Told, At, DescribedFirst, StepOf, StepAt, Late
  <2> QED
    BY <1>9, <2>1, <2>2, DescribedByTask DEF Told, Moves
<1>10. ASSUME NEW t \in Tasks, Add_bookmark(t)
       PROVE  DescribedFirst'
  <2>1. Stops(t) /\ tasks[t].place \in Places
    BY <1>0, <1>10, EndStops DEF Add_bookmark, At, TaskRuns
  <2>2. descriptor[tasks[t].place] # "none"
    BY <1>10 DEF Add_bookmark, At, DescribedFirst, StepOf, StepAt, Late
  <2>3. \A p \in Places \ {tasks[t].place} : session'[p] = session[p] /\ keyring'[p] = keyring[p]
    BY <1>10 DEF Add_bookmark, KeysTypeOK
  <2>4. \A p \in Places : Blank(p) /\ p # tasks[t].place => Blank(p)'
    BY <1>10, <2>1, <2>3 DEF Add_bookmark, Blank, Stops, Becomes
  <2>5. \A u \in Tasks : StepOf(u)' \in Late =>
                           tasks'[u] = tasks[u]
    BY <2>1 DEF Stops, Becomes, StepOf, StepAt, Late
  <2> QED
    BY <1>10, <2>2, <2>4, <2>5 DEF Add_bookmark, DescribedFirst, StepOf
<1>11. ASSUME NEW t \in Tasks, OpenToWrap(t)
       PROVE  DescribedFirst'
  <2>1. UNCHANGED <<descriptor, keyfile, archives, session, keyring>>
    BY <1>11 DEF OpenToWrap
  <2>2. CASE Stops(t)
    BY <2>1, <2>2, DescribedByTask DEF Stops
  <2>3. CASE \E key \in Keys \ {NoKey} :
               /\ Becomes(t, tasks[t].kind, "wrap", tasks[t].place, tasks[t].pass, key)
               /\ descriptor[tasks[t].place] = "encrypted"
    BY <2>1, <2>3, DescribedByTask
  <2> QED
    BY <1>11, <2>2, <2>3, OpenToWrapOpens
<1>13. ASSUME NEW t \in Tasks, OpenForBackup(t)
       PROVE  DescribedFirst'
  <2> DEFINE p == tasks[t].place
  <2>1. UNCHANGED <<descriptor, keyfile, archives, session, keyring>>
    BY <1>13 DEF OpenForBackup
  <2>2. CASE Stops(t)
    BY <2>1, <2>2, DescribedByTask DEF Stops
  <2>3. ASSUME NEW pc, NEW key, Opens(p, tasks[t].pass), Becomes(t, "backup", pc, p, tasks[t].pass, key)
        PROVE  DescribedFirst'
    <3>1. descriptor[p] # "none"
      BY <2>3 DEF Opens
    <3> QED
      BY <2>1, <2>3, <3>1, DescribedByTask
  <2> QED
    BY <1>13, <2>2, <2>3, OpenForBackupOpens
<1>14. ASSUME NEW t \in Tasks, Put_chunk(t)
       PROVE  DescribedFirst'
  <2>1. Stops(t)
    BY <1>14, EndStops DEF Put_chunk
  <2>2. descriptor[tasks[t].place] # "none"
    BY <1>14 DEF Put_chunk, At, DescribedFirst, StepOf, StepAt, Late
  <2>3. \A p \in Places \ {tasks[t].place} : archives'[p] = archives[p]
    BY <1>14 DEF Put_chunk, KeysTypeOK
  <2>4. \A p \in Places : Blank(p) /\ p # tasks[t].place => Blank(p)'
    BY <1>14, <2>1, <2>3 DEF Put_chunk, Blank, Stops, Becomes
  <2>5. \A u \in Tasks : StepOf(u)' \in Late =>
                           tasks'[u] = tasks[u]
    BY <2>1 DEF Stops, Becomes, StepOf, StepAt, Late
  <2> QED
    BY <1>14, <2>2, <2>4, <2>5 DEF Put_chunk, DescribedFirst, StepOf
<1>15. ASSUME NEW q \in Places, Select(q)
       PROVE  DescribedFirst'
  <2>1. \A p \in Places : Blank(p) => Blank(p)'
    BY <1>15 DEF Select, Blank, KeysTypeOK
  <2> QED
    BY <1>15, <2>1 DEF Select, DescribedFirst, StepOf
<1>16. ASSUME Crash
       PROVE  DescribedFirst'
  <2>1. \A u \in Tasks : tasks'[u] = tasks[u] \/ tasks'[u].kind = "ended"
    BY <1>16 DEF Crash, Ended, Unused
  <2>2. \A p \in Places : Blank(p) => Blank(p)'
    BY <1>16, <2>1 DEF Crash, Blank
  <2> QED
    BY <1>16, <2>1, <2>2 DEF Crash, DescribedFirst, StepOf, StepAt, Late
<1>17. CASE UNCHANGED vars
  BY <1>17 DEF vars, DescribedFirst, Blank, StepOf, StepAt
<1> QED
  BY <1>1, <1>2, <1>3, <1>4, <1>5, <1>6, <1>7, <1>8, <1>9, <1>10, <1>11, <1>13, <1>14, <1>15, <1>16, <1>17
     DEF Next, MakeStep, KeyStep, BackupStep, Given

\* Nothing is reported of a place before it has its descriptor.
LEMMA NothingStep ==
  ASSUME KeysTypeOK, TasksRun, DescribedFirst, NothingReported, [Next]_vars
  PROVE  NothingReported'
<1>1. \A p \in Places : descriptor'[p] = "none" => descriptor[p] = "none"
  <2>1. ASSUME NEW t \in Tasks, Describe(t) \/ Fails(t)
        PROVE  \A p \in Places : descriptor'[p] = "none" => descriptor[p] = "none"
    BY <2>1, Described, FailedTask DEF Describes
  <2>2. \/ UNCHANGED descriptor
        \/ \E t \in Tasks : Describe(t) \/ Fails(t)
    BY DEF Next, Make, Change_passphrase, Import_key, Backup, MakeStep, CheckExists, CreateKey, Told,
           Add_bookmark, OpenKeyFile, KeyStep, OpenToWrap, Wrap, WrapAs, BackupStep, OpenForBackup,
           Put_chunk, Select, Crash, vars
  <2> QED
    BY <2>1, <2>2
<1>2. ASSUME NEW t \in Tasks, NEW p \in Places, history'.reported[p] # history.reported[p],
             Describe(t) \/ CreateKey(t) \/ Told(t) \/ Wrap(t)
      PROVE  descriptor'[p] # "none"
  <2>1. CASE Describe(t)
    BY <1>2, <2>1, Described DEF Describes, Reports
  <2>2. CASE CreateKey(t) \/ Wrap(t)
    <3>1. StepOf(t) = "fill" /\ tasks[t].place = p /\ UNCHANGED descriptor
      BY <1>2, <2>2, KeyCreated, Wrapped DEF Reports, Rewraps
    <3> QED
      BY <3>1 DEF DescribedFirst, Late
  <2>3. CASE Told(t)
    <3>1. StepOf(t) = "told" /\ UNCHANGED descriptor
      BY <2>3 DEF Told, At, StepOf, StepAt
    <3>2. tasks[t].place = p
      BY <1>2, <2>3 DEF Told, Report, KeysTypeOK, Kept
    <3> QED
      BY <3>1, <3>2 DEF DescribedFirst, Late
  <2> QED
    BY <1>2, <2>1, <2>2, <2>3
<1>3. \/ history'.reported = history.reported
      \/ \E t \in Tasks : Describe(t) \/ CreateKey(t) \/ Told(t) \/ Wrap(t)
  <2>1. ASSUME NEW p \in Places, NEW makes \in BOOLEAN, Note(p, makes)
        PROVE  history'.reported = history.reported
    BY <2>1, NoteTyped
  <2>2. CASE Crash
    BY <2>2 DEF Crash, KeysTypeOK, Kept
  <2> QED
    BY <2>1, <2>2
       DEF Next, Make, Change_passphrase, Import_key, Backup, MakeStep, CheckExists,
           Add_bookmark, OpenKeyFile, KeyStep, OpenToWrap, BackupStep, OpenForBackup,
           Put_chunk, Fails, Select, vars
<1>4. ASSUME NEW p \in Places, descriptor'[p] = "none"
      PROVE  history'.reported[p] = None
  BY <1>1, <1>2, <1>3, <1>4 DEF NothingReported
<1> QED
  BY <1>4 DEF NothingReported

-------------------------------------------------------------------------------
(***************************************************************************)
(* Who makes a repository is alone                                         *)
(***************************************************************************)

\* Which step is whose.
LEMMA StepsOfKinds ==
  ASSUME KeysTypeOK, TasksRun, NEW t \in Tasks
  PROVE  /\ Makes(t) => tasks[t].kind \notin {"unused", "ended", "backup", "change", "import"}
         /\ StepOf(t) \in {"describe", "key", "told", "keep"} => Makes(t)
         /\ StepOf(t) = "wrap" => Wraps(t)
         /\ StepOf(t) = "fill" => Rekeys(t)
         /\ StepOf(t) \in {"put", "keyless"} => tasks[t].kind = "backup"
         /\ Rekeys(t) \/ tasks[t].kind = "backup" => tasks[t].place \in Places
         /\ StepOf(t) \in Late \cup {"describe"} => tasks[t].place \in Places
<1>1. tasks[t] \in Task /\ TaskRuns(tasks[t])
  BY DEF KeysTypeOK, TasksRun
<1>2. tasks[t].kind \in Kinds
  BY <1>1 DEF Task
<1> QED
  BY <1>1, <1>2 DEF TaskRuns, Kinds, Makes, Wraps, Rekeys, StepOf, StepAt, Late

\* What has upset a repository is not forgotten.
LEMMA UpsetStays ==
  ASSUME KeysTypeOK, TasksRun, [Next]_vars
  PROVE  history.upset \subseteq history'.upset
<1>1. ASSUME NEW t \in Tasks, Told(t)
      PROVE  history'.upset = history.upset
  BY <1>1 DEF Told, Report, KeysTypeOK, Kept
<1>2. ASSUME NEW t \in Tasks, Describe(t) \/ CreateKey(t)
      PROVE  history'.upset = history.upset
  BY <1>2, Described, KeyCreated DEF Reports
<1>3. ASSUME NEW p \in Places, NEW makes \in BOOLEAN, Note(p, makes)
      PROVE  history.upset \subseteq history'.upset
  BY <1>3, NoteTyped
<1>4. ASSUME NEW t \in Tasks, Wrap(t)
      PROVE  history.upset \subseteq history'.upset
  BY <1>4, Wrapped DEF Rewraps, Reports
<1>5. ASSUME NEW t \in Tasks, MakeStep(t)
      PROVE  history'.upset = history.upset
  BY <1>1, <1>2, <1>5 DEF MakeStep, CheckExists, Add_bookmark
<1>6. ASSUME NEW t \in Tasks, OpenToWrap(t) \/ BackupStep(t) \/ OpenKeyFile(t) \/ Fails(t)
      PROVE  history'.upset = history.upset
  BY <1>6 DEF OpenToWrap, BackupStep, OpenForBackup, Put_chunk, OpenKeyFile, Fails
<1>7. CASE Crash
  BY <1>7 DEF Crash, KeysTypeOK, Kept
<1> QED
  BY <1>3, <1>4, <1>5, <1>6, <1>7
     DEF Next, KeyStep, Make, Change_passphrase, Import_key, Backup, Select, vars

\* One task's step leaves MakersAlone, when the descriptors stay.
LEMMA AloneByTask ==
  ASSUME MakersAlone, Calm("two makers")' => Calm("two makers"), UNCHANGED descriptor,
         NEW t \in Tasks, NEW kind, NEW pc, NEW p, NEW pass, NEW key,
         Becomes(t, kind, pc, p, pass, key),
         \/ kind = "ended"
         \/ /\ kind \in {"wizard", "init"} => Makes(t) /\ tasks[t].place = p
            /\ pc = "describe" => descriptor[p] = "none"
            /\ pc \in {"key", "wrap", "fill"} => descriptor[p] = "encrypted"
  PROVE  MakersAlone'
<1> SUFFICES ASSUME Calm("two makers")'
             PROVE  MakersAlone'
  BY DEF MakersAlone
<1>1. ASSUME NEW u \in Tasks, NEW w \in Tasks, Makes(u)', Makes(w)', tasks'[u].place = tasks'[w].place
      PROVE  u = w
  <2>1. \A v \in Tasks : Makes(v)' => Makes(v) /\ tasks'[v].place = tasks[v].place
    BY DEF Becomes, Makes
  <2> QED
    BY <1>1, <2>1 DEF MakersAlone
<1>2. ASSUME NEW u \in Tasks \ {t}
      PROVE  /\ StepOf(u)' = "describe" => descriptor'[tasks'[u].place] = "none"
             /\ StepOf(u)' \in {"key", "wrap", "fill"} => descriptor'[tasks'[u].place] = "encrypted"
  BY DEF Becomes, MakersAlone, StepOf, StepAt
<1>3. /\ StepOf(t)' = "describe" => descriptor'[tasks'[t].place] = "none"
      /\ StepOf(t)' \in {"key", "wrap", "fill"} => descriptor'[tasks'[t].place] = "encrypted"
  BY DEF Becomes, StepOf, StepAt
<1> QED
  BY <1>1, <1>2, <1>3 DEF MakersAlone

LEMMA AloneStep ==
  ASSUME KeysTypeOK, TasksRun, DescribedFirst, MakersAlone, [Next]_vars
  PROVE  MakersAlone'
<1>0. Calm("two makers")' => Calm("two makers")
  BY UpsetStays DEF Calm
<1>1. ASSUME NEW t \in Tasks, NEW p \in Places, NEW kind \in {"wizard", "init"},
             NEW pass \in Given, Make(t, kind, p, pass)
      PROVE  MakersAlone'
  <2> SUFFICES ASSUME Calm("two makers")'
               PROVE  MakersAlone'
    BY DEF MakersAlone
  <2>1. Becomes(t, kind, "check", p, pass, NoKey)
    BY <1>1, MakeBegins
  <2>2. Note(p, TRUE) /\ UNCHANGED descriptor
    BY <1>1 DEF Make
  <2>3. "two makers" \notin Overlap(p, TRUE)
    BY <2>2, NoteTyped DEF Calm
  <2>4. \A u \in Tasks : Makes(u) => tasks[u].place # p
    BY <2>3 DEF Overlap, Rekeys
  <2>5. \A u, w \in Tasks : Makes(u)' /\ Makes(w)' /\ tasks'[u].place = tasks'[w].place => u = w
    BY <1>0, <2>1, <2>4 DEF MakersAlone, Makes, Becomes
  <2>6. \A u \in Tasks : StepOf(u)' \in {"describe", "key", "wrap", "fill"} => tasks'[u] = tasks[u]
    BY <2>1 DEF Becomes, StepOf, StepAt
  <2> QED
    BY <1>0, <2>2, <2>5, <2>6 DEF MakersAlone, StepOf
<1>2. ASSUME NEW t \in Tasks, NEW p \in Places, NEW old \in Passphrases, NEW new \in Passphrases,
             Change_passphrase(t, p, old, new)
      PROVE  MakersAlone'
  <2>1. Becomes(t, "change", "open", p, old, NoKey)
    BY <1>2, ChangeBegins
  <2> QED
    BY <1>0, <1>2, <2>1, AloneByTask DEF Change_passphrase
<1>3. ASSUME NEW t \in Tasks, NEW p \in Places, NEW from \in Places, NEW new \in Passphrases,
             Import_key(t, p, from, new)
      PROVE  MakersAlone'
  <2>1. Becomes(t, "import", "open", p, None, keyfile[from].key)
    BY <1>3, ImportBegins
  <2> QED
    BY <1>0, <1>3, <2>1, AloneByTask DEF Import_key
<1>4. ASSUME NEW t \in Tasks, NEW p \in Places, Backup(t, p)
      PROVE  MakersAlone'
  <2>1. PICK pass \in {session[p], keyring[p], None} : Becomes(t, "backup", "open", p, pass, NoKey)
    BY <1>4, BackupBegins
  <2> QED
    BY <1>0, <1>4, <2>1, AloneByTask DEF Backup
<1>5. ASSUME NEW t \in Tasks, Stops(t), UNCHANGED descriptor
      PROVE  MakersAlone'
  BY <1>0, <1>5, AloneByTask DEF Stops
<1>6. ASSUME NEW t \in Tasks, CheckExists(t)
      PROVE  MakersAlone'
  <2>1. CASE End(t)
    BY <1>5, <1>6, <2>1, EndStops DEF CheckExists
  <2>2. CASE ~Exists(tasks[t].place) /\ Goto(t, "describe")
    <3>1. Moves(t, "describe") /\ descriptor[tasks[t].place] = "none" /\ Makes(t)
      BY <1>6, <2>2, GotoMoves DEF CheckExists, Exists, Steps
    <3> QED
      BY <1>0, <1>6, <3>1, AloneByTask DEF CheckExists, Moves
  <2> QED
    BY <1>6, <2>1, <2>2 DEF CheckExists
<1>7. ASSUME NEW t \in Tasks, Makes(t), StepOf(t) = "describe", tasks[t].place \in Places,
             NEW kind, Describes(tasks[t].place, kind),
             Stops(t) \/ Moves(t, "told") \/ (Moves(t, "key") /\ kind = "encrypted")
      PROVE  MakersAlone'
  <2> SUFFICES ASSUME Calm("two makers")'
               PROVE  MakersAlone'
    BY DEF MakersAlone
  <2> DEFINE p == tasks[t].place
  <2>1. \A q \in Places \ {p} : descriptor'[q] = descriptor[q]
    BY <1>7 DEF Describes
  <2>2. descriptor[p] = "none"
    BY <1>0, <1>7 DEF MakersAlone
  <2>3. ASSUME NEW u \in Tasks \ {t}, StepOf(u) \in {"describe", "key", "wrap", "fill"}
        PROVE  tasks[u].place \in Places \ {p}
    <3>1. tasks[u].place \in Places
      BY <2>3, StepsOfKinds DEF Late
    <3>2. CASE StepOf(u) = "describe"
      BY <1>0, <1>7, <3>1, <3>2, StepsOfKinds DEF MakersAlone
    <3>3. CASE StepOf(u) \in {"key", "wrap", "fill"}
      BY <2>2, <3>1, <3>3 DEF DescribedFirst, Late
    <3> QED
      BY <2>3, <3>2, <3>3
  <2>4. \A u \in Tasks \ {t} : tasks'[u] = tasks[u]
    BY <1>7 DEF Stops, Moves, Becomes
  <2>5. \A u, w \in Tasks : Makes(u)' /\ Makes(w)' /\ tasks'[u].place = tasks'[w].place => u = w
    <3>1. \A v \in Tasks : Makes(v)' => Makes(v) /\ tasks'[v].place = tasks[v].place
      BY <1>7 DEF Stops, Moves, Becomes, Makes
    <3> QED
      BY <1>0, <3>1 DEF MakersAlone
  <2>6. ASSUME NEW u \in Tasks \ {t}
        PROVE  /\ StepOf(u)' = "describe" => descriptor'[tasks'[u].place] = "none"
               /\ StepOf(u)' \in {"key", "wrap", "fill"} => descriptor'[tasks'[u].place] = "encrypted"
    BY <1>0, <2>1, <2>3, <2>4 DEF MakersAlone, StepOf
  <2>7. /\ StepOf(t)' # "describe"
        /\ StepOf(t)' \in {"key", "wrap", "fill"} => descriptor'[tasks'[t].place] = "encrypted"
    BY <1>7 DEF Stops, Moves, Becomes, StepOf, StepAt, Describes
  <2> QED
    BY <2>5, <2>6, <2>7 DEF MakersAlone
<1>8. ASSUME NEW t \in Tasks, Describe(t) \/ Fails(t)
      PROVE  MakersAlone'
  BY <1>5, <1>7, <1>8, Described, FailedTask
<1>15. ASSUME NEW t \in Tasks, CreateKey(t) \/ OpenKeyFile(t)
       PROVE  MakersAlone'
  <2>1. UNCHANGED descriptor /\ Rekeys(t) /\ StepOf(t) \in {"key", "wrap", "fill"}
    BY <1>15, KeyCreated, KeyFileOpened
  <2>2. CASE Stops(t)
    BY <1>5, <2>1, <2>2
  <2>3. CASE Moves(t, "told")
    BY <1>0, <2>1, <2>3, AloneByTask DEF Moves, Makes
  <2>4. CASE Moves(t, "fill")
    <3>1. CASE ~Calm("two makers")
      BY <1>0, <3>1 DEF MakersAlone
    <3>2. CASE Calm("two makers")
      <4>1. descriptor[tasks[t].place] = "encrypted"
        BY <2>1, <3>2 DEF MakersAlone
      <4> QED
        BY <1>0, <2>1, <2>4, <4>1, AloneByTask DEF Moves, Makes
    <3> QED
      BY <3>1, <3>2
  <2> QED
    BY <1>15, <2>2, <2>3, <2>4, KeyCreated, KeyFileOpened
<1>9. ASSUME NEW t \in Tasks, Told(t)
      PROVE  MakersAlone'
  <2>1. Moves(t, "keep") /\ UNCHANGED descriptor /\ Makes(t)
    BY <1>9, GotoMoves DEF Told, At, Steps, Makes
  <2> QED
    BY <1>0, <2>1, AloneByTask DEF Moves
<1>10. ASSUME NEW t \in Tasks, Add_bookmark(t) \/ Wrap(t) \/ Put_chunk(t)
       PROVE  MakersAlone'
  BY <1>5, <1>10, EndStops DEF Add_bookmark, Wrap, WrapAs, Put_chunk
<1>11. ASSUME NEW t \in Tasks, OpenToWrap(t)
       PROVE  MakersAlone'
  <2>1. UNCHANGED descriptor /\ tasks[t].kind \in {"change", "import"}
    BY <1>11 DEF OpenToWrap, Wraps
  <2>2. CASE Stops(t)
    BY <1>5, <2>1, <2>2
  <2>3. CASE \E key \in Keys \ {NoKey} :
               /\ Becomes(t, tasks[t].kind, "wrap", tasks[t].place, tasks[t].pass, key)
               /\ descriptor[tasks[t].place] = "encrypted"
    BY <1>0, <2>1, <2>3, AloneByTask
  <2> QED
    BY <1>11, <2>2, <2>3, OpenToWrapOpens
<1>12. ASSUME NEW t \in Tasks, OpenForBackup(t)
       PROVE  MakersAlone'
  <2> DEFINE p == tasks[t].place
  <2>1. UNCHANGED descriptor
    BY <1>12 DEF OpenForBackup
  <2>2. CASE Stops(t)
    BY <1>5, <2>1, <2>2
  <2>3. ASSUME NEW pc \in {"put", "keyless"}, NEW key, Becomes(t, "backup", pc, p, tasks[t].pass, key)
        PROVE  MakersAlone'
    BY <1>0, <2>1, <2>3, AloneByTask
  <2> QED
    BY <1>12, <2>2, <2>3, OpenForBackupOpens
<1>13. ASSUME Crash
       PROVE  MakersAlone'
  <2>1. \A u \in Tasks : tasks'[u] = tasks[u] \/ tasks'[u].kind = "ended"
    BY <1>13 DEF Crash, Ended, Unused
  <2>2. \A v \in Tasks : Makes(v)' => Makes(v) /\ tasks'[v].place = tasks[v].place
    BY <2>1 DEF Makes
  <2>3. UNCHANGED descriptor
    BY <1>13 DEF Crash
  <2> QED
    BY <1>0, <2>1, <2>2, <2>3 DEF MakersAlone, StepOf, StepAt
<1>14. CASE UNCHANGED <<descriptor, tasks>>
  BY <1>0, <1>14 DEF MakersAlone, StepOf, Makes
<1> QED
  BY <1>1, <1>2, <1>3, <1>4, <1>6, <1>8, <1>9, <1>10, <1>11, <1>12, <1>13, <1>14, <1>15
     DEF Next, MakeStep, KeyStep, BackupStep, Select, Given, vars

-------------------------------------------------------------------------------
(***************************************************************************)
(* What is stored fits the key                                             *)
(***************************************************************************)

\* One task's step leaves KeyInv, when the repositories' files and the passwords stay,
\* or a key file is emptied.
LEMMA FitByTask ==
  ASSUME KeyInv, Undisturbed' => Undisturbed,
         UNCHANGED <<descriptor, archives, session, keyring>>, history'.made = history.made,
         \A q \in Places : keyfile'[q].key \in {NoKey, keyfile[q].key},
         NEW t \in Tasks, NEW kind, NEW pc, NEW p, NEW pass, NEW key,
         Becomes(t, kind, pc, p, pass, key),
         \/ kind = "ended"
         \/ /\ kind \in {"wizard", "init"} /\ pc \in {"key", "fill"} => Creates(t) /\ p = tasks[t].place
            /\ Undisturbed /\ kind = "backup" =>
                 /\ IF key # NoKey THEN pc = "put" /\ descriptor[p] = "encrypted" /\ key = history.made[p]
                                   ELSE pc = "put" => descriptor[p] = "plain"
                 /\ \A w \in Tasks : Creates(w) /\ tasks[w].place = p => pass = None /\ key = NoKey
  PROVE  KeyInv'
<1> SUFFICES ASSUME Undisturbed'
             PROVE  KeysFit'
  BY DEF KeyInv
<1>1. /\ Undisturbed
      /\ \A w \in Tasks : Creates(w) => Awaited(w)
      /\ \A u \in Tasks : BackupFits(u)
      /\ \A q \in Places : Fits(q) /\ FileFits(q)
  BY DEF KeyInv, KeysFit
<1>2. ASSUME NEW w \in Tasks, Creates(w)'
      PROVE  Awaited(w)'
  <2>1. Creates(w) /\ tasks'[w].place = tasks[w].place
    BY <1>2 DEF Becomes, Creates, Makes
  <2>2. Awaited(w)
    BY <1>1, <2>1
  <2>3. ASSUME NEW u \in Tasks, tasks'[u].kind = "backup", tasks'[u].place = tasks[w].place
        PROVE  tasks'[u].pass = None /\ tasks'[u].key = NoKey
    <3>1. CASE u = t
      BY <1>1, <2>1, <2>3, <3>1 DEF Becomes
    <3>2. CASE u # t
      BY <2>2, <2>3, <3>2 DEF Becomes, Awaited
    <3> QED
      BY <3>1, <3>2
  <2> QED
    BY <2>1, <2>2, <2>3 DEF Awaited
<1>3. ASSUME NEW u \in Tasks
      PROVE  BackupFits(u)'
  <2>1. CASE u = t
    BY <1>1, <2>1 DEF BackupFits, Becomes
  <2>2. CASE u # t
    BY <1>1, <2>2 DEF BackupFits, Becomes
  <2> QED
    BY <2>1, <2>2
<1>4. \A q \in Places : Fits(q)' /\ FileFits(q)'
  BY <1>1 DEF Fits, FileFits
<1> QED
  BY <1>2, <1>3, <1>4 DEF KeysFit

\* When a maker writes the descriptor, there is nothing yet that could fit no key.
LEMMA FitDescribe ==
  ASSUME KeysTypeOK, TasksRun, DescribedFirst, MakersAlone, KeysFit, Undisturbed,
         NEW t \in Tasks, Makes(t), StepOf(t) = "describe", tasks[t].place \in Places,
         NEW kind, Describes(tasks[t].place, kind), UNCHANGED <<keyfile, archives, session, keyring>>,
         Stops(t) \/ Moves(t, "told") \/ Moves(t, "key"),
         history'.made = history.made \/ MadeWith(t, NoKey)
  PROVE  KeysFit'
<1> DEFINE p == tasks[t].place
<1>1. descriptor[p] = "none" /\ Blank(p)
  BY DEF MakersAlone, Undisturbed, DescribedFirst
<1>2. /\ \A q \in Places \ {p} : descriptor'[q] = descriptor[q]
      /\ \A q \in Places \ {p} : history'.made[q] = history.made[q]
  BY DEF Describes, MadeWith
<1>3. /\ \A u \in Tasks \ {t} : tasks'[u] = tasks[u]
      /\ tasks'[t].kind # "backup"
      /\ Creates(t)' => tasks'[t].place = p
  BY StepsOfKinds DEF Stops, Moves, Becomes, Creates, Makes
<1>4. \A u \in Tasks : tasks[u].kind = "backup" /\ tasks[u].place = p =>
                          tasks[u].pass = None /\ tasks[u].key = NoKey /\ tasks[u].pc # "put"
  BY <1>1 DEF Blank, KeysFit, BackupFits
<1>5. ASSUME NEW w \in Tasks, Creates(w)'
      PROVE  Awaited(w)'
  <2>1. CASE w = t
    BY <1>1, <1>3, <1>4, <1>5, <2>1 DEF Awaited, Blank
  <2>2. CASE w # t
    <3>1. Awaited(w) /\ tasks'[w] = tasks[w]
      BY <1>3, <1>5, <2>2 DEF KeysFit, Creates, Makes
    <3> QED
      BY <1>3, <3>1 DEF Awaited
  <2> QED
    BY <2>1, <2>2
<1>6. ASSUME NEW u \in Tasks
      PROVE  BackupFits(u)'
  <2>1. CASE u = t
    BY <1>3, <2>1 DEF BackupFits
  <2>2. CASE u # t
    <3>1. BackupFits(u) /\ tasks'[u] = tasks[u]
      BY <1>3, <2>2 DEF KeysFit
    <3>2. tasks[u].kind = "backup" => tasks[u].place \in Places
      BY StepsOfKinds
    <3> QED
      BY <1>2, <1>4, <3>1, <3>2 DEF BackupFits
  <2> QED
    BY <2>1, <2>2
<1>7. ASSUME NEW q \in Places
      PROVE  Fits(q)' /\ FileFits(q)'
  BY <1>1, <1>2 DEF KeysFit, Fits, FileFits, Blank
<1> QED
  BY <1>5, <1>6, <1>7 DEF KeysFit

\* When a maker writes the key, nothing is stored yet, and no backup has another key.
LEMMA FitCreateKey ==
  ASSUME KeysTypeOK, TasksRun, KeysFit, NEW t \in Tasks, CreateKey(t)
  PROVE  KeysFit'
<1> DEFINE p == tasks[t].place
<1>1. Creates(t) /\ p \in Places /\ Awaited(t)
  BY KeyCreated DEF KeysFit, Creates, StepOf, StepAt, Makes
<1>2. /\ UNCHANGED <<descriptor, archives, session, keyring>>
      /\ \A q \in Places \ {p} : keyfile'[q] = keyfile[q] /\ history'.made[q] = history.made[q]
      /\ keyfile'[p].key \in {t, NoKey} /\ history'.made[p] = t
      /\ Stops(t) \/ Moves(t, "told")
  BY <1>1, KeyCreated, KeyFiles DEF OnlyFile, MadeWith
<1>3. /\ \A u \in Tasks \ {t} : tasks'[u] = tasks[u]
      /\ tasks'[t].kind # "backup" /\ ~Creates(t)'
  BY <1>1, <1>2, StepsOfKinds DEF Stops, Moves, Becomes, Creates, Makes
<1>4. ASSUME NEW w \in Tasks, Creates(w)'
      PROVE  Awaited(w)'
  <2>1. Awaited(w) /\ tasks'[w] = tasks[w]
    BY <1>3, <1>4 DEF KeysFit, Creates, Makes
  <2> QED
    BY <1>2, <1>3, <2>1 DEF Awaited
<1>5. ASSUME NEW u \in Tasks
      PROVE  BackupFits(u)'
  <2>1. tasks[u].kind = "backup" => tasks[u].place \in Places
    BY StepsOfKinds
  <2> QED
    BY <1>1, <1>2, <1>3, <2>1 DEF KeysFit, BackupFits, Awaited
<1>6. ASSUME NEW q \in Places
      PROVE  Fits(q)' /\ FileFits(q)'
  BY <1>1, <1>2 DEF KeysFit, Fits, FileFits, Awaited
<1> QED
  BY <1>4, <1>5, <1>6 DEF KeysFit

\* A key that is wrapped anew is the repository's, or becomes it.
LEMMA FitWrap ==
  ASSUME KeysTypeOK, TasksRun, MakersAlone, KeysFit, Undisturbed, Undisturbed',
         NEW t \in Tasks, Wrap(t)
  PROVE  KeysFit'
<1> DEFINE p == tasks[t].place
<1>1. /\ StepOf(t) = "fill" /\ p \in Places /\ tasks[t].key \in Keys \ {NoKey}
      /\ UNCHANGED <<descriptor, archives, session, keyring>> /\ Stops(t)
  BY Wrapped
<1>2. descriptor[p] = "encrypted"
  BY <1>1 DEF MakersAlone, Undisturbed
<1>3. /\ \A q \in Places \ {p} : keyfile'[q] = keyfile[q] /\ history'.made[q] = history.made[q]
      /\ history'.made[p] = tasks[t].key
      /\ history.made[p] \in {NoKey, tasks[t].key}
      /\ keyfile'[p].key \in {NoKey, tasks[t].key}
  BY <1>1, Wrapped, KeyFiles DEF OnlyFile, Rewraps, MadeWith, Undisturbed, Calm
<1>4. \A u \in Tasks : tasks'[u] = tasks[u] \/ tasks'[u].kind = "ended"
  BY <1>1 DEF Stops, Becomes
<1>5. ASSUME NEW w \in Tasks, Creates(w)'
      PROVE  Awaited(w)'
  <2>1. Awaited(w) /\ tasks'[w] = tasks[w]
    BY <1>4, <1>5 DEF KeysFit, Creates, Makes
  <2> QED
    BY <1>1, <1>4, <2>1 DEF Awaited
<1>6. ASSUME NEW u \in Tasks
      PROVE  BackupFits(u)'
  <2>1. tasks[u].kind = "backup" => tasks[u].place \in Places
    BY StepsOfKinds
  <2> QED
    BY <1>1, <1>3, <1>4, <2>1 DEF KeysFit, BackupFits
<1>7. ASSUME NEW q \in Places
      PROVE  Fits(q)' /\ FileFits(q)'
  BY <1>1, <1>2, <1>3 DEF KeysFit, Fits, FileFits
<1> QED
  BY <1>5, <1>6, <1>7 DEF KeysFit

\* A backup stores under the key it loaded, and nothing where the key is awaited.
LEMMA FitPut ==
  ASSUME KeysTypeOK, TasksRun, MakersAlone, KeysFit, Undisturbed,
         NEW t \in Tasks, Put_chunk(t)
  PROVE  KeysFit'
<1> DEFINE p == tasks[t].place
           key == tasks[t].key
<1>1. StepOf(t) \in {"put", "keyless"} /\ p \in Places /\ tasks[t].kind = "backup"
  BY StepsOfKinds DEF Put_chunk, At, StepOf, StepAt
<1>2. UNCHANGED <<descriptor, keyfile, session, keyring, history>> /\ Stops(t)
  BY EndStops DEF Put_chunk
<1>3. /\ \A q \in Places \ {p} : archives'[q] = archives[q]
      /\ \/ archives'[p] = archives[p]
         \/ archives'[p] = archives[p] \cup {key} /\ tasks[t].pc = "put"
  BY <1>1 DEF Put_chunk, At, KeysTypeOK
<1>4. \A u \in Tasks : tasks'[u] = tasks[u] \/ tasks'[u].kind = "ended"
  BY <1>2 DEF Stops, Becomes
<1>5. BackupFits(t)
  BY DEF KeysFit
<1>6. ASSUME NEW w \in Tasks, Creates(w)'
      PROVE  Awaited(w)'
  <2>1. Awaited(w) /\ tasks'[w] = tasks[w] /\ Creates(w)
    BY <1>4, <1>6 DEF KeysFit, Creates, Makes
  <2>2. descriptor[tasks[w].place] = "encrypted" /\ tasks[w].place \in Places
    <3>1. StepOf(w) \in {"key", "fill"}
      BY <2>1 DEF Creates, Makes, StepOf, StepAt
    <3> QED
      BY <3>1, StepsOfKinds DEF MakersAlone, Undisturbed, Late
  <2>3. archives'[tasks[w].place] = {}
    BY <1>1, <1>3, <1>5, <2>1, <2>2 DEF Awaited, BackupFits
  <2> QED
    BY <1>2, <1>4, <2>1, <2>3 DEF Awaited
<1>7. ASSUME NEW u \in Tasks
      PROVE  BackupFits(u)'
  BY <1>2, <1>4 DEF KeysFit, BackupFits
<1>8. ASSUME NEW q \in Places
      PROVE  Fits(q)' /\ FileFits(q)'
  <2>1. Fits(q) /\ FileFits(q)
    BY DEF KeysFit
  <2>2. CASE archives'[q] = archives[q]
    BY <1>2, <2>1, <2>2 DEF Fits, FileFits
  <2>3. CASE q = p /\ archives'[p] = archives[p] \cup {key} /\ tasks[t].pc = "put"
    BY <1>1, <1>2, <1>5, <2>1, <2>3 DEF Fits, FileFits, BackupFits
  <2> QED
    BY <1>3, <2>2, <2>3
<1> QED
  BY <1>6, <1>7, <1>8 DEF KeysFit

\* Passwords are kept only where a key is not awaited.
LEMMA FitBookmark ==
  ASSUME KeysTypeOK, TasksRun, MakersAlone, KeysFit, Undisturbed,
         NEW t \in Tasks, Add_bookmark(t)
  PROVE  KeysFit'
<1>1. /\ Stops(t) /\ StepOf(t) = "keep" /\ Makes(t)
      /\ UNCHANGED <<descriptor, keyfile, archives, history>>
  BY EndStops DEF Add_bookmark, At, StepOf, StepAt, Makes
<1>2. \A p \in Places \ {tasks[t].place} : session'[p] = session[p] /\ keyring'[p] = keyring[p]
  BY DEF Add_bookmark, KeysTypeOK
<1>3. \A u \in Tasks : tasks'[u] = tasks[u] \/ tasks'[u].kind = "ended"
  BY <1>1 DEF Stops, Becomes
<1>4. ASSUME NEW w \in Tasks, Creates(w)'
      PROVE  Awaited(w)'
  <2>1. tasks'[w] = tasks[w] /\ Creates(w) /\ Awaited(w)
    BY <1>3, <1>4 DEF KeysFit, Creates, Makes
  <2>2. Makes(w) /\ tasks[w].place \in Places /\ w # t
    BY <1>1, <2>1, StepsOfKinds DEF Creates, Rekeys, StepOf, StepAt, Makes
  <2>3. tasks[w].place # tasks[t].place
    BY <1>1, <2>2 DEF MakersAlone, Undisturbed
  <2> QED
    BY <1>1, <1>2, <1>3, <2>1, <2>2, <2>3 DEF Awaited
<1>5. \A u \in Tasks : BackupFits(u)'
  BY <1>1, <1>3 DEF KeysFit, BackupFits
<1>6. \A q \in Places : Fits(q)' /\ FileFits(q)'
  BY <1>1 DEF KeysFit, Fits, FileFits
<1> QED
  BY <1>4, <1>5, <1>6 DEF KeysFit

LEMMA FitStep ==
  ASSUME KeysTypeOK, TasksRun, DescribedFirst, MakersAlone, KeyInv, [Next]_vars
  PROVE  KeyInv'
<1>0. Undisturbed' => Undisturbed
  BY UpsetStays DEF Undisturbed, Calm
<1>1. ASSUME NEW t \in Tasks, NEW p \in Places, NEW kind \in {"wizard", "init"},
             NEW pass \in Given, Make(t, kind, p, pass)
      PROVE  KeyInv'
  <2>1. Becomes(t, kind, "check", p, pass, NoKey)
    BY <1>1, MakeBegins
  <2>2. history'.made = history.made
    BY <1>1, NoteTyped DEF Make
  <2> QED
    BY <1>0, <1>1, <2>1, <2>2, FitByTask DEF Make
<1>2. ASSUME NEW t \in Tasks, NEW p \in Places, NEW old \in Passphrases, NEW new \in Passphrases,
             Change_passphrase(t, p, old, new)
      PROVE  KeyInv'
  <2>1. Becomes(t, "change", "open", p, old, NoKey)
    BY <1>2, ChangeBegins
  <2>2. history'.made = history.made
    BY <1>2, NoteTyped DEF Change_passphrase
  <2> QED
    BY <1>0, <1>2, <2>1, <2>2, FitByTask DEF Change_passphrase
<1>3. ASSUME NEW t \in Tasks, NEW p \in Places, NEW from \in Places, NEW new \in Passphrases,
             Import_key(t, p, from, new)
      PROVE  KeyInv'
  <2>1. Becomes(t, "import", "open", p, None, keyfile[from].key)
    BY <1>3, ImportBegins
  <2>2. history'.made = history.made
    BY <1>3, NoteTyped DEF Import_key
  <2> QED
    BY <1>0, <1>3, <2>1, <2>2, FitByTask DEF Import_key
<1>4. ASSUME NEW t \in Tasks, NEW p \in Places, Backup(t, p)
      PROVE  KeyInv'
  <2>1. PICK pass \in {session[p], keyring[p], None} : Becomes(t, "backup", "open", p, pass, NoKey)
    BY <1>4, BackupBegins
  <2>2. ASSUME Undisturbed, NEW w \in Tasks, Creates(w), tasks[w].place = p
        PROVE  pass = None
    BY <2>2 DEF KeyInv, KeysFit, Awaited
  <2> QED
    BY <1>0, <1>4, <2>1, <2>2, FitByTask DEF Backup
<1>5. ASSUME NEW t \in Tasks, Stops(t), UNCHANGED <<descriptor, archives, session, keyring, history>>,
             \A q \in Places : keyfile'[q].key \in {NoKey, keyfile[q].key}
      PROVE  KeyInv'
  BY <1>0, <1>5, FitByTask DEF Stops
<1>6. ASSUME NEW t \in Tasks, CheckExists(t)
      PROVE  KeyInv'
  <2>1. UNCHANGED <<descriptor, keyfile, archives, session, keyring, history>>
    BY <1>6 DEF CheckExists
  <2>2. Makes(t) /\ (Stops(t) \/ Moves(t, "describe"))
    BY <1>6, EndStops, GotoMoves DEF CheckExists, Steps
  <2>3. CASE Stops(t)
    BY <1>5, <2>1, <2>3
  <2>4. CASE Moves(t, "describe")
    BY <1>0, <2>1, <2>2, <2>4, FitByTask DEF Moves, Makes
  <2> QED
    BY <2>2, <2>3, <2>4
<1>7. ASSUME NEW t \in Tasks, Told(t)
      PROVE  KeyInv'
  <2>1. /\ UNCHANGED <<descriptor, keyfile, archives, session, keyring>>
        /\ tasks[t].kind = "wizard" /\ Moves(t, "keep")
    BY <1>7, GotoMoves DEF Told, At, Steps
  <2>2. history'.made = history.made
    BY <1>7 DEF Told, Report, KeysTypeOK, Kept
  <2> QED
    BY <1>0, <2>1, <2>2, FitByTask DEF Moves
<1>8. ASSUME NEW t \in Tasks, OpenKeyFile(t)
      PROVE  KeyInv'
  <2>1. /\ Moves(t, "fill")
        /\ (Makes(t) /\ StepOf(t) = "key") \/ (Wraps(t) /\ StepOf(t) = "wrap")
        /\ UNCHANGED <<descriptor, archives, session, keyring, history>>
        /\ \A q \in Places : keyfile'[q].key \in {NoKey, keyfile[q].key}
    BY <1>8, KeyFileOpened, KeyFiles DEF OnlyFile
  <2>2. tasks[t].kind # "backup" /\ (Makes(t) => Creates(t))
    BY <2>1 DEF Makes, Wraps, Creates, StepOf, StepAt
  <2>3. tasks[t].kind \in {"wizard", "init"} => Creates(t)
    BY <2>2 DEF Makes
  <2> QED
    BY <1>0, <2>1, <2>2, <2>3, FitByTask DEF Moves
<1>9. ASSUME NEW t \in Tasks, Fails(t)
      PROVE  KeyInv'
  <2>1. /\ Stops(t) /\ tasks[t].place \in Places
        /\ UNCHANGED <<archives, session, keyring, history>>
    BY <1>9, FailedTask
  <2>2. CASE UNCHANGED descriptor
    <3>1. \A q \in Places : keyfile'[q].key \in {NoKey, keyfile[q].key}
      BY <1>9, FailedTask, KeyFiles DEF OnlyFile
    <3> QED
      BY <1>5, <2>1, <2>2, <3>1
  <2>3. CASE Makes(t) /\ StepOf(t) = "describe" /\ Describes(tasks[t].place, "torn")
    <3>1. UNCHANGED keyfile
      BY <1>9, <2>3, FailedTask
    <3> QED
      BY <1>0, <2>1, <2>3, <3>1, FitDescribe DEF KeyInv
  <2> QED
    BY <1>9, <2>2, <2>3, FailedTask
<1>10. ASSUME NEW t \in Tasks, Describe(t)
       PROVE  KeyInv'
  <2>1. PICK kind \in {"plain", "encrypted"} : Describes(tasks[t].place, kind)
    BY <1>10, Described
  <2>2. /\ Makes(t) /\ StepOf(t) = "describe" /\ tasks[t].place \in Places
        /\ UNCHANGED <<keyfile, archives, session, keyring>>
        /\ Stops(t) \/ Moves(t, "told") \/ Moves(t, "key")
        /\ history'.made = history.made \/ MadeWith(t, NoKey)
    BY <1>10, Described
  <2> QED
    BY <1>0, <2>1, <2>2, FitDescribe DEF KeyInv
<1>11. ASSUME NEW t \in Tasks, CreateKey(t) \/ Wrap(t) \/ Put_chunk(t) \/ Add_bookmark(t)
       PROVE  KeyInv'
  BY <1>0, <1>11, FitCreateKey, FitWrap, FitPut, FitBookmark DEF KeyInv
<1>12. ASSUME NEW t \in Tasks, OpenToWrap(t)
       PROVE  KeyInv'
  <2>1. /\ UNCHANGED <<descriptor, keyfile, archives, session, keyring, history>>
        /\ tasks[t].kind \in {"change", "import"}
    BY <1>12 DEF OpenToWrap, Wraps
  <2>2. CASE Stops(t)
    BY <1>5, <2>1, <2>2
  <2>3. CASE \E key \in Keys \ {NoKey} :
               Becomes(t, tasks[t].kind, "wrap", tasks[t].place, tasks[t].pass, key)
    BY <1>0, <2>1, <2>3, FitByTask
  <2> QED
    BY <1>12, <2>2, <2>3, OpenToWrapOpens
<1>13. ASSUME NEW t \in Tasks, OpenForBackup(t)
       PROVE  KeyInv'
  <2> DEFINE p == tasks[t].place
             pass == tasks[t].pass
             loaded == LoadedKey(p, pass)
  <2>1. UNCHANGED <<descriptor, keyfile, archives, session, keyring, history>> /\ tasks[t].kind = "backup"
    BY <1>13 DEF OpenForBackup, At
  <2>2. CASE Stops(t)
    BY <1>5, <2>1, <2>2
  <2>3. p \in Places
    BY <2>1, StepsOfKinds
  <2>4. ASSUME Undisturbed, NEW w \in Tasks, Creates(w), tasks[w].place = p
        PROVE  pass = None /\ loaded = NoKey
    BY <2>1, <2>4 DEF KeyInv, KeysFit, Awaited, LoadedKey
  <2>5. CASE /\ Opens(p, pass) /\ Becomes(t, "backup", "put", p, pass, loaded)
             /\ (descriptor[p] = "plain" \/ pass # None)
    <3>1. \/ descriptor[p] = "plain" /\ loaded = NoKey
          \/ descriptor[p] = "encrypted" /\ loaded = keyfile[p].key /\ loaded # NoKey
      BY <2>5 DEF Opens, Unlocks, LoadedKey
    <3>2. Undisturbed => keyfile[p].key \in {NoKey, history.made[p]}
      BY <2>3 DEF KeyInv, KeysFit, FileFits
    <3> HIDE DEF loaded
    <3>3. Undisturbed => IF loaded # NoKey THEN descriptor[p] = "encrypted" /\ loaded = history.made[p]
                                           ELSE descriptor[p] = "plain"
      BY <3>1, <3>2
    <3> QED
      BY <1>0, <2>1, <2>4, <2>5, <3>3, FitByTask
  <2>6. CASE Becomes(t, "backup", "keyless", p, pass, NoKey)
    BY <1>0, <2>1, <2>4, <2>6, FitByTask
  <2> QED
    BY <1>13, <2>2, <2>5, <2>6, OpenForBackupOpens
<1>14. ASSUME UNCHANGED <<descriptor, keyfile, archives, keyring>>, history'.made = history.made,
              \A p \in Places : session'[p] \in {None, session[p], keyring[p]},
              \A u \in Tasks : tasks'[u] = tasks[u] \/ tasks'[u].kind = "ended"
       PROVE  KeyInv'
  <2> SUFFICES ASSUME Undisturbed', KeysFit
               PROVE  KeysFit'
    BY <1>0 DEF KeyInv
  <2>1. ASSUME NEW w \in Tasks, Creates(w)'
        PROVE  Awaited(w)'
    <3>1. tasks'[w] = tasks[w] /\ Creates(w) /\ Awaited(w)
      BY <1>14, <2>1 DEF KeysFit, Creates, Makes
    <3>2. tasks[w].place \in Places
      BY <3>1, StepsOfKinds DEF Creates, Rekeys
    <3> QED
      BY <1>14, <3>1, <3>2 DEF Awaited
  <2>2. \A u \in Tasks : BackupFits(u)'
    BY <1>14 DEF KeysFit, BackupFits
  <2>3. \A q \in Places : Fits(q)' /\ FileFits(q)'
    BY <1>14 DEF KeysFit, Fits, FileFits
  <2> QED
    BY <2>1, <2>2, <2>3 DEF KeysFit
<1>15. ASSUME NEW p \in Places, Select(p)
       PROVE  KeyInv'
  BY <1>14, <1>15 DEF Select, KeysTypeOK
<1>16. CASE Crash
  <2>1. \A u \in Tasks : tasks'[u] = tasks[u] \/ tasks'[u].kind = "ended"
    BY <1>16 DEF Crash, Ended, Unused
  <2>2. history'.made = history.made
    BY <1>16 DEF Crash, KeysTypeOK, Kept
  <2> QED
    BY <1>14, <1>16, <2>1, <2>2 DEF Crash
<1>17. CASE UNCHANGED vars
  BY <1>14, <1>17 DEF vars
<1> QED
  BY <1>1, <1>2, <1>3, <1>4, <1>6, <1>7, <1>8, <1>9, <1>10, <1>11, <1>12, <1>13, <1>15, <1>16, <1>17
     DEF Next, MakeStep, KeyStep, BackupStep, Given

\* A repository's key goes from its file only when that is opened to be written, and
\* comes back when it is written whole.
LEMMA GoneStep ==
  ASSUME KeysTypeOK, TasksRun, GoneInWrite, [Next]_vars
  PROVE  GoneInWrite'
<1>1. ASSUME NEW t \in Tasks, CreateKey(t) \/ Wrap(t)
      PROVE  GoneInWrite'
  <2>1. /\ tasks[t].place \in Places /\ OnlyFile(tasks[t].place)
        /\ Stops(t) \/ Moves(t, "told")
        /\ keyfile'[tasks[t].place].key # NoKey \/ keyfile'[tasks[t].place] = Torn
        /\ \A q \in Places \ {tasks[t].place} : history'.made[q] = history.made[q]
    <3>1. CASE CreateKey(t)
      BY <3>1, KeyCreated DEF MadeWith
    <3>2. CASE Wrap(t)
      BY <3>2, Wrapped DEF MadeWith, Rewraps
    <3> QED
      BY <1>1, <3>1, <3>2
  <2>2. \A u \in Tasks : tasks[u].place # tasks[t].place => tasks'[u] = tasks[u]
    BY <2>1 DEF Stops, Moves, Becomes
  <2>3. ASSUME NEW q \in Places, history'.made[q] # NoKey, keyfile'[q].key = NoKey
        PROVE  KeyGone(q)'
    <3>1. CASE q = tasks[t].place
      BY <2>1, <2>3, <3>1 DEF KeyGone
    <3>2. CASE q # tasks[t].place
      <4>1. keyfile'[q] = keyfile[q] /\ KeyGone(q)
        BY <2>1, <2>3, <3>2 DEF GoneInWrite, OnlyFile
      <4> QED
        BY <2>2, <3>2, <4>1 DEF KeyGone, Rekeys, Makes, Wraps
    <3> QED
      BY <3>1, <3>2
  <2> QED
    BY <2>3 DEF GoneInWrite
<1>2. ASSUME NEW t \in Tasks, OpenKeyFile(t)
      PROVE  GoneInWrite'
  <2>1. /\ tasks[t].place \in Places /\ OnlyFile(tasks[t].place) /\ Moves(t, "fill") /\ Rekeys(t)
        /\ keyfile'[tasks[t].place] = Unwritten /\ UNCHANGED history
    BY <1>2, KeyFileOpened
  <2>2. /\ Rekeys(t)' /\ tasks'[t].place = tasks[t].place /\ tasks'[t].pc = "fill"
        /\ \A u \in Tasks \ {t} : tasks'[u] = tasks[u]
    BY <2>1 DEF Moves, Becomes, Rekeys, Makes, Wraps
  <2>3. ASSUME NEW q \in Places, history'.made[q] # NoKey, keyfile'[q].key = NoKey
        PROVE  KeyGone(q)'
    <3>1. CASE q = tasks[t].place
      BY <2>1, <2>2, <3>1 DEF KeyGone
    <3>2. CASE q # tasks[t].place
      <4>1. keyfile'[q] = keyfile[q] /\ KeyGone(q)
        BY <2>1, <2>3, <3>2 DEF GoneInWrite, OnlyFile
      <4> QED
        BY <2>2, <3>2, <4>1 DEF KeyGone, Rekeys, Makes, Wraps
    <3> QED
      BY <3>1, <3>2
  <2> QED
    BY <2>3 DEF GoneInWrite
<1>3. ASSUME \A q \in Places : keyfile'[q] \in {keyfile[q], Torn},
             \A q \in Places : history'.made[q] \in {NoKey, history.made[q]},
             \A u \in Tasks : \/ tasks'[u] = tasks[u]
                             \/ tasks[u].pc # "fill" \/ ~Rekeys(u)
                             \/ keyfile'[tasks[u].place] = Torn
                             \/ keyfile[tasks[u].place] # Unwritten
      PROVE  GoneInWrite'
  <2>1. ASSUME NEW q \in Places, history'.made[q] # NoKey, keyfile'[q].key = NoKey
        PROVE  KeyGone(q)'
    <3>1. CASE keyfile'[q] = Torn
      BY <3>1 DEF KeyGone
    <3>2. CASE keyfile'[q] = keyfile[q] /\ keyfile'[q] # Torn
      <4>1. KeyGone(q)
        BY <1>3, <2>1, <3>2 DEF GoneInWrite
      <4>2. PICK u \in Tasks : Rekeys(u) /\ tasks[u].place = q /\ tasks[u].pc = "fill"
        BY <3>2, <4>1 DEF KeyGone
      <4>3. keyfile[q] = Unwritten /\ tasks'[u] = tasks[u]
        BY <1>3, <3>2, <4>1, <4>2 DEF KeyGone
      <4> QED
        BY <3>2, <4>2, <4>3 DEF KeyGone, Rekeys, Makes, Wraps
    <3> QED
      BY <1>3, <3>1, <3>2
  <2> QED
    BY <2>1 DEF GoneInWrite
<1>4. ASSUME NEW t \in Tasks, Fails(t)
      PROVE  GoneInWrite'
  <2>1. /\ Stops(t) /\ tasks[t].place \in Places /\ UNCHANGED history
        /\ \/ UNCHANGED keyfile /\ tasks[t].pc # "fill"
           \/ /\ OnlyFile(tasks[t].place)
              /\ \/ keyfile'[tasks[t].place] = Torn
                 \/ keyfile[tasks[t].place] # Unwritten /\ UNCHANGED keyfile
    BY <1>4, FailedTask
  <2>2. \A q \in Places : keyfile'[q] \in {keyfile[q], Torn}
    BY <2>1 DEF OnlyFile
  <2>3. \A u \in Tasks : \/ tasks'[u] = tasks[u]
                         \/ tasks[u].pc # "fill" \/ ~Rekeys(u)
                         \/ keyfile'[tasks[u].place] = Torn
                         \/ keyfile[tasks[u].place] # Unwritten
    BY <2>1 DEF Stops, Becomes
  <2> QED
    BY <1>3, <2>1, <2>2, <2>3
<1>5. ASSUME NEW t \in Tasks, NEW kind, NEW pc, NEW p, NEW pass, NEW key, Becomes(t, kind, pc, p, pass, key),
             tasks[t].kind \notin {"wizard", "init", "change", "import"} \/ tasks[t].pc # "fill",
             UNCHANGED keyfile, \A q \in Places : history'.made[q] \in {NoKey, history.made[q]}
      PROVE  GoneInWrite'
  <2>1. \A u \in Tasks : tasks'[u] = tasks[u] \/ tasks[u].pc # "fill" \/ ~Rekeys(u)
    BY <1>5 DEF Becomes, Rekeys, Makes, Wraps
  <2> QED
    BY <1>3, <1>5, <2>1
<1>6. ASSUME NEW t \in Tasks, NEW p \in Places, NEW makes \in BOOLEAN, NEW kind, NEW pc, NEW pass, NEW key,
             tasks[t].kind = "unused", Becomes(t, kind, pc, p, pass, key),
             UNCHANGED keyfile, Note(p, makes) \/ UNCHANGED history
      PROVE  GoneInWrite'
  <2>1. history'.made = history.made
    BY <1>6, NoteTyped
  <2> QED
    BY <1>5, <1>6, <2>1
<1>7. ASSUME NEW t \in Tasks, NEW p \in Places, NEW kind \in {"wizard", "init"},
             NEW pass \in Given, Make(t, kind, p, pass)
      PROVE  GoneInWrite'
  BY <1>6, <1>7, MakeBegins DEF Make
<1>8. ASSUME NEW t \in Tasks, NEW p \in Places, NEW old \in Passphrases, NEW new \in Passphrases,
             Change_passphrase(t, p, old, new)
      PROVE  GoneInWrite'
  BY <1>6, <1>8, ChangeBegins DEF Change_passphrase
<1>9. ASSUME NEW t \in Tasks, NEW p \in Places, NEW from \in Places, NEW new \in Passphrases,
             Import_key(t, p, from, new)
      PROVE  GoneInWrite'
  BY <1>6, <1>9, ImportBegins DEF Import_key
<1>10. ASSUME NEW t \in Tasks, NEW p \in Places, Backup(t, p)
       PROVE  GoneInWrite'
  BY <1>6, <1>10, BackupBegins DEF Backup
<1>11. ASSUME NEW t \in Tasks, CheckExists(t) \/ Told(t) \/ Add_bookmark(t)
       PROVE  GoneInWrite'
  <2>1. UNCHANGED keyfile /\ history'.made = history.made /\ tasks[t].pc # "fill"
    BY <1>11 DEF CheckExists, Told, Add_bookmark, At, Report, KeysTypeOK, Kept
  <2>2. Stops(t) \/ Moves(t, "describe") \/ Moves(t, "keep")
    BY <1>11, EndStops, GotoMoves DEF CheckExists, Told, Add_bookmark, Steps
  <2> QED
    BY <1>5, <2>1, <2>2 DEF Stops, Moves
<1>12. ASSUME NEW t \in Tasks, Describe(t)
       PROVE  GoneInWrite'
  <2>1. /\ UNCHANGED keyfile /\ \A q \in Places : history'.made[q] \in {NoKey, history.made[q]}
        /\ Stops(t) \/ Moves(t, "told") \/ Moves(t, "key")
    BY <1>12, Described DEF MadeWith
  <2>2. tasks[t].pc # "fill"
    BY <1>12 DEF Describe
  <2> QED
    BY <1>5, <2>1, <2>2 DEF Stops, Moves
<1>13. ASSUME NEW t \in Tasks, OpenToWrap(t) \/ OpenForBackup(t) \/ Put_chunk(t)
       PROVE  GoneInWrite'
  <2>1. UNCHANGED <<keyfile, history>> /\ tasks[t].pc # "fill"
    BY <1>13 DEF OpenToWrap, OpenForBackup, Put_chunk, At
  <2>2. \E kind, pc, p, pass, key : Becomes(t, kind, pc, p, pass, key)
    BY <1>13, OpenToWrapOpens, OpenForBackupOpens, EndStops DEF Put_chunk, Stops
  <2> QED
    BY <1>5, <2>1, <2>2
<1>14. CASE Crash
  <2>1. UNCHANGED keyfile /\ history'.made = history.made
    BY <1>14 DEF Crash, KeysTypeOK, Kept
  <2>2. \A u \in Tasks : tasks'[u] = tasks[u] \/ tasks[u].pc # "fill"
    BY <1>14 DEF Crash, At
  <2> QED
    BY <1>3, <2>1, <2>2
<1>15. CASE UNCHANGED <<keyfile, tasks, history>>
  BY <1>3, <1>15
<1> QED
  BY <1>1, <1>2, <1>4, <1>7, <1>8, <1>9, <1>10, <1>11, <1>12, <1>13, <1>14, <1>15
     DEF Next, MakeStep, KeyStep, BackupStep, Select, Given, vars

-------------------------------------------------------------------------------
(***************************************************************************)
(* What was reported opens the repository                                  *)
(***************************************************************************)

\* A key file that is written at another place, or by another task, is still so.
LEMMA GoneStays ==
  ASSUME NEW q \in Places, KeyGone(q), keyfile'[q] = keyfile[q],
         \A u \in Tasks : Rekeys(u) /\ tasks[u].pc = "fill" /\ tasks[u].place = q => tasks'[u] = tasks[u]
  PROVE  KeyGone(q)'
BY DEF KeyGone, Rekeys, Makes, Wraps

\* One task's step leaves ReportInv, when the key files and what was reported stay.
LEMMA ReportByTask ==
  ASSUME KeysTypeOK, TasksRun, ReportInv, NEW t \in Tasks, NEW kind, NEW pc, NEW p, NEW pass, NEW key,
         Becomes(t, kind, pc, p, pass, key), StepOf(t) # "fill",
         UNCHANGED keyfile, history'.upset = history.upset, history'.reported = history.reported,
         \/ kind = "ended"
         \/ kind = "backup" /\ pc \in {"open", "put", "keyless"}
         \/ kind = tasks[t].kind /\ p = tasks[t].place /\ pc \notin {"key", "fill", "told"}
  PROVE  ReportInv'
<1> SUFFICES ASSUME Calm("two at the key")'
             PROVE  ReportInv'
  BY DEF ReportInv
<1>1. /\ Calm("two makers") /\ RekeysAlone /\ KeyUnwritten /\ TellsTrue
      /\ \A q \in Places : Opening(q)
  BY DEF ReportInv, Calm
<1>2. \A u \in Tasks : Rekeys(u)' => Rekeys(u) /\ tasks'[u].place = tasks[u].place
  BY DEF Becomes, Rekeys, Makes, Wraps
<1>3. \A u \in Tasks : StepOf(u)' \in {"key", "fill", "told"} \/ Creates(u)' => u # t /\ tasks'[u] = tasks[u]
  BY DEF Becomes, StepOf, StepAt, Creates, Makes
<1>4. Calm("two makers")'
  BY <1>1 DEF Calm
<1>5. RekeysAlone'
  BY <1>1, <1>2 DEF RekeysAlone
<1>6. KeyUnwritten' /\ TellsTrue'
  BY <1>1, <1>3 DEF KeyUnwritten, TellsTrue, Unlocks, StepOf, Creates, Makes
<1>7. ASSUME NEW q \in Places
      PROVE  Opening(q)'
  <2>1. \A u \in Tasks : Rekeys(u) /\ tasks[u].pc = "fill" => tasks'[u] = tasks[u]
    BY DEF Becomes, StepOf, StepAt, Rekeys, Makes, Wraps
  <2>2. KeyGone(q) => KeyGone(q)'
    BY <2>1, GoneStays
  <2> QED
    BY <1>1, <2>2 DEF Opening, Unlocks
<1> QED
  BY <1>4, <1>5, <1>6, <1>7 DEF ReportInv

\* Who begins to write a key is alone at it, or upsets the place.
LEMMA ReportBegin ==
  ASSUME KeysTypeOK, ReportInv, NEW t \in Tasks, tasks[t].kind = "unused",
         NEW kind, NEW pc \in {"check", "open"}, NEW p \in Places, NEW pass, NEW key,
         Becomes(t, kind, pc, p, pass, key),
         NEW makes \in BOOLEAN, Note(p, makes), UNCHANGED keyfile
  PROVE  ReportInv'
<1> SUFFICES ASSUME Calm("two at the key")'
             PROVE  ReportInv'
  BY DEF ReportInv
<1>1. history'.upset = history.upset \cup Overlap(p, makes) /\ history'.reported = history.reported
  BY NoteTyped
<1>2. /\ Calm("two makers") /\ RekeysAlone /\ KeyUnwritten /\ TellsTrue
      /\ \A q \in Places : Opening(q)
  BY <1>1 DEF ReportInv, Calm
<1>3. \A u \in Tasks : Rekeys(u) => tasks[u].place # p
  BY <1>1 DEF Calm, Overlap
<1>4. Calm("two makers")'
  BY <1>1, <1>2, <1>3 DEF Calm, Overlap
<1>5. RekeysAlone'
  <2>1. \A u \in Tasks \ {t} : (Rekeys(u)' <=> Rekeys(u)) /\ tasks'[u].place = tasks[u].place
    BY DEF Becomes, Rekeys, Makes, Wraps
  <2>2. tasks'[t].place = p
    BY DEF Becomes
  <2> QED
    BY <1>2, <1>3, <2>1, <2>2 DEF RekeysAlone
<1>6. \A u \in Tasks : StepOf(u)' \in {"key", "fill", "told"} \/ Creates(u)' => u # t /\ tasks'[u] = tasks[u]
  BY DEF Becomes, StepOf, StepAt, Creates, Makes
<1>7. KeyUnwritten' /\ TellsTrue'
  BY <1>1, <1>2, <1>6 DEF KeyUnwritten, TellsTrue, Unlocks, StepOf, Creates, Makes
<1>8. ASSUME NEW q \in Places
      PROVE  Opening(q)'
  <2>1. \A u \in Tasks : Rekeys(u) /\ tasks[u].pc = "fill" => tasks'[u] = tasks[u]
    BY DEF Becomes, Rekeys, Makes, Wraps
  <2>2. KeyGone(q) => KeyGone(q)'
    BY <2>1, GoneStays
  <2> QED
    BY <1>1, <1>2, <2>2 DEF Opening, Unlocks
<1> QED
  BY <1>4, <1>5, <1>7, <1>8 DEF ReportInv

\* A maker, or who wraps a key, changes its own place: to a key file that opens with what
\* is reported then, or by the wizard's closure, or that is being written.
LEMMA ReportAtPlace ==
  ASSUME KeysTypeOK, TasksRun, ReportInv, NEW t \in Tasks, Rekeys(t),
         NEW p \in Places, p = tasks[t].place,
         NEW pc, Stops(t) \/ Moves(t, pc),
         Calm("two at the key")' => Calm("two at the key"),
         Calm("two makers") => Calm("two makers")',
         \A q \in Places \ {p} :
           keyfile'[q] = keyfile[q] /\ history'.reported[q] = history.reported[q],
         Calm("two at the key") =>
           /\ Opening(p)'
           /\ Creates(t)' => keyfile'[p].key = NoKey /\ history'.reported[p] = None
           /\ StepOf(t)' = "fill" => keyfile'[p] = Unwritten
           /\ StepOf(t)' = "told" /\ tasks[t].pass # None =>
                keyfile'[p].key # NoKey /\ keyfile'[p].pass = tasks[t].pass
  PROVE  ReportInv'
<1> SUFFICES ASSUME Calm("two at the key")'
             PROVE  ReportInv'
  BY DEF ReportInv
<1>1. /\ Calm("two makers") /\ RekeysAlone /\ KeyUnwritten /\ TellsTrue
      /\ \A q \in Places : Opening(q)
  BY DEF ReportInv
<1>2. \A u \in Tasks \ {t} : tasks'[u] = tasks[u]
  BY DEF Stops, Moves, Becomes
<1>3. \/ tasks'[t].kind = "ended"
      \/ /\ tasks'[t].place = tasks[t].place /\ tasks'[t].pass = tasks[t].pass
         /\ tasks'[t].kind = tasks[t].kind
  BY DEF Stops, Moves, Becomes
<1>4. StepOf(t)' \in {"key", "fill", "told"} \/ Creates(t)' => tasks'[t].place = p /\ tasks'[t].pass = tasks[t].pass
  BY <1>3 DEF StepOf, StepAt, Creates, Makes
<1>5. RekeysAlone'
  <2>1. \A u \in Tasks : Rekeys(u)' => Rekeys(u) /\ tasks'[u].place = tasks[u].place
    BY <1>2, <1>3 DEF Rekeys, Makes, Wraps
  <2> QED
    BY <1>1, <2>1 DEF RekeysAlone
<1>6. ASSUME NEW u \in Tasks \ {t}, StepOf(u) \in {"key", "fill", "told"} \/ Creates(u)
      PROVE  tasks[u].place \in Places \ {p}
  <2>1. Rekeys(u) /\ tasks[u].place \in Places
    BY <1>6, StepsOfKinds DEF Rekeys, Creates
  <2> QED
    BY <1>1, <2>1 DEF RekeysAlone
<1>7. KeyUnwritten'
  <2>1. ASSUME NEW u \in Tasks, u # t, StepOf(u)' = "fill" \/ Creates(u)'
        PROVE  /\ Creates(u)' => keyfile'[tasks'[u].place].key = NoKey /\ history'.reported[tasks'[u].place] = None
               /\ StepOf(u)' = "fill" => keyfile'[tasks'[u].place] = Unwritten
    <3>1. tasks'[u] = tasks[u]
      BY <1>2, <2>1
    <3>2. /\ StepOf(u)' = StepOf(u) /\ (Creates(u)' <=> Creates(u))
      BY <3>1 DEF StepOf, Creates, Makes
    <3>3. PICK q \in Places \ {p} : q = tasks[u].place
      BY <1>6, <2>1, <3>2
    <3>4. /\ Creates(u) => keyfile[q].key = NoKey /\ history.reported[q] = None
          /\ StepOf(u) = "fill" => keyfile[q] = Unwritten
      BY <1>1, <3>3 DEF KeyUnwritten
    <3>5. keyfile'[q] = keyfile[q] /\ history'.reported[q] = history.reported[q]
      BY <3>3
    <3> QED
      BY <3>1, <3>2, <3>3, <3>4, <3>5
  <2>2. /\ Creates(t)' => keyfile'[tasks'[t].place].key = NoKey /\ history'.reported[tasks'[t].place] = None
        /\ StepOf(t)' = "fill" => keyfile'[tasks'[t].place] = Unwritten
    BY <1>4
  <2> QED
    BY <2>1, <2>2 DEF KeyUnwritten
<1>8. TellsTrue'
  <2> SUFFICES ASSUME NEW u \in Tasks, StepOf(u)' = "told", tasks'[u].pass # None
               PROVE  Unlocks(tasks[u].place, tasks[u].pass)'
    BY DEF TellsTrue
  <2>1. CASE u = t
    BY <1>4, <2>1 DEF Unlocks
  <2>2. CASE u # t
    <3>1. StepOf(u) = "told" /\ tasks'[u] = tasks[u]
      BY <1>2, <2>2 DEF StepOf
    <3>2. PICK q \in Places \ {p} : q = tasks[u].place
      BY <1>6, <2>2, <3>1
    <3>3. Unlocks(tasks[u].place, tasks[u].pass)
      BY <1>1, <3>1 DEF TellsTrue
    <3>4. keyfile'[q] = keyfile[q]
      BY <3>2
    <3> QED
      BY <3>1, <3>2, <3>3, <3>4 DEF Unlocks
  <2> QED
    BY <2>1, <2>2
<1>9. ASSUME NEW q \in Places
      PROVE  Opening(q)'
  <2>1. CASE q # p
    <3>1. \A u \in Tasks : tasks[u].place = q => tasks'[u] = tasks[u]
      BY <1>2, <2>1
    <3>2. KeyGone(q) => KeyGone(q)'
      BY <2>1, <3>1, GoneStays
    <3> QED
      BY <1>1, <2>1, <3>2 DEF Opening, Unlocks
  <2> QED
    BY <2>1
<1> QED
  BY <1>1, <1>5, <1>7, <1>8, <1>9 DEF ReportInv

LEMMA ReportStep ==
  ASSUME KeysTypeOK, TasksRun, DescribedFirst, NothingReported, MakersAlone, ReportInv, [Next]_vars
  PROVE  ReportInv'
<1>1. ASSUME NEW t \in Tasks, NEW p \in Places, NEW kind \in {"wizard", "init"},
             NEW pass \in Given, Make(t, kind, p, pass)
      PROVE  ReportInv'
  <2>1. tasks[t].kind = "unused" /\ Becomes(t, kind, "check", p, pass, NoKey)
    BY <1>1, MakeBegins
  <2>2. Note(p, TRUE) /\ UNCHANGED keyfile
    BY <1>1 DEF Make
  <2> QED
    BY <2>1, <2>2, ReportBegin
<1>2. ASSUME NEW t \in Tasks, NEW p \in Places, NEW old \in Passphrases, NEW new \in Passphrases,
             Change_passphrase(t, p, old, new)
      PROVE  ReportInv'
  <2>1. tasks[t].kind = "unused" /\ Becomes(t, "change", "open", p, old, NoKey)
    BY <1>2, ChangeBegins
  <2>2. Note(p, FALSE) /\ UNCHANGED keyfile
    BY <1>2 DEF Change_passphrase
  <2> QED
    BY <2>1, <2>2, ReportBegin
<1>3. ASSUME NEW t \in Tasks, NEW p \in Places, NEW from \in Places, NEW new \in Passphrases,
             Import_key(t, p, from, new)
      PROVE  ReportInv'
  <2>1. tasks[t].kind = "unused" /\ Becomes(t, "import", "open", p, None, keyfile[from].key)
    BY <1>3, ImportBegins
  <2>2. Note(p, FALSE) /\ UNCHANGED keyfile
    BY <1>3 DEF Import_key
  <2> QED
    BY <2>1, <2>2, ReportBegin
<1>4. ASSUME NEW t \in Tasks, NEW p \in Places, Backup(t, p)
      PROVE  ReportInv'
  <2>1. PICK pass \in {session[p], keyring[p], None} : Becomes(t, "backup", "open", p, pass, NoKey)
    BY <1>4, BackupBegins
  <2>2. StepOf(t) # "fill"
    BY <1>4, BackupBegins DEF StepOf, StepAt
  <2> QED
    BY <1>4, <2>1, <2>2, ReportByTask DEF Backup
<1>5. ASSUME NEW t \in Tasks, Stops(t), StepOf(t) # "fill", UNCHANGED <<keyfile, history>>
      PROVE  ReportInv'
  BY <1>5, ReportByTask DEF Stops
<1>6. ASSUME NEW t \in Tasks, CheckExists(t)
      PROVE  ReportInv'
  <2>1. /\ UNCHANGED <<keyfile, history>> /\ StepOf(t) # "fill"
        /\ Stops(t) \/ Moves(t, "describe")
    BY <1>6, EndStops, GotoMoves DEF CheckExists, Steps, StepOf, StepAt
  <2>2. CASE Stops(t)
    BY <1>5, <2>1, <2>2
  <2>3. CASE Moves(t, "describe")
    BY <2>1, <2>3, ReportByTask DEF Moves
  <2> QED
    BY <2>1, <2>2, <2>3
<1>7. ASSUME NEW t \in Tasks, Add_bookmark(t) \/ Put_chunk(t)
      PROVE  ReportInv'
  <2>1. Stops(t) /\ StepOf(t) # "fill" /\ UNCHANGED <<keyfile, history>>
    BY <1>7, EndStops DEF Add_bookmark, Put_chunk, At, StepOf, StepAt
  <2> QED
    BY <1>5, <2>1
<1>8. ASSUME NEW t \in Tasks, Fails(t)
      PROVE  ReportInv'
  <2>1. Stops(t) /\ tasks[t].place \in Places /\ UNCHANGED history
    BY <1>8, FailedTask
  <2>2. CASE StepOf(t) # "fill"
    <3>1. UNCHANGED keyfile
      BY <1>8, <2>2, FailedTask
    <3> QED
      BY <1>5, <2>1, <2>2, <3>1
  <2>3. CASE StepOf(t) = "fill"
    <3>1. PICK p \in Places : p = tasks[t].place
      BY <2>1
    <3>2. /\ Rekeys(t) /\ OnlyFile(p)
          /\ keyfile'[p] = Torn \/ keyfile[p] # Unwritten
      BY <1>8, <2>3, <3>1, FailedTask DEF StepOf, StepAt
    <3>3. Calm("two at the key") => keyfile[p] = Unwritten
      BY <2>3, <3>1 DEF ReportInv, KeyUnwritten
    <3>4. Calm("two at the key") => Opening(p)'
      BY <3>2, <3>3 DEF Opening, KeyGone
    <3>5. StepOf(t)' \notin {"fill", "told"} /\ ~Creates(t)'
      BY <2>1 DEF Stops, Becomes, StepOf, StepAt, Creates, Makes
    <3>6. (Calm("two at the key")' => Calm("two at the key")) /\ (Calm("two makers") => Calm("two makers")')
      BY <2>1 DEF Calm
    <3>7. \A q \in Places \ {p} : keyfile'[q] = keyfile[q] /\ history'.reported[q] = history.reported[q]
      BY <2>1, <3>2 DEF OnlyFile
    <3> QED
      BY <2>1, <3>1, <3>2, <3>4, <3>5, <3>6, <3>7, ReportAtPlace
  <2> QED
    BY <2>2, <2>3
<1>9. ASSUME NEW t \in Tasks, Describe(t)
      PROVE  ReportInv'
  <2>1. /\ Rekeys(t) /\ Makes(t) /\ StepOf(t) = "describe" /\ tasks[t].place \in Places
        /\ UNCHANGED keyfile
    BY <1>9, Described
  <2>2. PICK p \in Places : p = tasks[t].place
    BY <2>1
  <2>3. Calm("two at the key") => keyfile[p].key = NoKey /\ history.reported[p] = None
    BY <2>1, <2>2 DEF ReportInv, MakersAlone, DescribedFirst, NothingReported, Blank
  <2>4. /\ history'.upset = history.upset
        /\ history'.reported[p] \in {None, history.reported[p]}
        /\ \A q \in Places \ {p} : history'.reported[q] = history.reported[q]
    BY <1>9, <2>2, Described DEF Reports
  <2>5. Calm("two at the key") => Opening(p)' /\ history'.reported[p] = None /\ keyfile'[p].key = NoKey
    BY <2>1, <2>3, <2>4 DEF Opening
  <2>6. (Calm("two at the key")' => Calm("two at the key")) /\ (Calm("two makers") => Calm("two makers")')
    BY <2>4 DEF Calm
  <2>7. \/ Stops(t)
        \/ Moves(t, "told") /\ tasks[t].pass = None
        \/ Moves(t, "key")
    BY <1>9, Described
  <2>8. StepOf(t)' # "fill" /\ (StepOf(t)' = "told" => tasks[t].pass = None)
    BY <2>7 DEF Stops, Moves, Becomes, StepOf, StepAt
  <2> QED
    BY <2>1, <2>2, <2>4, <2>5, <2>6, <2>7, <2>8, ReportAtPlace
<1>10. ASSUME NEW t \in Tasks, CreateKey(t)
       PROVE  ReportInv'
  <2>1. Makes(t) /\ Rekeys(t) /\ StepOf(t) = "fill" /\ tasks[t].place \in Places /\ t # NoKey
    BY <1>10, KeyCreated
  <2>2. PICK p \in Places : p = tasks[t].place
    BY <2>1
  <2>3. Calm("two at the key") => keyfile[p] = Unwritten /\ history.reported[p] = None
    BY <2>1, <2>2 DEF ReportInv, KeyUnwritten, Creates, StepOf, StepAt, Makes
  <2>4. /\ Calm("two at the key") => keyfile'[p].key # NoKey /\ keyfile'[p].pass = tasks[t].pass
        /\ \A q \in Places \ {p} : keyfile'[q] = keyfile[q]
    BY <1>10, <2>1, <2>2, <2>3, KeyCreated DEF OnlyFile
  <2>5. /\ history'.upset = history.upset
        /\ history'.reported[p] \in {tasks[t].pass, history.reported[p]}
        /\ \A q \in Places \ {p} : history'.reported[q] = history.reported[q]
        /\ Stops(t) \/ Moves(t, "told")
    BY <1>10, <2>2, KeyCreated DEF Reports
  <2>6. Calm("two at the key") => Opening(p)'
    BY <2>3, <2>4, <2>5 DEF Opening, Unlocks
  <2>7. StepOf(t)' # "fill" /\ ~Creates(t)'
    BY <2>5 DEF Stops, Moves, Becomes, StepOf, StepAt, Creates, Makes
  <2>8. (Calm("two at the key")' => Calm("two at the key")) /\ (Calm("two makers") => Calm("two makers")')
    BY <2>5 DEF Calm
  <2> QED
    BY <2>1, <2>2, <2>4, <2>5, <2>6, <2>7, <2>8, ReportAtPlace
<1>11. ASSUME NEW t \in Tasks, Told(t)
       PROVE  ReportInv'
  <2>1. Makes(t) /\ StepOf(t) = "told" /\ tasks[t].place \in Places
    BY <1>11, StepsOfKinds DEF Told, At, StepOf, StepAt, Makes, Rekeys
  <2>2. PICK p \in Places : p = tasks[t].place
    BY <2>1
  <2>3. Moves(t, "keep") /\ Report(t, tasks[t].pass) /\ UNCHANGED keyfile
    BY <1>11, GotoMoves DEF Told, Steps
  <2>4. tasks[t].pass \in Given
    BY DEF KeysTypeOK, Task
  <2>5. /\ history'.upset = history.upset
        /\ history'.reported[p] = tasks[t].pass
        /\ \A q \in Places \ {p} : history'.reported[q] = history.reported[q]
    BY <2>1, <2>2, <2>3, <2>4, ReportTyped DEF Reports
  <2>6. Calm("two at the key") /\ tasks[t].pass # None => Unlocks(p, tasks[t].pass)
    BY <2>1, <2>2 DEF ReportInv, TellsTrue
  <2>7. Calm("two at the key") => Opening(p)'
    BY <2>3, <2>5, <2>6 DEF Opening, Unlocks
  <2>8. StepOf(t)' \notin {"fill", "told"} /\ ~Creates(t)'
    BY <2>3 DEF Moves, Becomes, StepOf, StepAt, Creates, Makes
  <2>9. (Calm("two at the key")' => Calm("two at the key")) /\ (Calm("two makers") => Calm("two makers")')
    BY <2>5 DEF Calm
  <2> QED
    BY <2>1, <2>2, <2>3, <2>5, <2>7, <2>8, <2>9, ReportAtPlace DEF Rekeys
<1>12. ASSUME NEW t \in Tasks, OpenToWrap(t)
       PROVE  ReportInv'
  <2>1. UNCHANGED <<keyfile, history>> /\ StepOf(t) # "fill"
    BY <1>12 DEF OpenToWrap, StepOf, StepAt
  <2>2. CASE Stops(t)
    BY <1>5, <2>1, <2>2
  <2>3. CASE \E key \in Keys \ {NoKey} :
               Becomes(t, tasks[t].kind, "wrap", tasks[t].place, tasks[t].pass, key)
    BY <2>1, <2>3, ReportByTask
  <2> QED
    BY <1>12, <2>2, <2>3, OpenToWrapOpens
<1>13. ASSUME NEW t \in Tasks, Wrap(t)
       PROVE  ReportInv'
  <2>1. /\ StepOf(t) = "fill" /\ Rekeys(t) /\ tasks[t].place \in Places
        /\ tasks[t].key # NoKey /\ Stops(t)
    BY <1>13, Wrapped
  <2>2. PICK p \in Places : p = tasks[t].place
    BY <2>1
  <2>3. Calm("two at the key") => keyfile[p] = Unwritten
    BY <2>1, <2>2 DEF ReportInv, KeyUnwritten
  <2>4. /\ Calm("two at the key") => keyfile'[p].key # NoKey /\ keyfile'[p].pass = tasks[t].new
        /\ \A q \in Places \ {p} : keyfile'[q] = keyfile[q]
    BY <1>13, <2>1, <2>2, <2>3, Wrapped DEF OnlyFile
  <2>5. /\ history'.upset = history.upset \/ history'.upset = history.upset \cup {"foreign key"}
        /\ history'.reported[p] = tasks[t].new
        /\ \A q \in Places \ {p} : history'.reported[q] = history.reported[q]
    BY <1>13, <2>2, Wrapped DEF Rewraps, Reports
  <2>6. Calm("two at the key") => Opening(p)'
    BY <2>4, <2>5 DEF Opening, Unlocks
  <2>7. StepOf(t)' \notin {"fill", "told"} /\ ~Creates(t)'
    BY <2>1 DEF Stops, Becomes, StepOf, StepAt, Creates, Makes
  <2>8. (Calm("two at the key")' => Calm("two at the key")) /\ (Calm("two makers") => Calm("two makers")')
    BY <2>5 DEF Calm
  <2> QED
    BY <2>1, <2>2, <2>4, <2>5, <2>6, <2>7, <2>8, ReportAtPlace
<1>14. ASSUME NEW t \in Tasks, OpenForBackup(t)
       PROVE  ReportInv'
  <2>1. UNCHANGED <<keyfile, history>> /\ StepOf(t) # "fill"
    BY <1>14 DEF OpenForBackup, At, StepOf, StepAt
  <2>2. CASE Stops(t)
    BY <1>5, <2>1, <2>2
  <2>3. ASSUME NEW pc \in {"put", "keyless"}, NEW key,
               Becomes(t, "backup", pc, tasks[t].place, tasks[t].pass, key)
        PROVE  ReportInv'
    BY <2>1, <2>3, ReportByTask
  <2> QED
    BY <1>14, <2>2, <2>3, OpenForBackupOpens
<1>15. ASSUME NEW t \in Tasks, OpenKeyFile(t)
       PROVE  ReportInv'
  <2>1. /\ Moves(t, "fill") /\ Rekeys(t) /\ tasks[t].place \in Places
        /\ (Makes(t) /\ StepOf(t) = "key") \/ (Wraps(t) /\ StepOf(t) = "wrap")
        /\ OnlyFile(tasks[t].place) /\ keyfile'[tasks[t].place] = Unwritten /\ UNCHANGED history
    BY <1>15, KeyFileOpened
  <2>2. PICK p \in Places : p = tasks[t].place
    BY <2>1
  <2>3. /\ tasks'[t].kind = tasks[t].kind /\ tasks'[t].place = p /\ tasks'[t].pc = "fill"
    BY <2>1, <2>2 DEF Moves, Becomes
  <2>4. Opening(p)'
    BY <2>1, <2>2, <2>3 DEF Opening, KeyGone, Rekeys, Makes, Wraps
  <2>5. Calm("two at the key") /\ Creates(t)' => history'.reported[p] = None
    <3>1. Creates(t)' => Creates(t)
      BY <2>1, <2>3 DEF Creates, Makes, StepOf, StepAt, Wraps
    <3> QED
      BY <2>1, <2>2, <3>1 DEF ReportInv, KeyUnwritten
  <2>6. StepOf(t)' # "told"
    BY <2>3 DEF StepOf, StepAt
  <2>7. (Calm("two at the key")' => Calm("two at the key")) /\ (Calm("two makers") => Calm("two makers")')
    BY <2>1 DEF Calm
  <2>8. /\ keyfile'[p] = Unwritten /\ keyfile'[p].key = NoKey
        /\ \A q \in Places \ {p} : keyfile'[q] = keyfile[q] /\ history'.reported[q] = history.reported[q]
    BY <2>1, <2>2, KeyFiles DEF OnlyFile
  <2> QED
    BY <2>1, <2>2, <2>4, <2>5, <2>6, <2>7, <2>8, ReportAtPlace
<1>16. ASSUME UNCHANGED keyfile, history'.upset = history.upset, history'.reported = history.reported,
              \A u \in Tasks : tasks'[u] = tasks[u] \/ (tasks'[u].kind = "ended" /\ tasks[u].pc # "fill")
       PROVE  ReportInv'
  <2> SUFFICES ASSUME Calm("two at the key")'
               PROVE  ReportInv'
    BY DEF ReportInv
  <2>1. /\ Calm("two makers") /\ RekeysAlone /\ KeyUnwritten /\ TellsTrue
        /\ \A q \in Places : Opening(q)
    BY <1>16 DEF ReportInv, Calm
  <2>2. Calm("two makers")'
    BY <1>16, <2>1 DEF Calm
  <2>3. \A u \in Tasks : Rekeys(u)' => Rekeys(u) /\ tasks'[u] = tasks[u]
    BY <1>16 DEF Rekeys, Makes, Wraps
  <2>4. RekeysAlone'
    BY <2>1, <2>3 DEF RekeysAlone
  <2>5. KeyUnwritten' /\ TellsTrue'
    BY <1>16, <2>1 DEF KeyUnwritten, TellsTrue, Unlocks, StepOf, StepAt, Creates, Makes
  <2>6. ASSUME NEW q \in Places
        PROVE  Opening(q)'
    <3>1. KeyGone(q) => KeyGone(q)'
      BY <1>16, GoneStays
    <3> QED
      BY <1>16, <2>1, <3>1 DEF Opening, Unlocks
  <2> QED
    BY <2>2, <2>4, <2>5, <2>6 DEF ReportInv
<1>17. ASSUME NEW p \in Places, Select(p)
       PROVE  ReportInv'
  BY <1>16, <1>17 DEF Select
<1>18. CASE Crash
  <2>1. \A u \in Tasks : tasks'[u] = tasks[u] \/ (tasks'[u].kind = "ended" /\ tasks[u].pc # "fill")
    BY <1>18 DEF Crash, Ended, Unused, At
  <2>2. history'.upset = history.upset /\ history'.reported = history.reported
    BY <1>18 DEF Crash, KeysTypeOK, Kept
  <2> QED
    BY <1>16, <1>18, <2>1, <2>2 DEF Crash
<1>19. CASE UNCHANGED vars
  BY <1>16, <1>19 DEF vars
<1> QED
  BY <1>1, <1>2, <1>3, <1>4, <1>6, <1>7, <1>8, <1>9, <1>10, <1>11, <1>12, <1>13, <1>14, <1>15,
     <1>17, <1>18, <1>19
     DEF Next, MakeStep, KeyStep, BackupStep, Given

-------------------------------------------------------------------------------
(***************************************************************************)
(* The theorems                                                            *)
(***************************************************************************)

\* What decides whether a place can be opened: types, the order of a making, and who is
\* alone at it.
MakingOrdered == KeysTypeOK /\ TasksRun /\ DescribedFirst /\ NothingReported /\ MakersAlone

LEMMA KeysInit ==
  ASSUME Init
  PROVE  /\ DescribedFirst /\ NothingReported /\ MakersAlone
         /\ KeyInv /\ GoneInWrite /\ ReportInv
<1>1. PICK pass \in Passphrases :
        /\ keyfile = [p \in Places |-> IF p = First THEN [key |-> FirstKey, pass |-> pass] ELSE Unwritten]
        /\ keyring = [p \in Places |-> IF p = First THEN pass ELSE None]
        /\ history = [reported |-> [p \in Places |-> IF p = First THEN pass ELSE None],
                      made |-> [p \in Places |-> IF p = First THEN FirstKey ELSE NoKey],
                      upset |-> {}, crashes |-> 0]
  BY DEF Init
<1>2. \A t \in Tasks : tasks[t] = Unused /\ Unused.kind = "unused"
  BY DEF Init, Unused
<1>3. \A t \in Tasks : StepOf(t) = "none" /\ ~Rekeys(t) /\ tasks[t].kind # "backup" /\ ~Creates(t)
  BY <1>2 DEF StepOf, StepAt, Rekeys, Makes, Wraps, Creates
<1>4. /\ \A p \in Places : archives[p] = {} /\ session[p] = None
      /\ \A p \in Places : descriptor[p] = "none" => p # First
      /\ FirstKey # NoKey
  BY KeysNumbered DEF Init, FirstKey, NoKey
<1>5. \A p \in Places : descriptor[p] = "none" => Blank(p) /\ history.reported[p] = None
  BY <1>1, <1>3, <1>4, KeyFiles DEF Blank
<1>6. DescribedFirst /\ NothingReported /\ MakersAlone
  BY <1>3, <1>5 DEF DescribedFirst, NothingReported, MakersAlone, Rekeys, Late
<1>7. \A p \in Places : IF p = First THEN keyfile[p].key = FirstKey /\ history.made[p] = FirstKey
                                    ELSE keyfile[p].key = NoKey /\ history.made[p] = NoKey
  BY <1>1, KeyFiles
<1>8. KeyInv /\ GoneInWrite
  BY <1>3, <1>4, <1>7 DEF KeyInv, KeysFit, BackupFits, Fits, FileFits, GoneInWrite
<1>9. \A p \in Places : Opening(p)
  BY <1>1, <1>4, KeyFiles DEF Opening, Unlocks
<1>10. ReportInv
  BY <1>1, <1>3, <1>9 DEF ReportInv, Calm, RekeysAlone, KeyUnwritten, TellsTrue
<1> QED
  BY <1>6, <1>8, <1>10

\* A repository's descriptor is written before anything else of it, and who makes one
\* finds nothing there: also after makers failed or the window was killed half-way.
THEOREM MakingOrderedCorrect == Spec => []MakingOrdered
<1>1. Init => DescribedFirst /\ NothingReported /\ MakersAlone
  BY KeysInit
<1>2. /\ KeysTypeOK /\ TasksRun /\ DescribedFirst /\ NothingReported /\ MakersAlone
      /\ [Next]_vars
      => (DescribedFirst /\ NothingReported /\ MakersAlone)'
  BY DescribedStep, NothingStep, AloneStep
<1> QED
  BY <1>1, <1>2, KeysTypeCorrect, PTL DEF Spec, MakingOrdered

\* What is stored in a repository is stored under the key that its key file holds, and
\* from there the key goes only in a write.
THEOREM KeyFitsCorrect == Spec => []KeyFits
<1>1. Init => KeyInv /\ GoneInWrite
  BY KeysInit
<1>2. MakingOrdered /\ (KeyInv /\ GoneInWrite) /\ [Next]_vars => (KeyInv /\ GoneInWrite)'
  BY FitStep, GoneStep DEF MakingOrdered
<1>3. KeyInv /\ GoneInWrite => KeyFits
  <2> SUFFICES ASSUME KeyInv, GoneInWrite, Undisturbed, NEW p \in Places, NEW key \in archives[p]
               PROVE  IF descriptor[p] = "plain" THEN key = NoKey ELSE key = keyfile[p].key \/ KeyGone(p)
    BY DEF KeyFits, Undisturbed, Calm
  <2>1. Fits(p) /\ FileFits(p)
    BY DEF KeyInv, KeysFit
  <2> QED
    BY <2>1 DEF Fits, FileFits, GoneInWrite
<1> QED
  BY <1>1, <1>2, <1>3, MakingOrderedCorrect, PTL DEF Spec

\* The passphrase last reported as a repository's opens it, unless its key file is being
\* written or was left torn.
THEOREM ReportedOpensCorrect == Spec => []ReportedOpens
<1>1. Init => ReportInv
  BY KeysInit
<1>2. MakingOrdered /\ ReportInv /\ [Next]_vars => ReportInv'
  BY ReportStep DEF MakingOrdered
<1>3. ReportInv => ReportedOpens
  BY DEF ReportInv, Calm, Opening, ReportedOpens
<1> QED
  BY <1>1, <1>2, <1>3, MakingOrderedCorrect, PTL DEF Spec
-------------------------------------------------------------------------------
(***************************************************************************)
(* The two files of a chunk                                                *)
(***************************************************************************)


Due(k) == \E c \in open : written[c] < k

\* Only a file that is written in place is ever open, and it is there; only with
\* a codec does a client get as far as the parity.
Opened ==
  /\ open # {} => setup.inPlace /\ obj # NoFile
  /\ \A c \in Clients : stage[c] = "parity" => setup.recovery
  /\ \A c \in Clients : stage[c] \in {"idle", "opened"} => written[c] = 0

FilesTypeInv == FilesTypeOK /\ Opened

\* Who has stored the chunk, found it or listed it, finds it until gc deletes it.
Present ==
  /\ "gc" \notin harm
  /\ \/ \E c \in Clients : stage[c] \in {"object", "parity", "done"}
     \/ cached # {}
     \/ report = "listed"
  => obj # NoFile

\* The object is of version v, but for pieces that are due.
OfVersion(v) ==
  /\ \A k \in PieceRange : obj[k] = v \/ Due(k)
  /\ \A c \in open : Version(c) = v

Whole == harm \cap Spoilers = {} /\ obj # NoFile => \E v \in Versions : OfVersion(v)

\* Everybody who writes writes version v, the object is of it, but for pieces due
\* or rotten, and so is its parity, unless that is due as well.
FitsVersion(v) ==
  /\ \A k \in PieceRange : obj[k] \in {v, "rot"} \/ Due(k)
  /\ \A c \in Writing : Version(c) = v
  /\ setup.recovery => par = v \/ Writing # {}

Fitting == harm \subseteq {"rot", "gc"} /\ obj # NoFile => \E v \in Versions : FitsVersion(v)

FilesInv == FilesTypeInv /\ Present /\ Whole /\ Fitting


LEMMA VersionType == setup \in Setups => \A c \in Clients : Version(c) \in Versions
  BY DEF Version, Setups

LEMMA FileIsNotNoFile ==
  ASSUME NEW S, NEW f \in [PieceRange -> S] PROVE f # NoFile
  BY SizesAssumption DEF PieceRange, NoFile

LEMMA FilledType == ASSUME NEW v PROVE Filled(v) \in [PieceRange -> {v}] /\ Filled(v) # NoFile
  BY FileIsNotNoFile DEF Filled

Files == [PieceRange -> Versions \cup {"hole", "rot"}]

LEMMA RottenFile ==
  ASSUME FilesTypeInv, NEW k \in PieceRange, Rot(k)
  PROVE  obj' \in Files /\ obj' # NoFile
<1>1. obj' \in Files
  BY DEF FilesTypeInv, FilesTypeOK, Rot, Files
<1>2. QED
  BY <1>1, FileIsNotNoFile DEF Files

LEMMA WrittenFile ==
  ASSUME FilesTypeInv, NEW c \in Clients, WritePiece(c)
  PROVE  /\ written[c] + 1 \in PieceRange
         /\ c \in open => obj' \in Files /\ obj' # NoFile
         /\ c \notin open => obj' = obj
<1> USE DEF FilesTypeInv, FilesTypeOK, Opened
<1>1. written[c] + 1 \in PieceRange
  BY SizesAssumption DEF WritePiece, PieceRange
<1>2. c \in open => obj' \in Files
  BY <1>1, VersionType DEF WritePiece, Files
<1>3. c \in open => obj' # NoFile
  BY <1>2, FileIsNotNoFile DEF Files
<1>4. QED
  BY <1>1, <1>2, <1>3 DEF WritePiece

LEMMA FilesInitInv == FilesInit => FilesInv
<1> SUFFICES ASSUME FilesInit
             PROVE  FilesInv
  OBVIOUS
<1>1. FilesTypeOK
  BY SizesAssumption DEF FilesInit, FilesTypeOK, Harms
<1>2. Opened /\ Present /\ Whole /\ Fitting
  BY DEF FilesInit, Opened, Present, Whole, Fitting
<1>3. QED
  BY <1>1, <1>2 DEF FilesInv, FilesTypeInv

LEMMA FilesTypeStep == FilesTypeInv /\ [FilesNext]_fileVars => FilesTypeInv'
<1> SUFFICES ASSUME FilesTypeInv, [FilesNext]_fileVars
             PROVE  FilesTypeInv'
  OBVIOUS
<1> USE SizesAssumption DEF FilesTypeInv, Opened, FilesTypeOK, Harms, Proceeds
<1>1. ASSUME NEW c \in Clients, OpenRepository(c) \/ Deduplicate(c)
      PROVE  FilesTypeInv'
  BY <1>1 DEF OpenRepository, Deduplicate
<1>2. ASSUME NEW c \in Clients, PutObject(c) \/ CreateObject(c)
      PROVE  FilesTypeInv'
  <2>1. harm' \subseteq Harms
    BY <1>2 DEF PutObject, CreateObject, MayMix
  <2>0. written' \in [Clients -> 0 .. Pieces]
    BY <1>2 DEF PutObject, CreateObject
  <2>2. obj' \in [PieceRange -> Versions \cup {"hole", "rot"}] /\ obj' # NoFile
    BY <1>2, FilledType, VersionType DEF PutObject, CreateObject, Empty
  <2>3. QED
    BY <1>2, <2>0, <2>1, <2>2 DEF PutObject, CreateObject
<1>3. ASSUME NEW c \in Clients, WritePiece(c)
      PROVE  FilesTypeInv'
  <2>1. written' \in [Clients -> 0 .. Pieces]
    BY <1>3 DEF WritePiece
  <2>2. QED
    BY <1>3, <2>1, WrittenFile DEF WritePiece, Files
<1>4. ASSUME NEW c \in Clients, SkipParity(c) \/ BeginParity(c) \/ FinishParity(c)
      PROVE  FilesTypeInv'
  <2>1. CASE SkipParity(c)
    BY <2>1 DEF SkipParity
  <2>2. CASE BeginParity(c)
    BY <2>2 DEF BeginParity
  <2>3. CASE FinishParity(c)
    <3>1. setup.recovery /\ par' \in {"none", "torn"} \cup Versions
      BY <2>3, VersionType DEF FinishParity
    <3>2. QED
      BY <2>3, <3>1 DEF FinishParity
  <2>4. QED
    BY <1>4, <2>1, <2>2, <2>3
<1>5. ASSUME NEW c \in Clients, Fail(c)
      PROVE  FilesTypeInv'
  BY <1>5 DEF Fail
<1>6. ASSUME NEW k \in PieceRange, Rot(k)
      PROVE  FilesTypeInv'
  <2>1. obj' \in Files /\ obj' # NoFile
    BY <1>6, RottenFile
  <2>2. harm' \subseteq Harms
    BY <1>6 DEF Rot
  <2>3. UNCHANGED <<setup, open, par, stage, written, cached, report>>
    BY <1>6 DEF Rot
  <2>4. QED
    BY <2>1, <2>2, <2>3 DEF Files
<1>7. CASE Collect
  BY <1>7 DEF Collect
<1>8. CASE ListForVerify \/ Verify
  BY <1>8 DEF ListForVerify, Verify, Verdict, putVars
<1>9. CASE UNCHANGED fileVars
  BY <1>9 DEF fileVars, putVars
<1>10. QED
  BY <1>1, <1>2, <1>3, <1>4, <1>5, <1>6, <1>7, <1>8, <1>9 DEF FilesNext, PutStep

LEMMA PresentStep == FilesTypeInv /\ Present /\ [FilesNext]_fileVars => Present'
<1> SUFFICES ASSUME FilesTypeInv, Present, [FilesNext]_fileVars
             PROVE  Present'
  OBVIOUS
<1> USE DEF FilesTypeInv, FilesTypeOK, Present, Proceeds
<1>1. ASSUME NEW c \in Clients, OpenRepository(c) \/ Deduplicate(c)
      PROVE  Present'
  BY <1>1 DEF OpenRepository, Deduplicate
<1>2. ASSUME NEW c \in Clients, PutObject(c) \/ CreateObject(c)
      PROVE  Present'
  BY <1>2, FilledType DEF PutObject, CreateObject, Empty
<1>3. ASSUME NEW c \in Clients, WritePiece(c)
      PROVE  Present'
  BY <1>3, WrittenFile DEF WritePiece
<1>4. ASSUME NEW c \in Clients, SkipParity(c) \/ BeginParity(c) \/ FinishParity(c)
      PROVE  Present'
  BY <1>4 DEF SkipParity, BeginParity, FinishParity
<1>5. ASSUME NEW c \in Clients, Fail(c)
      PROVE  Present'
  BY <1>5 DEF Fail
<1>6. ASSUME NEW k \in PieceRange, Rot(k)
      PROVE  Present'
  BY <1>6, RottenFile
<1>7. CASE Collect
  BY <1>7 DEF Collect
<1>8. CASE ListForVerify \/ Verify
  BY <1>8 DEF ListForVerify, Verify, Verdict, putVars
<1>9. CASE UNCHANGED fileVars
  BY <1>9 DEF fileVars, putVars
<1>10. QED
  BY <1>1, <1>2, <1>3, <1>4, <1>5, <1>6, <1>7, <1>8, <1>9 DEF FilesNext, PutStep

LEMMA HarmStays == FilesTypeInv /\ [FilesNext]_fileVars => setup' = setup /\ harm \subseteq harm'
  BY DEF FilesNext, PutStep, OpenRepository, Deduplicate, PutObject, CreateObject, MayMix,
         WritePiece, SkipParity, BeginParity, FinishParity, Fail, Rot, Collect,
         ListForVerify, Verify, putVars, fileVars

LEMMA WholeStep == FilesTypeInv /\ Whole /\ [FilesNext]_fileVars => Whole'
<1> SUFFICES ASSUME FilesTypeInv, Whole, [FilesNext]_fileVars,
                    (harm \cap Spoilers = {})', obj' # NoFile
             PROVE  \E v \in Versions : OfVersion(v)'
  BY DEF Whole
<1>1. harm \cap Spoilers = {} /\ setup' = setup
  BY HarmStays DEF Spoilers
<1> USE DEF FilesTypeInv, FilesTypeOK, Opened, Proceeds
<1>2. ASSUME NEW c \in Clients, PutObject(c)
      PROVE  \E v \in Versions : OfVersion(v)'
  <2>1. open' = {} /\ obj' = Filled(Version(c))
    BY <1>2 DEF PutObject
  <2>2. QED
    BY <2>1, VersionType DEF OfVersion, Due, Filled
<1>3. ASSUME NEW c \in Clients, CreateObject(c)
      PROVE  \E v \in Versions : OfVersion(v)'
  <2>1. \A d \in Writing : Version(d) = Version(c)
    BY <1>1, <1>3 DEF CreateObject, MayMix, Spoilers
  <2>2. \A d \in open' : Version(d) = Version(c)
    BY <1>3, <2>1 DEF CreateObject, Writing
  <2>3. c \in open' /\ written'[c] = 0
    BY <1>3 DEF CreateObject
  <2>4. \A k \in PieceRange : Due(k)'
    BY <2>3 DEF Due, PieceRange
  <2>5. Version(c)' = Version(c)
    BY <1>1 DEF Version
  <2>6. \A d \in open' : Version(d)' = Version(c)
    BY <1>1, <2>2 DEF Version
  <2>7. OfVersion(Version(c))'
    BY <2>4, <2>5, <2>6 DEF OfVersion
  <2>8. QED
    BY <2>5, <2>7, VersionType
<1>4. ASSUME \A c \in Clients : ~PutObject(c) /\ ~CreateObject(c)
      PROVE  obj # NoFile
  BY <1>4, WrittenFile
     DEF FilesNext, PutStep, OpenRepository, Deduplicate, SkipParity, BeginParity,
         FinishParity, Fail, Rot, Collect, ListForVerify, Verify, putVars, fileVars
<1>5. ASSUME \A c \in Clients : ~PutObject(c) /\ ~CreateObject(c),
             NEW v \in Versions, OfVersion(v)
      PROVE  OfVersion(v)'
  <2>1. ASSUME NEW c \in Clients, OpenRepository(c) \/ Deduplicate(c)
        PROVE  OfVersion(v)'
    BY <1>5, <2>1 DEF OpenRepository, Deduplicate, OfVersion, Due, Version
  <2>2. ASSUME NEW c \in Clients, WritePiece(c), c \in open
        PROVE  OfVersion(v)'
    <3>1. obj' = [obj EXCEPT ![written[c] + 1] = v] /\ written' = [written EXCEPT ![c] = @ + 1]
      BY <1>5, <2>2 DEF WritePiece, OfVersion
    <3>2. \A k \in PieceRange : obj'[k] = v \/ Due(k)'
      <4> SUFFICES ASSUME NEW k \in PieceRange, obj'[k] # v
                   PROVE  Due(k)'
        OBVIOUS
      <4>1. k # written[c] + 1 /\ obj[k] # v
        BY <1>5, <2>2, <3>1, WrittenFile
      <4>2. PICK d \in open : written[d] < k
        BY <1>5, <4>1 DEF OfVersion, Due
      <4>3. written'[d] < k
        BY <3>1, <4>1, <4>2 DEF PieceRange
      <4>4. QED
        BY <2>2, <4>2, <4>3 DEF Due, WritePiece
    <3>3. QED
      BY <1>1, <1>5, <2>2, <3>2 DEF OfVersion, WritePiece, Version
  <2>3. ASSUME NEW c \in Clients, WritePiece(c), c \notin open
        PROVE  OfVersion(v)'
    BY <1>5, <2>3 DEF WritePiece, OfVersion, Due, Version
  <2>4. ASSUME NEW c \in Clients, SkipParity(c) \/ BeginParity(c) \/ FinishParity(c)
        PROVE  OfVersion(v)'
    <3>1. \A d \in open : d \notin open' => written[d] = Pieces
      BY <2>4 DEF SkipParity, BeginParity, FinishParity
    <3>2. written' = written /\ obj' = obj /\ open' \subseteq open
      BY <2>4 DEF SkipParity, BeginParity, FinishParity
    <3>3. QED
      BY <1>1, <1>5, <3>1, <3>2, SizesAssumption DEF OfVersion, Due, Version, PieceRange
  <2>5. ASSUME NEW c \in Clients, Fail(c)
        PROVE  OfVersion(v)'
    <3>1. c \notin open \/ written[c] = Pieces
      BY <1>1, <2>5, SizesAssumption DEF Fail, Spoilers
    <3>2. written' = written /\ obj' = obj /\ open' = open \ {c}
      BY <2>5 DEF Fail
    <3>3. QED
      BY <1>1, <1>5, <3>1, <3>2, SizesAssumption DEF OfVersion, Due, Version, PieceRange
  <2>6. ASSUME NEW k \in PieceRange, Rot(k)
        PROVE  FALSE
    BY <1>1, <2>6 DEF Rot, Spoilers
  <2>7. ASSUME ListForVerify \/ Verify \/ UNCHANGED fileVars
        PROVE  OfVersion(v)'
    BY <1>5, <2>7 DEF ListForVerify, Verify, putVars, fileVars, OfVersion, Due, Version
  <2>8. CASE Collect
    BY <2>8 DEF Collect
  <2>9. QED
    BY <1>5, <2>1, <2>2, <2>3, <2>4, <2>5, <2>6, <2>7, <2>8 DEF FilesNext, PutStep
<1>6. QED
  BY <1>1, <1>2, <1>3, <1>4, <1>5 DEF Whole

LEMMA FittingStep == FilesTypeInv /\ Fitting /\ [FilesNext]_fileVars => Fitting'
<1> SUFFICES ASSUME FilesTypeInv, Fitting, [FilesNext]_fileVars,
                    harm' \subseteq {"rot", "gc"}, obj' # NoFile
             PROVE  \E v \in Versions : FitsVersion(v)'
  BY DEF Fitting
<1>1. harm \subseteq {"rot", "gc"} /\ setup' = setup
  BY HarmStays
<1> USE DEF FilesTypeInv, FilesTypeOK, Opened, Proceeds
<1>2. ASSUME NEW c \in Clients, PutObject(c) \/ CreateObject(c)
      PROVE  \E v \in Versions : FitsVersion(v)'
  <2>1. Writing' = Writing \cup {c}
    BY <1>2 DEF PutObject, CreateObject, Writing
  <2>2. \A d \in Writing : Version(d) = Version(c)
    BY <1>1, <1>2 DEF PutObject, CreateObject, MayMix
  <2>3. \A d \in Writing' : Version(d)' = Version(c)
    BY <1>1, <2>1, <2>2 DEF Version
  <2>4. \A k \in PieceRange : obj'[k] = Version(c) \/ Due(k)'
    <3>1. CASE PutObject(c)
      BY <3>1 DEF PutObject, Filled
    <3>2. CASE CreateObject(c)
      <4>1. c \in open' /\ written'[c] = 0
        BY <3>2 DEF CreateObject
      <4>2. \A k \in PieceRange : 0 < k
        BY SizesAssumption DEF PieceRange
      <4>3. QED
        BY <4>1, <4>2 DEF Due
    <3>3. QED
      BY <1>2, <3>1, <3>2
  <2>5. FitsVersion(Version(c))'
    <3>1. Version(c)' = Version(c)
      BY <1>1 DEF Version
    <3>2. QED
      BY <2>1, <2>3, <2>4, <3>1 DEF FitsVersion
  <2>6. QED
    BY <1>1, <2>5, VersionType DEF Version
<1>3. ASSUME \A c \in Clients : ~PutObject(c) /\ ~CreateObject(c)
      PROVE  obj # NoFile
  BY <1>3, WrittenFile
     DEF FilesNext, PutStep, OpenRepository, Deduplicate, SkipParity, BeginParity,
         FinishParity, Fail, Rot, Collect, ListForVerify, Verify, putVars, fileVars
<1>4. ASSUME \A c \in Clients : ~PutObject(c) /\ ~CreateObject(c),
             NEW v \in Versions, FitsVersion(v)
      PROVE  FitsVersion(v)'
  <2>1. ASSUME NEW c \in Clients, OpenRepository(c) \/ Deduplicate(c)
        PROVE  FitsVersion(v)'
    <3>1. Writing' = Writing
      BY <2>1 DEF OpenRepository, Deduplicate, Writing
    <3>2. QED
      BY <1>1, <1>4, <2>1, <3>1 DEF OpenRepository, Deduplicate, FitsVersion, Due, Version
  <2>2. ASSUME NEW c \in Clients, WritePiece(c)
        PROVE  FitsVersion(v)'
    <3>1. Writing' = Writing /\ c \in Writing /\ par' = par /\ open' = open
      BY <2>2 DEF WritePiece, Writing
    <3>2. \A k \in PieceRange : obj'[k] \in {v, "rot"} \/ Due(k)'
      <4> SUFFICES ASSUME NEW k \in PieceRange, obj'[k] \notin {v, "rot"}
                   PROVE  Due(k)'
        OBVIOUS
      <4>1. obj[k] \notin {v, "rot"} /\ (c \in open => k # written[c] + 1)
        BY <1>4, <2>2, <3>1, WrittenFile DEF WritePiece, FitsVersion
      <4>2. PICK d \in open : written[d] < k
        BY <1>4, <4>1 DEF FitsVersion, Due
      <4>3. written'[d] < k
        BY <2>2, <4>1, <4>2 DEF WritePiece, PieceRange
      <4>4. QED
        BY <3>1, <4>2, <4>3 DEF Due
    <3>3. QED
      BY <1>1, <1>4, <3>1, <3>2 DEF FitsVersion, Version
  <2>3. ASSUME NEW c \in Clients, SkipParity(c) \/ BeginParity(c) \/ FinishParity(c)
        PROVE  FitsVersion(v)'
    <3>1. \A d \in open : d \notin open' => written[d] = Pieces
      BY <2>3 DEF SkipParity, BeginParity, FinishParity
    <3>2. written' = written /\ obj' = obj /\ open' \subseteq open
      BY <2>3 DEF SkipParity, BeginParity, FinishParity
    <3>3. \A k \in PieceRange : obj'[k] \in {v, "rot"} \/ Due(k)'
      BY <1>4, <3>1, <3>2, SizesAssumption DEF FitsVersion, Due, PieceRange
    <3>4. Writing' \subseteq Writing
      BY <2>3 DEF SkipParity, BeginParity, FinishParity, Writing
    <3>5. setup.recovery => par' = v \/ Writing' # {}
      BY <1>1, <1>4, <2>3
         DEF SkipParity, BeginParity, FinishParity, Writing, FitsVersion
    <3>6. QED
      BY <1>1, <1>4, <3>3, <3>4, <3>5 DEF FitsVersion, Version
  <2>4. ASSUME NEW c \in Clients, Fail(c)
        PROVE  FitsVersion(v)'
    <3>1. c \notin open \/ written[c] = Pieces
      BY <1>1, <2>4, SizesAssumption DEF Fail
    <3>2. written' = written /\ obj' = obj /\ par' = par /\ open' = open \ {c}
      BY <2>4 DEF Fail
    <3>3. \A k \in PieceRange : obj'[k] \in {v, "rot"} \/ Due(k)'
      BY <1>4, <3>1, <3>2, SizesAssumption DEF FitsVersion, Due, PieceRange
    <3>4. Writing' = Writing \ {c} /\ (setup.recovery => c \notin Writing)
      BY <1>1, <2>4 DEF Fail, Writing
    <3>5. QED
      BY <1>1, <1>4, <3>2, <3>3, <3>4 DEF FitsVersion, Version
  <2>5. ASSUME NEW k \in PieceRange, Rot(k)
        PROVE  FitsVersion(v)'
    <3>1. Writing' = Writing
      BY <2>5 DEF Rot, Writing
    <3>2. QED
      BY <1>1, <1>4, <2>5, <3>1 DEF Rot, FitsVersion, Due, Version
  <2>6. CASE Collect
    BY <2>6 DEF Collect
  <2>7. CASE ListForVerify \/ Verify \/ UNCHANGED fileVars
    <3>1. UNCHANGED <<setup, putVars>>
      BY <2>7 DEF ListForVerify, Verify, fileVars
    <3>2. QED
      BY <1>4, <3>1 DEF putVars, FitsVersion, Due, Version, Writing
  <2>8. QED
    BY <1>4, <2>1, <2>2, <2>3, <2>4, <2>5, <2>6, <2>7 DEF FilesNext, PutStep
<1>5. QED
  BY <1>1, <1>2, <1>3, <1>4 DEF Fitting

LEMMA FilesInductive == FilesSpec => []FilesInv
<1>1. FilesInv /\ [FilesNext]_fileVars => FilesInv'
  BY FilesTypeStep, PresentStep, WholeStep, FittingStep DEF FilesInv
<1>2. QED
  BY <1>1, FilesInitInv, PTL DEF FilesSpec

-------------------------------------------------------------------------------
\* The variables stay in their types, whatever the clients, the medium and gc do.
THEOREM FilesTypeCorrect == FilesSpec => []FilesTypeOK
<1>1. FilesInv => FilesTypeOK
  BY DEF FilesInv, FilesTypeInv
<1>2. QED
  BY <1>1, FilesInductive, PTL

LEMMA NothingOpen == FilesTypeInv /\ Writing = {} => open = {}
  BY DEF FilesTypeInv, FilesTypeOK, Writing

LEMMA WholeIsIntact == FilesInv /\ harm \cap Spoilers = {} /\ obj # NoFile /\ Writing = {} => Intact(obj)
<1> SUFFICES ASSUME FilesInv, harm \cap Spoilers = {}, obj # NoFile, Writing = {}
             PROVE  \E v \in Versions : obj = Filled(v)
  BY DEF Intact
<1>1. PICK v \in Versions : OfVersion(v)
  BY DEF FilesInv, Whole
<1>2. \A k \in PieceRange : obj[k] = v
  BY <1>1, NothingOpen DEF FilesInv, OfVersion, Due
<1>3. QED
  BY <1>2 DEF FilesInv, FilesTypeInv, FilesTypeOK, Filled

\* What put_chunk stored or found stored can be read back, for any number of
\* clients that store the same chunk, unless one of the spoilers struck.
THEOREM StoredStaysCorrect == FilesSpec => []StoredStays
<1>1. FilesInv => StoredStays
  BY WholeIsIntact DEF StoredStays, FilesInv, Present, Spoilers
<1>2. QED
  BY <1>1, FilesInductive, PTL

\* The parity fits the object, for any number of pieces, unless a client failed
\* or clients with different versions overlapped.
THEOREM ParityFitsCorrect == FilesSpec => []ParityFits
<1>1. FilesInv => ParityFits
  <2> SUFFICES ASSUME FilesInv, setup.recovery, obj # NoFile, Writing = {},
                      harm \subseteq {"rot", "gc"}, NEW k \in PieceRange
               PROVE  obj[k] \in {par, "rot"}
    BY DEF ParityFits
  <2>1. PICK v \in Versions : FitsVersion(v)
    BY DEF FilesInv, Fitting
  <2>2. QED
    BY <2>1, NothingOpen DEF FilesInv, FitsVersion, Due
<1>2. QED
  BY <1>1, FilesInductive, PTL

\* The verdicts of verify_all are true both ways, for any number of clients and pieces.
THEOREM VerdictsTrueCorrect == FilesSpec => VerdictsTrue
<1>1. FilesInv /\ Verify /\ Writing = {} /\ harm \cap Spoilers = {} => report' = "verified"
  <2> SUFFICES ASSUME FilesInv, Verify, Writing = {}, harm \cap Spoilers = {}
               PROVE  report' = "verified"
    OBVIOUS
  <2>1. obj # NoFile
    BY DEF FilesInv, Present, Verify, Spoilers
  <2>2. Outcomes(obj, par) = {"Ok"}
    BY <2>1, WholeIsIntact DEF Outcomes
  <2>3. QED
    BY <2>2 DEF Verify, Verdict
<1>2. Verify /\ report' = "verified" => Intact(obj) \/ Mended(obj, par)
  <2> SUFFICES ASSUME Verify, report' = "verified", ~Intact(obj)
               PROVE  Mended(obj, par)
    OBVIOUS
  <2>1. "Ok" \in Outcomes(obj, par)
    BY DEF Verify, Verdict
  <2>2. QED
    BY <2>1 DEF Outcomes
<1>3. QED
  BY <1>1, <1>2, FilesInductive, PTL DEF VerdictsTrue, FilesSpec
===============================================================================
