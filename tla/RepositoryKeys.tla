----------------------------- MODULE RepositoryKeys -----------------------------
(***************************************************************************)
(* What decides whether a repository can be opened and its data read: the  *)
(* descriptor repo.json, written first, and the key file, which holds the  *)
(* repository's key wrapped with a passphrase.  The wizard of the window   *)
(* and borg init make them, borg key writes the key file anew, and backups *)
(* of the window, the daemon and the command line open with the password   *)
(* of the session, that of the keyring, or none.                           *)
(*                                                                         *)
(* The local file system writes in place: it empties the key file and then *)
(* fills it, and who dies in between, or fills what another has filled     *)
(* meanwhile, may leave a torn file.  A storage that shows a file when it  *)
(* is whole does the two at once, which is one of these behaviours.        *)
(*                                                                         *)
(* A key is the number of the task that made it.  A passphrase unwraps     *)
(* what was wrapped with the same passphrase and gives an error for        *)
(* everything else (HMAC).                                                 *)
(***************************************************************************)
EXTENDS Naturals, FiniteSets

CONSTANTS
  Places,       \* where a repository can be
  First,        \* the one that is there from the start
  Passphrases,
  None,         \* no passphrase
  MaxTasks,     \* bound: tasks
  MaxCrashes    \* bound: the window's program is killed and started again

ASSUME KeysAssumption ==
  First \in Places /\ None \notin Passphrases /\ None # "torn" /\ MaxTasks \in Nat

VARIABLES
  descriptor,  \* descriptor[p]: repo.json, "none" while there is none, or "torn"
  keyfile,     \* keyfile[p]: the key and the passphrase it is wrapped with
  archives,    \* archives[p]: the keys that archives in p are stored under
  session,     \* session_passwords
  keyring,     \* the keyring, by the place of the uuid's bookmark
  tasks,       \* tasks[t]: task t
  history      \* what properties have to know of the past

vars == <<descriptor, keyfile, archives, session, keyring, tasks, history>>

Tasks == 1 .. MaxTasks
FirstKey == MaxTasks + 1
NoKey == 0

\* A key file that is not there or has just been emptied, and one that is no JSON,
\* or stayed empty.
Unwritten == [key |-> NoKey, pass |-> None]
Torn == [key |-> NoKey, pass |-> "torn"]

Unused == [kind |-> "unused", pc |-> None, place |-> None, pass |-> None, new |-> None, key |-> NoKey]

Init ==
  /\ descriptor = [p \in Places |-> IF p = First THEN "encrypted" ELSE "none"]
  /\ \E pass \in Passphrases :
       /\ keyfile = [p \in Places |-> IF p = First THEN [key |-> FirstKey, pass |-> pass] ELSE Unwritten]
       /\ keyring = [p \in Places |-> IF p = First THEN pass ELSE None]
       /\ history = [reported |-> [p \in Places |-> IF p = First THEN pass ELSE None],
                     made |-> [p \in Places |-> IF p = First THEN FirstKey ELSE NoKey],
                     upset |-> {}, crashes |-> 0]
  /\ archives = [p \in Places |-> {}]
  /\ session = [p \in Places |-> None]
  /\ tasks = [t \in Tasks |-> Unused]

-------------------------------------------------------------------------------
(***************************************************************************)
(* The repository's files                                                  *)
(***************************************************************************)

Exists(p) == descriptor[p] # "none"

\* The passphrase unwraps the key; there may be no key file to read.
Unlocks(p, pass) == keyfile[p].key # NoKey /\ keyfile[p].pass = pass

\* Without a passphrase an encrypted repository opens too, only without its key.
Opens(p, pass) ==
  \/ descriptor[p] = "plain"
  \/ descriptor[p] = "encrypted" /\ (pass = None \/ Unlocks(p, pass))

LoadedKey(p, pass) ==
  IF descriptor[p] = "encrypted" /\ pass # None THEN keyfile[p].key ELSE NoKey

\* The key file is emptied when it is opened for writing.
Truncate_key(p) == keyfile' = [keyfile EXCEPT ![p] = Unwritten]

\* Who fills it finds it empty, unless another has filled it meanwhile.
Write_key(p, key, pass) ==
  \E content \in {[key |-> key, pass |-> pass]} \cup (IF keyfile[p] = Unwritten THEN {} ELSE {Torn}) :
    keyfile' = [keyfile EXCEPT ![p] = content]

\* The write is cut short.
Tear_key(p) ==
  \/ keyfile' = [keyfile EXCEPT ![p] = Torn]
  \/ keyfile[p] # Unwritten /\ UNCHANGED keyfile

-------------------------------------------------------------------------------
(***************************************************************************)
(* Tasks                                                                   *)
(***************************************************************************)

At(t, kind, pc) == tasks[t].kind = kind /\ tasks[t].pc = pc
Goto(t, pc) == tasks' = [tasks EXCEPT ![t].pc = pc]

\* Of a task that has ended only its number stays used.
Ended == [Unused EXCEPT !.kind = "ended"]
End(t) == tasks' = [tasks EXCEPT ![t] = Ended]

\* A task has the first number not used yet.
Begin(t, task) ==
  /\ tasks[t].kind = "unused" /\ \A u \in 1 .. t - 1 : tasks[u].kind # "unused"
  /\ tasks' = [tasks EXCEPT ![t] = task]

Makes(t) == tasks[t].kind \in {"wizard", "init"}
Wraps(t) == tasks[t].kind \in {"change", "import"}
Rekeys(t) == Makes(t) \/ Wraps(t)

\* Two at once make a repository of p, or write and report its key.
Overlap(p, makes) ==
  LET others == {t \in Tasks : Rekeys(t) /\ tasks[t].place = p}
  IN  (IF others # {} THEN {"two at the key"} ELSE {})
        \cup (IF makes /\ \E t \in others : Makes(t) THEN {"two makers"} ELSE {})

Note(p, makes) == history' = [history EXCEPT !.upset = @ \cup Overlap(p, makes)]

\* A storage call of the task fails, or its process is killed: what was written
\* stays, and a file that is being written is torn.
Fails(t) ==
  /\ tasks[t].kind \notin {"unused", "ended"} /\ tasks[t].pc \notin {"told", "keep"}
  /\ End(t)
  /\ LET p == tasks[t].place
     IN  /\ IF tasks[t].pc = "fill" THEN Tear_key(p) ELSE UNCHANGED keyfile
         /\ \/ UNCHANGED descriptor
            \/ tasks[t].pc = "describe" /\ descriptor' = [descriptor EXCEPT ![p] = "torn"]
  /\ UNCHANGED <<archives, session, keyring, history>>

\* A task with a key to write opens the key file.
OpenKeyFile(t) ==
  /\ \/ Makes(t) /\ tasks[t].pc = "key"
     \/ Wraps(t) /\ tasks[t].pc = "wrap"
  /\ Truncate_key(tasks[t].place)
  /\ Goto(t, "fill")
  /\ UNCHANGED <<descriptor, archives, session, keyring, history>>

\* The passphrase is reported to be the repository's.
Report(t, pass) == history' = [history EXCEPT !.reported[tasks[t].place] = pass]

-------------------------------------------------------------------------------
(***************************************************************************)
(* Making a repository                                                     *)
(***************************************************************************)

\* None stands for --encryption none of borg init, and for a wizard's empty password.
Make(t, kind, p, pass) ==
  /\ Begin(t, [Unused EXCEPT !.kind = kind, !.pc = "check", !.place = p, !.pass = pass])
  /\ Note(p, TRUE)
  /\ UNCHANGED <<descriptor, keyfile, archives, session, keyring>>

\* Faulty: no look for a repository that is there.
CheckNothing(t) ==
  /\ Makes(t) /\ tasks[t].pc = "check"
  /\ Goto(t, "describe")
  /\ UNCHANGED <<descriptor, keyfile, archives, session, keyring, history>>

CheckExists(t) ==
  /\ Makes(t) /\ tasks[t].pc = "check"
  /\ IF Exists(tasks[t].place) THEN End(t) ELSE Goto(t, "describe")
  /\ UNCHANGED <<descriptor, keyfile, archives, session, keyring, history>>

Write_descriptor(p, kind) == descriptor' = [descriptor EXCEPT ![p] = kind]

\* A command reports its success at once, the wizard in a closure.  The repository
\* has the key from now on.
Report_made(t, key) ==
  LET p == tasks[t].place
  IN  IF tasks[t].kind = "wizard"
      THEN Goto(t, "told") /\ history' = [history EXCEPT !.made[p] = key]
      ELSE End(t) /\ history' = [history EXCEPT !.made[p] = key, !.reported[p] = tasks[t].pass]

Describe(t) ==
  /\ Makes(t) /\ tasks[t].pc = "describe"
  /\ IF tasks[t].pass = None
     THEN Write_descriptor(tasks[t].place, "plain") /\ Report_made(t, NoKey)
     ELSE Write_descriptor(tasks[t].place, "encrypted") /\ Goto(t, "key") /\ UNCHANGED history
  /\ UNCHANGED <<keyfile, archives, session, keyring>>

CreateKey(t) ==
  /\ Makes(t) /\ tasks[t].pc = "fill"
  /\ Write_key(tasks[t].place, t, tasks[t].pass)
  /\ Report_made(t, t)
  /\ UNCHANGED <<descriptor, archives, session, keyring>>

\* The wizard's closure, then add_bookmark_async: the password is put in the session
\* and in the keyring, if that takes it.
Told(t) ==
  /\ At(t, "wizard", "told")
  /\ Goto(t, "keep") /\ Report(t, tasks[t].pass)
  /\ UNCHANGED <<descriptor, keyfile, archives, session, keyring>>

Add_bookmark(t) ==
  /\ At(t, "wizard", "keep")
  /\ End(t)
  /\ IF tasks[t].pass = None THEN UNCHANGED <<session, keyring>>
     ELSE LET put(passwords) == [passwords EXCEPT ![tasks[t].place] = tasks[t].pass]
          IN  session' = put(session) /\ keyring' \in {keyring, put(keyring)}
  /\ UNCHANGED <<descriptor, keyfile, archives, history>>

MakeStep(t) ==
  CheckExists(t) \/ Describe(t) \/ CreateKey(t) \/ Told(t) \/ Add_bookmark(t)

-------------------------------------------------------------------------------
(***************************************************************************)
(* borg key                                                                *)
(***************************************************************************)

Change_passphrase(t, p, old, new) ==
  /\ Begin(t, [Unused EXCEPT !.kind = "change", !.pc = "open", !.place = p, !.pass = old, !.new = new])
  /\ Note(p, FALSE)
  /\ UNCHANGED <<descriptor, keyfile, archives, session, keyring>>

\* The file was exported from one of the repositories; from which, nothing in it says.
Import_key(t, p, from, new) ==
  /\ keyfile[from].key # NoKey
  /\ Begin(t, [Unused EXCEPT !.kind = "import", !.pc = "open", !.place = p,
                             !.key = keyfile[from].key, !.new = new])
  /\ Note(p, FALSE)
  /\ UNCHANGED <<descriptor, keyfile, archives, session, keyring>>

\* To change the passphrase the key is exported first, which needs it loaded; the
\* import opens without a passphrase and needs an encrypted repository.
OpenToWrap(t) ==
  /\ Wraps(t) /\ tasks[t].pc = "open"
  /\ LET p == tasks[t].place
         key == IF tasks[t].kind = "change" THEN LoadedKey(p, tasks[t].pass) ELSE tasks[t].key
     IN  IF Opens(p, tasks[t].pass) /\ descriptor[p] = "encrypted"
         THEN tasks' = [tasks EXCEPT ![t].pc = "wrap", ![t].key = key]
         ELSE End(t)
  /\ UNCHANGED <<descriptor, keyfile, archives, session, keyring, history>>

\* import_key: the key it writes is not the repository's, or the first that it gets.
WrapAs(t, pass) ==
  /\ Wraps(t) /\ tasks[t].pc = "fill"
  /\ LET p == tasks[t].place
         made == history.made[p]
     IN  /\ Write_key(p, tasks[t].key, pass)
         /\ history' = [history EXCEPT
              !.reported[p] = tasks[t].new,
              !.made[p] = IF made = NoKey THEN tasks[t].key ELSE made,
              !.upset = @ \cup (IF made \in {NoKey, tasks[t].key} THEN {} ELSE {"foreign key"})]
  /\ End(t)
  /\ UNCHANGED <<descriptor, archives, session, keyring>>

\* Faulty: the key is wrapped with the passphrase it was opened with.
WrapOld(t) == WrapAs(t, tasks[t].pass)

Wrap(t) == WrapAs(t, tasks[t].new)

KeyStep(t) == OpenToWrap(t) \/ Wrap(t)

-------------------------------------------------------------------------------
(***************************************************************************)
(* Passwords and backups                                                   *)
(***************************************************************************)

\* on_select_repo: a password the session has not is taken from the keyring.
Select(p) ==
  /\ session[p] = None /\ keyring[p] # None
  /\ session' = [session EXCEPT ![p] = keyring[p]]
  /\ UNCHANGED <<descriptor, keyfile, archives, keyring, tasks, history>>

\* The window uses the session, the daemon the keyring, the command line nothing.
Backup(t, p) ==
  /\ \E pass \in {session[p], keyring[p], None} :
       Begin(t, [Unused EXCEPT !.kind = "backup", !.pc = "open", !.place = p, !.pass = pass])
  /\ UNCHANGED <<descriptor, keyfile, archives, session, keyring, history>>

\* The handle keeps the descriptor it read, and the key, if there is one to load.
OpenForBackup(t) ==
  /\ At(t, "backup", "open")
  /\ LET p == tasks[t].place
         pass == tasks[t].pass
         pc == IF descriptor[p] = "encrypted" /\ pass = None THEN "keyless" ELSE "put"
     IN  IF Opens(p, pass) THEN tasks' = [tasks EXCEPT ![t].pc = pc, ![t].key = LoadedKey(p, pass)]
         ELSE End(t)
  /\ UNCHANGED <<descriptor, keyfile, archives, session, keyring, history>>

\* put_chunk of the archive: a handle on an encrypted repository stores nothing
\* without its key.
Put_chunk(t) ==
  /\ \/ At(t, "backup", "keyless") /\ UNCHANGED archives
     \/ At(t, "backup", "put")
        /\ archives' = [archives EXCEPT ![tasks[t].place] = @ \cup {tasks[t].key}]
  /\ End(t)
  /\ UNCHANGED <<descriptor, keyfile, session, keyring, history>>

BackupStep(t) == OpenForBackup(t) \/ Put_chunk(t)

\* The window's program is killed and started again; what it was writing was torn by
\* Fails before.
Crash ==
  /\ history.crashes < MaxCrashes
  /\ \A t \in Tasks : ~At(t, "wizard", "fill")
  /\ session' = [p \in Places |-> None]
  /\ tasks' = [t \in Tasks |-> IF tasks[t].kind = "wizard" THEN Ended ELSE tasks[t]]
  /\ history' = [history EXCEPT !.crashes = @ + 1]
  /\ UNCHANGED <<descriptor, keyfile, archives, keyring>>

Next ==
  \/ \E t \in Tasks, p \in Places :
       \/ \E kind \in {"wizard", "init"}, pass \in Passphrases \cup {None} : Make(t, kind, p, pass)
       \/ \E old, new \in Passphrases : Change_passphrase(t, p, old, new)
       \/ \E from \in Places, new \in Passphrases : Import_key(t, p, from, new)
       \/ Backup(t, p)
  \/ \E t \in Tasks : MakeStep(t) \/ OpenKeyFile(t) \/ KeyStep(t) \/ BackupStep(t) \/ Fails(t)
  \/ \E p \in Places : Select(p)
  \/ Crash

Spec == Init /\ [][Next]_vars
-------------------------------------------------------------------------------
(***************************************************************************)
(* Properties                                                              *)
(***************************************************************************)

\* The key file of p is being written, or a write of it was cut short or fell
\* together with another.
KeyGone(p) ==
  \/ keyfile[p] = Torn
  \/ keyfile[p] = Unwritten /\ \E t \in Tasks : Rekeys(t) /\ tasks[t].place = p /\ tasks[t].pc = "fill"

\* What is stored in a repository is stored under the key its key file holds, also
\* after passphrases were changed and keys imported while backups ran, and after a
\* making that broke off half-way: unless two made it at the same time, or the key
\* of another repository was imported, which nothing refuses.  The key file can be
\* lost, but only in a write of it, and an import brings the same key back.
KeyFits ==
  {"two makers", "foreign key"} \cap history.upset = {} =>
    \A p \in Places : \A key \in archives[p] :
      IF descriptor[p] = "plain" THEN key = NoKey ELSE key = keyfile[p].key \/ KeyGone(p)

\* The passphrase last reported as a repository's opens it, whichever of the wizard
\* and the commands set it, unless two of them overlapped or a write of the key file
\* has not come to its end.
ReportedOpens ==
  "two at the key" \notin history.upset =>
    \A p \in Places :
      history.reported[p] # None => Unlocks(p, history.reported[p]) \/ KeyGone(p)
=================================================================================
