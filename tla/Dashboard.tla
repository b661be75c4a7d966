------------------------------- MODULE Dashboard -------------------------------
(***************************************************************************)
(* The window on several repositories: the wizard that adds one, the       *)
(* sidebar, the archives shown, the saved configuration of a backup and    *)
(* the backups started from it, one of which may find the repository       *)
(* locked and be queued.                                                   *)
(*                                                                         *)
(* What the user clicks starts a task.  Tasks run side by side, and tell   *)
(* the window their result by a closure; the window runs closures in order *)
(* between clicks.  Whether a repository can be made or opened is the      *)
(* subject of RepositoryKeys; here both just succeed or fail.              *)
(***************************************************************************)
EXTENDS Naturals, Sequences, FiniteSets

CONSTANTS
  Places,       \* where a repository can be
  Answers,      \* what is typed in the wizard: a name and a place
  First,        \* the repository that is known from the start
  Older,        \* the names of its archives
  Archives,     \* names of archives
  Configs,      \* configurations of a backup
  None,
  MaxTasks,     \* bound: tasks; the number of one that loads archives is used again
  MaxRetries,   \* the attempts of a queued backup (360)
  MaxCrashes    \* bound: the program is killed and started again

ASSUME PlacesAssumption == \A a \in Answers \cup {First} : a.place \in Places
ASSUME NoneAssumption == \A names \in SUBSET (Older \cup Archives) : names # None
ASSUME BoundsAssumption == {MaxTasks, MaxRetries, MaxCrashes} \subseteq Nat

VARIABLES
  tasks,     \* tasks[t]: task t
  events,    \* the closures posted to the window
  archives,  \* archives[p]: the names of the archives in p, or NoRepository
  lock,      \* lock[p]: the task that holds the lock file, Other, or Free
  repos,     \* the table repo_bookmarks, in the order of its ids
  saved,     \* the table archive_bookmarks
  window,    \* what the window shows and has in memory
  history    \* what properties have to know of the past

vars == <<tasks, events, archives, lock, repos, saved, window, history>>

Tasks == 1 .. MaxTasks
Free == 0
Other == MaxTasks + 1
NoConfig == None
NoRepository == None

Unused == [kind |-> "unused", pc |-> None, place |-> None, name |-> None, conf |-> NoConfig,
           tries |-> 0, queued |-> FALSE, exit |-> FALSE, stored |-> 0, told |-> {}, read |-> << >>]
Load(p) == [Unused EXCEPT !.kind = "load", !.pc = "load", !.place = p]

\* What a program that starts finds in the database.
Opened_window ==
  [bookmarks |-> repos, configs |-> saved, active |-> 1, shown |-> {}, sidebar |-> repos]

Init ==
  /\ tasks = [t \in Tasks |-> IF t = 1 THEN Load(First.place) ELSE Unused]
  /\ events = << >>
  /\ archives = [p \in Places |-> IF p = First.place THEN Older ELSE NoRepository]
  /\ lock = [p \in Places |-> Free]
  /\ repos = <<First>>
  /\ saved = [p \in Places |-> NoConfig]
  /\ window = Opened_window
  /\ history = [saidSaved |-> [p \in Places |-> NoConfig], alone |-> FALSE, loaded |-> FALSE,
                upset |-> {}, crashes |-> 0]

-------------------------------------------------------------------------------
(***************************************************************************)
(* Tasks                                                                   *)
(***************************************************************************)

At(t, kind, pc) == tasks[t].kind = kind /\ tasks[t].pc = pc
Is(t, kind) == tasks[t].kind = kind
Goto(t, pc) == tasks' = [tasks EXCEPT ![t].pc = pc]

\* The first number not used.  Of a task that has ended only its number stays used.
Fresh(t) == Is(t, "unused") /\ \A u \in 1 .. t - 1 : ~Is(u, "unused")
Begin(t, task) == Fresh(t) /\ tasks' = [tasks EXCEPT ![t] = task]
Ended == [Unused EXCEPT !.kind = "ended"]
End(t) == tasks' = [tasks EXCEPT ![t] = Ended]

Post(t, result) == events' = Append(events, [task |-> t, result |-> result])
PostEnd(t, pc, result) == Goto(t, pc) /\ Post(t, result)

Note(what) == history' = [history EXCEPT !.upset = @ \cup what]

-------------------------------------------------------------------------------
(***************************************************************************)
(* The wizard                                                              *)
(***************************************************************************)

Finish(t, name, p) ==
  /\ Begin(t, [Unused EXCEPT !.kind = "wizard", !.pc = "name", !.name = name, !.place = p])
  /\ UNCHANGED <<events, archives, lock, repos, saved, window, history>>

NameTaken(name) == \E i \in DOMAIN repos : repos[i].name = name

Repo_name_exists(t) ==
  /\ At(t, "wizard", "name")
  /\ IF NameTaken(tasks[t].name) THEN End(t) ELSE Goto(t, "init")
  /\ UNCHANGED <<events, archives, lock, repos, saved, window, history>>

\* A wizard that fails, always where a repository is, only writes its text.
Init_repository(t) ==
  /\ At(t, "wizard", "init")
  /\ \/ /\ archives[tasks[t].place] = NoRepository
        /\ archives' = [archives EXCEPT ![tasks[t].place] = {}]
        /\ PostEnd(t, "sent", "ok")
     \/ End(t) /\ UNCHANGED <<events, archives>>
  /\ UNCHANGED <<lock, repos, saved, window, history>>

\* The wizard's closure: the sidebar has the repository, the database is to get it.
Adding(t) == Is(t, "wizard") /\ tasks[t].pc \in {"insert", "list", "set"}

Made(t) ==
  /\ Goto(t, "insert")
  /\ window' = [window EXCEPT !.sidebar = Append(@, [name |-> tasks[t].name, place |-> tasks[t].place])]
  /\ Note(IF \E u \in Tasks : Adding(u) THEN {"adds"} ELSE {})

\* Faulty: the sidebar lists the last one first.
MadeFirst(t) ==
  /\ Goto(t, "insert")
  /\ window' = [window EXCEPT !.sidebar = <<[name |-> tasks[t].name, place |-> tasks[t].place]>> \o @]
  /\ Note(IF \E u \in Tasks : Adding(u) THEN {"adds"} ELSE {})

Push_repository(t) == Made(t)

\* add_bookmark_async: the name is unique, and an error goes nowhere.
Add_repo(t) ==
  /\ At(t, "wizard", "insert")
  /\ IF NameTaken(tasks[t].name)
     THEN End(t) /\ Note({"adds"}) /\ UNCHANGED repos
     ELSE /\ Goto(t, "list")
          /\ repos' = Append(repos, [name |-> tasks[t].name, place |-> tasks[t].place])
          /\ UNCHANGED history
  /\ UNCHANGED <<events, archives, lock, saved, window>>

List_repos(t) ==
  /\ At(t, "wizard", "list")
  /\ tasks' = [tasks EXCEPT ![t].pc = "set", ![t].read = repos]
  /\ UNCHANGED <<events, archives, lock, repos, saved, window, history>>

SetRepos(t) ==
  /\ At(t, "wizard", "set")
  /\ End(t)
  /\ window' = [window EXCEPT !.bookmarks = tasks[t].read]
  /\ UNCHANGED <<events, archives, lock, repos, saved, history>>

WizardStep(t) ==
  Repo_name_exists(t) \/ Init_repository(t) \/ Add_repo(t) \/ List_repos(t) \/ SetRepos(t)

-------------------------------------------------------------------------------
(***************************************************************************)
(* Selecting a repository                                                  *)
(***************************************************************************)

\* Its closure, still to come, changes the archives that are shown.
Lists(t) == tasks[t].kind \in {"load", "backup"} /\ tasks[t].pc # "over"

\* The archives that are loaded are those of the bookmark at the index of the sidebar.
Select(t, i) ==
  /\ i \in DOMAIN window.sidebar
  /\ window' = [window EXCEPT !.active = i]
  /\ IF i \in DOMAIN window.bookmarks THEN Begin(t, Load(window.bookmarks[i].place)) ELSE UNCHANGED tasks
  /\ history' = [history EXCEPT !.alone = \A u \in Tasks : ~Lists(u), !.loaded = FALSE]
  /\ UNCHANGED <<events, archives, lock, repos, saved>>

\* Faulty: the archives of the repository selected before are loaded.
SelectLast(t, i) ==
  /\ i \in DOMAIN window.sidebar
  /\ window' = [window EXCEPT !.active = i]
  /\ IF window.active \in DOMAIN window.bookmarks
     THEN Begin(t, Load(window.bookmarks[window.active].place)) ELSE UNCHANGED tasks
  /\ history' = [history EXCEPT !.alone = \A u \in Tasks : ~Lists(u), !.loaded = FALSE]
  /\ UNCHANGED <<events, archives, lock, repos, saved>>

Select_repo(t, i) == Select(t, i)

Entries(p) == {[place |-> p, name |-> n] : n \in archives[p]}

LoadArchives(t) ==
  /\ At(t, "load", "load")
  /\ \/ /\ tasks' = [tasks EXCEPT ![t].pc = "sent", ![t].read = Entries(tasks[t].place)]
        /\ Post(t, "ok")
     \/ PostEnd(t, "sent", "failed")
  /\ UNCHANGED <<archives, lock, repos, saved, window, history>>

\* A failed load leaves the archives that are shown.
Loaded(t, result) ==
  /\ tasks' = [tasks EXCEPT ![t] = Unused]
  /\ window' = [window EXCEPT !.shown = IF result = "ok" THEN tasks[t].read ELSE @]
  /\ history' = [history EXCEPT !.loaded = result = "ok"]

-------------------------------------------------------------------------------
(***************************************************************************)
(* The configuration of a backup is saved                                  *)
(***************************************************************************)

Selected == window.bookmarks[window.active]
HasSelected == window.active \in DOMAIN window.bookmarks

Save(t, c) ==
  /\ HasSelected
  /\ Begin(t, [Unused EXCEPT !.kind = "save", !.pc = "upsert", !.place = Selected.place, !.conf = c])
  /\ Note(IF \E u \in Tasks : Is(u, "save") THEN {"saves"} ELSE {})
  /\ UNCHANGED <<events, archives, lock, repos, saved, window>>

Upsert_archive_bookmark(t) ==
  /\ At(t, "save", "upsert")
  /\ saved' = [saved EXCEPT ![tasks[t].place] = tasks[t].conf]
  /\ Goto(t, "list")
  /\ UNCHANGED <<events, archives, lock, repos, window, history>>

\* What fails in the database is printed, and the window told that all went well.
SaveFails(t) ==
  /\ Is(t, "save") /\ tasks[t].pc \in {"upsert", "list"}
  /\ PostEnd(t, "sent", "ok")
  /\ Note({"saves"})
  /\ UNCHANGED <<archives, lock, repos, saved, window>>

List_archive_bookmarks(t) ==
  /\ At(t, "save", "list")
  /\ tasks' = [tasks EXCEPT ![t].pc = "set", ![t].read = saved]
  /\ UNCHANGED <<events, archives, lock, repos, saved, window, history>>

SetConfigs(t) ==
  /\ At(t, "save", "set")
  /\ window' = [window EXCEPT !.configs = tasks[t].read]
  /\ tasks' = [tasks EXCEPT ![t].pc = "sent", ![t].read = << >>]
  /\ Post(t, "ok")
  /\ UNCHANGED <<archives, lock, repos, saved, history>>

\* Faulty: the window is told before the list in memory is up to date.
SayFirst(t) ==
  \/ /\ At(t, "save", "list")
     /\ PostEnd(t, "set", "ok")
     /\ UNCHANGED <<archives, lock, repos, saved, window, history>>
  \/ /\ At(t, "save", "set")
     /\ window' = [window EXCEPT !.configs = saved]
     /\ End(t)
     /\ UNCHANGED <<events, archives, lock, repos, saved, history>>

Remember(t) == List_archive_bookmarks(t) \/ SetConfigs(t)

Said(t) ==
  /\ End(t)
  /\ history' = [history EXCEPT !.saidSaved[tasks[t].place] = tasks[t].conf]
  /\ UNCHANGED window

SaveStep(t) == Upsert_archive_bookmark(t) \/ SaveFails(t) \/ Remember(t)

-------------------------------------------------------------------------------
(***************************************************************************)
(* A backup, which is queued when it finds the repository locked           *)
(***************************************************************************)

Backup(t, name) ==
  /\ HasSelected
  /\ LET p == Selected.place
     IN  /\ window.configs[p] # NoConfig
         /\ Begin(t, [Unused EXCEPT !.kind = "backup", !.pc = "lock", !.place = p, !.name = name,
                                    !.conf = window.configs[p]])
  /\ UNCHANGED <<events, archives, lock, repos, saved, window, history>>

\* A queued one goes on without waiting for its closure.
AfterTry(t) == IF tasks[t].queued THEN "retry" ELSE "sent"

Acquire(t) ==
  /\ At(t, "backup", "lock")
  /\ IF lock[tasks[t].place] = Free
     THEN /\ lock' = [lock EXCEPT ![tasks[t].place] = t]
          /\ Goto(t, "create") /\ UNCHANGED events
     ELSE PostEnd(t, AfterTry(t), "locked") /\ UNCHANGED lock
  /\ UNCHANGED <<archives, repos, saved, window, history>>

Release(t) == lock' = [lock EXCEPT ![tasks[t].place] = Free]

BackupFails(t) ==
  /\ At(t, "backup", "create")
  /\ PostEnd(t, AfterTry(t), "failed")
  /\ Release(t)
  /\ UNCHANGED <<archives, repos, saved, window, history>>

Stores(t) ==
  /\ At(t, "backup", "create")
  /\ archives' = [archives EXCEPT ![tasks[t].place] = @ \cup {tasks[t].name}]
  /\ tasks' = [tasks EXCEPT ![t].pc = AfterTry(t), ![t].stored = @ + 1]
  /\ Post(t, "ok")
  /\ Release(t)
  /\ UNCHANGED <<repos, saved, window, history>>

Create_archive(t) ==
  Is(t, "backup") /\ tasks[t].name \notin archives[tasks[t].place] /\ Stores(t)

\* Faulty: one attempt less than allowed.
RetryLess(t) ==
  /\ At(t, "backup", "retry")
  /\ IF tasks[t].exit \/ tasks[t].tries + 1 >= MaxRetries
     THEN Goto(t, "over")
     ELSE tasks' = [tasks EXCEPT ![t].pc = "lock", ![t].tries = @ + 1]
  /\ UNCHANGED <<events, archives, lock, repos, saved, window, history>>

\* The flag is looked at before the five seconds of sleep, and not after them:
\* the closure that sets it usually comes too late for the next attempt.  After
\* the last one the loop ends, and its text for that case is never shown.
Retry(t) ==
  /\ At(t, "backup", "retry")
  /\ IF tasks[t].exit \/ tasks[t].tries = MaxRetries
     THEN Goto(t, "over")
     ELSE tasks' = [tasks EXCEPT ![t].pc = "lock", ![t].tries = @ + 1]
  /\ UNCHANGED <<events, archives, lock, repos, saved, window, history>>

\* The closures of a first attempt and of a queued one.
First_told(t, result) ==
  /\ IF result = "locked"
     THEN tasks' = [tasks EXCEPT ![t].pc = "retry", ![t].queued = TRUE]
     ELSE tasks' = [tasks EXCEPT ![t].pc = "over", ![t].told = @ \cup {result}]

Queued_told(t, result) ==
  IF result = "locked" THEN UNCHANGED tasks
  ELSE tasks' = [tasks EXCEPT ![t].exit = TRUE, ![t].told = @ \cup {result}]

\* A new archive is put among those that are shown, whosever they are.
Backup_told(t, result) ==
  /\ IF tasks[t].queued THEN Queued_told(t, result) ELSE First_told(t, result)
  /\ window' = [window EXCEPT !.shown =
       IF result = "ok" THEN @ \cup {[place |-> tasks[t].place, name |-> tasks[t].name]} ELSE @]
  /\ UNCHANGED history

BackupStep(t) ==
  \/ Acquire(t) \/ Create_archive(t) \/ BackupFails(t) \/ Retry(t)

-------------------------------------------------------------------------------
(***************************************************************************)
(* The window's closures, other programs, and a restart                    *)
(***************************************************************************)

Closure ==
  /\ events # << >>
  /\ events' = Tail(events)
  /\ LET t == Head(events).task
         result == Head(events).result
     IN  \/ tasks[t].kind = "wizard" /\ Push_repository(t)
         \/ tasks[t].kind = "load" /\ Loaded(t, result)
         \/ tasks[t].kind = "save" /\ Said(t)
         \/ tasks[t].kind = "backup" /\ Backup_told(t, result)
  /\ UNCHANGED <<archives, lock, repos, saved>>

\* The scheduler, the daemon or another window hold the lock for a while.  Only a
\* backup under way can tell.
OtherLocks(p) ==
  /\ \/ /\ lock[p] = Free /\ \E t \in Tasks : Is(t, "backup") /\ tasks[t].pc # "over" /\ tasks[t].place = p
        /\ lock' = [lock EXCEPT ![p] = Other]
     \/ lock[p] = Other /\ lock' = [lock EXCEPT ![p] = Free]
  /\ UNCHANGED <<tasks, events, archives, repos, saved, window, history>>

\* The program is killed and started again.  Its lock files are stale.
Crash(t) ==
  /\ history.crashes < MaxCrashes
  /\ Fresh(t)
  /\ tasks' = [u \in Tasks |->
       IF u = t THEN Load(repos[1].place) ELSE IF Is(u, "unused") THEN Unused ELSE Ended]
  /\ events' = << >>
  /\ lock' = [p \in Places |-> IF lock[p] \in Tasks THEN Free ELSE lock[p]]
  /\ window' = Opened_window
  /\ history' = [history EXCEPT !.crashes = @ + 1, !.alone = FALSE, !.loaded = FALSE,
                   !.saidSaved = saved, !.upset = @ \ {"adds", "saves"}]
  /\ UNCHANGED <<archives, repos, saved>>

UserStep(t) ==
  \/ \E a \in Answers : Finish(t, a.name, a.place)
  \/ \E i \in DOMAIN window.sidebar : Select_repo(t, i)
  \/ \E c \in Configs : Save(t, c)
  \/ \E name \in Archives : Backup(t, name)

TaskStep(t) == WizardStep(t) \/ LoadArchives(t) \/ SaveStep(t) \/ BackupStep(t)

Next ==
  \/ \E t \in Tasks : UserStep(t) \/ TaskStep(t) \/ Crash(t)
  \/ Closure
  \/ \E p \in Places : OtherLocks(p)

Spec == Init /\ [][Next]_vars
-------------------------------------------------------------------------------
(***************************************************************************)
(* Properties                                                              *)
(***************************************************************************)

\* One click stores at most one archive, although a queued backup goes on with the
\* next attempt before it knows of the success of the last.  What the window says of
\* it is true, but for a queued one, which is said to have failed after it
\* succeeded; and it is not given up in silence before all attempts are made.
ToldTruly ==
  \A t \in Tasks : tasks[t].kind = "backup" =>
    /\ tasks[t].stored <= 1
    /\ "ok" \in tasks[t].told => tasks[t].stored = 1
    /\ "failed" \in tasks[t].told => tasks[t].stored = 0 \/ tasks[t].queued
    /\ tasks[t].pc = "over" =>
         tasks[t].told # {} \/ (tasks[t].queued /\ tasks[t].tries = MaxRetries)

\* The archives shown are those of the selected repository, when nothing was under
\* way as it was selected, its list did load, and sidebar and bookmarks agree.
ShownAreSelected ==
  history.alone /\ history.loaded /\ "adds" \notin history.upset =>
    \A s \in window.shown : s.place = window.sidebar[window.active].place

\* A backup goes to the repository that the sidebar shows as selected, unless two
\* were added to it at once or one could not be put in the database.
GoesToSelected ==
  [][\A t \in Tasks : Fresh(t) /\ tasks'[t].kind = "backup" /\ "adds" \notin history.upset
       => tasks'[t].place = window.sidebar[window.active].place]_vars

\* A backup uses the configuration the user was told last is saved, or one that is
\* being saved, unless savings overlapped or failed.
UsesSaved ==
  [][\A t \in Tasks : Fresh(t) /\ tasks'[t].kind = "backup" /\ "saves" \notin history.upset
       => tasks'[t].conf \in {history.saidSaved[tasks'[t].place]}
            \cup {tasks[u].conf : u \in {v \in Tasks : Is(v, "save") /\ tasks[v].place = tasks'[t].place}}]_vars
================================================================================
