---------------------------- MODULE DashboardProofs ----------------------------
(***************************************************************************)
(* What the dashboard tells and shows, for any number of repositories,     *)
(* archives, tasks, attempts and restarts.                                 *)
(*                                                                         *)
(* None of the four properties is inductive.  They rest on what the window *)
(* has yet to hear of a task (Posted), and each on an invariant of its     *)
(* own: what a backup has done and told (Backups), how sidebar, bookmarks  *)
(* and table differ while a repository is added (Added), whose closures    *)
(* are before and behind that of a load (Shown), and what memory, table    *)
(* and window know while a configuration is saved (Saving).                *)
(***************************************************************************)
EXTENDS Dashboard, SequenceTheorems, TLAPS

AnswerNames == {a.name : a \in Answers}
Known == {First} \cup [name : AnswerNames, place : Places]
ArchiveNames == Older \cup Archives
Listed == [place : Places, name : ArchiveNames]
Settings == [Places -> Configs \cup {None}]
Results == {"ok", "failed", "locked"}

Active == {"wizard", "load", "save", "backup"}
Pcs == {"name", "init", "sent", "insert", "list", "set", "load", "upsert", "lock", "create", "retry", "over"}

\* What a task has read: a list of repositories, of archives, or of configurations.
Reads == Seq(Known) \cup (SUBSET Listed) \cup Settings

Task == [kind : Active \cup {"unused", "ended"},
         pc : Pcs \cup {None},
         place : Places \cup {None},
         name : AnswerNames \cup Archives \cup {None},
         conf : Configs \cup {None},
         tries : Nat, queued : BOOLEAN, exit : BOOLEAN, stored : Nat, told : SUBSET Results,
         read : Reads]

\* Where a task of each kind can be, and what it has read when it stores that.
Fits(task) ==
  /\ task.kind \in Active => task.place \in Places
  /\ task.kind = "wizard" => /\ task.pc \in {"name", "init", "sent", "insert", "list", "set"}
                             /\ task.name \in AnswerNames
                             /\ task.pc = "set" => task.read \in Seq(Known)
  /\ task.kind = "load" => task.pc \in {"load", "sent"}
  /\ task.kind = "save" => /\ task.pc \in {"upsert", "list", "set", "sent"}
                           /\ task.pc = "set" => task.read \in Settings
  /\ task.kind = "backup" => /\ task.pc \in {"lock", "create", "sent", "retry", "over"}
                             /\ task.name \in Archives

TasksTyped == tasks \in [Tasks -> Task] /\ \A t \in Tasks : Fits(tasks[t])

Event == [task : Tasks, result : Results]

EventsTyped ==
  /\ events \in Seq(Event)
  /\ \A i \in DOMAIN events :
       tasks[events[i].task].kind = "load" /\ events[i].result = "ok" =>
         tasks[events[i].task].read \in SUBSET Listed

StoresTyped ==
  /\ archives \in [Places -> (SUBSET ArchiveNames) \cup {NoRepository}]
  /\ lock \in [Places -> Tasks \cup {Free, Other}]
  /\ repos \in Seq(Known) /\ repos # << >>
  /\ saved \in Settings
  /\ window \in [bookmarks : Seq(Known), configs : Settings, active : Nat,
                 shown : SUBSET Listed, sidebar : Seq(Known)]
  /\ window.active \in DOMAIN window.sidebar
  /\ history \in [saidSaved : Settings, alone : BOOLEAN, loaded : BOOLEAN,
                  upset : SUBSET {"adds", "saves"}, crashes : Nat]

DashTypeOK == TasksTyped /\ EventsTyped /\ StoresTyped

Calm(what) == what \notin history.upset

Queued(task) == task.kind = "backup" /\ task.queued

\* A closure is of a task that waits for it, and has no other, unless it is a queued backup.
Posted ==
  \A i \in DOMAIN events :
    LET t == events[i].task
    IN  /\ tasks[t].kind \in Active
        /\ ~Queued(tasks[t]) =>
             tasks[t].pc = "sent" /\ \A j \in DOMAIN events : events[j].task = t => j = i

Begins(s, r) == Len(s) <= Len(r) /\ \A i \in 1 .. Len(s) : s[i] = r[i]

\* Repositories that are known have been made, and so have those of tasks; bookmarks
\* in memory, and those that are to be, begin those of the table.
Exists(p) == archives[p] # NoRepository
Needs(task) ==
  \/ task.kind = "wizard" /\ task.pc \in {"sent", "insert", "list", "set"}
  \/ task.kind \in {"load", "backup"}

Kept ==
  /\ \A i \in DOMAIN repos : Exists(repos[i].place)
  /\ \A t \in Tasks : Needs(tasks[t]) => Exists(tasks[t].place)
  /\ Begins(window.bookmarks, repos)
  /\ \A t \in Tasks : At(t, "wizard", "set") => Begins(tasks[t].read, repos)

Base == DashTypeOK /\ Posted /\ Kept

\* What a backup has done, is about to tell and has told.
BackupTrue(t) ==
  /\ tasks[t].stored \in {0, 1}
  /\ tasks[t].stored = 1 => tasks[t].name \in archives[tasks[t].place]
  /\ "ok" \in tasks[t].told => tasks[t].stored = 1
  /\ tasks[t].exit => tasks[t].told # {}
  /\ tasks[t].queued => /\ tasks[t].pc # "sent"
                        /\ tasks[t].pc = "over" => tasks[t].exit \/ tasks[t].tries = MaxRetries
  /\ ~tasks[t].queued => /\ tasks[t].pc # "retry"
                         /\ tasks[t].pc = "over" <=> tasks[t].told # {}
                         /\ tasks[t].pc \in {"lock", "create"} => tasks[t].stored = 0
                         /\ "failed" \in tasks[t].told => tasks[t].stored = 0

BackupEvent(e) ==
  tasks[e.task].kind = "backup" =>
    /\ e.result = "ok" => tasks[e.task].stored = 1
    /\ ~tasks[e.task].queued /\ e.result = "failed" => tasks[e.task].stored = 0

Backups ==
  /\ \A t \in Tasks : tasks[t].kind = "backup" => BackupTrue(t)
  /\ \A i \in DOMAIN events : BackupEvent(events[i])

Entry(t) == [name |-> tasks[t].name, place |-> tasks[t].place]

\* The sidebar ends with the one that is yet to be put in the table.
Added ==
  Calm("adds") =>
    /\ \A t, u \in Tasks : Adding(t) /\ Adding(u) => t = u
    /\ (\A t \in Tasks : ~At(t, "wizard", "insert")) => window.sidebar = repos
    /\ \A t \in Tasks : At(t, "wizard", "insert") => window.sidebar = Append(repos, Entry(t))

Current == window.sidebar[window.active].place

ReadsOwn ==
  \A i \in DOMAIN events :
    tasks[events[i].task].kind = "load" /\ events[i].result = "ok" =>
      \A s \in tasks[events[i].task].read : s.place = tasks[events[i].task].place

ListsCurrent == \A t \in Tasks : Lists(t) => tasks[t].place = Current

Stale(e) == tasks[e.task].kind = "backup" /\ tasks[e.task].place # Current
StaleFirst ==
  \A i \in DOMAIN events : Stale(events[i]) =>
    ~history.loaded /\ \A j \in DOMAIN events : j < i => tasks[events[j].task].kind # "load"

ShownCurrent == history.loaded => \A s \in window.shown : s.place = Current

\* Of backups that were under way before a repository was selected, the window hears
\* before it hears of its archives.
Shown ==
  /\ ReadsOwn
  /\ history.alone /\ Calm("adds") => ListsCurrent /\ StaleFirst /\ ShownCurrent

\* Who knows of a configuration that is being saved.
New(t) == [history.saidSaved EXCEPT ![tasks[t].place] = tasks[t].conf]

Saving ==
  Calm("saves") =>
    /\ \A t, u \in Tasks : Is(t, "save") /\ Is(u, "save") => t = u
    /\ (\A t \in Tasks : ~Is(t, "save")) => window.configs = history.saidSaved /\ saved = history.saidSaved
    /\ \A t \in Tasks : Is(t, "save") =>
         /\ saved = IF tasks[t].pc = "upsert" THEN history.saidSaved ELSE New(t)
         /\ window.configs = IF tasks[t].pc = "sent" THEN New(t) ELSE history.saidSaved
         /\ tasks[t].pc = "set" => tasks[t].read = New(t)

-------------------------------------------------------------------------------
(***************************************************************************)
(* Types, and who posts what                                               *)
(***************************************************************************)

LEMMA Replaced ==
  ASSUME TasksTyped, NEW t \in Tasks, NEW task, tasks' = [tasks EXCEPT ![t] = task]
  PROVE  /\ tasks'[t] = task /\ \A u \in Tasks \ {t} : tasks'[u] = tasks[u]
         /\ task \in Task /\ Fits(task) => TasksTyped'
BY DEF TasksTyped

LEMMA BlanksFit ==
  /\ Unused \in Task /\ Unused.kind = "unused" /\ Fits(Unused)
  /\ Ended \in Task /\ Ended.kind = "ended" /\ Fits(Ended)
<1>1. << >> \in Seq(Known)
  BY EmptySeq
<1> QED
  BY <1>1 DEF Unused, Ended, Task, Reads, Fits, Active, NoConfig

LEMMA LoadFits ==
  ASSUME NEW p \in Places
  PROVE  Load(p) \in Task /\ Fits(Load(p)) /\ Load(p).kind = "load" /\ Load(p).place = p /\ Load(p).pc = "load"
<1>1. << >> \in Seq(Known)
  BY EmptySeq
<1> QED
  BY <1>1 DEF Unused, Load, Task, Reads, Fits, Active, NoConfig, Pcs

LEMMA KnownPlaces ==
  ASSUME NEW s \in Seq(Known), NEW i \in DOMAIN s
  PROVE  s[i] \in Known /\ s[i].place \in Places
<1>1. s[i] \in Known
  BY ElementOfSeq, LenProperties
<1> QED
  BY <1>1, PlacesAssumption DEF Known

LEMMA AppendedIs ==
  ASSUME NEW S, NEW s \in Seq(S), NEW e \in S
  PROVE  /\ Append(s, e) \in Seq(S) /\ Len(Append(s, e)) = Len(s) + 1
         /\ DOMAIN Append(s, e) = DOMAIN s \cup {Len(s) + 1} /\ Len(s) + 1 \notin DOMAIN s
         /\ \A i \in DOMAIN s : Append(s, e)[i] = s[i]
         /\ Append(s, e)[Len(s) + 1] = e
<1>1. DOMAIN s = 1 .. Len(s) /\ Len(s) \in Nat
  BY LenProperties
<1>2. Append(s, e) \in Seq(S) /\ Len(Append(s, e)) = Len(s) + 1
  BY AppendProperties
<1>3. DOMAIN Append(s, e) = 1 .. Len(s) + 1
  BY <1>2, LenProperties
<1>4. 1 .. Len(s) + 1 = (1 .. Len(s)) \cup {Len(s) + 1} /\ Len(s) + 1 \notin 1 .. Len(s)
  BY <1>1
<1> QED
  BY <1>1, <1>2, <1>3, <1>4, AppendProperties

LEMMA TailIs ==
  ASSUME NEW S, NEW s \in Seq(S), s # << >>
  PROVE  /\ Tail(s) \in Seq(S) /\ 1 \in DOMAIN s /\ Head(s) = s[1] /\ Head(s) \in S
         /\ \A i \in DOMAIN Tail(s) : i + 1 \in DOMAIN s /\ Tail(s)[i] = s[i + 1] /\ i \in Nat \ {0}
<1>1. DOMAIN s = 1 .. Len(s) /\ Len(s) \in Nat \ {0}
  BY LenProperties, EmptySeq
<1>2. Tail(s) \in Seq(S) /\ Len(Tail(s)) = Len(s) - 1 /\ Head(s) \in S
  BY HeadTailProperties
<1>3. DOMAIN Tail(s) = 1 .. Len(s) - 1
  BY <1>2, LenProperties
<1>4. \A i \in 1 .. Len(s) - 1 : i + 1 \in 1 .. Len(s) /\ i \in Nat \ {0}
  BY <1>1
<1>5. \A i \in 1 .. Len(Tail(s)) : Tail(s)[i] = s[i + 1]
  BY HeadTailProperties
<1> QED
  BY <1>1, <1>2, <1>3, <1>4, <1>5

LEMMA EventIs ==
  ASSUME NEW s \in Seq(Event), NEW i \in DOMAIN s
  PROVE  s[i].task \in Tasks /\ s[i].result \in Results
<1>1. s[i] \in Event
  BY ElementOfSeq, LenProperties
<1> QED
  BY <1>1 DEF Event

LEMMA QuietStep ==
  ASSUME Base, NEW t \in Tasks, NEW task \in Task, Fits(task), tasks' = [tasks EXCEPT ![t] = task],
         events' = events,
         \A i \in DOMAIN events : events[i].task = t => Queued(tasks[t]) /\ Queued(task)
  PROVE  TasksTyped' /\ EventsTyped' /\ Posted'
<1>1. TasksTyped' /\ tasks'[t] = task /\ \A u \in Tasks \ {t} : tasks'[u] = tasks[u]
  BY Replaced DEF Base, DashTypeOK
<1>2. \A i \in DOMAIN events : events[i].task \in Tasks
  BY EventIs DEF Base, DashTypeOK, EventsTyped
<1>3. EventsTyped'
  BY <1>1, <1>2 DEF Base, DashTypeOK, EventsTyped, Queued
<1>4. Posted'
  BY <1>1, <1>2 DEF Base, Posted, Queued, Active
<1> QED
  BY <1>1, <1>3, <1>4

LEMMA PostStep ==
  ASSUME Base, NEW t \in Tasks, NEW task \in Task, Fits(task), tasks' = [tasks EXCEPT ![t] = task],
         NEW r \in Results, Post(t, r),
         \/ /\ task.kind \in Active /\ task.pc = "sent"
            /\ \A i \in DOMAIN events : events[i].task # t
         \/ Queued(tasks[t]) /\ Queued(task),
         task.kind = "load" /\ r = "ok" => task.read \in SUBSET Listed
  PROVE  TasksTyped' /\ EventsTyped' /\ Posted'
<1> DEFINE new == Len(events) + 1
<1>1. TasksTyped' /\ tasks'[t] = task /\ \A u \in Tasks \ {t} : tasks'[u] = tasks[u]
  BY Replaced DEF Base, DashTypeOK
<1>2. \A i \in DOMAIN events : events[i].task \in Tasks
  BY EventIs DEF Base, DashTypeOK, EventsTyped
<1> events \in Seq(Event) /\ [task |-> t, result |-> r] \in Event
  BY DEF Base, DashTypeOK, EventsTyped, Event
<1>3. /\ events' \in Seq(Event)
      /\ DOMAIN events' = DOMAIN events \cup {new} /\ new \notin DOMAIN events
      /\ \A i \in DOMAIN events : events'[i] = events[i]
      /\ events'[new] = [task |-> t, result |-> r]
  BY AppendedIs DEF Post
<1>4. EventsTyped'
  BY <1>1, <1>2, <1>3 DEF Base, DashTypeOK, EventsTyped, Queued
<1>5. Posted'
  BY <1>1, <1>2, <1>3 DEF Base, Posted, Queued, Active
<1> QED
  BY <1>1, <1>4, <1>5

LEMMA HearStep ==
  ASSUME Base, events # << >>, events' = Tail(events), NEW task \in Task, Fits(task),
         tasks' = [tasks EXCEPT ![Head(events).task] = task],
         Queued(tasks[Head(events).task]) => Queued(task)
  PROVE  TasksTyped' /\ EventsTyped' /\ Posted'
<1> DEFINE t == Head(events).task
<1>1. /\ events' \in Seq(Event) /\ 1 \in DOMAIN events
      /\ Head(events) = events[1] /\ t \in Tasks
      /\ \A i \in DOMAIN events' : i + 1 \in DOMAIN events /\ events'[i] = events[i + 1] /\ i \in Nat \ {0}
  <2> events \in Seq(Event)
    BY DEF Base, DashTypeOK, EventsTyped
  <2> QED
    BY TailIs, EventIs
<1>2. TasksTyped' /\ tasks'[t] = task /\ \A u \in Tasks \ {t} : tasks'[u] = tasks[u]
  BY <1>1, Replaced DEF Base, DashTypeOK
<1>3. \A i \in DOMAIN events' : events'[i].task \in Tasks
  BY <1>1, EventIs
<1>4. ASSUME NEW i \in DOMAIN events', events'[i].task = t, ~Queued(tasks[t])
      PROVE  FALSE
  BY <1>1, <1>4 DEF Base, Posted
<1>5. EventsTyped'
  BY <1>1, <1>2, <1>3, <1>4 DEF Base, DashTypeOK, EventsTyped, Queued
<1>6. Posted'
  <2> SUFFICES ASSUME NEW i \in DOMAIN events'
               PROVE  /\ tasks'[events'[i].task].kind \in Active
                      /\ ~Queued(tasks'[events'[i].task]) =>
                           /\ tasks'[events'[i].task].pc = "sent"
                           /\ \A j \in DOMAIN events' : events'[j].task = events'[i].task => j = i
    BY DEF Posted, Queued
  <2>1. CASE events'[i].task = t
    BY <1>2, <1>4, <2>1 DEF Queued, Active
  <2>2. CASE events'[i].task # t
    <3>1. tasks'[events'[i].task] = tasks[events[i + 1].task]
      BY <1>1, <1>2, <1>3, <2>2
    <3>2. /\ tasks[events[i + 1].task].kind \in Active
          /\ ~Queued(tasks[events[i + 1].task]) =>
               /\ tasks[events[i + 1].task].pc = "sent"
               /\ \A j \in DOMAIN events : events[j].task = events[i + 1].task => j = i + 1
      BY <1>1 DEF Base, Posted
    <3>3. \A j \in DOMAIN events' : j + 1 = i + 1 => j = i
      BY <1>1
    <3> QED
      BY <1>1, <3>1, <3>2, <3>3
  <2> QED
    BY <2>1, <2>2
<1> QED
  BY <1>2, <1>5, <1>6

LEMMA KeepStep ==
  ASSUME Base, NEW t \in Tasks, NEW task \in Task, tasks' = [tasks EXCEPT ![t] = task],
         \A p \in Places : Exists(p) => Exists(p)',
         repos' = repos, Begins(window'.bookmarks, repos),
         Needs(task) => task.place \in Places /\ Exists(task.place)',
         task.kind = "wizard" /\ task.pc = "set" => Begins(task.read, repos)
  PROVE  Kept'
<1>1. tasks'[t] = task /\ \A u \in Tasks \ {t} : tasks'[u] = tasks[u]
  BY Replaced DEF Base, DashTypeOK
<1>2. \A i \in DOMAIN repos : repos[i].place \in Places
  BY KnownPlaces DEF Base, DashTypeOK, StoresTyped
<1>3. \A u \in Tasks : Needs(tasks[u]) => tasks[u].place \in Places
  BY DEF Base, DashTypeOK, TasksTyped, Fits, Needs, Active
<1>4. (\A i \in DOMAIN repos : Exists(repos[i].place))'
  BY <1>2 DEF Base, Kept, Exists
<1>5. (\A u \in Tasks : Needs(tasks[u]) => Exists(tasks[u].place))'
  BY <1>1, <1>3 DEF Base, Kept, Exists
<1>6. (\A u \in Tasks : At(u, "wizard", "set") => Begins(tasks[u].read, repos))'
  BY <1>1 DEF Base, Kept, At
<1> QED
  BY <1>4, <1>5, <1>6 DEF Kept

LEMMA NoneOf ==
  ASSUME Base, NEW t \in Tasks, tasks[t].kind \notin Active \/ (~Queued(tasks[t]) /\ tasks[t].pc # "sent")
  PROVE  \A i \in DOMAIN events : events[i].task # t
BY DEF Base, Posted

LEMMA TaskIs ==
  ASSUME Base, NEW t \in Tasks
  PROVE  tasks[t] \in Task /\ Fits(tasks[t])
BY DEF Base, DashTypeOK, TasksTyped

LEMMA Bookmarked ==
  ASSUME Base, NEW i \in DOMAIN window.bookmarks
  PROVE  /\ window.bookmarks[i].place \in Places /\ Exists(window.bookmarks[i].place)
         /\ i \in DOMAIN repos /\ window.bookmarks[i] = repos[i]
<1>1. window.bookmarks \in Seq(Known) /\ repos \in Seq(Known)
  BY DEF Base, DashTypeOK, StoresTyped
<1>2. i \in 1 .. Len(window.bookmarks) /\ Len(window.bookmarks) \in Nat /\ Len(repos) \in Nat
  BY <1>1, LenProperties
<1>3. i \in DOMAIN repos /\ window.bookmarks[i] = repos[i]
  BY <1>1, <1>2, LenProperties DEF Base, Kept, Begins
<1> QED
  BY <1>1, <1>3, KnownPlaces DEF Base, Kept

LEMMA QuietBase ==
  ASSUME Base, NEW t \in Tasks, NEW task \in Task, Fits(task), tasks' = [tasks EXCEPT ![t] = task],
         UNCHANGED <<events, archives, lock, repos, saved, window>>, StoresTyped',
         \/ tasks[t].kind \notin Active
         \/ ~Queued(tasks[t]) /\ tasks[t].pc # "sent"
         \/ Queued(tasks[t]) /\ Queued(task),
         Needs(task) => Exists(task.place),
         task.kind = "wizard" /\ task.pc = "set" => Begins(task.read, repos)
  PROVE  Base'
<1>1. \A i \in DOMAIN events : events[i].task = t => Queued(tasks[t]) /\ Queued(task)
  BY NoneOf
<1>2. TasksTyped' /\ EventsTyped' /\ Posted'
  BY <1>1, QuietStep
<1>3. Needs(task) => task.place \in Places
  BY DEF Needs, Fits, Active
<1>4. Kept'
  BY <1>3, KeepStep DEF Base, Kept, Exists
<1> QED
  BY <1>2, <1>4 DEF Base, DashTypeOK

LEMMA PostBase ==
  ASSUME Base, NEW t \in Tasks, NEW task \in Task, Fits(task), tasks' = [tasks EXCEPT ![t] = task],
         NEW r \in Results, Post(t, r),
         \/ ~Queued(tasks[t]) /\ tasks[t].pc # "sent" /\ task.kind \in Active /\ task.pc = "sent"
         \/ Queued(tasks[t]) /\ Queued(task),
         task.kind = "load" /\ r = "ok" => task.read \in SUBSET Listed,
         repos' = repos, window'.bookmarks = window.bookmarks, StoresTyped',
         \A p \in Places : Exists(p) => Exists(p)',
         Needs(task) => Exists(task.place)'
  PROVE  Base'
<1>1. \/ task.kind \in Active /\ task.pc = "sent" /\ \A i \in DOMAIN events : events[i].task # t
      \/ Queued(tasks[t]) /\ Queued(task)
  BY NoneOf
<1>2. TasksTyped' /\ EventsTyped' /\ Posted'
  BY <1>1, PostStep
<1>3. Needs(task) => task.place \in Places
  BY DEF Needs, Fits, Active
<1>4. ~(task.kind = "wizard" /\ task.pc = "set")
  BY DEF Queued
<1>5. Begins(window'.bookmarks, repos)
  BY DEF Base, Kept
<1>6. Kept'
  BY <1>3, <1>4, <1>5, KeepStep
<1> QED
  BY <1>2, <1>6 DEF Base, DashTypeOK

LEMMA HearBase ==
  ASSUME Base, events # << >>, events' = Tail(events), NEW task \in Task, Fits(task),
         tasks' = [tasks EXCEPT ![Head(events).task] = task],
         Queued(tasks[Head(events).task]) => Queued(task),
         UNCHANGED <<archives, lock, repos, saved>>, window'.bookmarks = window.bookmarks, StoresTyped',
         Needs(task) => Exists(task.place),
         ~(task.kind = "wizard" /\ task.pc = "set")
  PROVE  Base'
<1>1. TasksTyped' /\ EventsTyped' /\ Posted'
  BY HearStep
<1>2. Head(events).task \in Tasks
  BY TailIs, EventIs DEF Base, DashTypeOK, EventsTyped
<1>3. Needs(task) => task.place \in Places
  BY DEF Needs, Fits, Active
<1>4. Begins(window'.bookmarks, repos)
  BY DEF Base, Kept
<1>5. Kept'
  BY <1>2, <1>3, <1>4, KeepStep DEF Exists
<1> QED
  BY <1>1, <1>5 DEF Base, DashTypeOK

-------------------------------------------------------------------------------
(***************************************************************************)
(* Every step keeps the base                                               *)
(***************************************************************************)

LEMMA FinishBase ==
  ASSUME Base, NEW t \in Tasks, NEW a \in Answers, Finish(t, a.name, a.place)
  PROVE  Base'
<1> PICK task : task = [Unused EXCEPT !.kind = "wizard", !.pc = "name", !.name = a.name, !.place = a.place]
  OBVIOUS
<1>1. a.place \in Places /\ a.name \in AnswerNames
  BY PlacesAssumption DEF AnswerNames
<1>2. task \in Task /\ task.kind = "wizard" /\ task.pc = "name" /\ task.place = a.place /\ task.name = a.name
  BY <1>1, BlanksFit DEF Task, Active, Pcs
<1>3. Fits(task) /\ ~Needs(task)
  BY <1>1, <1>2 DEF Fits, Needs, Active
<1>4. tasks' = [tasks EXCEPT ![t] = task] /\ tasks[t].kind \notin Active
  BY DEF Finish, Begin, Fresh, Is, Active
<1>5. UNCHANGED <<events, archives, lock, repos, saved, window, history>>
  BY DEF Finish
<1> QED
  BY <1>2, <1>3, <1>4, <1>5, QuietBase DEF Base, DashTypeOK, StoresTyped

LEMMA EndBase ==
  ASSUME Base, NEW t \in Tasks, End(t), ~Queued(tasks[t]), tasks[t].pc # "sent",
         UNCHANGED <<events, archives, lock, repos, saved, window>>, StoresTyped'
  PROVE  Base'
<1>1. Ended \in Task /\ Fits(Ended) /\ ~Needs(Ended) /\ ~(Ended.kind = "wizard")
  BY BlanksFit DEF Needs
<1> QED
  BY <1>1, QuietBase DEF End

LEMMA NameBase ==
  ASSUME Base, NEW t \in Tasks, Repo_name_exists(t)
  PROVE  Base'
<1>1. /\ UNCHANGED <<events, archives, lock, repos, saved, window, history>>
      /\ tasks[t].kind = "wizard" /\ tasks[t].pc = "name" /\ ~Queued(tasks[t])
  BY DEF Repo_name_exists, At, Queued
<1>2. StoresTyped'
  BY <1>1 DEF Base, DashTypeOK, StoresTyped
<1>3. CASE End(t)
  BY <1>1, <1>2, <1>3, EndBase
<1>4. CASE Goto(t, "init")
  <2> PICK task : task = [tasks[t] EXCEPT !.pc = "init"]
    OBVIOUS
  <2>1. task \in Task /\ Fits(task) /\ ~Needs(task) /\ task.pc # "set"
    BY <1>1, TaskIs DEF Task, Pcs, Fits, Needs, Active
  <2> QED
    BY <1>1, <1>2, <1>4, <2>1, QuietBase DEF Goto
<1> QED
  BY <1>3, <1>4 DEF Repo_name_exists

LEMMA InitBase ==
  ASSUME Base, NEW t \in Tasks, Init_repository(t)
  PROVE  Base'
<1>1. tasks[t].kind = "wizard" /\ tasks[t].pc = "init" /\ tasks[t].place \in Places
  BY TaskIs DEF Init_repository, At, Fits, Active
<1>2. UNCHANGED <<lock, repos, saved, window, history>>
  BY DEF Init_repository
<1>3. CASE End(t) /\ UNCHANGED <<events, archives>>
  BY <1>1, <1>2, <1>3, EndBase DEF Base, DashTypeOK, StoresTyped, Queued
<1>4. CASE /\ archives' = [archives EXCEPT ![tasks[t].place] = {}]
           /\ PostEnd(t, "sent", "ok")
  <2> PICK task : task = [tasks[t] EXCEPT !.pc = "sent"]
    OBVIOUS
  <2>1. task \in Task /\ Fits(task) /\ task.kind = "wizard" /\ task.pc = "sent" /\ task.place = tasks[t].place
    BY <1>1, TaskIs DEF Task, Pcs, Fits, Active
  <2>2. tasks' = [tasks EXCEPT ![t] = task] /\ Post(t, "ok")
    BY <1>4 DEF PostEnd, Goto
  <2>3. {} # NoRepository
    BY NoneAssumption DEF NoRepository
  <2>4. /\ archives' \in [Places -> (SUBSET ArchiveNames) \cup {NoRepository}]
        /\ \A p \in Places : Exists(p) => Exists(p)'
        /\ archives'[tasks[t].place] # NoRepository
    BY <1>1, <1>4, <2>3 DEF Base, DashTypeOK, StoresTyped, Exists
  <2>5. StoresTyped'
    BY <1>2, <2>4 DEF Base, DashTypeOK, StoresTyped
  <2>6. "ok" \in Results /\ ~Queued(tasks[t]) /\ tasks[t].pc # "sent" /\ task.kind \in Active
    BY <1>1, <2>1 DEF Queued, Active, Results
  <2>7. Exists(task.place)'
    BY <2>1, <2>4 DEF Exists
  <2> QED
    BY <1>2, <2>1, <2>2, <2>4, <2>5, <2>6, <2>7, PostBase
<1> QED
  BY <1>3, <1>4 DEF Init_repository

LEMMA AddBase ==
  ASSUME Base, NEW t \in Tasks, Add_repo(t)
  PROVE  Base'
<1> DEFINE entry == [name |-> tasks[t].name, place |-> tasks[t].place]
<1>1. /\ UNCHANGED <<events, archives, lock, saved, window>>
      /\ tasks[t].kind = "wizard" /\ tasks[t].pc = "insert" /\ ~Queued(tasks[t])
  BY DEF Add_repo, At, Queued
<1>2. tasks[t].place \in Places /\ tasks[t].name \in AnswerNames /\ Exists(tasks[t].place)
  BY <1>1, TaskIs DEF Fits, Active, Base, Kept, Needs
<1>3. CASE End(t) /\ Note({"adds"}) /\ UNCHANGED repos
  BY <1>1, <1>3, EndBase DEF Base, DashTypeOK, StoresTyped, Note
<1>4. CASE Goto(t, "list") /\ repos' = Append(repos, entry) /\ UNCHANGED history
  <2> PICK task : task = [tasks[t] EXCEPT !.pc = "list"]
    OBVIOUS
  <2>1. /\ task \in Task /\ Fits(task) /\ task.kind = "wizard" /\ task.pc = "list"
        /\ task.place = tasks[t].place
    BY <1>1, TaskIs DEF Task, Pcs, Fits, Active
  <2>2. tasks' = [tasks EXCEPT ![t] = task]
    BY <1>4 DEF Goto
  <2>3. tasks'[t] = task /\ \A u \in Tasks \ {t} : tasks'[u] = tasks[u]
    BY <2>2, Replaced DEF Base, DashTypeOK
  <2>4. TasksTyped' /\ EventsTyped' /\ Posted'
    BY <1>1, <2>1, <2>2, NoneOf, QuietStep
  <2>5. repos \in Seq(Known) /\ entry \in Known
    BY <1>2 DEF Base, DashTypeOK, StoresTyped, Known
  <2>6. /\ repos' \in Seq(Known) /\ Len(repos') = Len(repos) + 1 /\ Len(repos) \in Nat
        /\ DOMAIN repos' = DOMAIN repos \cup {Len(repos) + 1}
        /\ DOMAIN repos = 1 .. Len(repos)
        /\ \A i \in DOMAIN repos : repos'[i] = repos[i]
        /\ repos'[Len(repos) + 1] = entry
    BY <1>4, <2>5, AppendedIs, LenProperties
  <2>7. StoresTyped'
    <3>1. repos' # << >>
      BY <2>6, EmptySeq
    <3> QED
      BY <1>1, <1>4, <2>6, <3>1 DEF Base, DashTypeOK, StoresTyped
  <2>8. \A s \in Seq(Known) : Begins(s, repos) => Begins(s, repos')
    BY <2>6, LenProperties DEF Begins
  <2>9. Kept'
    <3>1. (\A i \in DOMAIN repos : Exists(repos[i].place))'
      <4> SUFFICES ASSUME NEW i \in DOMAIN repos' PROVE archives'[repos'[i].place] # NoRepository
        BY DEF Exists
      <4>1. CASE i \in DOMAIN repos
        BY <1>1, <2>6, <4>1 DEF Base, Kept, Exists
      <4>2. CASE i = Len(repos) + 1
        BY <1>1, <1>2, <2>6, <4>2 DEF Exists
      <4> QED
        BY <2>6, <4>1, <4>2
    <3>2. (\A u \in Tasks : Needs(tasks[u]) => Exists(tasks[u].place))'
      <4> SUFFICES ASSUME NEW u \in Tasks, Needs(tasks'[u]) PROVE archives'[tasks'[u].place] # NoRepository
        BY DEF Exists
      <4>1. CASE u = t
        BY <1>1, <1>2, <2>1, <2>3, <4>1 DEF Exists
      <4>2. CASE u # t
        BY <1>1, <2>3, <4>2 DEF Base, Kept, Exists
      <4> QED
        BY <4>1, <4>2
    <3>3. Begins(window.bookmarks, repos)'
      BY <1>1, <2>8 DEF Base, Kept, DashTypeOK, StoresTyped
    <3>4. (\A u \in Tasks : At(u, "wizard", "set") => Begins(tasks[u].read, repos))'
      <4> SUFFICES ASSUME NEW u \in Tasks, At(u, "wizard", "set")' PROVE Begins(tasks'[u].read, repos')
        BY DEF At
      <4>1. u # t /\ tasks'[u] = tasks[u]
        BY <2>1, <2>3 DEF At
      <4>2. tasks[u].read \in Seq(Known) /\ Begins(tasks[u].read, repos)
        BY <4>1, TaskIs DEF At, Fits, Base, Kept
      <4> QED
        BY <2>8, <4>1, <4>2
    <3> QED
      BY <3>1, <3>2, <3>3, <3>4 DEF Kept
  <2> QED
    BY <2>4, <2>7, <2>9 DEF Base, DashTypeOK
<1> QED
  BY <1>3, <1>4 DEF Add_repo

LEMMA ListBase ==
  ASSUME Base, NEW t \in Tasks, List_repos(t) \/ SetRepos(t)
  PROVE  Base'
<1>1. UNCHANGED <<events, archives, lock, repos, saved, history>> /\ tasks[t].kind = "wizard"
  BY DEF List_repos, SetRepos, At
<1>2. repos \in Seq(Known) /\ Len(repos) \in Nat
  BY LenProperties DEF Base, DashTypeOK, StoresTyped
<1>3. CASE List_repos(t)
  <2> PICK task : task = [tasks[t] EXCEPT !.pc = "set", !.read = repos]
    OBVIOUS
  <2>1. tasks' = [tasks EXCEPT ![t] = task] /\ UNCHANGED window /\ tasks[t].pc = "list"
    BY <1>3 DEF List_repos, At
  <2>2. task \in Task /\ Fits(task) /\ task.place = tasks[t].place /\ task.read = repos
    BY <1>1, <1>2, <2>1, TaskIs DEF Task, Reads, Pcs, Fits, Active
  <2>3. Exists(task.place)
    BY <1>1, <2>1, <2>2 DEF Base, Kept, Needs
  <2>4. Begins(task.read, repos)
    BY <1>2, <2>2 DEF Begins
  <2>5. StoresTyped' /\ ~Queued(tasks[t])
    BY <1>1, <2>1 DEF Base, DashTypeOK, StoresTyped, Queued
  <2> QED
    BY <1>1, <2>1, <2>2, <2>3, <2>4, <2>5, QuietBase
<1>4. CASE SetRepos(t)
  <2>1. /\ End(t) /\ window' = [window EXCEPT !.bookmarks = tasks[t].read]
        /\ tasks[t].pc = "set" /\ ~Queued(tasks[t])
    BY <1>1, <1>4 DEF SetRepos, At, Queued
  <2>2. tasks[t].read \in Seq(Known) /\ Begins(tasks[t].read, repos)
    BY <1>1, <2>1, TaskIs DEF Fits, Base, Kept, At
  <2>3. /\ StoresTyped' /\ window'.bookmarks = tasks[t].read
    BY <1>1, <2>1, <2>2 DEF Base, DashTypeOK, StoresTyped
  <2>4. Ended \in Task /\ Fits(Ended) /\ ~Needs(Ended) /\ ~(Ended.kind = "wizard")
    BY BlanksFit DEF Needs
  <2>5. TasksTyped' /\ EventsTyped' /\ Posted'
    BY <1>1, <2>1, <2>4, NoneOf, QuietStep DEF End
  <2>6. Kept'
    BY <1>1, <2>1, <2>2, <2>3, <2>4, KeepStep DEF End, Exists
  <2> QED
    BY <2>3, <2>5, <2>6 DEF Base, DashTypeOK
<1> QED
  BY <1>3, <1>4

LEMMA BeginBase ==
  ASSUME Base, NEW t \in Tasks, NEW task \in Task, Fits(task), Begin(t, task),
         task.kind \in Active \ {"wizard"}, Exists(task.place),
         UNCHANGED <<events, archives, lock, repos, saved>>, StoresTyped',
         window'.bookmarks = window.bookmarks
  PROVE  Base'
<1>1. tasks[t].kind \notin Active /\ tasks' = [tasks EXCEPT ![t] = task]
  BY DEF Begin, Fresh, Is, Active
<1>2. \A i \in DOMAIN events : events[i].task # t
  BY <1>1, NoneOf
<1>3. TasksTyped' /\ EventsTyped' /\ Posted'
  BY <1>1, <1>2, QuietStep
<1>4. task.place \in Places /\ task.kind # "wizard"
  BY DEF Fits
<1>5. Kept'
  BY <1>1, <1>4, KeepStep DEF Exists, Base, Kept
<1> QED
  BY <1>3, <1>5 DEF Base, DashTypeOK

LEMMA SelectBase ==
  ASSUME Base, NEW t \in Tasks, NEW i \in DOMAIN window.sidebar, Select_repo(t, i)
  PROVE  Base'
<1>1. /\ window' = [window EXCEPT !.active = i] /\ UNCHANGED <<events, archives, lock, repos, saved>>
      /\ \E b \in BOOLEAN : history' = [history EXCEPT !.alone = b, !.loaded = FALSE]
  BY DEF Select_repo, Select
<1>2. i \in Nat
  BY LenProperties DEF Base, DashTypeOK, StoresTyped
<1>3. StoresTyped' /\ window'.bookmarks = window.bookmarks
  BY <1>1, <1>2 DEF Base, DashTypeOK, StoresTyped
<1>4. CASE i \in DOMAIN window.bookmarks
  <2>1. Begin(t, Load(window.bookmarks[i].place))
    BY <1>4 DEF Select_repo, Select
  <2> QED
    BY <1>1, <1>3, <1>4, <2>1, Bookmarked, LoadFits, BeginBase DEF Active
<1>5. CASE i \notin DOMAIN window.bookmarks
  <2>1. tasks' = tasks
    BY <1>5 DEF Select_repo, Select
  <2> QED
    BY <1>1, <1>3, <2>1 DEF Base, DashTypeOK, TasksTyped, EventsTyped, Posted, Kept, Exists, At
<1> QED
  BY <1>4, <1>5

LEMMA LoadBase ==
  ASSUME Base, NEW t \in Tasks, LoadArchives(t)
  PROVE  Base'
<1>1. /\ UNCHANGED <<archives, lock, repos, saved, window, history>>
      /\ tasks[t].kind = "load" /\ tasks[t].pc = "load" /\ ~Queued(tasks[t])
  BY DEF LoadArchives, At, Queued
<1>2. /\ StoresTyped' /\ \A p \in Places : Exists(p) => Exists(p)'
      /\ tasks[t].place \in Places /\ Exists(tasks[t].place)
  BY <1>1, TaskIs DEF Base, DashTypeOK, StoresTyped, Exists, Fits, Active, Kept, Needs
<1>3. Entries(tasks[t].place) \in SUBSET Listed
  BY <1>2 DEF Base, DashTypeOK, StoresTyped, Exists, Entries, Listed
<1>4. ASSUME NEW task \in Task, Fits(task), task.kind = "load", task.pc = "sent", task.place = tasks[t].place,
             tasks' = [tasks EXCEPT ![t] = task], NEW r \in {"ok", "failed"}, Post(t, r),
             r = "ok" => task.read \in SUBSET Listed
      PROVE  Base'
  <2>1. r \in Results /\ task.kind \in Active /\ Exists(task.place)'
    BY <1>1, <1>2, <1>4 DEF Results, Active, Exists
  <2> QED
    BY <1>1, <1>2, <1>4, <2>1, PostBase
<1>5. CASE /\ tasks' = [tasks EXCEPT ![t].pc = "sent", ![t].read = Entries(tasks[t].place)]
           /\ Post(t, "ok")
  <2> PICK names \in (SUBSET Listed) : names = Entries(tasks[t].place)
    BY <1>3
  <2> PICK task : task = [tasks[t] EXCEPT !.pc = "sent", !.read = names]
    OBVIOUS
  <2>0. names \in Reads
    BY DEF Reads
  <2>1. /\ task \in Task /\ Fits(task) /\ task.kind = "load" /\ task.pc = "sent"
        /\ task.place = tasks[t].place /\ task.read \in SUBSET Listed
    BY <1>1, <2>0, TaskIs DEF Task, Pcs, Fits, Active
  <2>2. tasks' = [tasks EXCEPT ![t] = task]
    BY <1>5 DEF Base, DashTypeOK, TasksTyped, Task
  <2> QED
    BY <1>4, <1>5, <2>1, <2>2
<1>6. CASE PostEnd(t, "sent", "failed")
  <2> PICK task : task = [tasks[t] EXCEPT !.pc = "sent"]
    OBVIOUS
  <2>1. /\ task \in Task /\ Fits(task) /\ task.kind = "load" /\ task.pc = "sent"
        /\ task.place = tasks[t].place
    BY <1>1, TaskIs DEF Task, Pcs, Fits, Active
  <2> QED
    BY <1>4, <1>6, <2>1 DEF PostEnd, Goto
<1> QED
  BY <1>5, <1>6 DEF LoadArchives

LEMMA SaveBase ==
  ASSUME Base, NEW t \in Tasks, NEW c \in Configs, Save(t, c)
  PROVE  Base'
<1> DEFINE p == window.bookmarks[window.active].place
<1>1. p \in Places /\ Exists(p)
  BY Bookmarked DEF Save, HasSelected
<1> PICK task : task = [Unused EXCEPT !.kind = "save", !.pc = "upsert", !.place = p, !.conf = c]
  OBVIOUS
<1>2. Begin(t, task) /\ UNCHANGED <<events, archives, lock, repos, saved, window>>
  BY DEF Save, Selected
<1>3. StoresTyped'
  BY <1>2 DEF Base, DashTypeOK, StoresTyped, Save, Note
<1>4. task \in Task /\ task.kind = "save" /\ task.pc = "upsert" /\ task.place = p
  BY <1>1, BlanksFit DEF Task, Active, Pcs
<1>5. Fits(task) /\ task.kind \in Active
  BY <1>1, <1>4 DEF Fits, Active
<1> QED
  BY <1>1, <1>2, <1>3, <1>4, <1>5, BeginBase

LEMMA BackupBase ==
  ASSUME Base, NEW t \in Tasks, NEW name \in Archives, Backup(t, name)
  PROVE  Base'
<1> DEFINE p == window.bookmarks[window.active].place
<1>1. p \in Places /\ Exists(p)
  BY Bookmarked DEF Backup, HasSelected
<1> PICK task : task = [Unused EXCEPT !.kind = "backup", !.pc = "lock", !.place = p, !.name = name,
                                      !.conf = window.configs[p]]
  OBVIOUS
<1>2. Begin(t, task) /\ UNCHANGED <<events, archives, lock, repos, saved, window, history>>
  BY DEF Backup, Selected
<1>3. StoresTyped' /\ window.configs[p] \in Configs \cup {None}
  BY <1>1, <1>2 DEF Base, DashTypeOK, StoresTyped, Settings
<1>4. task \in Task /\ task.kind = "backup" /\ task.pc = "lock" /\ task.place = p /\ task.name = name
  BY <1>1, <1>3, BlanksFit DEF Task, Active, Pcs
<1>5. Fits(task) /\ task.kind \in Active
  BY <1>1, <1>4 DEF Fits, Active
<1> QED
  BY <1>1, <1>2, <1>3, <1>4, <1>5, BeginBase

LEMMA SaveStepBase ==
  ASSUME Base, NEW t \in Tasks, SaveStep(t)
  PROVE  Base'
<1>1. /\ tasks[t].kind = "save" /\ ~Queued(tasks[t]) /\ tasks[t].pc \in {"upsert", "list", "set"}
      /\ UNCHANGED <<archives, lock, repos>>
  BY DEF SaveStep, Upsert_archive_bookmark, SaveFails, Remember, List_archive_bookmarks, SetConfigs,
         At, Is, Queued
<1>2. \A p \in Places : Exists(p) => Exists(p)'
  BY <1>1 DEF Exists
<1>3. tasks[t].place \in Places /\ tasks[t].conf \in Configs \cup {None} /\ saved \in Settings
  BY <1>1, TaskIs DEF Fits, Active, Task, Base, DashTypeOK, StoresTyped
<1>4. ASSUME NEW pc \in {"list", "set"}, NEW read \in Reads, pc = "set" => read \in Settings,
             tasks' = [tasks EXCEPT ![t] = [@ EXCEPT !.pc = pc, !.read = read]],
             UNCHANGED <<events, window>>, StoresTyped'
      PROVE  Base'
  <2> PICK task : task = [tasks[t] EXCEPT !.pc = pc, !.read = read]
    OBVIOUS
  <2>0. pc \in Pcs
    BY DEF Pcs
  <2>9. /\ task \in Task /\ task.kind = "save" /\ task.pc = pc /\ task.place = tasks[t].place
        /\ task.read = read
    BY <1>1, <2>0, TaskIs DEF Task
  <2>1. Fits(task) /\ ~Needs(task) /\ task.kind # "wizard" /\ task \in Task
    BY <1>3, <1>4, <2>9 DEF Fits, Needs
  <2>2. tasks' = [tasks EXCEPT ![t] = task]
    BY <1>4
  <2>3. TasksTyped' /\ EventsTyped' /\ Posted'
    BY <1>1, <1>4, <2>1, <2>2, NoneOf, QuietStep
  <2>4. Kept'
    BY <1>1, <1>2, <1>4, <2>1, <2>2, KeepStep DEF Base, Kept
  <2> QED
    BY <1>4, <2>3, <2>4 DEF Base, DashTypeOK
<1>5. ASSUME NEW read \in Reads, tasks' = [tasks EXCEPT ![t] = [@ EXCEPT !.pc = "sent", !.read = read]],
             Post(t, "ok"), window'.bookmarks = window.bookmarks, StoresTyped'
      PROVE  Base'
  <2> PICK task : task = [tasks[t] EXCEPT !.pc = "sent", !.read = read]
    OBVIOUS
  <2>1. /\ task \in Task /\ Fits(task) /\ ~Needs(task) /\ task.kind = "save" /\ task.kind \in Active
        /\ task.pc = "sent"
    BY <1>1, TaskIs DEF Task, Pcs, Fits, Active, Needs
  <2>2. tasks' = [tasks EXCEPT ![t] = task] /\ "ok" \in Results
    BY <1>5 DEF Results
  <2> QED
    BY <1>1, <1>2, <1>5, <2>1, <2>2, PostBase
<1>6. tasks[t].read \in Reads /\ tasks \in [Tasks -> Task] /\ saved \in Reads /\ << >> \in Reads
  BY <1>3, TaskIs, EmptySeq DEF Task, Base, DashTypeOK, TasksTyped, Reads
<1>7. \A pc : [tasks[t] EXCEPT !.pc = pc] = [tasks[t] EXCEPT !.pc = pc, !.read = tasks[t].read]
  BY TaskIs DEF Task
<1>8. CASE Upsert_archive_bookmark(t)
  <2>1. saved' \in Settings
    BY <1>3, <1>8 DEF Upsert_archive_bookmark, Settings
  <2>2. StoresTyped' /\ UNCHANGED <<events, window>>
    BY <1>1, <1>8, <2>1 DEF Upsert_archive_bookmark, Base, DashTypeOK, StoresTyped
  <2>3. tasks' = [tasks EXCEPT ![t] = [@ EXCEPT !.pc = "list", !.read = tasks[t].read]]
    BY <1>7, <1>8 DEF Upsert_archive_bookmark, Goto
  <2> QED
    BY <1>4, <1>6, <2>2, <2>3
<1>9. CASE SaveFails(t)
  <2>1. StoresTyped' /\ UNCHANGED window /\ Post(t, "ok")
    BY <1>1, <1>9 DEF SaveFails, PostEnd, Note, Base, DashTypeOK, StoresTyped
  <2>2. tasks' = [tasks EXCEPT ![t] = [@ EXCEPT !.pc = "sent", !.read = tasks[t].read]]
    BY <1>7, <1>9 DEF SaveFails, PostEnd, Goto
  <2> QED
    BY <1>5, <1>6, <2>1, <2>2
<1>10. CASE List_archive_bookmarks(t)
  <2>1. StoresTyped' /\ UNCHANGED <<events, window>>
    BY <1>1, <1>10 DEF List_archive_bookmarks, Base, DashTypeOK, StoresTyped
  <2>2. tasks' = [tasks EXCEPT ![t] = [@ EXCEPT !.pc = "set", !.read = saved]]
    BY <1>6, <1>10 DEF List_archive_bookmarks, Task
  <2> QED
    BY <1>3, <1>4, <1>6, <2>1, <2>2
<1>11. CASE SetConfigs(t)
  <2>1. tasks[t].read \in Settings
    BY <1>1, <1>11, TaskIs DEF SetConfigs, At, Fits
  <2>2. StoresTyped' /\ window'.bookmarks = window.bookmarks /\ Post(t, "ok")
    BY <1>1, <1>11, <2>1 DEF SetConfigs, Base, DashTypeOK, StoresTyped
  <2>3. tasks' = [tasks EXCEPT ![t] = [@ EXCEPT !.pc = "sent", !.read = << >>]]
    BY <1>6, <1>11 DEF SetConfigs, Task
  <2> QED
    BY <1>5, <1>6, <2>2, <2>3
<1> QED
  BY <1>8, <1>9, <1>10, <1>11 DEF SaveStep, Remember

Tried(t, pc, tries, stored) == [tasks[t] EXCEPT !.pc = pc, !.tries = tries, !.stored = stored]

LEMMA TriedFits ==
  ASSUME Base, NEW t \in Tasks, tasks[t].kind = "backup",
         NEW pc \in {"lock", "create", "sent", "retry", "over"}, NEW tries \in Nat, NEW stored \in Nat
  PROVE  LET task == Tried(t, pc, tries, stored)
         IN  /\ task \in Task /\ Fits(task) /\ task.kind = "backup" /\ task.pc = pc
             /\ task.place = tasks[t].place /\ task.name = tasks[t].name
             /\ Queued(task) <=> Queued(tasks[t])
             /\ task.queued = tasks[t].queued /\ task.exit = tasks[t].exit /\ task.told = tasks[t].told
             /\ task.tries = tries /\ task.stored = stored
<1> PICK task : task = Tried(t, pc, tries, stored)
  OBVIOUS
<1>1. pc \in Pcs
  BY DEF Pcs
<1>2. /\ task \in Task /\ task.kind = "backup" /\ task.pc = pc /\ task.place = tasks[t].place
      /\ task.name = tasks[t].name /\ task.queued = tasks[t].queued
      /\ task.exit = tasks[t].exit /\ task.told = tasks[t].told
      /\ task.tries = tries /\ task.stored = stored
  BY <1>1, TaskIs DEF Task, Tried
<1>3. Fits(task) /\ (Queued(task) <=> Queued(tasks[t]))
  BY <1>2, TaskIs DEF Fits, Queued
<1> QED
  BY <1>2, <1>3

LEMMA BackupStepBase ==
  ASSUME Base, NEW t \in Tasks, BackupStep(t)
  PROVE  Base'
<1>1. tasks[t].kind = "backup" /\ tasks[t].pc \in {"lock", "create", "retry"} /\ UNCHANGED <<repos, saved, window>>
  BY DEF BackupStep, Acquire, Create_archive, Stores, BackupFails, Retry, At
<1>2. /\ tasks[t] \in Task /\ Fits(tasks[t]) /\ tasks[t].place \in Places /\ Exists(tasks[t].place)
      /\ tasks[t].name \in Archives /\ tasks[t].tries \in Nat /\ tasks[t].stored \in Nat
      /\ tasks \in [Tasks -> Task]
  BY <1>1, TaskIs DEF Base, DashTypeOK, TasksTyped, Fits, Active, Kept, Needs, Task
<1>4. ASSUME NEW pc \in {"lock", "create", "over"}, NEW tries \in Nat,
             tasks' = [tasks EXCEPT ![t] = Tried(t, pc, tries, tasks[t].stored)],
             UNCHANGED <<events, archives>>, StoresTyped'
      PROVE  Base'
  <2> PICK task : task = Tried(t, pc, tries, tasks[t].stored)
    OBVIOUS
  <2>0. pc \in {"lock", "create", "sent", "retry", "over"} /\ tries \in Nat /\ tasks[t].stored \in Nat
    BY <1>2
  <2>1. /\ task \in Task /\ Fits(task) /\ task.kind = "backup" /\ task.place = tasks[t].place
        /\ Queued(task) <=> Queued(tasks[t])
    BY <1>1, <2>0, TriedFits
  <2>2. tasks' = [tasks EXCEPT ![t] = task]
    BY <1>4
  <2>3. TasksTyped' /\ EventsTyped' /\ Posted'
    BY <1>1, <1>4, <2>1, <2>2, NoneOf, QuietStep
  <2>4. /\ Begins(window'.bookmarks, repos) /\ task.kind # "wizard" /\ Exists(task.place)'
        /\ \A p \in Places : Exists(p) => Exists(p)'
    BY <1>1, <1>2, <1>4, <2>1 DEF Base, Kept, Exists
  <2>5. Kept'
    BY <1>1, <1>2, <1>4, <2>1, <2>2, <2>4, KeepStep
  <2> QED
    BY <1>4, <2>3, <2>5 DEF Base, DashTypeOK
<1>5. ASSUME NEW stored \in Nat, NEW r \in Results, Post(t, r),
             tasks' = [tasks EXCEPT ![t] = Tried(t, AfterTry(t), tasks[t].tries, stored)],
             \A p \in Places : Exists(p) => Exists(p)', StoresTyped'
      PROVE  Base'
  <2> PICK task : task = Tried(t, AfterTry(t), tasks[t].tries, stored)
    OBVIOUS
  <2>0. AfterTry(t) \in {"lock", "create", "sent", "retry", "over"} /\ tasks[t].tries \in Nat
    BY <1>2 DEF AfterTry
  <2>1. /\ task \in Task /\ Fits(task) /\ task.kind = "backup" /\ task.place = tasks[t].place
        /\ task.pc = AfterTry(t) /\ (Queued(task) <=> Queued(tasks[t]))
    BY <1>1, <2>0, TriedFits
  <2>2. tasks' = [tasks EXCEPT ![t] = task] /\ task.kind \in Active
    BY <1>5, <2>1 DEF Active
  <2>3. \/ ~Queued(tasks[t]) /\ tasks[t].pc # "sent" /\ task.pc = "sent"
        \/ Queued(tasks[t]) /\ Queued(task)
    BY <1>1, <2>1 DEF Queued, AfterTry
  <2>4. Exists(task.place)'
    BY <1>2, <1>5, <2>1
  <2> QED
    BY <1>1, <1>5, <2>1, <2>2, <2>3, <2>4, PostBase
<1>6. \A pc : [tasks[t] EXCEPT !.pc = pc] = Tried(t, pc, tasks[t].tries, tasks[t].stored)
  BY <1>2 DEF Task, Tried
<1>7. CASE Acquire(t)
  <2>1. lock' \in [Places -> Tasks \cup {Free, Other}] /\ UNCHANGED <<archives, repos, saved, window, history>>
    BY <1>7 DEF Acquire, Base, DashTypeOK, StoresTyped
  <2>2. StoresTyped' /\ \A p \in Places : Exists(p) => Exists(p)'
    BY <2>1 DEF Base, DashTypeOK, StoresTyped, Exists
  <2>3. CASE Goto(t, "create") /\ UNCHANGED events
    <3>1. tasks' = [tasks EXCEPT ![t] = Tried(t, "create", tasks[t].tries, tasks[t].stored)]
      BY <1>6, <2>3 DEF Goto
    <3> QED
      BY <1>2, <1>4, <2>1, <2>2, <2>3, <3>1
  <2>4. CASE PostEnd(t, AfterTry(t), "locked")
    <3>1. tasks' = [tasks EXCEPT ![t] = Tried(t, AfterTry(t), tasks[t].tries, tasks[t].stored)]
      BY <1>6, <2>4 DEF PostEnd, Goto
    <3> QED
      BY <1>2, <1>5, <2>2, <2>4, <3>1 DEF PostEnd, Results
  <2> QED
    BY <1>7, <2>3, <2>4 DEF Acquire
<1>8. CASE Create_archive(t)
  <2>1. Stores(t)
    BY <1>8 DEF Create_archive
  <2>2. /\ archives' \in [Places -> (SUBSET ArchiveNames) \cup {NoRepository}]
        /\ \A p \in Places : Exists(p) => archives'[p] # NoRepository
    <3>1. archives[tasks[t].place] \in SUBSET ArchiveNames
      BY <1>2 DEF Exists, Base, DashTypeOK, StoresTyped
    <3>2. archives[tasks[t].place] \cup {tasks[t].name} \in SUBSET ArchiveNames
      BY <1>2, <3>1 DEF ArchiveNames
    <3>3. archives[tasks[t].place] \cup {tasks[t].name} # NoRepository
      BY <3>2, NoneAssumption DEF ArchiveNames, NoRepository
    <3>4. archives' = [archives EXCEPT ![tasks[t].place] = archives[tasks[t].place] \cup {tasks[t].name}]
      BY <2>1 DEF Stores
    <3> QED
      BY <1>2, <3>2, <3>3, <3>4 DEF Exists, Base, DashTypeOK, StoresTyped
  <2>3. StoresTyped' /\ \A p \in Places : Exists(p) => Exists(p)'
    BY <2>1, <2>2 DEF Stores, Release, Base, DashTypeOK, StoresTyped, Exists
  <2>4. tasks' = [tasks EXCEPT ![t] = Tried(t, AfterTry(t), tasks[t].tries, tasks[t].stored + 1)]
    BY <1>2, <2>1 DEF Stores, Task, Tried
  <2>5. tasks[t].stored + 1 \in Nat /\ "ok" \in Results /\ Post(t, "ok")
    BY <1>2, <2>1 DEF Results, Stores
  <2> QED
    BY <1>2, <1>5, <2>3, <2>4, <2>5
<1>9. CASE BackupFails(t)
  <2>1. StoresTyped' /\ (\A p \in Places : Exists(p) => Exists(p)') /\ Post(t, "failed")
    BY <1>9 DEF BackupFails, PostEnd, Release, Base, DashTypeOK, StoresTyped, Exists
  <2>2. tasks' = [tasks EXCEPT ![t] = Tried(t, AfterTry(t), tasks[t].tries, tasks[t].stored)]
    BY <1>6, <1>9 DEF BackupFails, PostEnd, Goto
  <2> QED
    BY <1>2, <1>5, <2>1, <2>2 DEF Results
<1>10. CASE Retry(t)
  <2>1. UNCHANGED <<events, archives, lock, repos, saved, window, history>>
    BY <1>10 DEF Retry
  <2>2. StoresTyped'
    BY <2>1 DEF Base, DashTypeOK, StoresTyped
  <2>3. CASE Goto(t, "over")
    <3>1. tasks' = [tasks EXCEPT ![t] = Tried(t, "over", tasks[t].tries, tasks[t].stored)]
      BY <1>6, <2>3 DEF Goto
    <3> QED
      BY <1>2, <1>4, <2>1, <2>2, <3>1
  <2>4. CASE tasks' = [tasks EXCEPT ![t].pc = "lock", ![t].tries = @ + 1]
    <3>1. tasks' = [tasks EXCEPT ![t] = Tried(t, "lock", tasks[t].tries + 1, tasks[t].stored)]
      BY <1>2, <2>4 DEF Task, Tried
    <3>2. tasks[t].tries + 1 \in Nat
      BY <1>2
    <3> QED
      BY <1>4, <2>1, <2>2, <3>1, <3>2
  <2> QED
    BY <1>10, <2>3, <2>4 DEF Retry
<1> QED
  BY <1>7, <1>8, <1>9, <1>10 DEF BackupStep

\* The closure that the window runs.
LEMMA ClosureIs ==
  ASSUME Base, Closure, NEW t, t = Head(events).task, NEW r, r = Head(events).result
  PROVE  /\ t \in Tasks /\ r \in Results /\ events # << >> /\ events' = Tail(events) /\ events \in Seq(Event)
         /\ tasks[t] \in Task /\ Fits(tasks[t]) /\ tasks[t].place \in Places
         /\ ~Queued(tasks[t]) => tasks[t].pc = "sent"
         /\ UNCHANGED <<archives, lock, repos, saved>>
         /\ \/ tasks[t].kind = "wizard" /\ Push_repository(t)
            \/ tasks[t].kind = "load" /\ Loaded(t, r)
            \/ tasks[t].kind = "save" /\ Said(t)
            \/ tasks[t].kind = "backup" /\ Backup_told(t, r)
<1>1. events # << >> /\ events \in Seq(Event)
  BY DEF Closure, Base, DashTypeOK, EventsTyped
<1>2. t \in Tasks /\ r \in Results /\ t = events[1].task /\ 1 \in DOMAIN events
  BY <1>1, TailIs, EventIs
<1>3. tasks[t].kind \in Active /\ (~Queued(tasks[t]) => tasks[t].pc = "sent")
  BY <1>2 DEF Base, Posted
<1>4. tasks[t] \in Task /\ Fits(tasks[t]) /\ tasks[t].place \in Places
  BY <1>2, <1>3, TaskIs DEF Fits
<1> QED
  BY <1>1, <1>2, <1>3, <1>4 DEF Closure

Heard(t, pc, queued, exit, told) ==
  [tasks[t] EXCEPT !.pc = pc, !.queued = queued, !.exit = exit, !.told = told]

LEMMA HeardFits ==
  ASSUME Base, NEW t \in Tasks, tasks[t].kind = "backup",
         NEW pc \in {"lock", "create", "sent", "retry", "over"},
         NEW queued \in BOOLEAN, NEW exit \in BOOLEAN, NEW told \in SUBSET Results
  PROVE  LET task == Heard(t, pc, queued, exit, told)
         IN  /\ task \in Task /\ Fits(task) /\ task.kind = "backup" /\ task.pc = pc
             /\ task.place = tasks[t].place /\ task.name = tasks[t].name
             /\ task.queued = queued /\ task.exit = exit /\ task.told = told
             /\ task.tries = tasks[t].tries /\ task.stored = tasks[t].stored
<1> PICK task : task = Heard(t, pc, queued, exit, told)
  OBVIOUS
<1>1. pc \in Pcs
  BY DEF Pcs
<1>2. /\ task \in Task /\ task.kind = "backup" /\ task.pc = pc /\ task.place = tasks[t].place
      /\ task.name = tasks[t].name /\ task.queued = queued /\ task.exit = exit /\ task.told = told
      /\ task.tries = tasks[t].tries /\ task.stored = tasks[t].stored
  BY <1>1, TaskIs DEF Task, Heard
<1>3. Fits(task)
  BY <1>2, TaskIs DEF Fits
<1> QED
  BY <1>2, <1>3

\* What becomes of a backup whose closure runs.
Told(t, r, pc, queued, exit, told) ==
  \/ /\ ~tasks[t].queued /\ r = "locked"
     /\ pc = "retry" /\ queued /\ exit = tasks[t].exit /\ told = tasks[t].told
  \/ /\ ~tasks[t].queued /\ r # "locked"
     /\ pc = "over" /\ ~queued /\ exit = tasks[t].exit /\ told = tasks[t].told \cup {r}
  \/ /\ tasks[t].queued /\ r = "locked"
     /\ pc = tasks[t].pc /\ queued /\ exit = tasks[t].exit /\ told = tasks[t].told
  \/ /\ tasks[t].queued /\ r # "locked"
     /\ pc = tasks[t].pc /\ queued /\ exit /\ told = tasks[t].told \cup {r}

LEMMA ToldIs ==
  ASSUME Base, NEW t \in Tasks, NEW r \in Results, tasks[t].kind = "backup", Backup_told(t, r)
  PROVE  \E pc \in {"lock", "create", "sent", "retry", "over"}, queued \in BOOLEAN, exit \in BOOLEAN,
            told \in SUBSET Results :
           /\ Told(t, r, pc, queued, exit, told)
           /\ tasks' = [tasks EXCEPT ![t] = Heard(t, pc, queued, exit, told)]
<1>1. /\ tasks[t] \in Task /\ tasks[t].queued \in BOOLEAN /\ tasks[t].exit \in BOOLEAN
      /\ tasks[t].told \in SUBSET Results /\ tasks[t].told \cup {r} \in SUBSET Results
      /\ tasks[t].pc \in {"lock", "create", "sent", "retry", "over"}
      /\ tasks \in [Tasks -> Task]
  BY TaskIs DEF Task, Fits, Base, DashTypeOK, TasksTyped
<1>2. CASE ~tasks[t].queued /\ r = "locked"
  <2>1. tasks' = [tasks EXCEPT ![t] = Heard(t, "retry", TRUE, tasks[t].exit, tasks[t].told)]
    BY <1>1, <1>2 DEF Backup_told, First_told, Heard, Task
  <2> QED
    BY <1>1, <1>2, <2>1 DEF Told
<1>3. CASE ~tasks[t].queued /\ r # "locked"
  <2> PICK told : told = tasks[t].told \cup {r}
    OBVIOUS
  <2>2. tasks' = [tasks EXCEPT ![t] = [tasks[t] EXCEPT !.pc = "over", !.told = told]]
    BY <1>1, <1>3 DEF Backup_told, First_told
  <2>1. tasks' = [tasks EXCEPT ![t] = Heard(t, "over", FALSE, tasks[t].exit, told)]
    BY <1>1, <1>3, <2>2 DEF Heard, Task
  <2> QED
    BY <1>1, <1>3, <2>1 DEF Told
<1>4. CASE tasks[t].queued /\ r = "locked"
  <2>1. tasks' = [tasks EXCEPT ![t] = Heard(t, tasks[t].pc, TRUE, tasks[t].exit, tasks[t].told)]
    BY <1>1, <1>4 DEF Backup_told, Queued_told, Heard, Task
  <2> QED
    BY <1>1, <1>4, <2>1 DEF Told
<1>5. CASE tasks[t].queued /\ r # "locked"
  <2> PICK told : told = tasks[t].told \cup {r}
    OBVIOUS
  <2>2. tasks' = [tasks EXCEPT ![t] = [tasks[t] EXCEPT !.exit = TRUE, !.told = told]]
    BY <1>1, <1>5 DEF Backup_told, Queued_told
  <2>1. tasks' = [tasks EXCEPT ![t] = Heard(t, tasks[t].pc, TRUE, TRUE, told)]
    BY <1>1, <1>5, <2>2 DEF Heard, Task
  <2> QED
    BY <1>1, <1>5, <2>1 DEF Told
<1> QED
  BY <1>2, <1>3, <1>4, <1>5

LEMMA ClosureBase ==
  ASSUME Base, Closure
  PROVE  Base'
<1> PICK t : t = Head(events).task
  OBVIOUS
<1> PICK r : r = Head(events).result
  OBVIOUS
<1>1. /\ t \in Tasks /\ r \in Results /\ events # << >> /\ events' = Tail(events) /\ events \in Seq(Event)
      /\ tasks[t] \in Task /\ Fits(tasks[t]) /\ tasks[t].place \in Places
      /\ ~Queued(tasks[t]) => tasks[t].pc = "sent"
      /\ UNCHANGED <<archives, lock, repos, saved>>
  BY ClosureIs
<1>2. CASE tasks[t].kind = "wizard" /\ Push_repository(t)
  <2> DEFINE entry == [name |-> tasks[t].name, place |-> tasks[t].place]
  <2> PICK task : task = [tasks[t] EXCEPT !.pc = "insert"]
    OBVIOUS
  <2>1. /\ task \in Task /\ Fits(task) /\ task.kind = "wizard" /\ task.pc = "insert"
        /\ task.place = tasks[t].place
    BY <1>1, <1>2 DEF Task, Pcs, Fits, Active
  <2>2. /\ tasks' = [tasks EXCEPT ![t] = task] /\ window' = [window EXCEPT !.sidebar = Append(@, entry)]
        /\ \E w \in SUBSET {"adds"} : Note(w)
    BY <1>2 DEF Push_repository, Made, Goto
  <2>3. window.sidebar \in Seq(Known) /\ entry \in Known
    BY <1>1, <1>2 DEF Base, DashTypeOK, StoresTyped, Known, Fits
  <2>4. /\ Append(window.sidebar, entry) \in Seq(Known)
        /\ DOMAIN window.sidebar \subseteq DOMAIN Append(window.sidebar, entry)
    BY <2>3, AppendedIs
  <2> PICK sidebar \in Seq(Known) : sidebar = Append(window.sidebar, entry)
    BY <2>4
  <2>7. /\ window' \in [bookmarks : Seq(Known), configs : Settings, active : Nat,
                        shown : SUBSET Listed, sidebar : Seq(Known)]
        /\ window'.active \in DOMAIN window'.sidebar /\ window'.bookmarks = window.bookmarks
    BY <2>2, <2>4 DEF Base, DashTypeOK, StoresTyped
  <2>8. history' \in [saidSaved : Settings, alone : BOOLEAN, loaded : BOOLEAN,
                      upset : SUBSET {"adds", "saves"}, crashes : Nat]
    <3> PICK w \in SUBSET {"adds"} : history' = [history EXCEPT !.upset = history.upset \cup w]
      BY <2>2 DEF Note
    <3> PICK upset : upset = history.upset \cup w
      OBVIOUS
    <3>1. upset \in SUBSET {"adds", "saves"}
      BY DEF Base, DashTypeOK, StoresTyped
    <3>2. history' = [history EXCEPT !.upset = upset]
      OBVIOUS
    <3> QED
      BY <3>1, <3>2 DEF Base, DashTypeOK, StoresTyped
  <2>5. StoresTyped' /\ window'.bookmarks = window.bookmarks
    BY <1>1, <2>7, <2>8 DEF Base, DashTypeOK, StoresTyped
  <2>6. ~Queued(tasks[t]) /\ Exists(task.place)
    BY <1>1, <1>2, <2>1 DEF Queued, Base, Kept, Needs
  <2> QED
    BY <1>1, <2>1, <2>2, <2>5, <2>6, HearBase
<1>3. CASE tasks[t].kind = "load" /\ Loaded(t, r)
  <2>1. r = "ok" => tasks[t].read \in SUBSET Listed
    BY <1>1, <1>3, TailIs DEF Base, DashTypeOK, EventsTyped
  <2> PICK shown : shown = IF r = "ok" THEN tasks[t].read ELSE window.shown
    OBVIOUS
  <2>4. shown \in SUBSET Listed
    BY <2>1 DEF Base, DashTypeOK, StoresTyped
  <2>5. /\ window' = [window EXCEPT !.shown = shown]
        /\ \E b \in BOOLEAN : history' = [history EXCEPT !.loaded = b]
    BY <1>3 DEF Loaded, Base, DashTypeOK, StoresTyped
  <2>2. StoresTyped' /\ window'.bookmarks = window.bookmarks
    BY <1>1, <2>4, <2>5 DEF Base, DashTypeOK, StoresTyped
  <2>3. Unused \in Task /\ Fits(Unused) /\ ~Needs(Unused) /\ Unused.kind # "wizard"
    BY BlanksFit DEF Needs
  <2> QED
    BY <1>1, <1>3, <2>2, <2>3, HearBase DEF Loaded, Queued
<1>4. CASE tasks[t].kind = "save" /\ Said(t)
  <2>1. tasks[t].conf \in Configs \cup {None}
    BY <1>1 DEF Task
  <2>2. StoresTyped' /\ window'.bookmarks = window.bookmarks
    BY <1>1, <1>4, <2>1 DEF Said, Base, DashTypeOK, StoresTyped, Settings
  <2>3. Ended \in Task /\ Fits(Ended) /\ ~Needs(Ended) /\ Ended.kind # "wizard"
    BY BlanksFit DEF Needs
  <2> QED
    BY <1>1, <1>4, <2>2, <2>3, HearBase DEF Said, End, Queued
<1>5. CASE tasks[t].kind = "backup" /\ Backup_told(t, r)
  <2>1. /\ tasks[t].name \in Archives /\ tasks[t].told \in SUBSET Results /\ Exists(tasks[t].place)
        /\ tasks[t].queued \in BOOLEAN
    BY <1>1, <1>5 DEF Fits, Task, Base, Kept, Needs
  <2>2. [place |-> tasks[t].place, name |-> tasks[t].name] \in Listed
    BY <1>1, <2>1 DEF Listed, ArchiveNames
  <2> PICK shown : shown = IF r = "ok" THEN window.shown \cup {[place |-> tasks[t].place, name |-> tasks[t].name]}
                                         ELSE window.shown
    OBVIOUS
  <2>6. shown \in SUBSET Listed
    BY <2>2 DEF Base, DashTypeOK, StoresTyped
  <2>7. window' = [window EXCEPT !.shown = shown] /\ UNCHANGED history
    BY <1>5 DEF Backup_told
  <2>3. StoresTyped' /\ window'.bookmarks = window.bookmarks
    BY <1>1, <2>6, <2>7 DEF Base, DashTypeOK, StoresTyped
  <2> PICK pc \in {"lock", "create", "sent", "retry", "over"}, queued \in BOOLEAN, exit \in BOOLEAN,
           told \in SUBSET Results :
             /\ Told(t, r, pc, queued, exit, told)
             /\ tasks' = [tasks EXCEPT ![t] = Heard(t, pc, queued, exit, told)]
    BY <1>1, <1>5, ToldIs
  <2> PICK task : task = Heard(t, pc, queued, exit, told)
    OBVIOUS
  <2>4. /\ task \in Task /\ Fits(task) /\ task.kind = "backup" /\ task.place = tasks[t].place
        /\ task.queued = queued
    BY <1>1, <1>5, HeardFits
  <2>5. (Queued(tasks[t]) => Queued(task)) /\ Exists(task.place) /\ task.kind # "wizard"
    BY <1>5, <2>1, <2>4 DEF Queued, Told
  <2> QED
    BY <1>1, <2>3, <2>4, <2>5, HearBase
<1> QED
  BY <1>1, <1>2, <1>3, <1>4, <1>5, ClosureIs

LEMMA CrashIs ==
  ASSUME Base, NEW t \in Tasks, Crash(t)
  PROVE  /\ 1 \in DOMAIN repos /\ repos[1].place \in Places /\ Exists(repos[1].place)
         /\ tasks'[t] = Load(repos[1].place)
         /\ \A u \in Tasks \ {t} : tasks'[u] = Unused \/ tasks'[u] = Ended
         /\ \A u \in Tasks \ {t} : tasks'[u].kind \notin Active
         /\ TasksTyped'
<1>1. repos \in Seq(Known) /\ repos # << >>
  BY DEF Base, DashTypeOK, StoresTyped
<1>2. 1 \in DOMAIN repos /\ repos[1].place \in Places /\ Exists(repos[1].place)
  BY <1>1, TailIs, KnownPlaces DEF Base, Kept
<1> PICK new : new = Load(repos[1].place)
  OBVIOUS
<1>3. new \in Task /\ Fits(new)
  BY <1>2, LoadFits
<1>4. tasks' = [u \in Tasks |-> IF u = t THEN new ELSE IF Is(u, "unused") THEN Unused ELSE Ended]
  BY DEF Crash
<1>5. \A u \in Tasks \ {t} : tasks'[u] = Unused \/ tasks'[u] = Ended
  BY <1>4
<1>6. tasks'[t] = new
  BY <1>4
<1>7. TasksTyped'
  BY <1>3, <1>4, BlanksFit DEF TasksTyped
<1> QED
  BY <1>2, <1>5, <1>6, <1>7, BlanksFit DEF Active

LEMMA CrashBase ==
  ASSUME Base, NEW t \in Tasks, Crash(t)
  PROVE  Base'
<1>1. /\ 1 \in DOMAIN repos /\ repos[1].place \in Places /\ Exists(repos[1].place)
      /\ tasks'[t] = Load(repos[1].place) /\ TasksTyped'
      /\ \A u \in Tasks \ {t} : tasks'[u].kind \notin Active
  BY CrashIs
<1>2. /\ events' = << >> /\ UNCHANGED <<archives, repos, saved>> /\ window' = Opened_window
      /\ lock' = [p \in Places |-> IF lock[p] \in Tasks THEN Free ELSE lock[p]]
      /\ history' = [history EXCEPT !.crashes = @ + 1, !.alone = FALSE, !.loaded = FALSE,
                       !.saidSaved = saved, !.upset = @ \ {"adds", "saves"}]
  BY DEF Crash
<1>3. events' \in Seq(Event) /\ DOMAIN events' = {}
  BY <1>2, EmptySeq, LenProperties
<1>4. EventsTyped' /\ Posted'
  BY <1>3 DEF EventsTyped, Posted
<1>5. repos \in Seq(Known) /\ repos # << >> /\ saved \in Settings
  BY DEF Base, DashTypeOK, StoresTyped
<1>6. window' \in [bookmarks : Seq(Known), configs : Settings, active : Nat,
                   shown : SUBSET Listed, sidebar : Seq(Known)]
      /\ window'.active \in DOMAIN window'.sidebar /\ window'.bookmarks = repos
  BY <1>1, <1>2, <1>5 DEF Opened_window
<1>7. history' \in [saidSaved : Settings, alone : BOOLEAN, loaded : BOOLEAN,
                    upset : SUBSET {"adds", "saves"}, crashes : Nat]
  <2> PICK upset : upset = history.upset \ {"adds", "saves"}
    OBVIOUS
  <2> PICK crashes : crashes = history.crashes + 1
    OBVIOUS
  <2>1. upset \in SUBSET {"adds", "saves"} /\ crashes \in Nat
    BY DEF Base, DashTypeOK, StoresTyped
  <2>2. history' = [history EXCEPT !.crashes = crashes, !.alone = FALSE, !.loaded = FALSE,
                      !.saidSaved = saved, !.upset = upset]
    BY <1>2
  <2> QED
    BY <1>5, <2>1, <2>2 DEF Base, DashTypeOK, StoresTyped
<1>8. StoresTyped'
  BY <1>1, <1>2, <1>5, <1>6, <1>7 DEF Base, DashTypeOK, StoresTyped
<1>9. Kept'
  <2>1. (\A i \in DOMAIN repos : Exists(repos[i].place))'
    BY <1>2 DEF Base, Kept, Exists
  <2>2. /\ tasks'[t].kind = "load" /\ tasks'[t].place = repos[1].place
        /\ \A u \in Tasks \ {t} : tasks'[u].kind \notin {"wizard", "load", "backup"}
    BY <1>1, LoadFits DEF Active
  <2>3. (\A u \in Tasks : Needs(tasks[u]) => Exists(tasks[u].place))'
    BY <1>1, <1>2, <2>2 DEF Needs, Exists
  <2>4. Begins(window.bookmarks, repos)'
    BY <1>2, <1>5, <1>6, LenProperties DEF Begins
  <2>5. (\A u \in Tasks : At(u, "wizard", "set") => Begins(tasks[u].read, repos))'
    BY <2>2 DEF At
  <2> QED
    BY <2>1, <2>3, <2>4, <2>5 DEF Kept
<1> QED
  BY <1>1, <1>4, <1>8, <1>9 DEF Base, DashTypeOK

LEMMA LocksBase ==
  ASSUME Base, NEW p \in Places, OtherLocks(p)
  PROVE  Base'
<1>1. /\ lock' \in [Places -> Tasks \cup {Free, Other}]
      /\ UNCHANGED <<tasks, events, archives, repos, saved, window, history>>
  BY DEF OtherLocks, Base, DashTypeOK, StoresTyped
<1> QED
  BY <1>1 DEF Base, DashTypeOK, TasksTyped, EventsTyped, StoresTyped, Posted, Kept, Exists, At

LEMMA InitTasks ==
  ASSUME Init
  PROVE  /\ TasksTyped /\ events \in Seq(Event) /\ DOMAIN events = {}
         /\ \A u \in Tasks : tasks[u].kind \in {"load", "unused"} /\ (tasks[u].kind = "load" => tasks[u] = Load(First.place))
         /\ First \in Known /\ First.place \in Places /\ repos \in Seq(Known) /\ Len(repos) = 1 /\ DOMAIN repos = {1}
         /\ repos[1] = First
<1>1. First \in Known /\ First.place \in Places
  BY PlacesAssumption DEF Known
<1> PICK new : new = Load(First.place)
  OBVIOUS
<1>2. new \in Task /\ Fits(new) /\ new.kind = "load"
  BY <1>1, LoadFits
<1>3. tasks = [t \in Tasks |-> IF t = 1 THEN new ELSE Unused]
  BY DEF Init
<1>4. TasksTyped
  BY <1>2, <1>3, BlanksFit DEF TasksTyped
<1>5. \A u \in Tasks : tasks[u].kind \in {"load", "unused"} /\ (tasks[u].kind = "load" => tasks[u] = new)
  BY <1>2, <1>3, BlanksFit
<1>6. events \in Seq(Event) /\ DOMAIN events = {}
  BY EmptySeq, LenProperties DEF Init
<1>7. repos \in Seq(Known) /\ Len(repos) = 1 /\ DOMAIN repos = {1} /\ repos[1] = First
  BY <1>1 DEF Init
<1> QED
  BY <1>1, <1>4, <1>5, <1>6, <1>7

LEMMA InitBase0 ==
  ASSUME Init
  PROVE  Base
<1>1. EventsTyped /\ Posted
  BY InitTasks DEF EventsTyped, Posted
<1>2. archives \in [Places -> (SUBSET ArchiveNames) \cup {NoRepository}] /\ Exists(First.place)
  <2>1. Older \in SUBSET ArchiveNames /\ Older # NoRepository
    BY NoneAssumption DEF ArchiveNames, NoRepository
  <2> QED
    BY <2>1, InitTasks DEF Init, Exists
<1>3. /\ lock \in [Places -> Tasks \cup {Free, Other}] /\ saved \in Settings
      /\ window = [bookmarks |-> repos, configs |-> saved, active |-> 1, shown |-> {}, sidebar |-> repos]
      /\ history = [saidSaved |-> saved, alone |-> FALSE, loaded |-> FALSE, upset |-> {}, crashes |-> 0]
  BY DEF Init, Settings, NoConfig, Opened_window
<1>4. repos # << >>
  BY InitTasks, EmptySeq
<1>5. StoresTyped
  <2>1. window.active = 1 /\ window.sidebar = repos
    BY <1>3
  <2> QED
    BY <1>2, <1>3, <1>4, <2>1, InitTasks DEF StoresTyped
<1>6. Kept
  <2>1. \A u \in Tasks : Needs(tasks[u]) => tasks[u] = Load(First.place)
    BY InitTasks DEF Needs
  <2>2. \A u \in Tasks : Needs(tasks[u]) => Exists(tasks[u].place)
    BY <1>2, <2>1, LoadFits, InitTasks
  <2>3. Begins(window.bookmarks, repos)
    BY <1>3, InitTasks DEF Begins
  <2>4. \A i \in DOMAIN repos : Exists(repos[i].place)
    BY <1>2, InitTasks
  <2>5. \A u \in Tasks : ~At(u, "wizard", "set")
    BY InitTasks DEF At
  <2> QED
    BY <2>2, <2>3, <2>4, <2>5 DEF Kept
<1> QED
  BY <1>1, <1>5, <1>6, InitTasks DEF Base, DashTypeOK

LEMMA BaseStep ==
  ASSUME Base, [Next]_vars
  PROVE  Base'
<1>1. CASE UNCHANGED vars
  BY <1>1 DEF vars, Base, DashTypeOK, TasksTyped, EventsTyped, StoresTyped, Posted, Kept, Exists, At
<1>2. ASSUME NEW t \in Tasks, UserStep(t) PROVE Base'
  BY <1>2, FinishBase, SelectBase, SaveBase, BackupBase DEF UserStep
<1>3. ASSUME NEW t \in Tasks, TaskStep(t) PROVE Base'
  BY <1>3, NameBase, InitBase, AddBase, ListBase, LoadBase, SaveStepBase, BackupStepBase
     DEF TaskStep, WizardStep
<1> QED
  BY <1>1, <1>2, <1>3, CrashBase, ClosureBase, LocksBase DEF Next

\* The window, its tasks and what they share keep their types: what a task is at,
\* what it has read, and what the window is told of it, fit together, and a
\* repository that is used has been made.
THEOREM DashTypeCorrect == Spec => [](DashTypeOK /\ Posted /\ Kept)
<1>1. Init => Base
  BY InitBase0
<1>2. Base /\ [Next]_vars => Base'
  BY BaseStep
<1> QED
  BY <1>1, <1>2, PTL DEF Spec, Base

-------------------------------------------------------------------------------
(***************************************************************************)
(* What a step leaves alone                                                *)
(***************************************************************************)

Changes(t) == \A u \in Tasks \ {t} : tasks'[u] = tasks[u]
Says(t) == UNCHANGED events \/ \E r \in Results : Post(t, r)

\* No step takes an archive away.
Grows == \A p \in Places : Exists(p) => archives[p] \subseteq archives'[p]

LEMMA SaysIs ==
  ASSUME Base, NEW t \in Tasks, Says(t)
  PROVE  /\ DOMAIN events' \subseteq Nat
         /\ \A i \in DOMAIN events' :
              \/ i \in DOMAIN events /\ events'[i] = events[i]
              \/ events'[i].task = t /\ i \notin DOMAIN events /\ \A j \in DOMAIN events : j < i
<1>1. events \in Seq(Event) /\ DOMAIN events = 1 .. Len(events) /\ Len(events) \in Nat
  BY LenProperties DEF Base, DashTypeOK, EventsTyped
<1>2. ASSUME NEW r \in Results, Post(t, r)
      PROVE  /\ DOMAIN events' \subseteq Nat
             /\ \A i \in DOMAIN events' :
                  \/ i \in DOMAIN events /\ events'[i] = events[i]
                  \/ events'[i].task = t /\ i \notin DOMAIN events /\ \A j \in DOMAIN events : j < i
  <2>1. [task |-> t, result |-> r] \in Event
    BY DEF Event
  <2> QED
    BY <1>1, <1>2, <2>1, AppendedIs DEF Post
<1> QED
  BY <1>1, <1>2 DEF Says

Noted(what) == \E w \in SUBSET {what} : Note(w)

LEMMA NotedIs ==
  ASSUME Base, NEW what, Noted(what)
  PROVE  /\ history'.alone = history.alone /\ history'.loaded = history.loaded
         /\ history'.saidSaved = history.saidSaved
         /\ \A other : Calm(other)' => Calm(other)
         /\ \A other : other # what /\ Calm(other) => Calm(other)'
BY DEF Noted, Note, Calm, Base, DashTypeOK, StoresTyped

LEMMA NotedBy ==
  ASSUME Base, NEW what, UNCHANGED history \/ Note({}) \/ Note({what})
  PROVE  Noted(what)
<1>1. CASE UNCHANGED history
  <2>1. history.upset \cup {} = history.upset
    OBVIOUS
  <2>2. Note({})
    BY <1>1, <2>1 DEF Note, Base, DashTypeOK, StoresTyped
  <2> QED
    BY <2>2 DEF Noted
<1> QED
  BY <1>1 DEF Noted

\* A step of a wizard, or one that starts it.
LEMMA WizardShape ==
  ASSUME Base, NEW t \in Tasks,
         \/ \E a \in Answers : Finish(t, a.name, a.place)
         \/ WizardStep(t)
  PROVE  /\ Changes(t) /\ Says(t) /\ Grows
         /\ tasks[t].kind \in {"wizard", "unused"} /\ tasks'[t].kind \in {"wizard", "ended"}
         /\ UNCHANGED saved /\ window'.configs = window.configs /\ window'.active = window.active
         /\ window'.shown = window.shown /\ window'.sidebar = window.sidebar
         /\ Noted("adds")
<1>1. tasks \in [Tasks -> Task] /\ "ok" \in Results
  BY DEF Base, DashTypeOK, TasksTyped, Results
<1>2. \A what : UNCHANGED history \/ Note({}) \/ Note({what}) => Noted(what)
  BY NotedBy
<1>3. Ended.kind = "ended"
  BY BlanksFit
<1>4. CASE \E a \in Answers : Finish(t, a.name, a.place)
  BY <1>1, <1>2, <1>4 DEF Finish, Begin, Fresh, Is, Unused, Changes, Says, Grows
<1>5. CASE Repo_name_exists(t)
  BY <1>1, <1>2, <1>3, <1>5 DEF Repo_name_exists, At, Goto, End, Task, Changes, Says, Grows
<1>6. CASE Init_repository(t)
  <2>1. /\ tasks[t].kind = "wizard" /\ UNCHANGED <<lock, repos, saved, window, history>>
        /\ Changes(t) /\ tasks'[t].kind \in {"wizard", "ended"} /\ Says(t)
    BY <1>1, <1>3, <1>6 DEF Init_repository, At, PostEnd, Goto, End, Task, Changes, Says
  <2>2. Grows
    BY <1>6 DEF Init_repository, Grows, Exists, Base, DashTypeOK, StoresTyped
  <2> QED
    BY <1>2, <2>1, <2>2
<1>7. CASE Add_repo(t)
  BY <1>1, <1>2, <1>3, <1>7 DEF Add_repo, At, Goto, End, Task, Changes, Says, Grows
<1>8. CASE List_repos(t) \/ SetRepos(t)
  <2>1. /\ UNCHANGED <<events, archives, lock, repos, saved, history>> /\ tasks[t].kind = "wizard"
        /\ Changes(t) /\ tasks'[t].kind \in {"wizard", "ended"}
    BY <1>1, <1>3, <1>8 DEF List_repos, SetRepos, At, End, Task, Changes
  <2>2. /\ window'.configs = window.configs /\ window'.active = window.active
        /\ window'.shown = window.shown /\ window'.sidebar = window.sidebar
    BY <1>8 DEF List_repos, SetRepos, Base, DashTypeOK, StoresTyped
  <2> QED
    BY <1>2, <2>1, <2>2 DEF Says, Grows
<1> QED
  BY <1>4, <1>5, <1>6, <1>7, <1>8 DEF WizardStep

\* The user selects another repository.
LEMMA SelectShape ==
  ASSUME Base, NEW t \in Tasks, NEW i \in DOMAIN window.sidebar, Select_repo(t, i)
  PROVE  /\ Changes(t) /\ UNCHANGED <<events, archives, lock, repos, saved>>
         /\ window' = [window EXCEPT !.active = i]
         /\ history' = [history EXCEPT !.alone = \A u \in Tasks : ~Lists(u), !.loaded = FALSE]
         /\ \/ /\ tasks[t].kind = "unused" /\ i \in DOMAIN window.bookmarks
               /\ tasks'[t] = Load(window.bookmarks[i].place)
            \/ UNCHANGED tasks
<1>1. tasks \in [Tasks -> Task]
  BY DEF Base, DashTypeOK, TasksTyped
<1> QED
  BY <1>1 DEF Select_repo, Select, Begin, Fresh, Is, Changes

\* A step of the loading of archives.
LEMMA LoadShape ==
  ASSUME Base, NEW t \in Tasks, LoadArchives(t)
  PROVE  /\ Changes(t) /\ Says(t) /\ UNCHANGED <<archives, lock, repos, saved, window, history>>
         /\ tasks[t].kind = "load" /\ tasks[t].pc = "load"
         /\ tasks'[t].kind = "load" /\ tasks'[t].pc = "sent" /\ tasks'[t].place = tasks[t].place
         /\ tasks'[t].read \in {tasks[t].read, Entries(tasks[t].place)}
         /\ \/ tasks'[t].read = Entries(tasks[t].place) /\ Post(t, "ok")
            \/ Post(t, "failed")
<1>1. tasks \in [Tasks -> Task] /\ {"ok", "failed"} \subseteq Results
  BY DEF Base, DashTypeOK, TasksTyped, Results
<1> QED
  BY <1>1 DEF LoadArchives, At, Goto, PostEnd, Task, Changes, Says

\* A step of the saving of a configuration, or one that starts it.
LEMMA SaveShape ==
  ASSUME Base, NEW t \in Tasks,
         \/ \E c \in Configs : Save(t, c)
         \/ SaveStep(t)
  PROVE  /\ Changes(t) /\ Says(t) /\ UNCHANGED <<archives, lock, repos>>
         /\ tasks[t].kind \in {"save", "unused"} /\ tasks'[t].kind = "save"
         /\ tasks[t].kind = "save" => tasks'[t].place = tasks[t].place /\ tasks'[t].conf = tasks[t].conf
         /\ window'.bookmarks = window.bookmarks /\ window'.active = window.active
         /\ window'.shown = window.shown /\ window'.sidebar = window.sidebar
         /\ Noted("saves")
<1>1. tasks \in [Tasks -> Task] /\ "ok" \in Results
  BY DEF Base, DashTypeOK, TasksTyped, Results
<1>2. \A what : UNCHANGED history \/ Note({}) \/ Note({what}) => Noted(what)
  BY NotedBy
<1>3. CASE \E c \in Configs : Save(t, c)
  BY <1>1, <1>2, <1>3 DEF Save, Begin, Fresh, Is, Unused, Changes, Says
<1>4. CASE Upsert_archive_bookmark(t)
  BY <1>1, <1>2, <1>4 DEF Upsert_archive_bookmark, At, Goto, Task, Changes, Says
<1>5. CASE SaveFails(t)
  BY <1>1, <1>2, <1>5 DEF SaveFails, Is, Goto, PostEnd, Task, Changes, Says
<1>6. CASE List_archive_bookmarks(t)
  BY <1>1, <1>2, <1>6 DEF List_archive_bookmarks, At, Task, Changes, Says
<1>7. CASE SetConfigs(t)
  BY <1>1, <1>2, <1>7 DEF SetConfigs, At, Task, Changes, Says, Base, DashTypeOK, StoresTyped
<1> QED
  BY <1>3, <1>4, <1>5, <1>6, <1>7 DEF SaveStep, Remember

\* The user starts a backup.
LEMMA BackupShape ==
  ASSUME Base, NEW t \in Tasks, NEW name \in Archives, Backup(t, name)
  PROVE  /\ Changes(t) /\ UNCHANGED <<events, archives, lock, repos, saved, window, history>>
         /\ Fresh(t) /\ tasks[t].kind = "unused" /\ HasSelected
         /\ tasks'[t] = [Unused EXCEPT !.kind = "backup", !.pc = "lock", !.place = Selected.place, !.name = name,
                                       !.conf = window.configs[Selected.place]]
         /\ tasks'[t].kind = "backup" /\ tasks'[t].pc = "lock" /\ tasks'[t].place = Selected.place
         /\ tasks'[t].conf = window.configs[Selected.place]
<1>1. tasks \in [Tasks -> Task]
  BY DEF Base, DashTypeOK, TasksTyped
<1> QED
  BY <1>1 DEF Backup, Begin, Fresh, Is, Changes, Unused

\* A step of a backup.
Trying(t, pc, tries, stored) ==
  \/ /\ tasks[t].pc = "lock" /\ pc = "create" /\ UNCHANGED <<events, archives>>
     /\ tries = tasks[t].tries /\ stored = tasks[t].stored
  \/ /\ tasks[t].pc = "lock" /\ pc = AfterTry(t) /\ Post(t, "locked") /\ UNCHANGED archives
     /\ tries = tasks[t].tries /\ stored = tasks[t].stored
  \/ /\ tasks[t].pc = "create" /\ pc = AfterTry(t) /\ Post(t, "failed") /\ UNCHANGED archives
     /\ tries = tasks[t].tries /\ stored = tasks[t].stored
  \/ /\ tasks[t].pc = "create" /\ pc = AfterTry(t) /\ Post(t, "ok")
     /\ tasks[t].name \notin archives[tasks[t].place] /\ tasks[t].name \in archives'[tasks[t].place]
     /\ tries = tasks[t].tries /\ stored = tasks[t].stored + 1
  \/ /\ tasks[t].pc = "retry" /\ pc = "over" /\ UNCHANGED <<events, archives>>
     /\ tasks[t].exit \/ tasks[t].tries = MaxRetries
     /\ tries = tasks[t].tries /\ stored = tasks[t].stored
  \/ /\ tasks[t].pc = "retry" /\ pc = "lock" /\ UNCHANGED <<events, archives>>
     /\ tries = tasks[t].tries + 1 /\ stored = tasks[t].stored

LEMMA BackupStepShape ==
  ASSUME Base, NEW t \in Tasks, BackupStep(t)
  PROVE  /\ tasks[t].kind = "backup" /\ Grows /\ Says(t) /\ UNCHANGED <<repos, saved, window, history>>
         /\ \E pc \in {"lock", "create", "sent", "retry", "over"}, tries \in Nat, stored \in Nat :
              Trying(t, pc, tries, stored) /\ tasks' = [tasks EXCEPT ![t] = Tried(t, pc, tries, stored)]
<1>1. /\ tasks[t].kind = "backup" /\ UNCHANGED <<repos, saved, window, history>>
      /\ {"ok", "failed", "locked"} \subseteq Results
  BY DEF BackupStep, Acquire, Create_archive, Stores, BackupFails, Retry, At, Results
<1>2. /\ tasks[t].place \in Places /\ tasks[t].tries \in Nat /\ tasks[t].stored \in Nat
      /\ tasks[t].tries + 1 \in Nat /\ tasks[t].stored + 1 \in Nat
      /\ tasks[t] \in Task /\ tasks \in [Tasks -> Task] /\ AfterTry(t) \in {"sent", "retry"}
      /\ archives \in [Places -> (SUBSET ArchiveNames) \cup {NoRepository}]
  BY <1>1, TaskIs DEF Base, DashTypeOK, TasksTyped, StoresTyped, Fits, Active, Task, AfterTry
<1>3. \A pc : [tasks[t] EXCEPT !.pc = pc] = Tried(t, pc, tasks[t].tries, tasks[t].stored)
  BY <1>2 DEF Task, Tried
<1>4. CASE Acquire(t)
  <2>1. tasks[t].pc = "lock" /\ UNCHANGED archives /\ Grows /\ Says(t)
    BY <1>1, <1>4 DEF Acquire, At, PostEnd, Says, Grows
  <2>2. CASE Goto(t, "create") /\ UNCHANGED events
    <3>1. tasks' = [tasks EXCEPT ![t] = Tried(t, "create", tasks[t].tries, tasks[t].stored)]
      BY <1>3, <2>2 DEF Goto
    <3>2. Trying(t, "create", tasks[t].tries, tasks[t].stored)
      BY <2>1, <2>2 DEF Trying
    <3> QED
      BY <1>1, <1>2, <2>1, <3>1, <3>2
  <2>3. CASE PostEnd(t, AfterTry(t), "locked")
    <3>1. tasks' = [tasks EXCEPT ![t] = Tried(t, AfterTry(t), tasks[t].tries, tasks[t].stored)]
      BY <1>3, <2>3 DEF PostEnd, Goto
    <3>2. Trying(t, AfterTry(t), tasks[t].tries, tasks[t].stored)
      BY <2>1, <2>3 DEF PostEnd, Trying
    <3> QED
      BY <1>1, <1>2, <2>1, <3>1, <3>2
  <2> QED
    BY <1>4, <2>2, <2>3 DEF Acquire
<1>5. CASE Create_archive(t)
  <2>1. /\ tasks[t].pc = "create" /\ Post(t, "ok") /\ Says(t) /\ tasks[t].name \notin archives[tasks[t].place]
        /\ archives' = [archives EXCEPT ![tasks[t].place] = @ \cup {tasks[t].name}]
    BY <1>1, <1>5 DEF Create_archive, Stores, At, Says
  <2>2. Grows /\ tasks[t].name \in archives'[tasks[t].place]
    BY <1>2, <2>1 DEF Grows
  <2>3. tasks' = [tasks EXCEPT ![t] = Tried(t, AfterTry(t), tasks[t].tries, tasks[t].stored + 1)]
    BY <1>2, <1>5 DEF Create_archive, Stores, Task, Tried
  <2> QED
    BY <1>1, <1>2, <2>1, <2>2, <2>3 DEF Trying
<1>6. CASE BackupFails(t)
  <2>1. tasks[t].pc = "create" /\ UNCHANGED archives /\ Grows /\ Says(t)
    BY <1>1, <1>6 DEF BackupFails, At, PostEnd, Says, Grows
  <2>2. tasks' = [tasks EXCEPT ![t] = Tried(t, AfterTry(t), tasks[t].tries, tasks[t].stored)]
    BY <1>3, <1>6 DEF BackupFails, PostEnd, Goto
  <2>3. Trying(t, AfterTry(t), tasks[t].tries, tasks[t].stored)
    BY <1>6, <2>1 DEF BackupFails, PostEnd, Trying
  <2> QED
    BY <1>1, <1>2, <2>1, <2>2, <2>3
<1>7. CASE Retry(t)
  <2>1. tasks[t].pc = "retry" /\ UNCHANGED <<events, archives>> /\ Grows /\ Says(t)
    BY <1>1, <1>7 DEF Retry, At, Says, Grows
  <2>2. CASE (tasks[t].exit \/ tasks[t].tries = MaxRetries) /\ Goto(t, "over")
    <3>1. tasks' = [tasks EXCEPT ![t] = Tried(t, "over", tasks[t].tries, tasks[t].stored)]
      BY <1>3, <2>2 DEF Goto
    <3>2. Trying(t, "over", tasks[t].tries, tasks[t].stored)
      BY <2>1, <2>2 DEF Trying
    <3> QED
      BY <1>1, <1>2, <2>1, <3>1, <3>2
  <2>3. CASE tasks' = [tasks EXCEPT ![t].pc = "lock", ![t].tries = @ + 1]
    <3>1. tasks' = [tasks EXCEPT ![t] = Tried(t, "lock", tasks[t].tries + 1, tasks[t].stored)]
      BY <1>2, <2>3 DEF Task, Tried
    <3> QED
      BY <1>1, <1>2, <2>1, <3>1 DEF Trying
  <2> QED
    BY <1>7, <2>2, <2>3 DEF Retry
<1> QED
  BY <1>4, <1>5, <1>6, <1>7 DEF BackupStep

-------------------------------------------------------------------------------
(***************************************************************************)
(* What a backup has done and told                                         *)
(***************************************************************************)

LEMMA BackupsKept ==
  ASSUME Base, Backups, NEW t \in Tasks, Changes(t), Grows,
         tasks'[t].kind = "backup" => BackupTrue(t)',
         \A i \in DOMAIN events' :
           \/ \E j \in DOMAIN events : events'[i] = events[j] /\ events[j].task # t
           \/ events'[i].task = t /\ BackupEvent(events[i])'
  PROVE  Backups'
<1>1. \A u \in Tasks \ {t} : tasks'[u].kind = "backup" => BackupTrue(u)'
  <2> SUFFICES ASSUME NEW u \in Tasks \ {t}, tasks'[u].kind = "backup" PROVE BackupTrue(u)'
    OBVIOUS
  <2>1. tasks'[u] = tasks[u] /\ tasks[u].kind = "backup" /\ BackupTrue(u)
    BY DEF Changes, Backups
  <2>2. archives[tasks[u].place] \subseteq archives'[tasks[u].place]
    BY <2>1, TaskIs DEF Grows, Base, Kept, Needs, Fits, Active
  <2> QED
    BY <2>1, <2>2 DEF BackupTrue
<1>2. \A i \in DOMAIN events' : BackupEvent(events[i])'
  <2> SUFFICES ASSUME NEW i \in DOMAIN events', NEW j \in DOMAIN events,
                      events'[i] = events[j], events[j].task # t
               PROVE  BackupEvent(events[i])'
    OBVIOUS
  <2>1. events[j].task \in Tasks \ {t}
    BY EventIs DEF Base, DashTypeOK, EventsTyped
  <2>2. BackupEvent(events[j])
    BY DEF Backups
  <2> QED
    BY <2>1, <2>2 DEF BackupEvent, Changes
<1> QED
  BY <1>1, <1>2 DEF Backups

\* Steps of other tasks.
LEMMA OthersKeepBackups ==
  ASSUME Base, Backups, NEW t \in Tasks, Changes(t), Says(t), Grows,
         tasks[t].kind # "backup", tasks'[t].kind # "backup"
  PROVE  Backups'
<1>1. \A i \in DOMAIN events' : \/ \E j \in DOMAIN events : events'[i] = events[j] /\ events[j].task # t
                                \/ events'[i].task = t
  BY SaysIs
<1> QED
  BY <1>1, BackupsKept DEF BackupEvent

LEMMA BackupTries ==
  ASSUME Base, Backups, NEW t \in Tasks, BackupStep(t)
  PROVE  Backups'
<1> PICK pc \in {"lock", "create", "sent", "retry", "over"}, tries \in Nat, stored \in Nat :
      Trying(t, pc, tries, stored) /\ tasks' = [tasks EXCEPT ![t] = Tried(t, pc, tries, stored)]
  BY BackupStepShape
<1> PICK task : task = Tried(t, pc, tries, stored)
  OBVIOUS
<1>1. /\ task \in Task /\ Fits(task) /\ task.kind = "backup" /\ task.pc = pc
      /\ task.place = tasks[t].place /\ task.name = tasks[t].name
      /\ task.queued = tasks[t].queued /\ task.exit = tasks[t].exit /\ task.told = tasks[t].told
      /\ task.tries = tries /\ task.stored = stored
      /\ tasks[t].kind = "backup" /\ Grows /\ Says(t)
  BY BackupStepShape, TriedFits
<1>2. tasks'[t] = task /\ Changes(t)
  BY Replaced DEF Base, DashTypeOK, Changes
<1>3. BackupTrue(t) /\ Fits(tasks[t]) /\ Exists(tasks[t].place) /\ tasks[t].stored \in Nat
      /\ tasks[t].queued \in BOOLEAN
  BY <1>1, TaskIs DEF Backups, Base, Kept, Needs, Task
<1>4. stored \in {0, 1} /\ stored >= tasks[t].stored /\ (stored = 1 => tasks[t].name \in archives'[tasks[t].place])
  <2>1. archives[tasks[t].place] \subseteq archives'[tasks[t].place]
    BY <1>1, <1>3 DEF Grows, Fits, Active
  <2> QED
    BY <1>3, <2>1 DEF Trying, BackupTrue
<1>5. BackupTrue(t)'
  <2>1. (tasks[t].queued => AfterTry(t) = "retry") /\ (~tasks[t].queued => AfterTry(t) = "sent")
    BY DEF AfterTry
  <2>2. tasks[t].queued => /\ pc # "sent"
                           /\ pc = "over" => tasks[t].exit \/ tries = MaxRetries
    BY <1>3, <2>1 DEF Trying, BackupTrue
  <2>3. ~tasks[t].queued => /\ pc # "retry" /\ pc # "over" /\ tasks[t].told = {}
                            /\ pc \in {"lock", "create"} => stored = 0
    BY <1>3, <2>1 DEF Trying, BackupTrue
  <2>4. "ok" \in tasks[t].told => stored = 1
    BY <1>3, <1>4 DEF BackupTrue
  <2> QED
    BY <1>1, <1>2, <1>3, <1>4, <2>2, <2>3, <2>4 DEF BackupTrue
<1>6. ASSUME NEW i \in DOMAIN events'
      PROVE  \/ \E j \in DOMAIN events : events'[i] = events[j] /\ events[j].task # t
             \/ events'[i].task = t /\ BackupEvent(events[i])'
  <2>1. CASE i \in DOMAIN events /\ events'[i] = events[i]
    <3>1. BackupEvent(events[i])
      BY <2>1 DEF Backups
    <3>2. tasks[t].pc # "sent"
      BY DEF Trying
    <3>3. events[i].task = t => tasks[t].queued
      BY <1>1, <2>1, <3>2, NoneOf DEF Queued
    <3>4. CASE events[i].task = t
      <4>1. BackupEvent(events[i])'
        BY <1>1, <1>2, <1>3, <1>4, <2>1, <3>1, <3>3, <3>4 DEF BackupEvent
      <4> QED
        BY <2>1, <3>4, <4>1
    <3> QED
      BY <2>1, <3>4
  <2>2. CASE i \notin DOMAIN events
    <3>1. events \in Seq(Event)
      BY DEF Base, DashTypeOK, EventsTyped
    <3>2. \E r \in Results : /\ Post(t, r) /\ events'[i] = [task |-> t, result |-> r]
                             /\ r = "ok" => stored = tasks[t].stored + 1
                             /\ r = "failed" => stored = tasks[t].stored /\ tasks[t].pc = "create"
      <4>1. ASSUME NEW r \in Results, Post(t, r)
            PROVE  events'[i] = [task |-> t, result |-> r]
        <5>1. [task |-> t, result |-> r] \in Event
          BY DEF Event
        <5> QED
          BY <2>2, <3>1, <4>1, <5>1, AppendedIs DEF Post
      <4> QED
        BY <2>2, <4>1 DEF Trying, Results
    <3> QED
      BY <1>1, <1>2, <1>3, <1>4, <3>2 DEF BackupEvent, BackupTrue
  <2> QED
    BY <1>1, <2>1, <2>2, SaysIs
<1> QED
  BY <1>1, <1>2, <1>5, <1>6, BackupsKept

LEMMA BackupHeard ==
  ASSUME Base, Backups, Closure, tasks[Head(events).task].kind = "backup"
  PROVE  Backups'
<1> PICK t : t = Head(events).task
  OBVIOUS
<1> PICK r : r = Head(events).result
  OBVIOUS
<1>1. /\ t \in Tasks /\ r \in Results /\ events # << >> /\ events' = Tail(events) /\ events \in Seq(Event)
      /\ ~Queued(tasks[t]) => tasks[t].pc = "sent"
      /\ UNCHANGED archives /\ Backup_told(t, r) /\ tasks[t].kind = "backup"
  BY ClosureIs
<1>2. /\ 1 \in DOMAIN events /\ events[1].task = t /\ events[1].result = r
      /\ \A i \in DOMAIN events' : i + 1 \in DOMAIN events /\ events'[i] = events[i + 1] /\ i \in Nat \ {0}
  BY <1>1, TailIs
<1> PICK pc \in {"lock", "create", "sent", "retry", "over"}, queued \in BOOLEAN, exit \in BOOLEAN,
         told \in SUBSET Results :
           /\ Told(t, r, pc, queued, exit, told)
           /\ tasks' = [tasks EXCEPT ![t] = Heard(t, pc, queued, exit, told)]
  BY <1>1, ToldIs
<1> PICK task : task = Heard(t, pc, queued, exit, told)
  OBVIOUS
<1>3. /\ task \in Task /\ Fits(task) /\ task.kind = "backup" /\ task.pc = pc
      /\ task.place = tasks[t].place /\ task.name = tasks[t].name
      /\ task.queued = queued /\ task.exit = exit /\ task.told = told
      /\ task.tries = tasks[t].tries /\ task.stored = tasks[t].stored
  BY <1>1, HeardFits
<1>4. tasks'[t] = task /\ Changes(t) /\ Grows
  BY <1>1, Replaced DEF Base, DashTypeOK, Changes, Grows
<1>5. BackupTrue(t) /\ BackupEvent(events[1])
  BY <1>1, <1>2 DEF Backups
<1>6. /\ r = "ok" => tasks[t].stored = 1
      /\ ~tasks[t].queued /\ r = "failed" => tasks[t].stored = 0
      /\ ~tasks[t].queued => tasks[t].pc = "sent"
  BY <1>1, <1>2, <1>5 DEF BackupEvent, Queued
<1>7. BackupTrue(t)'
  <2>1. "ok" \in told => tasks[t].stored = 1
    BY <1>5, <1>6 DEF Told, BackupTrue
  <2>2. exit => told # {}
    BY <1>5 DEF Told, BackupTrue
  <2>3. queued => /\ pc # "sent"
                  /\ pc = "over" => exit \/ tasks[t].tries = MaxRetries
    BY <1>5 DEF Told, BackupTrue
  <2>4. ~queued => /\ pc = "over" /\ told # {}
                   /\ "failed" \in told => tasks[t].stored = 0
    <3>1. ~queued => pc = "over" /\ told # {} /\ ~tasks[t].queued /\ told = tasks[t].told \cup {r}
      BY DEF Told
    <3> QED
      BY <1>5, <1>6, <3>1 DEF BackupTrue
  <2> QED
    BY <1>1, <1>3, <1>4, <1>5, <2>1, <2>2, <2>3, <2>4 DEF BackupTrue
<1>8. ASSUME NEW i \in DOMAIN events'
      PROVE  \/ \E j \in DOMAIN events : events'[i] = events[j] /\ events[j].task # t
             \/ events'[i].task = t /\ BackupEvent(events[i])'
  <2>1. CASE events[i + 1].task = t
    <3>1. tasks[t].queued /\ BackupEvent(events[i + 1])
      BY <1>1, <1>2, <2>1 DEF Base, Posted, Queued, Backups
    <3>2. queued
      BY <3>1 DEF Told
    <3>3. events'[i] = events[i + 1]
      BY <1>2
    <3>4. BackupEvent(events[i])'
      BY <1>3, <1>4, <2>1, <3>1, <3>2, <3>3 DEF BackupEvent
    <3> QED
      BY <2>1, <3>3, <3>4
  <2> QED
    BY <1>2, <2>1
<1> QED
  BY <1>1, <1>3, <1>4, <1>7, <1>8, BackupsKept

\* Closures of tasks that are no backups.
LEMMA OtherHeard ==
  ASSUME Base, Backups, Closure, tasks[Head(events).task].kind # "backup"
  PROVE  Backups'
<1> PICK t : t = Head(events).task
  OBVIOUS
<1> PICK r : r = Head(events).result
  OBVIOUS
<1>1. /\ t \in Tasks /\ events # << >> /\ events' = Tail(events) /\ events \in Seq(Event)
      /\ tasks[t].kind # "backup" /\ UNCHANGED archives
      /\ \/ tasks[t].kind = "wizard" /\ Push_repository(t)
         \/ tasks[t].kind = "load" /\ Loaded(t, r)
         \/ tasks[t].kind = "save" /\ Said(t)
  BY ClosureIs
<1>2. Changes(t) /\ Grows /\ tasks'[t].kind # "backup"
  <2>1. tasks \in [Tasks -> Task]
    BY DEF Base, DashTypeOK, TasksTyped
  <2>2. Grows
    BY <1>1 DEF Grows
  <2>3. CASE tasks[t].kind = "wizard" /\ Push_repository(t)
    BY <1>1, <2>1, <2>2, <2>3 DEF Push_repository, Made, Goto, Changes, Task
  <2>4. CASE tasks[t].kind = "load" /\ Loaded(t, r)
    BY <1>1, <2>1, <2>2, <2>4, BlanksFit DEF Loaded, Changes
  <2>5. CASE tasks[t].kind = "save" /\ Said(t)
    BY <1>1, <2>1, <2>2, <2>5, BlanksFit DEF Said, End, Changes
  <2> QED
    BY <1>1, <2>3, <2>4, <2>5
<1>3. \A i \in DOMAIN events' : i + 1 \in DOMAIN events /\ events'[i] = events[i + 1]
  BY <1>1, TailIs
<1>4. \A i \in DOMAIN events' : \/ \E j \in DOMAIN events : events'[i] = events[j] /\ events[j].task # t
                                \/ events'[i].task = t /\ BackupEvent(events[i])'
  BY <1>2, <1>3 DEF BackupEvent
<1> QED
  BY <1>1, <1>2, <1>4, BackupsKept

LEMMA BackupStarts ==
  ASSUME Base, Backups, NEW t \in Tasks, NEW name \in Archives, Backup(t, name)
  PROVE  Backups'
<1>1. /\ Changes(t) /\ UNCHANGED <<events, archives>> /\ tasks[t].kind = "unused"
      /\ tasks'[t] = [Unused EXCEPT !.kind = "backup", !.pc = "lock", !.place = Selected.place, !.name = name,
                                    !.conf = window.configs[Selected.place]]
  BY BackupShape
<1>2. Grows
  BY <1>1 DEF Grows
<1>3. BackupTrue(t)'
  <2>1. /\ tasks'[t].pc = "lock" /\ tasks'[t].stored = 0 /\ tasks'[t].told = {} /\ tasks'[t].queued = FALSE
        /\ tasks'[t].exit = FALSE
    BY <1>1 DEF Unused
  <2> QED
    BY <2>1 DEF BackupTrue
<1>4. \A i \in DOMAIN events : events[i].task # t
  BY <1>1, NoneOf DEF Active
<1> QED
  BY <1>1, <1>2, <1>3, <1>4, BackupsKept

LEMMA BackupsStep ==
  ASSUME Base, Backups, [Next]_vars
  PROVE  Backups'
<1>1. CASE UNCHANGED vars
  BY <1>1 DEF vars, Backups, BackupTrue, BackupEvent
<1>2. ASSUME NEW t \in Tasks, UserStep(t) PROVE Backups'
  <2>1. ASSUME NEW a \in Answers, Finish(t, a.name, a.place) PROVE Backups'
    BY <2>1, WizardShape, OthersKeepBackups
  <2>2. ASSUME NEW i \in DOMAIN window.sidebar, Select_repo(t, i) PROVE Backups'
    <3>1. Changes(t) /\ UNCHANGED <<events, archives>>
      BY <2>2, SelectShape
    <3>2. CASE UNCHANGED tasks
      BY <3>1, <3>2 DEF Backups, BackupTrue, BackupEvent
    <3>3. CASE tasks[t].kind = "unused" /\ i \in DOMAIN window.bookmarks
               /\ tasks'[t] = Load(window.bookmarks[i].place)
      <4>1. tasks'[t].kind = "load"
        BY <3>3, Bookmarked, LoadFits
      <4> QED
        BY <3>1, <3>3, <4>1, OthersKeepBackups DEF Says, Grows
    <3> QED
      BY <2>2, <3>2, <3>3, SelectShape
  <2>3. ASSUME NEW c \in Configs, Save(t, c) PROVE Backups'
    BY <2>3, SaveShape, OthersKeepBackups DEF Grows
  <2>4. ASSUME NEW name \in Archives, Backup(t, name) PROVE Backups'
    BY <2>4, BackupStarts
  <2> QED
    BY <1>2, <2>1, <2>2, <2>3, <2>4 DEF UserStep
<1>3. ASSUME NEW t \in Tasks, TaskStep(t) PROVE Backups'
  <2>1. CASE WizardStep(t)
    BY <2>1, WizardShape, OthersKeepBackups
  <2>2. CASE LoadArchives(t)
    BY <2>2, LoadShape, OthersKeepBackups DEF Grows
  <2>3. CASE SaveStep(t)
    BY <2>3, SaveShape, OthersKeepBackups DEF Grows
  <2>4. CASE BackupStep(t)
    BY <2>4, BackupTries
  <2> QED
    BY <1>3, <2>1, <2>2, <2>3, <2>4 DEF TaskStep
<1>4. ASSUME NEW t \in Tasks, Crash(t) PROVE Backups'
  <2>1. \A u \in Tasks : tasks'[u].kind # "backup"
    BY <1>4, CrashIs, LoadFits DEF Active
  <2>2. events' = << >> /\ DOMAIN events' = {}
    BY <1>4, EmptySeq, LenProperties DEF Crash
  <2> QED
    BY <2>1, <2>2 DEF Backups
<1>5. CASE Closure
  BY <1>5, BackupHeard, OtherHeard
<1>6. ASSUME NEW p \in Places, OtherLocks(p) PROVE Backups'
  BY <1>6 DEF OtherLocks, Backups, BackupTrue, BackupEvent
<1> QED
  BY <1>1, <1>2, <1>3, <1>4, <1>5, <1>6 DEF Next

\* What the window says of a backup is true: "ok" when the archive is stored, at most
\* once for a click, and a backup ends after its closure said so or after all its
\* attempts.
THEOREM ToldTrulyCorrect == Spec => []ToldTruly
<1>1. Init => Base /\ Backups
  <2> SUFFICES ASSUME Init PROVE Backups
    BY InitBase0
  <2> QED
    BY InitTasks DEF Backups
<1>2. Base /\ Backups /\ [Next]_vars => Base' /\ Backups'
  BY BaseStep, BackupsStep
<1>3. Base /\ Backups => ToldTruly
  <2> SUFFICES ASSUME Base, Backups, NEW t \in Tasks, tasks[t].kind = "backup"
               PROVE  /\ tasks[t].stored <= 1
                      /\ "ok" \in tasks[t].told => tasks[t].stored = 1
                      /\ "failed" \in tasks[t].told => tasks[t].stored = 0 \/ tasks[t].queued
                      /\ tasks[t].pc = "over" =>
                           tasks[t].told # {} \/ (tasks[t].queued /\ tasks[t].tries = MaxRetries)
    BY DEF ToldTruly
  <2>1. BackupTrue(t) /\ tasks[t].queued \in BOOLEAN
    BY TaskIs DEF Backups, Task
  <2> QED
    BY <2>1 DEF BackupTrue
<1> QED
  BY <1>1, <1>2, <1>3, PTL DEF Spec

-------------------------------------------------------------------------------
(***************************************************************************)
(* Sidebar, bookmarks and table                                            *)
(***************************************************************************)

LEMMA AddedKept ==
  ASSUME Added, NEW t \in Tasks, Changes(t), repos' = repos, window'.sidebar = window.sidebar,
         Calm("adds")' => Calm("adds"), ~At(t, "wizard", "insert"), ~At(t, "wizard", "insert")',
         Adding(t)' => Adding(t)
  PROVE  Added'
<1> SUFFICES ASSUME Calm("adds")'
             PROVE  /\ \A u, v \in Tasks : Adding(u)' /\ Adding(v)' => u = v
                    /\ (\A u \in Tasks : ~At(u, "wizard", "insert")') => window'.sidebar = repos'
                    /\ \A u \in Tasks : At(u, "wizard", "insert")' => window'.sidebar = Append(repos', Entry(u)')
  BY DEF Added
<1>1. \A u \in Tasks : Adding(u)' => Adding(u)
  BY DEF Changes, Adding, Is
<1>2. \A u \in Tasks \ {t} : (At(u, "wizard", "insert")' <=> At(u, "wizard", "insert")) /\ Entry(u)' = Entry(u)
  BY DEF Changes, At, Entry
<1> QED
  BY <1>1, <1>2 DEF Added

LEMMA AddedInserts ==
  ASSUME Base, Added, NEW t \in Tasks, Add_repo(t)
  PROVE  Added'
<1>1. At(t, "wizard", "insert") /\ Adding(t) /\ UNCHANGED window /\ tasks \in [Tasks -> Task]
  BY DEF Add_repo, At, Adding, Is, Base, DashTypeOK, TasksTyped
<1>2. CASE Note({"adds"})
  <2>1. ~Calm("adds")'
    BY <1>2 DEF Note, Calm, Base, DashTypeOK, StoresTyped
  <2> QED
    BY <2>1 DEF Added
<1>3. CASE Goto(t, "list") /\ repos' = Append(repos, Entry(t)) /\ UNCHANGED history
  <2> SUFFICES ASSUME Calm("adds")'
               PROVE  /\ \A u, v \in Tasks : Adding(u)' /\ Adding(v)' => u = v
                      /\ (\A u \in Tasks : ~At(u, "wizard", "insert")') => window'.sidebar = repos'
                      /\ \A u \in Tasks : ~At(u, "wizard", "insert")'
    BY DEF Added
  <2>1. Changes(t) /\ ~At(t, "wizard", "insert")'
    BY <1>1, <1>3 DEF Goto, Changes, At, Task
  <2>2. Calm("adds")
    BY <1>3 DEF Calm
  <2>3. \A u \in Tasks \ {t} : ~Adding(u) /\ ~At(u, "wizard", "insert")
    BY <1>1, <2>2 DEF Added, Adding, At, Is
  <2>4. \A u \in Tasks \ {t} : ~Adding(u)' /\ ~At(u, "wizard", "insert")'
    BY <2>1, <2>3 DEF Changes, Adding, At, Is
  <2>5. window'.sidebar = repos'
    BY <1>1, <1>3, <2>2 DEF Added
  <2> QED
    BY <2>1, <2>4, <2>5
<1> QED
  BY <1>2, <1>3 DEF Add_repo, Entry

LEMMA AddedHears ==
  ASSUME Base, Added, Closure
  PROVE  Added'
<1> PICK t : t = Head(events).task
  OBVIOUS
<1> PICK r : r = Head(events).result
  OBVIOUS
<1>1. /\ t \in Tasks /\ UNCHANGED repos /\ (~Queued(tasks[t]) => tasks[t].pc = "sent") /\ r \in Results
      /\ tasks[t] \in Task
      /\ \/ tasks[t].kind = "wizard" /\ Push_repository(t)
         \/ tasks[t].kind = "load" /\ Loaded(t, r)
         \/ tasks[t].kind = "save" /\ Said(t)
         \/ tasks[t].kind = "backup" /\ Backup_told(t, r)
  BY ClosureIs
<1>2. tasks \in [Tasks -> Task]
  BY DEF Base, DashTypeOK, TasksTyped
<1>3. CASE tasks[t].kind = "wizard" /\ Push_repository(t)
  <2>1. Changes(t) /\ tasks'[t] = [tasks[t] EXCEPT !.pc = "insert"]
    BY <1>1, <1>2, <1>3 DEF Push_repository, Made, Goto, Changes
  <2>2. At(t, "wizard", "insert")' /\ Entry(t)' = Entry(t) /\ tasks[t].pc = "sent"
    BY <1>1, <1>3, <2>1 DEF At, Task, Entry, Queued
  <2>3. window'.sidebar = Append(window.sidebar, Entry(t))
    BY <1>3 DEF Push_repository, Made, Entry, Base, DashTypeOK, StoresTyped
  <2>4. Calm("adds")' => Calm("adds") /\ \A u \in Tasks : ~Adding(u)
    <3> PICK w : w = IF \E u \in Tasks : Adding(u) THEN {"adds"} ELSE {}
      OBVIOUS
    <3>1. Note(w)
      BY <1>3 DEF Push_repository, Made
    <3> QED
      BY <3>1 DEF Note, Calm, Base, DashTypeOK, StoresTyped
  <2> SUFFICES ASSUME Calm("adds")'
               PROVE  /\ \A u, v \in Tasks : Adding(u)' /\ Adding(v)' => u = v
                      /\ (\A u \in Tasks : ~At(u, "wizard", "insert")') => window'.sidebar = repos'
                      /\ \A u \in Tasks : At(u, "wizard", "insert")' => window'.sidebar = Append(repos', Entry(u)')
    BY DEF Added
  <2>5. \A u \in Tasks \ {t} : ~Adding(u)' /\ ~At(u, "wizard", "insert")'
    BY <2>1, <2>4 DEF Changes, Adding, At, Is
  <2>6. window.sidebar = repos
    BY <2>4 DEF Added, Adding, At, Is
  <2>7. \A u \in Tasks : At(u, "wizard", "insert")' => Entry(u)' = Entry(t)
    BY <2>2, <2>5 DEF Entry
  <2> QED
    BY <1>1, <2>2, <2>3, <2>4, <2>5, <2>6, <2>7
<1>4. CASE tasks[t].kind # "wizard"
  <2>1. window'.sidebar = window.sidebar /\ history'.upset = history.upset
    BY <1>1, <1>4 DEF Loaded, Said, Backup_told, Base, DashTypeOK, StoresTyped
  <2>2. Changes(t) /\ tasks'[t].kind # "wizard"
    <3>1. CASE tasks[t].kind = "load" /\ Loaded(t, r)
      BY <1>1, <1>2, <3>1, BlanksFit DEF Loaded, Changes
    <3>2. CASE tasks[t].kind = "save" /\ Said(t)
      BY <1>1, <1>2, <3>2, BlanksFit DEF Said, End, Changes
    <3>3. CASE tasks[t].kind = "backup" /\ Backup_told(t, r)
      <4>1. \E task \in Task : task.kind = "backup" /\ tasks' = [tasks EXCEPT ![t] = task]
        BY <1>1, <3>3, ToldIs, HeardFits
      <4> QED
        BY <1>1, <1>2, <4>1 DEF Changes
    <3> QED
      BY <1>1, <1>4, <3>1, <3>2, <3>3
  <2> QED
    BY <1>1, <1>4, <2>1, <2>2, AddedKept DEF Adding, At, Is, Calm
<1> QED
  BY <1>1, <1>3, <1>4

LEMMA AddedStep ==
  ASSUME Base, Added, [Next]_vars
  PROVE  Added'
<1>0. ASSUME UNCHANGED <<tasks, repos, history>>, window'.sidebar = window.sidebar PROVE Added'
  BY <1>0 DEF Added, Calm, Adding, At, Is, Entry
<1>1. CASE UNCHANGED vars
  BY <1>0, <1>1 DEF vars
<1>2. ASSUME NEW t \in Tasks, UserStep(t) PROVE Added'
  <2>1. ASSUME NEW a \in Answers, Finish(t, a.name, a.place) PROVE Added'
    <3>1. tasks[t].kind = "unused" /\ tasks'[t].pc = "name" /\ UNCHANGED <<repos, window, history>> /\ Changes(t)
      BY <2>1, WizardShape DEF Finish, Begin, Fresh, Is, Unused, Base, DashTypeOK, TasksTyped
    <3> QED
      BY <3>1, AddedKept DEF At, Adding, Is, Calm
  <2>2. ASSUME NEW i \in DOMAIN window.sidebar, Select_repo(t, i) PROVE Added'
    <3>1. /\ Changes(t) /\ UNCHANGED repos /\ window'.sidebar = window.sidebar
          /\ history'.upset = history.upset
      BY <2>2, SelectShape DEF Base, DashTypeOK, StoresTyped
    <3>2. CASE UNCHANGED tasks
      BY <3>1, <3>2 DEF Added, Calm, Adding, At, Is, Entry
    <3>3. CASE tasks[t].kind = "unused" /\ i \in DOMAIN window.bookmarks
               /\ tasks'[t] = Load(window.bookmarks[i].place)
      <4>1. tasks'[t].kind = "load"
        BY <3>3, Bookmarked, LoadFits
      <4> QED
        BY <3>1, <3>3, <4>1, AddedKept DEF At, Adding, Is, Calm
    <3> QED
      BY <2>2, <3>2, <3>3, SelectShape
  <2>3. ASSUME NEW c \in Configs, Save(t, c) PROVE Added'
    BY <2>3, SaveShape, NotedIs, AddedKept DEF At, Adding, Is
  <2>4. ASSUME NEW name \in Archives, Backup(t, name) PROVE Added'
    <3>1. tasks[t].kind = "unused" /\ tasks'[t].kind = "backup" /\ Changes(t) /\ UNCHANGED <<repos, window, history>>
      BY <2>4, BackupShape
    <3> QED
      BY <3>1, AddedKept DEF At, Adding, Is, Calm
  <2> QED
    BY <1>2, <2>1, <2>2, <2>3, <2>4 DEF UserStep
<1>3. ASSUME NEW t \in Tasks, TaskStep(t) PROVE Added'
  <2>t. tasks \in [Tasks -> Task]
    BY DEF Base, DashTypeOK, TasksTyped
  <2>1. CASE Repo_name_exists(t) \/ Init_repository(t)
    <3>1. /\ tasks[t].kind = "wizard" /\ tasks[t].pc \in {"name", "init"} /\ UNCHANGED <<repos, window, history>>
          /\ tasks'[t].kind = "ended" \/ tasks'[t].pc \in {"init", "sent"}
      BY <2>t, <2>1, BlanksFit DEF Repo_name_exists, Init_repository, At, End, Goto, PostEnd, Task
    <3>2. Changes(t)
      BY <2>1, WizardShape DEF WizardStep
    <3> QED
      BY <3>1, <3>2, AddedKept DEF At, Adding, Is, Calm
  <2>2. CASE Add_repo(t)
    BY <2>2, AddedInserts
  <2>3. CASE List_repos(t) \/ SetRepos(t)
    <3>1. /\ tasks[t].kind = "wizard" /\ tasks[t].pc \in {"list", "set"} /\ UNCHANGED <<repos, history>>
          /\ tasks'[t].kind = "ended" \/ tasks'[t].pc = "set"
      BY <2>t, <2>3, BlanksFit DEF List_repos, SetRepos, At, End, Task
    <3>2. Changes(t) /\ window'.sidebar = window.sidebar
      BY <2>3, WizardShape DEF WizardStep
    <3> QED
      BY <3>1, <3>2, AddedKept DEF At, Adding, Is, Calm
  <2>4. CASE LoadArchives(t)
    BY <2>4, LoadShape, AddedKept DEF At, Adding, Is, Calm
  <2>5. CASE SaveStep(t)
    BY <2>5, SaveShape, NotedIs, AddedKept DEF At, Adding, Is
  <2>6. CASE BackupStep(t)
    <3>1. \E task \in Task : task.kind = "backup" /\ tasks' = [tasks EXCEPT ![t] = task]
      BY <2>6, BackupStepShape, TriedFits
    <3>2. Changes(t) /\ tasks'[t].kind = "backup" /\ tasks[t].kind = "backup"
      BY <2>t, <2>6, <3>1, BackupStepShape DEF Changes
    <3> QED
      BY <2>6, <3>2, BackupStepShape, AddedKept DEF At, Adding, Is, Calm
  <2> QED
    BY <1>3, <2>1, <2>2, <2>3, <2>4, <2>5, <2>6 DEF TaskStep, WizardStep
<1>4. ASSUME NEW t \in Tasks, Crash(t) PROVE Added'
  <2>1. \A u \in Tasks : tasks'[u].kind # "wizard"
    BY <1>4, CrashIs, LoadFits DEF Active
  <2>2. window'.sidebar = repos'
    BY <1>4 DEF Crash, Opened_window
  <2> QED
    BY <2>1, <2>2 DEF Added, Adding, At, Is
<1>5. CASE Closure
  BY <1>5, AddedHears
<1>6. ASSUME NEW p \in Places, OtherLocks(p) PROVE Added'
  BY <1>0, <1>6 DEF OtherLocks
<1> QED
  BY <1>1, <1>2, <1>3, <1>4, <1>5, <1>6 DEF Next

\* The bookmark and the line of the sidebar at an index are the same repository.
LEMMA SameSelected ==
  ASSUME Base, Added, Calm("adds"), NEW i \in DOMAIN window.bookmarks
  PROVE  window.sidebar[i] = window.bookmarks[i]
<1>1. i \in DOMAIN repos /\ window.bookmarks[i] = repos[i] /\ repos \in Seq(Known)
  BY Bookmarked DEF Base, DashTypeOK, StoresTyped
<1>2. CASE \A t \in Tasks : ~At(t, "wizard", "insert")
  BY <1>1, <1>2 DEF Added
<1>3. ASSUME NEW t \in Tasks, At(t, "wizard", "insert")
      PROVE  window.sidebar[i] = window.bookmarks[i]
  <2>1. Entry(t) \in Known
    BY <1>3, TaskIs DEF Entry, At, Fits, Active, Known
  <2> QED
    BY <1>1, <1>3, <2>1, AppendedIs DEF Added
<1> QED
  BY <1>2, <1>3

\* Only the user starts a backup.
LEMMA OnlyBackup ==
  ASSUME Base, [Next]_vars, NEW t \in Tasks, Fresh(t), tasks'[t].kind = "backup"
  PROVE  \E name \in Archives : Backup(t, name)
<1>1. tasks[t].kind = "unused"
  BY DEF Fresh, Is
<1>2. CASE UNCHANGED vars
  BY <1>1, <1>2 DEF vars
<1>3. ASSUME NEW s \in Tasks, UserStep(s) \/ TaskStep(s) \/ Crash(s)
      PROVE  \E name \in Archives : Backup(t, name)
  <2>1. ASSUME NEW a \in Answers, Finish(s, a.name, a.place) PROVE FALSE
    BY <1>1, <2>1, WizardShape DEF Changes
  <2>2. ASSUME NEW i \in DOMAIN window.sidebar, Select_repo(s, i) PROVE FALSE
    <3>1. CASE UNCHANGED tasks
      BY <1>1, <3>1
    <3>2. CASE i \in DOMAIN window.bookmarks /\ tasks'[s] = Load(window.bookmarks[i].place)
      <4>1. tasks'[s].kind = "load"
        BY <3>2, Bookmarked, LoadFits
      <4> QED
        BY <1>1, <2>2, <4>1, SelectShape DEF Changes
    <3> QED
      BY <2>2, <3>1, <3>2, SelectShape
  <2>3. ASSUME NEW c \in Configs, Save(s, c) PROVE FALSE
    BY <1>1, <2>3, SaveShape DEF Changes
  <2>4. ASSUME NEW name \in Archives, Backup(s, name) PROVE s = t
    BY <1>1, <2>4, BackupShape DEF Changes
  <2>5. CASE WizardStep(s)
    BY <1>1, <2>5, WizardShape DEF Changes
  <2>6. CASE LoadArchives(s)
    BY <1>1, <2>6, LoadShape DEF Changes
  <2>7. CASE SaveStep(s)
    BY <1>1, <2>7, SaveShape DEF Changes
  <2>8. CASE BackupStep(s)
    <3>1. tasks[s].kind = "backup" /\ \E task : tasks' = [tasks EXCEPT ![s] = task]
      BY <2>8, BackupStepShape
    <3>2. s # t
      BY <1>1, <3>1
    <3> QED
      BY <1>1, <3>1, <3>2
  <2>9. CASE Crash(s)
    BY <2>9, CrashIs, LoadFits DEF Active
  <2> QED
    BY <1>3, <2>1, <2>2, <2>3, <2>4, <2>5, <2>6, <2>7, <2>8, <2>9 DEF UserStep, TaskStep
<1>4. CASE Closure
  <2> PICK u : u = Head(events).task
    OBVIOUS
  <2> PICK r : r = Head(events).result
    OBVIOUS
  <2>1. /\ r \in Results /\ u \in Tasks
        /\ \/ tasks[u].kind = "wizard" /\ Push_repository(u)
           \/ tasks[u].kind = "load" /\ Loaded(u, r)
           \/ tasks[u].kind = "save" /\ Said(u)
           \/ tasks[u].kind = "backup" /\ Backup_told(u, r)
    BY <1>4, ClosureIs
  <2>2. u # t /\ tasks \in [Tasks -> Task]
    BY <1>1, <2>1 DEF Base, DashTypeOK, TasksTyped
  <2>3. tasks'[t] = tasks[t]
    BY <2>1, <2>2 DEF Push_repository, Made, Goto, Loaded, Said, End, Backup_told, First_told, Queued_told
  <2> QED
    BY <1>1, <2>3
<1>5. ASSUME NEW p \in Places, OtherLocks(p) PROVE FALSE
  BY <1>1, <1>5 DEF OtherLocks
<1> QED
  BY <1>2, <1>3, <1>4, <1>5 DEF Next

LEMMA InitAdded ==
  ASSUME Init
  PROVE  Added
<1>1. window.sidebar = repos
  BY DEF Init, Opened_window
<1>2. \A u \in Tasks : tasks[u].kind # "wizard"
  BY InitTasks
<1> QED
  BY <1>1, <1>2 DEF Added, Adding, At, Is

\* A backup goes to the repository that the sidebar shows as selected, although it is
\* looked up in the bookmarks, which are brought up to date later.
THEOREM GoesToSelectedCorrect == Spec => GoesToSelected
<1>1. Init => Base /\ Added
  BY InitBase0, InitAdded
<1>2. Base /\ Added /\ [Next]_vars => Base' /\ Added'
  BY BaseStep, AddedStep
<1>3. Base /\ Added /\ [Next]_vars =>
        [\A t \in Tasks : Fresh(t) /\ tasks'[t].kind = "backup" /\ "adds" \notin history.upset
           => tasks'[t].place = window.sidebar[window.active].place]_vars
  <2> SUFFICES ASSUME Base, Added, [Next]_vars, NEW t \in Tasks, Fresh(t), tasks'[t].kind = "backup",
                      "adds" \notin history.upset
               PROVE  tasks'[t].place = window.sidebar[window.active].place
    OBVIOUS
  <2> PICK name \in Archives : Backup(t, name)
    BY OnlyBackup
  <2>1. tasks'[t].place = Selected.place /\ HasSelected
    BY BackupShape
  <2> QED
    BY <2>1, SameSelected DEF Calm, HasSelected, Selected
<1> QED
  BY <1>1, <1>2, <1>3, PTL DEF Spec, GoesToSelected

-------------------------------------------------------------------------------
(***************************************************************************)
(* The configuration that is saved                                         *)
(***************************************************************************)

LEMMA SavingKept ==
  ASSUME Saving, NEW t \in Tasks, Changes(t), ~Is(t, "save"), ~Is(t, "save")',
         saved' = saved, window'.configs = window.configs, history'.saidSaved = history.saidSaved,
         Calm("saves")' => Calm("saves")
  PROVE  Saving'
BY DEF Saving, New, Changes, Is

LEMMA SavingSteps ==
  ASSUME Base, Saving, NEW t \in Tasks, SaveStep(t)
  PROVE  Saving'
<1>1. /\ Changes(t) /\ tasks[t].kind = "save" /\ tasks'[t].kind = "save"
      /\ tasks'[t].place = tasks[t].place /\ tasks'[t].conf = tasks[t].conf
      /\ history'.saidSaved = history.saidSaved /\ (Calm("saves")' => Calm("saves"))
  <2>1. tasks[t].kind = "save"
    BY DEF SaveStep, Upsert_archive_bookmark, SaveFails, Remember, List_archive_bookmarks, SetConfigs, At, Is
  <2> QED
    BY <2>1, SaveShape, NotedIs
<1>2. tasks \in [Tasks -> Task]
  BY DEF Base, DashTypeOK, TasksTyped
<1> SUFFICES ASSUME Calm("saves")'
             PROVE  /\ \A u, v \in Tasks : Is(u, "save")' /\ Is(v, "save")' => u = v
                    /\ \A u \in Tasks : Is(u, "save")' => u = t
                    /\ saved' = IF tasks'[t].pc = "upsert" THEN history.saidSaved ELSE New(t)
                    /\ window'.configs = IF tasks'[t].pc = "sent" THEN New(t) ELSE history.saidSaved
                    /\ tasks'[t].pc = "set" => tasks'[t].read = New(t)
  BY <1>1 DEF Saving, New, Is
<1>3. /\ \A u, v \in Tasks : Is(u, "save") /\ Is(v, "save") => u = v
      /\ saved = IF tasks[t].pc = "upsert" THEN history.saidSaved ELSE New(t)
      /\ window.configs = IF tasks[t].pc = "sent" THEN New(t) ELSE history.saidSaved
      /\ tasks[t].pc = "set" => tasks[t].read = New(t)
  BY <1>1 DEF Saving, New, Is
<1>4. \A u \in Tasks : Is(u, "save")' => u = t
  BY <1>1, <1>3 DEF Changes, Is
<1>5. CASE Upsert_archive_bookmark(t)
  BY <1>1, <1>2, <1>3, <1>4, <1>5 DEF Upsert_archive_bookmark, At, Goto, Task, New
<1>6. CASE SaveFails(t)
  <2>1. ~Calm("saves")'
    BY <1>6 DEF SaveFails, Note, Calm, Base, DashTypeOK, StoresTyped
  <2> QED
    BY <2>1
<1>7. CASE List_archive_bookmarks(t)
  BY <1>1, <1>2, <1>3, <1>4, <1>7 DEF List_archive_bookmarks, At, Task
<1>8. CASE SetConfigs(t)
  BY <1>1, <1>2, <1>3, <1>4, <1>8 DEF SetConfigs, At, Task, Base, DashTypeOK, StoresTyped
<1> QED
  BY <1>5, <1>6, <1>7, <1>8 DEF SaveStep, Remember

LEMMA SavingStarts ==
  ASSUME Base, Saving, NEW t \in Tasks, NEW c \in Configs, Save(t, c)
  PROVE  Saving'
<1>1. /\ Changes(t) /\ tasks[t].kind = "unused" /\ tasks'[t].kind = "save" /\ tasks'[t].pc = "upsert"
      /\ UNCHANGED <<window, saved>> /\ history'.saidSaved = history.saidSaved
      /\ Calm("saves")' => Calm("saves")
  <2>1. tasks[t].kind = "unused" /\ tasks'[t].pc = "upsert" /\ UNCHANGED <<window, saved>>
    BY DEF Save, Begin, Fresh, Is, Unused, Base, DashTypeOK, TasksTyped
  <2> QED
    BY <2>1, SaveShape, NotedIs
<1> SUFFICES ASSUME Calm("saves")'
             PROVE  /\ \A u \in Tasks : Is(u, "save")' => u = t
                    /\ saved = history.saidSaved /\ window.configs = history.saidSaved
  BY <1>1 DEF Saving, New, Is
<1>2. \A u \in Tasks : ~Is(u, "save")
  <2> PICK w : w = IF \E u \in Tasks : Is(u, "save") THEN {"saves"} ELSE {}
    OBVIOUS
  <2>1. Note(w)
    BY DEF Save
  <2> QED
    BY <2>1 DEF Note, Calm, Base, DashTypeOK, StoresTyped
<1> QED
  BY <1>1, <1>2 DEF Saving, Changes, Is

LEMMA SavingHears ==
  ASSUME Base, Saving, Closure
  PROVE  Saving'
<1> PICK t : t = Head(events).task
  OBVIOUS
<1> PICK r : r = Head(events).result
  OBVIOUS
<1>1. /\ t \in Tasks /\ UNCHANGED saved /\ (~Queued(tasks[t]) => tasks[t].pc = "sent") /\ r \in Results
      /\ tasks[t] \in Task
      /\ \/ tasks[t].kind = "wizard" /\ Push_repository(t)
         \/ tasks[t].kind = "load" /\ Loaded(t, r)
         \/ tasks[t].kind = "save" /\ Said(t)
         \/ tasks[t].kind = "backup" /\ Backup_told(t, r)
  BY ClosureIs
<1>2. tasks \in [Tasks -> Task]
  BY DEF Base, DashTypeOK, TasksTyped
<1>3. CASE tasks[t].kind = "save" /\ Said(t)
  <2>1. /\ Changes(t) /\ tasks'[t].kind = "ended" /\ UNCHANGED window /\ tasks[t].pc = "sent"
        /\ history'.saidSaved = New(t) /\ (Calm("saves")' <=> Calm("saves"))
    BY <1>1, <1>2, <1>3, BlanksFit DEF Said, End, Changes, Queued, New, Calm, Base, DashTypeOK, StoresTyped
  <2> SUFFICES ASSUME Calm("saves")'
               PROVE  /\ \A u \in Tasks : ~Is(u, "save")'
                      /\ saved = New(t) /\ window.configs = New(t)
    BY <1>1, <2>1 DEF Saving
  <2> QED
    BY <1>1, <1>3, <2>1 DEF Saving, Changes, Is
<1>4. CASE tasks[t].kind # "save"
  <2>1. /\ Changes(t) /\ tasks'[t].kind # "save"
    <3>1. CASE tasks[t].kind = "load" /\ Loaded(t, r)
      BY <1>1, <1>2, <3>1, BlanksFit DEF Loaded, Changes
    <3>2. CASE tasks[t].kind = "wizard" /\ Push_repository(t)
      BY <1>1, <1>2, <3>2 DEF Push_repository, Made, Goto, Changes, Task
    <3>3. CASE tasks[t].kind = "backup" /\ Backup_told(t, r)
      <4>1. \E task \in Task : task.kind = "backup" /\ tasks' = [tasks EXCEPT ![t] = task]
        BY <1>1, <3>3, ToldIs, HeardFits
      <4> QED
        BY <1>1, <1>2, <4>1 DEF Changes
    <3> QED
      BY <1>1, <1>4, <3>1, <3>2, <3>3
  <2>2. window'.configs = window.configs
    BY <1>1, <1>4 DEF Loaded, Push_repository, Made, Backup_told, Base, DashTypeOK, StoresTyped
  <2>3. history'.saidSaved = history.saidSaved /\ (Calm("saves")' => Calm("saves"))
    <3>1. CASE \E w : Note(w)
      BY <3>1 DEF Note, Calm, Base, DashTypeOK, StoresTyped
    <3>2. CASE Loaded(t, r) \/ Backup_told(t, r)
      BY <3>2 DEF Loaded, Backup_told, Calm, Base, DashTypeOK, StoresTyped
    <3> QED
      BY <1>1, <1>4, <3>1, <3>2 DEF Push_repository, Made
  <2> QED
    BY <1>1, <1>4, <2>1, <2>2, <2>3, SavingKept DEF Is
<1> QED
  BY <1>1, <1>3, <1>4

LEMMA SavingStep ==
  ASSUME Base, Saving, [Next]_vars
  PROVE  Saving'
<1>1. CASE UNCHANGED vars
  BY <1>1 DEF vars, Saving, New, Is, Calm
<1>2. ASSUME NEW t \in Tasks, UserStep(t) PROVE Saving'
  <2>1. ASSUME NEW a \in Answers, Finish(t, a.name, a.place) PROVE Saving'
    BY <2>1, WizardShape, NotedIs, SavingKept DEF Is
  <2>2. ASSUME NEW i \in DOMAIN window.sidebar, Select_repo(t, i) PROVE Saving'
    <3>1. /\ Changes(t) /\ UNCHANGED saved /\ window'.configs = window.configs
          /\ history'.saidSaved = history.saidSaved /\ history'.upset = history.upset
      BY <2>2, SelectShape DEF Base, DashTypeOK, StoresTyped
    <3>2. CASE UNCHANGED tasks
      BY <3>1, <3>2 DEF Saving, New, Is, Calm
    <3>3. CASE tasks[t].kind = "unused" /\ i \in DOMAIN window.bookmarks
               /\ tasks'[t] = Load(window.bookmarks[i].place)
      <4>1. tasks'[t].kind = "load"
        BY <3>3, Bookmarked, LoadFits
      <4> QED
        BY <3>1, <3>3, <4>1, SavingKept DEF Is, Calm
    <3> QED
      BY <2>2, <3>2, <3>3, SelectShape
  <2>3. ASSUME NEW c \in Configs, Save(t, c) PROVE Saving'
    BY <2>3, SavingStarts
  <2>4. ASSUME NEW name \in Archives, Backup(t, name) PROVE Saving'
    BY <2>4, BackupShape, SavingKept DEF Is, Calm
  <2> QED
    BY <1>2, <2>1, <2>2, <2>3, <2>4 DEF UserStep
<1>3. ASSUME NEW t \in Tasks, TaskStep(t) PROVE Saving'
  <2>1. CASE WizardStep(t)
    BY <2>1, WizardShape, NotedIs, SavingKept DEF Is
  <2>2. CASE LoadArchives(t)
    BY <2>2, LoadShape, SavingKept DEF Is, Calm
  <2>3. CASE SaveStep(t)
    BY <2>3, SavingSteps
  <2>4. CASE BackupStep(t)
    <3>1. \E task \in Task : task.kind = "backup" /\ tasks' = [tasks EXCEPT ![t] = task]
      BY <2>4, BackupStepShape, TriedFits
    <3>2. Changes(t) /\ tasks'[t].kind = "backup" /\ tasks[t].kind = "backup"
      BY <2>4, <3>1, BackupStepShape DEF Changes, Base, DashTypeOK, TasksTyped
    <3> QED
      BY <2>4, <3>2, BackupStepShape, SavingKept DEF Is, Calm
  <2> QED
    BY <1>3, <2>1, <2>2, <2>3, <2>4 DEF TaskStep
<1>4. ASSUME NEW t \in Tasks, Crash(t) PROVE Saving'
  <2>1. \A u \in Tasks : tasks'[u].kind # "save"
    BY <1>4, CrashIs, LoadFits DEF Active
  <2>2. window'.configs = saved /\ saved' = saved /\ history'.saidSaved = saved
    BY <1>4 DEF Crash, Opened_window, Base, DashTypeOK, StoresTyped
  <2> QED
    BY <2>1, <2>2 DEF Saving, Is
<1>5. CASE Closure
  BY <1>5, SavingHears
<1>6. ASSUME NEW p \in Places, OtherLocks(p) PROVE Saving'
  BY <1>6 DEF OtherLocks, Saving, New, Is, Calm
<1> QED
  BY <1>1, <1>2, <1>3, <1>4, <1>5, <1>6 DEF Next

LEMMA InitSaving ==
  ASSUME Init
  PROVE  Saving
<1>1. window.configs = saved /\ history.saidSaved = saved
  BY DEF Init, Opened_window
<1>2. \A u \in Tasks : tasks[u].kind # "save"
  BY InitTasks
<1> QED
  BY <1>1, <1>2 DEF Saving, Is

\* A backup is made with the configuration that was saved last, or with one that is
\* being saved.
THEOREM UsesSavedCorrect == Spec => UsesSaved
<1>1. Init => Base /\ Saving
  BY InitBase0, InitSaving
<1>2. Base /\ Saving /\ [Next]_vars => Base' /\ Saving'
  BY BaseStep, SavingStep
<1>3. Base /\ Saving /\ [Next]_vars =>
        [\A t \in Tasks : Fresh(t) /\ tasks'[t].kind = "backup" /\ "saves" \notin history.upset
           => tasks'[t].conf \in {history.saidSaved[tasks'[t].place]}
                \cup {tasks[u].conf : u \in {v \in Tasks : Is(v, "save") /\ tasks[v].place = tasks'[t].place}}]_vars
  <2> SUFFICES ASSUME Base, Saving, [Next]_vars, NEW t \in Tasks, Fresh(t), tasks'[t].kind = "backup",
                      "saves" \notin history.upset
               PROVE  \/ tasks'[t].conf = history.saidSaved[tasks'[t].place]
                      \/ \E u \in Tasks : /\ Is(u, "save") /\ tasks[u].place = tasks'[t].place
                                          /\ tasks'[t].conf = tasks[u].conf
    OBVIOUS
  <2> PICK name \in Archives : Backup(t, name)
    BY OnlyBackup
  <2>1. /\ tasks'[t].place = Selected.place /\ tasks'[t].conf = window.configs[Selected.place]
        /\ Selected.place \in Places
    BY BackupShape, Bookmarked DEF HasSelected, Selected
  <2>2. history.saidSaved \in [Places -> Configs \cup {None}]
    BY DEF Base, DashTypeOK, StoresTyped, Settings
  <2>3. CASE \A u \in Tasks : ~Is(u, "save")
    BY <2>1, <2>3 DEF Saving, Calm
  <2>4. ASSUME NEW u \in Tasks, Is(u, "save")
        PROVE  \/ window.configs[Selected.place] = history.saidSaved[Selected.place]
               \/ tasks[u].place = Selected.place /\ window.configs[Selected.place] = tasks[u].conf
    BY <2>1, <2>2, <2>4 DEF Saving, Calm, New
  <2> QED
    BY <2>1, <2>3, <2>4
<1> QED
  BY <1>1, <1>2, <1>3, PTL DEF Spec, UsesSaved

-------------------------------------------------------------------------------
(***************************************************************************)
(* The archives that are shown                                             *)
(***************************************************************************)

Watched == history.alone /\ Calm("adds")

\* Most steps are of one task, and leave alone what is selected and shown.
LEMMA ShownKept ==
  ASSUME Base, Shown, NEW t \in Tasks, Changes(t), Says(t), Current' = Current,
         window'.shown = window.shown, history'.alone = history.alone, history'.loaded = history.loaded,
         Calm("adds")' => Calm("adds"),
         Watched /\ tasks'[t].kind \in {"load", "backup"} => tasks'[t].place = Current,
         tasks'[t].kind = "load" => \A i \in DOMAIN events : events[i].task # t,
         tasks'[t].kind = "load" => \A i \in DOMAIN events' :
           events'[i].task = t /\ events'[i].result = "ok" => \A s \in tasks'[t].read : s.place = tasks'[t].place
  PROVE  Shown'
<1>1. \A i \in DOMAIN events' :
        \/ i \in DOMAIN events /\ events'[i] = events[i]
        \/ events'[i].task = t /\ i \notin DOMAIN events /\ \A j \in DOMAIN events : j < i
  BY SaysIs
<1>2. \A i \in DOMAIN events : events[i].task \in Tasks
  BY EventIs DEF Base, DashTypeOK, EventsTyped
<1>3. ReadsOwn'
  <2> SUFFICES ASSUME NEW i \in DOMAIN events', tasks'[events'[i].task].kind = "load", events'[i].result = "ok"
               PROVE  \A s \in tasks'[events'[i].task].read : s.place = tasks'[events'[i].task].place
    BY DEF ReadsOwn
  <2>1. CASE events'[i].task = t
    BY <2>1
  <2>2. CASE events'[i].task # t
    BY <1>1, <1>2, <2>2 DEF Shown, ReadsOwn, Changes
  <2> QED
    BY <2>1, <2>2
<1>4. ASSUME Watched'
      PROVE  ListsCurrent' /\ StaleFirst' /\ ShownCurrent'
  <2>1. Watched /\ ListsCurrent /\ StaleFirst /\ ShownCurrent
    BY <1>4 DEF Watched, Shown
  <2>2. ListsCurrent'
    <3> SUFFICES ASSUME NEW u \in Tasks, Lists(u)' PROVE tasks'[u].place = Current
      BY DEF ListsCurrent
    <3>1. CASE u = t
      BY <2>1, <3>1 DEF Lists
    <3>2. CASE u # t
      BY <2>1, <3>2 DEF ListsCurrent, Lists, Changes
    <3> QED
      BY <3>1, <3>2
  <2>3. ShownCurrent'
    BY <2>1 DEF ShownCurrent
  <2>4. StaleFirst'
    <3> SUFFICES ASSUME NEW i \in DOMAIN events', tasks'[events'[i].task].kind = "backup",
                        tasks'[events'[i].task].place # Current
                 PROVE  /\ ~history.loaded
                        /\ \A j \in DOMAIN events' : j < i => tasks'[events'[j].task].kind # "load"
      BY DEF StaleFirst, Stale
    <3>1. events'[i].task # t
      BY <2>1
    <3>2. i \in DOMAIN events /\ events'[i] = events[i] /\ tasks'[events'[i].task] = tasks[events[i].task]
      BY <1>1, <1>2, <3>1 DEF Changes
    <3>3. ~history.loaded /\ \A j \in DOMAIN events : j < i => tasks[events[j].task].kind # "load"
      BY <2>1, <3>2 DEF StaleFirst, Stale
    <3>4. ASSUME NEW j \in DOMAIN events', j < i PROVE tasks'[events'[j].task].kind # "load"
      <4>1. j \in DOMAIN events /\ events'[j] = events[j]
        <5>1. i \in Nat /\ j \in Nat
          BY SaysIs
        <5> QED
          BY <1>1, <3>2, <3>4, <5>1
      <4>2. CASE events[j].task = t
        BY <4>1, <4>2
      <4>3. CASE events[j].task # t
        BY <1>2, <3>3, <3>4, <4>1, <4>3 DEF Changes
      <4> QED
        BY <4>2, <4>3
    <3> QED
      BY <3>3, <3>4
  <2> QED
    BY <2>2, <2>3, <2>4
<1> QED
  BY <1>3, <1>4 DEF Shown, Watched

LEMMA ShownSelects ==
  ASSUME Base, Added, Shown, NEW t \in Tasks, NEW i \in DOMAIN window.sidebar, Select_repo(t, i)
  PROVE  Shown'
<1>1. /\ Changes(t) /\ UNCHANGED events /\ window'.active = i /\ window'.sidebar = window.sidebar
      /\ history'.alone = (\A u \in Tasks : ~Lists(u)) /\ history'.loaded = FALSE
      /\ history'.upset = history.upset
  BY SelectShape DEF Base, DashTypeOK, StoresTyped
<1>2. \A j \in DOMAIN events : events[j].task \in Tasks
  BY EventIs DEF Base, DashTypeOK, EventsTyped
<1>3. \A j \in DOMAIN events : tasks'[events[j].task] = tasks[events[j].task]
  <2>1. CASE UNCHANGED tasks
    BY <2>1
  <2>2. CASE tasks[t].kind = "unused"
    BY <1>1, <1>2, <2>2, NoneOf DEF Changes, Active
  <2> QED
    BY <2>1, <2>2, SelectShape
<1>4. ReadsOwn'
  BY <1>1, <1>3 DEF Shown, ReadsOwn
<1>5. ASSUME Watched' PROVE ListsCurrent' /\ StaleFirst' /\ ShownCurrent'
  <2>1. Calm("adds") /\ \A u \in Tasks : ~Lists(u)
    BY <1>1, <1>5 DEF Watched, Calm
  <2>2. Current' = window.sidebar[i].place
    BY <1>1 DEF Current
  <2>3. ListsCurrent'
    <3>1. CASE UNCHANGED tasks
      BY <2>1, <3>1 DEF ListsCurrent, Lists
    <3>2. CASE i \in DOMAIN window.bookmarks /\ tasks'[t] = Load(window.bookmarks[i].place)
      <4>1. tasks'[t].place = window.sidebar[i].place
        BY <2>1, <3>2, SameSelected, Bookmarked, LoadFits
      <4>2. \A u \in Tasks \ {t} : ~Lists(u)'
        BY <1>1, <2>1 DEF Lists, Changes
      <4> QED
        BY <2>2, <4>1, <4>2 DEF ListsCurrent
    <3> QED
      BY <3>1, <3>2, SelectShape
  <2>4. StaleFirst'
    <3>1. \A j \in DOMAIN events : tasks[events[j].task].kind # "load"
      <4> SUFFICES ASSUME NEW j \in DOMAIN events, tasks[events[j].task].kind = "load" PROVE FALSE
        OBVIOUS
      <4>1. tasks[events[j].task].pc = "sent"
        BY DEF Base, Posted, Queued
      <4> QED
        BY <1>2, <2>1, <4>1 DEF Lists
    <3> QED
      BY <1>1, <1>3, <3>1 DEF StaleFirst
  <2>5. ShownCurrent'
    BY <1>1 DEF ShownCurrent
  <2> QED
    BY <2>3, <2>4, <2>5
<1> QED
  BY <1>4, <1>5 DEF Shown, Watched

LEMMA ShownHears ==
  ASSUME Base, Shown, Closure
  PROVE  Shown'
<1> PICK t : t = Head(events).task
  OBVIOUS
<1> PICK r : r = Head(events).result
  OBVIOUS
<1>1. /\ t \in Tasks /\ r \in Results /\ events # << >> /\ events' = Tail(events) /\ events \in Seq(Event)
      /\ tasks[t] \in Task /\ Fits(tasks[t])
      /\ ~Queued(tasks[t]) => tasks[t].pc = "sent"
      /\ \/ tasks[t].kind = "wizard" /\ Push_repository(t)
         \/ tasks[t].kind = "load" /\ Loaded(t, r)
         \/ tasks[t].kind = "save" /\ Said(t)
         \/ tasks[t].kind = "backup" /\ Backup_told(t, r)
  BY ClosureIs
<1>2. /\ 1 \in DOMAIN events /\ events[1].task = t /\ events[1].result = r
      /\ \A i \in DOMAIN events' : i + 1 \in DOMAIN events /\ events'[i] = events[i + 1] /\ i \in Nat \ {0}
  BY <1>1, TailIs
<1>3. \A i \in DOMAIN events : events[i].task \in Tasks
  BY <1>1, EventIs
<1>4. tasks \in [Tasks -> Task] /\ window.active \in DOMAIN window.sidebar
  BY DEF Base, DashTypeOK, TasksTyped, StoresTyped
\* What every closure leaves alone.
<1>5. ASSUME NEW task, tasks' = [tasks EXCEPT ![t] = task], task.kind # "load",
             task.kind = "backup" => tasks[t].kind = "backup" /\ task.place = tasks[t].place,
             Current' = Current
      PROVE  /\ ReadsOwn'
             /\ ListsCurrent /\ (Lists(t)' => task.place = Current) => ListsCurrent'
             /\ StaleFirst => \A i \in DOMAIN events' : Stale(events[i])' =>
                  /\ ~history.loaded /\ tasks[t].kind # "load"
                  /\ \A j \in DOMAIN events' : j < i => tasks'[events'[j].task].kind # "load"
  <2>1. tasks'[t] = task /\ \A u \in Tasks \ {t} : tasks'[u] = tasks[u]
    BY <1>1, <1>4, <1>5
  <2>2. ASSUME NEW i \in DOMAIN events', tasks'[events'[i].task].kind = "load"
        PROVE  tasks'[events'[i].task] = tasks[events[i + 1].task]
    BY <1>2, <1>3, <1>5, <2>1, <2>2
  <2>3. ReadsOwn'
    <3> SUFFICES ASSUME NEW i \in DOMAIN events', tasks'[events'[i].task].kind = "load", events'[i].result = "ok"
                 PROVE  \A s \in tasks'[events'[i].task].read : s.place = tasks'[events'[i].task].place
      BY DEF ReadsOwn
    <3>1. i + 1 \in DOMAIN events /\ events[i + 1].result = "ok" /\ tasks'[events'[i].task] = tasks[events[i + 1].task]
      BY <1>2, <2>2
    <3> QED
      BY <3>1 DEF Shown, ReadsOwn
  <2>4. ListsCurrent /\ (Lists(t)' => task.place = Current) => ListsCurrent'
    <3> SUFFICES ASSUME ListsCurrent, Lists(t)' => task.place = Current, NEW u \in Tasks, Lists(u)'
                 PROVE  tasks'[u].place = Current
      BY <1>5 DEF ListsCurrent
    <3>1. CASE u = t
      BY <2>1, <3>1
    <3>2. CASE u # t
      BY <2>1, <3>2 DEF ListsCurrent, Lists
    <3> QED
      BY <3>1, <3>2
  <2>5. ASSUME StaleFirst, NEW i \in DOMAIN events', Stale(events[i])'
        PROVE  /\ ~history.loaded /\ tasks[t].kind # "load"
               /\ \A j \in DOMAIN events' : j < i => tasks'[events'[j].task].kind # "load"
    <3>1. i + 1 \in DOMAIN events /\ events'[i] = events[i + 1] /\ i \in Nat \ {0} /\ 1 < i + 1
      BY <1>2
    <3>2. tasks[events[i + 1].task].kind = "backup" /\ tasks[events[i + 1].task].place # Current
      BY <1>3, <1>5, <2>1, <2>5, <3>1 DEF Stale
    <3>3. ~history.loaded /\ \A j \in DOMAIN events : j < i + 1 => tasks[events[j].task].kind # "load"
      BY <2>5, <3>1, <3>2 DEF StaleFirst, Stale
    <3>4. ASSUME NEW j \in DOMAIN events', j < i PROVE tasks'[events'[j].task].kind # "load"
      <4>1. j + 1 \in DOMAIN events /\ j + 1 < i + 1
        BY <1>2, <3>1, <3>4
      <4> QED
        BY <2>2, <3>3, <4>1
    <3> QED
      BY <1>2, <3>1, <3>3, <3>4
  <2> QED
    BY <2>3, <2>4, <2>5
<1>6. window'.sidebar[window'.active] = window.sidebar[window.active]
  <2>1. CASE tasks[t].kind = "wizard" /\ Push_repository(t)
    <3>1. [name |-> tasks[t].name, place |-> tasks[t].place] \in Known
      BY <1>1, <2>1 DEF Fits, Active, Known
    <3>2. window.sidebar \in Seq(Known)
      BY DEF Base, DashTypeOK, StoresTyped
    <3>3. /\ window'.sidebar = Append(window.sidebar, [name |-> tasks[t].name, place |-> tasks[t].place])
          /\ window'.active = window.active
      BY <2>1 DEF Push_repository, Made, Base, DashTypeOK, StoresTyped
    <3> QED
      BY <1>4, <3>1, <3>2, <3>3, AppendedIs
  <2>2. CASE tasks[t].kind # "wizard"
    BY <1>1, <2>2 DEF Loaded, Said, Backup_told, Base, DashTypeOK, StoresTyped
  <2> QED
    BY <1>1, <2>1, <2>2
<1>7. Current' = Current
  BY <1>6 DEF Current
<1>8. CASE tasks[t].kind = "wizard" /\ Push_repository(t)
  <2> PICK task : task = [tasks[t] EXCEPT !.pc = "insert"]
    OBVIOUS
  <2>1. task.kind = "wizard" /\ tasks' = [tasks EXCEPT ![t] = task] /\ tasks'[t] = task
    BY <1>1, <1>4, <1>8 DEF Push_repository, Made, Goto, Task
  <2>2. /\ window'.shown = window.shown /\ history'.alone = history.alone /\ history'.loaded = history.loaded
        /\ Calm("adds")' => Calm("adds")
    BY <1>8 DEF Push_repository, Made, Note, Calm, Base, DashTypeOK, StoresTyped
  <2>3. ~Lists(t)'
    BY <2>1 DEF Lists
  <2> QED
    BY <1>5, <1>7, <2>1, <2>2, <2>3 DEF Shown, StaleFirst, ShownCurrent
<1>9. CASE tasks[t].kind = "save" /\ Said(t)
  <2>1. Ended.kind = "ended" /\ tasks' = [tasks EXCEPT ![t] = Ended] /\ tasks'[t] = Ended
    BY <1>1, <1>4, <1>9, BlanksFit DEF Said, End
  <2>2. /\ window'.shown = window.shown /\ history'.alone = history.alone /\ history'.loaded = history.loaded
        /\ Calm("adds")' => Calm("adds")
    BY <1>9 DEF Said, Calm, Base, DashTypeOK, StoresTyped
  <2>3. ~Lists(t)'
    BY <2>1 DEF Lists
  <2> QED
    BY <1>5, <1>7, <2>1, <2>2, <2>3 DEF Shown, StaleFirst, ShownCurrent
<1>10. CASE tasks[t].kind = "load" /\ Loaded(t, r)
  <2>1. Unused.kind = "unused" /\ tasks' = [tasks EXCEPT ![t] = Unused] /\ tasks'[t] = Unused
    BY <1>1, <1>4, <1>10, BlanksFit DEF Loaded
  <2>2. /\ window'.shown = IF r = "ok" THEN tasks[t].read ELSE window.shown
        /\ history'.alone = history.alone /\ history'.loaded = (r = "ok")
        /\ Calm("adds")' => Calm("adds")
    BY <1>10 DEF Loaded, Calm, Base, DashTypeOK, StoresTyped
  <2>3. ~Lists(t)' /\ Lists(t)
    BY <1>1, <1>10, <2>1 DEF Lists, Queued
  <2>4. r = "ok" => \A s \in tasks[t].read : s.place = tasks[t].place
    BY <1>2, <1>10 DEF Shown, ReadsOwn
  <2>5. ReadsOwn' /\ (ListsCurrent => ListsCurrent')
    BY <1>5, <1>7, <2>1, <2>3
  <2>6. StaleFirst => \A i \in DOMAIN events' : ~Stale(events[i])'
    BY <1>5, <1>7, <1>10, <2>1
  <2>7. ListsCurrent => ShownCurrent'
    BY <1>1, <1>7, <2>2, <2>3, <2>4 DEF ListsCurrent, ShownCurrent
  <2> QED
    BY <2>2, <2>5, <2>6, <2>7 DEF Shown, StaleFirst
<1>11. CASE tasks[t].kind = "backup" /\ Backup_told(t, r)
  <2> PICK pc \in {"lock", "create", "sent", "retry", "over"}, queued \in BOOLEAN, exit \in BOOLEAN,
           told \in SUBSET Results :
             /\ Told(t, r, pc, queued, exit, told)
             /\ tasks' = [tasks EXCEPT ![t] = Heard(t, pc, queued, exit, told)]
    BY <1>1, <1>11, ToldIs
  <2> PICK task : task = Heard(t, pc, queued, exit, told)
    OBVIOUS
  <2>1. /\ task.kind = "backup" /\ task.pc = pc /\ task.place = tasks[t].place
        /\ tasks' = [tasks EXCEPT ![t] = task] /\ tasks'[t] = task
    BY <1>1, <1>4, <1>11, HeardFits
  <2> PICK entry : entry = [place |-> tasks[t].place, name |-> tasks[t].name]
    OBVIOUS
  <2>2. /\ entry.place = tasks[t].place
        /\ window'.shown = IF r = "ok" THEN window.shown \cup {entry} ELSE window.shown
        /\ UNCHANGED history
    BY <1>11 DEF Backup_told, Base, DashTypeOK, StoresTyped
  <2>3. Lists(t)' => Lists(t)
    BY <1>1, <1>11, <2>1 DEF Lists, Told, Queued
  <2>4. ReadsOwn' /\ (ListsCurrent => ListsCurrent')
    BY <1>1, <1>5, <1>7, <1>11, <2>1, <2>3 DEF ListsCurrent
  <2>5. StaleFirst => StaleFirst'
    BY <1>5, <1>7, <1>11, <2>1, <2>2 DEF StaleFirst
  <2>6. StaleFirst /\ ShownCurrent => ShownCurrent'
    <3>1. StaleFirst /\ history.loaded => tasks[t].place = Current
      BY <1>2, <1>11 DEF StaleFirst, Stale
    <3> QED
      BY <1>7, <2>2, <3>1 DEF ShownCurrent
  <2> QED
    BY <2>2, <2>4, <2>5, <2>6 DEF Shown, Calm
<1> QED
  BY <1>1, <1>8, <1>9, <1>10, <1>11

LEMMA ShownBackupSteps ==
  ASSUME Base, Shown, NEW t \in Tasks, BackupStep(t)
  PROVE  Shown'
<1>1. /\ tasks[t].kind = "backup" /\ Says(t) /\ UNCHANGED <<window, history>>
      /\ tasks[t].pc \in {"lock", "create", "retry"}
  BY BackupStepShape DEF Trying
<1>2. \E task \in Task : task.kind = "backup" /\ task.place = tasks[t].place /\ tasks' = [tasks EXCEPT ![t] = task]
  BY BackupStepShape, TriedFits
<1>3. Changes(t) /\ tasks'[t].kind = "backup" /\ tasks'[t].place = tasks[t].place
  BY <1>2 DEF Changes, Base, DashTypeOK, TasksTyped
<1>4. Watched => tasks[t].place = Current
  BY <1>1 DEF Watched, Shown, ListsCurrent, Lists
<1> QED
  BY <1>1, <1>3, <1>4, ShownKept DEF Current, Calm

LEMMA ShownLoads ==
  ASSUME Base, Shown, NEW t \in Tasks, LoadArchives(t)
  PROVE  Shown'
<1>1. /\ Changes(t) /\ Says(t) /\ UNCHANGED <<window, history>>
      /\ tasks[t].kind = "load" /\ tasks[t].pc = "load"
      /\ tasks'[t].kind = "load" /\ tasks'[t].place = tasks[t].place
      /\ \/ tasks'[t].read = Entries(tasks[t].place) /\ Post(t, "ok")
         \/ Post(t, "failed")
  BY LoadShape
<1>2. Watched => tasks[t].place = Current
  BY <1>1 DEF Watched, Shown, ListsCurrent, Lists
<1>3. \A i \in DOMAIN events : events[i].task # t
  BY <1>1, NoneOf DEF Queued
<1>4. ASSUME NEW i \in DOMAIN events', events'[i].task = t, events'[i].result = "ok"
      PROVE  \A s \in tasks'[t].read : s.place = tasks'[t].place
  <2>1. i \notin DOMAIN events
    BY <1>1, <1>3, <1>4, SaysIs
  <2>2. ~Post(t, "failed")
    <3> SUFFICES ASSUME Post(t, "failed") PROVE FALSE
      OBVIOUS
    <3>1. events \in Seq(Event) /\ [task |-> t, result |-> "failed"] \in Event
      BY DEF Base, DashTypeOK, EventsTyped, Event, Results
    <3> QED
      BY <1>4, <2>1, <3>1, AppendedIs DEF Post
  <2>3. tasks'[t].read = Entries(tasks[t].place)
    BY <1>1, <2>2
  <2> QED
    BY <1>1, <2>3 DEF Entries
<1> QED
  BY <1>1, <1>2, <1>3, <1>4, ShownKept DEF Current, Calm

LEMMA ShownStep ==
  ASSUME Base, Added, Shown, [Next]_vars
  PROVE  Shown'
<1>0. ASSUME UNCHANGED <<tasks, events, window, history>> PROVE Shown'
  BY <1>0 DEF Shown, ReadsOwn, ListsCurrent, StaleFirst, ShownCurrent, Stale, Current, Lists, Calm
<1>1. CASE UNCHANGED vars
  BY <1>0, <1>1 DEF vars
<1>2. ASSUME NEW t \in Tasks, UserStep(t) PROVE Shown'
  <2>1. ASSUME NEW a \in Answers, Finish(t, a.name, a.place) PROVE Shown'
    BY <2>1, WizardShape, NotedIs, ShownKept DEF Current
  <2>2. ASSUME NEW i \in DOMAIN window.sidebar, Select_repo(t, i) PROVE Shown'
    BY <2>2, ShownSelects
  <2>3. ASSUME NEW c \in Configs, Save(t, c) PROVE Shown'
    BY <2>3, SaveShape, NotedIs, ShownKept DEF Current
  <2>4. ASSUME NEW name \in Archives, Backup(t, name) PROVE Shown'
    <3>1. /\ Changes(t) /\ UNCHANGED <<events, window, history>> /\ HasSelected
          /\ tasks'[t].kind = "backup" /\ tasks'[t].place = Selected.place
      BY <2>4, BackupShape
    <3>2. Watched => Selected.place = Current
      BY <3>1, SameSelected DEF Watched, HasSelected, Selected, Current
    <3> QED
      BY <3>1, <3>2, ShownKept DEF Current, Says, Calm
  <2> QED
    BY <1>2, <2>1, <2>2, <2>3, <2>4 DEF UserStep
<1>3. ASSUME NEW t \in Tasks, TaskStep(t) PROVE Shown'
  <2>1. CASE WizardStep(t)
    BY <2>1, WizardShape, NotedIs, ShownKept DEF Current
  <2>2. CASE LoadArchives(t)
    BY <2>2, ShownLoads
  <2>3. CASE SaveStep(t)
    BY <2>3, SaveShape, NotedIs, ShownKept DEF Current
  <2>4. CASE BackupStep(t)
    BY <2>4, ShownBackupSteps
  <2> QED
    BY <1>3, <2>1, <2>2, <2>3, <2>4 DEF TaskStep
<1>4. ASSUME NEW t \in Tasks, Crash(t) PROVE Shown'
  <2>1. DOMAIN events' = {} /\ history'.alone = FALSE
    BY <1>4, EmptySeq, LenProperties DEF Crash, Base, DashTypeOK, StoresTyped
  <2> QED
    BY <2>1 DEF Shown, ReadsOwn
<1>5. CASE Closure
  BY <1>5, ShownHears
<1>6. ASSUME NEW p \in Places, OtherLocks(p) PROVE Shown'
  BY <1>0, <1>6 DEF OtherLocks
<1> QED
  BY <1>1, <1>2, <1>3, <1>4, <1>5, <1>6 DEF Next

\* The archives shown are those of the selected repository, when nothing was under
\* way as it was selected: what is told late of one selected before does not replace
\* them, and no backup of another puts its archive among them.
THEOREM ShownAreSelectedCorrect == Spec => []ShownAreSelected
<1>1. Init => Base /\ Added /\ Shown
  <2> SUFFICES ASSUME Init PROVE Shown
    BY InitBase0, InitAdded
  <2>1. history.alone = FALSE
    BY DEF Init
  <2> QED
    BY <2>1, InitTasks DEF Shown, ReadsOwn
<1>2. Base /\ Added /\ Shown /\ [Next]_vars => Base' /\ Added' /\ Shown'
  BY BaseStep, AddedStep, ShownStep
<1>3. Shown => ShownAreSelected
  BY DEF Shown, ShownCurrent, ShownAreSelected, Calm, Current
<1> QED
  BY <1>1, <1>2, <1>3, PTL DEF Spec
===============================================================================
