----------------------------- MODULE ScheduledTasks -----------------------------
(***************************************************************************)
(* The scheduled backups of the GUI, as the user edits them: the table in  *)
(* the database, the list of it in BorgAppState, the list in the window,   *)
(* and the tasks the scheduler of borg-core holds and has loops for.       *)
(*                                                                         *)
(* Save, delete and switch of a task spawn a handler each, which writes to *)
(* the database, lists it anew, stores the list and asks the scheduler to  *)
(* reload.  Handlers run side by side; a step of one is what it does       *)
(* between two awaits.  The scheduler polls the request and takes its      *)
(* tasks from the list.                                                    *)
(*                                                                         *)
(* Of a task's fields there are its name, its plan and whether it is       *)
(* active.  When a task runs, and what becomes of the run, is left out:    *)
(* a loop stands for the task whose times it keeps.                        *)
(***************************************************************************)
EXTENDS Naturals, FiniteSets, Sequences, SequencesExt

CONSTANTS
  Names,      \* names the form can give a task
  NewName,    \* the name new_task fills in
  Plans,      \* plans the form can give a task
  Manual,     \* the plan of tasks the scheduler leaves alone
  NewPlan,    \* the plan new_task fills in
  FirstRows,  \* the tables the first start may find
  MaxOps,     \* bound: handlers
  MaxListed,  \* bound: rows in the window before new_task
  MaxErrors,  \* bound: failing database calls
  MaxStarts   \* bound: starts of the GUI

AllNames == Names \cup {NewName}
Row == [name : AllNames, plan : Plans, active : BOOLEAN]

ASSUME PlansAssumption == NewPlan \in Plans
ASSUME NumbersAssumption == {MaxOps, MaxListed, MaxErrors, MaxStarts} \subseteq Nat
\* A table that nothing was deleted from; lists of a table are the rows by their id.
ASSUME FirstRowsAssumption == \A rows \in FirstRows : rows \in Seq(Row)

VARIABLES
  up,       \* is the GUI running?
  starts,   \* starts so far
  db,       \* the table scheduled_tasks
  nextId,   \* its AUTOINCREMENT
  cache,    \* BorgAppState::scheduled_tasks
  ui,       \* SchedulerLogic.tasks, the list in the window
  form,     \* the form: the index it edits (0: closed) and the switch it copied
  ops,      \* ops[o]: handler o
  flag,     \* SCHEDULER_RELOAD_FLAG
  sched,    \* the scheduler: where it is, and its tasks
  loops,    \* the tasks the running cron scheduler has a loop for
  errors,   \* database calls that have failed
  upset     \* what has upset the list since the start (history)

process == <<up, starts>>
database == <<db, nextId>>
window == <<ui, form>>
scheduler == <<sched, loops>>
vars == <<process, database, cache, window, ops, flag, scheduler, errors, upset>>

Ops == 1 .. MaxOps

NoRow == [name |-> NewName, plan |-> NewPlan, active |-> FALSE]
Unused == [pc |-> "unused", kind |-> "none", id |-> 0, row |-> NoRow, list |-> << >>]
Over == [Unused EXCEPT !.pc = "over"]
Closed == [index |-> 0, active |-> FALSE]

\* The reloader: what the scheduler gets of the rows that are active and not Manual.
Scheduled(rows) ==
  [id \in {i \in DOMAIN rows : rows[i].active /\ rows[i].plan # Manual} |->
     [name |-> rows[id].name, plan |-> rows[id].plan]]

\* iter().find() by name: ids are in the order of the rows.
FirstNamed(rows, name) ==
  LET named == {id \in DOMAIN rows : rows[id].name = name}
  IN  IF named = {} THEN 0 ELSE CHOOSE id \in named : \A i \in named : id <= i

NoScheduler == [pc |-> "load", tasks |-> << >>]

Init ==
  /\ up = TRUE /\ starts = 1
  /\ db \in FirstRows
  /\ nextId = Cardinality(DOMAIN db) + 1
  /\ cache = db
  /\ ui = [i \in 1 .. nextId - 1 |-> db[i]]
  /\ form = Closed
  /\ ops = [o \in Ops |-> Unused]
  /\ flag = FALSE
  /\ sched = [NoScheduler EXCEPT !.tasks = Scheduled(db)]
  /\ loops = << >>
  /\ errors = 0
  /\ upset = {}

-------------------------------------------------------------------------------
(***************************************************************************)
(* The window                                                              *)
(***************************************************************************)

\* Index of the handler a click spawns.
Fresh(o) == ops[o].pc = "unused" /\ \A p \in 1 .. o - 1 : ops[p].pc # "unused"

Spawn(o, op) == Fresh(o) /\ ops' = [ops EXCEPT ![o] = op]

\* on_selected_task_index_changed: the form copies the row.
Edits(i, row) == form' = [index |-> i, active |-> row.active]

Select(i) ==
  /\ up
  /\ i \in DOMAIN ui
  /\ Edits(i, ui[i])
  /\ UNCHANGED <<process, database, cache, ui, ops, flag, scheduler, errors, upset>>

Cancel ==
  /\ up
  /\ form.index # 0
  /\ form' = [form EXCEPT !.index = 0]
  /\ UNCHANGED <<process, database, cache, ui, ops, flag, scheduler, errors, upset>>

New_task ==
  /\ up
  /\ Len(ui) < MaxListed
  /\ LET row == [NoRow EXCEPT !.active = TRUE]
     IN  ui' = Append(ui, row) /\ Edits(Len(ui) + 1, row)
  /\ UNCHANGED <<process, database, cache, ops, flag, scheduler, errors, upset>>

\* on_save_task takes the fields of the form; the id is None.  The handler can ask
\* for a passphrase and end, but no error has the text it looks for.
Save_task(o, name, plan) ==
  /\ up
  /\ form.index # 0
  /\ Spawn(o, [Unused EXCEPT !.pc = "write", !.kind = "save",
                 !.row = [name |-> name, plan |-> plan, active |-> form.active]])
  /\ UNCHANGED <<process, database, cache, window, flag, scheduler, errors, upset>>

Delete_task(o, i) ==
  /\ up
  /\ i \in DOMAIN ui
  /\ Spawn(o, [Unused EXCEPT !.pc = "find", !.kind = "delete", !.row = [NoRow EXCEPT !.name = ui[i].name]])
  /\ ui' = RemoveAt(ui, i)
  /\ form' = [form EXCEPT !.index = 0]
  /\ UNCHANGED <<process, database, cache, flag, scheduler, errors, upset>>

Toggle_task_active(o, i) ==
  /\ up
  /\ i \in DOMAIN ui
  /\ ui' = [ui EXCEPT ![i].active = ~@]
  /\ Spawn(o, [Unused EXCEPT !.pc = "find", !.kind = "toggle",
                 !.row = [NoRow EXCEPT !.name = ui[i].name, !.active = ~ui[i].active]])
  /\ UNCHANGED <<process, database, cache, form, flag, scheduler, errors, upset>>

-------------------------------------------------------------------------------
(***************************************************************************)
(* The handlers                                                            *)
(***************************************************************************)

\* Handler o is between what it read of the list, or wrote, and the new list.
Busy(o) ==
  \/ ops[o].pc = "write" /\ ops[o].kind # "save"
  \/ ops[o].pc \in {"list", "store"}

Enters(o) ==
  upset' = upset \cup (IF \E p \in Ops \ {o} : Busy(p) THEN {"overlap"} ELSE {})

\* The row is looked up by its name in the list; the whole row is taken.
Find(o) ==
  /\ ops[o].pc = "find"
  /\ LET id == FirstNamed(cache, ops[o].row.name)
     IN  ops' = [ops EXCEPT ![o] =
           IF id = 0 THEN Over
           ELSE [@ EXCEPT !.pc = "write", !.id = id,
                   !.row = [cache[id] EXCEPT !.active = ops[o].row.active]]]
  /\ Enters(o)
  /\ UNCHANGED <<process, database, cache, window, flag, scheduler, errors>>

\* INSERT OR REPLACE, with a new id when the task has none, or DELETE.
Write(o) ==
  /\ ops[o].pc = "write"
  /\ LET op == ops[o]
         id == IF op.kind = "save" THEN nextId ELSE op.id
     IN  /\ db' = IF op.kind = "delete"
                  THEN [i \in DOMAIN db \ {id} |-> db[i]]
                  ELSE [i \in DOMAIN db \cup {id} |-> IF i = id THEN op.row ELSE db[i]]
         /\ nextId' = IF op.kind = "save" THEN nextId + 1 ELSE nextId
         /\ ops' = [ops EXCEPT ![o] = [Unused EXCEPT !.pc = "list", !.kind = op.kind,
                      !.row = IF op.kind = "save" THEN op.row ELSE NoRow]]
  /\ Enters(o)
  /\ UNCHANGED <<process, cache, window, flag, scheduler, errors>>

List_tasks(o) ==
  /\ ops[o].pc = "list"
  /\ ops' = [ops EXCEPT ![o].pc = "store", ![o].list = db]
  /\ UNCHANGED <<process, database, cache, window, flag, scheduler, errors, upset>>

\* Faulty: a deletion does not refresh the list.
StoreSaved(o) ==
  /\ ops[o].pc = "store"
  /\ cache' = IF ops[o].kind = "delete" THEN cache ELSE ops[o].list
  /\ ops' = [ops EXCEPT ![o].pc = "reload", ![o].list = << >>]
  /\ UNCHANGED <<process, database, window, flag, scheduler, errors, upset>>

Store(o) ==
  /\ ops[o].pc = "store"
  /\ cache' = ops[o].list
  /\ ops' = [ops EXCEPT ![o].pc = "reload", ![o].list = << >>]
  /\ UNCHANGED <<process, database, window, flag, scheduler, errors, upset>>

\* A call of the database fails; the handler goes on regardless.
Database_fails(o) ==
  /\ ops[o].pc \in {"write", "list"}
  /\ errors < MaxErrors
  /\ errors' = errors + 1
  /\ upset' = upset \cup {"database"}
  /\ ops' = [ops EXCEPT ![o] = [Unused EXCEPT !.pc = "reload", !.kind = ops[o].kind,
               !.row = IF ops[o].kind = "save" THEN ops[o].row ELSE NoRow]]
  /\ UNCHANGED <<process, database, cache, window, flag, scheduler>>

\* Faulty: only a save asks the scheduler to reload.
RequestReloadOnSave(o) ==
  /\ ops[o].pc = "reload"
  /\ flag' = (flag \/ ops[o].kind = "save")
  /\ ops' = [ops EXCEPT ![o] = IF @.kind = "save" THEN [@ EXCEPT !.pc = "show"] ELSE Over]
  /\ UNCHANGED <<process, database, cache, window, scheduler, errors, upset>>

Request_reload(o) ==
  /\ ops[o].pc = "reload"
  /\ flag' = TRUE
  /\ ops' = [ops EXCEPT ![o] = IF @.kind = "save" THEN [@ EXCEPT !.pc = "show"] ELSE Over]
  /\ UNCHANGED <<process, database, cache, window, scheduler, errors, upset>>

\* The saved row replaces whichever row the form edits by now, and closes it.
Show(o) ==
  /\ ops[o].pc = "show"
  /\ ui' = IF form.index \in DOMAIN ui THEN [ui EXCEPT ![form.index] = ops[o].row] ELSE ui
  /\ form' = [form EXCEPT !.index = 0]
  /\ ops' = [ops EXCEPT ![o] = Over]
  /\ UNCHANGED <<process, database, cache, flag, scheduler, errors, upset>>

Handler(o) ==
  \/ Find(o) \/ Write(o) \/ List_tasks(o) \/ Store(o) \/ Request_reload(o) \/ Show(o)

-------------------------------------------------------------------------------
(***************************************************************************)
(* The scheduler                                                           *)
(***************************************************************************)

Goto(from, to) ==
  /\ up
  /\ sched.pc = from
  /\ sched' = [sched EXCEPT !.pc = to]

\* Drop the old cron scheduler, and with it its loops; register and start the
\* tasks.  That a missed one is run at once (check_task_immediate) is left out.
Load ==
  /\ Goto("load", "monitor")
  /\ loops' = sched.tasks
  /\ UNCHANGED <<process, database, cache, window, ops, flag, errors, upset>>

\* The flag is up: take it down, and only then look at the list.
See_flag ==
  /\ flag
  /\ Goto("monitor", "reload")
  /\ flag' = FALSE
  /\ UNCHANGED <<process, database, cache, window, ops, loops, errors, upset>>

\* Faulty: a reload adds and updates tasks, and leaves those that are gone.
ReloadNew ==
  /\ up
  /\ sched.pc = "reload"
  /\ LET new == Scheduled(cache)
     IN  sched' = [pc |-> "load",
                   tasks |-> [id \in DOMAIN new \cup DOMAIN sched.tasks |->
                                IF id \in DOMAIN new THEN new[id] ELSE sched.tasks[id]]]
  /\ UNCHANGED <<process, database, cache, window, ops, flag, loops, errors, upset>>

\* The tasks are replaced by what the list has now.
Reload ==
  /\ up
  /\ sched.pc = "reload"
  /\ sched' = [pc |-> "load", tasks |-> Scheduled(cache)]
  /\ UNCHANGED <<process, database, cache, window, ops, flag, loops, errors, upset>>

SchedulerStep == Load \/ See_flag \/ Reload

-------------------------------------------------------------------------------
(***************************************************************************)
(* The process                                                             *)
(***************************************************************************)

\* The GUI ends, in whatever it is doing.
Quit ==
  /\ up
  /\ up' = FALSE
  /\ cache' = << >> /\ ui' = << >> /\ form' = Closed
  /\ ops' = [o \in Ops |-> IF ops[o].pc = "unused" THEN Unused ELSE Over]
  /\ flag' = FALSE
  /\ sched' = NoScheduler /\ loops' = << >>
  /\ upset' = {}
  /\ UNCHANGED <<starts, database, errors>>

\* main loads the table and starts the scheduler with what it found.
Launch ==
  /\ ~up
  /\ starts < MaxStarts
  /\ up' = TRUE
  /\ starts' = starts + 1
  /\ cache' = db
  /\ ui' = [k \in 1 .. Cardinality(DOMAIN db) |->
              db[CHOOSE id \in DOMAIN db : Cardinality({i \in DOMAIN db : i <= id}) = k]]
  /\ sched' = [NoScheduler EXCEPT !.tasks = Scheduled(db)]
  /\ UNCHANGED <<database, form, ops, flag, loops, errors, upset>>

Next ==
  \/ \E i \in DOMAIN ui : Select(i)
  \/ Cancel \/ New_task
  \/ \E o \in Ops, name \in AllNames, plan \in Plans : Save_task(o, name, plan)
  \/ \E o \in Ops, i \in DOMAIN ui : Delete_task(o, i) \/ Toggle_task_active(o, i)
  \/ \E o \in Ops : Database_fails(o) \/ Handler(o)
  \/ SchedulerStep
  \/ Quit \/ Launch

\* A handler that was spawned ends, and the scheduler polls its flag.
Fairness ==
  /\ \A o \in Ops : WF_vars(Handler(o))
  /\ WF_vars(SchedulerStep)

Spec == Init /\ [][Next]_vars /\ Fairness

-------------------------------------------------------------------------------
(***************************************************************************)
(* Properties                                                              *)
(***************************************************************************)

\* What was deleted does not come back, unless a handler that had read the row
\* before overlapped with the deletion, or the list was stale from an error.
DeletedStays ==
  [][upset' = {} => \A id \in 1 .. nextId - 1 : id \notin DOMAIN db => id \notin DOMAIN db']_vars

\* There is a loop for what the table has active and for nothing else: what was
\* deleted, renamed, switched off or set to another time is run no more, once
\* the handlers are through and the scheduler has reloaded.
LoopsFollow ==
  /\ up /\ upset = {} /\ ~flag /\ sched.pc = "monitor"
  /\ \A o \in Ops : ops[o].pc \notin {"list", "store", "reload"}
  => loops = Scheduled(db)

\* When the user leaves the tasks alone, the scheduler comes to run those of the list.
SchedulerCatchesUp == <>[](up => loops = Scheduled(cache))
===============================================================================
