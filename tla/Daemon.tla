--------------------------------- MODULE Daemon ---------------------------------
(***************************************************************************)
(* The backup daemon borgd (borg-daemon/src): its scheduler, the execution *)
(* of jobs, and the job states it keeps in the database.                   *)
(*                                                                         *)
(* run_scheduler peeks at the heap of jobs every 30 seconds and runs a job *)
(* that is due, or that will be soon, inside its own loop: while a backup  *)
(* runs, no other scheduled job does.  A run-job command on the control    *)
(* socket spawns an execution of its own, at any time and of any job.  All *)
(* share the heap, running_jobs and the job states under locks that are    *)
(* held for one access each, so that each access is a step here; but the   *)
(* lock of the job states is held while an alert is delivered, by commands *)
(* and webhooks that may take any time, and who needs it waits.  A third   *)
(* loop, the health monitor, tells of jobs that have missed runs.          *)
(*                                                                         *)
(* Time is discrete.  The schedule of job j is the multiples of Period[j]. *)
(* Calls of the database may fail; where the code goes on all the same, so *)
(* does the model.  The daemon may be killed, or stopped, and started anew *)
(* with what it saved in the database.                                     *)
(***************************************************************************)
EXTENDS Naturals, FiniteSets

CONSTANTS
  Jobs,        \* the enabled jobs: 1 .. n in the order of the configuration
  Period,      \* Period[j]: ticks between two scheduled times of job j
  Priority,    \* Priority[j]: lower goes first when times are equal
  Requests,    \* run-job commands, each given at most once
  Threshold,   \* failure_threshold of the notifications
  Gap,         \* ticks during which an alert is not repeated (5 minutes)
  MissedGap,   \* missed_threshold_minutes: ticks until a job is told of again
  Soon,        \* ticks before its time that a job is waited for (60 seconds)
  MaxTime,     \* bound: ticks
  MaxErrors,   \* bound: failing database calls
  MaxStarts    \* bound: restarts of the daemon

ASSUME JobsAssumption ==
  /\ Jobs \subseteq Nat \ {0}
  /\ Period \in [Jobs -> Nat \ {0}]
  /\ Priority \in [Jobs -> Nat]
  /\ MissedGap \in [Jobs -> Nat]
ASSUME NumbersAssumption ==
  {Threshold, Gap, Soon, MaxTime, MaxErrors, MaxStarts} \subseteq Nat
ASSUME GapAssumption == Gap # 0
ASSUME RequestsAssumption == "scheduler" \notin Requests

VARIABLES
  now,      \* the clock
  up,       \* is the daemon running, stopping or down?
  heap,     \* heap[j]: next_run and missed_runs of job j in the scheduler
  running,  \* running[n]: entries of name n in running_jobs
  exec,     \* exec[e]: what execution e is doing
  mem,      \* mem[j]: the JobState of job j in memory
  saved,    \* saved[j]: the JobState of job j in the database
  telling,  \* the overdue job the health monitor is about to tell of
  sent,     \* sent[j]: when job j was last told to be overdue (history)
  failing,  \* failing[j]: failures at the end of job j's history in the database
  errors,   \* database calls that have failed
  starts,   \* restarts
  slips     \* slips[n]: what has upset the bookkeeping of name n (history): two
            \* executions of it overlapped, one was refused before it ran, the daemon
            \* was killed before it had dealt with a result, a database call failed

clock == <<now, up, starts>>
vars == <<clock, heap, running, exec, mem, saved, telling, sent, failing, errors, slips>>

Executions == {"scheduler"} \cup Requests

\* No job: of an execution that is at none, and of a monitor that tells of none;
\* and any name that is no job's.
NoJob == 0

Names == Jobs \cup {NoJob}

Idle == [pc |-> "idle", job |-> NoJob, ok |-> FALSE, at |-> 0]

Over == [Idle EXCEPT !.pc = "over"]

\* Times are from 1 on; 0 stands for never.
NoState == [failures |-> 0, lastFailure |-> 0, failureAlert |-> 0, missedAlert |-> 0]

\* The first scheduled time after t.
Upcoming(j, t) == (t \div Period[j] + 1) * Period[j]

Scheduled(t) == [j \in Jobs |-> [next |-> Upcoming(j, t), missed |-> 0]]

Init ==
  /\ now = 1
  /\ up = "up"
  /\ heap = Scheduled(now)
  /\ running = [n \in Names |-> 0]
  /\ exec = [e \in Executions |-> Idle]
  /\ mem = [j \in Jobs |-> NoState]
  /\ saved = mem
  /\ telling = NoJob
  /\ sent = [j \in Jobs |-> 0]
  /\ failing = [j \in Jobs |-> 0]
  /\ errors = 0
  /\ starts = 0
  /\ slips = [n \in Names |-> {}]

Slip(n, what) == slips' = [slips EXCEPT ![n] = @ \cup {what}]

\* A call of the database fails, and that upsets the bookkeeping of job j.
DatabaseFails(j) ==
  /\ errors < MaxErrors
  /\ errors' = errors + 1
  /\ Slip(j, "database")

-------------------------------------------------------------------------------
(***************************************************************************)
(* execute_job                                                             *)
(***************************************************************************)

Goto(e, from, to) ==
  /\ exec[e].pc = from
  /\ exec' = [exec EXCEPT ![e].pc = to]

\* execute_job returns: to run_scheduler, or a spawned execution is over.
Leave(e, from, to) ==
  /\ exec[e].pc = from
  /\ exec' = [exec EXCEPT ![e] = IF e = "scheduler" THEN [@ EXCEPT !.pc = to] ELSE Over]

Busy(j) == {e \in Executions : exec[e].job = j /\ exec[e].pc # "wait"}

\* execute_job begins: the job is entered in running_jobs.
Start(e, j) ==
  /\ exec' = [exec EXCEPT ![e] = [Idle EXCEPT !.pc = "started", !.job = j]]
  /\ running' = [running EXCEPT ![j] = @ + 1]
  /\ IF Busy(j) = {} THEN UNCHANGED slips ELSE Slip(j, "overlap")
  /\ UNCHANGED <<clock, heap, mem, saved, failing, errors, telling, sent>>

\* An error of list_repos, with which the password is looked up, leaves
\* execute_job at once; that there is no password does not.
Refuse(e) ==
  /\ Leave(e, "started", "refused")
  /\ errors < MaxErrors
  /\ errors' = errors + 1
  /\ Slip(exec[e].job, "refused")
  /\ UNCHANGED <<clock, heap, running, mem, saved, failing, telling, sent>>

\* Faulty: running_jobs is cleaned up by run-job only.
RunBackupLeaky(e) ==
  /\ exec[e].pc = "started"
  /\ \E ok \in BOOLEAN :
       exec' = [exec EXCEPT ![e].pc = "ran", ![e].ok = ok]
  /\ running' = [running EXCEPT ![exec[e].job] = IF e = "scheduler" THEN @ ELSE 0]
  /\ UNCHANGED <<clock, heap, mem, saved, failing, errors, slips, telling, sent>>

\* run_backup_job is over, and every entry of that name leaves running_jobs.
RunBackup(e) ==
  /\ exec[e].pc = "started"
  /\ \E ok \in BOOLEAN :
       exec' = [exec EXCEPT ![e].pc = "ran", ![e].ok = ok]
  /\ running' = [running EXCEPT ![exec[e].job] = 0]
  /\ UNCHANGED <<clock, heap, mem, saved, failing, errors, slips, telling, sent>>

\* record_job_execution adds a row to the history; an error is ignored.
Record(e) ==
  LET j == exec[e].job IN
  /\ Goto(e, "ran", "recorded")
  /\ \/ /\ failing' = [failing EXCEPT ![j] = IF exec[e].ok THEN 0 ELSE @ + 1]
        /\ UNCHANGED <<errors, slips>>
     \/ /\ DatabaseFails(j)
        /\ UNCHANGED failing
  /\ UNCHANGED <<clock, heap, running, mem, saved, telling, sent>>

\* persist_job_state, with the state as it is in memory; an error is ignored.
Persist(j) ==
  \/ /\ saved' = [saved EXCEPT ![j] = mem'[j]]
     /\ UNCHANGED <<errors, slips>>
  \/ /\ DatabaseFails(j)
     /\ UNCHANGED saved

\* record_success and record_failure.
Result(state, ok) ==
  IF ok
    THEN [state EXCEPT !.failures = 0, !.lastFailure = 0]
    ELSE [state EXCEPT !.failures = @ + 1, !.lastFailure = now]

\* Faulty: a success does not clear the failures.
UpdateStateOnFailure(e) ==
  LET j == exec[e].job IN
  /\ Goto(e, "recorded", "updated")
  /\ mem' = [mem EXCEPT ![j] = IF exec[e].ok THEN @ ELSE Result(@, FALSE)]
  /\ Persist(j)
  /\ UNCHANGED <<clock, heap, running, failing, telling, sent>>

\* The lock of the job states is held by an execution that delivers an alert.
Locked == \E e \in Executions : exec[e].pc = "alerting"

\* update_job_state_success and update_job_state_failure, both under the lock.
UpdateState(e) ==
  LET j == exec[e].job IN
  /\ ~Locked
  /\ Goto(e, "recorded", "updated")
  /\ mem' = [mem EXCEPT ![j] = Result(@, exec[e].ok)]
  /\ Persist(j)
  /\ UNCHANGED <<clock, heap, running, failing, telling, sent>>

Recently(t) == t # 0 /\ now < t + Gap

\* Faulty: the alert is due only when the threshold is passed.
AlertFailureBeyond(e) ==
  LET j == exec[e].job IN
  /\ exec[e].pc = "updated"
  /\ ~Locked
  /\ IF exec[e].ok \/ mem[j].failures <= Threshold \/ Recently(mem[j].failureAlert)
       THEN /\ Goto(e, "updated", "alerted")
            /\ UNCHANGED <<mem, saved, errors, slips>>
       ELSE /\ Goto(e, "updated", "alerting")
            /\ mem' = [mem EXCEPT ![j].failureAlert = now]
            /\ Persist(j)
  /\ UNCHANGED <<clock, heap, running, failing, telling, sent>>

\* send_failure_threshold_notification: after Threshold failures in a row there
\* is an alert, unless there was one recently.  A success, and a job without a
\* threshold, has no use for the lock; who is to alert keeps it.
AlertFailure(e) ==
  LET j == exec[e].job
      none == exec[e].ok \/ Threshold = 0
  IN
  /\ exec[e].pc = "updated"
  /\ none \/ ~Locked
  /\ IF none \/ mem[j].failures < Threshold \/ Recently(mem[j].failureAlert)
       THEN /\ Goto(e, "updated", "alerted")
            /\ UNCHANGED <<mem, saved, errors, slips>>
       ELSE /\ Goto(e, "updated", "alerting")
            /\ mem' = [mem EXCEPT ![j].failureAlert = now]
            /\ Persist(j)
  /\ UNCHANGED <<clock, heap, running, failing, telling, sent>>

\* The alert is delivered, or given up after its retries; then the lock is free.
Deliver(e) ==
  /\ Goto(e, "alerting", "alerted")
  /\ UNCHANGED <<clock, heap, running, mem, saved, failing, errors, slips, telling, sent>>

\* job_completed: the next time is the first one after now.
Reschedule(j) ==
  heap' = [heap EXCEPT ![j] = [next |-> Upcoming(j, now), missed |-> 0]]

\* mark_job_completed, after a success and after a failure, ends execute_job.
Complete(e) ==
  /\ Leave(e, "alerted", "completed")
  /\ Reschedule(exec[e].job)
  /\ UNCHANGED <<clock, running, mem, saved, failing, errors, slips, telling, sent>>

-------------------------------------------------------------------------------
(***************************************************************************)
(* run_scheduler                                                           *)
(***************************************************************************)

\* Faulty: the priority is compared before the time.
Next_jobByPriority ==
  {j \in Jobs : \A k \in Jobs :
     \/ Priority[j] < Priority[k]
     \/ Priority[j] = Priority[k] /\ heap[j].next <= heap[k].next}

\* The top of the heap; of equals, any.
Next_job ==
  {j \in Jobs : \A k \in Jobs :
     \/ heap[j].next < heap[k].next
     \/ heap[j].next = heap[k].next /\ Priority[j] <= Priority[k]}

\* A tick of the loop: the first job is due.
Due ==
  /\ up = "up"
  /\ exec["scheduler"].pc = "idle"
  /\ \E j \in Next_job : heap[j].next <= now /\ Start("scheduler", j)

\* A tick of the loop: the first job will be due soon and is waited for.
Await ==
  /\ up = "up"
  /\ exec["scheduler"].pc = "idle"
  /\ \E j \in Next_job :
       /\ heap[j].next > now
       /\ heap[j].next <= now + Soon
       /\ exec' = [exec EXCEPT !["scheduler"] =
                     [Idle EXCEPT !.pc = "wait", !.job = j, !.at = heap[j].next]]
  /\ UNCHANGED <<clock, heap, running, mem, saved, failing, errors, slips, telling, sent>>

\* Its time has come; what happened to its entry meanwhile is not looked at.
WaitOver ==
  /\ exec["scheduler"].pc = "wait"
  /\ up = "up"
  /\ exec["scheduler"].at <= now
  /\ Start("scheduler", exec["scheduler"].job)

\* job_failed: missed_runs is one more.  The next time is computed and dropped,
\* the entry goes back into the heap with the one it had.
Job_failed(j) == heap' = [heap EXCEPT ![j].missed = @ + 1]

\* execute_job returns to the loop, with its result or with an early error.
Return ==
  LET j == exec["scheduler"].job IN
  /\ exec["scheduler"].pc \in {"completed", "refused"}
  /\ exec' = [exec EXCEPT !["scheduler"] = Idle]
  /\ IF exec["scheduler"].ok THEN Reschedule(j) ELSE Job_failed(j)
  /\ UNCHANGED <<clock, running, mem, saved, failing, errors, slips, telling, sent>>

-------------------------------------------------------------------------------
(***************************************************************************)
(* The control socket and the process                                      *)
(***************************************************************************)

\* run-job: nothing asks whether the job is running already.  The connection
\* may have been accepted before a stop.
RunJob(e, j) ==
  /\ up # "down"
  /\ e \in Requests
  /\ exec[e].pc = "idle"
  /\ Start(e, j)

\* run-job with a name that is no job's: the name is entered in running_jobs, the
\* job is not found, and nothing takes the name out again.
RunUnknown(e) ==
  /\ up # "down"
  /\ e \in Requests
  /\ exec[e].pc = "idle"
  /\ exec' = [exec EXCEPT ![e] = Over]
  /\ running' = [running EXCEPT ![NoJob] = @ + 1]
  /\ Slip(NoJob, "refused")
  /\ UNCHANGED <<clock, heap, mem, saved, failing, errors, telling, sent>>

Tick ==
  /\ now < MaxTime
  /\ now' = now + 1
  /\ UNCHANGED <<up, starts, heap, running, exec, mem, saved, telling, sent, failing, errors, slips>>

\* The stop command or a signal: every loop is told.
Stop ==
  /\ up = "up"
  /\ up' = "stopping"
  /\ UNCHANGED <<now, starts, heap, running, exec, mem, saved, failing, errors, slips, telling, sent>>

\* The process is gone, with what it had in memory.  Executions that have a result
\* they had not dealt with lose it.
GoDown ==
  /\ up' = "down"
  /\ mem' = [j \in Jobs |-> NoState]
  /\ heap' = Scheduled(0)
  /\ running' = [n \in Names |-> 0]
  /\ telling' = NoJob
  /\ exec' = [e \in Executions |->
       IF exec[e] = Idle \/ e = "scheduler" THEN Idle ELSE Over]
  /\ slips' = [n \in Names |-> (slips[n] \ {"refused"}) \cup
       (IF n \in Jobs /\ \E e \in Busy(n) : exec[e].pc \in {"ran", "recorded", "updated"}
          THEN {"killed"} ELSE {})]
  /\ UNCHANGED <<now, starts, saved, sent, failing, errors>>

\* main returns once the scheduler has left its loop, which it does between two
\* jobs, or after 30 seconds.  Spawned executions are not waited for.
Exit == up = "stopping" /\ GoDown

Kill == up # "down" /\ GoDown

\* The daemon starts: the heap is made anew from now, and the job states are
\* loaded.  One that cannot be loaded starts from nothing.
Restart ==
  /\ up = "down"
  /\ up' = "up"
  /\ starts < MaxStarts
  /\ starts' = starts + 1
  /\ heap' = Scheduled(now)
  /\ running' = [n \in Names |-> 0]
  /\ \/ /\ mem' = saved
        /\ UNCHANGED <<errors, slips>>
     \/ \E j \in Jobs :
          /\ mem' = [saved EXCEPT ![j] = NoState]
          /\ DatabaseFails(j)
  /\ UNCHANGED <<now, exec, saved, telling, sent, failing>>

-------------------------------------------------------------------------------
(***************************************************************************)
(* The health monitor                                                      *)
(***************************************************************************)

Overdue == {j \in Jobs : heap[j].missed > 0}

\* Faulty: the alert is not written to the database.
Send_unsaved(j) ==
  IF mem[j].missedAlert # 0 /\ now < mem[j].missedAlert + MissedGap[j]
    THEN UNCHANGED <<mem, saved, sent, errors, slips>>
    ELSE /\ mem' = [mem EXCEPT ![j].missedAlert = now]
         /\ sent' = [sent EXCEPT ![j] = now]
         /\ UNCHANGED <<saved, errors, slips>>

\* A job is told of, unless that was done a short while ago.
Send_missed_notification(j) ==
  IF mem[j].missedAlert # 0 /\ now < mem[j].missedAlert + MissedGap[j]
    THEN UNCHANGED <<mem, saved, sent, errors, slips>>
    ELSE /\ mem' = [mem EXCEPT ![j].missedAlert = now]
         /\ sent' = [sent EXCEPT ![j] = now]
         /\ Persist(j)

\* The first overdue job of the configuration is dealt with, and no other; one
\* without missed_threshold_minutes is not told of.
Check_overdue_jobs(j) ==
  /\ up = "up"
  /\ telling = NoJob
  /\ j \in Overdue
  /\ \A k \in Overdue : j <= k
  /\ MissedGap[j] # 0
  /\ telling' = j
  /\ UNCHANGED <<clock, heap, running, exec, mem, saved, sent, failing, errors, slips>>

\* The lock is free, and the job is told of, though it may have run meanwhile.
Tell(j) ==
  /\ up # "down"
  /\ telling = j
  /\ ~Locked
  /\ telling' = NoJob
  /\ Send_missed_notification(j)
  /\ UNCHANGED <<clock, heap, running, exec, failing>>

MonitorStep == \E j \in Jobs : Check_overdue_jobs(j) \/ Tell(j)

ExecuteJob(e) ==
  \/ Refuse(e) \/ RunBackup(e)
  \/ Record(e) \/ UpdateState(e) \/ AlertFailure(e) \/ Deliver(e) \/ Complete(e)

SchedulerStep == Due \/ Await \/ WaitOver \/ Return \/ ExecuteJob("scheduler")

RequestStep(e) == (\E j \in Jobs : RunJob(e, j)) \/ RunUnknown(e) \/ ExecuteJob(e)

ProcessStep == Stop \/ Exit \/ Kill \/ Restart

Next ==
  \/ SchedulerStep
  \/ \E e \in Requests : RequestStep(e)
  \/ MonitorStep
  \/ ProcessStep
  \/ Tick

Spec == Init /\ [][Next]_vars

DeliveryEnds == \E e \in Requests : Deliver(e)

\* Time passes, the loop goes on, and a backup it has begun ends; so does every
\* delivery of an alert, be it the loop's or that of a run-job command.
FairSpec ==
  Spec /\ WF_vars(Tick) /\ WF_vars(SchedulerStep) /\ WF_vars(DeliveryEnds)

-------------------------------------------------------------------------------
(***************************************************************************)
(* Properties                                                              *)
(***************************************************************************)

\* What borgd status says is true: a name that is being executed is in running_jobs
\* as often as it is, unless executions of it have overlapped (the first to end takes
\* out the entries of all); and no name is in it more often than it is executed,
\* overlapping or not, unless one was refused, or was no job's (its entry stays).
StatusTruthful ==
  \A n \in Names :
    LET executed == Cardinality({e \in Executions : exec[e].job = n /\ exec[e].pc = "started"})
    IN  /\ up # "down" /\ "overlap" \notin slips[n] => running[n] >= executed
        /\ "refused" \notin slips[n] => running[n] <= executed

\* The consecutive failures of the job state are those at the end of the history
\* when no result is being dealt with, across restarts too: unless executions
\* overlapped, one died with a result, or a database call failed.
FailuresMatchHistory ==
  \A j \in Jobs :
    /\ up # "down"
    /\ slips[j] \subseteq {"refused"}
    /\ \A e \in Busy(j) : exec[e].pc # "recorded"
    => mem[j].failures = failing[j]

\* A streak of failures that has reached the threshold has been alerted no
\* longer than Gap before its last failure, whatever restarts came between,
\* though overlapping executions race for the alert.
StreakAlerted ==
  \A j \in Jobs :
    /\ up # "down"
    /\ slips[j] \subseteq {"refused", "overlap"}
    /\ Threshold > 0 /\ mem[j].failures >= Threshold
    /\ \A e \in Busy(j) : exec[e].pc # "updated"
    => mem[j].failureAlert # 0 /\ mem[j].lastFailure < mem[j].failureAlert + Gap

\* A daemon that stays up leaves no job due for ever, however the other jobs are
\* scheduled and fail, and whoever holds the lock of the job states: a job that is due
\* is run, by the scheduler or on request, before long.
DueRuns == \A j \in Jobs : []<>~(up = "up" /\ heap[j].next <= now)

\* An overdue job is not told of twice within MissedGap, whatever restarts came
\* between and whoever else saved the state of the job, unless the database failed.
AlertsSpaced ==
  [][\A j \in Jobs :
       sent'[j] # sent[j] /\ sent[j] # 0 /\ "database" \notin slips[j]
         => now >= sent[j] + MissedGap[j]]_vars

===============================================================================
