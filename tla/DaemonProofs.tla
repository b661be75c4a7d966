----------------------------- MODULE DaemonProofs -----------------------------
(***************************************************************************)
(* What borgd says and remembers of its jobs, for all jobs, schedules,     *)
(* requests, thresholds and gaps, across kills and restarts and with a     *)
(* database that fails.                                                    *)
(*                                                                         *)
(* None of the four properties is inductive: they speak of the moments     *)
(* when no result of the job is being dealt with, and of the memory of a   *)
(* daemon that runs.  The invariants say what holds in between, and what   *)
(* is in the database, from which a restart makes the memory: how the      *)
(* history and the saved state differ while a result is recorded in one    *)
(* and not yet in the other; and which execution still owes the alert.     *)
(***************************************************************************)
EXTENDS Daemon, FiniteSetTheorems, TLAPS

USE DEF NoJob, Names

Stages == {"idle", "wait", "started", "refused", "ran", "recorded", "updated", "alerting",
           "alerted", "completed", "over"}
Execution == [pc : Stages, job : Names, ok : BOOLEAN, at : Nat]
JobState == [failures : Nat, lastFailure : Nat, failureAlert : Nat, missedAlert : Nat]
Slips == {"overlap", "refused", "killed", "database"}

DaemonTypeOK ==
  /\ now \in Nat \ {0}
  /\ up \in {"up", "stopping", "down"}
  /\ starts \in Nat /\ errors \in Nat
  /\ heap \in [Jobs -> [next : Nat, missed : Nat]]
  /\ running \in [Names -> Nat]
  /\ exec \in [Executions -> Execution]
  /\ mem \in [Jobs -> JobState]
  /\ saved \in [Jobs -> JobState]
  /\ telling \in Names
  /\ sent \in [Jobs -> Nat]
  /\ failing \in [Jobs -> Nat]
  /\ slips \in [Names -> SUBSET Slips]

\* An execution has a job exactly while it is at one, and none while the daemon is down.
JobsOfExecutions ==
  /\ \A e \in Executions : exec[e].job = 0 <=> exec[e].pc \in {"idle", "over"}
  /\ up = "down" => \A e \in Executions : exec[e].job = 0

\* Executions of a job that have not overlapped are one at a time.
OneAtATime ==
  \A j \in Jobs : "overlap" \notin slips[j] => \A e, f \in Busy(j) : e = f

Started(n) == {e \in Executions : exec[e].job = n /\ exec[e].pc = "started"}

\* A name that has not overlapped is in running_jobs while it is executed, and one
\* that was not refused is in it no more often than it is.
RunningTrue ==
  \A n \in Names :
    /\ "overlap" \notin slips[n] /\ Started(n) # {} => running[n] # 0
    /\ IsFiniteSet(Started(n))
    /\ "refused" \notin slips[n] => running[n] <= Cardinality(Started(n))

\* Unless the database failed, a daemon that runs has saved what it has in memory.
MemorySaved ==
  \A j \in Jobs : up # "down" /\ "database" \notin slips[j] => mem[j] = saved[j]

\* The history is ahead of the saved state by the result being dealt with.
Tally ==
  \A j \in Jobs :
    slips[j] \subseteq {"refused"} =>
      /\ \A e \in Busy(j) :
           exec[e].pc = "recorded" => failing[j] = IF exec[e].ok THEN 0 ELSE saved[j].failures + 1
      /\ (\A e \in Busy(j) : exec[e].pc # "recorded") => failing[j] = saved[j].failures

\* No failure is in the future.
FailuresPast == \A j \in Jobs : mem[j].lastFailure <= now /\ saved[j].lastFailure <= now

Alerted(state) ==
  state.failures >= Threshold =>
    state.failureAlert # 0 /\ state.lastFailure < state.failureAlert + Gap

\* A streak that was saved and not alerted has an execution that failed and
\* has yet to see whether it is to alert.
Owing(j) == {e \in Busy(j) : exec[e].pc = "updated" /\ ~exec[e].ok}

AlertOwed ==
  \A j \in Jobs :
    Threshold > 0 /\ slips[j] \subseteq {"refused", "overlap"} =>
      Alerted(saved[j]) \/ Owing(j) # {}

\* The last overdue alert is on record, for as long as the database did not fail.
ToldSaved == \A j \in Jobs : "database" \notin slips[j] => saved[j].missedAlert = sent[j]

-------------------------------------------------------------------------------
(***************************************************************************)
(* Lemmas about the operators                                              *)
(***************************************************************************)

LEMMA UpcomingIsTime ==
  ASSUME NEW j \in Jobs, NEW t \in Nat
  PROVE  Upcoming(j, t) \in Nat
<1>1. Period[j] \in Nat \ {0}
  BY JobsAssumption
<1>2. t \div Period[j] \in Nat
  BY <1>1
<1>3. QED
  BY <1>1, <1>2 DEF Upcoming

LEMMA ScheduledIsHeap ==
  ASSUME NEW t \in Nat
  PROVE  Scheduled(t) \in [Jobs -> [next : Nat, missed : Nat]]
BY UpcomingIsTime DEF Scheduled

\* What a job's execution begins with, and what begins one.
Begins(e, j) == up # "down" /\ exec[e].pc \in {"idle", "wait"} /\ Start(e, j)

\* The monitor sees an overdue job, or a name that is no job's is asked for: no job's
\* records change.
Watched ==
  \/ \E j \in Jobs : Check_overdue_jobs(j)
  \/ \E e \in Requests : RunUnknown(e)

\* Every step, by what it does to executions and to the state of a job.
LEMMA DaemonCases ==
  ASSUME DaemonTypeOK, JobsOfExecutions, [Next]_vars
  PROVE  \/ \E e \in Executions, j \in Jobs : Begins(e, j)
         \/ \E e \in Executions : Refuse(e) \/ RunBackup(e) \/ Record(e) \/ UpdateState(e)
                                    \/ AlertFailure(e) \/ Deliver(e) \/ Complete(e)
         \/ \E j \in Jobs : Tell(j)
         \/ Watched \/ Await \/ Return \/ Tick \/ Stop
         \/ GoDown \/ Restart
         \/ UNCHANGED vars
<1>1. "scheduler" \in Executions /\ Requests \subseteq Executions
  BY DEF Executions
<1>2. ASSUME Due
      PROVE  \E j \in Jobs : Begins("scheduler", j)
  BY <1>2 DEF Due, Next_job, Begins
<1>3. ASSUME WaitOver
      PROVE  \E j \in Jobs : Begins("scheduler", j)
  <2>1. exec["scheduler"].job \in Jobs
    BY <1>1, <1>3 DEF WaitOver, JobsOfExecutions, DaemonTypeOK, Execution
  <2>2. QED
    BY <1>3, <2>1 DEF WaitOver, Begins
<1>4. ASSUME NEW e \in Requests, NEW j \in Jobs, RunJob(e, j)
      PROVE  Begins(e, j)
  BY <1>4 DEF RunJob, Begins
<1>5. QED
  BY <1>1, <1>2, <1>3, <1>4
     DEF Next, SchedulerStep, RequestStep, ExecuteJob, MonitorStep, ProcessStep, Exit, Kill,
         Watched

-------------------------------------------------------------------------------
(***************************************************************************)
(* Types                                                                   *)
(***************************************************************************)

LEMMA GotoTyped ==
  ASSUME exec \in [Executions -> Execution], NEW e \in Executions, NEW from, NEW to \in Stages,
         Goto(e, from, to) \/ Leave(e, from, to)
  PROVE  exec' \in [Executions -> Execution]
<1>1. [exec[e] EXCEPT !.pc = to] \in Execution /\ Over \in Execution
  BY DEF Execution, Over, Idle, Stages
<1>2. \E next \in Execution : exec' = [exec EXCEPT ![e] = next]
  BY <1>1 DEF Goto, Leave
<1>3. QED
  BY <1>2

LEMMA SlipTyped ==
  ASSUME slips \in [Names -> SUBSET Slips], NEW n \in Names, NEW what \in Slips, Slip(n, what)
  PROVE  slips' \in [Names -> SUBSET Slips]
BY DEF Slip

\* The job of an execution that is at one.
LEMMA HasJob ==
  ASSUME DaemonTypeOK, JobsOfExecutions, NEW e \in Executions, exec[e].pc \notin {"idle", "over"}
  PROVE  exec[e].job \in Jobs
BY DEF DaemonTypeOK, Execution, JobsOfExecutions

LEMMA ExecTypeStep ==
  ASSUME DaemonTypeOK, JobsOfExecutions, [Next]_vars
  PROVE  exec' \in [Executions -> Execution]
<1>0. exec \in [Executions -> Execution]
  BY DEF DaemonTypeOK
<1>1. ASSUME NEW e \in Executions, NEW j \in Jobs, Begins(e, j)
      PROVE  exec' \in [Executions -> Execution]
  <2>1. [Idle EXCEPT !.pc = "started", !.job = j] \in Execution
    BY DEF Idle, Execution, Stages
  <2>2. QED
    BY <1>0, <1>1, <2>1 DEF Begins, Start
<1>2. ASSUME NEW e \in Executions, RunBackup(e)
      PROVE  exec' \in [Executions -> Execution]
  <2>1. PICK ok \in BOOLEAN : exec' = [exec EXCEPT ![e] = [@ EXCEPT !.pc = "ran", !.ok = ok]]
    BY <1>2 DEF RunBackup
  <2>2. [exec[e] EXCEPT !.pc = "ran", !.ok = ok] \in Execution
    BY <1>0 DEF Execution, Stages
  <2>3. QED
    BY <1>0, <2>1, <2>2
<1>3. ASSUME NEW e \in Executions,
             \/ Refuse(e) \/ Record(e) \/ UpdateState(e)
             \/ AlertFailure(e) \/ Deliver(e) \/ Complete(e)
      PROVE  exec' \in [Executions -> Execution]
  <2>1. {"refused", "recorded", "updated", "alerting", "alerted", "completed"} \subseteq Stages
    BY DEF Stages
  <2>2. QED
    BY <1>0, <1>3, <2>1, GotoTyped DEF Refuse, Record, UpdateState, AlertFailure, Deliver,
       Complete
<1>4. CASE Await
  <2>1. ASSUME NEW j \in Jobs
        PROVE  [Idle EXCEPT !.pc = "wait", !.job = j, !.at = heap[j].next] \in Execution
    BY DEF Idle, Execution, Stages, DaemonTypeOK
  <2>2. QED
    BY <1>0, <1>4, <2>1 DEF Await, Next_job
<1>5. CASE Return \/ GoDown
  <2>1. Idle \in Execution /\ Over \in Execution
    BY DEF Idle, Over, Execution, Stages
  <2>2. QED
    BY <1>0, <1>5, <2>1 DEF Return, GoDown
<1>6. ASSUME \/ \E j \in Jobs : Tell(j) \/ Check_overdue_jobs(j)
             \/ Tick \/ Stop \/ Restart \/ UNCHANGED vars
      PROVE  exec' = exec
  BY <1>6 DEF Tell, Check_overdue_jobs, Tick, Stop, Restart, vars
<1>7. ASSUME NEW e \in Requests, RunUnknown(e)
      PROVE  exec' \in [Executions -> Execution]
  <2>1. Over \in Execution
    BY DEF Over, Idle, Execution, Stages
  <2>2. QED
    BY <1>0, <1>7, <2>1 DEF RunUnknown
<1>8. QED
  BY <1>0, <1>1, <1>2, <1>3, <1>4, <1>5, <1>6, <1>7, DaemonCases DEF Watched

\* What a job's records hold stays of its type.
RecordsTyped ==
  /\ mem \in [Jobs -> JobState] /\ saved \in [Jobs -> JobState]
  /\ sent \in [Jobs -> Nat] /\ failing \in [Jobs -> Nat]
  /\ slips \in [Names -> SUBSET Slips]
  /\ errors \in Nat

LEMMA PersistTyped ==
  ASSUME RecordsTyped, NEW j \in Jobs, mem' \in [Jobs -> JobState], Persist(j)
  PROVE  saved' \in [Jobs -> JobState] /\ slips' \in [Names -> SUBSET Slips] /\ errors' \in Nat
<1>1. "database" \in Slips
  BY DEF Slips
<1>2. QED
  BY <1>1, SlipTyped DEF Persist, DatabaseFails, RecordsTyped

LEMMA RecordsTypeStep ==
  ASSUME DaemonTypeOK, JobsOfExecutions, [Next]_vars
  PROVE  RecordsTyped'
<1>0. RecordsTyped /\ now \in Nat
  BY DEF DaemonTypeOK, RecordsTyped
<1> USE DEF RecordsTyped
<1>1. {"overlap", "refused", "killed", "database"} \subseteq Slips
  BY DEF Slips
<1>2. ASSUME NEW e \in Executions, NEW j \in Jobs, Begins(e, j)
      PROVE  RecordsTyped'
  BY <1>0, <1>1, <1>2, SlipTyped DEF Begins, Start
<1>3. ASSUME NEW e \in Executions, Refuse(e)
      PROVE  RecordsTyped'
  <2>1. exec[e].job \in Jobs
    BY <1>3, HasJob DEF Refuse, Leave
  <2>2. QED
    BY <1>0, <1>1, <1>3, <2>1, SlipTyped DEF Refuse
<1>4. ASSUME NEW e \in Executions, RunBackup(e) \/ Deliver(e) \/ Complete(e)
      PROVE  RecordsTyped'
  BY <1>0, <1>4 DEF RunBackup, Deliver, Complete
<1>5. ASSUME NEW e \in Executions, Record(e)
      PROVE  RecordsTyped'
  <2>1. exec[e].job \in Jobs
    BY <1>5, HasJob DEF Record, Goto
  <2>2. failing' \in [Jobs -> Nat]
    BY <1>0, <1>5, <2>1 DEF Record
  <2>3. slips' \in [Names -> SUBSET Slips] /\ errors' \in Nat
    BY <1>0, <1>1, <1>5, <2>1, SlipTyped DEF Record, DatabaseFails
  <2>4. QED
    BY <1>0, <1>5, <2>2, <2>3 DEF Record
<1>6. ASSUME NEW e \in Executions, UpdateState(e)
      PROVE  RecordsTyped'
  <2>1. exec[e].job \in Jobs
    BY <1>6, HasJob DEF UpdateState, Goto
  <2>2. Result(mem[exec[e].job], exec[e].ok) \in JobState
    <3>1. mem[exec[e].job] \in JobState
      BY <1>0, <2>1
    <3>2. ASSUME NEW state \in JobState, NEW n \in Nat, NEW t \in Nat
          PROVE  [state EXCEPT !.failures = n, !.lastFailure = t] \in JobState
      BY DEF JobState
    <3>3. ASSUME NEW state \in JobState
          PROVE  state.failures + 1 \in Nat
      BY DEF JobState
    <3>4. QED
      BY <1>0, <3>1, <3>2, <3>3 DEF Result
  <2>3. mem' \in [Jobs -> JobState]
    BY <1>0, <1>6, <2>1, <2>2 DEF UpdateState
  <2>4. QED
    BY <1>0, <1>6, <2>1, <2>3, PersistTyped DEF UpdateState
<1>7. ASSUME NEW e \in Executions, AlertFailure(e)
      PROVE  RecordsTyped'
  <2>1. exec[e].job \in Jobs
    BY <1>7, HasJob DEF AlertFailure, Goto
  <2>2. [mem[exec[e].job] EXCEPT !.failureAlert = now] \in JobState
    BY <1>0, <2>1 DEF JobState
  <2>3. mem' \in [Jobs -> JobState]
    BY <1>0, <1>7, <2>1, <2>2 DEF AlertFailure
  <2>4. QED
    BY <1>0, <1>7, <2>1, <2>3, PersistTyped DEF AlertFailure
<1>8. ASSUME NEW j \in Jobs, Tell(j)
      PROVE  RecordsTyped'
  <2>1. [mem[j] EXCEPT !.missedAlert = now] \in JobState
    BY <1>0 DEF JobState
  <2>2. mem' \in [Jobs -> JobState]
    BY <1>0, <1>8, <2>1 DEF Tell, Send_missed_notification
  <2>3. sent' \in [Jobs -> Nat]
    BY <1>0, <1>8 DEF Tell, Send_missed_notification
  <2>4. QED
    BY <1>0, <1>8, <2>2, <2>3, PersistTyped DEF Tell, Send_missed_notification
<1>9. CASE Await \/ Return \/ Tick \/ Stop \/ UNCHANGED vars
  BY <1>0, <1>9 DEF Await, Return, Tick, Stop, vars
<1>10. NoState \in JobState
  BY DEF NoState, JobState
<1>11. CASE GoDown
  BY <1>0, <1>1, <1>10, <1>11 DEF GoDown
<1>12. CASE Restart
  <2>1. mem' \in [Jobs -> JobState]
    BY <1>0, <1>10, <1>12 DEF Restart
  <2>2. slips' \in [Names -> SUBSET Slips] /\ errors' \in Nat
    BY <1>0, <1>1, <1>12, SlipTyped DEF Restart, DatabaseFails
  <2>3. QED
    BY <1>0, <1>12, <2>1, <2>2 DEF Restart
<1>13. CASE Watched
  BY <1>0, <1>1, <1>13, SlipTyped DEF Watched, Check_overdue_jobs, RunUnknown
<1>14. QED
  BY <1>2, <1>3, <1>4, <1>5, <1>6, <1>7, <1>8, <1>9, <1>11, <1>12, <1>13, DaemonCases

LEMMA HeapTypeStep ==
  ASSUME DaemonTypeOK, JobsOfExecutions, [Next]_vars
  PROVE  heap' \in [Jobs -> [next : Nat, missed : Nat]] /\ running' \in [Names -> Nat]
<1>0. /\ heap \in [Jobs -> [next : Nat, missed : Nat]] /\ running \in [Names -> Nat]
      /\ now \in Nat
  BY DEF DaemonTypeOK
<1>1. ASSUME NEW e \in Executions, NEW j \in Jobs, Begins(e, j)
      PROVE  heap' = heap /\ running' \in [Names -> Nat]
  BY <1>0, <1>1 DEF Begins, Start
<1>2. ASSUME NEW e \in Executions,
             \/ Refuse(e) \/ RunBackup(e) \/ Record(e) \/ UpdateState(e)
             \/ AlertFailure(e) \/ Deliver(e)
      PROVE  heap' = heap /\ running' \in [Names -> Nat]
  BY <1>0, <1>2 DEF Refuse, RunBackup, Record, UpdateState, AlertFailure, Deliver
<1>3. ASSUME NEW j, Reschedule(j)
      PROVE  heap' \in [Jobs -> [next : Nat, missed : Nat]]
  <2>1. CASE j \in Jobs
    BY <1>0, <1>3, <2>1, UpcomingIsTime DEF Reschedule
  <2>2. CASE j \notin Jobs
    BY <1>0, <1>3, <2>2 DEF Reschedule
  <2>3. QED
    BY <2>1, <2>2
<1>4. CASE Return \/ \E e \in Executions : Complete(e)
  <2>1. running' = running
    BY <1>4 DEF Return, Complete
  <2>2. heap' \in [Jobs -> [next : Nat, missed : Nat]]
    BY <1>0, <1>3, <1>4 DEF Return, Job_failed, Complete
  <2>3. QED
    BY <1>0, <2>1, <2>2
<1>5. CASE GoDown \/ Restart
  <2>1. running' \in [Names -> Nat]
    BY <1>5 DEF GoDown, Restart
  <2>2. heap' = Scheduled(0) \/ heap' = Scheduled(now)
    BY <1>5 DEF GoDown, Restart
  <2>3. QED
    BY <1>0, <2>1, <2>2, ScheduledIsHeap
<1>6. ASSUME \/ \E j \in Jobs : Tell(j) \/ Check_overdue_jobs(j)
             \/ Await \/ Tick \/ Stop \/ UNCHANGED vars
      PROVE  heap' = heap /\ running' = running
  BY <1>6 DEF Tell, Check_overdue_jobs, Await, Tick, Stop, vars
<1>7. ASSUME NEW e \in Requests, RunUnknown(e)
      PROVE  heap' = heap /\ running' \in [Names -> Nat]
  BY <1>0, <1>7 DEF RunUnknown
<1>8. QED
  BY <1>0, <1>1, <1>2, <1>4, <1>5, <1>6, <1>7, DaemonCases DEF Watched

LEMMA ClockTypeStep ==
  ASSUME DaemonTypeOK, JobsOfExecutions, [Next]_vars
  PROVE  /\ now' \in Nat \ {0} /\ up' \in {"up", "stopping", "down"} /\ starts' \in Nat
         /\ telling' \in Names
<1>0. /\ now \in Nat \ {0} /\ up \in {"up", "stopping", "down"} /\ starts \in Nat
      /\ telling \in Names
  BY DEF DaemonTypeOK
<1>1. CASE Tick \/ Stop
  BY <1>0, <1>1 DEF Tick, Stop
<1>2. CASE Await \/ Return \/ Watched \/ (\E j \in Jobs : Tell(j)) \/ UNCHANGED vars
  BY <1>0, <1>2
     DEF Await, Return, Watched, Check_overdue_jobs, RunUnknown, Tell, vars, clock
<1>3. CASE GoDown \/ Restart
  BY <1>0, <1>3 DEF GoDown, Restart
<1>4. ASSUME NEW e \in Executions,
             \/ \E j \in Jobs : Begins(e, j)
             \/ Refuse(e) \/ RunBackup(e) \/ Record(e) \/ UpdateState(e)
             \/ AlertFailure(e) \/ Deliver(e) \/ Complete(e)
      PROVE  UNCHANGED <<clock, telling>>
  BY <1>4 DEF Begins, Start, Refuse, RunBackup, Record, UpdateState, AlertFailure, Deliver,
     Complete
<1>5. QED
  BY <1>0, <1>1, <1>2, <1>3, <1>4, DaemonCases DEF clock

\* An execution gets its job when it begins or is waited for, and loses it when
\* it is over or the daemon dies.
LEMMA JobsStep ==
  ASSUME DaemonTypeOK, JobsOfExecutions, [Next]_vars
  PROVE  JobsOfExecutions'
<1> USE DEF JobsOfExecutions
<1>0. exec \in [Executions -> Execution] /\ 0 \notin Jobs
  BY JobsAssumption DEF DaemonTypeOK
<1>1. ASSUME NEW e \in Executions, NEW j \in Jobs, Begins(e, j)
      PROVE  JobsOfExecutions'
  BY <1>0, <1>1 DEF Begins, Start, Idle, clock
<1>2. ASSUME NEW e \in Executions, NEW from, NEW to \in Stages \ {"idle", "over"},
             from \notin {"idle", "over"}, Goto(e, from, to) \/ Leave(e, from, to), up' = up
      PROVE  JobsOfExecutions'
  <2>1. up # "down"
    BY <1>2 DEF Goto, Leave
  <2>2. exec' = [exec EXCEPT ![e] = [@ EXCEPT !.pc = to]] \/ exec' = [exec EXCEPT ![e] = Over]
    BY <1>2 DEF Goto, Leave
  <2>3. QED
    BY <1>0, <1>2, <2>1, <2>2 DEF Goto, Leave, Over, Idle, Execution
<1>3. ASSUME NEW e \in Executions,
             \/ Refuse(e) \/ Record(e) \/ UpdateState(e)
             \/ AlertFailure(e) \/ Deliver(e) \/ Complete(e)
      PROVE  JobsOfExecutions'
  <2>1. {"refused", "recorded", "updated", "alerting", "alerted", "completed"}
          \subseteq Stages \ {"idle", "over"}
    BY DEF Stages
  <2>2. QED
    BY <1>2, <1>3, <2>1 DEF Refuse, Record, UpdateState, AlertFailure, Deliver, Complete, clock
<1>4. ASSUME NEW e \in Executions, RunBackup(e)
      PROVE  JobsOfExecutions'
  BY <1>0, <1>4 DEF RunBackup, Execution, clock
<1>5. CASE Await
  BY <1>0, <1>5 DEF Await, Next_job, Idle, Executions, clock
<1>6. CASE Return
  BY <1>0, <1>6 DEF Return, Idle, Executions, clock
<1>7. CASE GoDown
  BY <1>0, <1>7 DEF GoDown, Idle, Over
<1>8. ASSUME \/ \E j \in Jobs : Tell(j) \/ Check_overdue_jobs(j)
             \/ Tick \/ Stop \/ Restart \/ UNCHANGED vars
      PROVE  exec' = exec /\ (up' = "down" => up = "down")
  BY <1>8 DEF Tell, Check_overdue_jobs, Tick, Stop, Restart, vars, clock
<1>9. ASSUME NEW e \in Requests, RunUnknown(e)
      PROVE  JobsOfExecutions'
  BY <1>0, <1>9 DEF RunUnknown, Over, Idle, Executions, clock
<1>10. QED
  BY <1>1, <1>3, <1>4, <1>5, <1>6, <1>7, <1>8, <1>9, DaemonCases DEF Watched

\* What the daemon keeps of its jobs and executions stays of its type, and an
\* execution has a job exactly while it is at one.
THEOREM DaemonTypeCorrect == Spec => [](DaemonTypeOK /\ JobsOfExecutions)
<1>1. Init => DaemonTypeOK /\ JobsOfExecutions
  BY ScheduledIsHeap
     DEF Init, DaemonTypeOK, JobsOfExecutions, Idle, Execution, Stages, NoState, JobState, Slips
<1>2. DaemonTypeOK /\ JobsOfExecutions /\ [Next]_vars => DaemonTypeOK' /\ JobsOfExecutions'
  BY ExecTypeStep, RecordsTypeStep, HeapTypeStep, ClockTypeStep, JobsStep
     DEF DaemonTypeOK, RecordsTyped
<1>3. QED
  BY <1>1, <1>2, PTL DEF Spec

-------------------------------------------------------------------------------
(***************************************************************************)
(* What borgd status says                                                  *)
(***************************************************************************)

Typed == DaemonTypeOK /\ JobsOfExecutions

LEMMA TypedStep ==
  ASSUME Typed, [Next]_vars
  PROVE  Typed'
BY ExecTypeStep, RecordsTypeStep, HeapTypeStep, ClockTypeStep, JobsStep
   DEF Typed, DaemonTypeOK, RecordsTyped

\* What has upset the bookkeeping of a job is not forgotten, except that running_jobs,
\* and with it the entries of refused executions, is gone when the daemon is.
LEMMA SlipsGrow ==
  ASSUME Typed, [Next]_vars
  PROVE  \A n \in Names :
           /\ slips[n] \subseteq slips'[n] \cup {"refused"}
           /\ ~GoDown => slips[n] \subseteq slips'[n]
<1>0. slips \in [Names -> SUBSET Slips]
  BY DEF Typed, DaemonTypeOK
<1>1. ASSUME NEW k, NEW what, Slip(k, what)
      PROVE  \A n \in Names : slips[n] \subseteq slips'[n]
  BY <1>0, <1>1 DEF Slip
<1>2. ASSUME NEW k, Persist(k)
      PROVE  \A n \in Names : slips[n] \subseteq slips'[n]
  BY <1>1, <1>2 DEF Persist, DatabaseFails
<1>3. ASSUME NEW e \in Executions,
             \/ \E j \in Jobs : Begins(e, j)
             \/ Refuse(e) \/ RunBackup(e) \/ Record(e) \/ Deliver(e) \/ Complete(e)
      PROVE  \A n \in Names : slips[n] \subseteq slips'[n]
  BY <1>1, <1>3 DEF Begins, Start, Refuse, RunBackup, Record, DatabaseFails, Deliver, Complete
<1>4. ASSUME NEW e \in Executions, UpdateState(e) \/ AlertFailure(e)
      PROVE  \A n \in Names : slips[n] \subseteq slips'[n]
  BY <1>2, <1>4 DEF UpdateState, AlertFailure
<1>5. ASSUME NEW j \in Jobs, Tell(j)
      PROVE  \A n \in Names : slips[n] \subseteq slips'[n]
  BY <1>2, <1>5 DEF Tell, Send_missed_notification
<1>6. CASE Watched \/ Await \/ Return \/ Tick \/ Stop \/ UNCHANGED vars
  BY <1>1, <1>6 DEF Watched, Check_overdue_jobs, RunUnknown, Await, Return, Tick, Stop, vars
<1>7. CASE Restart
  BY <1>1, <1>7 DEF Restart, DatabaseFails
<1>8. CASE GoDown
  BY <1>0, <1>8 DEF GoDown
<1>9. QED
  BY <1>3, <1>4, <1>5, <1>6, <1>7, <1>8, DaemonCases DEF Typed

\* A step in the midst of an execution concerns that execution alone.
LEMMA Midst ==
  ASSUME Typed, NEW e \in Executions,
         \/ Refuse(e) \/ RunBackup(e) \/ Record(e) \/ UpdateState(e)
         \/ AlertFailure(e) \/ Deliver(e) \/ Complete(e)
  PROVE  /\ exec[e].job \in Jobs
         /\ \A f \in Executions : f # e => exec'[f] = exec[f]
         /\ \A j \in Jobs : Busy(j)' \subseteq Busy(j)
         /\ up # "down" /\ up' = up /\ now' = now
<1>0. exec \in [Executions -> Execution] /\ 0 \notin Jobs
  BY JobsAssumption DEF Typed, DaemonTypeOK
<1>1. exec[e].pc \in {"started", "ran", "recorded", "updated", "alerting", "alerted"}
  BY DEF Refuse, RunBackup, Record, UpdateState, AlertFailure, Deliver, Complete, Goto, Leave
<1>2. exec[e].job \in Jobs
  BY <1>1, HasJob DEF Typed
<1>3. \A f \in Executions : f # e => exec'[f] = exec[f]
  BY <1>0 DEF Refuse, RunBackup, Record, UpdateState, AlertFailure, Deliver, Complete, Goto, Leave
<1>4. exec'[e].job \in {exec[e].job, 0}
  BY <1>0 DEF Refuse, RunBackup, Record, UpdateState, AlertFailure, Deliver, Complete, Goto,
     Leave, Execution,
       Over, Idle
<1>5. \A j \in Jobs : Busy(j)' \subseteq Busy(j)
  BY <1>0, <1>1, <1>3, <1>4 DEF Busy
<1>6. up # "down"
  BY <1>0, <1>2 DEF Typed, JobsOfExecutions
<1>7. up' = up /\ now' = now
  BY DEF Refuse, RunBackup, Record, UpdateState, AlertFailure, Deliver, Complete, clock
<1>8. QED
  BY <1>2, <1>3, <1>5, <1>6, <1>7

\* An execution begins as one more that is busy with its job.
LEMMA Beginning ==
  ASSUME Typed, NEW e \in Executions, NEW j \in Jobs, Begins(e, j)
  PROVE  /\ \A f \in Executions : f # e => exec'[f] = exec[f]
         /\ exec'[e].pc = "started" /\ exec'[e].job = j
         /\ e \notin Busy(j) /\ Busy(j)' = Busy(j) \cup {e}
         /\ \A k \in Jobs \ {j} : e \notin Busy(k) /\ Busy(k)' = Busy(k)
         /\ up # "down" /\ up' = up /\ now' = now
<1>0. exec \in [Executions -> Execution] /\ 0 \notin Jobs
  BY JobsAssumption DEF Typed, DaemonTypeOK
<1>1. /\ \A f \in Executions : f # e => exec'[f] = exec[f]
      /\ exec'[e].pc = "started" /\ exec'[e].job = j
  BY <1>0 DEF Begins, Start, Idle
<1>2. \A k \in Jobs : e \notin Busy(k)
  BY <1>0 DEF Begins, Busy, Typed, JobsOfExecutions
<1>3. Busy(j)' = Busy(j) \cup {e} /\ \A k \in Jobs \ {j} : Busy(k)' = Busy(k)
  BY <1>1, <1>2 DEF Busy
<1>4. up # "down" /\ up' = up /\ now' = now
  BY DEF Begins, Start, clock
<1>5. QED
  BY <1>1, <1>2, <1>3, <1>4

\* What the scheduler does between executions, and what is done to the process, is
\* of no matter to what is busy with a job.
LEMMA Aside ==
  ASSUME Typed,
         \/ Watched \/ Await \/ Return \/ Tick \/ Stop \/ Restart \/ UNCHANGED vars
         \/ \E j \in Jobs : Tell(j)
  PROVE  \A j \in Jobs :
           /\ Busy(j)' \subseteq Busy(j)
           /\ \A e \in Busy(j) : exec[e].pc \in {"completed", "refused"} \/ e \in Busy(j)'
           /\ \A e \in Busy(j)' : exec'[e] = exec[e]
<1>0. exec \in [Executions -> Execution] /\ 0 \notin Jobs /\ "scheduler" \in Executions
  BY JobsAssumption DEF Typed, DaemonTypeOK, Executions
<1>1. CASE Await \/ Return
  <2>1. /\ \A e \in Executions : e # "scheduler" => exec'[e] = exec[e]
        /\ exec'["scheduler"].pc = "wait" \/ exec'["scheduler"].job = 0
    <3>1. CASE Await
      <4>1. PICK j \in Jobs :
              exec' = [exec EXCEPT !["scheduler"] =
                         [Idle EXCEPT !.pc = "wait", !.job = j, !.at = heap[j].next]]
        BY <3>1 DEF Await, Next_job
      <4>2. [Idle EXCEPT !.pc = "wait", !.job = j, !.at = heap[j].next].pc = "wait"
        BY DEF Idle
      <4>3. QED
        BY <1>0, <4>1, <4>2
    <3>2. CASE Return
      BY <1>0, <3>2 DEF Return, Idle
    <3>3. QED
      BY <1>1, <3>1, <3>2
  <2>2. exec["scheduler"].pc \in {"idle", "completed", "refused"}
    BY <1>1 DEF Watched, Check_overdue_jobs, RunUnknown, Await, Return
  <2>3. \A j \in Jobs : "scheduler" \notin Busy(j)'
    BY <1>0, <2>1 DEF Busy
  <2>4. exec["scheduler"].pc = "idle" => exec["scheduler"].job = 0
    BY <1>0 DEF Typed, JobsOfExecutions
  <2>5. QED
    BY <1>0, <2>1, <2>2, <2>3, <2>4 DEF Busy
<1>2. ASSUME \/ Tick \/ Stop \/ Restart \/ UNCHANGED vars
             \/ \E j \in Jobs : Tell(j) \/ Check_overdue_jobs(j)
      PROVE  exec' = exec
  BY <1>2 DEF Tell, Check_overdue_jobs, Tick, Stop, Restart, vars
<1>3. ASSUME exec' = exec
      PROVE  \A j \in Jobs : Busy(j)' = Busy(j)
  BY <1>3 DEF Busy
<1>4. ASSUME NEW e \in Requests, RunUnknown(e)
      PROVE  /\ \A f \in Executions : f # e => exec'[f] = exec[f]
             /\ \A j \in Jobs : e \notin Busy(j) /\ e \notin Busy(j)'
  <2>1. exec' = [exec EXCEPT ![e] = Over] /\ e \in Executions /\ exec[e].job = 0
    BY <1>0, <1>4 DEF RunUnknown, Typed, JobsOfExecutions, Executions
  <2>2. Over.job = 0
    BY DEF Over, Idle
  <2>3. QED
    BY <1>0, <2>1, <2>2 DEF Busy
<1>5. ASSUME NEW e \in Requests, RunUnknown(e)
      PROVE  \A j \in Jobs : Busy(j)' = Busy(j) /\ \A f \in Busy(j) : exec'[f] = exec[f]
  BY <1>4, <1>5 DEF Busy
<1>6. QED
  BY <1>1, <1>2, <1>3, <1>5 DEF Watched, Busy

\* Nothing is busy with a job while the daemon is down.
LEMMA DownIdle ==
  ASSUME Typed
  PROVE  /\ up = "down" => \A j \in Jobs : Busy(j) = {}
         /\ GoDown => \A j \in Jobs : Busy(j)' = {}
<1>0. exec \in [Executions -> Execution] /\ 0 \notin Jobs
  BY JobsAssumption DEF Typed, DaemonTypeOK
<1>1. GoDown => \A j \in Jobs : Busy(j)' = {}
  BY <1>0 DEF GoDown, Busy, Idle, Over
<1>2. up = "down" => \A j \in Jobs : Busy(j) = {}
  BY <1>0 DEF Busy, Typed, JobsOfExecutions
<1>3. QED
  BY <1>1, <1>2

\* An execution that begins beside another of the same job is noted.
LEMMA OneAtATimeStep ==
  ASSUME Typed, OneAtATime, [Next]_vars
  PROVE  OneAtATime'
<1> SUFFICES ASSUME NEW j \in Jobs, "overlap" \notin slips'[j]
             PROVE  \A e, f \in Busy(j)' : e = f
  BY DEF OneAtATime
<1>1. \A e, f \in Busy(j) : e = f
  BY SlipsGrow DEF OneAtATime
<1>2. ASSUME NEW e \in Executions, NEW k \in Jobs, Begins(e, k)
      PROVE  \A f, g \in Busy(j)' : f = g
  <2>1. CASE k = j
    <3>1. Busy(j) = {}
      BY <1>2, <2>1 DEF Begins, Start, Slip, Typed, DaemonTypeOK
    <3>2. QED
      BY <1>2, <2>1, <3>1, Beginning
  <2>2. CASE k # j
    BY <1>1, <1>2, <2>2, Beginning
  <2>3. QED
    BY <2>1, <2>2
<1>3. QED
  BY <1>1, <1>2, Midst, Aside, DownIdle, DaemonCases DEF Typed

\* Whatever leaves the stage of the execution alone, and what runs, keeps what is started.
LEMMA StartedAside ==
  ASSUME Typed, ~GoDown, NEW n \in Names, [Next]_vars,
         \A e \in Executions : RunBackup(e) \/ Refuse(e) => exec[e].job # n,
         \A e \in Executions : ~Begins(e, n)
  PROVE  Started(n)' = Started(n)
<1>0. exec \in [Executions -> Execution] /\ 0 \notin Jobs
  BY JobsAssumption DEF Typed, DaemonTypeOK
<1>1. Started(0) = {} /\ (DaemonTypeOK' /\ JobsOfExecutions' => Started(0)' = {})
  BY DEF Started, Typed, JobsOfExecutions
<1>2. DaemonTypeOK' /\ JobsOfExecutions'
  BY TypedStep DEF Typed
<1>3. CASE n = 0
  BY <1>1, <1>2, <1>3
<1>4. CASE n \in Jobs
  <2>1. ASSUME NEW e \in Executions, NEW k \in Jobs, Begins(e, k)
        PROVE  Started(n)' = Started(n)
    <3>1. k # n
      BY <2>1
    <3>2. QED
      BY <1>4, <2>1, <3>1, Beginning DEF Started, Busy
  <2>2. ASSUME NEW e \in Executions, RunBackup(e) \/ Refuse(e)
        PROVE  Started(n)' = Started(n)
    <3>1. exec[e].job # n /\ exec[e].job \in Jobs
      BY <2>2, Midst
    <3>2. exec'[e].job \in {exec[e].job, 0}
      BY <1>0, <2>2 DEF RunBackup, Refuse, Leave, Over, Idle, Execution
    <3>3. QED
      BY <1>0, <1>4, <2>2, <3>1, <3>2, Midst DEF Started
  <2>3. ASSUME NEW e \in Executions,
               \/ Record(e) \/ UpdateState(e) \/ AlertFailure(e) \/ Deliver(e) \/ Complete(e)
        PROVE  Started(n)' = Started(n)
    <3>1. exec[e].pc # "started" /\ exec'[e].pc # "started"
      BY <1>0, <2>3 DEF Record, UpdateState, AlertFailure, Deliver, Complete, Goto, Leave, Over,
         Idle, Execution
    <3>2. QED
      BY <2>3, <3>1, Midst DEF Started
  <2>4. ASSUME \/ Watched \/ Await \/ Return \/ Tick \/ Stop \/ Restart \/ UNCHANGED vars
               \/ \E k \in Jobs : Tell(k)
        PROVE  Started(n)' = Started(n)
    <3>1. /\ \A e \in Busy(n) : exec[e].pc = "started" => e \in Busy(n)' /\ exec'[e] = exec[e]
          /\ \A e \in Busy(n)' : e \in Busy(n) /\ exec'[e] = exec[e]
      BY <1>4, <2>4, Aside
    <3>2. QED
      BY <3>1 DEF Started, Busy
  <2>5. QED
    BY <2>1, <2>2, <2>3, <2>4, DaemonCases DEF Typed
<1>5. QED
  BY <1>3, <1>4

\* A backup that begins is entered, and it takes the entries of its name out of
\* running_jobs when it is over: with what overlaps it, these are too few then, and
\* what was refused leaves them too many.
LEMMA RunningTrueStep ==
  ASSUME Typed, OneAtATime, RunningTrue, [Next]_vars
  PROVE  RunningTrue'
<1> SUFFICES ASSUME NEW n \in Names
             PROVE  /\ "overlap" \notin slips'[n] /\ Started(n)' # {} => running'[n] # 0
                    /\ IsFiniteSet(Started(n)')
                    /\ "refused" \notin slips'[n] => running'[n] <= Cardinality(Started(n)')
  BY DEF RunningTrue
<1> DEFINE Fits(entries, started, upset) ==
             /\ "overlap" \notin upset /\ started # {} => entries # 0
             /\ IsFiniteSet(started)
             /\ "refused" \notin upset => entries <= Cardinality(started)
<1>0. /\ Fits(running[n], Started(n), slips[n])
      /\ exec \in [Executions -> Execution] /\ running \in [Names -> Nat]
      /\ slips \in [Names -> SUBSET Slips]
  BY DEF RunningTrue, Typed, DaemonTypeOK
<1> SUFFICES Fits(running'[n], Started(n)', slips'[n])
  OBVIOUS
<1>1. CASE GoDown
  <2>1. Started(n)' = {} /\ running'[n] = 0
    BY <1>0, <1>1 DEF GoDown, Started, Idle, Over
  <2>2. QED
    BY <2>1, FS_EmptySet
<1>2. ASSUME NEW e \in Executions, Begins(e, n)
      PROVE  Fits(running'[n], Started(n)', slips'[n])
  <2>1. n \in Jobs
    BY <1>0, <1>2, TypedStep DEF Begins, Start, Idle, Typed, JobsOfExecutions
  <2>2. running'[n] = running[n] + 1 /\ running[n] \in Nat
    BY <1>0, <1>2 DEF Begins, Start
  <2>3. e \notin Started(n) /\ Started(n)' = Started(n) \cup {e}
    BY <1>2, <2>1, Beginning DEF Started, Busy
  <2>4. /\ IsFiniteSet(Started(n)') /\ Cardinality(Started(n)) \in Nat
        /\ Cardinality(Started(n)') = Cardinality(Started(n)) + 1
    BY <1>0, <2>3, FS_AddElement, FS_CardinalityType
  <2>5. slips[n] \subseteq slips'[n]
    <3>1. ~GoDown
      BY <1>2, <2>1, Beginning DEF GoDown, Idle, Over
    <3>2. QED
      BY <3>1, SlipsGrow
  <2>6. QED
    BY <1>0, <2>2, <2>4, <2>5
<1>3. ASSUME NEW e \in Executions, Refuse(e), exec[e].job = n
      PROVE  Fits(running'[n], Started(n)', slips'[n])
  <2>1. running' = running /\ "refused" \in slips'[n]
    BY <1>0, <1>3 DEF Refuse, Slip
  <2>2. Started(n)' \subseteq Started(n)
    BY <1>0, <1>3, Midst DEF Started, Refuse, Leave, Over, Idle, Execution
  <2>3. IsFiniteSet(Started(n)')
    BY <1>0, <2>2, FS_Subset
  <2>4. slips[n] \subseteq slips'[n]
    BY <1>0, <1>3 DEF Refuse, Slip
  <2>5. QED
    BY <1>0, <2>1, <2>2, <2>3, <2>4
<1>4. ASSUME NEW e \in Executions, RunBackup(e), exec[e].job = n
      PROVE  Fits(running'[n], Started(n)', slips'[n])
  <2>1. running'[n] = 0 /\ slips' = slips /\ n \in Jobs
    BY <1>0, <1>4, Midst DEF RunBackup
  <2>2. Started(n)' \subseteq Started(n) /\ e \in Busy(n) /\ e \notin Started(n)'
    <3>1. exec[e].pc = "started" /\ exec'[e].pc = "ran"
      BY <1>0, <1>4 DEF RunBackup, Execution
    <3>2. e \in Busy(n) /\ e \notin Started(n)'
      BY <1>4, <3>1 DEF Busy, Started
    <3>3. Started(n)' \subseteq Started(n)
      BY <1>4, <3>2, Midst DEF Started
    <3>4. QED
      BY <3>2, <3>3
  <2>3. "overlap" \notin slips[n] => Started(n)' = {}
    <3>1. Started(n) \subseteq Busy(n)
      BY DEF Started, Busy
    <3>2. "overlap" \notin slips[n] => \A f \in Busy(n) : f = e
      BY <2>1, <2>2 DEF OneAtATime
    <3>3. QED
      BY <2>2, <3>1, <3>2
  <2>4. IsFiniteSet(Started(n)') /\ Cardinality(Started(n)') \in Nat
    BY <1>0, <2>2, FS_Subset, FS_CardinalityType
  <2>5. QED
    BY <2>1, <2>3, <2>4
<1>5. ASSUME ~GoDown, \A e \in Executions : ~Begins(e, n),
             \A e \in Executions : RunBackup(e) \/ Refuse(e) => exec[e].job # n
      PROVE  Fits(running'[n], Started(n)', slips'[n])
  <2>1. Started(n)' = Started(n) /\ slips[n] \subseteq slips'[n]
    BY <1>5, StartedAside, SlipsGrow
  <2>2. ASSUME Restart
        PROVE  Started(n) = {} /\ running'[n] = 0
    BY <2>2 DEF Restart, Started, Typed, JobsOfExecutions
  <2>3. ASSUME NEW e \in Requests, RunUnknown(e)
        PROVE  \/ running'[n] = running[n]
               \/ "refused" \in slips'[n] /\ running'[n] = running[n] + 1
    BY <1>0, <2>3 DEF RunUnknown, Slip
  <2>4. ASSUME NEW e \in Executions, NEW k \in Jobs, Begins(e, k)
        PROVE  running'[n] = running[n]
    <3>1. k # n
      BY <1>5, <2>4
    <3>2. QED
      BY <1>0, <2>4, <3>1 DEF Begins, Start
  <2>5. ASSUME NEW e \in Executions, RunBackup(e)
        PROVE  running'[n] = running[n]
    BY <1>0, <1>5, <2>5 DEF RunBackup
  <2>6. ASSUME NEW e \in Executions,
               \/ Refuse(e) \/ Record(e) \/ UpdateState(e)
               \/ AlertFailure(e) \/ Deliver(e) \/ Complete(e)
        PROVE  running' = running
    BY <2>6 DEF Refuse, Record, UpdateState, AlertFailure, Deliver, Complete
  <2>7. ASSUME \/ \E j \in Jobs : Tell(j) \/ Check_overdue_jobs(j)
               \/ Await \/ Return \/ Tick \/ Stop \/ UNCHANGED vars
        PROVE  running' = running
    BY <2>7 DEF Tell, Check_overdue_jobs, Await, Return, Tick, Stop, vars
  <2>8. \/ running'[n] = running[n]
        \/ Started(n) = {} /\ running'[n] = 0
        \/ "refused" \in slips'[n] /\ running'[n] = running[n] + 1
    BY <1>5, <2>2, <2>3, <2>4, <2>5, <2>6, <2>7, DaemonCases DEF Typed, Watched
  <2>9. running[n] \in Nat /\ Cardinality(Started(n)) \in Nat
    BY <1>0, FS_CardinalityType
  <2>10. QED
    BY <1>0, <2>1, <2>8, <2>9
<1>6. QED
  BY <1>1, <1>2, <1>3, <1>4, <1>5

\* borgd status never shows a name as running more often than it is executed, unless it
\* was refused or is no job's, nor less often, unless executions of it overlapped.
THEOREM StatusTruthfulCorrect == Spec => []StatusTruthful
<1>1. Init => OneAtATime /\ RunningTrue
  <2>1. Init => \A n \in Names : Started(n) = {} /\ running[n] = 0
    BY DEF Init, Started, Idle
  <2>2. Init => OneAtATime
    BY JobsAssumption DEF Init, OneAtATime, Busy, Idle
  <2>3. QED
    BY <2>1, <2>2, FS_EmptySet DEF RunningTrue
<1>2. Typed /\ OneAtATime /\ RunningTrue /\ [Next]_vars => OneAtATime' /\ RunningTrue'
  BY OneAtATimeStep, RunningTrueStep
<1>3. Typed /\ OneAtATime /\ RunningTrue => StatusTruthful
  <2> SUFFICES ASSUME Typed, OneAtATime, RunningTrue, NEW n \in Names
               PROVE  /\ up # "down" /\ "overlap" \notin slips[n] =>
                           running[n] >= Cardinality(Started(n))
                      /\ "refused" \notin slips[n] => running[n] <= Cardinality(Started(n))
    BY DEF StatusTruthful, Started
  <2>1. "refused" \notin slips[n] => running[n] <= Cardinality(Started(n))
    BY DEF RunningTrue
  <2>2. Started(0) = {} /\ running[n] \in Nat
    BY DEF Started, Typed, JobsOfExecutions, DaemonTypeOK
  <2>3. "overlap" \notin slips[n] => Started(n) = {} \/ \E e \in Started(n) : Started(n) = {e}
    <3>1. n = 0 \/ n \in Jobs
      OBVIOUS
    <3>2. n \in Jobs /\ "overlap" \notin slips[n] => \A e, f \in Started(n) : e = f
      BY DEF OneAtATime, Started, Busy
    <3>3. QED
      BY <2>2, <3>1, <3>2
  <2>4. "overlap" \notin slips[n] /\ Started(n) # {} => running[n] # 0
    BY DEF RunningTrue
  <2>5. "overlap" \notin slips[n] =>
          Cardinality(Started(n)) = 0 \/ \E e \in Started(n) : Cardinality(Started(n)) = 1
    <3>1. CASE Started(n) = {}
      BY <3>1, FS_EmptySet
    <3>2. ASSUME NEW e \in Started(n), Started(n) = {e}
          PROVE  Cardinality(Started(n)) = 1
      BY <3>2, FS_Singleton
    <3>3. QED
      BY <3>1, <3>2, <2>3
  <2>6. QED
    BY <2>1, <2>2, <2>4, <2>5
<1>4. Typed <=> DaemonTypeOK /\ JobsOfExecutions
  BY DEF Typed
<1>5. QED
  BY <1>1, <1>2, <1>3, <1>4, DaemonTypeCorrect, PTL DEF Spec

-------------------------------------------------------------------------------
(***************************************************************************)
(* What is in memory and what is saved                                     *)
(***************************************************************************)

\* The saved state of a job is changed by the results of its executions, by their
\* alerts and by its overdue alerts, and the memory with it.
LEMMA SavedStep ==
  ASSUME Typed, MemorySaved, [Next]_vars, NEW j \in Jobs, "database" \notin slips'[j]
  PROVE  /\ up' # "down" => mem'[j] = saved'[j]
         /\ \/ saved'[j] = saved[j]
            \/ \E e \in Executions :
                 UpdateState(e) /\ exec[e].job = j /\ saved'[j] = Result(saved[j], exec[e].ok)
            \/ \E e \in Executions :
                 /\ AlertFailure(e) /\ exec[e].job = j
                 /\ saved'[j] = [saved[j] EXCEPT !.failureAlert = now]
            \/ Tell(j) /\ saved'[j] = [saved[j] EXCEPT !.missedAlert = now]
<1>0. /\ mem \in [Jobs -> JobState] /\ saved \in [Jobs -> JobState]
      /\ slips \in [Names -> SUBSET Slips]
      /\ up # "down" => mem[j] = saved[j]
  BY SlipsGrow DEF Typed, DaemonTypeOK, MemorySaved
<1>1. ASSUME NEW k \in Jobs, NEW state, mem' = [mem EXCEPT ![k] = state], Persist(k),
             mem[j] = saved[j]
      PROVE  /\ mem'[j] = saved'[j]
             /\ k # j => saved'[j] = saved[j]
             /\ k = j => saved'[j] = state
  BY <1>0, <1>1 DEF Persist, DatabaseFails, Slip
<1>2. ASSUME NEW e \in Executions, UpdateState(e)
      PROVE  /\ mem'[j] = saved'[j]
             /\ \/ saved'[j] = saved[j]
                \/ exec[e].job = j /\ saved'[j] = Result(saved[j], exec[e].ok)
  <2>1. exec[e].job \in Jobs /\ mem[j] = saved[j]
    BY <1>0, <1>2, Midst
  <2>2. /\ mem' = [mem EXCEPT ![exec[e].job] = Result(mem[exec[e].job], exec[e].ok)]
        /\ Persist(exec[e].job)
    BY <1>2 DEF UpdateState
  <2>3. QED
    BY <1>1, <2>1, <2>2
<1>3. ASSUME NEW e \in Executions, AlertFailure(e)
      PROVE  /\ mem'[j] = saved'[j]
             /\ \/ saved'[j] = saved[j]
                \/ exec[e].job = j /\ saved'[j] = [saved[j] EXCEPT !.failureAlert = now]
  <2>1. exec[e].job \in Jobs /\ mem[j] = saved[j]
    BY <1>0, <1>3, Midst
  <2>2. \/ UNCHANGED <<mem, saved>>
        \/ /\ mem' = [mem EXCEPT ![exec[e].job] = [mem[exec[e].job] EXCEPT !.failureAlert = now]]
           /\ Persist(exec[e].job)
    BY <1>3 DEF AlertFailure
  <2>3. QED
    BY <1>1, <2>1, <2>2
<1>4. ASSUME NEW k \in Jobs, Tell(k)
      PROVE  /\ mem'[j] = saved'[j]
             /\ \/ saved'[j] = saved[j]
                \/ k = j /\ saved'[j] = [saved[j] EXCEPT !.missedAlert = now]
  <2>1. mem[j] = saved[j]
    BY <1>0, <1>4 DEF Tell
  <2>2. \/ UNCHANGED <<mem, saved>>
        \/ /\ mem' = [mem EXCEPT ![k] = [mem[k] EXCEPT !.missedAlert = now]]
           /\ Persist(k)
    BY <1>4 DEF Tell, Send_missed_notification
  <2>3. QED
    BY <1>1, <2>1, <2>2
<1>5. ASSUME \/ \E e \in Executions, k \in Jobs : Begins(e, k)
             \/ \E e \in Executions :
                  Refuse(e) \/ RunBackup(e) \/ Record(e) \/ Deliver(e) \/ Complete(e)
             \/ Watched \/ Await \/ Return \/ Tick \/ Stop \/ UNCHANGED vars
      PROVE  UNCHANGED <<mem, saved>> /\ (up' # "down" => up # "down")
  BY <1>5 DEF Begins, Start, Refuse, RunBackup, Record, Deliver, Complete, Watched,
     Check_overdue_jobs, RunUnknown, Await, Return, Tick, Stop, vars,
     clock
<1>6. CASE GoDown
  BY <1>6 DEF GoDown
<1>7. CASE Restart
  <2>1. saved' = saved
    BY <1>7 DEF Restart
  <2>2. mem' = saved \/ \E k \in Jobs : mem' = [saved EXCEPT ![k] = NoState] /\ DatabaseFails(k)
    BY <1>7 DEF Restart
  <2>3. ASSUME NEW k \in Jobs, DatabaseFails(k)
        PROVE  k # j
    BY <1>0, <2>3 DEF DatabaseFails, Slip
  <2>4. QED
    BY <1>0, <2>1, <2>2, <2>3
<1>8. QED
  BY <1>0, <1>2, <1>3, <1>4, <1>5, <1>6, <1>7, DaemonCases DEF Typed

LEMMA MemorySavedStep ==
  ASSUME Typed, MemorySaved, [Next]_vars
  PROVE  MemorySaved'
BY SavedStep DEF MemorySaved

\* An execution that leaves or enters a stage does so by the action of that stage.
LEMMA StageStep ==
  ASSUME Typed, [Next]_vars, NEW j \in Jobs, NEW e \in Busy(j)'
  PROVE  \/ e \in Busy(j) /\ exec'[e] = exec[e]
         \/ Begins(e, j) /\ exec'[e].pc = "started"
         \/ Refuse(e) /\ e \in Busy(j) /\ exec'[e].pc = "refused"
         \/ RunBackup(e) /\ e \in Busy(j) /\ exec'[e].pc = "ran"
         \/ Record(e) /\ e \in Busy(j) /\ exec'[e] = [exec[e] EXCEPT !.pc = "recorded"]
         \/ UpdateState(e) /\ e \in Busy(j) /\ exec'[e] = [exec[e] EXCEPT !.pc = "updated"]
         \/ AlertFailure(e) /\ e \in Busy(j) /\ exec'[e].pc \in {"alerting", "alerted"}
         \/ Deliver(e) /\ e \in Busy(j) /\ exec'[e].pc = "alerted"
         \/ Complete(e) /\ e \in Busy(j) /\ exec'[e].pc = "completed"
<1>0. exec \in [Executions -> Execution] /\ 0 \notin Jobs /\ e \in Executions
  BY JobsAssumption DEF Typed, DaemonTypeOK, Busy
<1>1. ASSUME NEW f \in Executions, NEW k \in Jobs, Begins(f, k)
      PROVE  \/ e \in Busy(j) /\ exec'[e] = exec[e]
             \/ Begins(e, j) /\ exec'[e].pc = "started"
  <2>1. CASE e = f
    <3>1. k = j
      BY <1>1, <2>1, Beginning DEF Busy
    <3>2. QED
      BY <1>1, <2>1, <3>1, Beginning
  <2>2. CASE e # f
    BY <1>0, <1>1, <2>2, Beginning DEF Busy
  <2>3. QED
    BY <2>1, <2>2
<1>2. ASSUME NEW f \in Executions, f # e,
             \/ Refuse(f) \/ RunBackup(f) \/ Record(f) \/ UpdateState(f)
             \/ AlertFailure(f) \/ Deliver(f) \/ Complete(f)
      PROVE  e \in Busy(j) /\ exec'[e] = exec[e]
  BY <1>0, <1>2, Midst DEF Busy
<1>3. ASSUME \/ Refuse(e) \/ RunBackup(e) \/ Record(e) \/ UpdateState(e)
             \/ AlertFailure(e) \/ Deliver(e) \/ Complete(e)
      PROVE  e \in Busy(j) /\ exec'[e].job # 0
  BY <1>0, <1>3, Midst DEF Busy
<1>4. /\ Refuse(e) => exec'[e].pc = "refused" \/ exec'[e].job = 0
      /\ Complete(e) => exec'[e].pc = "completed" \/ exec'[e].job = 0
  <2>1. ASSUME NEW from, NEW to, Leave(e, from, to)
        PROVE  exec'[e].pc = to \/ exec'[e].job = 0
    <3>1. exec'[e] = [exec[e] EXCEPT !.pc = to] \/ exec'[e] = Over
      BY <1>0, <2>1 DEF Leave
    <3>2. QED
      BY <1>0, <3>1 DEF Over, Idle, Execution
  <2>2. QED
    BY <2>1 DEF Refuse, Complete
<1>5. /\ AlertFailure(e) => exec'[e].pc \in {"alerting", "alerted"}
      /\ Deliver(e) => exec'[e].pc = "alerted"
      /\ RunBackup(e) => exec'[e].pc = "ran"
      /\ Record(e) => exec'[e] = [exec[e] EXCEPT !.pc = "recorded"]
      /\ UpdateState(e) => exec'[e] = [exec[e] EXCEPT !.pc = "updated"]
  <2>1. ASSUME NEW from, NEW to, Goto(e, from, to)
        PROVE  exec'[e] = [exec[e] EXCEPT !.pc = to] /\ exec'[e].pc = to
    BY <1>0, <2>1 DEF Goto, Execution
  <2>2. RunBackup(e) => exec'[e].pc = "ran"
    BY <1>0 DEF RunBackup, Execution
  <2>3. QED
    BY <2>1, <2>2 DEF AlertFailure, Deliver, Record, UpdateState
<1>6. ASSUME \/ Watched \/ Await \/ Return \/ Tick \/ Stop \/ Restart \/ UNCHANGED vars
             \/ \E k \in Jobs : Tell(k)
      PROVE  e \in Busy(j) /\ exec'[e] = exec[e]
  BY <1>6, Aside
<1>7. ~GoDown
  BY DownIdle
<1>8. QED
  BY <1>1, <1>2, <1>3, <1>4, <1>5, <1>6, <1>7, DaemonCases DEF Typed

-------------------------------------------------------------------------------
(***************************************************************************)
(* The consecutive failures and the history                                *)
(***************************************************************************)

\* What is recorded and not yet saved is what sets the history apart from the
\* saved state.
LEMMA TallyStep ==
  ASSUME Typed, OneAtATime, MemorySaved, Tally, [Next]_vars
  PROVE  Tally'
<1> SUFFICES ASSUME NEW j \in Jobs, slips'[j] \subseteq {"refused"}
             PROVE  /\ \A e \in Busy(j)' :
                         exec'[e].pc = "recorded" =>
                           failing'[j] = IF exec'[e].ok THEN 0 ELSE saved'[j].failures + 1
                    /\ (\A e \in Busy(j)' : exec'[e].pc # "recorded") =>
                         failing'[j] = saved'[j].failures
  BY DEF Tally
<1>0. /\ slips[j] \subseteq {"refused"} /\ "database" \notin slips'[j]
      /\ exec \in [Executions -> Execution] /\ failing \in [Jobs -> Nat]
      /\ saved \in [Jobs -> JobState]
      /\ \A e, f \in Busy(j) : e = f
  BY SlipsGrow DEF OneAtATime, Typed, DaemonTypeOK
<1>1. /\ \A e \in Busy(j) :
           exec[e].pc = "recorded" => failing[j] = IF exec[e].ok THEN 0 ELSE saved[j].failures + 1
      /\ (\A e \in Busy(j) : exec[e].pc # "recorded") => failing[j] = saved[j].failures
  BY <1>0 DEF Tally
<1>2. ASSUME NEW e \in Executions, Record(e), exec[e].job = j
      PROVE  /\ exec'[e].pc = "recorded" /\ Busy(j)' = {e}
             /\ failing'[j] = IF exec'[e].ok THEN 0 ELSE saved'[j].failures + 1
  <2>1. exec[e].pc = "ran" /\ exec' = [exec EXCEPT ![e].pc = "recorded"]
    BY <1>2 DEF Record, Goto
  <2>2. Busy(j) = {e} /\ Busy(j)' \subseteq {e}
    BY <1>0, <1>2, <2>1, Midst DEF Busy
  <2>3. exec'[e].job = j /\ exec'[e].pc = "recorded" /\ exec'[e].ok = exec[e].ok
    BY <1>0, <1>2, <2>1 DEF Execution
  <2>4. Busy(j)' = {e}
    BY <2>2, <2>3 DEF Busy
  <2>5. failing[j] = saved[j].failures
    BY <1>1, <2>1, <2>2
  <2>6. failing'[j] = IF exec[e].ok THEN 0 ELSE failing[j] + 1
    BY <1>0, <1>2 DEF Record, DatabaseFails, Slip, Typed, DaemonTypeOK
  <2>7. saved' = saved
    BY <1>2 DEF Record
  <2>8. QED
    BY <2>3, <2>4, <2>5, <2>6, <2>7
<1>3. ASSUME NEW e \in Executions, UpdateState(e), exec[e].job = j
      PROVE  Busy(j)' \subseteq {e} /\ exec'[e].pc = "updated" /\ failing'[j] = saved'[j].failures
  <2>1. exec[e].pc = "recorded" /\ exec' = [exec EXCEPT ![e].pc = "updated"] /\ failing' = failing
    BY <1>3 DEF UpdateState, Goto
  <2>2. Busy(j) = {e} /\ Busy(j)' \subseteq {e}
    BY <1>0, <1>3, <2>1, Midst DEF Busy
  <2>3. failing[j] = IF exec[e].ok THEN 0 ELSE saved[j].failures + 1
    BY <1>1, <2>1, <2>2
  <2>4. mem[j] = saved[j] /\ mem'[j] = saved'[j]
    BY <1>0, <1>3, Midst, SavedStep DEF MemorySaved
  <2>5. mem'[j] = Result(mem[j], exec[e].ok)
    BY <1>3 DEF UpdateState, Typed, DaemonTypeOK
  <2>6. saved'[j].failures = IF exec[e].ok THEN 0 ELSE saved[j].failures + 1
    BY <1>0, <2>4, <2>5 DEF Result, JobState
  <2>7. exec'[e].pc = "updated"
    BY <1>0, <1>3, <2>1 DEF Execution
  <2>8. QED
    BY <2>1, <2>2, <2>3, <2>6, <2>7
<1>4. ASSUME \A e \in Executions : Record(e) \/ UpdateState(e) => exec[e].job # j
      PROVE  failing'[j] = failing[j] /\ saved'[j].failures = saved[j].failures
  <2>1. failing'[j] = failing[j]
    <3>1. ASSUME NEW e \in Executions, Record(e)
          PROVE  failing'[j] = failing[j]
      BY <1>0, <1>4, <3>1 DEF Record
    <3>2. QED
      BY <3>1, DaemonCases DEF Typed, Begins, Start, Refuse, RunBackup, UpdateState, AlertFailure,
         Deliver, Complete, Tell, Watched, Check_overdue_jobs, RunUnknown, Await, Return, Tick,
         Stop, GoDown, Restart, vars
  <2>2. saved'[j].failures = saved[j].failures
    BY <1>0, <1>4, SavedStep DEF JobState
  <2>3. QED
    BY <2>1, <2>2
<1>5. CASE GoDown
  <2>1. \A e \in Busy(j) : exec[e].pc # "recorded"
    BY <1>0, <1>5 DEF GoDown
  <2>2. failing' = failing /\ saved' = saved /\ Busy(j)' = {}
    BY <1>5, DownIdle DEF GoDown
  <2>3. QED
    BY <1>1, <2>1, <2>2
<1>6. ASSUME ~GoDown, \A e \in Executions : Record(e) \/ UpdateState(e) => exec[e].job # j
      PROVE  /\ \A e \in Busy(j)' :
                  exec'[e].pc = "recorded" => e \in Busy(j) /\ exec'[e] = exec[e]
             /\ \A e \in Busy(j) :
                  exec[e].pc = "recorded" => e \in Busy(j)' /\ exec'[e] = exec[e]
  <2>1. \A e \in Busy(j) : exec[e].job = j /\ e \in Executions
    BY DEF Busy
  <2>2. ASSUME NEW e \in Busy(j)', exec'[e].pc = "recorded"
        PROVE  e \in Busy(j) /\ exec'[e] = exec[e]
    BY <1>6, <2>1, <2>2, StageStep
  <2>3. ASSUME NEW e \in Busy(j), exec[e].pc = "recorded"
        PROVE  e \in Busy(j)' /\ exec'[e] = exec[e]
    <3>1. ASSUME NEW f \in Executions, NEW k \in Jobs, Begins(f, k)
          PROVE  e \in Busy(j)' /\ exec'[e] = exec[e]
      BY <2>1, <3>1, Beginning DEF Busy
    <3>2. ASSUME NEW f \in Executions,
                 \/ Refuse(f) \/ RunBackup(f) \/ Record(f) \/ UpdateState(f)
                 \/ AlertFailure(f) \/ Deliver(f) \/ Complete(f)
          PROVE  f # e
      BY <1>6, <2>1, <2>3, <3>2 DEF Refuse, RunBackup, Record, UpdateState, AlertFailure,
         Deliver, Complete,
         Goto, Leave
    <3>3. ASSUME NEW f \in Executions,
                 \/ Refuse(f) \/ RunBackup(f) \/ Record(f) \/ UpdateState(f)
                 \/ AlertFailure(f) \/ Deliver(f) \/ Complete(f)
          PROVE  e \in Busy(j)' /\ exec'[e] = exec[e]
      BY <2>1, <2>3, <3>2, <3>3, Midst DEF Busy
    <3>4. ASSUME \/ Watched \/ Await \/ Return \/ Tick \/ Stop \/ Restart \/ UNCHANGED vars
                 \/ \E k \in Jobs : Tell(k)
          PROVE  e \in Busy(j)' /\ exec'[e] = exec[e]
      BY <2>3, <3>4, Aside
    <3>5. QED
      BY <1>6, <3>1, <3>3, <3>4, DaemonCases DEF Typed
  <2>4. QED
    BY <2>2, <2>3
<1>7. CASE ~GoDown /\ \A e \in Executions : Record(e) \/ UpdateState(e) => exec[e].job # j
  BY <1>1, <1>4, <1>6, <1>7
<1>8. QED
  BY <1>2, <1>3, <1>5, <1>7

\* The consecutive failures that the daemon holds of a job are those at the end
\* of its history, also after it was killed and started again.
THEOREM FailuresMatchHistoryCorrect == Spec => []FailuresMatchHistory
<1>1. Init => OneAtATime /\ MemorySaved /\ Tally
  BY JobsAssumption DEF Init, OneAtATime, MemorySaved, Tally, Busy, Idle, NoState
<1>2. Typed /\ OneAtATime /\ MemorySaved /\ Tally /\ [Next]_vars
        => OneAtATime' /\ MemorySaved' /\ Tally'
  BY OneAtATimeStep, MemorySavedStep, TallyStep
<1>3. MemorySaved /\ Tally => FailuresMatchHistory
  BY DEF MemorySaved, Tally, FailuresMatchHistory
<1>4. Typed <=> DaemonTypeOK /\ JobsOfExecutions
  BY DEF Typed
<1>5. QED
  BY <1>1, <1>2, <1>3, <1>4, DaemonTypeCorrect, PTL DEF Spec

-------------------------------------------------------------------------------
(***************************************************************************)
(* The alerts                                                              *)
(***************************************************************************)

LEMMA FailuresPastStep ==
  ASSUME Typed, FailuresPast, [Next]_vars
  PROVE  FailuresPast'
<1>0. /\ now \in Nat /\ now' \in Nat /\ now <= now'
      /\ mem \in [Jobs -> JobState] /\ saved \in [Jobs -> JobState]
  <2>1. now' = now \/ now' = now + 1
    BY DaemonCases DEF Typed, Begins, Start, Refuse, RunBackup, Record, UpdateState, AlertFailure,
       Deliver, Complete, Tell, Watched, Check_overdue_jobs, RunUnknown, Await, Return, Tick,
       Stop, GoDown, Restart, vars, clock
  <2>2. QED
    BY <2>1 DEF Typed, DaemonTypeOK
<1> DEFINE Past(state) == state.lastFailure <= now'
<1>1. \A k \in Jobs : mem[k].lastFailure \in Nat /\ saved[k].lastFailure \in Nat
  BY <1>0 DEF JobState
<1>2. \A k \in Jobs : Past(mem[k]) /\ Past(saved[k])
  BY <1>0, <1>1 DEF FailuresPast
<1>3. ASSUME NEW k \in Jobs, NEW state, Past(state), mem' = [mem EXCEPT ![k] = state], Persist(k)
      PROVE  \A i \in Jobs : Past(mem'[i]) /\ Past(saved'[i])
  BY <1>0, <1>2, <1>3 DEF Persist
<1>4. ASSUME NEW e \in Executions, UpdateState(e)
      PROVE  \A i \in Jobs : Past(mem'[i]) /\ Past(saved'[i])
  <2>1. exec[e].job \in Jobs /\ mem[exec[e].job] \in JobState
    BY <1>0, <1>4, Midst
  <2>2. ASSUME NEW state \in JobState, NEW ok
        PROVE  Result(state, ok).lastFailure \in {0, now}
    BY DEF Result, JobState
  <2>3. Past(Result(mem[exec[e].job], exec[e].ok))
    BY <1>0, <2>1, <2>2
  <2>4. QED
    BY <1>3, <1>4, <2>1, <2>3 DEF UpdateState
<1>5. ASSUME NEW e \in Executions, AlertFailure(e)
      PROVE  \A i \in Jobs : Past(mem'[i]) /\ Past(saved'[i])
  <2>1. exec[e].job \in Jobs
    BY <1>5, Midst
  <2>2. Past([mem[exec[e].job] EXCEPT !.failureAlert = now])
    BY <1>0, <1>2, <2>1 DEF JobState
  <2>3. QED
    BY <1>2, <1>3, <1>5, <2>1, <2>2 DEF AlertFailure
<1>6. ASSUME NEW j \in Jobs, Tell(j)
      PROVE  \A i \in Jobs : Past(mem'[i]) /\ Past(saved'[i])
  <2>1. Past([mem[j] EXCEPT !.missedAlert = now])
    BY <1>0, <1>2 DEF JobState
  <2>2. QED
    BY <1>2, <1>3, <1>6, <2>1 DEF Tell, Send_missed_notification
<1>7. ASSUME \/ \E e \in Executions, k \in Jobs : Begins(e, k)
             \/ \E e \in Executions :
                  Refuse(e) \/ RunBackup(e) \/ Record(e) \/ Deliver(e) \/ Complete(e)
             \/ Watched \/ Await \/ Return \/ Tick \/ Stop \/ UNCHANGED vars
      PROVE  UNCHANGED <<mem, saved>>
  BY <1>7 DEF Begins, Start, Refuse, RunBackup, Record, Deliver, Complete, Watched,
     Check_overdue_jobs, RunUnknown, Await, Return, Tick, Stop, vars
<1>8. ASSUME GoDown \/ Restart
      PROVE  \A i \in Jobs : Past(mem'[i]) /\ Past(saved'[i])
  BY <1>0, <1>2, <1>8 DEF GoDown, Restart, NoState
<1>9. \A i \in Jobs : Past(mem'[i]) /\ Past(saved'[i])
  BY <1>2, <1>4, <1>5, <1>6, <1>7, <1>8, DaemonCases DEF Typed
<1>10. QED
  BY <1>9 DEF FailuresPast

\* An alert that comes after the last failure, or that is still recent, settles it.
LEMMA AlertSettles ==
  ASSUME Typed, NEW state \in JobState, state.lastFailure <= now
  PROVE  /\ Alerted([state EXCEPT !.failureAlert = now])
         /\ Recently(state.failureAlert) => Alerted(state)
         /\ Alerted([state EXCEPT !.missedAlert = now]) <=> Alerted(state)
         /\ Threshold > 0 => Alerted(Result(state, TRUE))
<1>0. now \in Nat \ {0} /\ Gap \in Nat \ {0} /\ Threshold \in Nat
  BY NumbersAssumption, GapAssumption DEF Typed, DaemonTypeOK
<1>1. Alerted([state EXCEPT !.failureAlert = now])
  BY <1>0 DEF Alerted, JobState
<1>2. Recently(state.failureAlert) => Alerted(state)
  BY <1>0 DEF Alerted, JobState, Recently
<1>3. Alerted([state EXCEPT !.missedAlert = now]) <=> Alerted(state)
  BY DEF Alerted, JobState
<1>4. Threshold > 0 => Alerted(Result(state, TRUE))
  BY <1>0 DEF Alerted, JobState, Result
<1>5. QED
  BY <1>1, <1>2, <1>3, <1>4

\* The execution that has saved a failure owes the alert until it has looked
\* whether one is due.
LEMMA AlertOwedStep ==
  ASSUME Typed, MemorySaved, FailuresPast, AlertOwed, [Next]_vars
  PROVE  AlertOwed'
<1> SUFFICES ASSUME NEW j \in Jobs, Threshold > 0, slips'[j] \subseteq {"refused", "overlap"}
             PROVE  Alerted(saved'[j]) \/ Owing(j)' # {}
  BY DEF AlertOwed, Alerted
<1>0. /\ slips[j] \subseteq {"refused", "overlap"} /\ "database" \notin slips'[j]
      /\ exec \in [Executions -> Execution]
      /\ saved[j] \in JobState /\ saved[j].lastFailure <= now
  BY SlipsGrow DEF Typed, DaemonTypeOK, FailuresPast
<1>1. Alerted(saved[j]) \/ Owing(j) # {}
  BY <1>0 DEF AlertOwed
<1>2. ASSUME NEW e \in Executions, UpdateState(e), exec[e].job = j
      PROVE  Alerted(saved'[j]) \/ Owing(j)' # {}
  <2>1. saved'[j] = Result(saved[j], exec[e].ok)
    <3>1. mem'[j] = saved'[j] /\ mem[j] = saved[j]
      BY <1>0, <1>2, Midst, SavedStep DEF MemorySaved
    <3>2. mem'[j] = Result(mem[j], exec[e].ok)
      BY <1>2 DEF UpdateState, Typed, DaemonTypeOK
    <3>3. QED
      BY <3>1, <3>2
  <2>2. CASE exec[e].ok
    <3>1. exec[e].ok = TRUE
      BY <1>0, <2>2 DEF Execution
    <3>2. Alerted(Result(saved[j], TRUE))
      BY <1>0, AlertSettles
    <3>3. QED
      BY <2>1, <3>1, <3>2
  <2>3. CASE ~exec[e].ok
    <3>1. exec'[e].job = j /\ exec'[e].pc = "updated" /\ ~exec'[e].ok
      BY <1>0, <1>2, <2>3 DEF UpdateState, Goto, Execution
    <3>2. e \in Owing(j)'
      BY <3>1 DEF Owing, Busy
    <3>3. QED
      BY <3>2
  <2>4. QED
    BY <2>2, <2>3
<1>3. ASSUME NEW e \in Executions, AlertFailure(e), exec[e].job = j, ~exec[e].ok
      PROVE  Alerted(saved'[j])
  <2>1. mem'[j] = saved'[j] /\ mem[j] = saved[j] /\ mem \in [Jobs -> JobState]
    BY <1>0, <1>3, Midst, SavedStep DEF MemorySaved, Typed, DaemonTypeOK
  <2>2. CASE mem' = mem /\ (mem[j].failures < Threshold \/ Recently(mem[j].failureAlert))
    <3>1. mem[j].failures < Threshold => Alerted(mem[j])
      BY NumbersAssumption, <2>1 DEF Alerted, JobState
    <3>2. QED
      BY <1>0, <2>1, <2>2, <3>1, AlertSettles
  <2>3. CASE mem' = [mem EXCEPT ![j].failureAlert = now]
    <3>1. saved'[j] = [saved[j] EXCEPT !.failureAlert = now]
      BY <2>1, <2>3
    <3>2. Alerted([saved[j] EXCEPT !.failureAlert = now])
      BY <1>0, AlertSettles
    <3>3. QED
      BY <3>1, <3>2
  <2>4. Threshold # 0
    BY NumbersAssumption
  <2>5. QED
    BY <1>3, <2>2, <2>3, <2>4 DEF AlertFailure
<1>4. ASSUME NEW e \in Executions, AlertFailure(e), exec[e].job = j, exec[e].ok
      PROVE  saved'[j] = saved[j] /\ Owing(j) \subseteq Owing(j)'
  <2>1. saved' = saved
    BY <1>4 DEF AlertFailure
  <2>2. \A f \in Owing(j) : f # e
    BY <1>4 DEF Owing
  <2>3. QED
    BY <1>4, <2>1, <2>2, Midst DEF Owing, Busy
<1>5. CASE GoDown
  <2>1. Owing(j) = {}
    BY <1>0, <1>5 DEF GoDown, Owing
  <2>2. QED
    BY <1>1, <1>5, <2>1 DEF GoDown
<1>6. ASSUME ~GoDown, \A e \in Executions : AlertFailure(e) => exec[e].job # j
      PROVE  Owing(j) \subseteq Owing(j)'
  <2> SUFFICES ASSUME NEW e \in Owing(j)
               PROVE  e \in Busy(j)' /\ exec'[e] = exec[e]
    BY DEF Owing
  <2>1. e \in Busy(j) /\ e \in Executions /\ exec[e].job = j /\ exec[e].pc = "updated"
    BY DEF Owing, Busy
  <2>2. ASSUME NEW f \in Executions, NEW k \in Jobs, Begins(f, k)
        PROVE  e \in Busy(j)' /\ exec'[e] = exec[e]
    BY <2>1, <2>2, Beginning DEF Busy
  <2>3. ASSUME NEW f \in Executions,
               \/ Refuse(f) \/ RunBackup(f) \/ Record(f) \/ UpdateState(f)
               \/ AlertFailure(f) \/ Deliver(f) \/ Complete(f)
        PROVE  e \in Busy(j)' /\ exec'[e] = exec[e]
    <3>1. f # e
      BY <1>6, <2>1, <2>3 DEF Refuse, RunBackup, Record, UpdateState, Deliver, Complete, Goto,
         Leave
    <3>2. QED
      BY <2>1, <2>3, <3>1, Midst DEF Busy
  <2>4. ASSUME \/ Watched \/ Await \/ Return \/ Tick \/ Stop \/ Restart \/ UNCHANGED vars
               \/ \E k \in Jobs : Tell(k)
        PROVE  e \in Busy(j)' /\ exec'[e] = exec[e]
    BY <2>1, <2>4, Aside
  <2>5. QED
    BY <1>6, <2>2, <2>3, <2>4, DaemonCases DEF Typed
<1>7. CASE ~GoDown /\ \A e \in Executions : AlertFailure(e) \/ UpdateState(e) => exec[e].job # j
  <2>1. \/ saved'[j] = saved[j]
        \/ saved'[j] = [saved[j] EXCEPT !.missedAlert = now]
    BY <1>0, <1>7, SavedStep
  <2>2. Alerted([saved[j] EXCEPT !.missedAlert = now]) <=> Alerted(saved[j])
    BY <1>0, AlertSettles
  <2>3. QED
    BY <1>1, <1>6, <1>7, <2>1, <2>2
<1>8. QED
  BY <1>1, <1>2, <1>3, <1>4, <1>5, <1>7

\* A streak of failures that has reached the threshold has been alerted no longer
\* than Gap before its last failure, across restarts and however executions of the
\* job race for the alert.
THEOREM StreakAlertedCorrect == Spec => []StreakAlerted
<1>1. Init => MemorySaved /\ FailuresPast /\ AlertOwed
  BY NumbersAssumption DEF Init, MemorySaved, FailuresPast, AlertOwed, Alerted, NoState
<1>2. Typed /\ MemorySaved /\ FailuresPast /\ AlertOwed /\ [Next]_vars
        => MemorySaved' /\ FailuresPast' /\ AlertOwed'
  BY MemorySavedStep, FailuresPastStep, AlertOwedStep
<1>3. MemorySaved /\ AlertOwed => StreakAlerted
  BY DEF MemorySaved, AlertOwed, Alerted, Owing, StreakAlerted
<1>4. Typed <=> DaemonTypeOK /\ JobsOfExecutions
  BY DEF Typed
<1>5. QED
  BY <1>1, <1>2, <1>3, <1>4, DaemonTypeCorrect, PTL DEF Spec

\* Whoever saves the state of a job saves the time of its last overdue alert with it.
LEMMA ToldSavedStep ==
  ASSUME Typed, MemorySaved, ToldSaved, [Next]_vars
  PROVE  /\ ToldSaved'
         /\ \A j \in Jobs :
              sent'[j] # sent[j] /\ sent[j] # 0 /\ "database" \notin slips[j] =>
                now >= sent[j] + MissedGap[j]
<1>0. /\ now \in Nat /\ MissedGap \in [Jobs -> Nat]
      /\ saved \in [Jobs -> JobState] /\ mem \in [Jobs -> JobState] /\ sent \in [Jobs -> Nat]
  BY JobsAssumption DEF Typed, DaemonTypeOK
<1>1. ASSUME NEW j \in Jobs, sent'[j] # sent[j]
      PROVE  /\ Tell(j) /\ sent'[j] = now
             /\ mem' = [mem EXCEPT ![j].missedAlert = now]
             /\ mem[j].missedAlert = 0 \/ ~(now < mem[j].missedAlert + MissedGap[j])
  <2>1. \E k \in Jobs : Tell(k)
    BY <1>1, DaemonCases DEF Typed, Begins, Start, Refuse, RunBackup, Record, UpdateState,
       AlertFailure, Deliver, Complete, Watched, Check_overdue_jobs, RunUnknown, Await, Return,
       Tick, Stop, GoDown, Restart, vars
  <2>2. QED
    BY <1>0, <1>1, <2>1 DEF Tell, Send_missed_notification
<1>2. ASSUME NEW j \in Jobs, "database" \notin slips'[j]
      PROVE  saved'[j].missedAlert = sent'[j]
  <2>1. saved[j].missedAlert = sent[j] /\ saved[j] \in JobState
    BY <1>0, <1>2, SlipsGrow DEF ToldSaved
  <2>2. CASE sent'[j] = sent[j]
    <3>1. ASSUME NEW state \in JobState, NEW ok
          PROVE  /\ Result(state, ok).missedAlert = state.missedAlert
                 /\ [state EXCEPT !.failureAlert = now].missedAlert = state.missedAlert
      BY DEF Result, JobState
    <3>2. ASSUME Tell(j)
          PROVE  saved'[j].missedAlert = sent'[j]
      <4>1. up # "down" /\ mem[j] = saved[j] /\ up' = up
        BY <1>2, <3>2, SlipsGrow DEF Tell, MemorySaved, clock
      <4>2. mem'[j] = saved'[j]
        BY <1>2, <4>1, SavedStep
      <4>3. \/ mem'[j] = mem[j]
            \/ sent'[j] = now /\ mem'[j] = [mem[j] EXCEPT !.missedAlert = now]
        BY <1>0, <3>2 DEF Tell, Send_missed_notification
      <4>4. QED
        BY <1>0, <2>1, <2>2, <4>1, <4>2, <4>3 DEF JobState
    <3>3. \/ saved'[j] = saved[j] \/ Tell(j)
          \/ \E e \in Executions : saved'[j] = Result(saved[j], exec[e].ok)
          \/ saved'[j] = [saved[j] EXCEPT !.failureAlert = now]
      BY <1>2, SavedStep
    <3>4. QED
      BY <2>1, <2>2, <3>1, <3>2, <3>3
  <2>3. CASE sent'[j] # sent[j]
    <3>1. up' # "down" /\ mem'[j].missedAlert = now
      BY <1>0, <1>1, <2>3 DEF Tell, clock, JobState
    <3>2. QED
      BY <1>1, <1>2, <2>3, <3>1, SavedStep
  <2>4. QED
    BY <2>2, <2>3
<1>3. ASSUME NEW j \in Jobs, sent'[j] # sent[j], sent[j] # 0, "database" \notin slips[j]
      PROVE  now >= sent[j] + MissedGap[j]
  <2>1. mem[j].missedAlert = sent[j]
    BY <1>1, <1>3 DEF Tell, MemorySaved, ToldSaved
  <2>2. QED
    BY <1>0, <1>1, <1>3, <2>1
<1>4. QED
  BY <1>2, <1>3 DEF ToldSaved

\* An overdue job is not told of again within MissedGap, whatever restarts came
\* between, unless the database failed.
THEOREM AlertsSpacedCorrect == Spec => AlertsSpaced
<1>1. Init => MemorySaved /\ ToldSaved
  BY DEF Init, MemorySaved, ToldSaved, NoState
<1>2. Typed /\ MemorySaved /\ ToldSaved /\ [Next]_vars
        => /\ MemorySaved' /\ ToldSaved'
           /\ \A j \in Jobs :
                sent'[j] # sent[j] /\ sent[j] # 0 /\ "database" \notin slips[j] =>
                  now >= sent[j] + MissedGap[j]
  BY MemorySavedStep, ToldSavedStep
<1>3. Typed <=> DaemonTypeOK /\ JobsOfExecutions
  BY DEF Typed
<1>4. QED
  BY <1>1, <1>2, <1>3, DaemonTypeCorrect, PTL DEF Spec, AlertsSpaced
===============================================================================
