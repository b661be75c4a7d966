---------------------------- MODULE RepositoryLock ----------------------------
(***************************************************************************)
(* The lock file .borg.lock of a local repository (borg-core/src/lock.rs). *)
(*                                                                         *)
(* acquire asks is_locked, then creates the file and writes who holds it.  *)
(* is_locked looks whether the file exists, reads it, and removes it if it *)
(* is not the JSON of a LockInfo.  These are system calls of their own,    *)
(* and nothing ties one to the next: File::create truncates a file that is *)
(* there, and a file may be unlinked while another process has it open.    *)
(*                                                                         *)
(* The holder is the backup of borg-gui's create_archive, which lets the   *)
(* lock go when its RepositoryLock is dropped.                             *)
(***************************************************************************)
EXTENDS Naturals

CONSTANTS
  Procs,     \* processes that use the lock
  Timeout    \* timeout_secs of wait_for_unlock, in polls of one second

ASSUME TimeoutIsNat == Timeout \in Nat
ASSUME ProcsAreNotContents == Procs \cap {"none", "empty", "garbled"} = {}

VARIABLES
  file,    \* the lock file: absent, empty, not a LockInfo, or naming its owner
  linked,  \* the processes about to write through an open file that is the
           \* lock file still; the file others have open was unlinked
  at,      \* at[p]: where process p is
  mode,    \* mode[p]: what asked is_locked, acquire or wait_for_unlock
  left,    \* left[p]: polls until the timeout of wait_for_unlock
  failed   \* has a process been killed, or failed to write its file or to
           \* remove it? (history)

lockVars == <<file, linked, at, mode, left, failed>>

PC == {"idle", "read", "remove", "sleep", "create", "write", "held", "unlink",
       "dead"}

LockTypeOK ==
  /\ file \in {"none", "empty", "garbled"} \cup Procs
  /\ linked \subseteq {p \in Procs : at[p] = "write"}
  /\ at \in [Procs -> PC]
  /\ mode \in [Procs -> {"acquire", "wait"}]
  /\ left \in [Procs -> 0 .. Timeout]
  /\ failed \in BOOLEAN

LockInit ==
  /\ file = "none"
  /\ linked = {}
  /\ at = [p \in Procs |-> "idle"]
  /\ mode = [p \in Procs |-> "acquire"]
  /\ left = [p \in Procs |-> 0]
  /\ failed = FALSE

Goes(p, from, to) ==
  /\ at[p] = from
  /\ at' = [at EXCEPT ![p] = to]

\* The name goes; those who have the file open keep an unlinked file.
UnlinkFile ==
  /\ file' = "none"
  /\ linked' = {}

\* Where p goes on once is_locked has said "not locked".
AfterUnlocked(m) == IF m = "acquire" THEN "create" ELSE "idle"

\* is_locked: the file does not exist, or there is something to read.
LookAtFile(p, m, from) ==
  /\ Goes(p, from, IF file = "none" THEN AfterUnlocked(m) ELSE "read")
  /\ UNCHANGED <<file, linked>>

\* acquire or wait_for_unlock is called.
Call(p, m) ==
  /\ LookAtFile(p, m, "idle")
  /\ mode' = [mode EXCEPT ![p] = m]
  /\ left' = [left EXCEPT ![p] = Timeout]
  /\ UNCHANGED failed

\* Faulty: the timeout starts anew at every poll.
PollAnew(p) ==
  /\ LookAtFile(p, "wait", "sleep")
  /\ UNCHANGED <<mode, left, failed>>

\* wait_for_unlock: a second has passed, look again.
Poll(p) ==
  /\ LookAtFile(p, "wait", "sleep")
  /\ left' = [left EXCEPT ![p] = @ - 1]
  /\ UNCHANGED <<mode, failed>>

\* is_locked reads a LockInfo: acquire fails, wait_for_unlock sleeps or gives up.
ReadOwner(p) ==
  /\ file \in Procs
  /\ Goes(p, "read", IF mode[p] = "wait" /\ left[p] > 0 THEN "sleep" ELSE "idle")
  /\ UNCHANGED <<file, linked, mode, left, failed>>

\* Faulty: a LockInfo is taken for invalid.
ReadAnyAsInvalid(p) ==
  /\ Goes(p, "read", "remove")
  /\ UNCHANGED <<file, linked, mode, left, failed>>

\* is_locked can read no LockInfo, be it because the file is gone.
ReadInvalid(p) ==
  /\ file \notin Procs
  /\ Goes(p, "read", "remove")
  /\ UNCHANGED <<file, linked, mode, left, failed>>

\* is_locked removes the file, whatever it holds by now.
RemoveInvalid(p) ==
  /\ Goes(p, "remove", AfterUnlocked(mode[p]))
  /\ UnlinkFile
  /\ UNCHANGED <<mode, left, failed>>

\* acquire: File::create makes the file, or empties the one that is there.
Create(p) ==
  /\ Goes(p, "create", "write")
  /\ file' = "empty"
  /\ linked' = linked \cup {p}
  /\ UNCHANGED <<mode, left, failed>>

\* What the file holds after p wrote over it from its start: if another wrote
\* before, the end of a longer text is left behind the new one.
Overwritten(p) == IF file = "empty" THEN {p} ELSE {p, "garbled"}

WriteFile(p) ==
  /\ linked' = linked \ {p}
  /\ IF p \in linked THEN file' \in Overwritten(p) ELSE UNCHANGED file
  /\ UNCHANGED <<mode, left>>

\* acquire: the lock file is written and synced, the lock is held.
Write(p) ==
  /\ Goes(p, "write", "held")
  /\ WriteFile(p)
  /\ UNCHANGED failed

\* drop: release looks whether there is a lock file, anybody's ...
Release(p) ==
  /\ Goes(p, "held", IF file = "none" THEN "idle" ELSE "unlink")
  /\ UNCHANGED <<file, linked, mode, left, failed>>

\* Faulty: release removes the lock file only if it names this process.
UnlinkOwn(p) ==
  /\ Goes(p, "unlink", "idle")
  /\ IF file = p THEN UnlinkFile ELSE UNCHANGED <<file, linked>>
  /\ UNCHANGED <<mode, left, failed>>

\* ... and removes it.
Unlink(p) ==
  /\ Goes(p, "unlink", "idle")
  /\ UnlinkFile
  /\ UNCHANGED <<mode, left, failed>>

\* acquire fails: to create the file, to write it, or, once it is written, to
\* sync it.  lock_info is not set, so the drop leaves the file where it is.
CreateFails(p) ==
  /\ Goes(p, "create", "idle")
  /\ UNCHANGED <<file, linked, mode, left, failed>>

WriteFails(p) ==
  /\ Goes(p, "write", "idle")
  /\ linked' = linked \ {p}
  /\ failed' = TRUE
  /\ UNCHANGED <<file, mode, left>>

SyncFails(p) ==
  /\ Goes(p, "write", "idle")
  /\ WriteFile(p)
  /\ failed' = TRUE

\* is_locked goes on as if the file it failed to remove were gone.
RemoveFails(p) ==
  /\ Goes(p, "remove", AfterUnlocked(mode[p]))
  /\ UNCHANGED <<file, linked, mode, left, failed>>

\* release fails to remove the file, and drop says nothing of it.
UnlinkFails(p) ==
  /\ file # "none"
  /\ Goes(p, "unlink", "idle")
  /\ failed' = TRUE
  /\ UNCHANGED <<file, linked, mode, left>>

\* The process is killed; no drop runs.
Kill(p) ==
  /\ at[p] # "dead"
  /\ at' = [at EXCEPT ![p] = "dead"]
  /\ linked' = linked \ {p}
  /\ failed' = TRUE
  /\ UNCHANGED <<file, mode, left>>

IsLockedStep(p) == Poll(p) \/ ReadOwner(p) \/ ReadInvalid(p) \/ RemoveInvalid(p)

AcquireStep(p) == Create(p) \/ Write(p)

ReleaseStep(p) == Release(p) \/ Unlink(p)

Fault(p) ==
  \/ CreateFails(p) \/ WriteFails(p) \/ SyncFails(p)
  \/ RemoveFails(p) \/ UnlinkFails(p)
  \/ Kill(p)

LockNext ==
  \E p \in Procs :
    \/ \E m \in {"acquire", "wait"} : Call(p, m)
    \/ IsLockedStep(p)
    \/ AcquireStep(p)
    \/ ReleaseStep(p)
    \/ Fault(p)

LockSpec == LockInit /\ [][LockNext]_lockVars

\* A process that runs goes on: with is_locked and acquire, and, its backup
\* over, with the drop.  Nothing obliges a process to call, to fail or to die.
Running(p) == IsLockedStep(p) \/ AcquireStep(p) \/ ReleaseStep(p)

LockFairSpec == LockSpec /\ \A p \in Procs : WF_lockVars(Running(p))

-------------------------------------------------------------------------------
(***************************************************************************)
(* Properties                                                              *)
(***************************************************************************)

\* The lock file names p, which holds the lock, and no other process has got
\* further than looking at the file.
Settled(p) ==
  /\ at[p] = "held"
  /\ file = p
  /\ \A q \in Procs \ {p} : at[q] \in {"idle", "read", "sleep", "dead"}

\* A settled lock stands: until p lets it go or dies, nobody else gets to
\* create, remove or overwrite the lock file.  This is what the check in
\* is_locked is worth once the acquisition did not race.
LockStands ==
  [][\A p \in Procs : Settled(p) /\ at'[p] = "held" => Settled(p)']_lockVars

\* If no process was killed or failed to write or remove its own file, no lock is
\* left behind: the file is there only while a process that will remove it has
\* the lock or is getting it.  It holds though processes remove one another's
\* files, and though is_locked may fail to remove one.
NothingLeftBehind ==
  ~failed /\ file # "none" =>
    \E p \in Procs : at[p] \in {"write", "held", "unlink"}

\* wait_for_unlock returns, however long the lock is held, though the lock be
\* one that a dead process left.
WaitReturns ==
  \A p \in Procs :
    mode[p] = "wait" /\ at[p] \in {"read", "remove", "sleep"}
      ~> at[p] \in {"idle", "dead"}

===============================================================================
