# Formal models of borgrs-backup

TLA+ models of the backup program in `src/borg-rs`: the repository with its
garbage collector, its verification, its keys and its lock file, the files of a
chunk with their recovery data, the making and restoring of archives, the search
catalog, the synchronisation with WebDAV servers, the daemon, and the task list,
the password dialog and the dashboard of the GUI. TLC checks each of them on
small instances; TLAPS proves the safety properties the runs check, those of the
repository first, for every size (`KeepsPromise` without damage). What is only checked
is liveness, and that promise under damage.

All paths below are relative to `src/borg-rs`, and `PROJECT.json` maps every
definition that models code to the lines it stands for.

Contents

1. [The system](#1-the-system): components, state, interaction, hazards
2. [The modules](#2-the-modules) and how they correspond to the code
3. [The runs](#3-the-runs), bounds and fairness
4. [The proofs](#4-the-proofs)
5. [Where code and documentation disagree](#5-where-code-and-documentation-disagree)
6. [What is not modelled](#6-what-is-not-modelled)
7. [The plan](#7-the-plan)

How to run everything, from this directory:

    tlc -workers 2 -config RepositoryVerify.cfg MCRepositoryVerify.tla   # any run of section 3
    tlapm RepositoryProofs.tla                                            # any *Proofs module

## 1. The system

borgrs-backup is a deduplicating, optionally encrypted backup program in Rust:
a library (`borg-core`), a command line (`borg-cli`), a daemon (`borg-daemon`)
and a desktop application (`borg-gui`). There is no server. Every command, the
daemon's jobs and the GUI open *handles* of the library on the same repository,
which is a directory of files behind an `opendal` operator, local or remote.
Handles share nothing but these files, so most of what is hard about the
program is what several handles do to one repository at a time, what a process
that dies leaves in it, and what the two schedulers make of failures.

### Components

Every component is listed in `PROJECT.json` with its sources and its status.
"Hard" says what is difficult to test, "correct" which properties the component
owes its callers; those in `code` are checked here.

**Repository core** (`borg-core/src/repository.rs`, `metadata.rs`, the creation part
of `archive.rs`). State: `objects/`, `snapshots/`, `repo.json`, `keys/`, and per
handle the `chunk_cache` filled once at `open`. Operations: `open`, `put_chunk`,
`get_chunk`, `commit_archive`, `load_manifest`, `delete_archive`. Hard: handles run
side by side with caches that grow stale; a process dies between chunk, root and
snapshot; a listing drops the snapshot files it cannot read. Correct: a committed
archive can be restored, but for what the medium has lost since (`Restorable`,
`RestorableUnlessLost`); it appears complete and only a deletion takes it away
(`KeepsPromise`).

**Garbage collection** (`repository.rs`, `gc` and `traverse_tree`). State: what
it has listed and reached, in memory. Operations: list snapshots, walk, list
objects, delete. Hard: nothing keeps a backup from running meanwhile; unreadable
trees count as empty; it may be interrupted. Correct: what is reachable stays
(`ArchivesSpared`), the rest goes (`NoGarbageLeft`).

**Verification** (`borg-cli/src/commands/verify.rs`, `verify_all` and
`verify_archive` of `borg-core/src/verification.rs`). State: the chunk index of
its handle, what is left to read, what has been reported. Operations: read every
chunk, look the chunks of every archive up, restore a sample. Hard: it takes no
lock, its index is of when it began and its listings are of later, objects are
damaged before, during and after it looks. Correct: what it has passed is sound
(`PassedIsSound`), what it misses is lost or new (`MissingIsLostOrNew`).

**Repository creation and keys** (`init`, `import_key` and `export_key` of
`repository.rs`, `borg-cli/src/commands/key.rs` and `init.rs`, the wizard, the
session's passwords and the keyring in `app_state.rs`). State: `repo.json`, the key
file, the passwords kept. Operations: make, open, change the passphrase, import. Hard:
descriptor and key are two writes, the key file is emptied and filled in place, the
key changes while others hold it, two make one repository. Correct: the key file holds
the key the data is stored under (`KeyFits`), the passphrase reported last opens it
(`ReportedOpens`).

**Repository lock** (`lock.rs`, taken by `borg-gui/src/commands.rs`). State: one
file. Operations: `acquire`, `is_locked`, `release` on drop, `wait_for_unlock`.
Hard: check and creation are separate system calls, an invalid file is removed
by whoever looks, a killed process runs no drop. Correct: a lock stands
(`LockStands`), none is left behind (`NothingLeftBehind`), waiting ends
(`WaitReturns`).

**Chunk files, recovery codec, chunk verification** (`repository.rs`, `recovery.rs`,
`verification.rs`, `storage.rs`, with `crypto.rs` and `compression.rs` for what
reading damaged bytes may give). State: the object and the recovery file of a chunk.
Operations: `put_chunk`, `get_chunk` with reconstruction, `verify_all`, deletion by
`gc`. Hard: local writes are not atomic, two versions of one chunk differ when they
are encrypted or compressed differently, the two files are written one after the
other, media rot. Correct: what was stored can be read (`StoredStays`), parity belongs
to its object (`ParityFits`), what verification says of a chunk is true
(`VerdictsTrue`).

**Archive creation and restore** (`archive.rs`, `exclusion.rs`, the restore
commands of CLI and GUI). State: the items, the hard links seen, the file system
that is restored to. Operations: walk of each root, processing of an entry,
restoring of an item. Hard: overlapping roots, roots that are told apart by their
names alone, exclusions, hard links told by inode numbers, whose first path fails or
comes later, files already there, partial failures that are reported and skipped.
Correct: everything wanted is in the archive, reported, or mistaken for an entry of
another root, which no absolute root is (`BackupAccounts`), everything selected is
restored or reported (`RestoreAccounts`), and nothing is lost or confused when nothing
fails (`HealthyRestore`).

**Search catalog** (`catalog.rs`, beside `search.rs`, `diff.rs` and `list.rs` of the
CLI, which do without it). State: four trees of a database. Operations: index an
archive, remove one, rebuild, search, compare, list, total. Hard: a call is many
writes and may end between any two, keys are told apart by prefixes, text is cut
at bytes. Correct: a search finds what is there (`SearchFinds`), the two ways of
searching and of comparing agree (`CommandsAgree`, `DiffAgrees`), and nothing is
left of what was removed (`NothingLeft`).

**WebDAV synchronisation** (`webdav.rs`, `chunker.rs`). State: the metadata cache,
downloads under way. Operations: list directories, compare with the cache, read
a file from an offset and cut it into chunks, update the cache. Hard: the file
changes between the requests of one download, servers differ in what they can
do and in the names that come through to them, a body breaks off and is resumed, the
cache is updated entry by entry.
Correct: a copy is one version and cut as at one go (`Whole`), a round makes it
level with the server (`RoundLevels`), and in the end it is (`Converges`).

**Daemon: scheduler, jobs and health monitor** (`borg-daemon/src/main.rs`,
`scheduler.rs`, `state.rs`, `ipc.rs`, `health.rs`). State: heap of jobs,
`running_jobs`, job states in memory and in the database, execution history.
Operations: the scheduler loop, `execute_job`, the overdue check, `run-job`, stop,
restart. Hard: executions on request beside scheduled ones, requests for jobs there
are not, errors and crashes between the pieces of bookkeeping, the lock that is held
while an alert is delivered, alerts whose times are saved with the rest of a job's
state by whoever saves it. Correct: `StatusTruthful`, `FailuresMatchHistory`,
`StreakAlerted`, `AlertsSpaced`, `DueRuns`.

**GUI task list and scheduler** (`borg-gui/src/scheduler_bridge.rs`,
`app_state.rs`, `main.rs`, `borg-core/src/db.rs`, `scheduler.rs`). State: the
table of tasks, the cached list, the list in the window, the reload flag, the
tasks and loops of the scheduler. Operations: save, delete, switch, reload,
start. Hard: handlers run side by side and each copies one list over another;
database calls fail. Correct: `LoopsFollow`, `DeletedStays`, `SchedulerCatchesUp`.

**Password dialog** (`borg-gui/src/main.rs`, `bridge.rs`, `app_state.rs`). State: one
dialog, one sender (`auth_oneshot`), session passwords, keyring. Operations:
`get_password` of an execution, submit, cancel, export of a key. Hard: several wait
for the one dialog, which does not say for which repository it asks; closures reach
the window in their own order. Correct: `RunsGetTheirs`, `FiledAsOpened`,
`WaitersAreAsked`, `NoStrayBackup`.

**Dashboard** (`borg-gui/src/bridge.rs`, `app_state.rs`, `db.rs`, `commands.rs`).
State: the bookmarks in the database, in memory and in the sidebar, the
configurations of backups, the archives shown, backups that wait for a lock.
Operations: the wizard, selection, saving a configuration, a backup with its
queue, the closures that tell the result. Hard: every click is a task of its own,
the window hears of results in the order they come, a list is used by the place
in another. Correct: what is told of a backup is true (`ToldTruly`), what is shown
and where a backup goes is what is selected (`ShownAreSelected`,
`GoesToSelected`), and it uses what was said to be saved (`UsesSaved`).

**Modelled in part, or as what others see of them**: compression, storage
backends, metadata types, the text of errors, the GUI's tables. **Glue, or
nothing to model** (section 6): argument parsing and printing of the command
line, configuration files, commands without an implementation, the placeholder
for SSH repositories, layout of the GUI.

### How they interact

    borg-cli   borg-gui ── ScheduledTasks ─┐   borg-daemon ─ Daemon
        │         │  ├── PasswordDialog    │        │
        │         │  └── Dashboard         │        │
        └─────────┴──── executions ────────┴────────┘
                          │ calls
             ArchiveCreator / ArchiveRestorer          Archive, ArchiveRestore
                          │ put_chunk, commit_archive, get_chunk
             Repository (one handle per command)       Repository, RepositoryGC,
                          │                            RepositoryVerify
                          │ write, read, list, delete
             files: objects, recovery, snapshots       ChunkFiles
                    repo.json, keys/                   RepositoryKeys
                    .borg.lock                         RepositoryLock

    WebDavClient ── server, metadata cache             WebDavSync   (no caller yet)
    Catalog ── database beside the repository          Catalog      (no caller yet)

Handles interact through the files only. In the GUI, handlers of the window
write to the database and to the state they share under locks that are held for
one access at a time, and raise the flag the scheduler polls. Executions of
backups run beside the window and post closures to it. In the daemon, the
scheduler loop, the health monitor and the executions on request share the heap,
`running_jobs` and the job states, again under locks held for one access each, but
for that of the job states, which is held while an alert is delivered.

### Hazards

`PROJECT.json` lists forty places in the code where an interleaving, a crash, a
lost or stale value or a failing step could make the program wrong in a way
tests would hardly reach, each with the properties that watch it. More are known
and have no property here, since nothing in the code or its documents says what
should happen, or because they belong to parts still to be modelled:

- two backups that overlap commit archives of one name (`archive.rs:407`);
- recovery that an encrypted repository never reaches (`repository.rs:548`);
- times that pass while the daemon is down are neither run nor counted
  (`borg-daemon/src/scheduler.rs:80`, section 5);
- a wrong password stays in the keyring, where every later execution finds it
  (`bridge.rs:251`);
- a directory of the root whose name begins with `?` or `#` is listed as the root
  itself, for ever (`webdav.rs:408`);
- an overdue job is not told of while another is overdue that comes before it in
  the configuration, told of or not (`health.rs:90`);
- the count of executions is put down to the task of that name in the cached
  list (`borg-gui/src/main.rs:99`), and an occurrence is run twice when its task
  is loaded anew within the look-back (`borg-core/src/scheduler.rs:474`).

## 2. The modules

    BackupStore ◁─ Repository ◁─┬─ RepositoryGC ◁─────┬─ RepositoryProofs
                                └─ RepositoryVerify ◁─┘
    RepositoryLock ◁─┐
    RepositoryKeys ◁─┼─ RepositoryFilesProofs
    ChunkFiles     ◁─┘
    Archive ◁─ ArchiveRestore ◁─┬─ ArchiveProofs
    Catalog ◁───────────────────┘
    WebDavSync     ◁─ WebDavSyncProofs         Daemon         ◁─ DaemonProofs
    ScheduledTasks ◁─ ScheduledTasksProofs     PasswordDialog ◁─ PasswordDialogProofs
    Dashboard      ◁─ DashboardProofs

An arrow points to what is extended or instantiated. `MC…` modules give TLC the
instances: symmetry sets and constants that are not atoms.

Two conventions. A definition under a comment `Faulty:` is not used by any
specification: it is the definition below it with a plausible bug of the code,
and replacing the one by the other makes TLC violate the property named in
`PROJECT.json` (`mutants`). And a variable marked *(history)* records what has
happened to the model (two executions overlapped, a call failed), never decides
what happens next, and lets a property say exactly under which circumstances
the code keeps it.

### BackupStore, Repository

`BackupStore` is what a user is promised: an archive is new, then restorable,
then perhaps deleted; there is no step that damages one. `Repository` refines it
with `status` computed from the snapshots and the store (`UserStatus`).

| model | code |
| --- | --- |
| `stored` | the files in `objects/` |
| `snap[r]` | the snapshot file of run `r` |
| `cache[r]` | `chunk_cache` of the handle of run `r` |
| `items[r]` | chunk ids in the `Archive` that run `r` is building |
| `doomed` | what a `delete_archive` has found and not deleted yet |
| `Open`, `CheckName` | `Repository::open`, the name check of `create_with_mapping` |
| `AddChunk`, `StoreRoot`, `CommitSnapshot` | `put_chunk` for a file, `commit_archive` |
| `FindArchive`, `DeleteSnapshot` | the two halves of `delete_archive` |
| `Listings` | `list_snapshots`, which skips what it cannot read |
| `Abort`, `AbandonDelete` | an error passed up, or the death of the process |

One storage call is one step. Writes are atomic here; `ChunkFiles` looks at one
object when they are not. Ids are perfect: chunk and id are the same thing, and
the id of a run stands for that of its root, which holds the time of the run.

### RepositoryGC

Extends `Repository` with one garbage collector: `StartGC` lists the snapshots,
`Walk` reads one root and takes what it finds in it as reached, `ListObjects`,
`DeleteObject`, `FinishGC`, `AbortGC`. `TreeRuns` are the runs whose root is the
`Tree` that `traverse_tree` expects, as a client of `put_tree` and `commit_snapshot`
stores it; of all others, the archives that `commit_archive` stores, it makes
nothing. Trees are one level deep: for the walk it matters only whether what a root
refers to is reached. Two variables are history. `exposed[r]` records, for each
archive, how gc came to put it at risk: it listed the snapshots without that of the
backup, which had not committed, and deleted an object the backup had written or
found stored (`overtaken`); it could not read the snapshot (`unlisted`); or it did
not learn from the root what the archive refers to (`unread`). `late` has the
objects written since gc listed them.

### RepositoryVerify

Extends `Repository` with one `borg verify` at a time, and with what a medium does:
an object is `rotten`, it is there and does not read back as it was, or `lost`
(`Damage`). `OpenVerify` fills `known`, the index; `VerifyChunk` is `verify_chunk` on
one of the chunks listed; `LoadManifest` and `VerifyArchive` load an archive and look
its chunks up; `ChooseLatest`, `LoadSample`, `RestoreChunk` are the restore test, and
`Summary` the end, with `vouched` and `alarms` for what was reported; `AbortVerify` is
an error of a chunk that does not decode, or a kill. Backups and deletions are
those of `Repository`; a backup that opens does not see what is lost, and what it
writes is whole again (`OpenBackup`, `BackupGoesOn`). `upset` and `struck` record what
happened while the command ran, and `since[r]` what got lost after the backup of run
`r` had opened the repository.

### RepositoryKeys

`descriptor`, `keyfile` are `repo.json` and the key file, a key known by the task that
made it; `archives` the keys data is stored under. `CheckExists`, `Describe`,
`CreateKey` are `init`, used by the wizard, which goes on with `Told` and
`Add_bookmark`, and by `borg init`; `OpenToWrap`, `Wrap` are `borg key
change-passphrase` and `import`. The key file is written in two steps, as `op.write`
does on local storage: `OpenKeyFile` empties it (`Truncate_key`), `CreateKey` and `Wrap`
fill it (`Write_key`), which leaves a torn file if another has filled it meanwhile; a
task that fails or dies between the two leaves it torn as well (`Tear_key`, from
`Fails`). A storage that shows whole files is the case of the two steps without
anything between. `OpenForBackup` is whoever opens the repository with the session's
password, the keyring's or none; `Put_chunk` uses what that handle has loaded, not
what the files hold by then.

### RepositoryLock

The lock file at the grain of system calls: whether it is absent, empty, garbled
or names its owner, and which processes still write through an open file that
has not been unlinked. `LookAtFile`, `ReadOwner`, `ReadInvalid`, `RemoveInvalid`
are `is_locked`; `Create`, `Write` are `acquire`; `Release`, `Unlink` the drop.
`CreateFails`, `WriteFails`, `SyncFails`, `RemoveFails` (of an invalid file),
`UnlinkFails` (of one's own, in the drop) and `Kill` are what may go wrong. That
two processes can hold the lock at the same time follows from check and creation
being separate, and is behaviour of the model; the properties say what the lock
is worth all the same.

### ChunkFiles

The object and the recovery file of one chunk, as sequences of the pieces of the
recovery codec. `setup` chooses how files are written (whole, as an object store does;
in place, as the local backend does), whether the repository is encrypted, whether it
has a recovery profile, and which version of the chunk each client writes (`Version`):
one of its own if it is encrypted, and otherwise what the compressor of its command
makes of it, so that two clients may write the same or not. `CreateObject`,
`WritePiece`, `PutObject`, `BeginParity`, `FinishParity`, `Fail` are `put_chunk`;
`Rot` and `Collect` are the medium and gc; `Outcomes` is `get_chunk` on damaged bytes
with the codec (`Mended`), and `ListForVerify`, `Verify` are `verify_all` on this
chunk. The arithmetic of Reed and Solomon is taken to be right: as many pieces can be
mended as there are parity pieces.

### Archive, ArchiveRestore

`Archive` makes the items of an archive: `StartRoot` begins the walk of the next root
with its exclusions and roots inside roots (`Find_best_match` is `PathTrie`),
`ProcessPlain`, `ProcessFile`, `ProcessHardlink`, `MetadataFails` and `ReadFails` are
`process_entry`, `Abort` an error that ends the command, `Commit` the end. A path is a
sequence of components. A root has the place it is `at` and the names it was `typed`
with: `PathTrie` and `make_relative_path` keep normal components only, so that `../x`
and `x` are both `x` to them. `Mistaken` says which entries the code takes for those
of another root. A path of a file has the file it is a link of, the number of its
inode and the number of its links: hard links are told by the number (`Inode`), which
files of two devices may share (`TakenForAnother`). The content of a file stands for
the file. Roots exist and are no symbolic links; the GUI canonicalizes them, which is
why only absolute roots come with a mapping. An exclusion is one path here; which
paths the patterns match is not modelled. `ArchiveRestore` continues with a restore of
what was stored (`Load`, or `LoadOverStale` when there is an old file in the way),
item by item in the two passes of `restore_items`, any of which may fail and leave
part of a file behind.

### Catalog

`trees` are the four trees of the database. A call is the sequence `agenda` of its
writes, made when it begins (`Index_archive`, `Remove_archive`,
`Rebuild_from_archives`), taken one by one by `Write`, and ended by `Crash` or by a
`Panic` over a character of more than one byte. Names, paths and patterns are
sequences of characters, as keys with a colon between are what goes wrong.
`Search_files`, `List_archives`, `Diff_archives`, `Get_total_stats` are the catalog's
answers, `Glob_match` its matching (`Glob_rest` one character of the pattern, at every
place of the text), `Add_file` one turn of the loop of a search, and
`Search_archives`, `Compute_diff`, `List` those of the commands. `repo` is the
manifest, which others change between.

### WebDavSync

`StartScan`, `Propfind`, `ScanFails` list the server directory by directory, each as
it is at that moment; `Compare` is `diff_with_cache`; `Open` (HEAD), `Acquire` (permit),
`Get`, `GetFails`, `Read`, `Break`, `Finish` are a download with its range, its
`If-Range` and its retries; `Cut`, `Chunk_data` and `Pass` are the chunker and the loop
of `stream_to_chunks`; `Put` is `update_cache`, one entry at a time. `server` chooses
what the server can do: serve ranges, tell entity tags, compare them with their
quotes, demand credentials (`closed`, which PROPFIND sends and HEAD and GET do not:
`Granted`), and which path it is `asked` for in the place of each, since `resolve_url`
joins the decoded path as it is: names that are not ASCII or have `?`, `#`, `%`,
backslashes or blanks ask for nothing, or for another file (`Now` is the version there
is under the path asked for). The library has no caller yet: `StartUpdate`, the resuming
in `Break` and the keeping of a copy in `Finish` are what its functions are for.
Pieces of a body stand for bytes, and of each it is given whether the rolling hash
allows a cut after it.

### Daemon

`Check_overdue_jobs` and `Tell` with `Send_missed_notification` are the health
monitor's check; `telling` is the job it is about to tell of, and `sent` the time of
the last alert of a job, as its receiver knows it. `exec[e]` is what an execution
does: the one of the scheduler loop, and one for each `run-job` request. `Due`,
`Await`, `WaitOver`, `Return` are `run_scheduler`; `Refuse`, `RunBackup`, `Record`,
`UpdateState`, `AlertFailure`, `Deliver`, `Complete` are `execute_job` with
`run_backup_job` as one step of either result, `RunUnknown` is the same for a name
that is no job's (`NoJob`), which stays in `running_jobs`; `Stop`, `Exit`, `Kill`,
`Restart` the process. The schedule of a job is the multiples of its period. Every
access to a shared lock is a step of its own, since the code releases the lock after
each; all but one: who alerts keeps the lock of the job states until the alert is
delivered (`Locked`), and whoever needs it waits. For the same reason
`Check_overdue_jobs`, which reads the heap, and `Tell`, which needs that lock, are two
steps.

### ScheduledTasks

`ops[o]` is a handler that a click spawned: `Find`, `Write`, `List_tasks`, `Store`,
`Request_reload` and `Show` are its stretches between awaits, `Database_fails` the
failure of a call after which it goes on. `Select`, `Cancel`, `New_task`, `Save_task`,
`Delete_task`, `Toggle_task_active` are the callbacks of the window, `Load`,
`See_flag`, `Reload` the scheduler of `borg-core`, `Quit` and `Launch` the process.
What a task does when it runs is not modelled (section 7). That dropping a cron
scheduler ends its loops is assumed of the crate.

### PasswordDialog

`runs[e]` is an execution in `get_password`; `slot` is `auth_oneshot`, the one place
for a sender; `events` are the closures posted to the window, which runs them in
order. `Look`, `Take`, `Post`, `Answered`, `Back_up` are the execution; `ShowPrompt`
and `RetryAction` the closures; `Select`, `Export`, `Submit`, `Cancel` the user, who
may do the first two also while the dialog is shown. The dialog names no repository,
so that the user may type any password into it. `dialog.path` is where the code will
file it and `dialog.for` *(history)* what the dialog was opened for; a password in the
session, in the keyring or with an execution is kept with the latter (`Typed`).

### Dashboard

`tasks[t]` is what a click has spawned, `events` the closures posted to the window,
which runs them in order (`Closure`). `Finish`, `Repo_name_exists`, `Init_repository`,
`Push_repository`, `Add_repo`, `List_repos`, `SetRepos` are the wizard, its closure
and `add_bookmark_async`; `Select_repo`, `LoadArchives`, `Loaded` the loading of
archives; `Save`, `Upsert_archive_bookmark`, `SaveFails`, `Remember`, `Said` a
configuration; `Backup`, `Acquire`, `Create_archive`, `BackupFails`, `Retry`,
`Backup_told` a backup and its queue; `OtherLocks` other programs, `Crash` a restart.
`window` is what the window has: the sidebar, the bookmarks in memory, the selected
place, the archives shown.

## 3. The runs

| run | module | states | properties |
| --- | --- | --- | --- |
| RepositoryVerify | MCRepositoryVerify | 1,768,726 | `RestorableUnlessLost` `KeepsPromise` `PassedIsSound` `MissingIsLostOrNew` |
| RepositoryGC | MCRepositoryGC | 2,717,828 | `ArchivesSpared` `NoGarbageLeft` |
| RepositoryLock | RepositoryLock | 36,318 | `NothingLeftBehind` `LockStands` `WaitReturns` |
| ChunkFiles | MCChunkFiles | 674,828 | `StoredStays` `ParityFits` `VerdictsTrue` |
| Archive | MCArchive | 1,387,935 | `BackupAccounts` `RestoreAccounts` `HealthyRestore` |
| Daemon | MCDaemon | 1,637,002 | `StatusTruthful` `FailuresMatchHistory` `StreakAlerted` `AlertsSpaced` `DueRuns` |
| ScheduledTasks | MCScheduledTasks | 626,969 | `LoopsFollow` `DeletedStays` `SchedulerCatchesUp` |
| PasswordDialog | MCPasswordDialog | 1,536,431 | `RunsGetTheirs` `FiledAsOpened` `WaitersAreAsked` `NoStrayBackup` |
| RepositoryKeys | MCRepositoryKeys | 2,917,952 | `KeyFits` `ReportedOpens` |
| Catalog | MCCatalog | 726,170 | `SearchFinds` `CommandsAgree` `DiffAgrees` `NothingLeft` |
| WebDavSync | MCWebDavSync | 395,927 | `Whole` `RoundLevels` `Converges` |
| Dashboard | MCDashboard | 1,617,323 | `ToldTruly` `ShownAreSelected` `GoesToSelected` `UsesSaved` |

States are distinct states, after symmetry where the run uses it; the longest run
takes less than four minutes with two workers. Symmetry is used where only
safety is checked. That a variable has its type is not a property of a run: where
it is not plain it is proved (section 4).

`CHECK_DEADLOCK FALSE` stands in every configuration because what it models may
come to an end: all runs, clicks or calls of a bound are over, all processes have
been killed, the archive is restored, the daemon has been stopped for good. That
nobody waits for ever is stated by `WaitReturns`, `DueRuns`, `SchedulerCatchesUp`,
`Converges` and `WaitersAreAsked` instead.

### What they show

**RepositoryVerify.** Two backups that share a chunk or a name, deletions, crashes and
errors between any two storage calls, snapshot files that cannot be read, and `borg
verify` beside it all, on objects of which one is damaged before, while or after it is
read. All that a committed archive refers to was written, and what of it is not there
any more got lost after its backup had opened the repository: no backup relies on what
was lost before (`RestorableUnlessLost`). But for damage the store behaves as
`BackupStore` (`KeepsPromise`): both rest on the order chunks, root, snapshot, and on
the cache never holding an id that was not stored. A verification of everything that
says PASSED is right about what it reported, whatever else went on, but for what was
damaged under way and for archives of one name, of which it only looks at one; it
misses chunks only if some were lost or an archive was committed after it had listed
the objects. Without the reading of the chunks, PASSED says nothing of what is rotten,
and the property does not claim it.

**RepositoryGC.** The same repository without that certainty: gc interleaved with
everything. Of the two archives one is stored as the tree gc expects and one as
`commit_archive` stores it. `ArchivesSpared` has two parts. gc collects the root of an
archive only if it could not read its snapshot, or if the backup had not committed
when gc listed the snapshots and gc deleted an object the backup took for stored
(`RootsKept`); a backup that gc overlaps without that commits an archive that is whole.
The rest of an archive goes for the same reasons, or because gc made nothing of
its root (`TreesKept`). What archives share, and gcs that end half-way, do not endanger
them. `NoGarbageLeft` is the other side: a gc that returns `Ok` leaves only the roots it
listed, what trees among them refer to, and what was written since it listed the
objects. Together they say what gc does to a repository of this program: it keeps the
roots and deletes the data of every archive that `commit_archive` stored (section 5).

**RepositoryLock.** Three processes acquire, wait, fail and are killed at every
system call. A lock taken while nobody else was beyond looking stands until it
is released; the file is left behind only if somebody was killed or failed to
write or to remove its own file; and who waits is answered.

**ChunkFiles.** Three clients put the chunk, on both kinds of storage, encrypted
or not, compressed alike or not, with a recovery profile or without, and fail
anywhere, while a piece rots and gc deletes. The run shows exactly what can spoil an
object (`Spoilers`): on local storage also a client that fails while it writes, and two
versions written over one another, which two commands with different compressors make
in a plain repository as nonces do in an encrypted one. It shows when its parity does
not fit; and that verification is right both ways, of what nothing has spoiled and of
what it calls verified. Everything else, such as rewriting, deduplication against an
object still being written, a gc that leaves the parity behind, is harmless.

**Archive.** A backup of one to three roots that overlap, repeat or share file
names, typed absolutely or not, with any one path excluded, hard links across the
roots, files of two devices with one inode number, and the mapping of paths or none;
then a restore of everything, of one item, or to the original place. Up to two
operations fail in either. Of absolute roots nothing is left out that is not reported;
of others only what the code mistakes for an entry of another root, which the run has
happen. Files are confused only if they are of two devices, with one inode number
and several links each. A restore to the original place selects nothing, or restores
elsewhere: section 5.

**Daemon.** A frequent and a rare job, a run on request of either or of a name that is
no job's, the overdue check, a failing database call, an alert whose delivery takes
its time, a stop or kill at any moment, and a restart. The bookkeeping fits what
happened, but for the slips each property names: `running_jobs` has what is executed,
never more often than it is executed unless an execution was refused or the name was no
job's, and as often unless two overlapped. Alerts of missed runs keep their
distance, and every job gets its turn, though the scheduler waits for the lock of the
job states, if only every delivery ends (see below).

**ScheduledTasks.** Two handlers of any kind, a failing database call, quit and
start. The scheduler never loses a request to reload; its loops follow the table, and
what is deleted stays so, unless handlers overlapped or the database failed.

**PasswordDialog.** Two executions on two repositories and an export of a key, while
the user selects repositories and types whatever password. The properties are about
what was typed while the dialog was open for a repository: it is filed under that
repository always, and given to the execution that waits for it unless two wanted the
dialog at once. That it is the right password nothing can show: the dialog does not say
for which repository it asks, and what is typed goes to the keyring untried (section 5).
Each property names what it takes to break it: two that want the dialog at once,
a cancelled dialog, or a retried action that clears an open one.

**RepositoryKeys.** Three tasks at a time of the wizard, `borg init`, the two `borg
key` commands and backups, on a repository that exists and one that may come to be,
with failing calls, a killed window, and the key file emptied and filled in two steps.
Data and key belong together unless two made the repository at once or a foreign key
was imported; the passphrase reported last opens it unless two wrote the key at once.
Both except a key file that is being written or was torn in a write (`KeyGone`): that
is how a key gets lost, and the only way.

**Catalog.** Two archives, of one name, of names of which one begins the keys of the
other, or of names that do not clash, are indexed, removed and rebuilt, three calls
in a row of which any may break off. Search and difference are right for archives
whose name clashes with none that was touched, and what is left of a call that
broke off is gone after a rebuild. That catalog and commands agree is said of
searches in all archives or in one that exists: of a name that no archive has, the
catalog finds the files of `a:b` for `a`, and `borg search` finds none.

**WebDavSync.** Two files, one in a directory, on seven kinds of server: without
ranges, without entity tags, with both and quotes demanded, one that demands
credentials, and names that ask for nothing, for another file, or for a file in the
place of a directory. The server changes twice, a request, a body or the program fails
once. Copies are whole except from servers that serve ranges and know no entity tags. A
round makes the copy level with the server, version for version, and in the end it is;
but for files of which the cache was told what the copy has not, for changes that do
not show in size and time (`Unseen`), and for files whose names do not come through,
which one such directory makes of all. A server that demands credentials gives no file.

**Dashboard.** Three tasks out of the wizard, selections, configurations and backups
of one archive, of which one may find the repository locked and be queued, a second
repository, failing calls, a restart. One click stores one archive at most and what
is told of it is true, except that a queued backup is told to have failed after it
succeeded; what is shown, where a backup goes and what it uses is what the user was
shown, but for the overlaps and failures each property names.

### Bounds

| run | bounds | why they are enough |
| --- | --- | --- |
| RepositoryVerify | 2 runs, 1 data chunk, 2 names, 1 damaged object at a time, chunks and archives, or the restore test alone | a committed and a running backup that share the chunk, or a name, or neither; damage of a root or of data before or after the command reads it |
| RepositoryGC | 2 runs, 2 data chunks, 2 names; the root of one run is a tree | a committed and a running backup that share one chunk and not the other, either of them a tree; gc may run any number of times |
| RepositoryLock | 3 processes, `Timeout` 1 | a holder, one that removes or overwrites its file, and one that waits; a poll that finds the lock and one that has run out of time |
| ChunkFiles | 3 clients, 2 compressors, 2 pieces, 1 parity piece, 1 rotten | half-written files, a mixture of versions, two clients that write alike and one that does not, and damage that is and is not within what the parity mends |
| Archive | 3 directories, 3 files, 1 link, 8 lists of roots, 4 ways to share inodes, 2 errors | nested, repeated and equally named roots, three lists with roots typed relatively in `/a`, as `d`, `../d` and `.`, a hard link within a root and across roots, a number that two devices share, an error in the backup and one in the restore of what depends on it |
| Daemon | 2 jobs, 1 request, of a job or not, 3 ticks, threshold 2, 1 database error, 1 restart, alerts of one job 2 ticks apart | a streak that reaches the threshold, one that continues after a restart, an overlap with either job, a second overdue check before and after the distance |
| ScheduledTasks | 2 handlers, 1 database error, 2 starts, no row or two of one name | any two handlers in any order, names that are not unique, which is what makes lookup by name go wrong |
| PasswordDialog | 2 executions, 2 repositories, 1 export | every pair that may want the dialog at once, and a retried export; with 2 exports there are 11.5 million states, which take too long to run each time and show nothing else |
| RepositoryKeys | 2 places, 2 passphrases, 3 tasks, 1 crash | two that make or rewrite a key and a third that uses it, a key of one repository in the other |
| Catalog | 3 names, 3 contents, 2 archives, 3 calls, 8 queries | an archive indexed, one with a clashing name removed, and a rebuild; each kind of query, each filter, limits of none and of all |
| WebDavSync | 2 files, 3 versions, 7 servers, chunks of 1 to 2 pieces, 1 retry, 1 permit, 2 changes, 1 fault | a change between two requests of one download and another after it, a version with the stamp of the last one, a body longer than a chunk in reads of any length |
| Dashboard | 3 places, 2 answers, 2 configurations, 3 tasks, 2 retries, 1 crash | a wizard or a configuration beside another and a backup, two loads and a backup, a queue that is used up |

Bounds that cap counters are constants named `Max…` and appear as guards.

### Fairness

- `RepositoryLock`: a process inside `acquire`, `is_locked` or the drop goes on
  (`WF_lockVars(Running(p))`), and a backup that holds the lock ends. Nobody is
  obliged to call, to fail or to die. `WaitReturns` needs it: `wait_for_unlock`
  is a loop with a sleep of a second.
- `Daemon`: time passes and the scheduler's loop goes on, including that a
  backup it has begun ends (`WF_vars(Tick)`, `WF_vars(SchedulerStep)`). The loop is
  a `select!` on an interval of 30 seconds. Requests, the end of the executions
  they spawn and the health monitor are not fair; but every delivery of an alert
  ends, also that of a requested execution (`WF_vars(DeliveryEnds)`). This is an
  assumption about the outside and not a fact of the code: a webhook is called
  without a timeout and a command is waited for, and if one hangs, the lock of the job
  states is held, and due jobs wait, for ever (section 5). `DueRuns` says of every
  job that again and again it is not due, or the daemon not up: one that stays up
  leaves none due for good. The clock ends at `MaxTime`; as the loop is fair at every
  time, the last tick is no way out.
- `WebDavSync`: the caller goes on with its round and begins the next
  (`WF_vars(Sync)`); changes of the server and faults are bounded and not fair, so
  that `Converges` speaks of the time after the last of them.
- `ScheduledTasks`: a handler that was spawned ends, and the scheduler polls its
  flag every 20 seconds. What the user does is not fair, and is bounded, so that
  `SchedulerCatchesUp` speaks of the time after the last click.

Nothing else uses fairness; no property relies on strong fairness.

## 4. The proofs

TLAPS checks the theorems below for every value of the constants, from the
assumptions named in the modules and nothing else.

| module | theorem | states |
| --- | --- | --- |
| RepositoryProofs | `TypeCorrect` | `Spec => []TypeOK` |
| | `RestorableCorrect` | `Spec => []Restorable` |
| | `PromiseKept` | `Spec => KeepsPromise`: `Repository` implements `BackupStore` |
| | `GCTypeCorrect` | `GCSpec => []GCTypeOK` |
| | `GCInvCorrect` | `GCSpec => []GCInv`: what gc knows, and what handles remember |
| | `RootsKeptCorrect` | `GCSpec => []RootsKept` |
| | `TreesKeptCorrect` | `GCSpec => []TreesKept` |
| | `ArchivesSparedCorrect` | `GCSpec => []ArchivesSpared`, the two above |
| | `NoGarbageLeftCorrect` | `GCSpec => NoGarbageLeft` |
| | `SoundCorrect` | `VerifySpec => []Sound`: the chain of calls, with damage about |
| | `RestorableUnlessLostCorrect` | `VerifySpec => []RestorableUnlessLost` |
| | `VerifyTypeCorrect` | `VerifySpec => []VerifyTypeOK` |
| | `ProgressCorrect` | `VerifySpec => []Progress`: what the command has found so far |
| | `PassedIsSoundCorrect` | `VerifySpec => []PassedIsSound` |
| | `MissingIsLostOrNewCorrect` | `VerifySpec => []MissingIsLostOrNew` |
| RepositoryFilesProofs | `LockTypeCorrect` | `LockSpec => []LockTypeOK` |
| | `LockStandsCorrect` | `LockSpec => LockStands` |
| | `NothingLeftBehindCorrect` | `LockSpec => []NothingLeftBehind` |
| | `KeysTypeCorrect` | `Spec => [](KeysTypeOK /\ TasksRun)` |
| | `MakingOrderedCorrect` | `Spec => []MakingOrdered`: descriptor, key, data, password |
| | `KeyFitsCorrect` | `Spec => []KeyFits` |
| | `ReportedOpensCorrect` | `Spec => []ReportedOpens` |
| | `FilesTypeCorrect` | `FilesSpec => []FilesTypeOK` |
| | `StoredStaysCorrect` | `FilesSpec => []StoredStays` |
| | `ParityFitsCorrect` | `FilesSpec => []ParityFits` |
| | `VerdictsTrueCorrect` | `FilesSpec => VerdictsTrue` |
| ArchiveProofs | `AccountsCorrect` | `Spec => []Accounts`: what each walk has yielded |
| | `BackupAccountsCorrect` | `Spec => []BackupAccounts` |
| | `LinkedCorrect` | `Spec => [](Accounts /\ Linked)`: what hard links name |
| | `RestoreAccountsCorrect` | `Spec => []RestoreAccounts` |
| | `HealthyRestoreCorrect` | `Spec => []HealthyRestore` |
| | `CatalogTypeCorrect` | `CatalogSpec => []CatalogTypeOK`: what keys and entries there may be |
| | `CatalogLeavesNothing` | `CatalogSpec => []NothingLeft` |
| | `CatalogDiffAgrees` | `CatalogSpec => []DiffAgrees` |
| | `CatalogSearchFinds` | `CatalogSpec => []SearchFinds` |
| | `CatalogCommandsAgree` | `CatalogSpec => []CommandsAgree` |
| WebDavSyncProofs | `TypeCorrect` | `Spec => [](TypeOK /\ BodyVersions)`: types, with how what is read is cut |
| | `CopiesAreWhole` | `Spec => []Whole` |
| | `RoundsLevel` | `Spec => []RoundLevels` |
| DaemonProofs | `DaemonTypeCorrect` | `Spec => [](DaemonTypeOK /\ JobsOfExecutions)` |
| | `StatusTruthfulCorrect` | `Spec => []StatusTruthful` |
| | `FailuresMatchHistoryCorrect` | `Spec => []FailuresMatchHistory` |
| | `StreakAlertedCorrect` | `Spec => []StreakAlerted` |
| | `AlertsSpacedCorrect` | `Spec => AlertsSpaced` |
| ScheduledTasksProofs | `TasksTypeCorrect` | `Spec => []TasksTypeOK` |
| | `LoopsFollowCorrect` | `Spec => []LoopsFollow` |
| | `DeletedStaysCorrect` | `Spec => DeletedStays` |
| PasswordDialogProofs | `DialogTypeCorrect` | `Spec => []DialogTypeOK` |
| | `SendersCorrect` | `Spec => []Senders`: whose sender `auth_oneshot` has |
| | `OneAtATimeCorrect` | `Spec => []OneAtATime` |
| | `FiledAsOpenedCorrect` | `Spec => []FiledAsOpened` |
| | `WaitersAreAskedCorrect` | `Spec => []WaitersAreAsked` |
| | `RunsGetTheirsCorrect` | `Spec => []RunsGetTheirs` |
| | `NoStrayBackupCorrect` | `Spec => []NoStrayBackup` |
| DashboardProofs | `DashTypeCorrect` | `Spec => [](DashTypeOK /\ Posted /\ Kept)` |
| | `ToldTrulyCorrect` | `Spec => []ToldTruly` |
| | `ShownAreSelectedCorrect` | `Spec => []ShownAreSelected` |
| | `GoesToSelectedCorrect` | `Spec => GoesToSelected` |
| | `UsesSavedCorrect` | `Spec => UsesSaved` |

**Repository.** `Restorable` is not inductive: a run that has not committed yet
may hold ids of chunks that are not stored, as far as it says. The invariant
`Ordered` is the chain that the order of calls keeps: what a handle caches is
stored (nothing deletes objects here), what it collected is cached, the root is
cached before the snapshot is written, a snapshot exists exactly when its run is
done, and only snapshots that existed are up for deletion. `PromiseKept` then
maps each step: writing a snapshot is `Commit`, since the archive is readable by
`Ordered`; deleting one is `Delete`, or a stutter when it is gone already; all
else stutters. Assumption: data ids are not ids of roots.

**RepositoryGC.** With gc about, `CacheStored` is false, and that is the point.
`GCInv` keeps it for *guarded* runs, those no gc has overtaken or overlooked
(`HandlesTrue`): an object that a handle knows and gc deletes is one of a run gc has
listed, and then gc has reached it, or the run is overtaken by this very deletion. It
adds what gc knows at each phase (`GCKnows`): what it listed has been committed, it has
reached the root of all it listed before it lists objects, and what it deletes it has
not reached. For what roots refer to, `TreesInv` adds that it is reached if the root is,
and the archive was not exposed in any way. Deletion of an object is then the only
step that matters, and it cannot hit them. `NoGarbageLeft` looks the other way:
`GarbageInv` says that what gc has reached are the roots it listed and what trees among
them refer to, and that while it deletes, whatever is stored is reached, about to be
deleted, or was written since it listed the objects. Assumption: `TreeRuns` are runs.

**RepositoryVerify.** The steps of the repository are those of `Repository`, or the
opening of a handle that does not see what is lost; `Ordered` carries over step by step
(`RepositoryStep`, `SoundCorrect`). `RestorableUnlessLost` needs of damage that what a
handle takes for stored and is lost got lost since it was opened (`LostSince`). That
damage leaves the promise of `BackupStore` alone, which speaks of what was written, is
checked by TLC and not stated as a theorem: it would say no more than `PromiseKept`. The
other properties speak of
the end of the command; `Progress` says of each phase what it has found so far: no
chunk read is damaged but what was struck since (`ReadTrue`), the only archive of a
name it vouches for is undamaged likewise (`VouchedTrue`), and the index has all
chunks of all archives while nothing was lost or committed (`IndexComplete`).

**RepositoryLock.** `LockStands` follows from what the actions need of the control
state of the others: a process that has only looked must read first, and what it
reads is a valid lock. `NothingLeftBehind` is inductive as it stands once the
types are known; the types need that a process that sleeps may still poll.

**ChunkFiles.** The properties speak of moments when nobody writes; `FilesInv` speaks of
all others: a piece not there yet is *due* from a client that has the file open
(`Whole`), everybody who writes writes the version the file is of, and the parity
is of that version or due as well (`Fitting`), and who stored, found or listed
the object finds it until gc deletes it (`Present`). That two who write at the same time
write the same version is what `MayMix` watches for, whatever the reason why they
might not. The codec with any number of data and parity pieces comes in through
`SizesAssumption`, the versions through `VersionsAssumption`: clients and compressors are
no marks of a damaged file.

**Archive, ArchiveRestore.** Two facts about the roots carry the backup. Every path
has one innermost root, the last of equal ones (`BestExists`, `BestUnique`), so that
the walks are apart (`WalksApart`) and together yield what is wanted (`WalkIsWanted`,
`WantedIsWalked`). And the paths of items are below one another only if their sources
are (`RelativePathsNested`), because equally named roots get different names
(`NamesUnique`); so no two items share a path. `Accounts` then says of each walk begun
that what it yields is still to be dealt with, has its one item, or was reported.
`Linked` adds that the path noted for an inode is that of a file that is dealt with
and is no hard link, so that what a hard link names is never another hard link. The
restore rests on that: an item taken from the queue writes at its own target only and
no two targets are the same, so that what was restored stays so; and a hard link is
taken when only hard links are left, so that the file it names is not written any more
(`RestoreInv`). Without errors (`HealthyInv`) what is on the disk was restored or is a
directory above something that is restored, and nothing lies below a file or a link,
so that nothing is in the way of a link (`NothingBlocks`). Assumptions: the file
system is a finite set of absolute paths, with nothing below a file or a symbolic link
(`FileSystemAssumption`); no name in it has a counter, as the model leaves out that a
root `docs_1` beside two roots `docs` makes the code try the next counter
(`borg-gui/src/commands.rs:102`). Roots are at directories or files, an absolute root
has the names of its place, and no root is typed as if it were below a file of another
(`RootsAssumption`: a list such as `../x/f/g x`, where `x/f` is a file, is left out).
Paths that are links of one file have one inode number and one number of links
(`SharingAssumption`); that files of different devices have different numbers is not
assumed. The directory restored to is an absolute path (`DestinationAssumption`).

**Catalog.** A call is many writes, and what holds between them cannot be said of the
database alone. `CatalogInv` therefore says of every number of writes still to come
what would be in the trees after them (`Comes`), and four things of that. Every file
lies under a name that may have files then (`Located`). An archive that counts as
indexed then has its entry, has its files under keys that begin with its name and
nothing else under such keys, no write to come goes near them, and it has no
character of more than one byte, unless a panic comes first (`Exact`). Archives
indexed at any two such moments have names that do not clash (`Apart`). And at the end
of the agenda entries and statistics belong together and no file and no key of the
index is of no archive, if no call ended half-way since the last rebuild or one is
under way (`Mends`). A write is then a step along what has been said already; the work
is in the calls, whose agenda is one block of writes for each item of each archive, and
in a crash, which may only keep what held at that moment. `NothingLeft` is `Mends` where
nothing is left to do.

That *a search finds what is there* needs more than the database. `GlobMeans` says that
the recursive matching, row by row of the pattern, comes to what the property says a
pattern means: that the text can be cut into pieces. `FoundIs` says that a search
returns nothing but wanted files of those it goes through, in whatever order, as many
as there are places with one, and all of them unless the limit is met; and what it goes
through is `Exact`. The catalog goes
through the archives newest first and the command in the order of the manifest: that
both are complete, and that the two lists agree, follows from the order in which
archives are committed (`Ordered`, `NewestIs`).

Assumptions: names are not empty, archives are finite, a number stands for size and
time. The lower case of a character of one byte has one byte (`LowerAssumption`), as it
is with ASCII; otherwise a path could be indexed whose search panics.

**RepositoryKeys.** `KeyFits` compares two files; what breaks or keeps it is what
tasks hold that are under way. `MakingOrdered` is the order a repository comes to
be in: a place without descriptor is blank, and makers that were not at it together
are alone. `KeyInv` adds that until its maker writes the key nobody has a password,
so that no backup stores anything there (`Awaited`), that a backup holds the key
of the repository or none (`BackupFits`), and that the key file has that key or
none (`FileFits`); when it has none, it is being written or was torn in a write
(`GoneInWrite`). `ReportInv` is the like for the passphrase: whoever rewrites a key is
alone, so that the file it has emptied stays empty until it is filled (`KeyUnwritten`),
and what the wizard is yet to report opens it (`TellsTrue`). Assumption: `None` is no
passphrase, and no torn file.

**WebDavSync.** `CopiesAreWhole` compares cutting in reads with cutting at one go.
`Chunk_data` is greedy from the left, so that the chunks of the whole are those of any
beginning that ends with a chunk, followed by those of the rest; and all chunks but the
last of what has been read so far are chunks of the whole (`HeldBack`), as the last one
is kept back and only a buffer of `MaxSize` is cut. `CutAsWhole` is what every read
preserves: what has been cut, followed by what the rest will be cut into, is the chunks
of the whole. That resumed reads are of the same version is `OneVersion`: a range is
served if the entity tag is of the version there is now, and the version read so far
lies between the two. It is stated for all servers but those with ranges and without
entity tags, which `Whole` excepts.

`RoundsLevel` needs what a round knows (`LevelInv`), said of the files whose names
come through, on servers where those of directories do. `Scanned`: during a quiet
round what was found is as it is on the server, and every file is found already or in
a directory that can be reached from those still to be listed, said of every set of
directories that has them and is closed. `EntryOK`: the copy of a file is of the
version of its entry or of a later one, unless the file is astray or its entry is
about to be put. `Downloads`: what is downloaded is what has changed.

Assumptions: all files are below the root and are no directories, a request for a file
never comes to a directory, which would answer with a listing and not with a body,
versions are not empty, the sizes are as `validate` has them. `StampsAssumption` is a
limit of the code: a file does not get back the size and the time it had before it had
others. If it did while it is downloaded, the entry put for it would be that of the
older version and no later round would notice that the copy is not (`webdav.rs:260`
compares sizes and times only).

**Daemon.** A property of each job speaks of moments when no result of it is being
dealt with, and of the memory of a daemon that runs. In between, the history is ahead
of the saved state by the result an execution has recorded (`Tally`), `running_jobs`
has a name while it is executed, and no more often (`RunningTrue`), memory and
database agree (`MemorySaved`), which is what a restart needs, and a streak that was
saved and not alerted has an execution that still owes the alert (`AlertOwed`), which
it does until it holds the lock and has entered the time of the alert. The slips that
are excepted differ from part to part, as they do in the properties. Assumption: the
time within which an alert is not repeated, five minutes in the code, is not 0
(`GapAssumption`), as otherwise no alert counts as recent.

**ScheduledTasks.** Whatever upsets the list, the scheduler has of it what it last
stored, or has been asked to reload, or a handler is about to ask (`Follows`). While
nothing upsets it, one handler at a time is between reading and replacing the list
(`Alone`), so that what it has found and listed is what the table has (`Found`,
`Listed`), and so is the list when there is none (`Cached`). Types are not plain
here, as ids are given out without bound: nobody has an id the table has not given
out, which is why a deleted one does not return. Assumption: the table the program
starts with is a sequence of rows.

**PasswordDialog.** `Senders` holds whatever the user does: the one place for a sender
holds that of the one execution that is yet to be answered. So does `OpenedForPath`: a
dialog that is shown files under what it was opened for, or its repository was cleared.
As long as no two want the dialog at once it is in a state of `Quiet`: the sender, the
closures posted and what the dialog was opened for belong to one execution or one
export. `Theirs` then follows: what is typed while the dialog is open for one
repository is not kept under, or given to, another. Assumption: `None` and the value
that stands for no answer yet are no passwords, and `None` no repository.

**Dashboard.** `Posted` says who has closures on the way to the window: one for a task,
which then waits for it, except of a queued backup, which goes on. On it rest four
invariants, one for a property: what a backup has stored, told and is about to tell
(`Backups`); that sidebar and table differ by the one repository being added
(`Added`), of which the bookmarks in memory are a beginning (`Kept`); that memory,
table and window are in turn ahead of each other by the configuration being saved
(`Saving`); and that of backups of another repository the window hears before it
hears of the archives of the selected one (`Shown`), which is where the order of the
event queue matters. Assumptions: `Answers` and the first repository have places, and
`None` is no set of names.

### Only model-checked

`WaitReturns`, `DueRuns`, `SchedulerCatchesUp` and `Converges` are liveness under
fairness, out of the prover's reach; all other properties of the runs are theorems
(`KeepsPromise` of `Repository`, without damage). No
module declares a RECURSIVE operator. What recursive functions compute (`Glob_match`,
`Found`, `Chunk_data`, `FlattenSeq`) is proved without the library's induction theorems:
of the numbers at which a solution of the equation, or a statement about it, fails there
would be a least one (`LeastNumber`), which the step before it rules out (`UpTo`).

## 5. Where code and documentation disagree

What the repository states and the code does otherwise:

- **gc and archives.** `traverse_tree` parses the root of a snapshot as a JSON `Tree`
  (`repository.rs:806`), and `commit_archive` stores the bincode of an `Archive`
  there, though `metadata.rs` calls the field "Root tree ID". gc takes every archive
  for empty and would delete its data. Nothing calls gc at this commit; the run
  `RepositoryGC` has one archive of either kind (`TreeRuns`): of the one that
  `commit_archive` stored gc keeps the root alone.
- **Restore to the original place.** The GUI compares absolute original paths with
  the relative paths of items and selects nothing, though
  `borg-gui/src/commands.rs:315` says "Restore using the same paths recorded during
  backup"; the CLI joins the whole path to the root once more
  (`borg-cli/src/commands/restore.rs:89`). Both end without an error.
- **Where restored files go.** Four tests of the library expect them at the
  destination plus the path below the root of the backup (`archive.rs:1392`, `1436`,
  `1491`, `1553`). The items have the whole path, without the leading slash
  (`archive.rs:565`), and the restore joins that to the destination. `RestoreAccounts` and
  `HealthyRestore` say that what is restored is where the code puts it, which is not
  where these tests look.
- **A job missed while the daemon was down.** `SCHEDULER_GUIDE.md:71` says that a
  daemon that starts "immediately detects overdue job" and executes it if "Run on boot
  if missed" is enabled, and `SCHEDULER_FIXES.md:153` that "the job will execute
  immediately on daemon startup". The jobs of `borgd` have no such option, and
  `Restart` makes the heap anew from the present (`borg-daemon/src/scheduler.rs:80`):
  a time that has passed is not run. `DueRuns` therefore speaks of jobs that are due
  while the daemon is up. The scheduler of the window does look back, by five minutes
  (`borg-core/src/scheduler.rs:474`).
- **Editing a task.** The row is built without its id
  (`scheduler_bridge.rs:435`), so an edit inserts a second row; the old one
  keeps running and is no longer shown. `SCHEDULER_FIXES.md:126` promises
  "Editable task names/targets".
- **A mistyped password.** The loop that asks up to three times
  (`borg-core/src/scheduler.rs:268`) looks for words that no error of a wrong
  password contains, though `scheduler.rs:187` says "Perform the actual backup with
  retry logic for password".
- **A queued backup.** The loop asks whether it is to end before it sleeps and not
  after (`bridge.rs:517`), so that after a success it tries once more, is refused
  for the name, and shows "Queued backup failed"; the text for the case that the
  attempts are used up is behind a condition the loop never meets
  (`bridge.rs:521`), so that the window says nothing. `ToldTruly` has both as its
  exceptions.
- **"Configuration saved".** A failure of the database is printed to the terminal
  and the window told that all went well (`bridge.rs:907`, `SaveFails`).

The models also have behaviours that no statement of the repository forbids as
precisely, and that a maintainer should know.

Archives:

- roots are told apart by their normal components only (`archive.rs:293`, `313`):
  `borg create ../x x` takes the entries of the one for entries of the other and leaves
  them out without a word (`archive.rs:446`, `523`), or merges two directories into one
  in the archive (`BackupAccounts` names them as `Mistaken`);
- hard links are told by the inode number without the device (`archive.rs:339`, `611`):
  two files of two devices with one number and several links each become one, and the
  data of the second is not stored (`TakenForAnother`).

Repository, lock, verification:

- two backups that overlap can both commit an archive of the same name, and
  `load_archive`, `delete_archive` and `verify_archive` take whichever is listed
  first, so that the other is never verified;
- two processes can hold the lock, since check and creation are two steps and
  an invalid file, such as one being written, is removed;
- `verify_all` ends at the first chunk that does not decode, and reports a read
  that fails for once as a missing chunk;
- `borg verify` looks chunks up in an index older than its listings, and reports
  chunks missing from an archive committed meanwhile;
- an encrypted repository never uses its recovery files, as damaged bytes fail
  the HMAC before the codec is tried;
- two commands with different compressors write different bytes for one chunk, so that
  in a plain repository on local storage, too, two writers can mix them, and the parity of
  one may lie beside the object of the other.

Keys:

- `init` writes `repo.json` before the key (`repository.rs:334`): if it breaks off
  between, there is a repository that no passphrase opens and that cannot be made
  again; two at once can end with the descriptor of one and the key of the other;
- the key file is written in place on local storage (`repository.rs:304`,
  `storage.rs:42`): a change of the passphrase, or an import, that dies in the write
  leaves a file that no passphrase opens, and unless the key was exported before, the
  data is lost;
- `import_key` does not ask whether the key is the repository's
  (`borg-cli/src/commands/key.rs:89`);
- the CLI opens repositories without asking for a passphrase
  (`borg-cli/src/commands/mod.rs:96`), and an encrypted one opened so stores
  nothing; `change-passphrase` takes the old and the new one from the same
  variable when `BORG_PASSPHRASE` is set (`borg-cli/src/commands/key.rs:30`);
- backups and restores by hand in the GUI never ask for a password
  (`bridge.rs:594`).

Daemon:

- it reschedules a job that failed as if it had completed, so that its next try
  is its next time, and counts it as missed;
- the overdue check deals with the first overdue job and no other
  (`health.rs:90`);
- the alert of a streak is delivered while the lock of all job states is held
  (`main.rs:618`), by `sh -c` and by webhooks without a timeout: while one hangs no
  execution can save its result, the scheduler waits in its loop, and due jobs are not
  run;
- `run-job` takes any name (`ipc.rs:111`), and `execute_job` enters it in `running_jobs`
  before it looks the job up (`main.rs:434`): a mistyped name is reported as running until
  the daemon stops.

GUI:

- an execution whose password dialog is cancelled waits on, and gets the answer
  to the next dialog;
- the dialog does not say whose password it wants: a prompt sets no text
  (`main.rs:184`), so that it shows the default one (`globals.slint:40`) or that of
  the last export (`bridge.rs:331`), which name no repository, and the sidebar and the
  menu stay open to clicks; what is typed is put in the keyring untried
  (`bridge.rs:251`), so that a wrong password stays there and every later execution
  fails with it;
- the place in the sidebar is used as the place in the list of bookmarks
  (`bridge.rs:645`), and an error of `add_bookmark` goes nowhere, after which the
  two differ;
- a new archive is put among those that are shown, whosever they are
  (`bridge.rs:446`), and those shown stay when another repository is selected
  whose archives cannot be loaded (`bridge.rs:700`).

Catalog and WebDAV, which nothing calls yet:

- paths with characters of more than one byte end indexing and some searches in a
  panic (`catalog.rs:109`, `catalog.rs:307`);
- removal, search and difference of archive `a` take in the keys of `a:b`
  (`catalog.rs:153`, `215`, `353`), also when there is no archive `a`, of which `borg
  search` finds nothing: `CommandsAgree` leaves such a search out; a limit of 0 gives
  one result, and a change of type alone is no difference (`catalog.rs:530`), which it
  is for `borg diff`;
- the entity tag is kept and never compared (`webdav.rs:260`), so that a change that
  leaves size and time as they were is never noticed (`Unseen`); it is sent in `If-Range`
  without its quotes (so that some servers send the whole file, which is refused);
- downloads send no credentials (`webdav.rs:457`, `513`), which the discovery does
  (`webdav.rs:329`): a server that demands them is listed and gives no file;
- the decoded path is joined to the URL as it is (`webdav.rs:406`): names with `?`, `#`,
  `%`, a backslash or blanks at the end ask for something else, names that are not ASCII
  are garbled (`webdav.rs:396`), and a directory of the root whose name begins with `?`
  or `#` asks for the root, so that the scan never ends;
- `update_cache` writes what has changed, downloaded or not (`webdav.rs:285`).

## 6. What is not modelled

- **Cryptography, hashing, compression, Reed–Solomon arithmetic, the rolling hash of
  the chunker.** Taken to be correct: an id names one content, altered ciphertext
  is noticed, the codec mends what it promises, a passphrase unwraps what was
  wrapped with it.
- **opendal, SQLite, sled, the cron crate, the keyring, HTTP and XML, Slint.**
  External: their calls are atomic steps that may fail, except the in-place writes
  of `ChunkFiles` and the system calls of `RepositoryLock`.
- **Attributes of files** (times, modes, owners, ACLs), special files, old formats
  of archives, sizes, progress, profiles.
- **The daemon's** heartbeat and reconnection, hooks, the naming of archives and the
  options of a job, which change none of its state; reload, which does nothing;
  and whether an alert arrives: that its delivery takes time, and what waits for it,
  is modelled, its retries and its result are not.
- **In the window**, browsing and restoring, file dialogs, layout and navigation;
  the progress and the accounting of scheduled runs.
- **The command line's** parsing and printing, configuration files and the text of
  errors, except where the code decides by it (`PasswordDialog`, `Dashboard`).
- **What nothing calls**: `verify_repository` with its orphan search, `FileCache` and
  `ChunkIndex` of `cache.rs`, `delete_bookmark`, `delete_password`, the synchronous
  `upsert_archive_bookmark`.
- **Commands that have no implementation** (prune, compact, rename, export, import,
  mount and others), options nothing reads (`--repair`, `--first`, `--last`,
  `--glob-archives` of verify) and **remote repositories over SSH**, a placeholder
  whose operations return errors.

## 7. The plan

Done, the most important first: `Repository` and `BackupStore`, `RepositoryGC`,
`RepositoryLock`, `ChunkFiles`, `Daemon`, `Archive` with `ArchiveRestore`,
`ScheduledTasks`, `PasswordDialog`; then `WebDavSync`, `Catalog`, `RepositoryKeys`,
`Dashboard`, `RepositoryVerify`, and the health monitor in `Daemon`; and the proofs of
all safety properties, those of `WebDavSync` and `Catalog` last.

Still to model:

1. The runs of scheduled tasks (`borg-core/src/scheduler.rs`, the reports in
   `borg-gui/src/main.rs`), in the place of the schedule of `ScheduledTasks`: occurrences
   over time, the look-back for missed ones at start and reload, counts and last results
   written back by name and id. To check: an occurrence is run once, unless the
   scheduler was restarted within the look-back; the counts are those of the executions.
2. Restoring and browsing in `Dashboard`.
3. The jobs of the daemon in full (`job.rs`, `config.rs`): hooks around a backup of
   which one fails, the names of archives, pruning once it is enabled.
4. Pure algorithms against a reference definition over bounded inputs: the matching
   of exclusion patterns with order and negation, plans as cron expressions.

No safety property of a run is without a theorem. Of what is modelled these would be
worth stating and proving next: that without a change on the server one round is
enough for all files but those that fail (a bound for `Converges`), and that what
`Search_files` misses of an archive that was left half-way is only what had not been
written.
