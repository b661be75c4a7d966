--------------------------- MODULE ArchiveRestore ---------------------------
(***************************************************************************)
(* ArchiveRestorer of borg-core/src/archive.rs, run by the restore         *)
(* commands of borg-cli and borg-gui on the archive that module Archive    *)
(* makes.                                                                  *)
(*                                                                         *)
(* The disk maps absolute paths to nodes.  Two paths are links of one file *)
(* when their nodes have the same "node", which is the path the file was   *)
(* created under.  The disk holds only what lies where a restore writes:   *)
(* at first nothing, or one file of other content.                         *)
(***************************************************************************)
EXTENDS Archive

CONSTANT Destination  \* the directory given for a restore elsewhere

ASSUME DestinationAssumption ==
    Destination # <<>> /\ Destination[1] = Slash /\ Destination \in Seq(Range(Destination))

VARIABLES
    request,  \* what the restore command asks for
    disk,     \* absolute path -> what is there
    queue,    \* selected items still to be restored
    failed    \* target paths passed to on_error

vars == <<backupVars, request, disk, queue, failed>>
restoreVars == <<request, disk, queue, failed>>

Modes == {"all", "some", "gui_original", "cli_original"}

Stale == <<"stale">>      \* content of a file that was there before
Partial == <<"partial">>  \* content of a file whose writing failed

DirNode(p) == [kind |-> "dir", node |-> p, data |-> <<>>]
FileNode(p, data) == [kind |-> "file", node |-> p, data |-> data]
LinkNode(p, data) == [kind |-> "symlink", node |-> p, data |-> data]

----------------------------------------------------------------------------
(* The directory the items are joined to; a relative root is taken from    *)
(* the directory the backup was made in.                                   *)
Dest ==
    CASE request.mode = "gui_original" -> <<Slash>>
      [] request.mode = "cli_original" /\ Len(Roots) = 1 -> Place(1)
      [] OTHER -> Destination

Target(it) == Dest \o it.path

(* The GUI asks for "::defaults", which compares the roots as they were     *)
(* typed with the paths of items: none is below an absolute root.          *)
Selected ==
    CASE request.mode = "gui_original" ->
            {it \in items : \E i \in DOMAIN Roots :
                Roots[i].style = "relative" /\ IsPrefix(Typed(i), it.path)}
      [] request.mode = "some" -> {it \in items : IsPrefix(request.path, it.path)}
      [] OTHER -> items

(* create_dir_all: the missing directories down to p. *)
Mkdir(p) ==
    [q \in DOMAIN disk \cup {SubSeq(p, 1, n) : n \in 1 .. Len(p)} |->
        IF q \in DOMAIN disk THEN disk[q] ELSE DirNode(q)]

Node(it) ==
    CASE it.kind = "dir" -> DirNode(Target(it))
      [] it.kind = "file" -> FileNode(Target(it), File(it.src))
      [] it.kind = "symlink" -> LinkNode(Target(it), it.src)
      [] it.kind = "hardlink" -> disk[Dest \o it.target]

With(it, node) ==
    LET made == Mkdir(Front(Target(it)))
    IN  [q \in DOMAIN made \cup {Target(it)} |-> IF q = Target(it) THEN node ELSE made[q]]

(* symlink and hard_link do not replace what is there, and a hard link     *)
(* needs its source.                                                       *)
Blocked(it) ==
    \/ it.kind \in {"symlink", "hardlink"} /\ Target(it) \in DOMAIN disk
    \/ it.kind = "hardlink" /\ (Dest \o it.target) \notin DOMAIN disk

(* Faulty: one pass in the order of the paths. *)
PendingInOnePass == queue

(* The first pass restores all items but the hard links, the second those. *)
Pending ==
    LET firstPass == {it \in queue : it.kind # "hardlink"}
    IN  IF firstPass # {} THEN firstPass ELSE queue

(* Items are sorted by path: of that order the model keeps that a directory *)
(* comes before what is below it.                                          *)
Next_item(it) ==
    it \in Pending /\ \A other \in Pending : ~IsStrictPrefix(other.path, it.path)

----------------------------------------------------------------------------
RestoreInit ==
    /\ Init
    /\ request = [mode |-> "all", path |-> <<>>, stale |-> <<>>]
    /\ disk = <<>> /\ queue = {} /\ failed = {}

(* A restore command begins on a stored archive. *)
Load ==
    /\ stage = "stored" /\ stage' = "restore"
    /\ \E mode \in Modes, it \in items \cup {[path |-> <<>>]} :
        /\ mode = "some" <=> it.path # <<>>
        /\ request' = [mode |-> mode, path |-> it.path, stale |-> <<>>]
    /\ UNCHANGED <<disk, failed, setup, root, todo, items, hardlinks, reported, errors>>
    /\ queue' = Selected'

(* The same when a file of other content is where a file will be restored. *)
LoadOverStale ==
    /\ stage = "stored" /\ stage' = "restore"
    /\ \E it \in items, stale \in items :
        /\ stale.kind \in {"file", "hardlink", "symlink"}
        /\ request' = [mode |-> "some", path |-> it.path, stale |-> stale.path]
        /\ disk' = [q \in {Destination \o stale.path} |-> FileNode(q, Stale)]
    /\ UNCHANGED <<failed, setup, root, todo, items, hardlinks, reported, errors>>
    /\ queue' = Selected'

(* The archive cannot be loaded or the destination not be made. *)
LoadFails ==
    /\ stage = "stored" /\ CanFail(1)
    /\ stage' = "aborted" /\ errors' = errors + 1
    /\ UNCHANGED <<setup, root, todo, items, hardlinks, reported, restoreVars>>

Dequeue(it) ==
    /\ stage = "restore" /\ Next_item(it)
    /\ queue' = queue \ {it}
    /\ UNCHANGED <<setup, stage, root, todo, items, hardlinks, reported, request>>

RestoreItem(it) ==
    /\ Dequeue(it) /\ ~Blocked(it)
    /\ disk' = With(it, Node(it))
    /\ UNCHANGED <<failed, errors>>

Refuse(it) ==
    /\ Dequeue(it) /\ Blocked(it)
    /\ disk' = Mkdir(Front(Target(it)))
    /\ failed' = failed \cup {Target(it)}
    /\ UNCHANGED errors

(* What a failure can leave: nothing done, the parents made, a file partly *)
(* written, or all done but the attributes.                                *)
Remains(it) ==
    {disk, Mkdir(Front(Target(it)))}
      \cup (IF it.kind = "file" THEN {With(it, FileNode(Target(it), Partial))} ELSE {})
      \cup (IF it.kind \in {"dir", "file"} THEN {With(it, Node(it))} ELSE {})

(* Faulty: a failed write is taken for a success. *)
WriteFailureIgnored(it) ==
    failed' = IF it.kind = "file" THEN failed ELSE failed \cup {Target(it)}

ItemFailure(it) == failed' = failed \cup {Target(it)}

ItemFails(it) ==
    /\ Dequeue(it) /\ ~Blocked(it) /\ CanFail(1)
    /\ disk' \in Remains(it)
    /\ ItemFailure(it)
    /\ errors' = errors + 1

Finish ==
    /\ stage = "restore" /\ queue = {}
    /\ stage' = "done"
    /\ UNCHANGED <<setup, root, todo, items, hardlinks, reported, errors, restoreVars>>

Restore ==
    \/ Load \/ LoadOverStale \/ LoadFails \/ Finish
    \/ \E it \in queue : RestoreItem(it) \/ Refuse(it) \/ ItemFails(it)

Next == (Backup /\ UNCHANGED restoreVars) \/ Restore

Spec == RestoreInit /\ [][Next]_vars

HasNode(p, kind, data) == p \in DOMAIN disk /\ disk[p].kind = kind /\ disk[p].data = data

Restored(it) ==
    CASE it.kind = "dir" -> HasNode(Target(it), "dir", <<>>)
      [] it.kind = "file" -> HasNode(Target(it), "file", File(it.src))
      [] it.kind = "symlink" -> HasNode(Target(it), "symlink", it.src)
      [] it.kind = "hardlink" ->
            /\ {Target(it), Dest \o it.target} \subseteq DOMAIN disk
            /\ disk[Target(it)] = disk[Dest \o it.target]

(* When a restore ends, each selected item is at its target, a hard link   *)
(* as a link of the file it names and all else with its own data, or an    *)
(* error was reported for the target; also with parts of the repository    *)
(* unreadable, writes failing half-way and files already there.            *)
RestoreAccounts ==
    stage = "done" => \A it \in Selected : Restored(it) \/ Target(it) \in failed

(* Another file has the same inode number on another device, and both have *)
(* several links: the code takes them for one.                             *)
TakenForAnother(p) ==
    \E q \in Files : Inode(q) = Inode(p) /\ File(q) # File(p) /\ Nlink(p) > 1 /\ Nlink(q) > 1

(* A backup and a restore in which nothing fails bring every wanted file   *)
(* that is not mistaken for another back with its data, and two of them    *)
(* are links of one file if and only if they were before: through          *)
(* overlapping roots, exclusions and prefixes.                             *)
HealthyRestore ==
    (stage = "done" /\ errors = 0 /\ request.mode = "all") =>
        /\ failed = {} /\ \A p \in Wanted : Mistaken(p) \/ \E it \in items : it.src = p
        /\ \A a, b \in {it \in items : it.src \in Files /\ ~TakenForAnother(it.src)} :
              /\ HasNode(Target(a), "file", File(a.src))
              /\ a.src # b.src =>
                   (disk[Target(a)].node = disk[Target(b)].node <=> File(a.src) = File(b.src))
=============================================================================
