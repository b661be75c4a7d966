------------------------------ MODULE Archive ------------------------------
(***************************************************************************)
(* ArchiveCreator of borg-core/src/archive.rs: from a list of roots to the *)
(* items of an archive.                                                    *)
(*                                                                         *)
(* A path is the sequence of its components.  A component is a name and a  *)
(* counter, 0 except in the prefixes the GUI makes unique ("docs_1" is     *)
(* <<"docs", 1>>).  An absolute path starts with Slash; the paths of items *)
(* do not.  The content of a file is named by the file (device and inode), *)
(* which several paths may be links of.                                    *)
(*                                                                         *)
(* A root has the place it is at and the names it was typed with, less     *)
(* "/", "." and "..": `borg create ../x x` gives two roots named "x".  The *)
(* GUI canonicalizes roots.  Roots exist and are no symlinks.              *)
(* Attributes, sizes, profiles and progress are left out.  WalkDir's order *)
(* is any order in which a directory precedes what is below it.            *)
(***************************************************************************)
EXTENDS Naturals, FiniteSets, Sequences, SequencesExt

CONSTANTS
    Dirs,       \* the directories of the file system that is backed up
    Files,      \* its regular files
    Links,      \* its symbolic links
    RootLists,  \* the lists of roots a backup may be asked for
    Sharings,   \* the ways the paths may be links of files: functions on Files
    MaxErrors   \* bound: how many operations of the system fail

Slash == <<"/", 0>>
Paths == Dirs \cup Files \cup Links

ASSUME ArchiveAssumption ==
    /\ \A p \in Paths : Len(p) > 1 /\ p[1] = Slash
    /\ \A s \in Sharings : DOMAIN s = Files
    /\ MaxErrors \in Nat

Styles == {"absolute", "relative", "dotted"}
Absolute(roots) == \A k \in DOMAIN roots : roots[k].style = "absolute"

(* The names of an absolute root are those of its place; of others they may *)
(* be any, as in "a/../x".  No root is named as if it were below a file or  *)
(* a symlink of another root.                                               *)
ASSUME RootsAssumption ==
    \A roots \in RootLists :
        /\ roots \in Seq(Range(roots))
        /\ \A k \in DOMAIN roots :
              /\ roots[k].at \in Dirs \cup Files /\ roots[k].style \in Styles
              /\ roots[k].typed \in Seq(UNION {Range(p) : p \in Paths})
              /\ roots[k].style = "absolute" => roots[k].typed = Tail(roots[k].at)
        /\ \A k, n \in DOMAIN roots, p \in Files \cup Links :
              IsPrefix(roots[k].at, p) =>
                ~IsStrictPrefix(roots[k].typed \o SubSeq(p, Len(roots[k].at) + 1, Len(p)), roots[n].typed)

(* A path has the file it is a link of, the number of its inode, which a    *)
(* file of another device may have too, and the number of the file's links. *)
ASSUME SharingAssumption ==
    \A s \in Sharings : \A p, q \in Files :
        /\ s[p].nlink \in Nat
        /\ (p # q /\ s[p].file = s[q].file) => (s[p] = s[q] /\ s[p].nlink > 1)

(* A file system is a finite tree, with nothing below what is not a         *)
(* directory; no name in it has a counter.                                  *)
ASSUME FileSystemAssumption ==
    /\ IsFiniteSet(Paths)
    /\ Dirs \cap (Files \cup Links) = {} /\ Files \cap Links = {}
    /\ \A p \in Paths : p \in Seq(Range(p)) /\ \A k \in DOMAIN p : p[k] = <<p[k][1], 0>>
    /\ \A p \in Paths, q \in Files \cup Links : ~IsStrictPrefix(q, p)

VARIABLES
    setup,     \* roots, exclusions, links and mapping: fixed for a behaviour
    stage,     \* how far the command is
    root,      \* the number of the root being processed
    todo,      \* entries of that root still to be processed
    items,     \* the items of the archive so far
    hardlinks, \* inode number -> item path under which it was first seen
    reported,  \* source paths passed to on_error
    errors     \* how many operations failed so far

backupVars == <<setup, stage, root, todo, items, hardlinks, reported, errors>>

Setups == {s \in [roots : RootLists, excluded : {{}} \cup {{p} : p \in Paths},
                  inode : Sharings, mapped : BOOLEAN] : s.mapped => Absolute(s.roots)}

----------------------------------------------------------------------------
Roots == setup.roots
Place(i) == Roots[i].at
Typed(i) == Roots[i].typed

(* The names of the path under which a walk of root i comes to p.          *)
TypedPath(p, i) == Typed(i) \o SubSeq(p, Len(Place(i)) + 1, Len(p))

(* PathTrie, which knows names only: the root with the longest names above *)
(* the entry's; of roots with the same names, the last one.                *)
Matches(p, i) == {j \in DOMAIN Roots : IsPrefix(Typed(j), TypedPath(p, i))}

(* Faulty: the first root that matches wins. *)
FirstMatch(p, i) == CHOOSE j \in Matches(p, i) : \A k \in Matches(p, i) : j <= k

Find_best_match(p, i) ==
    CHOOSE j \in Matches(p, i) : \A k \in Matches(p, i) :
        \/ Len(Typed(k)) < Len(Typed(j))
        \/ (Typed(k) = Typed(j) /\ k <= j)

(* The path of an item: make_relative_path keeps the names; with a mapping *)
(* the root is replaced by the name the GUI gives it, the file name with a *)
(* counter when an earlier root has the same.                              *)
UniqueName(i) ==
    <<Last(Place(i))[1], Cardinality({j \in 1 .. (i - 1) : Last(Place(j)) = Last(Place(i))})>>

RelativePath(p, i) ==
    IF setup.mapped
    THEN <<UniqueName(i)>> \o SubSeq(p, Len(Place(i)) + 1, Len(p))
    ELSE TypedPath(p, i)

(* Which paths the patterns match is part of the setup. *)
Is_excluded(p) == p \in setup.excluded

(* The entries a walk of root i yields: filter_entry leaves out, with all  *)
(* that is below them, excluded paths and paths whose names are another    *)
(* root's.                                                                 *)
Walk(i) ==
    {p \in Paths : /\ IsPrefix(Place(i), p)
                   /\ \A q \in Paths :
                        IsPrefix(Place(i), q) /\ IsPrefix(q, p)
                            => Find_best_match(q, i) = i /\ ~Is_excluded(q)}

Above(S, p) == \E q \in S : IsStrictPrefix(q, p)

----------------------------------------------------------------------------
Init ==
    /\ setup \in Setups
    /\ stage = "walk" /\ root = 0 /\ todo = {} /\ items = {} /\ hardlinks = <<>>
    /\ reported = {} /\ errors = 0

CanFail(n) == errors + n <= MaxErrors

Report(p) == reported' = reported \cup {p} /\ errors' = errors + 1

(* The walk of the next root.  Entries in "lost" cannot be looked at, the  *)
(* directories in "blind" cannot be listed: WalkDir yields an error for    *)
(* each and nothing below them.                                            *)
StartRoot ==
    /\ stage = "walk" /\ todo = {} /\ root < Len(Roots)
    /\ root' = root + 1
    /\ \E lost \in SUBSET Walk(root + 1), blind \in SUBSET (Walk(root + 1) \cap Dirs) :
        /\ CanFail(Cardinality(lost \cup blind)) /\ lost \cap blind = {}
        /\ \A p \in lost \cup blind : ~Above(lost \cup blind, p)
        /\ todo' = {p \in Walk(root + 1) \ lost : ~Above(lost \cup blind, p)}
        /\ reported' = reported \cup lost \cup blind
        /\ errors' = errors + Cardinality(lost \cup blind)
    /\ UNCHANGED <<setup, stage, items, hardlinks>>

(* The entry is the next one of the root's walk. *)
NextEntry(p) ==
    /\ stage = "walk" /\ p \in todo /\ ~Above(todo, p)
    /\ todo' = todo \ {p}
    /\ UNCHANGED <<setup, stage, root>>

Item(p, kind) == [src |-> p, path |-> RelativePath(p, root), kind |-> kind]

MetadataFails(p) ==
    /\ NextEntry(p) /\ CanFail(1) /\ Report(p)
    /\ UNCHANGED <<items, hardlinks>>

ProcessPlain(p) ==
    /\ NextEntry(p) /\ p \in Dirs \cup Links
    /\ items' = items \cup {Item(p, IF p \in Dirs THEN "dir" ELSE "symlink")}
    /\ UNCHANGED <<hardlinks, reported, errors>>

File(p) == setup.inode[p].file
Inode(p) == setup.inode[p].number
Nlink(p) == setup.inode[p].nlink
Seen(p) == Nlink(p) > 1 /\ Inode(p) \in DOMAIN hardlinks

(* A path whose inode number was seen before, of whatever device: an item  *)
(* without data that names the first path.                                 *)
LinkItem(p) ==
    [src |-> p, path |-> RelativePath(p, root), kind |-> "hardlink", target |-> hardlinks[Inode(p)]]

ProcessHardlink(p) ==
    /\ NextEntry(p) /\ p \in Files /\ Seen(p)
    /\ items' = items \cup {LinkItem(p)}
    /\ UNCHANGED <<hardlinks, reported, errors>>

(* The path that later links of the inode will name, noted before the file *)
(* is read.                                                                *)
FirstPath(p) == RelativePath(p, root)

Remember(p) ==
    hardlinks' = IF Nlink(p) > 1
                 THEN [n \in DOMAIN hardlinks \cup {Inode(p)} |->
                         IF n = Inode(p) THEN FirstPath(p) ELSE hardlinks[n]]
                 ELSE hardlinks

ProcessFile(p) ==
    /\ NextEntry(p) /\ p \in Files /\ ~Seen(p) /\ Remember(p)
    /\ items' = items \cup {Item(p, "file")}
    /\ UNCHANGED <<reported, errors>>

ReadFails(p) ==
    /\ NextEntry(p) /\ p \in Files /\ ~Seen(p) /\ CanFail(1) /\ Remember(p)
    /\ Report(p)
    /\ UNCHANGED items

(* put_chunk and read_link errors end the command: nothing is committed.   *)
Abort ==
    /\ stage = "walk" /\ todo # {} /\ CanFail(1)
    /\ \E p \in todo : p \in Links \/ (p \in Files /\ ~Seen(p))
    /\ stage' = "aborted" /\ errors' = errors + 1
    /\ UNCHANGED <<setup, root, todo, items, hardlinks, reported>>

Commit ==
    /\ stage = "walk" /\ todo = {} /\ root = Len(Roots)
    /\ stage' = "stored"
    /\ UNCHANGED <<setup, root, todo, items, hardlinks, reported, errors>>

Process(p) ==
    \/ MetadataFails(p) \/ ProcessPlain(p)
    \/ ProcessHardlink(p) \/ ProcessFile(p) \/ ReadFails(p)

Backup == StartRoot \/ (\E p \in Paths : Process(p)) \/ Abort \/ Commit

(* What a list of roots asks for: each path under a root, unless an        *)
(* exclusion cuts it off from the innermost root above it.                 *)
Wanted ==
    {p \in Paths : \E i \in DOMAIN Roots :
        /\ IsPrefix(Place(i), p)
        /\ ~\E j \in DOMAIN Roots : IsStrictPrefix(Place(i), Place(j)) /\ IsPrefix(Place(j), p)
        /\ ~\E q \in setup.excluded : IsPrefix(Place(i), q) /\ IsPrefix(q, p)}

(* Under some root the path has the names of a root that is elsewhere: the *)
(* code takes it for an entry of that root and may leave it out silently.  *)
Mistaken(p) ==
    \E i, j \in DOMAIN Roots :
        /\ IsPrefix(Place(i), p) /\ IsPrefix(Typed(j), TypedPath(p, i))
        /\ \/ ~IsPrefix(Place(j), p)
           \/ Len(Place(i)) + Len(Typed(j)) # Len(Place(j)) + Len(Typed(i))

(* A committed archive has an item for each wanted path, whatever the      *)
(* overlap of the roots, unless an error was reported for the path or for  *)
(* a directory above it, or the path is mistaken for one of another root;  *)
(* it has no other items, no two items have the same path in the archive,  *)
(* and when the roots are absolute none is mistaken or stored twice.       *)
BackupAccounts ==
    stage = "stored" =>
        /\ \A p \in Wanted :
              \/ \E it \in items : it.src = p
              \/ p \in reported \/ Above(reported, p) \/ Mistaken(p)
        /\ \A it \in items : it.src \in Wanted
        /\ \A it1, it2 \in items : it1.path = it2.path => it1 = it2
        /\ Absolute(Roots) => /\ \A p \in Wanted : ~Mistaken(p)
                              /\ \A it1, it2 \in items : it1.src = it2.src => it1 = it2
=============================================================================
