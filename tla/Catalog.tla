-------------------------------- MODULE Catalog --------------------------------
(***************************************************************************)
(* The search catalog of borg-core/src/catalog.rs beside the commands      *)
(* search, diff and list of borg-cli, which read the repository itself.    *)
(*                                                                         *)
(* The catalog is four trees of a database, written key by key; a crash    *)
(* keeps what was written so far.  Keys are names and paths with a colon   *)
(* between, so names, paths and patterns are sequences of characters, as   *)
(* few as it takes to tell keys apart.                                     *)
(*                                                                         *)
(* Nothing calls the catalog yet.  The one who would, the environment of   *)
(* this module, indexes archives of the repository, removes archives and   *)
(* rebuilds the catalog, in any order, while others write to the           *)
(* repository.                                                             *)
(***************************************************************************)
EXTENDS Naturals, FiniteSets, Sequences, SequencesExt, FiniteSetsExt, Functions, TLC

CONSTANTS
  Names,        \* of archives
  Contents,     \* what archives may hold: functions from paths to items
  Lower(_),     \* the lower case of a character
  Wide,         \* the characters of more than one byte
  Queries,      \* what is searched for
  MaxArchives,  \* bound: archives made
  MaxCalls      \* bound: calls of the catalog

ASSUME BoundsAssumption == MaxArchives \in Nat /\ MaxCalls \in Nat
ASSUME NamesAssumption == \A n \in Names : n \in Seq(STRING) /\ n # << >>
ASSUME ContentsAssumption ==
  \A contents \in Contents :
    /\ IsFiniteSet(DOMAIN contents)
    /\ \A p \in DOMAIN contents : p \in Seq(STRING) /\ contents[p] \in [type : STRING, data : Nat]
\* The lower case of a character of one byte has one, too.
ASSUME LowerAssumption ==
  \A contents \in Contents : \A p \in DOMAIN contents :
    \A i \in DOMAIN p : p[i] \notin Wide => Lower(p[i]) \notin Wide
ASSUME QueriesAssumption ==
  Queries \subseteq [pattern : Seq(STRING), kind : {"exact", "glob", "contains"},
                      archive : Names \cup {<< >>}, type : {"file", "dir", "any"},
                      min : Nat, max : Nat, limit : Nat]

VARIABLES
  repo,      \* the archives of the manifest, in order
  trees,     \* the database
  agenda,    \* what the call that is under way has yet to do
  indexed,   \* the archives indexed by a call that came to its end, and whose
             \* keys no other call has touched since (history)
  touched,   \* names that may have entries among the files (history)
  hurt,      \* has a call ended half-way since the last rebuild? (history)
  time, calls

catalogVars == <<repo, trees, agenda, indexed, touched, hurt, time, calls>>

\* Four trees without keys.
NewDatabase == [t \in {"archives", "files", "path_index", "stats"} |-> << >>]

CatalogInit ==
  /\ repo = << >>
  /\ trees = NewDatabase
  /\ agenda = << >>
  /\ indexed = {} /\ touched = {} /\ hurt = FALSE
  /\ time = 0 /\ calls = 0

-------------------------------------------------------------------------------
(***************************************************************************)
(* Keys and entries                                                        *)
(***************************************************************************)

Key(a, b) == a \o <<":">> \o b

\* The keys of a tree that begin with a name and a colon: those of an archive
\* with a longer name may be among them.
Scan_prefix(keys, name) == {k \in keys : IsPrefix(Key(name, << >>), k)}

OfType(contents, type) == {p \in DOMAIN contents : contents[p].type = type}

Stats(archive) ==
  [files |-> Cardinality(OfType(archive.items, "file")),
   dirs |-> Cardinality(OfType(archive.items, "dir")),
   size |-> SumFunction([p \in OfType(archive.items, "file") |-> archive.items[p].data])]

CatalogArchive(archive) ==
  [name |-> archive.name, time |-> archive.time,
   files |-> Stats(archive).files, dirs |-> Stats(archive).dirs, size |-> Stats(archive).size]

CatalogFile(archive, p) ==
  [archive |-> archive.name, path |-> p,
   type |-> archive.items[p].type, data |-> archive.items[p].data]

-------------------------------------------------------------------------------
(***************************************************************************)
(* Calls, as the sequences of what they do                                 *)
(***************************************************************************)

Entry(key, value) == [k \in {key} |-> value]
Put(tree, entries) == [op |-> "put", tree |-> tree, entries |-> entries]
Drop(tree, keys) == [op |-> "drop", tree |-> tree, keys |-> keys]
Panic == [op |-> "panic"]
Done(archives, names, all) == [op |-> "done", archives |-> archives, names |-> names, all |-> all]

\* The prefixes of a path are cut after the first byte of a character, which
\* for a wide one is within the character.
Prefixes_of(path) ==
  LET wide == {i \in DOMAIN path : path[i] \in Wide}
      last == IF wide = {} THEN Len(path) ELSE Min(wide) - 1
  IN  {[j \in 1 .. i |-> Lower(path[j])] : i \in 1 .. last}

Index_item(archive, p) ==
  LET keys == {Key(prefix, archive.name) : prefix \in Prefixes_of(p)}
  IN  <<Put("files", Entry(Key(archive.name, p), CatalogFile(archive, p))),
        Put("path_index", [k \in keys |-> p])>>
      \o (IF \E i \in DOMAIN p : p[i] \in Wide THEN <<Panic>> ELSE << >>)

\* The archive's own entry, its items', its statistics.
Index_archive(archive) ==
  <<Put("archives", Entry(archive.name, CatalogArchive(archive)))>>
  \o FlattenSeq([i \in 1 .. Cardinality(DOMAIN archive.items) |->
       Index_item(archive, SetToSeq(DOMAIN archive.items)[i])])
  \o <<Put("stats", Entry(archive.name, Stats(archive)))>>

\* Faulty: the files stay.
RemoveEntry(name) == <<Drop("archives", {name}), Drop("stats", {name})>>

\* Removes what is under keys that look like the archive's.
Remove_archive(name) ==
  LET files == Scan_prefix(DOMAIN trees.files, name)
      index == {k \in DOMAIN trees.path_index : IsSuffix(Key(<< >>, name), k)}
  IN  <<Drop("archives", {name}), Drop("stats", {name})>>
      \o [i \in 1 .. Cardinality(files) |-> Drop("files", {SetToSeq(files)[i]})]
      \o <<Drop("path_index", index)>>

\* Two archives whose keys may be the same or begin alike.
Clash(m, n) == IsPrefix(Key(m, << >>), Key(n, << >>)) \/ IsPrefix(Key(n, << >>), Key(m, << >>))

\* Faulty: the files stay.
RebuildOver(archives) ==
  <<Drop("archives", DOMAIN trees.archives), Drop("stats", DOMAIN trees.stats)>>
  \o FlattenSeq([i \in DOMAIN archives |-> Index_archive(archives[i]) \o <<Done({}, {}, FALSE)>>])
  \o <<Done({}, {}, TRUE)>>

\* Clears the four trees, then indexes all.
Rebuild_from_archives(archives) ==
  LET names == {archives[i].name : i \in DOMAIN archives}
      own(i) == IF \E j \in DOMAIN archives \ {i} : Clash(archives[i].name, archives[j].name)
                THEN {} ELSE {archives[i]}
  IN  <<Drop("archives", DOMAIN trees.archives), Drop("files", DOMAIN trees.files),
        Drop("path_index", DOMAIN trees.path_index), Drop("stats", DOMAIN trees.stats),
        Done({}, touched \ names, FALSE)>>
      \o FlattenSeq([i \in DOMAIN archives |->
           Index_archive(archives[i]) \o <<Done(own(i), {}, FALSE)>>])
      \o <<Done({}, {}, TRUE)>>

Call == agenda = << >> /\ calls < MaxCalls /\ calls' = calls + 1

Untouched(name) == {a \in indexed : ~Clash(a.name, name)}

CallIndex(archive) ==
  /\ Call
  /\ LET clean == \A n \in touched : ~Clash(n, archive.name)
     IN  agenda' = Index_archive(archive) \o <<Done(IF clean THEN {archive} ELSE {}, {}, FALSE)>>
  /\ indexed' = Untouched(archive.name)
  /\ touched' = touched \cup {archive.name}
  /\ UNCHANGED <<repo, trees, hurt, time>>

CallRemove(name) ==
  /\ Call
  /\ agenda' = Remove_archive(name) \o <<Done({}, Scan_prefix(touched, name) \cup {name}, FALSE)>>
  /\ indexed' = Untouched(name)
  /\ UNCHANGED <<repo, trees, touched, hurt, time>>

CallRebuild ==
  /\ Call
  /\ agenda' = Rebuild_from_archives(repo)
  /\ indexed' = {}
  /\ touched' = touched \cup {repo[i].name : i \in DOMAIN repo}
  /\ UNCHANGED <<repo, trees, hurt, time>>

Written(tree, entries) ==
  [k \in DOMAIN tree \cup DOMAIN entries |-> IF k \in DOMAIN entries THEN entries[k] ELSE tree[k]]

\* The next write, or the end of the call for an archive or for all.
Write ==
  /\ agenda # << >> /\ Head(agenda).op # "panic"
  /\ LET do == Head(agenda)
     IN  CASE do.op = "put" ->
                /\ trees' = [trees EXCEPT ![do.tree] = Written(@, do.entries)]
                /\ UNCHANGED <<indexed, touched, hurt>>
           [] do.op = "drop" ->
                /\ trees' = [trees EXCEPT ![do.tree] = Restrict(@, DOMAIN @ \ do.keys)]
                /\ UNCHANGED <<indexed, touched, hurt>>
           [] do.op = "done" ->
                /\ indexed' = indexed \cup do.archives
                /\ touched' = touched \ do.names
                /\ hurt' = (hurt /\ ~do.all)
                /\ UNCHANGED trees
  /\ agenda' = Tail(agenda)
  /\ UNCHANGED <<repo, time, calls>>

\* The program crashes, or the thread panics over a wide character.
Crash ==
  /\ agenda # << >>
  /\ agenda' = << >> /\ hurt' = TRUE
  /\ UNCHANGED <<repo, trees, indexed, touched, time, calls>>

-------------------------------------------------------------------------------
(***************************************************************************)
(* The repository                                                          *)
(***************************************************************************)

\* Nothing keeps two backups from committing archives of one name.
Create(name, contents) ==
  /\ time < MaxArchives
  /\ time' = time + 1
  /\ repo' = Append(repo, [name |-> name, time |-> time', items |-> contents])
  /\ UNCHANGED <<trees, agenda, indexed, touched, hurt, calls>>

\* The first archive of the name goes.
Delete(name) ==
  /\ \E i \in DOMAIN repo : repo[i].name = name
  /\ repo' = RemoveFirstMatch(repo, LAMBDA a : a.name = name)
  /\ UNCHANGED <<trees, agenda, indexed, touched, hurt, time, calls>>

CatalogNext ==
  \/ \E i \in DOMAIN repo : CallIndex(repo[i])
  \/ \E name \in Names : CallRemove(name)
  \/ CallRebuild \/ Write \/ Crash
  \/ \E name \in Names : Delete(name)
  \/ \E name \in Names, contents \in Contents : Create(name, contents)

CatalogSpec == CatalogInit /\ [][CatalogNext]_catalogVars

-------------------------------------------------------------------------------
(***************************************************************************)
(* Search                                                                  *)
(***************************************************************************)

Lowered(text) == [i \in DOMAIN text |-> Lower(text[i])]

\* What the pattern after p characters comes to at every place of the text, when
\* next is what it comes to after one more.  After a star the rest is tried at every
\* byte of the rest of the text; a byte within a character is a panic, unless a
\* match came before it.
Glob_rest(text, pattern, p, next) ==
  LET at(i) == IF next[i] # "no" THEN next[i]
               ELSE IF i < Len(text) /\ text[i + 1] \in Wide THEN "panic" ELSE "no"
      tried(t) == LET ends == {i \in t .. Len(text) : at(i) # "no"}
                  IN  IF ends = {} THEN "no" ELSE at(Min(ends))
  IN  [t \in 0 .. Len(text) |->
         IF p = Len(pattern) THEN IF t = Len(text) THEN "yes" ELSE "no"
         ELSE IF pattern[p + 1] = "*" THEN IF p + 1 = Len(pattern) THEN "yes" ELSE tried(t)
         ELSE IF t < Len(text) /\ pattern[p + 1] \in {"?", text[t + 1]} THEN next[t + 1] ELSE "no"]

Glob_match(text, pattern) ==
  LET match[p \in 0 .. Len(pattern)] == Glob_rest(text, pattern, p, match[p + 1])
  IN  match[0][0]

PathMatches(path, q) ==
  LET text == Lowered(path)
      pattern == Lowered(q.pattern)
  IN  CASE q.kind = "exact" -> IF text = pattern THEN "yes" ELSE "no"
        [] q.kind = "glob" -> Glob_match(text, pattern)
        [] q.kind = "contains" ->
             IF \E i \in 0 .. Len(text) - Len(pattern) : SubSeq(text, i + 1, i + Len(pattern)) = pattern
             THEN "yes" ELSE "no"

\* A number stands for the size and for the time of a file.
Filters(item, q) ==
  /\ q.type \in {"any", item.type}
  /\ q.min <= item.data /\ item.data <= q.max

Matches_query(path, item, q) ==
  IF PathMatches(path, q) = "yes" THEN IF Filters(item, q) THEN "yes" ELSE "no"
  ELSE PathMatches(path, q)

\* The archive of a query that is for all of them.
Anywhere == << >>

Query(kind, pattern, archive, type, min, max, limit) ==
  [kind |-> kind, pattern |-> pattern, archive |-> archive, type |-> type,
   min |-> min, max |-> max, limit |-> limit]

AtLeastOne(n) == IF n = 0 THEN 1 ELSE n

\* What was found, with one more file: the limit is looked at after a result is
\* added, so that there is one even if the limit is 0.
Add_file(found, file, q) ==
  LET verdict == Matches_query(file.path, file, q)
  IN  CASE found = <<Panic>> \/ Len(found) = AtLeastOne(q.limit) \/ verdict = "no" -> found
        [] OTHER -> IF verdict = "panic" THEN <<Panic>> ELSE Append(found, file)

\* What a search that goes through these files comes to.
Found(files, q) ==
  LET found[n \in 0 .. Len(files)] == IF n = 0 THEN << >> ELSE Add_file(found[n - 1], files[n], q)
  IN  found[Len(files)]

\* Sorted by time, which no two archives share.
Newest(archives) ==
  [i \in 1 .. Cardinality(archives) |->
     CHOOSE a \in archives : Cardinality({b \in archives : b.time > a.time}) = i - 1]

List_archives == Newest(Range(trees.archives))

FilesOf(name) == {trees.files[k] : k \in Scan_prefix(DOMAIN trees.files, name)}

Search_files(q) ==
  LET listed == [i \in DOMAIN List_archives |-> List_archives[i].name]
      names == IF q.archive = Anywhere THEN listed ELSE <<q.archive>>
  IN  Found(FlattenSeq([i \in DOMAIN names |-> SetToSeq(FilesOf(names[i]))]), q)

\* load_archive takes the first archive of the name, for the second one as well.
Load_archive(name) == repo[Min({i \in DOMAIN repo : repo[i].name = name})]

\* borg search goes through the archives themselves.
Search_archives(q) ==
  LET filesOf(archive) == SetToSeq({CatalogFile(archive, p) : p \in DOMAIN archive.items})
      searched(i) == q.archive \in {Anywhere, repo[i].name}
  IN  Found(FlattenSeq([i \in DOMAIN repo |->
        IF searched(i) THEN filesOf(Load_archive(repo[i].name)) ELSE << >>]), q)

-------------------------------------------------------------------------------
(***************************************************************************)
(* Differences, lists and totals                                           *)
(***************************************************************************)

\* Not as it is: a change of type is a difference.
DifferentOrType(a, b) == a.type # b.type \/ a.data # b.data

Is_different_from(a, b) == a.data # b.data

Is_modified(a, b) == a.type # b.type \/ a.data # b.data

From_file(p, file) == <<p, file>>
From_files(p, before, after) == <<p, before.data, after>>

Both(files1, files2) == DOMAIN files1 \cap DOMAIN files2

\* Of the files of two archives, by path, of which some are taken for modified.
Difference(files1, files2, modified) ==
  [added |-> {From_file(p, files2[p]) : p \in DOMAIN files2 \ DOMAIN files1},
   removed |-> {From_file(p, files1[p]) : p \in DOMAIN files1 \ DOMAIN files2},
   modified |-> {From_files(p, files1[p], files2[p]) : p \in modified},
   unchanged |-> Cardinality(Both(files1, files2) \ modified)]

\* The files found under a name, by path, the last of a path.
ByPath(name) ==
  [p \in {f.path : f \in FilesOf(name)} |->
     LET f == CHOOSE f \in FilesOf(name) : f.path = p IN [type |-> f.type, data |-> f.data]]

Diff_archives(name1, name2) ==
  LET files1 == ByPath(name1)  files2 == ByPath(name2)
  IN  Difference(files1, files2,
        {p \in Both(files1, files2) : Is_different_from(files1[p], files2[p])})

Compute_diff(archive1, archive2) ==
  LET files1 == archive1.items  files2 == archive2.items
  IN  Difference(files1, files2, {p \in Both(files1, files2) : Is_modified(files1[p], files2[p])})

\* Faulty: oldest first.
ListOldest(first, last) == Reverse(Newest(Range(repo)))

\* What borg list shows: the newest archives first, of those the first, of those the last.
List(first, last) ==
  LET archives == Newest(Range(repo))
      some == SubSeq(archives, 1, Min({first, Len(archives)}))
  IN  IF last < Len(some) THEN SubSeq(some, Len(some) - last + 1, Len(some)) ELSE some

Total(entries, field) == SumFunction([n \in DOMAIN entries |-> entries[n][field]])

Get_total_stats ==
  [archives |-> Cardinality(DOMAIN trees.stats),
   files |-> Total(trees.stats, "files"),
   dirs |-> Total(trees.stats, "dirs"),
   size |-> Total(trees.stats, "size")]

-------------------------------------------------------------------------------
(***************************************************************************)
(* Properties                                                              *)
(***************************************************************************)

\* What a pattern with stars and question marks means: the text can be cut into
\* as many pieces as the pattern has characters, each matched by its own.
Means(text, pattern) ==
  \E cut \in [0 .. Len(pattern) -> 0 .. Len(text)] :
    /\ cut[0] = 0 /\ cut[Len(pattern)] = Len(text)
    /\ \A i \in DOMAIN pattern :
         \/ pattern[i] = "*" /\ cut[i - 1] <= cut[i]
         \/ cut[i] = cut[i - 1] + 1 /\ pattern[i] \in {"?", text[cut[i]]}

Meant ==
  {m \in (UNION {DOMAIN contents : contents \in Contents}) \X Queries :
     LET path == m[1]  q == m[2]
     IN  IF q.kind = "glob" THEN Means(Lowered(path), Lowered(q.pattern))
         ELSE PathMatches(path, q) = "yes"}

Sought(archive, q) ==
  {CatalogFile(archive, p) : p \in
     {p \in DOMAIN archive.items : <<p, q>> \in Meant /\ Filters(archive.items[p], q)}}

Finds(found, archive, q) ==
  /\ ToSet(found) \subseteq Sought(archive, q)
  /\ Len(found) = Min({AtLeastOne(q.limit), Cardinality(Sought(archive, q))})

\* A search in an archive that was indexed and that nothing with a like name came
\* near finds what there is to find, once, up to the limit: also while another
\* archive is written or removed, or was half-way when the program died.
SearchFinds ==
  \A a \in indexed, q \in Queries : Finds(Search_files([q EXCEPT !.archive = a.name]), a, q)

\* When the catalog has all archives and no others, under names of their own, the
\* catalog and the commands, which go through the archives, say the same of all
\* archives or of one of them.  (Of a name that no archive has they do not: the
\* catalog takes what an archive with a longer name has under keys that begin alike.)
CommandsAgree ==
  indexed = ToSet(repo) /\ DOMAIN trees.archives = {a.name : a \in indexed} =>
    /\ \A q \in {q \in Queries : q.archive \in {Anywhere} \cup DOMAIN trees.archives} :
         LET found == Search_files(q)  read == Search_archives(q)
         IN  Len(found) = Len(read) /\ (q.limit > Len(read) => ToSet(found) = ToSet(read))
    /\ [i \in DOMAIN List_archives |-> List_archives[i].name]
         = [i \in DOMAIN repo |-> List(Len(repo), Len(repo))[i].name]

\* The difference of two archives is that of the archives themselves, except that
\* a change of type alone goes unnoticed, and it is the same seen from either side.
DiffAgrees ==
  \A a, b \in indexed :
    LET diff == Diff_archives(a.name, b.name)
        back == Diff_archives(b.name, a.name)
        real == Compute_diff(a, b)
    IN  /\ diff.added = real.added /\ diff.removed = real.removed
        /\ diff.modified = {m \in real.modified : m[2] # m[3].data}
        /\ back.added = diff.removed /\ back.removed = diff.added
        /\ back.unchanged = diff.unchanged

\* Between calls, unless one ended half-way, the totals are those of the archives
\* that are listed, and no file and no key of the index is left of any other: even
\* of archives with like names, or of one name.  After a call that ended half-way
\* a rebuild mends it.
NothingLeft ==
  agenda = << >> /\ ~hurt =>
    /\ Get_total_stats =
         [archives |-> Len(List_archives),
          files |-> Total(trees.archives, "files"),
          dirs |-> Total(trees.archives, "dirs"),
          size |-> Total(trees.archives, "size")]
    /\ \A k \in DOMAIN trees.files : trees.files[k].archive \in DOMAIN trees.archives
    /\ \A k \in DOMAIN trees.path_index :
         \E n \in DOMAIN trees.archives : IsSuffix(Key(<< >>, n), k)
===============================================================================
