------------------------------ MODULE WebDavSync ------------------------------
(***************************************************************************)
(* The WebDAV client of borg-core/src/webdav.rs with the streaming of      *)
(* chunker.rs: discovery by PROPFIND, the metadata cache, the comparison   *)
(* of the two, and the reading of files into chunks, with ranges, retries  *)
(* and permits.                                                            *)
(*                                                                         *)
(* The library has no caller yet.  The one here is what its parts are for: *)
(* it scans, compares, deletes and downloads what has changed into its     *)
(* copy, and updates the cache, again and again; it resumes a download     *)
(* that breaks; it hands update_cache the comparison as it is, or without  *)
(* what failed.  It may die between any two steps.  Meanwhile others write *)
(* to the server.                                                          *)
(*                                                                         *)
(* A body is a sequence of pieces, of which some have a hash to cut after. *)
(* A piece is known by its version and its place.                          *)
(***************************************************************************)
EXTENDS Naturals, FiniteSets, Sequences, SequencesExt

CONSTANTS
  Root,        \* the directory that is scanned
  Children,    \* Children[d]: the directories and files in directory d
  Files,       \* the paths of files
  Nowhere,     \* no path of the server
  Servers,     \* what servers can do: serve ranges, tell entity tags, demand
               \* them in quotes, demand credentials; and the path on it that
               \* is asked for in the place of each
  Body,        \* Body[v]: of version v of a file, which pieces one may cut after
  Stamp,       \* Stamp[v]: its size and its modification time
  MinSize,     \* least size of a chunk, and
  MaxSize,     \* the greatest
  MaxRetries,  \* of stream_with_retry
  MaxReaders,  \* permits
  MaxChanges,  \* bound: writes to the server
  MaxFaults    \* bound: requests that fail, bodies that break off, and crashes

Paths == Files \cup DOMAIN Children

\* Every file is below the root.
ASSUME TreeAssumption ==
  /\ Root \in DOMAIN Children /\ Files \cap DOMAIN Children = {}
  /\ \A d \in DOMAIN Children :
       Children[d] \subseteq Files \cup DOMAIN Children /\ IsFiniteSet(Children[d])
  /\ \A D \in SUBSET DOMAIN Children :
       Root \in D /\ (\A d \in D : Children[d] \ Files \subseteq D)
         => Files \subseteq UNION {Children[d] : d \in D}
\* Entity tags matter with ranges, and how they are compared, with entity tags.
\* A request for a file does not come to a directory.
ASSUME ServersAssumption == \A s \in Servers :
  /\ s \in [ranges : BOOLEAN, etags : BOOLEAN, strict : BOOLEAN, closed : BOOLEAN,
             asked : [Paths -> Paths \cup {Nowhere}]]
  /\ (s.strict => s.etags) /\ (s.etags => s.ranges)
  /\ \A p \in Files : s.asked[p] \in Files \cup {Nowhere}
\* The sizes are as validate has them.
ASSUME SizesAssumption ==
  /\ {MinSize, MaxSize, MaxRetries, MaxReaders, MaxChanges, MaxFaults} \subseteq Nat
  /\ 0 < MinSize /\ MinSize <= MaxSize
\* Versions count from 1.  An empty file has no chunks to tell it from none.
ASSUME BodiesAssumption ==
  /\ 1 \in DOMAIN Body /\ DOMAIN Body \subseteq Nat \ {0}
  /\ \A v \in DOMAIN Body : Body[v] \in Seq(BOOLEAN) \ {<< >>}
\* A file does not get back the size and the time it had before it had others: the
\* comparison would take it for what it was.
ASSUME StampsAssumption == \A u, v, w \in DOMAIN Body :
  u <= v /\ v <= w /\ Stamp[u] = Stamp[w] => Stamp[v] = Stamp[u]

VARIABLES
  server,     \* what the server can do; never changes
  remote,     \* remote[p]: the last version of file p, and is it there?
  cache,      \* cache[p]: the entry of the metadata cache
  copy,       \* copy[p]: the chunks of the caller's copy of p
  scan,       \* the caller: what it does, directories to list, files found
  diff,       \* the result of diff_with_cache
  down,       \* down[p]: the download of p
  astray,     \* files whose entry is not of what the copy has (history)
  quiet,      \* no write to the server since the scan began (history)
  changes, faults

counts == <<changes, faults>>
caller == <<cache, copy, scan, diff, down, astray>>
vars == <<server, remote, caller, quiet, counts>>

Versions == DOMAIN Body
Absent == << >>
NoDiff == [unchanged |-> {}, changed |-> {}, deleted |-> {}]
NoEntry == [version |-> 0, deleted |-> FALSE]
NoDownload ==
  [pc |-> "none", etag |-> 0, from |-> 0, at |-> 0, pending |-> << >>, cut |-> << >>, tries |-> 0]

Init ==
  /\ server \in Servers
  /\ remote = [p \in Files |-> [version |-> 1, here |-> TRUE]]
  /\ cache = [p \in Files |-> NoEntry]
  /\ copy = [p \in Files |-> Absent]
  /\ scan = [pc |-> "idle", dirs |-> << >>, found |-> << >>]
  /\ diff = NoDiff
  /\ down = [p \in Files |-> NoDownload]
  /\ astray = {}
  /\ quiet = FALSE
  /\ changes = 0 /\ faults = 0

\* Somebody writes, deletes or brings back a file.
Change(p) ==
  /\ changes < MaxChanges /\ changes' = changes + 1
  /\ \E v \in Versions, here \in BOOLEAN :
       /\ v >= remote[p].version
       /\ ~here => v = remote[p].version
       /\ remote' = [remote EXCEPT ![p] = [version |-> v, here |-> here]]
  /\ quiet' = FALSE
  /\ UNCHANGED <<server, caller, faults>>

Fault == faults < MaxFaults /\ faults' = faults + 1

-------------------------------------------------------------------------------
(***************************************************************************)
(* Discovery                                                               *)
(***************************************************************************)

StartScan ==
  /\ scan.pc = "idle"
  /\ scan' = [pc |-> "list", dirs |-> <<Root>>, found |-> << >>]
  /\ diff' = NoDiff
  /\ down' = [p \in Files |-> NoDownload]
  /\ quiet' = TRUE
  /\ UNCHANGED <<server, remote, cache, copy, astray, counts>>

\* The path a request for p comes to.  The bytes of an escaped name are taken for
\* characters each, so that what is not ASCII is asked for under a name the server
\* does not have; and the unescaped name is joined to the URL as it is, where `?` and
\* `#` end it, `%` begins an escape, a blank at its end is dropped and a backslash is
\* a slash, so that it may be the name of another.
Asked(p) == server.asked[p]

\* One level of a directory, or the file that is listed in the place of one: the
\* files, and their versions as they are now, with what has been found.
Children_of(path) == IF path \in Files THEN {path} ELSE Children[path]
Listing(dir) ==
  LET files == {f \in Children_of(Asked(dir)) \cap Files : remote[f].here}
  IN  [p \in files \cup DOMAIN scan.found |->
         IF p \in files THEN remote[p].version ELSE scan.found[p]]

\* Those in it, and it itself if it is not what it was asked as.
Directories(dir) == (Children_of(Asked(dir)) \cup {Asked(dir)}) \ (Files \cup {dir})

Is_there(path) == path # Nowhere /\ (path \in Files => remote[path].here)

\* The next directory is listed; those in it will be.
Propfind ==
  LET dir == Head(scan.dirs)
  IN  /\ scan.pc = "list" /\ scan.dirs # << >> /\ Is_there(Asked(dir))
      /\ scan' = [scan EXCEPT
           !.dirs = Tail(@) \o SetToSeq(Directories(dir)),
           !.found = Listing(dir)]
      /\ UNCHANGED <<server, remote, cache, copy, diff, down, astray, quiet, counts>>

\* A request fails, and with it the scan.
ScanFails ==
  /\ scan.pc = "list" /\ scan.dirs # << >>
  /\ IF Is_there(Asked(Head(scan.dirs))) THEN Fault ELSE UNCHANGED faults
  /\ scan' = [pc |-> "idle", dirs |-> << >>, found |-> << >>]
  /\ UNCHANGED <<server, remote, cache, copy, diff, down, astray, quiet, changes>>

-------------------------------------------------------------------------------
(***************************************************************************)
(* Comparison with the cache                                               *)
(***************************************************************************)

Live(p) == cache[p] # NoEntry /\ ~cache[p].deleted

\* Size and time are compared, the entity tag is not.
Same(p) == Live(p) /\ Stamp[cache[p].version] = Stamp[scan.found[p]]

Diff_with_cache ==
  LET found == DOMAIN scan.found
  IN  [unchanged |-> {p \in found : Same(p)},
       changed |-> {p \in found : ~Same(p)},
       deleted |-> {p \in Files \ found : Live(p)}]

\* What is gone is deleted from the copy, what has changed will be downloaded.
Compare ==
  /\ scan.pc = "list" /\ scan.dirs = << >>
  /\ scan' = [scan EXCEPT !.pc = "fetch"]
  /\ diff' = Diff_with_cache
  /\ copy' = [p \in Files |-> IF p \in diff'.deleted THEN Absent ELSE copy[p]]
  /\ down' = [p \in Files |->
                IF p \in diff'.changed THEN [NoDownload EXCEPT !.pc = "open"] ELSE NoDownload]
  /\ UNCHANGED <<server, remote, cache, astray, quiet, counts>>

Failed == {p \in Files : down[p].pc = "failed"}

\* update_cache(diff) is called, with all of the comparison or without the failures.
StartUpdate ==
  /\ scan.pc = "fetch" /\ \A p \in Files : down[p].pc \in {"none", "done", "failed"}
  /\ scan' = [scan EXCEPT !.pc = "update"]
  /\ \/ diff' = [diff EXCEPT !.changed = @ \ Failed] /\ astray' = astray \ (diff'.changed \cup diff.deleted)
     \/ diff' = diff /\ astray' = (astray \ (diff.changed \cup diff.deleted)) \cup Failed
  /\ UNCHANGED <<server, remote, cache, copy, down, quiet, counts>>

\* Faulty: what is deleted keeps its entry as it is.
PutLive(p) ==
  IF p \in diff.deleted THEN cache[p] ELSE [version |-> scan.found[p], deleted |-> FALSE]

Entry(p) ==
  IF p \in diff.deleted
    THEN [cache[p] EXCEPT !.deleted = TRUE]
    ELSE [version |-> scan.found[p], deleted |-> FALSE]

\* The entries are written one by one, those of deleted files last.
Put(p) ==
  /\ scan.pc = "update"
  /\ \/ p \in diff.unchanged \cup diff.changed
     \/ p \in diff.deleted /\ diff.unchanged \cup diff.changed = {}
  /\ cache' = [cache EXCEPT ![p] = Entry(p)]
  /\ diff' = [part \in DOMAIN diff |-> diff[part] \ {p}]
  /\ UNCHANGED <<server, remote, copy, scan, down, astray, quiet, counts>>

EndUpdate ==
  /\ scan.pc = "update" /\ diff = NoDiff
  /\ scan' = [scan EXCEPT !.pc = "idle"]
  /\ UNCHANGED <<server, remote, cache, copy, diff, down, astray, quiet, counts>>

\* The caller dies and starts anew; the copy and the cache stay.
Crash ==
  /\ scan.pc # "idle" /\ Fault
  /\ scan' = [pc |-> "idle", dirs |-> << >>, found |-> << >>]
  /\ diff' = NoDiff
  /\ down' = [p \in Files |-> NoDownload]
  /\ astray' = astray \cup diff.deleted \cup {p \in diff.changed : down[p].pc = "done"}
  /\ UNCHANGED <<server, remote, cache, copy, quiet, changes>>

-------------------------------------------------------------------------------
(***************************************************************************)
(* Chunks                                                                  *)
(***************************************************************************)

Pieces(v) == [i \in 1 .. Len(Body[v]) |-> <<v, i>>]

Least(a, b) == IF a < b THEN a ELSE b

\* Where the first chunk of some data ends: after the first piece with such a
\* hash from MinSize on, or at MaxSize, or at the end.
Cut(data) ==
  LET longest == Least(MaxSize, Len(data))
      ends == {n \in MinSize .. longest : Body[data[n][1]][data[n][2]]} \cup {longest}
  IN  CHOOSE n \in ends : \A m \in ends : n <= m

\* chunk_data: the chunks of some data, cut one after the other.
Chunk_data(data) ==
  LET chunks[n \in 0 .. Len(data)] ==  \* those of the data but its first n pieces
        IF n = Len(data) THEN << >>
        ELSE LET rest == SubSeq(data, n + 1, Len(data))
                 end == Cut(rest)
             IN  <<SubSeq(rest, 1, end)>> \o chunks[n + end]
  IN  chunks[0]

\* Faulty: the last chunk is not held back.
PassAll(d) ==
  IF Len(d.pending) < MaxSize THEN d
  ELSE [d EXCEPT !.cut = @ \o Chunk_data(d.pending), !.pending = << >>]

\* What the loop of stream_to_chunks does after a read: once enough is pending for
\* a chunk of any size, all chunks but the last, which may go on, are passed on.
Pass(d) ==
  LET chunks == Chunk_data(d.pending)
  IN  IF Len(d.pending) < MaxSize \/ Len(chunks) < 2 THEN d
      ELSE [d EXCEPT !.cut = @ \o Front(chunks), !.pending = Last(chunks)]

-------------------------------------------------------------------------------
(***************************************************************************)
(* Downloads                                                               *)
(***************************************************************************)

To(p, d) == down' = [down EXCEPT ![p] = d]

\* The reader sends no credentials, though the client has them.
Granted(p) == ~server.closed /\ Is_there(Asked(p))

\* The version that is there now of what is asked for.
Now(p) == IF Asked(p) \in Files THEN remote[Asked(p)].version ELSE 0

\* HEAD tells the entity tag, if there are any, of the version that is there now.
Open(p) ==
  /\ down[p].pc = "open" /\ Granted(p)
  /\ To(p, [down[p] EXCEPT !.pc = "permit", !.etag = IF server.etags THEN Now(p) ELSE 0])
  /\ UNCHANGED <<server, remote, cache, copy, scan, diff, astray, quiet, counts>>

OpenFails(p) ==
  /\ down[p].pc = "open"
  /\ IF Granted(p) THEN Fault ELSE UNCHANGED faults
  /\ To(p, [NoDownload EXCEPT !.pc = "failed"])
  /\ UNCHANGED <<server, remote, cache, copy, scan, diff, astray, quiet, changes>>

Readers == {p \in Files : down[p].pc = "request"}

\* stream_from waits for a permit.  into_reader drops it with the answer, so that
\* it is held for the time of the request.
Acquire(p) ==
  /\ down[p].pc = "permit"
  /\ down[p].at > 0 => server.ranges
  /\ Cardinality(Readers) < MaxReaders
  /\ To(p, [down[p] EXCEPT !.pc = "request"])
  /\ UNCHANGED <<server, remote, cache, copy, scan, diff, astray, quiet, counts>>

\* A range is served if the entity tag that came with HEAD, sent without its
\* quotes in If-Range, is taken for that of the present version; without one, always.
Matches(d, v) == d.etag = 0 \/ (d.etag = v /\ ~server.strict)

Served(p) ==
  LET at == down[p].at
  IN  /\ Granted(p)
      /\ at > 0 => at < Len(Body[Now(p)]) /\ Matches(down[p], Now(p))

\* The answer begins; its body is that of the version the server has now.
Get(p) ==
  /\ down[p].pc = "request" /\ Served(p)
  /\ To(p, [down[p] EXCEPT !.pc = "body", !.from = Now(p), !.tries = 0])
  /\ UNCHANGED <<server, remote, cache, copy, scan, diff, astray, quiet, counts>>

\* Faulty: the tries are not counted.
RetryAlways(d) == [d EXCEPT !.pc = "permit"]

Retry(d) ==
  IF d.tries >= MaxRetries THEN [NoDownload EXCEPT !.pc = "failed"]
  ELSE [d EXCEPT !.pc = "permit", !.tries = @ + 1]

\* The whole file comes instead of the range, the request fails, or there is no
\* asking for ranges: stream_with_retry tries again, from the same offset.
GetFails(p) ==
  /\ \/ down[p].pc = "request" /\ ~Served(p) /\ UNCHANGED faults
     \/ down[p].pc = "request" /\ Served(p) /\ Fault
     \/ down[p].pc = "permit" /\ down[p].at > 0 /\ ~server.ranges /\ UNCHANGED faults
  /\ To(p, Retry(down[p]))
  /\ UNCHANGED <<server, remote, cache, copy, scan, diff, astray, quiet, changes>>

Rest(d) == SubSeq(Pieces(d.from), d.at + 1, Len(Body[d.from]))

\* A read brings some of the body, which is cut as far as it goes.
Read(p, n) ==
  /\ down[p].pc = "body" /\ n <= Len(Rest(down[p])) /\ n <= 2 * MaxSize
  /\ To(p, Pass([down[p] EXCEPT !.at = @ + n,
                                !.pending = @ \o SubSeq(Rest(down[p]), 1, n)]))
  /\ UNCHANGED <<server, remote, cache, copy, scan, diff, astray, quiet, counts>>

\* The body breaks off; the caller resumes it.
Break(p) ==
  /\ down[p].pc = "body" /\ Rest(down[p]) # << >> /\ Fault
  /\ To(p, [down[p] EXCEPT !.pc = "permit", !.from = 0])
  /\ UNCHANGED <<server, remote, cache, copy, scan, diff, astray, quiet, changes>>

\* At the end what is pending is cut, and the copy has the new chunks.
Finish(p) ==
  /\ down[p].pc = "body" /\ Rest(down[p]) = << >>
  /\ copy' = [copy EXCEPT ![p] = down[p].cut \o Chunk_data(down[p].pending)]
  /\ To(p, [NoDownload EXCEPT !.pc = "done"])
  /\ UNCHANGED <<server, remote, cache, scan, diff, astray, quiet, counts>>

Download(p) ==
  \/ Open(p) \/ OpenFails(p) \/ Acquire(p) \/ Get(p) \/ GetFails(p)
  \/ (\E n \in 1 .. 2 * MaxSize : Read(p, n)) \/ Break(p) \/ Finish(p)

Sync ==
  \/ StartScan \/ Propfind \/ ScanFails \/ Compare
  \/ (\E p \in Files : Download(p))
  \/ StartUpdate \/ (\E p \in Files : Put(p)) \/ EndUpdate

Next == (\E p \in Files : Change(p)) \/ Sync \/ Crash

\* The caller goes on.
Spec == Init /\ [][Next]_vars /\ WF_vars(Sync)

-------------------------------------------------------------------------------
(***************************************************************************)
(* Properties                                                              *)
(***************************************************************************)

\* The copy of a file is all of one version of what was asked for, cut into the very
\* chunks it is cut into at one go, so that they are found again by their hashes:
\* whatever reads the body came in, and though it broke off and was resumed while the
\* file changed.  A server without entity tags is the exception.
Whole ==
  \A p \in Files : copy[p] # Absent =>
    \/ \E v \in Versions : copy[p] = Chunk_data(Pieces(v))
    \/ server.ranges /\ ~server.etags

Version(chunks) == Last(Last(chunks))[1]

Level(p) ==
  IF remote[p].here
    THEN copy[p] # Absent /\ Version(copy[p]) = remote[p].version
    ELSE copy[p] = Absent

\* A change the comparison cannot see: the file was not downloaded and has the size
\* and the time of the copy.
Unseen(p) ==
  /\ remote[p].here /\ copy[p] # Absent /\ down[p].pc # "done"
  /\ Stamp[Version(copy[p])] = Stamp[remote[p].version]

\* The name of p comes through as it is.
AskedAsIs(p) == Asked(p) = p
DirectoriesAsIs == \A d \in DOMAIN Children : AskedAsIs(d)

\* One round during which nobody writes to the server makes the copy level with it,
\* version for version, but for what failed in it, for changes that do not show in
\* size and time, and for what the cache has an entry of that is not of the copy:
\* because it was told of what had failed, or because a round died with the copy
\* changed and the entry not.  A file whose name does not come through may be the
\* copy of another, and a directory's may hide what is in it.
RoundLevels ==
  scan.pc = "update" /\ quiet /\ DirectoriesAsIs =>
    \A p \in Files : AskedAsIs(p) => Level(p) \/ Unseen(p) \/ p \in Failed \cup astray

\* When the server is left alone the copy comes to be level with it for good, though
\* downloads fail and the server may not know ranges; but for files whose names do
\* not come through, and one such directory keeps it from all.  A server that
\* demands credentials gives no file.
Converges ==
  <>[](~server.closed /\ DirectoriesAsIs =>
         \A p \in Files : AskedAsIs(p) => Level(p) \/ Unseen(p) \/ p \in astray)
===============================================================================
