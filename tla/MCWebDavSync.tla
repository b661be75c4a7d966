------------------------------ MODULE MCWebDavSync ------------------------------
\* A file in the root and one below it, in a directory.  The name of the second may
\* be not ASCII, or `..\f`, which as a URL is that of the first; that of the directory
\* may be `f?d`, so that the file is listed in its place, or not ASCII.  The second
\* version has another stamp than the first, the third that of the second.
EXTENDS WebDavSync

MCChildren == [d \in {"/", "/d"} |-> IF d = "/" THEN {"/f", "/d"} ELSE {"/d/g"}]

Server(ranges, etags, strict) ==
  [ranges |-> ranges, etags |-> etags, strict |-> strict, closed |-> FALSE,
   asked |-> [p \in Paths |-> p]]
Misnaming(p, path) == [Server(TRUE, TRUE, FALSE) EXCEPT !.asked[p] = path]

MCServers ==
  {Server(FALSE, FALSE, FALSE), Server(TRUE, FALSE, FALSE),
   [Server(TRUE, TRUE, TRUE) EXCEPT !.asked["/d/g"] = Nowhere], Misnaming("/d/g", "/f"),
   Misnaming("/d", Nowhere), Misnaming("/d", "/f"),
   [Server(TRUE, TRUE, FALSE) EXCEPT !.closed = TRUE]}

MCBody == <<<<FALSE, TRUE>>, <<TRUE, FALSE, FALSE>>, <<FALSE, FALSE>>>>
MCStamp == <<1, 2, 2>>
=================================================================================
