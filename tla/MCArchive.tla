----------------------------- MODULE MCArchive -----------------------------
(* A small tree: /a with a file f and a directory d, which holds a file g   *)
(* and a link l; and a directory /d of the same name with a file h.  A     *)
(* relative root is typed in /a.                                           *)
EXTENDS ArchiveRestore

A == <<Slash, <<"a", 0>>>>
D == Append(A, <<"d", 0>>)
F == Append(A, <<"f", 0>>)
G == Append(D, <<"g", 0>>)
L == Append(D, <<"l", 0>>)
B == <<Slash, <<"d", 0>>>>
H == Append(B, <<"h", 0>>)

MCDirs == {A, D, B}
MCFiles == {F, G, H}
MCLinks == {L}

Whole(p) == [at |-> p, typed |-> Tail(p), style |-> "absolute"]
RelativeD == [at |-> D, typed |-> <<<<"d", 0>>>>, style |-> "relative"]
DottedB == [at |-> B, typed |-> <<<<"d", 0>>>>, style |-> "dotted"]
Here == [at |-> A, typed |-> <<>>, style |-> "dotted"]

MCRootLists ==
    {<<Whole(A)>>, <<Whole(D), Whole(B)>>, <<Whole(A), Whole(D)>>, <<Whole(D), Whole(A)>>,
     <<Whole(B), Whole(F), Whole(B)>>,
     <<RelativeD, DottedB>>, <<Here, Whole(D)>>, <<RelativeD, Here>>}

Single(p) == [file |-> p, number |-> p, nlink |-> 1]
Shared(p) == [file |-> p, number |-> p, nlink |-> 2]
Id == [p \in MCFiles |-> Single(p)]
MCSharings ==
    {Id, [Id EXCEPT ![F] = Shared(F), ![G] = Shared(F)],
     [Id EXCEPT ![G] = Shared(G), ![H] = Shared(G)],
     [Id EXCEPT ![G] = Shared(G), ![H] = [file |-> H, number |-> G, nlink |-> 2]]}
MCDestination == <<Slash, <<"out", 0>>>>
=============================================================================
