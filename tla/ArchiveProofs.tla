----------------------------- MODULE ArchiveProofs -----------------------------
(***************************************************************************)
(* That an archive has an item for everything that was asked for, and that *)
(* a restore brings it back, for every finite file system, every list of   *)
(* roots, exclusions and mappings, and any number of errors.               *)
(*                                                                         *)
(* And that the catalog, which the archives are indexed in by calls that   *)
(* write one key at a time, never misleads: for every set of names and of  *)
(* contents, any number of archives and crashes.  The invariant of the     *)
(* catalog is in the section "The invariant"; the theorems are             *)
(* CatalogTypeCorrect, CatalogLeavesNothing, CatalogDiffAgrees,            *)
(* CatalogSearchFinds and CatalogCommandsAgree.                            *)
(***************************************************************************)
EXTENDS ArchiveRestore, Catalog, FiniteSetTheorems, SequenceTheorems, WellFoundedInduction, TLAPS

Components == UNION {Range(p) : p \in Paths}

-------------------------------------------------------------------------------
(***************************************************************************)
(* Prefixes                                                                *)
(***************************************************************************)

LEMMA Prefix ==
  ASSUME NEW U, NEW s \in Seq(U), NEW t \in Seq(U)
  PROVE  IsPrefix(s, t) <=> Len(s) <= Len(t) /\ \A k \in 1 .. Len(s) : s[k] = t[k]
<1>1. CASE Len(s) <= Len(t)
  <2>1. /\ SubSeq(s, 1, Len(s)) = s
        /\ SubSeq(t, 1, Len(s)) \in Seq(U)
        /\ Len(SubSeq(t, 1, Len(s))) = Len(s)
        /\ \A k \in 1 .. Len(s) : SubSeq(t, 1, Len(s))[k] = t[k]
    <3>1. Len(s) \in Nat /\ Len(t) \in Nat /\ \A k \in 1 .. Len(t) : t[k] \in U
      BY LenProperties, ElementOfSeq
    <3>2. \A k \in 1 .. Len(s) : t[k] \in U
      BY <1>1, <3>1
    <3> QED
      BY <3>1, <3>2, SubSeqFull, SubSeqProperties
  <2>2. ASSUME \A k \in 1 .. Len(s) : s[k] = t[k]
        PROVE  s = SubSeq(t, 1, Len(s))
    BY <2>1, <2>2, SeqEqual
  <2> QED
    BY <1>1, <2>1, <2>2 DEF IsPrefix
<1> QED
  BY <1>1 DEF IsPrefix

LEMMA PrefixOfItself ==
  ASSUME NEW U, NEW s \in Seq(U)
  PROVE  IsPrefix(s, s)
BY Prefix, LenProperties

LEMMA PrefixTransitive ==
  ASSUME NEW U, NEW s \in Seq(U), NEW t \in Seq(U), NEW u \in Seq(U),
         IsPrefix(s, t), IsPrefix(t, u)
  PROVE  IsPrefix(s, u)
<1>1. Len(s) \in Nat /\ Len(t) \in Nat /\ Len(u) \in Nat
  BY LenProperties
<1> QED
  BY <1>1, Prefix

\* Of two prefixes of one sequence the shorter is a prefix of the longer.
LEMMA PrefixesNested ==
  ASSUME NEW U, NEW s \in Seq(U), NEW t \in Seq(U), NEW u \in Seq(U),
         IsPrefix(s, u), IsPrefix(t, u), Len(s) <= Len(t)
  PROVE  IsPrefix(s, t) /\ (Len(s) = Len(t) => s = t)
<1>1. Len(s) \in Nat /\ Len(t) \in Nat /\ Len(u) \in Nat
  BY LenProperties
<1>2. \A k \in 1 .. Len(s) : s[k] = t[k]
  BY <1>1, Prefix
<1> QED
  BY <1>1, <1>2, Prefix, SeqEqual

LEMMA StrictPrefixShorter ==
  ASSUME NEW U, NEW s \in Seq(U), NEW t \in Seq(U), IsPrefix(s, t), s # t
  PROVE  Len(s) < Len(t)
<1>1. Len(s) \in Nat /\ Len(t) \in Nat
  BY LenProperties
<1> QED
  BY <1>1, Prefix, SeqEqual

-------------------------------------------------------------------------------
(***************************************************************************)
(* Roots: the innermost above a path, and what each of them yields         *)
(***************************************************************************)

LEMMA LeastNumber ==
  ASSUME NEW S \in SUBSET Nat, S # {}
  PROVE  \E n \in S : \A m \in S : n <= m
<1>1. PICK n \in S : \A m \in S : ~ (<<m, n>> \in OpToRel(<, Nat))
  BY WFMin, NatLessThanWellFounded
<1>2. \A m \in S : ~ (m < n)
  BY <1>1 DEF OpToRel
<1> QED
  BY <1>2

LEMMA PathsAreSeqs ==
  /\ Paths \subseteq Seq(Components)
  /\ \A p \in Paths : Len(p) \in Nat /\ p # << >> /\ p[1] = Slash /\ Len(p) > 1
                      /\ \A k \in 1 .. Len(p) : p[k] \in Components /\ p[k] = <<p[k][1], 0>>
<1> SUFFICES ASSUME NEW p \in Paths
             PROVE  /\ p \in Seq(Components)
                    /\ Len(p) \in Nat /\ p # << >> /\ p[1] = Slash /\ Len(p) > 1
                    /\ \A k \in 1 .. Len(p) : p[k] \in Components /\ p[k] = <<p[k][1], 0>>
  OBVIOUS
<1>1. p \in Seq(Range(p)) /\ \A k \in DOMAIN p : p[k] = <<p[k][1], 0>>
  BY FileSystemAssumption
<1>2. Range(p) \subseteq Components
  BY DEF Components
<1>3. p \in Seq(Components)
  BY <1>1, <1>2, SeqMonotonic
<1>4. Len(p) > 1 /\ p[1] = Slash
  BY ArchiveAssumption
<1> QED
  BY <1>1, <1>3, <1>4, LenProperties, ElementOfSeq, EmptySeq

PlaceOK(i) ==
  /\ Place(i) \in Dirs \cup Files
  /\ Typed(i) \in Seq(Components)
  /\ Roots[i].style = "absolute" => Typed(i) = Tail(Place(i))

\* No root is typed as if it were below a file or a symlink of another.
NotBelowFiles ==
  \A i, j \in DOMAIN Roots, p \in Files \cup Links :
    IsPrefix(Place(i), p) => ~IsStrictPrefix(TypedPath(p, i), Typed(j))

LinksOK ==
  \A p, q \in Files :
    /\ Nlink(p) \in Nat
    /\ p # q /\ File(p) = File(q) => Inode(p) = Inode(q) /\ Nlink(p) = Nlink(q) /\ Nlink(p) > 1

SetupOK ==
  /\ Roots \in Seq(Range(Roots))
  /\ \A i \in DOMAIN Roots : PlaceOK(i)
  /\ NotBelowFiles
  /\ LinksOK
  /\ setup.excluded \subseteq Paths
  /\ setup.mapped \in BOOLEAN
  /\ setup.mapped => Absolute(Roots)

LEMMA SetupsOK == setup \in Setups => SetupOK
<1> SUFFICES ASSUME setup \in Setups
             PROVE  SetupOK
  OBVIOUS
<1>1. /\ Roots \in RootLists /\ setup.inode \in Sharings /\ setup.mapped \in BOOLEAN
      /\ setup.mapped => Absolute(Roots)
      /\ setup.excluded \subseteq Paths
  BY DEF Setups, Roots
<1>2. /\ Roots \in Seq(Range(Roots))
      /\ \A k \in DOMAIN Roots :
            /\ Roots[k].at \in Dirs \cup Files
            /\ Roots[k].typed \in Seq(UNION {Range(p) : p \in Paths})
            /\ Roots[k].style = "absolute" => Roots[k].typed = Tail(Roots[k].at)
      /\ \A k, n \in DOMAIN Roots, p \in Files \cup Links :
            IsPrefix(Roots[k].at, p) =>
              ~IsStrictPrefix(Roots[k].typed \o SubSeq(p, Len(Roots[k].at) + 1, Len(p)), Roots[n].typed)
  BY <1>1, RootsAssumption
<1>3. \A i \in DOMAIN Roots : PlaceOK(i)
  BY <1>2 DEF PlaceOK, Place, Typed, Components
<1>4. NotBelowFiles
  BY <1>2 DEF NotBelowFiles, Place, Typed, TypedPath
<1>5. LinksOK
  BY <1>1, SharingAssumption DEF LinksOK, File, Inode, Nlink
<1> QED
  BY <1>1, <1>2, <1>3, <1>4, <1>5 DEF SetupOK

LEMMA RootsArePaths ==
  ASSUME SetupOK
  PROVE  /\ Len(Roots) \in Nat /\ DOMAIN Roots = 1 .. Len(Roots)
         /\ \A i \in DOMAIN Roots :
              /\ Place(i) \in Dirs \cup Files /\ Place(i) \in Paths /\ Place(i) \in Seq(Components)
              /\ Len(Place(i)) \in Nat /\ Len(Place(i)) > 1
              /\ Typed(i) \in Seq(Components) /\ Len(Typed(i)) \in Nat
<1>1. Len(Roots) \in Nat /\ DOMAIN Roots = 1 .. Len(Roots)
  BY LenProperties DEF SetupOK
<1>2. ASSUME NEW i \in DOMAIN Roots
      PROVE  /\ Place(i) \in Dirs \cup Files /\ Place(i) \in Paths /\ Place(i) \in Seq(Components)
             /\ Len(Place(i)) \in Nat /\ Len(Place(i)) > 1
             /\ Typed(i) \in Seq(Components) /\ Len(Typed(i)) \in Nat
  <2>1. Place(i) \in Dirs \cup Files /\ Place(i) \in Paths /\ Typed(i) \in Seq(Components)
    BY DEF SetupOK, PlaceOK, Paths
  <2> QED
    BY <2>1, PathsAreSeqs, LenProperties
<1> QED
  BY <1>1, <1>2

\* What is left of a path below its root.
Rest(p, i) == SubSeq(p, Len(Place(i)) + 1, Len(p))

LEMMA RestIs ==
  ASSUME SetupOK, NEW i \in DOMAIN Roots, NEW p \in Paths, IsPrefix(Place(i), p)
  PROVE  /\ Len(p) \in Nat /\ Len(Place(i)) \in Nat /\ Len(Place(i)) <= Len(p)
         /\ \A k \in 1 .. Len(Place(i)) : Place(i)[k] = p[k]
         /\ Rest(p, i) \in Seq(Components)
         /\ Len(Rest(p, i)) = Len(p) - Len(Place(i))
         /\ \A k \in 1 .. Len(p) - Len(Place(i)) : Rest(p, i)[k] = p[Len(Place(i)) + k]
<1> DEFINE n == Len(Place(i))
<1>1. /\ p \in Seq(Components) /\ Place(i) \in Seq(Components) /\ n \in Nat /\ Len(p) \in Nat
      /\ \A k \in 1 .. Len(p) : p[k] \in Components
  BY RootsArePaths, PathsAreSeqs
<1>2. n <= Len(p) /\ \A k \in 1 .. n : Place(i)[k] = p[k]
  BY <1>1, Prefix
<1> HIDE DEF n
<1>3. /\ SubSeq(p, n + 1, Len(p)) \in Seq(Components)
      /\ Len(SubSeq(p, n + 1, Len(p))) = Len(p) - n
      /\ \A k \in 1 .. Len(p) - n : SubSeq(p, n + 1, Len(p))[k] = p[n + k]
  BY <1>1, <1>2, SubSeqProperties
<1> QED
  BY <1>1, <1>2, <1>3 DEF Rest, n

LEMMA RestsNested ==
  ASSUME SetupOK, NEW i \in DOMAIN Roots, NEW p \in Paths, IsPrefix(Place(i), p),
         NEW q \in Paths, IsPrefix(Place(i), q)
  PROVE  IsPrefix(Rest(p, i), Rest(q, i)) <=> IsPrefix(p, q)
<1> DEFINE n == Len(Place(i))
           a == Rest(p, i)
           b == Rest(q, i)
<1>1. p \in Seq(Components) /\ q \in Seq(Components)
  BY PathsAreSeqs
<1>2. /\ Len(p) \in Nat /\ n \in Nat /\ n <= Len(p) /\ \A k \in 1 .. n : Place(i)[k] = p[k]
      /\ a \in Seq(Components) /\ Len(a) = Len(p) - n /\ \A k \in 1 .. Len(p) - n : a[k] = p[n + k]
  BY RestIs
<1>3. /\ Len(q) \in Nat /\ n <= Len(q) /\ \A k \in 1 .. n : Place(i)[k] = q[k]
      /\ b \in Seq(Components) /\ Len(b) = Len(q) - n /\ \A k \in 1 .. Len(q) - n : b[k] = q[n + k]
  BY RestIs
<1> HIDE DEF a, b, n
<1>4. ASSUME IsPrefix(a, b)
      PROVE  IsPrefix(p, q)
  <2>1. Len(p) <= Len(q) /\ \A k \in 1 .. Len(p) - n : a[k] = b[k]
    BY <1>2, <1>3, <1>4, Prefix
  <2>2. ASSUME NEW k \in 1 .. Len(p), ~(k <= n)
        PROVE  p[k] = q[k]
    <3>1. PICK m \in 1 .. Len(p) - n : m + n = k
      <4>1. k - n \in 1 .. Len(p) - n /\ (k - n) + n = k
        BY <1>2, <2>2
      <4> QED
        BY <4>1
    <3>2. n + m = k /\ m \in 1 .. Len(q) - n
      BY <1>2, <1>3, <2>1, <3>1
    <3> QED
      BY <1>2, <1>3, <2>1, <3>2
  <2>3. \A k \in 1 .. Len(p) : k <= n => k \in 1 .. n
    BY <1>2
  <2>4. \A k \in 1 .. Len(p) : p[k] = q[k]
    BY <1>2, <1>3, <2>2, <2>3
  <2> QED
    BY <1>1, <2>1, <2>4, Prefix
<1>5. ASSUME IsPrefix(p, q)
      PROVE  IsPrefix(a, b)
  <2>1. Len(p) <= Len(q) /\ \A k \in 1 .. Len(p) : p[k] = q[k]
    BY <1>1, <1>5, Prefix
  <2>2. \A k \in 1 .. Len(p) - n : n + k \in 1 .. Len(p) /\ k \in 1 .. Len(q) - n
    BY <1>2, <1>3, <2>1
  <2>3. Len(a) <= Len(b)
    BY <1>2, <1>3, <2>1
  <2>4. ASSUME NEW k \in 1 .. Len(p) - n
        PROVE  a[k] = b[k]
    <3>1. a[k] = p[n + k] /\ b[k] = q[n + k] /\ p[n + k] = q[n + k]
      BY <1>2, <1>3, <2>1, <2>2
    <3> QED
      BY <3>1
  <2> QED
    BY <1>2, <1>3, <2>3, <2>4, Prefix
<1> QED
  BY <1>4, <1>5 DEF a, b

\* The same in front of both sequences of a prefix makes no difference.
LEMMA PrefixesBelow ==
  ASSUME NEW U, NEW d \in Seq(U), NEW a \in Seq(U), NEW b \in Seq(U)
  PROVE  IsPrefix(d \o a, d \o b) <=> IsPrefix(a, b)
<1> DEFINE x == d \o a
           y == d \o b
<1>1. Len(a) \in Nat /\ Len(b) \in Nat /\ Len(d) \in Nat
  BY LenProperties
<1>2. /\ x \in Seq(U) /\ Len(x) = Len(d) + Len(a)
      /\ \A k \in 1 .. Len(d) + Len(a) : x[k] = IF k <= Len(d) THEN d[k] ELSE a[k - Len(d)]
  BY ConcatProperties
<1>3. /\ y \in Seq(U) /\ Len(y) = Len(d) + Len(b)
      /\ \A k \in 1 .. Len(d) + Len(b) : y[k] = IF k <= Len(d) THEN d[k] ELSE b[k - Len(d)]
  BY ConcatProperties
<1> HIDE DEF x, y
<1>4. ASSUME IsPrefix(x, y)
      PROVE  IsPrefix(a, b)
  <2>1. Len(x) <= Len(y) /\ \A k \in 1 .. Len(x) : x[k] = y[k]
    BY <1>2, <1>3, <1>4, Prefix
  <2>2. ASSUME NEW k \in 1 .. Len(a)
        PROVE  a[k] = b[k]
    <3> DEFINE n == Len(d) + k
    <3>1. n \in 1 .. Len(d) + Len(a) /\ n \in 1 .. Len(d) + Len(b) /\ ~(n <= Len(d)) /\ n - Len(d) = k
      BY <1>1, <1>2, <1>3, <2>1
    <3>2. x[n] = a[n - Len(d)] /\ y[n] = b[n - Len(d)] /\ x[n] = y[n]
      BY <1>2, <1>3, <2>1, <3>1
    <3> QED
      BY <3>1, <3>2
  <2>3. Len(a) <= Len(b)
    BY <1>1, <1>2, <1>3, <2>1
  <2> QED
    BY <2>2, <2>3, Prefix
<1>5. ASSUME IsPrefix(a, b)
      PROVE  IsPrefix(x, y)
  <2>1. Len(a) <= Len(b) /\ \A k \in 1 .. Len(a) : a[k] = b[k]
    BY <1>5, Prefix
  <2>2. ASSUME NEW k \in 1 .. Len(x)
        PROVE  x[k] = y[k]
    <3>1. k \in 1 .. Len(d) + Len(a) /\ k \in 1 .. Len(d) + Len(b) /\ (~(k <= Len(d)) => k - Len(d) \in 1 .. Len(a))
      BY <1>1, <1>2, <2>1
    <3> QED
      BY <1>2, <1>3, <2>1, <3>1
  <2>3. Len(x) <= Len(y)
    BY <1>1, <1>2, <1>3, <2>1
  <2> QED
    BY <1>2, <1>3, <2>2, <2>3, Prefix
<1> QED
  BY <1>4, <1>5 DEF x, y

LEMMA TypedPathIs ==
  ASSUME SetupOK, NEW i \in DOMAIN Roots, NEW p \in Paths, IsPrefix(Place(i), p)
  PROVE  /\ TypedPath(p, i) = Typed(i) \o Rest(p, i)
         /\ TypedPath(p, i) \in Seq(Components) /\ Len(TypedPath(p, i)) \in Nat
         /\ IsPrefix(Typed(i), TypedPath(p, i))
<1>1. TypedPath(p, i) = Typed(i) \o Rest(p, i)
  BY DEF TypedPath, Rest
<1>2. Typed(i) \in Seq(Components) /\ Rest(p, i) \in Seq(Components) /\ Len(Typed(i)) \in Nat /\ Len(Rest(p, i)) \in Nat
  BY RootsArePaths, RestIs, LenProperties
<1> DEFINE s == Typed(i)
           t == Rest(p, i)
           u == s \o t
<1>3. /\ u \in Seq(Components) /\ Len(u) = Len(s) + Len(t)
      /\ \A k \in 1 .. Len(s) + Len(t) : u[k] = IF k <= Len(s) THEN s[k] ELSE t[k - Len(s)]
  <2>1. s \in Seq(Components) /\ t \in Seq(Components)
    BY <1>2
  <2> HIDE DEF s, t
  <2> QED
    BY <2>1, ConcatProperties
<1>4. Len(s) \in Nat /\ Len(t) \in Nat /\ s \in Seq(Components)
  BY <1>2
<1> HIDE DEF s, t, u
<1>5. Len(s) <= Len(u) /\ \A k \in 1 .. Len(s) : s[k] = u[k]
  BY <1>3, <1>4
<1>6. IsPrefix(s, u) /\ Len(u) \in Nat
  BY <1>3, <1>4, <1>5, Prefix
<1> QED
  BY <1>1, <1>3, <1>6 DEF s, t, u

LEMMA TypedPathsNested ==
  ASSUME SetupOK, NEW i \in DOMAIN Roots, NEW p \in Paths, IsPrefix(Place(i), p),
         NEW q \in Paths, IsPrefix(Place(i), q)
  PROVE  IsPrefix(TypedPath(p, i), TypedPath(q, i)) <=> IsPrefix(p, q)
<1>1. /\ TypedPath(p, i) = Typed(i) \o Rest(p, i) /\ TypedPath(q, i) = Typed(i) \o Rest(q, i)
      /\ Typed(i) \in Seq(Components) /\ Rest(p, i) \in Seq(Components) /\ Rest(q, i) \in Seq(Components)
  BY TypedPathIs, RootsArePaths, RestIs
<1> QED
  BY <1>1, RestsNested, PrefixesBelow

\* Root j is the best match for what root i's walk finds as p.
Best(j, p, i) ==
  /\ j \in Matches(p, i)
  /\ \A k \in Matches(p, i) : \/ Len(Typed(k)) < Len(Typed(j))
                              \/ Typed(k) = Typed(j) /\ k <= j

LEMMA MatchesItself ==
  ASSUME SetupOK, NEW i \in DOMAIN Roots, NEW p \in Paths, IsPrefix(Place(i), p)
  PROVE  i \in Matches(p, i)
BY TypedPathIs DEF Matches

LEMMA BestExists ==
  ASSUME SetupOK, NEW i0 \in DOMAIN Roots, NEW p \in Paths, IsPrefix(Place(i0), p)
  PROVE  \E i \in Matches(p, i0) : Best(i, p, i0)
<1> DEFINE M == Matches(p, i0)
           u == TypedPath(p, i0)
<1>1. \A j \in M : /\ j \in 1 .. Len(Roots) /\ Typed(j) \in Seq(Components) /\ Len(Typed(j)) \in Nat
                   /\ IsPrefix(Typed(j), u)
  BY RootsArePaths DEF Matches
<1>2. u \in Seq(Components) /\ Len(u) \in Nat /\ Len(Roots) \in Nat /\ M # {}
  BY RootsArePaths, TypedPathIs, MatchesItself
<1> HIDE DEF M, u
<1>3. \A j \in M : Len(Typed(j)) <= Len(u)
  BY <1>1, <1>2 DEF IsPrefix
<1> DEFINE Short(j) == Len(u) - Len(Typed(j))
           Shorts == {Short(j) : j \in M}
<1>4. \E n \in Shorts : \A m \in Shorts : n <= m
  <2>1. Shorts \in SUBSET Nat /\ Shorts # {}
    BY <1>1, <1>2, <1>3
  <2> QED
    BY <2>1, LeastNumber
<1>5. PICK k \in M : \A j \in M : Short(k) <= Short(j)
  BY <1>4
<1>6. \A j \in M : Len(Typed(j)) <= Len(Typed(k))
  BY <1>1, <1>2, <1>3, <1>5
<1> DEFINE Later == {Len(Roots) - j : j \in {m \in M : Typed(m) = Typed(k)}}
<1>7. \E n \in Later : \A m \in Later : n <= m
  <2>1. Later \in SUBSET Nat /\ Later # {}
    BY <1>1, <1>2
  <2> QED
    BY <2>1, LeastNumber
<1>8. PICK i \in M : /\ Typed(i) = Typed(k)
                     /\ \A j \in M : Typed(j) = Typed(k) => Len(Roots) - i <= Len(Roots) - j
  BY <1>7
<1>9. ASSUME NEW j \in M, ~(Len(Typed(j)) < Len(Typed(i)))
      PROVE  Typed(j) = Typed(i) /\ j <= i
  <2>1. Len(Typed(j)) = Len(Typed(i))
    BY <1>1, <1>6, <1>8, <1>9
  <2>2. Typed(j) = Typed(i)
    <3>1. /\ Typed(j) \in Seq(Components) /\ Typed(i) \in Seq(Components)
          /\ IsPrefix(Typed(j), u) /\ IsPrefix(Typed(i), u) /\ Len(Typed(j)) <= Len(Typed(i))
      BY <1>1, <2>1
    <3> QED
      BY <1>2, <2>1, <3>1, PrefixesNested
  <2>3. Len(Roots) - i <= Len(Roots) - j
    BY <1>8, <2>2
  <2> QED
    BY <1>1, <1>2, <2>2, <2>3
<1> QED
  BY <1>9 DEF Best, M

LEMMA BestUnique ==
  ASSUME SetupOK, NEW p, NEW i0, NEW i, NEW j, Best(i, p, i0), Best(j, p, i0)
  PROVE  i = j
<1>1. /\ i \in 1 .. Len(Roots) /\ j \in 1 .. Len(Roots)
      /\ Len(Typed(i)) \in Nat /\ Len(Typed(j)) \in Nat
  BY RootsArePaths DEF Best, Matches
<1> QED
  BY <1>1, RootsArePaths DEF Best

LEMMA BestFound ==
  ASSUME SetupOK, NEW i \in DOMAIN Roots, NEW p \in Paths, IsPrefix(Place(i), p)
  PROVE  Best(Find_best_match(p, i), p, i)
BY BestExists DEF Best, Find_best_match

LEMMA FoundIsBest ==
  ASSUME SetupOK, NEW i \in DOMAIN Roots, NEW p \in Paths, IsPrefix(Place(i), p), NEW j, Best(j, p, i)
  PROVE  Find_best_match(p, i) = j
BY BestFound, BestUnique

LEMMA WalksApart ==
  ASSUME SetupOK, NEW i \in DOMAIN Roots, NEW p \in Walk(i)
  PROVE  p \in Paths /\ IsPrefix(Place(i), p) /\ Best(i, p, i)
<1>1. p \in Paths /\ IsPrefix(Place(i), p) /\ Find_best_match(p, i) = i
  BY PathsAreSeqs, PrefixOfItself DEF Walk
<1> QED
  BY <1>1, BestFound

\* The walks of the roots yield nothing but what is wanted.
LEMMA WalkIsWanted ==
  ASSUME SetupOK, NEW i \in DOMAIN Roots, NEW p \in Walk(i)
  PROVE  p \in Wanted
<1>1. p \in Paths /\ IsPrefix(Place(i), p) /\ p \in Seq(Components) /\ Len(p) \in Nat
  BY WalksApart, PathsAreSeqs
<1> DEFINE R == {j \in DOMAIN Roots : IsPrefix(Place(j), p)}
<1>2. \A j \in R : Place(j) \in Paths /\ Place(j) \in Seq(Components) /\ Len(Place(j)) \in Nat /\ Len(Place(j)) <= Len(p)
  BY RootsArePaths DEF IsPrefix
<1> DEFINE Shorts == {Len(p) - Len(Place(j)) : j \in R}
<1>3. \E n \in Shorts : \A m \in Shorts : n <= m
  <2>1. Shorts \in SUBSET Nat /\ Shorts # {}
    BY <1>1, <1>2
  <2> QED
    BY <2>1, LeastNumber
<1>4. PICK k \in R : \A j \in R : Len(p) - Len(Place(k)) <= Len(p) - Len(Place(j))
  BY <1>3
<1>5. \A j \in R : Len(Place(j)) <= Len(Place(k))
  BY <1>1, <1>2, <1>4
<1>6. ASSUME NEW j \in DOMAIN Roots, IsStrictPrefix(Place(k), Place(j)), IsPrefix(Place(j), p)
      PROVE  FALSE
  <2>1. j \in R /\ IsPrefix(Place(k), Place(j)) /\ Place(k) # Place(j)
    BY <1>6 DEF IsStrictPrefix
  <2>2. Len(Place(k)) < Len(Place(j))
    BY <1>2, <2>1, StrictPrefixShorter
  <2> QED
    BY <1>2, <1>5, <2>1, <2>2
<1>7. ASSUME NEW q \in setup.excluded, IsPrefix(Place(k), q), IsPrefix(q, p)
      PROVE  FALSE
  <2>1. q \in Paths /\ q \in Seq(Components)
    BY PathsAreSeqs DEF SetupOK
  <2>2. IsPrefix(Place(i), Place(k))
    <3>1. i \in R
      BY <1>1
    <3> QED
      BY <1>1, <1>2, <1>5, <3>1, PrefixesNested
  <2>3. IsPrefix(Place(i), q)
    BY <1>2, <1>7, <2>1, <2>2, RootsArePaths, PrefixTransitive
  <2> QED
    BY <1>7, <2>1, <2>3 DEF Walk, Is_excluded
<1> QED
  BY <1>1, <1>4, <1>6, <1>7 DEF Wanted

\* And all of it but what is mistaken for an entry of another root.
LEMMA WantedIsWalked ==
  ASSUME SetupOK, NEW p \in Wanted, ~Mistaken(p)
  PROVE  \E i \in DOMAIN Roots : p \in Walk(i)
<1>1. PICK i \in DOMAIN Roots :
        /\ IsPrefix(Place(i), p)
        /\ ~\E j \in DOMAIN Roots : IsStrictPrefix(Place(i), Place(j)) /\ IsPrefix(Place(j), p)
        /\ ~\E q \in setup.excluded : IsPrefix(Place(i), q) /\ IsPrefix(q, p)
  BY DEF Wanted
<1>2. p \in Paths /\ p \in Seq(Components)
  BY PathsAreSeqs DEF Wanted
<1>3. PICK j \in Matches(p, i) : Best(j, p, i)
  BY <1>1, <1>2, BestExists
<1>4. j \in DOMAIN Roots /\ IsPrefix(Typed(j), TypedPath(p, i))
  BY DEF Matches
<1>5. IsPrefix(Place(j), p) /\ Len(Place(i)) + Len(Typed(j)) = Len(Place(j)) + Len(Typed(i))
  BY <1>1, <1>4 DEF Mistaken
<1>6. /\ Place(i) \in Seq(Components) /\ Len(Place(i)) \in Nat /\ Typed(i) \in Seq(Components) /\ Len(Typed(i)) \in Nat
      /\ Place(j) \in Seq(Components) /\ Len(Place(j)) \in Nat /\ Typed(j) \in Seq(Components) /\ Len(Typed(j)) \in Nat
  BY <1>4, RootsArePaths
<1>7. i \in Matches(p, i) /\ TypedPath(p, i) \in Seq(Components) /\ IsPrefix(Typed(i), TypedPath(p, i))
  BY <1>1, <1>2, MatchesItself, TypedPathIs
<1>8. Len(Typed(i)) <= Len(Typed(j))
  BY <1>3, <1>6, <1>7 DEF Best
<1>9. Place(i) = Place(j)
  <2>1. IsPrefix(Place(i), Place(j))
    <3>1. Len(Place(i)) <= Len(Place(j))
      BY <1>5, <1>6, <1>8
    <3> QED
      BY <1>1, <1>2, <1>5, <1>6, <3>1, PrefixesNested
  <2> QED
    BY <1>1, <1>4, <1>5, <2>1 DEF IsStrictPrefix
<1>10. Typed(i) = Typed(j)
  <2>1. Len(Typed(i)) = Len(Typed(j))
    BY <1>5, <1>6, <1>9
  <2> QED
    BY <1>4, <1>6, <1>7, <1>8, <2>1, PrefixesNested
<1>11. \A q : TypedPath(q, i) = TypedPath(q, j) /\ Matches(q, i) = Matches(q, j)
  BY <1>9, <1>10 DEF TypedPath, Matches
<1>12. ASSUME NEW q \in Paths, IsPrefix(Place(j), q), IsPrefix(q, p)
       PROVE  Find_best_match(q, j) = j /\ ~Is_excluded(q)
  <2>1. TypedPath(q, j) \in Seq(Components) /\ TypedPath(p, j) \in Seq(Components)
        /\ IsPrefix(TypedPath(q, j), TypedPath(p, j))
    BY <1>2, <1>4, <1>5, <1>12, TypedPathIs, TypedPathsNested
  <2>2. Matches(q, j) \subseteq Matches(p, j)
    <3> SUFFICES ASSUME NEW k \in DOMAIN Roots, IsPrefix(Typed(k), TypedPath(q, j))
                 PROVE  IsPrefix(Typed(k), TypedPath(p, j))
      BY DEF Matches
    <3>1. Typed(k) \in Seq(Components)
      BY RootsArePaths
    <3> QED
      BY <2>1, <3>1, PrefixTransitive
  <2>3. j \in Matches(q, j)
    BY <1>4, <1>12, MatchesItself
  <2>4. Best(j, q, j)
    BY <1>3, <1>11, <2>2, <2>3 DEF Best
  <2>5. Find_best_match(q, j) = j
    BY <1>4, <1>12, <2>4, FoundIsBest
  <2> QED
    BY <1>1, <1>9, <1>12, <2>5 DEF Is_excluded
<1> QED
  BY <1>2, <1>4, <1>5, <1>12 DEF Walk

-------------------------------------------------------------------------------
(***************************************************************************)
(* Paths of items                                                          *)
(***************************************************************************)

\* Roots with the same name get different names.
LEMMA NamesUnique ==
  ASSUME SetupOK, NEW i \in DOMAIN Roots, NEW j \in DOMAIN Roots, UniqueName(i) = UniqueName(j)
  PROVE  i = j
<1> DEFINE Like(n) == {m \in 1 .. (n - 1) : Last(Place(m)) = Last(Place(n))}
<1>1. \A n \in DOMAIN Roots : Last(Place(n)) = <<Last(Place(n))[1], 0>>
  <2> TAKE n \in DOMAIN Roots
  <2>1. Len(Place(n)) \in 1 .. Len(Place(n))
    BY RootsArePaths
  <2> QED
    BY <2>1, RootsArePaths, PathsAreSeqs DEF Last
<1>2. Last(Place(i)) = Last(Place(j)) /\ Cardinality(Like(i)) = Cardinality(Like(j))
  BY <1>1 DEF UniqueName
<1>3. ASSUME NEW k \in DOMAIN Roots, NEW n \in DOMAIN Roots, k < n, Last(Place(k)) = Last(Place(n)),
             Cardinality(Like(k)) = Cardinality(Like(n))
      PROVE  FALSE
  <2>1. k \in Nat /\ n \in Nat /\ k \in Like(n) /\ k \notin Like(k)
    BY <1>3, RootsArePaths
  <2>2. Like(k) \subseteq Like(n)
    BY <1>3, <2>1
  <2>3. IsFiniteSet(1 .. (n - 1)) /\ Like(n) \in SUBSET (1 .. (n - 1))
    BY <2>1, FS_Interval
  <2>4. IsFiniteSet(Like(n))
    BY <2>3, FS_Subset
  <2> HIDE DEF Like
  <2>5. Like(k) = Like(n)
    BY <1>3, <2>2, <2>4, FS_Subset
  <2> QED
    BY <2>1, <2>5
<1>4. i \in Nat /\ j \in Nat
  BY RootsArePaths
<1> HIDE DEF Like
<1> QED
  BY <1>2, <1>3, <1>4

\* What paths are made of, those of items and those a restore writes to.
Parts ==
  Components \cup ({c[1] : c \in Components} \X Nat) \cup Range(Destination) \cup {Slash}

LEMMA NamesAreParts ==
  ASSUME SetupOK, NEW i \in DOMAIN Roots
  PROVE  UniqueName(i) \in Parts
<1>1. Len(Place(i)) \in 1 .. Len(Place(i)) /\ i \in Nat
  BY RootsArePaths
<1>2. Last(Place(i)) \in Components
  BY <1>1, RootsArePaths, PathsAreSeqs DEF Last
<1> DEFINE Like == {j \in 1 .. (i - 1) : Last(Place(j)) = Last(Place(i))}
<1>3. IsFiniteSet(1 .. (i - 1)) /\ Like \in SUBSET (1 .. (i - 1))
  <2>1. 1 \in Int /\ i - 1 \in Int
    BY <1>1
  <2>2. IsFiniteSet(1 .. (i - 1))
    BY <2>1, FS_Interval
  <2> QED
    BY <2>2
<1>4. Cardinality(Like) \in Nat
  BY <1>3, FS_Subset, FS_CardinalityType
<1> HIDE DEF Like
<1>5. <<Last(Place(i))[1], Cardinality(Like)>> \in Parts
  BY <1>2, <1>4 DEF Parts
<1> QED
  BY <1>5 DEF Like, UniqueName

\* A path of an item is what stands for its root and the rest of the source's path.
ForRoot(i) == IF setup.mapped THEN <<UniqueName(i)>> ELSE Typed(i)

LEMMA RelativePathIs ==
  ASSUME SetupOK, NEW i \in DOMAIN Roots, NEW p \in Walk(i)
  PROVE  /\ RelativePath(p, i) = ForRoot(i) \o Rest(p, i)
         /\ ForRoot(i) \in Seq(Parts) /\ Rest(p, i) \in Seq(Parts) /\ RelativePath(p, i) \in Seq(Parts)
<1>1. RelativePath(p, i) = ForRoot(i) \o Rest(p, i)
  BY DEF RelativePath, ForRoot, Rest, TypedPath
<1>2. Components \subseteq Parts
  BY DEF Parts
<1>3. Rest(p, i) \in Seq(Parts)
  <2>1. Rest(p, i) \in Seq(Components)
    BY WalksApart, RestIs
  <2> QED
    BY <1>2, <2>1, SeqMonotonic
<1>4. ForRoot(i) \in Seq(Parts)
  <2>1. <<UniqueName(i)>> \in Seq(Parts)
    BY NamesAreParts
  <2>2. Typed(i) \in Seq(Parts)
    BY <1>2, RootsArePaths, SeqMonotonic
  <2> QED
    BY <2>1, <2>2 DEF ForRoot
<1> QED
  BY <1>1, <1>3, <1>4, ConcatProperties

LEMMA RelativePathsTyped ==
  ASSUME SetupOK, NEW i \in DOMAIN Roots, NEW p \in Walk(i)
  PROVE  RelativePath(p, i) \in Seq(Parts)
BY RelativePathIs

\* Of one root's items one is below another only if its source is.
LEMMA RelativePathsNested ==
  ASSUME SetupOK, NEW i \in DOMAIN Roots, NEW p \in Walk(i), NEW q \in Walk(i),
         IsPrefix(RelativePath(p, i), RelativePath(q, i))
  PROVE  IsPrefix(p, q)
<1>1. /\ RelativePath(p, i) = ForRoot(i) \o Rest(p, i) /\ RelativePath(q, i) = ForRoot(i) \o Rest(q, i)
      /\ ForRoot(i) \in Seq(Parts) /\ Rest(p, i) \in Seq(Parts) /\ Rest(q, i) \in Seq(Parts)
  BY RelativePathIs
<1>2. IsPrefix(Rest(p, i), Rest(q, i))
  BY <1>1, PrefixesBelow
<1> QED
  BY <1>2, WalksApart, RestsNested

LEMMA FirstOfConcat ==
  ASSUME NEW U, NEW d \in Seq(U), NEW a \in Seq(U), Len(d) = 1
  PROVE  d \o a \in Seq(U) /\ Len(d \o a) = 1 + Len(a) /\ (d \o a)[1] = d[1]
<1> DEFINE x == d \o a
<1>1. /\ x \in Seq(U) /\ Len(x) = Len(d) + Len(a)
      /\ \A k \in 1 .. Len(d) + Len(a) : x[k] = IF k <= Len(d) THEN d[k] ELSE a[k - Len(d)]
  BY ConcatProperties
<1>2. Len(a) \in Nat
  BY LenProperties
<1> HIDE DEF x
<1>3. 1 \in 1 .. Len(d) + Len(a) /\ 1 <= Len(d)
  BY <1>2
<1>4. x \in Seq(U) /\ Len(x) = 1 + Len(a) /\ x[1] = d[1]
  BY <1>1, <1>3
<1> QED
  BY <1>4 DEF x

\* With a mapping, the paths of different roots have nothing in common.
LEMMA MappedApart ==
  ASSUME SetupOK, setup.mapped, NEW i \in DOMAIN Roots, NEW p \in Walk(i), NEW j \in DOMAIN Roots, NEW q \in Walk(j),
         IsPrefix(RelativePath(p, i), RelativePath(q, j))
  PROVE  i = j
<1> DEFINE a == Rest(p, i)
           b == Rest(q, j)
           x == <<UniqueName(i)>> \o a
           y == <<UniqueName(j)>> \o b
<1>1. /\ RelativePath(p, i) = x /\ RelativePath(q, j) = y
      /\ <<UniqueName(i)>> \in Seq(Parts) /\ a \in Seq(Parts) /\ <<UniqueName(j)>> \in Seq(Parts) /\ b \in Seq(Parts)
  BY RelativePathIs DEF ForRoot
<1>2. Len(a) \in Nat /\ Len(b) \in Nat /\ Len(<<UniqueName(i)>>) = 1 /\ Len(<<UniqueName(j)>>) = 1
  BY <1>1, LenProperties
<1>3. x \in Seq(Parts) /\ Len(x) = 1 + Len(a) /\ x[1] = UniqueName(i)
  <2> DEFINE d == <<UniqueName(i)>>
  <2>1. d \in Seq(Parts) /\ a \in Seq(Parts) /\ Len(d) = 1 /\ d[1] = UniqueName(i) /\ x = d \o a
    BY <1>1, <1>2
  <2> HIDE DEF a, b, d, x, y
  <2> QED
    BY <2>1, FirstOfConcat
<1>4. y \in Seq(Parts) /\ Len(y) = 1 + Len(b) /\ y[1] = UniqueName(j)
  <2> DEFINE d == <<UniqueName(j)>>
  <2>1. d \in Seq(Parts) /\ b \in Seq(Parts) /\ Len(d) = 1 /\ d[1] = UniqueName(j) /\ y = d \o b
    BY <1>1, <1>2
  <2> HIDE DEF a, b, d, x, y
  <2> QED
    BY <2>1, FirstOfConcat
<1>5. IsPrefix(x, y)
  BY <1>1
<1> HIDE DEF a, b, x, y
<1>6. x[1] = y[1]
  BY <1>2, <1>3, <1>4, <1>5, Prefix
<1> QED
  BY <1>3, <1>4, <1>6, NamesUnique

\* Two roots whose walks find the best match of each in the other are one.
LEMMA BestOfBoth ==
  ASSUME SetupOK, NEW i \in DOMAIN Roots, NEW p \in Walk(i), NEW j \in DOMAIN Roots, NEW q \in Walk(j),
         j \in Matches(p, i), i \in Matches(q, j)
  PROVE  i = j
<1>1. Best(i, p, i) /\ Best(j, q, j)
  BY WalksApart
<1>2. i \in Nat /\ j \in Nat /\ Len(Typed(i)) \in Nat /\ Len(Typed(j)) \in Nat
  BY RootsArePaths
<1> QED
  BY <1>1, <1>2 DEF Best

\* No two items have one path.
LEMMA RelativePathsUnique ==
  ASSUME SetupOK, NEW i \in DOMAIN Roots, NEW p \in Walk(i), NEW j \in DOMAIN Roots, NEW q \in Walk(j),
         RelativePath(p, i) = RelativePath(q, j)
  PROVE  i = j /\ p = q
<1>1. i = j
  <2>1. CASE setup.mapped
    BY <2>1, MappedApart, RelativePathsTyped, PrefixOfItself
  <2>2. CASE ~setup.mapped
    <3>1. TypedPath(p, i) = TypedPath(q, j)
      BY <2>2 DEF RelativePath
    <3>2. Matches(p, i) = Matches(q, j)
      BY <3>1 DEF Matches
    <3>3. i \in Matches(p, i) /\ j \in Matches(q, j)
      BY WalksApart DEF Best
    <3> QED
      BY <3>2, <3>3, BestOfBoth
  <2> QED
    BY <2>1, <2>2
<1>2. IsPrefix(p, q) /\ IsPrefix(q, p)
  BY <1>1, RelativePathsNested, RelativePathsTyped, PrefixOfItself
<1>3. p \in Seq(Components) /\ q \in Seq(Components) /\ Len(p) \in Nat /\ Len(q) \in Nat
  BY WalksApart, PathsAreSeqs
<1> QED
  BY <1>1, <1>2, <1>3, Prefix, SeqEqual

\* Nothing is below the item of a file or of a symlink.
LEMMA OnlyDirsAbove ==
  ASSUME SetupOK, NEW i \in DOMAIN Roots, NEW p \in Walk(i), NEW j \in DOMAIN Roots, NEW q \in Walk(j),
         p \in Files \cup Links, IsPrefix(RelativePath(p, i), RelativePath(q, j))
  PROVE  RelativePath(p, i) = RelativePath(q, j)
<1>1. /\ p \in Paths /\ IsPrefix(Place(i), p) /\ i \in Matches(p, i)
      /\ q \in Paths /\ IsPrefix(Place(j), q) /\ j \in Matches(q, j)
  BY WalksApart DEF Best
<1>2. i = j
  <2>1. CASE setup.mapped
    BY <2>1, MappedApart
  <2>2. CASE ~setup.mapped
    <3> DEFINE a == TypedPath(p, i)
               b == TypedPath(q, j)
    <3>1. IsPrefix(a, b)
      BY <2>2 DEF RelativePath
    <3>2. /\ a \in Seq(Components) /\ b \in Seq(Components) /\ Len(a) \in Nat
          /\ Typed(i) \in Seq(Components) /\ Typed(j) \in Seq(Components) /\ Len(Typed(j)) \in Nat
          /\ IsPrefix(Typed(i), a) /\ IsPrefix(Typed(j), b)
      BY <1>1, TypedPathIs, RootsArePaths
    <3>3. ~IsStrictPrefix(a, Typed(j))
      BY <1>1 DEF SetupOK, NotBelowFiles
    <3>4. IsPrefix(Typed(i), b)
      BY <3>1, <3>2, PrefixTransitive
    <3>5. IsPrefix(Typed(j), a)
      <4>1. CASE Len(Typed(j)) <= Len(a)
        BY <3>1, <3>2, <4>1, PrefixesNested
      <4>2. CASE ~(Len(Typed(j)) <= Len(a))
        <5>1. Len(a) <= Len(Typed(j)) /\ Len(a) # Len(Typed(j))
          BY <3>2, <4>2
        <5>2. IsPrefix(a, Typed(j)) /\ a # Typed(j)
          BY <3>1, <3>2, <5>1, PrefixesNested
        <5> QED
          BY <3>3, <5>2 DEF IsStrictPrefix
      <4> QED
        BY <4>1, <4>2
    <3>6. j \in Matches(p, i) /\ i \in Matches(q, j)
      BY <3>4, <3>5 DEF Matches
    <3> QED
      BY <3>6, BestOfBoth
  <2> QED
    BY <2>1, <2>2
<1>3. IsPrefix(p, q)
  BY <1>2, RelativePathsNested
<1>4. p = q
  BY <1>1, <1>3, FileSystemAssumption DEF IsStrictPrefix
<1> QED
  BY <1>2, <1>4

-------------------------------------------------------------------------------
(***************************************************************************)
(* The backup                                                              *)
(***************************************************************************)

Kinds == {"dir", "file", "symlink", "hardlink"}

BackupTypeOK ==
  /\ SetupOK
  /\ stage \in {"walk", "stored", "aborted", "restore", "done"}
  /\ root \in 0 .. Len(Roots)
  /\ \A p \in todo : root # 0 /\ p \in Walk(root)
  /\ reported \subseteq Paths
  /\ errors \in Nat

\* An item is of a path that a walk has yielded and that is dealt with.
OfRoot(it, i) == it.src \in Walk(i) /\ it.path = RelativePath(it.src, i)
ItemsWalked ==
  \A it \in items : \E i \in 1 .. root : OfRoot(it, i) /\ (i = root => it.src \notin todo)

OneEach == \A it1, it2 \in items : it1.path = it2.path => it1 = it2

\* What a walk yields is yet to be dealt with, has an item, or was reported.
HasItem(p, i) == \E it \in items : it.src = p /\ it.path = RelativePath(p, i)
Accounted ==
  \A i \in 1 .. root : \A p \in Walk(i) :
    (i = root /\ p \in todo) \/ HasItem(p, i) \/ p \in reported \/ Above(reported, p)

WalksOver == stage \in {"stored", "restore", "done"} => todo = {} /\ root = Len(Roots)

Accounts == BackupTypeOK /\ ItemsWalked /\ OneEach /\ Accounted /\ WalksOver

\* An entry is dealt with: "new" are the items that come of it.
Dealt(p, new) ==
  /\ stage = "walk" /\ p \in todo /\ todo' = todo \ {p}
  /\ setup' = setup /\ stage' = stage /\ root' = root
  /\ items' = items \cup new
  /\ \A it \in new : it.src = p /\ it.path = RelativePath(p, root) /\ it.kind \in Kinds
  /\ \A it1, it2 \in new : it1 = it2
  /\ reported' \in {reported, reported \cup {p}}
  /\ new = {} => p \in reported'
  /\ errors' \in {errors, errors + 1}

LEMMA ItemIs ==
  ASSUME NEW p, NEW kind
  PROVE  Item(p, kind).src = p /\ Item(p, kind).path = RelativePath(p, root) /\ Item(p, kind).kind = kind
BY DEF Item

LEMMA LinkItemIs ==
  ASSUME NEW p
  PROVE  /\ LinkItem(p).src = p /\ LinkItem(p).path = RelativePath(p, root)
         /\ LinkItem(p).kind = "hardlink" /\ LinkItem(p).target = hardlinks[Inode(p)]
BY DEF LinkItem

LEMMA ProcessDeals ==
  ASSUME NEW p, Process(p)
  PROVE  \E new : Dealt(p, new)
<1>1. CASE MetadataFails(p)
  <2>1. Dealt(p, {})
    BY <1>1 DEF MetadataFails, NextEntry, Report, Dealt
  <2> QED
    BY <2>1
<1>2. CASE ProcessPlain(p)
  <2>1. Dealt(p, {Item(p, IF p \in Dirs THEN "dir" ELSE "symlink")})
    BY <1>2, ItemIs DEF ProcessPlain, NextEntry, Dealt, Kinds
  <2> QED
    BY <2>1
<1>3. CASE ProcessHardlink(p)
  <2>1. Dealt(p, {LinkItem(p)})
    BY <1>3, LinkItemIs DEF ProcessHardlink, NextEntry, Dealt, Kinds
  <2> QED
    BY <2>1
<1>4. CASE ProcessFile(p)
  <2>1. Dealt(p, {Item(p, "file")})
    BY <1>4, ItemIs DEF ProcessFile, NextEntry, Dealt, Kinds
  <2> QED
    BY <2>1
<1>5. CASE ReadFails(p)
  <2>1. Dealt(p, {})
    BY <1>5 DEF ReadFails, NextEntry, Report, Dealt
  <2> QED
    BY <2>1
<1> QED
  BY <1>1, <1>2, <1>3, <1>4, <1>5 DEF Process

\* Only setup tells what the roots yield.
LEMMA SameSetup ==
  ASSUME setup' = setup
  PROVE  /\ Roots' = Roots /\ (SetupOK => SetupOK')
         /\ \A i : Walk(i)' = Walk(i)
         /\ \A p, i : RelativePath(p, i)' = RelativePath(p, i)
         /\ \A it, i : OfRoot(it, i)' = OfRoot(it, i)
         /\ Wanted' = Wanted
         /\ \A p : File(p)' = File(p) /\ Inode(p)' = Inode(p) /\ Nlink(p)' = Nlink(p)
         /\ \A i : Place(i)' = Place(i)
<1>1. Roots' = Roots /\ \A p : File(p)' = File(p) /\ Inode(p)' = Inode(p) /\ Nlink(p)' = Nlink(p)
  BY DEF Roots, File, Inode, Nlink
<1>2. \A i : Place(i)' = Place(i) /\ Typed(i)' = Typed(i)
  BY <1>1 DEF Place, Typed
<1>3. \A p, i : TypedPath(p, i)' = TypedPath(p, i)
  BY <1>2 DEF TypedPath
<1>4. \A p, i : Matches(p, i)' = Matches(p, i)
  BY <1>1, <1>2, <1>3 DEF Matches
<1>5. \A p, i : Find_best_match(p, i)' = Find_best_match(p, i)
  BY <1>2, <1>4 DEF Find_best_match
<1>6. \A i : Walk(i)' = Walk(i)
  BY <1>2, <1>5 DEF Walk, Is_excluded
<1>7. \A p, i : RelativePath(p, i)' = RelativePath(p, i)
  BY <1>2, <1>3 DEF RelativePath, UniqueName
<1>8. \A it, i : OfRoot(it, i)' = OfRoot(it, i)
  BY <1>6, <1>7 DEF OfRoot
<1>9. Wanted' = Wanted
  BY <1>1, <1>2 DEF Wanted
<1>10. SetupOK => SetupOK'
  BY <1>1, <1>2, <1>3 DEF SetupOK, PlaceOK, NotBelowFiles, LinksOK
<1> QED
  BY <1>1, <1>2, <1>6, <1>7, <1>8, <1>9, <1>10

LEMMA DealtAccounts ==
  ASSUME Accounts, NEW p, NEW new, Dealt(p, new)
  PROVE  Accounts'
<1>1. SetupOK' /\ Roots' = Roots /\ root' = root /\ stage' = "walk" /\ todo' \subseteq todo /\ p \notin todo'
  BY SameSetup DEF Dealt, Accounts, BackupTypeOK
<1>2. root \in Nat /\ root # 0 /\ p \in Walk(root) /\ root \in DOMAIN Roots /\ p \in Paths
  <2>1. root \in 1 .. Len(Roots) /\ p \in Walk(root)
    BY RootsArePaths DEF Dealt, Accounts, BackupTypeOK
  <2> QED
    BY <2>1, RootsArePaths DEF Walk
<1>3. \A it \in new : OfRoot(it, root) /\ it.src = p
  BY <1>2 DEF Dealt, OfRoot
<1>4. BackupTypeOK'
  BY <1>1, <1>2, SameSetup DEF Dealt, Accounts, BackupTypeOK
<1>5. ItemsWalked'
  <2> SUFFICES ASSUME NEW it \in items \cup new
               PROVE  \E i \in 1 .. root : OfRoot(it, i) /\ (i = root => it.src \notin todo')
    BY <1>1, SameSetup DEF ItemsWalked, Dealt
  <2> QED
    BY <1>1, <1>2, <1>3 DEF Accounts, ItemsWalked
<1>6. OneEach'
  <2> SUFFICES ASSUME NEW it1 \in items \cup new, NEW it2 \in items \cup new, it1.path = it2.path
               PROVE  it1 = it2
    BY DEF OneEach, Dealt
  <2>1. ASSUME NEW it \in items, NEW other \in new, it.path = other.path
        PROVE  FALSE
    <3>1. PICK i \in 1 .. root : OfRoot(it, i) /\ (i = root => it.src \notin todo)
      BY DEF Accounts, ItemsWalked
    <3>2. i \in DOMAIN Roots /\ SetupOK
      BY <1>2, RootsArePaths DEF Accounts, BackupTypeOK
    <3>3. RelativePath(it.src, i) = RelativePath(p, root) /\ it.src \in Walk(i)
      BY <1>3, <2>1, <3>1 DEF OfRoot
    <3>4. i = root /\ it.src = p
      BY <1>2, <3>2, <3>3, RelativePathsUnique
    <3> QED
      BY <3>1, <3>4 DEF Dealt
  <2> QED
    BY <1>3, <2>1 DEF Dealt, Accounts, OneEach
<1>7. Accounted'
  <2> SUFFICES ASSUME NEW i \in 1 .. root, NEW q \in Walk(i)
               PROVE  (i = root /\ q \in todo') \/ HasItem(q, i)' \/ q \in reported' \/ Above(reported', q)
    BY <1>1, SameSetup DEF Accounted, Dealt
  <2>1. (i = root /\ q \in todo) \/ HasItem(q, i) \/ q \in reported \/ Above(reported, q)
    BY DEF Accounts, Accounted
  <2>2. HasItem(q, i) => HasItem(q, i)'
    BY SameSetup DEF HasItem, Dealt
  <2>3. Above(reported, q) => Above(reported', q)
    BY DEF Above, Dealt
  <2>4. i = root /\ q = p => HasItem(q, i)' \/ q \in reported'
    BY <1>3, SameSetup DEF HasItem, Dealt, OfRoot
  <2> QED
    BY <2>1, <2>2, <2>3, <2>4 DEF Dealt
<1>8. WalksOver'
  BY <1>1 DEF WalksOver
<1> QED
  BY <1>4, <1>5, <1>6, <1>7, <1>8 DEF Accounts

LEMMA StartRootAccounts ==
  ASSUME Accounts, StartRoot
  PROVE  Accounts'
<1>1. SetupOK' /\ Roots' = Roots /\ stage' = "walk" /\ items' = items
  BY SameSetup DEF StartRoot, Accounts, BackupTypeOK
<1>2. root \in Nat /\ root' = root + 1 /\ root' \in 0 .. Len(Roots) /\ root' # 0 /\ root' \in DOMAIN Roots
      /\ \A i \in 1 .. root : i \in DOMAIN Roots /\ i # root' /\ i \in 1 .. root'
  BY RootsArePaths DEF StartRoot, Accounts, BackupTypeOK
<1>3. PICK lost \in SUBSET Walk(root + 1), blind \in SUBSET (Walk(root + 1) \cap Dirs) :
        /\ todo' = {p \in Walk(root + 1) \ lost : ~Above(lost \cup blind, p)}
        /\ reported' = reported \cup lost \cup blind
        /\ errors' = errors + Cardinality(lost \cup blind)
  BY DEF StartRoot
<1>4. lost \cup blind \in SUBSET Paths
  BY DEF Walk
<1>5. Cardinality(lost \cup blind) \in Nat
  BY <1>4, FileSystemAssumption, FS_Subset, FS_CardinalityType
<1>6. BackupTypeOK'
  BY <1>1, <1>2, <1>3, <1>4, <1>5, SameSetup DEF StartRoot, Accounts, BackupTypeOK
<1>7. ItemsWalked'
  <2> SUFFICES ASSUME NEW it \in items
               PROVE  \E i \in 1 .. root' : OfRoot(it, i) /\ i # root'
    BY <1>1, SameSetup DEF ItemsWalked, StartRoot
  <2>1. PICK i \in 1 .. root : OfRoot(it, i)
    BY DEF Accounts, ItemsWalked
  <2>2. i \in 1 .. root' /\ i # root'
    BY <1>2
  <2> QED
    BY <2>1, <2>2
<1>8. Accounted'
  <2> SUFFICES ASSUME NEW i \in 1 .. root', NEW p \in Walk(i)
               PROVE  (i = root' /\ p \in todo') \/ HasItem(p, i) \/ p \in reported' \/ Above(reported', p)
    <3>1. \A i, p : HasItem(p, i)' <=> HasItem(p, i)
      BY <1>1, SameSetup DEF StartRoot, HasItem
    <3> QED
      BY <1>1, <3>1, SameSetup DEF Accounted, StartRoot
  <2>1. CASE i = root'
    BY <1>2, <1>3, <2>1 DEF Above
  <2>2. CASE i # root'
    <3>1. i \in 1 .. root
      BY <1>2, <2>2
    <3>2. HasItem(p, i) \/ p \in reported \/ Above(reported, p)
      BY <3>1 DEF Accounts, Accounted, StartRoot
    <3> QED
      BY <1>3, <3>2 DEF Above
  <2> QED
    BY <2>1, <2>2
<1>9. OneEach' /\ WalksOver'
  BY <1>1 DEF OneEach, WalksOver, Accounts
<1> QED
  BY <1>6, <1>7, <1>8, <1>9 DEF Accounts

\* All else leaves the archive as it is.
LEMMA OthersAccount ==
  ASSUME Accounts, UNCHANGED <<setup, root, todo, items, reported>>, errors' \in {errors, errors + 1},
         stage' \in {"walk", "stored", "aborted", "restore", "done"},
         WalksOver'
  PROVE  Accounts'
<1>1. SetupOK' /\ Roots' = Roots
  BY SameSetup DEF Accounts, BackupTypeOK
<1>2. BackupTypeOK'
  BY <1>1, SameSetup DEF Accounts, BackupTypeOK
<1>3. ItemsWalked' /\ OneEach' /\ Accounted'
  BY SameSetup DEF Accounts, ItemsWalked, OneEach, Accounted, HasItem
<1> QED
  BY <1>2, <1>3 DEF Accounts

LEMMA AccountsStep == Accounts /\ [Next]_vars => Accounts'
<1> SUFFICES ASSUME Accounts, [Next]_vars
             PROVE  Accounts'
  OBVIOUS
<1>1. ASSUME NEW p \in Paths, Process(p)
      PROVE  Accounts'
  BY <1>1, ProcessDeals, DealtAccounts
<1>2. CASE Abort
  BY <1>2, OthersAccount, SameSetup DEF Abort, WalksOver
<1>3. CASE Commit
  BY <1>3, OthersAccount, SameSetup DEF Commit, WalksOver
<1>4. CASE Restore
  <2>1. /\ UNCHANGED <<setup, root, todo, items, reported>>
        /\ errors' \in {errors, errors + 1}
        /\ stage' \in {"aborted", "restore", "done"}
        /\ stage \in {"stored", "restore"}
    BY <1>4 DEF Restore, Load, LoadOverStale, LoadFails, RestoreItem, Refuse, ItemFails, Dequeue, Finish
  <2>2. WalksOver'
    BY <2>1, SameSetup DEF WalksOver, Accounts
  <2> QED
    BY <2>1, <2>2, OthersAccount
<1>5. CASE UNCHANGED vars
  <2>1. UNCHANGED <<setup, root, todo, items, reported>> /\ errors' = errors /\ stage' = stage
    BY <1>5 DEF vars, backupVars
  <2>2. WalksOver' /\ stage \in {"walk", "stored", "aborted", "restore", "done"}
    BY <2>1, SameSetup DEF WalksOver, Accounts, BackupTypeOK
  <2> QED
    BY <2>1, <2>2, OthersAccount
<1> QED
  BY <1>1, <1>2, <1>3, <1>4, <1>5, StartRootAccounts DEF Next, Backup

LEMMA InitAccounts == RestoreInit => Accounts
<1> SUFFICES ASSUME RestoreInit
             PROVE  Accounts
  OBVIOUS
<1>1. SetupOK
  BY SetupsOK DEF RestoreInit, Init
<1>2. Len(Roots) \in Nat
  BY <1>1, RootsArePaths
<1> QED
  BY <1>1, <1>2 DEF RestoreInit, Init, Accounts, BackupTypeOK, ItemsWalked, OneEach, Accounted, WalksOver

\* Items and errors account for every entry a walk has yielded, one item for each.
THEOREM AccountsCorrect == Spec => []Accounts
BY InitAccounts, AccountsStep, PTL DEF Spec

\* Absolute roots are named by their places.
LEMMA AbsolutePath ==
  ASSUME SetupOK, Absolute(Roots), NEW i \in DOMAIN Roots, NEW p \in Paths, IsPrefix(Place(i), p)
  PROVE  TypedPath(p, i) = Tail(p)
<1> DEFINE s == Typed(i)
           t == Rest(p, i)
           u == s \o t
           n == Len(Place(i))
<1>1. /\ Place(i) \in Seq(Components) /\ n \in Nat /\ n > 1 /\ s \in Seq(Components)
      /\ s = Tail(Place(i)) /\ TypedPath(p, i) = u
  BY RootsArePaths, TypedPathIs DEF SetupOK, PlaceOK, Absolute
<1>2. /\ Len(p) \in Nat /\ n <= Len(p) /\ \A k \in 1 .. n : Place(i)[k] = p[k]
      /\ t \in Seq(Components) /\ Len(t) = Len(p) - n /\ \A k \in 1 .. Len(p) - n : t[k] = p[n + k]
  BY RestIs
<1>3. p \in Seq(Components) /\ p # << >> /\ Place(i) # << >>
  BY PathsAreSeqs, RootsArePaths
<1> DEFINE v == Tail(p)
<1>4. Len(s) = n - 1 /\ \A k \in 1 .. n - 1 : s[k] = Place(i)[k + 1]
  <2>1. Len(Tail(Place(i))) = Len(Place(i)) - 1 /\ \A k \in 1 .. Len(Place(i)) - 1 : Tail(Place(i))[k] = Place(i)[k + 1]
    BY <1>1, <1>3, HeadTailProperties
  <2> QED
    BY <1>1, <2>1
<1>5. /\ v \in Seq(Components) /\ Len(v) = Len(p) - 1 /\ \A k \in 1 .. Len(p) - 1 : v[k] = p[k + 1]
  BY <1>3, HeadTailProperties
<1> HIDE DEF s, t, n, v
<1>6. /\ u \in Seq(Components) /\ Len(u) = Len(s) + Len(t)
      /\ \A k \in 1 .. Len(s) + Len(t) : u[k] = IF k <= Len(s) THEN s[k] ELSE t[k - Len(s)]
  <2>1. s \in Seq(Components) /\ t \in Seq(Components)
    BY <1>1, <1>2
  <2> QED
    BY <2>1, ConcatProperties
<1> HIDE DEF u
<1>7. Len(u) = Len(p) - 1
  BY <1>1, <1>2, <1>4, <1>6
<1>8. ASSUME NEW k \in 1 .. Len(p) - 1
      PROVE  u[k] = v[k]
  <2>1. CASE k <= n - 1
    <3>1. k \in 1 .. n - 1 /\ k + 1 \in 1 .. n /\ k \in 1 .. Len(s) + Len(t) /\ k <= Len(s)
      BY <1>1, <1>2, <1>4, <2>1
    <3> QED
      BY <1>2, <1>4, <1>5, <1>6, <3>1
  <2>2. CASE ~(k <= n - 1)
    <3>1. PICK m \in 1 .. Len(p) - n : m = k - (n - 1)
      BY <1>1, <1>2, <2>2
    <3>2. k \in 1 .. Len(s) + Len(t) /\ ~(k <= Len(s)) /\ k - Len(s) = m /\ n + m = k + 1
      <4>1. k \in Int /\ n \in Nat /\ Len(p) \in Nat /\ Len(s) = n - 1 /\ Len(t) = Len(p) - n
        BY <1>1, <1>2, <1>4
      <4> QED
        BY <1>2, <1>8, <2>2, <3>1, <4>1
    <3> QED
      BY <1>2, <1>5, <1>6, <3>1, <3>2
  <2> QED
    BY <2>1, <2>2
<1>9. u = v
  BY <1>5, <1>6, <1>7, <1>8, SeqEqual
<1> QED
  BY <1>1, <1>9 DEF v

LEMMA AbsoluteNotMistaken ==
  ASSUME SetupOK, Absolute(Roots), NEW p \in Paths
  PROVE  ~Mistaken(p)
<1> SUFFICES ASSUME NEW i \in DOMAIN Roots, NEW j \in DOMAIN Roots,
                    IsPrefix(Place(i), p), IsPrefix(Typed(j), TypedPath(p, i))
             PROVE  /\ IsPrefix(Place(j), p)
                    /\ Len(Place(i)) + Len(Typed(j)) = Len(Place(j)) + Len(Typed(i))
  BY DEF Mistaken
<1>1. /\ p \in Seq(Components) /\ p # << >> /\ p[1] = Slash /\ Len(p) \in Nat
      /\ Place(i) \in Seq(Components) /\ Place(i) # << >> /\ Len(Place(i)) \in Nat
      /\ Place(j) \in Seq(Components) /\ Place(j) # << >> /\ Len(Place(j)) \in Nat /\ Len(Place(j)) > 1
      /\ Place(j)[1] = Slash
  BY PathsAreSeqs, RootsArePaths
<1>2. TypedPath(p, i) = Tail(p) /\ Typed(i) = Tail(Place(i)) /\ Typed(j) = Tail(Place(j))
  BY AbsolutePath DEF SetupOK, PlaceOK, Absolute
<1>3. Len(Typed(i)) = Len(Place(i)) - 1 /\ Len(Typed(j)) = Len(Place(j)) - 1
  BY <1>1, <1>2, HeadTailProperties
<1>4. /\ Tail(Place(j)) \in Seq(Components) /\ Len(Tail(Place(j))) = Len(Place(j)) - 1
      /\ \A k \in 1 .. Len(Place(j)) - 1 : Tail(Place(j))[k] = Place(j)[k + 1]
  BY <1>1, HeadTailProperties
<1>5. /\ Tail(p) \in Seq(Components) /\ Len(Tail(p)) = Len(p) - 1
      /\ \A k \in 1 .. Len(p) - 1 : Tail(p)[k] = p[k + 1]
  BY <1>1, HeadTailProperties
<1>6. /\ Len(Tail(Place(j))) <= Len(Tail(p))
      /\ \A k \in 1 .. Len(Tail(Place(j))) : Tail(Place(j))[k] = Tail(p)[k]
  <2> DEFINE s == Tail(Place(j))
             t == Tail(p)
  <2>1. s \in Seq(Components) /\ t \in Seq(Components)
    BY <1>4, <1>5
  <2>2. IsPrefix(s, t)
    BY <1>2
  <2> HIDE DEF s, t
  <2>3. Len(s) <= Len(t) /\ \A k \in 1 .. Len(s) : s[k] = t[k]
    BY <2>1, <2>2, Prefix
  <2> QED
    BY <2>3 DEF s, t
<1>7. Len(Place(j)) <= Len(p)
  BY <1>1, <1>4, <1>5, <1>6
<1>8. ASSUME NEW k \in 1 .. Len(Place(j))
      PROVE  Place(j)[k] = p[k]
  <2>1. CASE k = 1
    BY <1>1, <2>1
  <2>2. CASE k # 1
    <3>1. PICK m \in 1 .. Len(Place(j)) - 1 : m + 1 = k
      <4>1. k - 1 \in 1 .. Len(Place(j)) - 1 /\ (k - 1) + 1 = k
        BY <1>1, <2>2
      <4> QED
        BY <4>1
    <3>2. m \in 1 .. Len(p) - 1
      BY <1>1, <1>7, <3>1
    <3> QED
      BY <1>4, <1>5, <1>6, <3>1, <3>2
  <2> QED
    BY <2>1, <2>2
<1>9. IsPrefix(Place(j), p)
  BY <1>1, <1>7, <1>8, Prefix
<1> QED
  BY <1>1, <1>3, <1>9

LEMMA AccountsAreTrue == Accounts => BackupAccounts
<1> SUFFICES ASSUME Accounts, stage = "stored"
             PROVE  /\ \A p \in Wanted : \/ \E it \in items : it.src = p
                                         \/ p \in reported \/ Above(reported, p) \/ Mistaken(p)
                    /\ \A it \in items : it.src \in Wanted
                    /\ \A it1, it2 \in items : it1.path = it2.path => it1 = it2
                    /\ Absolute(Roots) => /\ \A p \in Wanted : ~Mistaken(p)
                                          /\ \A it1, it2 \in items : it1.src = it2.src => it1 = it2
  BY DEF BackupAccounts
<1>1. SetupOK /\ todo = {} /\ root = Len(Roots) /\ DOMAIN Roots = 1 .. root
  BY RootsArePaths DEF Accounts, BackupTypeOK, WalksOver
<1>2. ASSUME NEW p \in Wanted, p \notin reported, ~Above(reported, p), ~Mistaken(p)
      PROVE  \E it \in items : it.src = p
  <2>1. PICK i \in 1 .. root : p \in Walk(i)
    BY <1>1, <1>2, WantedIsWalked
  <2> QED
    BY <1>1, <1>2, <2>1 DEF Accounts, Accounted, HasItem
<1>3. ASSUME NEW it \in items
      PROVE  it.src \in Wanted
  BY <1>1, WalkIsWanted DEF Accounts, ItemsWalked, OfRoot
<1>4. \A it1, it2 \in items : it1.path = it2.path => it1 = it2
  BY DEF Accounts, OneEach
<1>5. ASSUME Absolute(Roots), NEW it1 \in items, NEW it2 \in items, it1.src = it2.src
      PROVE  it1 = it2
  <2>1. PICK i \in 1 .. root : OfRoot(it1, i)
    BY DEF Accounts, ItemsWalked
  <2>2. PICK j \in 1 .. root : OfRoot(it2, j)
    BY DEF Accounts, ItemsWalked
  <2> DEFINE p == it1.src
  <2>3. /\ i \in DOMAIN Roots /\ p \in Walk(i) /\ it1.path = RelativePath(p, i)
        /\ j \in DOMAIN Roots /\ p \in Walk(j) /\ it2.path = RelativePath(p, j)
    BY <1>1, <1>5, <2>1, <2>2 DEF OfRoot
  <2> HIDE DEF p
  <2>4. TypedPath(p, i) = Tail(p) /\ TypedPath(p, j) = Tail(p)
    BY <1>1, <1>5, <2>3, AbsolutePath, WalksApart
  <2>5. Matches(p, i) = Matches(p, j) /\ i \in Matches(p, i) /\ j \in Matches(p, j)
    BY <1>1, <2>3, <2>4, WalksApart DEF Matches, Best
  <2>6. i = j
    BY <1>1, <2>3, <2>5, BestOfBoth
  <2> QED
    BY <2>3, <2>6 DEF Accounts, OneEach
<1>6. Absolute(Roots) => \A p \in Wanted : ~Mistaken(p)
  BY <1>1, AbsoluteNotMistaken DEF Wanted
<1> QED
  BY <1>2, <1>3, <1>4, <1>5, <1>6

\* A committed archive has an item for each path that is wanted, or an error was
\* reported for it, or its names are those of a root elsewhere; none for others; no two
\* items have one path.  With absolute roots no names are, and no path has two items.
THEOREM BackupAccountsCorrect == Spec => []BackupAccounts
BY AccountsCorrect, AccountsAreTrue, PTL

-------------------------------------------------------------------------------
(***************************************************************************)
(* Hard links                                                              *)
(***************************************************************************)

\* An item is of the kind of its source; a hard link names what hardlinks has for the
\* number of its inode, and that is the path of a file stored with several links.
KindFits(it) ==
  /\ it.kind \in Kinds
  /\ it.kind = "dir" <=> it.src \in Dirs
  /\ it.kind = "symlink" <=> it.src \in Links
  /\ it.kind = "hardlink" => /\ Nlink(it.src) > 1 /\ Inode(it.src) \in DOMAIN hardlinks
                             /\ it.target = hardlinks[Inode(it.src)]
  /\ it.kind = "file" /\ Nlink(it.src) > 1 => /\ Inode(it.src) \in DOMAIN hardlinks
                                              /\ it.path = hardlinks[Inode(it.src)]

\* The first with inode number n is p of root i, which is dealt with, and is no hard link.
First(n, p, i) ==
  /\ p \in Files /\ p \in Walk(i) /\ (i = root => p \notin todo)
  /\ Inode(p) = n /\ Nlink(p) > 1 /\ hardlinks[n] = RelativePath(p, i)
  /\ \A it \in items : it.path = RelativePath(p, i) => it.kind = "file"
  /\ reported = {} => HasItem(p, i)

Linked ==
  /\ \A it \in items : KindFits(it)
  /\ \A n \in DOMAIN hardlinks : \E i \in 1 .. root : \E p : First(n, p, i)

LEMMA FirstStays ==
  ASSUME Accounts, NEW p \in todo, NEW n, n \in DOMAIN hardlinks', hardlinks'[n] = hardlinks[n],
         NEW i \in 1 .. root, NEW q, First(n, q, i),
         setup' = setup, root' = root, todo' = todo \ {p},
         items \subseteq items', \A it \in items' : it \in items \/ it.path = RelativePath(p, root),
         reported' = {} => reported = {}
  PROVE  First(n, q, i)'
<1>1. i = root => q # p /\ q \notin todo'
  BY DEF First
<1>2. ASSUME NEW it \in items', it.path = RelativePath(q, i)
      PROVE  it.kind = "file"
  <2>1. /\ SetupOK /\ i \in DOMAIN Roots /\ q \in Walk(i)
        /\ root \in DOMAIN Roots /\ p \in Walk(root)
    BY RootsArePaths DEF Accounts, BackupTypeOK, First
  <2>2. it.path # RelativePath(p, root)
    BY <1>1, <1>2, <2>1, RelativePathsUnique
  <2> QED
    BY <1>2, <2>2 DEF First
<1>3. reported' = {} => HasItem(q, i)'
  BY SameSetup DEF First, HasItem
<1> QED
  BY <1>1, <1>2, <1>3, SameSetup DEF First

LEMMA ProcessLinks ==
  ASSUME Accounts, Linked, NEW p \in Paths, Process(p)
  PROVE  Linked'
<1>1. /\ setup' = setup /\ root' = root /\ p \in todo /\ todo' = todo \ {p}
      /\ root \in 1 .. root /\ p \in Walk(root) /\ p \notin todo'
  BY DEF Process, MetadataFails, ProcessPlain, ProcessHardlink, ProcessFile, ReadFails, NextEntry,
         Accounts, BackupTypeOK
<1>2. reported' = {} => reported = {}
  BY DEF Process, MetadataFails, ProcessPlain, ProcessHardlink, ProcessFile, ReadFails, Report
<1>3. ASSUME hardlinks' = hardlinks, items \subseteq items',
             \A it \in items' : it \in items \/ (it.path = RelativePath(p, root) /\ KindFits(it))
      PROVE  Linked'
  <2>1. \A it \in items' : KindFits(it)'
    BY <1>1, <1>3, SameSetup DEF KindFits, Linked
  <2>2. ASSUME NEW n \in DOMAIN hardlinks
        PROVE  \E i \in 1 .. root : \E q : First(n, q, i)'
    <3>0. PICK i \in 1 .. root : \E q : First(n, q, i)
      BY DEF Linked
    <3>1. PICK q : First(n, q, i)
      BY <3>0
    <3>2. First(n, q, i)'
      BY <1>1, <1>2, <1>3, <3>1, FirstStays
    <3> QED
      BY <3>2
  <2> QED
    BY <1>1, <1>3, <2>1, <2>2 DEF Linked
<1>4. CASE MetadataFails(p)
  <2>1. hardlinks' = hardlinks /\ items' = items
    BY <1>4 DEF MetadataFails
  <2> QED
    BY <1>3, <2>1
<1>5. CASE ProcessPlain(p)
  <2> DEFINE it == Item(p, IF p \in Dirs THEN "dir" ELSE "symlink")
  <2>1. it.src = p /\ it.path = RelativePath(p, root) /\ it.kind = IF p \in Dirs THEN "dir" ELSE "symlink"
    BY ItemIs
  <2> HIDE DEF it
  <2>2. KindFits(it)
    BY <1>5, <2>1, FileSystemAssumption DEF ProcessPlain, KindFits, Kinds
  <2>3. hardlinks' = hardlinks /\ items' = items \cup {it}
    BY <1>5 DEF ProcessPlain, it
  <2> QED
    BY <1>3, <2>1, <2>2, <2>3
<1>6. CASE ProcessHardlink(p)
  <2> DEFINE it == LinkItem(p)
  <2>1. it.src = p /\ it.path = RelativePath(p, root) /\ it.kind = "hardlink" /\ it.target = hardlinks[Inode(p)]
    BY LinkItemIs
  <2> HIDE DEF it
  <2>2. KindFits(it)
    BY <1>6, <2>1, FileSystemAssumption DEF ProcessHardlink, KindFits, Kinds, Seen
  <2>3. hardlinks' = hardlinks /\ items' = items \cup {it}
    BY <1>6 DEF ProcessHardlink, it
  <2> QED
    BY <1>3, <2>1, <2>2, <2>3
<1>7. ASSUME p \in Files, ~Seen(p), Remember(p), items \subseteq items',
             \A it \in items' : \/ it \in items
                                \/ it.src = p /\ it.path = RelativePath(p, root) /\ it.kind = "file",
             reported' = {} => HasItem(p, root)'
      PROVE  Linked'
  <2>1. \A n \in DOMAIN hardlinks : n \in DOMAIN hardlinks' /\ hardlinks'[n] = hardlinks[n]
    BY <1>7 DEF Remember, Seen
  <2>2. Nlink(p) > 1 => /\ Inode(p) \in DOMAIN hardlinks'
                        /\ hardlinks'[Inode(p)] = RelativePath(p, root)
    BY <1>7 DEF Remember, FirstPath
  <2>3. \A it \in items : KindFits(it)'
    BY <1>1, <2>1, SameSetup DEF KindFits, Linked
  <2>4. \A it \in items' : it \in items \/ KindFits(it)'
    BY <1>1, <1>7, <2>2, FileSystemAssumption, SameSetup DEF KindFits, Kinds
  <2>5. ASSUME NEW n \in DOMAIN hardlinks
        PROVE  \E i \in 1 .. root : \E q : First(n, q, i)'
    <3>0. PICK i \in 1 .. root : \E q : First(n, q, i)
      BY DEF Linked
    <3>1. PICK q : First(n, q, i)
      BY <3>0
    <3>2. First(n, q, i)'
      BY <1>1, <1>2, <1>7, <2>1, <3>1, FirstStays
    <3> QED
      BY <3>2
  <2>6. ASSUME NEW n \in DOMAIN hardlinks', n \notin DOMAIN hardlinks
        PROVE  First(n, p, root)'
    <3>1. n = Inode(p) /\ Nlink(p) > 1
      BY <1>7, <2>6 DEF Remember
    <3>2. ASSUME NEW it \in items, it.path = RelativePath(p, root)
          PROVE  FALSE
      <4>1. PICK i \in 1 .. root : OfRoot(it, i) /\ (i = root => it.src \notin todo)
        BY DEF Accounts, ItemsWalked
      <4>2. SetupOK /\ i \in DOMAIN Roots /\ root \in DOMAIN Roots
        BY <1>1, RootsArePaths DEF Accounts, BackupTypeOK
      <4>3. RelativePath(it.src, i) = RelativePath(p, root) /\ it.src \in Walk(i)
        BY <3>2, <4>1 DEF OfRoot
      <4>4. i = root /\ it.src = p
        BY <1>1, <4>2, <4>3, RelativePathsUnique
      <4> QED
        BY <1>1, <4>1, <4>4
    <3>3. \A it \in items' : it.path = RelativePath(p, root) => it.kind = "file"
      BY <1>7, <3>2
    <3> QED
      BY <1>1, <1>7, <2>2, <3>1, <3>3, SameSetup DEF First
  <2>7. \A it \in items' : KindFits(it)'
    BY <1>7, <2>3, <2>4
  <2>8. \A n \in DOMAIN hardlinks' : \E i \in 1 .. root' : \E q : First(n, q, i)'
    BY <1>1, <2>5, <2>6
  <2> QED
    BY <2>7, <2>8 DEF Linked
<1>8. CASE ProcessFile(p)
  <2> DEFINE it == Item(p, "file")
  <2>1. it.src = p /\ it.kind = "file" /\ it.path = RelativePath(p, root)
    BY ItemIs
  <2>2. p \in Files /\ ~Seen(p) /\ Remember(p) /\ items' = items \cup {it}
    BY <1>8 DEF ProcessFile, it
  <2> HIDE DEF it
  <2>3. HasItem(p, root)'
    BY <1>1, <2>1, <2>2, SameSetup DEF HasItem
  <2> QED
    BY <1>7, <2>1, <2>2, <2>3
<1>9. CASE ReadFails(p)
  <2>1. p \in Files /\ ~Seen(p) /\ Remember(p) /\ items' = items /\ reported' # {}
    BY <1>9 DEF ReadFails, Report
  <2> QED
    BY <1>7, <2>1
<1> QED
  BY <1>4, <1>5, <1>6, <1>8, <1>9 DEF Process

LEMMA StartRootLinks ==
  ASSUME Accounts, Linked, StartRoot
  PROVE  Linked'
<1>1. /\ setup' = setup /\ items' = items /\ hardlinks' = hardlinks /\ root' = root + 1
      /\ todo' \subseteq Walk(root + 1) /\ reported \subseteq reported'
  BY DEF StartRoot
<1>2. /\ root \in Nat /\ root + 1 \in DOMAIN Roots
      /\ \A i \in 1 .. root : i \in DOMAIN Roots /\ i # root + 1 /\ i \in 1 .. root'
  BY <1>1, RootsArePaths DEF StartRoot, Accounts, BackupTypeOK
<1>3. ASSUME NEW n \in DOMAIN hardlinks
      PROVE  \E i \in 1 .. root' : \E q : First(n, q, i)'
  <2>1. PICK i \in 1 .. root : \E q : First(n, q, i)
    BY DEF Linked
  <2>2. PICK q : First(n, q, i)
    BY <2>1
  <2>3. i # root'
    BY <1>1, <1>2
  <2>4. First(n, q, i)'
    BY <1>1, <2>2, <2>3, SameSetup DEF First, HasItem
  <2> QED
    BY <1>2, <2>4
<1>4. \A it \in items' : KindFits(it)'
  BY <1>1, SameSetup DEF Linked, KindFits
<1> QED
  BY <1>1, <1>3, <1>4 DEF Linked

LEMMA OthersLink ==
  ASSUME Linked, UNCHANGED <<setup, root, todo, items, hardlinks, reported>>
  PROVE  Linked'
<1>1. \A it \in items' : KindFits(it)'
  BY SameSetup DEF Linked, KindFits
<1>2. ASSUME NEW n \in DOMAIN hardlinks
      PROVE  \E i \in 1 .. root' : \E q : First(n, q, i)'
  BY SameSetup DEF Linked, First, HasItem
<1> QED
  BY <1>1, <1>2 DEF Linked

LEMMA LinkedStep == Accounts /\ Linked /\ [Next]_vars => Linked'
<1> SUFFICES ASSUME Accounts, Linked, [Next]_vars
             PROVE  Linked'
  OBVIOUS
<1>1. CASE Restore
  <2>1. UNCHANGED <<setup, root, todo, items, hardlinks, reported>>
    BY <1>1 DEF Restore, Load, LoadOverStale, LoadFails, RestoreItem, Refuse, ItemFails, Dequeue, Finish
  <2> QED
    BY <2>1, OthersLink
<1>2. CASE Abort \/ Commit \/ UNCHANGED vars
  <2>1. UNCHANGED <<setup, root, todo, items, hardlinks, reported>>
    BY <1>2 DEF Abort, Commit, vars, backupVars
  <2> QED
    BY <2>1, OthersLink
<1> QED
  BY <1>1, <1>2, StartRootLinks, ProcessLinks DEF Next, Backup

LEMMA InitLinks == RestoreInit => Linked
<1> SUFFICES ASSUME RestoreInit
             PROVE  Linked
  OBVIOUS
<1>1. items = {} /\ DOMAIN hardlinks = {}
  BY DEF RestoreInit, Init
<1> QED
  BY <1>1 DEF Linked

\* What a hard link of an archive names is the path under which the number of its inode
\* was first seen, which no hard link has: of all with that number it is the one stored.
THEOREM LinkedCorrect == Spec => [](Accounts /\ Linked)
BY InitAccounts, AccountsStep, InitLinks, LinkedStep, PTL DEF Spec

-------------------------------------------------------------------------------
(***************************************************************************)
(* Where a restore writes                                                  *)
(***************************************************************************)

LEMMA DestIsSeq ==
  ASSUME SetupOK
  PROVE  Dest \in Seq(Parts) /\ Dest # << >>
<1>1. Destination \in Seq(Parts) /\ Destination # << >>
  <2>1. Range(Destination) \subseteq Parts
    BY DEF Parts
  <2> QED
    BY <2>1, DestinationAssumption, SeqMonotonic
<1>2. <<Slash>> \in Seq(Parts) /\ <<Slash>> # << >>
  BY DEF Parts
<1>3. Len(Roots) = 1 => Place(1) \in Seq(Parts) /\ Place(1) # << >>
  <2> SUFFICES ASSUME Len(Roots) = 1
               PROVE  Place(1) \in Seq(Parts) /\ Place(1) # << >>
    OBVIOUS
  <2>1. Place(1) \in Seq(Components) /\ Place(1) # << >>
    BY RootsArePaths, PathsAreSeqs
  <2>2. Components \subseteq Parts
    BY DEF Parts
  <2> QED
    BY <2>1, <2>2, SeqMonotonic
<1> QED
  BY <1>1, <1>2, <1>3 DEF Dest

LEMMA ItemPaths ==
  ASSUME Accounts, NEW it \in items
  PROVE  /\ it.path \in Seq(Parts)
         /\ \E i \in DOMAIN Roots : OfRoot(it, i)
         /\ it.src \in Paths
<1>1. PICK i \in 1 .. root : OfRoot(it, i)
  BY DEF Accounts, ItemsWalked
<1>2. i \in DOMAIN Roots
  BY RootsArePaths DEF Accounts, BackupTypeOK
<1> QED
  BY <1>1, <1>2, RelativePathsTyped, WalksApart DEF OfRoot, Accounts, BackupTypeOK

\* Nothing is restored below a file or a symlink.
LEMMA TargetsBelow ==
  ASSUME Accounts, NEW it \in items, NEW other \in items, it.src \in Files \cup Links,
         IsPrefix(Target(it), Target(other))
  PROVE  Target(it) = Target(other)
<1>1. SetupOK /\ Dest \in Seq(Parts) /\ it.path \in Seq(Parts) /\ other.path \in Seq(Parts)
  BY DestIsSeq, ItemPaths DEF Accounts, BackupTypeOK
<1>2. IsPrefix(it.path, other.path)
  BY <1>1, PrefixesBelow DEF Target
<1>3. PICK i \in DOMAIN Roots : OfRoot(it, i)
  BY ItemPaths
<1>4. PICK j \in DOMAIN Roots : OfRoot(other, j)
  BY ItemPaths
<1>5. it.path = other.path
  BY <1>1, <1>2, <1>3, <1>4, OnlyDirsAbove DEF OfRoot
<1> QED
  BY <1>5 DEF Target

LEMMA TargetIsSeq ==
  ASSUME Accounts, NEW it \in items
  PROVE  Target(it) \in Seq(Parts) /\ Target(it) # << >>
<1>1. SetupOK /\ Dest \in Seq(Parts) /\ it.path \in Seq(Parts) /\ Dest # << >>
  BY DestIsSeq, ItemPaths DEF Accounts, BackupTypeOK
<1> QED
  BY <1>1, ConcatProperties, ConcatEqualIffEmpty DEF Target

LEMMA TargetsApart ==
  ASSUME Accounts, NEW it \in items, NEW other \in items, Target(it) = Target(other)
  PROVE  it = other
<1>1. Dest \in Seq(Parts) /\ it.path \in Seq(Parts) /\ other.path \in Seq(Parts)
  BY DestIsSeq, ItemPaths DEF Accounts, BackupTypeOK
<1>2. it.path = other.path
  BY <1>1, ConcatSimplifications DEF Target
<1> QED
  BY <1>2 DEF Accounts, OneEach

\* No hard link names another.
LEMMA LinkNamesFile ==
  ASSUME Accounts, Linked, NEW it \in items, NEW other \in items,
         it.kind = "hardlink", Target(other) = Dest \o it.target
  PROVE  other.kind = "file"
<1>1. SetupOK /\ Dest \in Seq(Parts) /\ other.path \in Seq(Parts)
  BY DestIsSeq, ItemPaths DEF Accounts, BackupTypeOK
<1>2. Inode(it.src) \in DOMAIN hardlinks /\ it.target = hardlinks[Inode(it.src)]
  BY DEF Linked, KindFits
<1>3. PICK i \in 1 .. root : \E p : First(Inode(it.src), p, i)
  BY <1>2 DEF Linked
<1>4. PICK p : First(Inode(it.src), p, i)
  BY <1>3
<1>5. i \in DOMAIN Roots /\ p \in Walk(i) /\ it.target = RelativePath(p, i)
  BY <1>2, <1>4, RootsArePaths DEF First, Accounts, BackupTypeOK
<1>6. other.path = it.target
  <2>1. it.target \in Seq(Parts) /\ Dest \o other.path = Dest \o it.target
    BY <1>1, <1>5, RelativePathsTyped DEF Target
  <2> QED
    BY <1>1, <2>1, ConcatSimplifications
<1> QED
  BY <1>4, <1>5, <1>6 DEF First

-------------------------------------------------------------------------------
(***************************************************************************)
(* The restore                                                             *)
(***************************************************************************)

LEMMA SelectedAreItems == Selected \subseteq items
BY DEF Selected

LEMMA SameRequest ==
  ASSUME UNCHANGED <<setup, items, request>>
  PROVE  Dest' = Dest /\ Selected' = Selected /\ \A it : Target(it)' = Target(it)
<1>1. Roots' = Roots /\ Place(1)' = Place(1) /\ \A i : Typed(i)' = Typed(i)
  BY DEF Roots, Place, Typed
<1>2. Dest' = Dest
  BY <1>1 DEF Dest
<1>3. Selected' = Selected
  BY <1>1 DEF Selected
<1> QED
  BY <1>2, <1>3 DEF Target

\* Of what is on the disk nothing changes but what is at q.
OnlyAt(q) ==
  DOMAIN disk \subseteq DOMAIN disk' /\ \A r \in DOMAIN disk : r # q => disk'[r] = disk[r]

LEMMA MkdirChanges ==
  ASSUME NEW p
  PROVE  DOMAIN disk \subseteq DOMAIN Mkdir(p) /\ \A r \in DOMAIN disk : Mkdir(p)[r] = disk[r]
BY DEF Mkdir

LEMMA WithChanges ==
  ASSUME NEW it, NEW node, disk' = With(it, node)
  PROVE  OnlyAt(Target(it)) /\ Target(it) \in DOMAIN disk' /\ disk'[Target(it)] = node
<1> DEFINE made == Mkdir(Front(Target(it)))
<1>1. DOMAIN disk \subseteq DOMAIN made /\ \A r \in DOMAIN disk : made[r] = disk[r]
  BY MkdirChanges
<1>2. disk' = [q \in DOMAIN made \cup {Target(it)} |-> IF q = Target(it) THEN node ELSE made[q]]
  BY DEF With
<1> HIDE DEF made
<1> QED
  BY <1>1, <1>2 DEF OnlyAt

\* What remains of an item that is dealt with, in whatever way.
LEMMA ItemChanges ==
  ASSUME NEW it, RestoreItem(it) \/ Refuse(it) \/ ItemFails(it)
  PROVE  OnlyAt(Target(it))
<1>1. ASSUME disk' \in {disk, Mkdir(Front(Target(it)))}
      PROVE  OnlyAt(Target(it))
  BY <1>1, MkdirChanges DEF OnlyAt
<1>2. CASE RestoreItem(it)
  BY <1>2, WithChanges DEF RestoreItem
<1>3. CASE Refuse(it)
  BY <1>1, <1>3 DEF Refuse
<1>4. CASE ItemFails(it)
  <2>1. \/ disk' \in {disk, Mkdir(Front(Target(it)))}
        \/ disk' = With(it, FileNode(Target(it), Partial))
        \/ disk' = With(it, Node(it))
    BY <1>4 DEF ItemFails, Remains
  <2> QED
    BY <1>1, <2>1, WithChanges
<1> QED
  BY <1>2, <1>3, <1>4

LEMMA StaysRestored ==
  ASSUME Accounts, Linked, NEW it \in items, NEW other \in items, it # other,
         other.kind = "hardlink" => it.kind = "hardlink",
         UNCHANGED <<setup, items, request>>, OnlyAt(Target(it)), Restored(other)
  PROVE  Restored(other)'
<1>1. Dest' = Dest /\ Target(other)' = Target(other) /\ File(other.src)' = File(other.src)
  BY SameRequest, SameSetup
<1>2. Target(other) # Target(it) /\ other.kind \in Kinds
  BY TargetsApart DEF Linked, KindFits
<1>3. \A kind, data : HasNode(Target(other), kind, data) => HasNode(Target(other), kind, data)'
  BY <1>1, <1>2 DEF HasNode, OnlyAt
<1>4. CASE other.kind = "hardlink"
  <2>1. Dest \o other.target # Target(it)
    BY <1>4, LinkNamesFile
  <2>2. /\ {Target(other), Dest \o other.target} \subseteq DOMAIN disk
        /\ disk[Target(other)] = disk[Dest \o other.target]
    BY <1>4 DEF Restored
  <2>3. /\ {Target(other), Dest \o other.target} \subseteq DOMAIN disk'
        /\ disk'[Target(other)] = disk'[Dest \o other.target]
    BY <1>2, <2>1, <2>2 DEF OnlyAt
  <2> QED
    BY <1>1, <1>4, <2>3 DEF Restored
<1>5. CASE other.kind # "hardlink"
  BY <1>1, <1>2, <1>3, <1>5 DEF Restored, Kinds
<1> QED
  BY <1>4, <1>5

LEMMA IsRestored ==
  ASSUME Linked, NEW it \in items, UNCHANGED <<setup, items, request>>, RestoreItem(it)
  PROVE  Restored(it)'
<1>1. Dest' = Dest /\ Target(it)' = Target(it) /\ File(it.src)' = File(it.src)
  BY SameRequest, SameSetup
<1>2. /\ OnlyAt(Target(it)) /\ Target(it) \in DOMAIN disk' /\ disk'[Target(it)] = Node(it)
      /\ it.kind \in Kinds
  BY WithChanges DEF RestoreItem, Linked, KindFits
<1>3. CASE it.kind = "hardlink"
  <2>1. Target(it) \notin DOMAIN disk /\ Dest \o it.target \in DOMAIN disk
    BY <1>3 DEF RestoreItem, Blocked
  <2>2. Node(it) = disk[Dest \o it.target]
    BY <1>3 DEF Node
  <2>3. /\ Dest \o it.target \in DOMAIN disk'
        /\ disk'[Dest \o it.target] = disk[Dest \o it.target]
    BY <1>2, <2>1 DEF OnlyAt
  <2> QED
    BY <1>1, <1>2, <1>3, <2>2, <2>3 DEF Restored
<1>4. CASE it.kind = "dir"
  BY <1>1, <1>2, <1>4 DEF Restored, HasNode, Node, DirNode
<1>5. CASE it.kind = "file"
  BY <1>1, <1>2, <1>5 DEF Restored, HasNode, Node, FileNode
<1>6. CASE it.kind = "symlink"
  BY <1>1, <1>2, <1>6 DEF Restored, HasNode, Node, LinkNode
<1> QED
  BY <1>2, <1>3, <1>4, <1>5, <1>6 DEF Kinds

\* Each selected item that is no longer queued is restored or reported, and the hard
\* links come last.
RestoreInv ==
  /\ stage \in {"restore", "done"} =>
       /\ queue \subseteq Selected
       /\ \A it \in Selected \ queue : Restored(it) \/ Target(it) \in failed
       /\ \A it \in Selected \ queue : it.kind = "hardlink" =>
             \A other \in queue : other.kind = "hardlink"
  /\ stage = "done" => queue = {}

LEMMA SameDisk ==
  ASSUME Linked, UNCHANGED <<setup, items, request, disk>>, NEW it \in items, Restored(it)
  PROVE  Restored(it)'
<1>1. Dest' = Dest /\ Target(it)' = Target(it) /\ File(it.src)' = File(it.src) /\ it.kind \in Kinds
  BY SameRequest, SameSetup DEF Linked, KindFits
<1>2. \A kind, data : HasNode(Target(it), kind, data) => HasNode(Target(it), kind, data)'
  BY <1>1 DEF HasNode
<1> QED
  BY <1>1, <1>2 DEF Restored, Kinds

LEMMA LinksComeLast ==
  ASSUME NEW it \in queue, Next_item(it), it.kind = "hardlink"
  PROVE  \A other \in queue : other.kind = "hardlink"
BY DEF Next_item, Pending

LEMMA DequeueStep ==
  ASSUME Accounts, Linked, RestoreInv, NEW it \in queue,
         RestoreItem(it) \/ Refuse(it) \/ ItemFails(it)
  PROVE  RestoreInv'
<1>1. /\ UNCHANGED <<setup, items, request>> /\ stage = "restore" /\ stage' = "restore"
      /\ queue' = queue \ {it} /\ Next_item(it) /\ failed \subseteq failed'
  BY DEF RestoreItem, Refuse, ItemFails, ItemFailure, Dequeue
<1>2. Dest' = Dest /\ Selected' = Selected /\ \A x : Target(x)' = Target(x)
  BY <1>1, SameRequest
<1>3. OnlyAt(Target(it)) /\ it \in Selected /\ it \in items
  BY <1>1, ItemChanges, SelectedAreItems DEF RestoreInv
<1>4. ASSUME NEW other \in Selected, other \notin queue'
      PROVE  Restored(other)' \/ Target(other) \in failed'
  <2>1. CASE other = it
    <3>1. RestoreItem(it) => Restored(it)'
      BY <1>1, <1>3, IsRestored
    <3>2. Refuse(it) \/ ItemFails(it) => Target(it) \in failed'
      BY DEF Refuse, ItemFails, ItemFailure
    <3> QED
      BY <2>1, <3>1, <3>2
  <2>2. CASE other # it
    <3>1. other \in items /\ other \notin queue
      BY <1>1, <1>4, <2>2, SelectedAreItems
    <3>2. other.kind = "hardlink" => it.kind = "hardlink"
      BY <1>1, <3>1 DEF RestoreInv
    <3>3. Restored(other) => Restored(other)'
      BY <1>1, <1>3, <2>2, <3>1, <3>2, StaysRestored
    <3> QED
      BY <1>1, <3>1, <3>3 DEF RestoreInv
  <2> QED
    BY <2>1, <2>2
<1>5. ASSUME NEW other \in Selected, other \notin queue', other.kind = "hardlink", NEW x \in queue'
      PROVE  x.kind = "hardlink"
  <2>1. CASE other = it
    BY <1>1, <1>5, <2>1, LinksComeLast
  <2>2. CASE other # it
    BY <1>1, <1>5, <2>2 DEF RestoreInv
  <2> QED
    BY <2>1, <2>2
<1>6. queue' \subseteq Selected
  BY <1>1 DEF RestoreInv
<1> QED
  BY <1>1, <1>2, <1>4, <1>5, <1>6 DEF RestoreInv

LEMMA RestoreStep == Accounts /\ Linked /\ RestoreInv /\ [Next]_vars => RestoreInv'
<1> SUFFICES ASSUME Accounts, Linked, RestoreInv, [Next]_vars
             PROVE  RestoreInv'
  OBVIOUS
<1>1. CASE Backup /\ UNCHANGED restoreVars
  <2>1. stage' \in {"walk", "stored", "aborted"}
    BY <1>1 DEF Backup, StartRoot, Process, MetadataFails, ProcessPlain, ProcessHardlink, ProcessFile,
                ReadFails, NextEntry, Abort, Commit
  <2> QED
    BY <2>1 DEF RestoreInv
<1>2. CASE Load \/ LoadOverStale
  <2>1. stage' = "restore" /\ queue' = Selected'
    BY <1>2 DEF Load, LoadOverStale
  <2> QED
    BY <2>1 DEF RestoreInv
<1>3. CASE LoadFails
  BY <1>3 DEF LoadFails, RestoreInv
<1>4. CASE Finish
  <2>1. UNCHANGED <<setup, items, request, disk, failed, queue>> /\ stage = "restore" /\ queue = {}
        /\ stage' = "done"
    BY <1>4 DEF Finish, restoreVars
  <2>2. \A it \in items : Restored(it) => Restored(it)'
    BY <2>1, SameDisk
  <2>3. Selected' = Selected /\ \A it : Target(it)' = Target(it)
    BY <2>1, SameRequest
  <2> QED
    BY <2>1, <2>2, <2>3, SelectedAreItems DEF RestoreInv
<1>5. CASE UNCHANGED vars
  <2>1. UNCHANGED <<setup, items, request, disk, failed, queue, stage>>
    BY <1>5 DEF vars, backupVars
  <2>2. \A it \in items : Restored(it) => Restored(it)'
    BY <2>1, SameDisk
  <2>3. Selected' = Selected /\ \A it : Target(it)' = Target(it)
    BY <2>1, SameRequest
  <2> QED
    BY <2>1, <2>2, <2>3, SelectedAreItems DEF RestoreInv
<1> QED
  BY <1>1, <1>2, <1>3, <1>4, <1>5, DequeueStep DEF Next, Restore

LEMMA RestoreInvIsTrue == RestoreInv => RestoreAccounts
BY DEF RestoreInv, RestoreAccounts

\* When a restore ends, each selected item is at its target, with its own data or as a
\* link of the file it names, or an error was reported for the target.
THEOREM RestoreAccountsCorrect == Spec => []RestoreAccounts
<1>1. RestoreInit => RestoreInv
  BY DEF RestoreInit, Init, RestoreInv
<1> QED
  BY <1>1, RestoreStep, RestoreInvIsTrue, LinkedCorrect, PTL DEF Spec

-------------------------------------------------------------------------------
(***************************************************************************)
(* A backup and a restore without errors                                   *)
(***************************************************************************)

Healthy == stage \in {"restore", "done"} /\ errors = 0 /\ request.mode = "all"

\* What is on the disk was restored or is above something that is or will be; and a
\* file was created under its own target.
HealthyInv ==
  /\ errors = 0 => reported = {}
  /\ stage \in {"walk", "stored"} => DOMAIN disk = {} /\ failed = {}
  /\ Healthy =>
       /\ failed = {}
       /\ \A q \in DOMAIN disk : \E it \in items : \/ it \notin queue /\ q = Target(it)
                                                   \/ IsStrictPrefix(q, Target(it))
       /\ \A it \in items \ queue : it.kind = "file" => disk[Target(it)].node = Target(it)

LEMMA MkdirAbove ==
  ASSUME NEW U, NEW s \in Seq(U), s # << >>, NEW q \in DOMAIN Mkdir(Front(s)), q \notin DOMAIN disk
  PROVE  IsStrictPrefix(q, s)
<1>1. Len(s) \in Nat /\ Len(s) > 0 /\ \A k \in 1 .. Len(s) : s[k] \in U
  BY LenProperties, EmptySeq, ElementOfSeq
<1> DEFINE front == SubSeq(s, 1, Len(s) - 1)
<1>2. /\ front \in Seq(U) /\ Len(front) = Len(s) - 1
      /\ \A k \in 1 .. Len(s) - 1 : front[k] = s[k]
  <2>1. 1 \in Int /\ Len(s) - 1 \in Int /\ \A k \in 1 .. Len(s) - 1 : s[k] \in U
    BY <1>1
  <2>2. /\ front \in Seq(U) /\ Len(front) = IF 1 <= Len(s) - 1 THEN Len(s) - 1 - 1 + 1 ELSE 0
        /\ \A k \in 1 .. Len(s) - 1 - 1 + 1 : front[k] = s[1 + k - 1]
    BY <2>1, SubSeqProperties
  <2> HIDE DEF front
  <2>3. Len(s) - 1 - 1 + 1 = Len(s) - 1 /\ \A k \in 1 .. Len(s) - 1 : 1 + k - 1 = k
    BY <1>1
  <2>4. Len(front) = Len(s) - 1
    <3>1. Len(front) = IF 1 <= Len(s) - 1 THEN Len(s) - 1 - 1 + 1 ELSE 0
      BY <2>2
    <3>2. PICK n \in Nat : n = Len(s) /\ n > 0
      BY <1>1
    <3>3. (IF 1 <= n - 1 THEN n - 1 - 1 + 1 ELSE 0) = n - 1
      BY <3>2
    <3> QED
      BY <3>1, <3>2, <3>3
  <2>5. ASSUME NEW k \in 1 .. Len(s) - 1
        PROVE  front[k] = s[k]
    <3>1. front[k] = s[1 + k - 1]
      BY <2>2, <2>3
    <3> QED
      BY <2>3, <3>1
  <2> QED
    BY <2>2, <2>4, <2>5
<1>3. PICK n \in 1 .. Len(front) : q = SubSeq(front, 1, n)
  BY DEF Mkdir, Front
<1> HIDE DEF front
<1>4. n \in Nat /\ 1 <= n /\ n <= Len(s) - 1
  BY <1>1, <1>2, <1>3
<1>5. /\ q \in Seq(U) /\ Len(q) = n
      /\ \A k \in 1 .. n : q[k] = front[k]
  <2>1. \A k \in 1 .. n : front[k] \in U
    BY <1>1, <1>2, <1>4
  <2> QED
    BY <1>3, <1>4, <2>1, SubSeqProperties
<1>6. Len(q) <= Len(s) /\ Len(q) # Len(s) /\ \A k \in 1 .. Len(q) : q[k] = s[k]
  <2>1. Len(q) <= Len(s) /\ Len(q) # Len(s) /\ \A k \in 1 .. Len(q) : k \in 1 .. n /\ k \in 1 .. Len(s) - 1
    BY <1>1, <1>4, <1>5
  <2> QED
    BY <1>2, <1>5, <2>1
<1> QED
  BY <1>5, <1>6, Prefix DEF IsStrictPrefix

\* The file that a hard link names is in the archive when nothing was reported.
LEMMA FirstItem ==
  ASSUME Accounts, Linked, reported = {}, NEW it \in items, it.kind = "hardlink"
  PROVE  \E f \in items : /\ f.kind = "file" /\ f.path = it.target /\ f.src \in Files
                          /\ Inode(f.src) = Inode(it.src) /\ Nlink(f.src) > 1
<1>1. Inode(it.src) \in DOMAIN hardlinks /\ it.target = hardlinks[Inode(it.src)]
  BY DEF Linked, KindFits
<1>2. PICK i \in 1 .. root : \E p : First(Inode(it.src), p, i)
  BY <1>1 DEF Linked
<1>3. PICK p : First(Inode(it.src), p, i)
  BY <1>2
<1>4. PICK f \in items : f.src = p /\ f.path = RelativePath(p, i)
  BY <1>3 DEF First, HasItem
<1> QED
  BY <1>1, <1>3, <1>4 DEF First

\* Of all with several links and one inode number one is stored with data.
LEMMA OneFile ==
  ASSUME Accounts, Linked, NEW f \in items, NEW g \in items, f.kind = "file", g.kind = "file",
         Inode(f.src) = Inode(g.src), Nlink(f.src) > 1, Nlink(g.src) > 1
  PROVE  f = g
<1>1. f.path = g.path
  BY DEF Linked, KindFits
<1> QED
  BY <1>1 DEF Accounts, OneEach

LEMMA NothingBlocks ==
  ASSUME Accounts, Linked, RestoreInv, HealthyInv, Healthy, NEW it \in queue, Next_item(it)
  PROVE  ~Blocked(it)
<1>1. /\ Selected = items /\ it \in items /\ reported = {} /\ failed = {}
      /\ it.kind \in Kinds /\ it.src \in Paths
  BY ItemPaths DEF Healthy, HealthyInv, RestoreInv, Selected, Linked, KindFits
<1>2. ASSUME it.kind \in {"symlink", "hardlink"}, Target(it) \in DOMAIN disk
      PROVE  FALSE
  <2>1. PICK other \in items : \/ other \notin queue /\ Target(it) = Target(other)
                               \/ IsStrictPrefix(Target(it), Target(other))
    BY <1>2 DEF HealthyInv
  <2>2. IsPrefix(Target(it), Target(other)) /\ Target(it) # Target(other)
    BY <1>1, <2>1, TargetsApart DEF IsStrictPrefix
  <2>3. it.src \in Files \cup Links
    BY <1>1, <1>2 DEF Linked, KindFits, Paths
  <2> QED
    BY <1>1, <2>2, <2>3, TargetsBelow
<1>3. ASSUME it.kind = "hardlink", Dest \o it.target \notin DOMAIN disk
      PROVE  FALSE
  <2>1. PICK f \in items : f.kind = "file" /\ f.path = it.target
    BY <1>1, <1>3, FirstItem
  <2>2. f \notin queue
    BY <1>3, <2>1, LinksComeLast
  <2>3. Restored(f)
    BY <1>1, <2>2 DEF RestoreInv, Healthy
  <2> QED
    BY <1>3, <2>1, <2>3 DEF Restored, HasNode, Target
<1> QED
  BY <1>2, <1>3 DEF Blocked

\* Errors are counted, and what is reported was counted.
LEMMA ErrorsCounted ==
  ASSUME Accounts, HealthyInv, [Next]_vars
  PROVE  (errors' = 0 => errors = 0) /\ (errors' = 0 => reported' = {})
<1>1. errors \in Nat
  BY DEF Accounts, BackupTypeOK
<1>2. CASE StartRoot
  <2>1. PICK lost \in SUBSET Walk(root + 1), blind \in SUBSET (Walk(root + 1) \cap Dirs) :
          /\ reported' = reported \cup lost \cup blind
          /\ errors' = errors + Cardinality(lost \cup blind)
    BY <1>2 DEF StartRoot
  <2>2. lost \cup blind \in SUBSET Paths
    BY DEF Walk
  <2>3. IsFiniteSet(lost \cup blind)
    BY <2>2, FileSystemAssumption, FS_Subset
  <2>4. Cardinality(lost \cup blind) \in Nat /\ (Cardinality(lost \cup blind) = 0 <=> lost \cup blind = {})
    BY <2>3, FS_CardinalityType, FS_EmptySet
  <2> QED
    BY <1>1, <2>1, <2>4 DEF HealthyInv
<1>3. ASSUME reported' = reported, errors' \in {errors, errors + 1}
      PROVE  (errors' = 0 => errors = 0) /\ (errors' = 0 => reported' = {})
  BY <1>1, <1>3 DEF HealthyInv
<1>4. ASSUME NEW p, Process(p)
      PROVE  (errors' = 0 => errors = 0) /\ (errors' = 0 => reported' = {})
  <2>1. errors' = errors + 1 \/ (errors' = errors /\ reported' = reported)
    BY <1>4 DEF Process, MetadataFails, ProcessPlain, ProcessHardlink, ProcessFile, ReadFails, Report
  <2> QED
    BY <1>1, <1>3, <2>1
<1>5. CASE Abort \/ Commit \/ Restore \/ UNCHANGED vars
  <2>1. reported' = reported /\ errors' \in {errors, errors + 1}
    BY <1>5 DEF Abort, Commit, Restore, Load, LoadOverStale, LoadFails, RestoreItem, Refuse, ItemFails,
                Dequeue, Finish, vars, backupVars
  <2> QED
    BY <1>3, <2>1
<1> QED
  BY <1>2, <1>4, <1>5 DEF Next, Backup

\* An item restored without an error.
LEMMA HealthyItem ==
  ASSUME Accounts, Linked, RestoreInv, HealthyInv, Healthy, NEW it \in queue, RestoreItem(it)
  PROVE  /\ failed' = {}
         /\ \A q \in DOMAIN disk' : \E x \in items' : \/ x \notin queue' /\ q = Target(x)'
                                                      \/ IsStrictPrefix(q, Target(x)')
         /\ \A x \in items' \ queue' : x.kind = "file" => disk'[Target(x)'].node = Target(x)'
<1>1. /\ UNCHANGED <<setup, items, request, failed>> /\ queue' = queue \ {it}
      /\ disk' = With(it, Node(it)) /\ queue \subseteq items
  BY SelectedAreItems DEF RestoreItem, Dequeue, RestoreInv, Healthy
<1>2. \A x : Target(x)' = Target(x)
  BY <1>1, SameRequest
<1>3. OnlyAt(Target(it)) /\ disk'[Target(it)] = Node(it)
  BY <1>1, WithChanges
<1>4. ASSUME NEW q \in DOMAIN disk'
      PROVE  \E x \in items' : (x \notin queue' /\ q = Target(x)) \/ IsStrictPrefix(q, Target(x))
  <2>1. CASE q \in DOMAIN disk
    BY <1>1, <2>1 DEF HealthyInv
  <2>2. CASE q = Target(it)
    BY <1>1, <2>2
  <2>3. CASE q \notin DOMAIN disk /\ q # Target(it)
    <3>1. q \in DOMAIN Mkdir(Front(Target(it)))
      BY <1>1, <2>3 DEF With
    <3>2. IsStrictPrefix(q, Target(it))
      BY <1>1, <2>3, <3>1, TargetIsSeq, MkdirAbove
    <3> QED
      BY <1>1, <3>2
  <2> QED
    BY <2>1, <2>2, <2>3
<1>5. ASSUME NEW x \in items, x \notin queue', x.kind = "file"
      PROVE  disk'[Target(x)].node = Target(x)
  <2>1. CASE x = it
    BY <1>3, <1>5, <2>1 DEF Node, FileNode
  <2>2. CASE x # it
    <3>1. x \notin queue /\ Target(x) # Target(it)
      BY <1>1, <1>5, <2>2, TargetsApart
    <3>2. Restored(x)
      BY <3>1 DEF RestoreInv, HealthyInv, Healthy, Selected
    <3>3. Target(x) \in DOMAIN disk
      BY <1>5, <3>2 DEF Restored, HasNode
    <3>4. disk'[Target(x)] = disk[Target(x)]
      BY <1>3, <3>1, <3>3 DEF OnlyAt
    <3> QED
      BY <1>5, <3>1, <3>4 DEF HealthyInv
  <2> QED
    BY <2>1, <2>2
<1> QED
  BY <1>1, <1>2, <1>4, <1>5 DEF HealthyInv

LEMMA HealthyStep ==
  Accounts /\ Linked /\ RestoreInv /\ HealthyInv /\ [Next]_vars => HealthyInv'
<1> SUFFICES ASSUME Accounts, Linked, RestoreInv, HealthyInv, [Next]_vars
             PROVE  HealthyInv'
  OBVIOUS
<1>1. errors' = 0 => errors = 0 /\ reported' = {}
  BY ErrorsCounted
<1>2. ASSUME Backup, UNCHANGED restoreVars
      PROVE  HealthyInv'
  <2>1. stage = "walk" /\ stage' \in {"walk", "stored", "aborted"}
    BY <1>2 DEF Backup, StartRoot, Process, MetadataFails, ProcessPlain, ProcessHardlink, ProcessFile,
                ReadFails, NextEntry, Abort, Commit
  <2> QED
    BY <1>1, <1>2, <2>1 DEF HealthyInv, Healthy, restoreVars
<1>3. CASE Load
  <2>1. /\ stage = "stored" /\ stage' = "restore" /\ UNCHANGED <<setup, items, disk, failed>>
        /\ queue' = Selected'
    BY <1>3 DEF Load
  <2>2. request'.mode = "all" => queue' = items'
    BY <2>1 DEF Selected
  <2> QED
    BY <1>1, <2>1, <2>2 DEF HealthyInv, Healthy
<1>4. CASE LoadOverStale
  <2>1. stage' = "restore" /\ request'.mode = "some"
    BY <1>4 DEF LoadOverStale
  <2> QED
    BY <1>1, <2>1 DEF HealthyInv, Healthy
<1>5. CASE LoadFails
  BY <1>1, <1>5 DEF LoadFails, HealthyInv, Healthy
<1>6. ASSUME UNCHANGED <<setup, items, request, disk, failed, queue>>,
             Healthy' => Healthy, stage' \in {"walk", "stored"} => stage \in {"walk", "stored"}
      PROVE  HealthyInv'
  <2>1. \A x : Target(x)' = Target(x)
    BY <1>6, SameRequest
  <2> QED
    BY <1>1, <1>6, <2>1 DEF HealthyInv
<1>7. CASE Finish
  BY <1>1, <1>6, <1>7 DEF Finish, restoreVars, Healthy
<1>8. CASE UNCHANGED vars
  BY <1>1, <1>6, <1>8 DEF vars, backupVars, Healthy
<1>9. ASSUME NEW it \in queue, RestoreItem(it) \/ Refuse(it) \/ ItemFails(it)
      PROVE  HealthyInv'
  <2>1. stage = "restore" /\ stage' = "restore" /\ request' = request /\ Next_item(it)
    BY <1>9 DEF RestoreItem, Refuse, ItemFails, Dequeue
  <2>2. CASE RestoreItem(it)
    <3>1. Healthy' => Healthy
      BY <1>1, <2>1 DEF Healthy
    <3> QED
      BY <1>1, <2>1, <2>2, <3>1, HealthyItem DEF HealthyInv
  <2>3. CASE Refuse(it)
    <3>1. Healthy' => Healthy
      BY <1>1, <2>1 DEF Healthy
    <3>2. ~Healthy
      BY <2>1, <2>3, NothingBlocks DEF Refuse
    <3> QED
      BY <1>1, <2>1, <3>1, <3>2 DEF HealthyInv
  <2>4. CASE ItemFails(it)
    <3>1. errors' # 0
      BY <2>4 DEF ItemFails, Accounts, BackupTypeOK
    <3> QED
      BY <2>1, <3>1 DEF HealthyInv, Healthy
  <2> QED
    BY <1>9, <2>2, <2>3, <2>4
<1> QED
  BY <1>2, <1>3, <1>4, <1>5, <1>7, <1>8, <1>9 DEF Next, Restore

\* A file that is not taken for another has the data of the item that has it.
LEMMA SameFile ==
  ASSUME Accounts, NEW p \in Files, NEW q \in Files, ~TakenForAnother(p),
         Nlink(p) > 1, Nlink(q) > 1, Inode(p) = Inode(q)
  PROVE  File(p) = File(q)
BY DEF TakenForAnother

LEMMA Representative ==
  ASSUME Accounts, Linked, reported = {}, NEW a \in items, a.src \in Files, ~TakenForAnother(a.src)
  PROVE  \E f \in items : /\ f.kind = "file" /\ f.src \in Files /\ File(f.src) = File(a.src)
                          /\ Nlink(a.src) > 1 => Nlink(f.src) > 1 /\ Inode(f.src) = Inode(a.src)
                          /\ \/ a = f
                             \/ a.kind = "hardlink" /\ a.target = f.path
<1>1. a.kind \in {"file", "hardlink"}
  BY FileSystemAssumption DEF Linked, KindFits, Kinds
<1>2. CASE a.kind = "file"
  BY <1>2
<1>3. CASE a.kind = "hardlink"
  <2>1. PICK f \in items : /\ f.kind = "file" /\ f.path = a.target /\ f.src \in Files
                           /\ Inode(f.src) = Inode(a.src) /\ Nlink(f.src) > 1
    BY <1>3, FirstItem
  <2>2. Nlink(a.src) > 1
    BY <1>3 DEF Linked, KindFits
  <2>3. File(f.src) = File(a.src)
    BY <2>1, <2>2, SameFile
  <2> QED
    BY <1>3, <2>1, <2>3
<1> QED
  BY <1>1, <1>2, <1>3

LEMMA HealthyIsTrue == Accounts /\ Linked /\ RestoreInv /\ HealthyInv => HealthyRestore
<1> SUFFICES ASSUME Accounts, Linked, RestoreInv, HealthyInv,
                    stage = "done", errors = 0, request.mode = "all"
             PROVE  /\ failed = {} /\ \A p \in Wanted : Mistaken(p) \/ \E it \in items : it.src = p
                    /\ \A a, b \in {it \in items : it.src \in Files /\ ~TakenForAnother(it.src)} :
                         /\ HasNode(Target(a), "file", File(a.src))
                         /\ a.src # b.src =>
                              (disk[Target(a)].node = disk[Target(b)].node <=> File(a.src) = File(b.src))
  BY DEF HealthyRestore
<1>1. /\ failed = {} /\ reported = {} /\ queue = {} /\ Selected = items
      /\ \A it \in items : it.kind = "file" => disk[Target(it)].node = Target(it)
  BY DEF HealthyInv, Healthy, RestoreInv, Selected
<1>2. \A it \in items : Restored(it)
  BY <1>1 DEF RestoreInv
<1>3. ASSUME NEW p \in Wanted, ~Mistaken(p)
      PROVE  \E it \in items : it.src = p
  <2>1. SetupOK /\ todo = {} /\ root = Len(Roots) /\ DOMAIN Roots = 1 .. root
    BY RootsArePaths DEF Accounts, BackupTypeOK, WalksOver
  <2>2. PICK i \in 1 .. root : p \in Walk(i)
    BY <1>3, <2>1, WantedIsWalked
  <2> QED
    BY <1>1, <2>1, <2>2 DEF Accounts, Accounted, HasItem, Above
<1>4. ASSUME NEW a \in items, a.src \in Files, ~TakenForAnother(a.src)
      PROVE  \E f \in items : /\ f.kind = "file" /\ f.src \in Files /\ File(f.src) = File(a.src)
                              /\ Nlink(a.src) > 1 => Nlink(f.src) > 1 /\ Inode(f.src) = Inode(a.src)
                              /\ HasNode(Target(a), "file", File(a.src))
                              /\ disk[Target(a)].node = Target(f)
  <2>1. PICK f \in items : /\ f.kind = "file" /\ f.src \in Files /\ File(f.src) = File(a.src)
                           /\ Nlink(a.src) > 1 => Nlink(f.src) > 1 /\ Inode(f.src) = Inode(a.src)
                           /\ \/ a = f
                              \/ a.kind = "hardlink" /\ a.target = f.path
    BY <1>1, <1>4, Representative
  <2>2. HasNode(Target(f), "file", File(f.src)) /\ disk[Target(f)].node = Target(f)
    BY <1>1, <1>2, <2>1 DEF Restored
  <2>3. CASE a = f
    BY <2>1, <2>2, <2>3
  <2>4. CASE a.kind = "hardlink" /\ a.target = f.path
    <3>1. Target(a) \in DOMAIN disk /\ disk[Target(a)] = disk[Target(f)]
      BY <1>2, <2>4 DEF Restored, Target
    <3>2. HasNode(Target(a), "file", File(a.src))
      BY <2>1, <2>2, <3>1 DEF HasNode
    <3> QED
      BY <2>1, <2>2, <3>1, <3>2
  <2> QED
    BY <2>1, <2>3, <2>4
<1>5. ASSUME NEW a \in items, a.src \in Files, ~TakenForAnother(a.src),
             NEW b \in items, b.src \in Files, ~TakenForAnother(b.src), a.src # b.src
      PROVE  disk[Target(a)].node = disk[Target(b)].node <=> File(a.src) = File(b.src)
  <2>1. PICK f \in items : /\ f.kind = "file" /\ f.src \in Files /\ File(f.src) = File(a.src)
                           /\ Nlink(a.src) > 1 => Nlink(f.src) > 1 /\ Inode(f.src) = Inode(a.src)
                           /\ disk[Target(a)].node = Target(f)
    BY <1>4, <1>5
  <2>2. PICK g \in items : /\ g.kind = "file" /\ g.src \in Files /\ File(g.src) = File(b.src)
                           /\ Nlink(b.src) > 1 => Nlink(g.src) > 1 /\ Inode(g.src) = Inode(b.src)
                           /\ disk[Target(b)].node = Target(g)
    BY <1>4, <1>5
  <2>3. Target(f) = Target(g) => f = g
    BY TargetsApart
  <2>4. ASSUME File(a.src) = File(b.src)
        PROVE  f = g
    <3>1. Nlink(a.src) > 1 /\ Nlink(b.src) > 1 /\ Inode(a.src) = Inode(b.src)
      BY <1>5, <2>4 DEF Accounts, BackupTypeOK, SetupOK, LinksOK
    <3> QED
      BY <2>1, <2>2, <3>1, OneFile
  <2> QED
    BY <2>1, <2>2, <2>3, <2>4
<1> QED
  BY <1>1, <1>3, <1>4, <1>5

\* Without errors every wanted file comes back with its data, and two are links of one
\* file if and only if they were, but those the code mistakes for others.
THEOREM HealthyRestoreCorrect == Spec => []HealthyRestore
<1>1. RestoreInit => RestoreInv /\ HealthyInv
  <2>1. RestoreInit => DOMAIN disk = {}
    BY DEF RestoreInit
  <2> QED
    BY <2>1 DEF RestoreInit, Init, RestoreInv, HealthyInv, Healthy
<1> QED
  BY <1>1, RestoreStep, HealthyStep, HealthyIsTrue, LinkedCorrect, PTL DEF Spec

-------------------------------------------------------------------------------
(***************************************************************************)
(* The catalog: sequences made of finite sets                              *)
(***************************************************************************)

LEMMA SetToSeqIs ==
  ASSUME NEW S, IsFiniteSet(S)
  PROVE  /\ SetToSeq(S) \in Seq(S) /\ Len(SetToSeq(S)) = Cardinality(S)
         /\ \A x \in S : \E i \in 1 .. Len(SetToSeq(S)) : SetToSeq(S)[i] = x
<1> DEFINE n == Cardinality(S)
           f == SetToSeq(S)
<1>1. n \in Nat /\ ExistsBijection(1 .. n, S)
  BY FS_CardinalityType
<1>2. \E h \in [1 .. n -> S] : IsInjective(h)
  BY <1>1 DEF ExistsBijection, Bijection, Injection
<1>3. f \in [1 .. n -> S] /\ IsInjective(f)
  BY <1>2 DEF SetToSeq
<1>4. f \in Injection(1 .. n, S)
  BY <1>3 DEF Injection
<1>5. IsFiniteSet(1 .. n) /\ Cardinality(1 .. n) = n
  BY <1>1, FS_Interval
<1> HIDE DEF f
<1>6. f \in Surjection(1 .. n, S)
  BY <1>4, <1>5, FS_Injection
<1>7. \A x \in S : \E i \in 1 .. n : f[i] = x
  BY <1>6 DEF Surjection
<1>8. f \in Seq(S) /\ Len(f) = n
  BY <1>1, <1>3
<1> QED
  BY <1>7, <1>8 DEF f

-------------------------------------------------------------------------------
(***************************************************************************)
(* Counting up, and sequences made of others                               *)
(***************************************************************************)

LEMMA UpTo ==
  ASSUME NEW N \in Nat, NEW S, 0 \in S,
         \A n \in 0 .. N - 1 : n \in S => n + 1 \in S
  PROVE  \A n \in 0 .. N : n \in S
<1> DEFINE bad == {n \in 0 .. N : n \notin S}
<1>1. bad = {}
  <2> SUFFICES ASSUME bad # {} PROVE FALSE
    OBVIOUS
  <2>1. bad \in SUBSET Nat
    OBVIOUS
  <2> HIDE DEF bad
  <2>2. PICK n \in bad : \A m \in bad : n <= m
    BY <2>1, LeastNumber
  <2>3. n \in 0 .. N /\ n \notin S /\ n # 0
    BY DEF bad
  <2>4. n - 1 \in 0 .. N - 1 /\ (n - 1) + 1 = n /\ ~ (n <= n - 1)
    BY <2>3
  <2>5. n - 1 \in S
    BY <2>2, <2>4 DEF bad
  <2> QED
    BY <2>3, <2>4, <2>5
<1> QED
  BY <1>1

LEMMA Joined ==
  ASSUME NEW U, NEW s \in Seq(U), NEW t \in Seq(U)
  PROVE  /\ s \o t \in Seq(U)
         /\ \A m, n \in Nat : m = Len(s) /\ n = Len(t) =>
              /\ Len(s \o t) = m + n
              /\ \A i \in 1 .. m : (s \o t)[i] = s[i]
              /\ \A i \in 1 .. n : (s \o t)[m + i] = t[i]
<1>1. /\ s \o t \in Seq(U) /\ Len(s \o t) = Len(s) + Len(t)
      /\ \A i \in 1 .. Len(s) + Len(t) : (s \o t)[i] = IF i <= Len(s) THEN s[i] ELSE t[i - Len(s)]
  BY ConcatProperties
<1> SUFFICES ASSUME NEW m \in Nat, NEW n \in Nat, m = Len(s), n = Len(t)
             PROVE  /\ Len(s \o t) = m + n
                    /\ \A i \in 1 .. m : (s \o t)[i] = s[i]
                    /\ \A i \in 1 .. n : (s \o t)[m + i] = t[i]
  BY <1>1
<1>2. /\ Len(s \o t) = m + n
      /\ \A i \in 1 .. m + n : (s \o t)[i] = IF i <= m THEN s[i] ELSE t[i - m]
  BY <1>1
<1>3. /\ \A i \in 1 .. m : i \in 1 .. m + n /\ i <= m
      /\ \A i \in 1 .. n : m + i \in 1 .. m + n /\ ~ (m + i <= m) /\ (m + i) - m = i
  OBVIOUS
<1> QED
  BY <1>2, <1>3

\* What a list of sequences comes to, one after the other: the i-th goes from
\* after[i - 1] + 1 to after[i].
Laid(seqs, flat, after) ==
  /\ after[0] = 0 /\ after[Len(seqs)] = Len(flat)
  /\ \A i \in 1 .. Len(seqs) :
       /\ after[i] = after[i - 1] + Len(seqs[i])
       /\ \A m \in 1 .. Len(seqs[i]) : flat[after[i - 1] + m] = seqs[i][m]

FlattenStep(seqs, f, i) == IF i = 1 THEN seqs[i] ELSE f[i - 1] \o seqs[i]

LEMMA FlattenSolution ==
  ASSUME NEW U, NEW seqs \in Seq(Seq(U))
  PROVE  \E f \in [1 .. Len(seqs) -> Seq(U)] : f = [i \in 1 .. Len(seqs) |-> FlattenStep(seqs, f, i)]
<1> DEFINE N == Len(seqs)
           Solves(n) == \E f \in [1 .. n -> Seq(U)] : \A i \in 1 .. n : f[i] = FlattenStep(seqs, f, i)
           S == {n \in 0 .. N : Solves(n)}
<1>1. N \in Nat /\ \A i \in 1 .. N : seqs[i] \in Seq(U)
  BY LenProperties, ElementOfSeq
<1>2. 0 \in S
  <2>1. [i \in 1 .. 0 |-> << >>] \in [1 .. 0 -> Seq(U)]
    BY EmptySeq
  <2>2. \A i \in 1 .. 0 : FALSE
    OBVIOUS
  <2>3. Solves(0)
    BY <2>1, <2>2
  <2> HIDE DEF Solves
  <2> QED
    BY <1>1, <2>3
<1>3. ASSUME NEW n \in 0 .. N - 1, n \in S
      PROVE  n + 1 \in S
  <2>1. PICK f \in [1 .. n -> Seq(U)] : \A i \in 1 .. n : f[i] = FlattenStep(seqs, f, i)
    BY <1>3
  <2> DEFINE last == IF n = 0 THEN seqs[1] ELSE f[n] \o seqs[n + 1]
             g == [i \in 1 .. n + 1 |-> IF i = n + 1 THEN last ELSE f[i]]
  <2>2. n \in Nat /\ n + 1 \in 1 .. N /\ n + 1 \in 0 .. N
    BY <1>1
  <2>3. last \in Seq(U)
    <3>1. CASE n = 0
      BY <1>1, <2>2, <3>1
    <3>2. CASE n # 0
      <4>1. f[n] \in Seq(U) /\ seqs[n + 1] \in Seq(U)
        BY <1>1, <2>2, <3>2
      <4> QED
        BY <3>2, <4>1, ConcatProperties
    <3> QED
      BY <3>1, <3>2
  <2> HIDE DEF last
  <2>4. g \in [1 .. n + 1 -> Seq(U)]
    <3>1. \A i \in 1 .. n + 1 : i # n + 1 => i \in 1 .. n
      BY <2>2
    <3> QED
      BY <2>3, <3>1
  <2>5. /\ \A i \in 1 .. n : g[i] = f[i]
        /\ g[n + 1] = last
    BY <2>2
  <2> HIDE DEF g
  <2>6. ASSUME NEW i \in 1 .. n + 1
        PROVE  g[i] = FlattenStep(seqs, g, i)
    <3>1. CASE i = n + 1 /\ n = 0
      BY <2>5, <3>1 DEF last, FlattenStep
    <3>2. CASE i = n + 1 /\ n # 0
      <4>1. i - 1 = n /\ n \in 1 .. n /\ i # 1
        BY <2>2, <3>2
      <4>2. g[i - 1] = f[n]
        BY <2>5, <4>1
      <4> QED
        BY <2>5, <3>2, <4>1, <4>2 DEF last, FlattenStep
    <3>3. CASE i \in 1 .. n
      <4>1. i = 1 \/ i - 1 \in 1 .. n
        BY <2>2, <3>3
      <4> QED
        BY <2>1, <2>5, <3>3, <4>1 DEF FlattenStep
    <3> QED
      BY <2>2, <3>1, <3>2, <3>3
  <2> QED
    BY <2>2, <2>4, <2>6
<1>4. N \in S
  <2> HIDE DEF S
  <2>1. \A n \in 0 .. N : n \in S
    BY <1>1, <1>2, <1>3, UpTo
  <2> QED
    BY <1>1, <2>1
<1>5. PICK f \in [1 .. N -> Seq(U)] : \A i \in 1 .. N : f[i] = FlattenStep(seqs, f, i)
  BY <1>4
<1>6. f = [i \in 1 .. N |-> FlattenStep(seqs, f, i)]
  BY <1>5
<1> QED
  BY <1>6

LEMMA FlattenIs ==
  ASSUME NEW U, NEW seqs \in Seq(Seq(U))
  PROVE  /\ FlattenSeq(seqs) \in Seq(U)
         /\ \E after \in [0 .. Len(seqs) -> Nat] : Laid(seqs, FlattenSeq(seqs), after)
<1> DEFINE N == Len(seqs)
<1>1. N \in Nat /\ \A i \in 1 .. N : seqs[i] \in Seq(U) /\ Len(seqs[i]) \in Nat
  BY LenProperties, ElementOfSeq
<1>2. CASE N = 0
  <2>1. FlattenSeq(seqs) = seqs /\ seqs = << >>
    BY <1>2, EmptySeq DEF FlattenSeq
  <2>2. [i \in 0 .. N |-> 0] \in [0 .. N -> Nat] /\ Laid(seqs, << >>, [i \in 0 .. N |-> 0])
    BY <1>2, <2>1 DEF Laid
  <2> QED
    BY <2>1, <2>2, EmptySeq
<1>3. CASE N # 0
  <2> DEFINE h == CHOOSE f : f = [i \in 1 .. N |-> IF i = 1 THEN seqs[i] ELSE f[i - 1] \o seqs[i]]
             flat == FlattenSeq(seqs)
             after == [i \in 0 .. N |-> IF i = 0 THEN 0 ELSE Len(h[i])]
  <2>1. flat = h[N]
    BY <1>3 DEF FlattenSeq
  <2>2. h = [i \in 1 .. N |-> FlattenStep(seqs, h, i)]
    <3>1. PICK f \in [1 .. N -> Seq(U)] : f = [i \in 1 .. N |-> FlattenStep(seqs, f, i)]
      BY FlattenSolution
    <3>2. f = [i \in 1 .. N |-> IF i = 1 THEN seqs[i] ELSE f[i - 1] \o seqs[i]]
      BY <3>1 DEF FlattenStep
    <3> HIDE DEF N
    <3> QED
      BY <3>2 DEF FlattenStep
  <2> HIDE DEF h, flat
  <2>3. h[1] = seqs[1] /\ \A i \in 1 .. N : i # 1 => h[i] = h[i - 1] \o seqs[i]
    <3>1. \A i \in 1 .. N : h[i] = FlattenStep(seqs, h, i)
      BY <2>2
    <3>2. 1 \in 1 .. N
      BY <1>1, <1>3
    <3> QED
      BY <3>1, <3>2 DEF FlattenStep
  <2> DEFINE Sound(n) ==
        /\ h[n] \in Seq(U)
        /\ \A i \in 1 .. n : after[i] = after[i - 1] + Len(seqs[i]) /\ after[i] <= after[n]
        /\ \A i \in 1 .. n : \A m \in 1 .. Len(seqs[i]) : h[n][after[i - 1] + m] = seqs[i][m]
             S == {0} \cup {n \in 1 .. N : Sound(n)}
  <2>4. after[0] = 0 /\ \A i \in 1 .. N : after[i] = Len(h[i])
    BY <1>1
  <2> HIDE DEF after
  <2>5. ASSUME NEW n \in 0 .. N - 1, n \in S
        PROVE  n + 1 \in S
    <3>1. n \in Nat /\ n + 1 \in 1 .. N
      BY <1>1
    <3>2. CASE n = 0
      <4>1. h[1] \in Seq(U) /\ after[1] = Len(seqs[1]) /\ after[1] \in Nat /\ 1 \in 1 .. N
        BY <1>1, <2>3, <2>4, <3>1, <3>2
      <4>2. \A m \in 1 .. Len(seqs[1]) : h[1][after[0] + m] = seqs[1][m]
        <5>1. \A m \in 1 .. Len(seqs[1]) : after[0] + m = m
          BY <1>1, <2>4, <4>1
        <5> QED
          BY <2>3, <5>1
      <4>3. \A i \in 1 .. 1 : i = 1 /\ i - 1 = 0
        OBVIOUS
      <4>4. after[1] = after[0] + Len(seqs[1]) /\ after[1] <= after[1]
        BY <2>4, <4>1
      <4>5. Sound(1)
        BY <4>1, <4>2, <4>3, <4>4
      <4>6. n + 1 = 1
        BY <3>2
      <4> HIDE DEF Sound
      <4> QED
        BY <4>1, <4>5, <4>6
    <3>3. CASE n # 0
      <4>1. Sound(n) /\ n \in 1 .. N
        BY <1>1, <2>5, <3>1, <3>3
      <4>2. h[n + 1] = h[n] \o seqs[n + 1] /\ (n + 1) - 1 = n
        <5>1. (n + 1) - 1 = n /\ n + 1 # 1
          BY <3>1, <3>3
        <5> QED
          BY <2>3, <3>1, <5>1
      <4>3. h[n] \in Seq(U) /\ seqs[n + 1] \in Seq(U)
        BY <1>1, <3>1, <4>1
      <4>4. /\ h[n + 1] \in Seq(U)
            /\ Len(h[n + 1]) = Len(h[n]) + Len(seqs[n + 1])
            /\ \A k \in 1 .. Len(h[n]) + Len(seqs[n + 1]) :
                 h[n + 1][k] = IF k <= Len(h[n]) THEN h[n][k] ELSE seqs[n + 1][k - Len(h[n])]
        <5>1. \A s, t \in Seq(U) : \A x : x = s \o t =>
                /\ x \in Seq(U)
                /\ Len(x) = Len(s) + Len(t)
                /\ \A k \in 1 .. Len(s) + Len(t) : x[k] = IF k <= Len(s) THEN s[k] ELSE t[k - Len(s)]
          BY ConcatProperties
        <5>2. \A x : x = h[n] \o seqs[n + 1] =>
                /\ x \in Seq(U)
                /\ Len(x) = Len(h[n]) + Len(seqs[n + 1])
                /\ \A k \in 1 .. Len(h[n]) + Len(seqs[n + 1]) :
                     x[k] = IF k <= Len(h[n]) THEN h[n][k] ELSE seqs[n + 1][k - Len(h[n])]
          BY <4>3, <5>1, Zenon
        <5>3. h[n + 1] = h[n] \o seqs[n + 1]
          BY <4>2
        <5> QED
          BY <5>2, <5>3, Zenon
      <4>5. /\ Len(h[n]) \in Nat /\ Len(seqs[n + 1]) \in Nat
            /\ after[n] = Len(h[n]) /\ after[n + 1] = after[n] + Len(seqs[n + 1])
        BY <1>1, <2>4, <3>1, <4>1, <4>3, <4>4, LenProperties
      <4>6. \A i \in 1 .. n + 1 : i = n + 1 \/ i \in 1 .. n
        BY <3>1
      <4>7. ASSUME NEW i \in 1 .. n
            PROVE  /\ after[i] = after[i - 1] + Len(seqs[i]) /\ after[i] <= after[n + 1]
                   /\ \A m \in 1 .. Len(seqs[i]) : h[n + 1][after[i - 1] + m] = seqs[i][m]
        <5>1. i \in 1 .. N /\ (i = 1 \/ i - 1 \in 1 .. n)
          BY <3>1, <1>1
        <5>2. after[i] = after[i - 1] + Len(seqs[i]) /\ after[i] <= after[n] /\ Len(seqs[i]) \in Nat
          BY <1>1, <4>1, <5>1
        <5>3. after[i - 1] \in Nat /\ after[i] \in Nat
          <6>1. i = 1 => after[i - 1] = 0
            BY <2>4
          <6>2. \A j \in 1 .. n : after[j] \in Nat
            <7>1. \A j \in 1 .. n : after[j] = Len(h[j]) /\ j \in 1 .. N
              BY <1>1, <2>4, <3>1
            <7>2. \A j \in 1 .. n : after[j] = after[j - 1] + Len(seqs[j])
              BY <4>1
            <7> DEFINE T == {j \in 0 .. n : after[j] \in Nat}
            <7>3. 0 \in T
              BY <2>4, <3>1
            <7>4. \A j \in 0 .. n - 1 : j \in T => j + 1 \in T
              <8>1. \A j \in 0 .. n - 1 : j + 1 \in 1 .. n /\ (j + 1) - 1 = j /\ j + 1 \in 0 .. n
                BY <3>1
              <8>2. \A j \in 1 .. n : Len(seqs[j]) \in Nat
                BY <1>1, <7>1
              <8>3. \A j \in 0 .. n - 1 : after[j + 1] = after[j] + Len(seqs[j + 1])
                BY <7>2, <8>1
              <8>4. \A a, b \in Nat : a + b \in Nat
                OBVIOUS
              <8> QED
                BY <8>1, <8>2, <8>3, <8>4
            <7> HIDE DEF T
            <7>5. \A j \in 0 .. n : j \in T
              BY <3>1, <7>3, <7>4, UpTo
            <7> QED
              BY <7>5 DEF T
          <6> QED
            BY <5>1, <6>1, <6>2
        <5>4. \A m \in 1 .. Len(seqs[i]) : after[i - 1] + m \in 1 .. Len(h[n])
          <6>1. \A a, b, c, e \in Nat : e = a + c /\ e <= b => \A m \in 1 .. c : a + m \in 1 .. b
            OBVIOUS
          <6>2. after[i] <= Len(h[n])
            BY <4>5, <5>2
          <6> HIDE DEF N
          <6> QED
            BY <4>5, <5>2, <5>3, <6>1, <6>2
        <5>5. \A m \in 1 .. Len(seqs[i]) : h[n + 1][after[i - 1] + m] = h[n][after[i - 1] + m]
          <6>1. \A k \in 1 .. Len(h[n]) : k \in 1 .. Len(h[n]) + Len(seqs[n + 1]) /\ k <= Len(h[n])
            <7>1. \A a, b \in Nat : \A k \in 1 .. a : k \in 1 .. a + b /\ k <= a
              OBVIOUS
            <7> QED
              BY <4>5, <7>1
          <6> QED
            BY <4>4, <5>4, <6>1
        <5>6. after[i] <= after[n + 1]
          <6>1. \A a, b, c, e \in Nat : a <= b /\ e = b + c => a <= e
            OBVIOUS
          <6>2. after[n] \in Nat /\ after[n + 1] \in Nat
            <7>1. after[n] \in Nat
              BY <4>5, Zenon
            <7>2. \A a, b \in Nat : a + b \in Nat
              OBVIOUS
            <7>3. after[n] + Len(seqs[n + 1]) \in Nat
              BY <4>5, <7>1, <7>2, Zenon
            <7> QED
              BY <4>5, <7>1, <7>3, Zenon
          <6> QED
            BY <4>5, <5>2, <5>3, <6>1, <6>2
        <5> QED
          BY <4>1, <5>2, <5>5, <5>6
      <4>8. \A m \in 1 .. Len(seqs[n + 1]) : h[n + 1][after[n] + m] = seqs[n + 1][m]
        <5>1. \A a, b \in Nat : \A m \in 1 .. b :
                a + m \in 1 .. a + b /\ ~ (a + m <= a) /\ (a + m) - a = m
          OBVIOUS
        <5> HIDE DEF N
        <5> QED
          BY <4>4, <4>5, <5>1
      <4>9. after[n + 1] <= after[n + 1]
        BY <4>5
      <4>10. Sound(n + 1)
        BY <4>2, <4>4, <4>5, <4>6, <4>7, <4>8, <4>9
      <4> HIDE DEF Sound
      <4> QED
        BY <3>1, <4>10
    <3> QED
      BY <3>2, <3>3
  <2>6. N \in S
    <3>1. 0 \in S
      OBVIOUS
    <3> HIDE DEF S
    <3>2. \A n \in 0 .. N : n \in S
      BY <1>1, <2>5, <3>1, UpTo
    <3> QED
      BY <1>1, <3>2
  <2>7. Sound(N)
    BY <1>3, <2>6
  <2>8. after \in [0 .. N -> Nat]
    <3>1. \A i \in 0 .. N : after[i] \in Nat
      <4> DEFINE T == {j \in 0 .. N : after[j] \in Nat}
      <4>1. 0 \in T
        BY <1>1, <2>4
      <4>2. \A j \in 0 .. N - 1 : j \in T => j + 1 \in T
        <5>1. \A j \in 0 .. N - 1 : j + 1 \in 1 .. N /\ (j + 1) - 1 = j /\ j + 1 \in 0 .. N
          BY <1>1
        <5>2. \A j \in 0 .. N - 1 : after[j + 1] = after[j] + Len(seqs[j + 1])
          BY <2>7, <5>1
        <5>3. \A a, b \in Nat : a + b \in Nat
          OBVIOUS
        <5> QED
          BY <1>1, <5>1, <5>2, <5>3
      <4> HIDE DEF T
      <4>3. \A j \in 0 .. N : j \in T
        BY <1>1, <4>1, <4>2, UpTo
      <4> QED
        BY <4>3 DEF T
    <3> QED
      BY <3>1 DEF after
  <2>9. Laid(seqs, flat, after)
    BY <1>1, <1>3, <2>1, <2>4, <2>7 DEF Laid
  <2>10. flat \in Seq(U)
    BY <2>1, <2>7
  <2> HIDE DEF after
  <2> QED
    BY <2>8, <2>9, <2>10 DEF flat
<1> QED
  BY <1>2, <1>3

-------------------------------------------------------------------------------
(***************************************************************************)
(* Keys                                                                    *)
(***************************************************************************)

Chars == STRING \cup {":"} \cup {Lower(c) : c \in STRING}

\* The key looks like one of the archive of this name.
Under(name, k) == IsPrefix(Key(name, << >>), k)

LEMMA KeyIs ==
  ASSUME NEW a \in Seq(Chars), NEW b \in Seq(Chars)
  PROVE  /\ Key(a, b) \in Seq(Chars)
         /\ Len(Key(a, b)) = Len(a) + 1 + Len(b)
         /\ \A i \in 1 .. Len(a) : Key(a, b)[i] = a[i]
         /\ Key(a, b)[Len(a) + 1] = ":"
         /\ \A i \in 1 .. Len(b) : Key(a, b)[Len(a) + 1 + i] = b[i]
<1> DEFINE c == a \o <<":">>
<1>1. <<":">> \in Seq(Chars) /\ Len(<<":">>) = 1 /\ <<":">>[1] = ":"
  <2>1. ":" \in Chars
    BY DEF Chars
  <2>2. \A x \in Chars : <<x>> \in Seq(Chars) /\ Len(<<x>>) = 1 /\ <<x>>[1] = x
    OBVIOUS
  <2> QED
    BY <2>1, <2>2
<1>2. Len(a) \in Nat /\ Len(b) \in Nat
  BY LenProperties
<1>3. /\ c \in Seq(Chars) /\ Len(c) = Len(a) + 1
      /\ \A i \in 1 .. Len(a) + 1 : c[i] = IF i <= Len(a) THEN a[i] ELSE <<":">>[i - Len(a)]
  BY <1>1, ConcatProperties
<1>4. (\A i \in 1 .. Len(a) : c[i] = a[i]) /\ c[Len(a) + 1] = ":"
  <2>1. c[Len(a) + 1] = <<":">>[(Len(a) + 1) - Len(a)] /\ (Len(a) + 1) - Len(a) = 1
    BY <1>2, <1>3
  <2> HIDE DEF c
  <2> QED
    BY <1>1, <1>2, <1>3, <2>1
<1> HIDE DEF c
<1>5. /\ c \o b \in Seq(Chars) /\ Len(c \o b) = Len(c) + Len(b)
      /\ \A i \in 1 .. Len(c) + Len(b) : (c \o b)[i] = IF i <= Len(c) THEN c[i] ELSE b[i - Len(c)]
  <2>1. \A s, t \in Seq(Chars) :
          /\ s \o t \in Seq(Chars) /\ Len(s \o t) = Len(s) + Len(t)
          /\ \A i \in 1 .. Len(s) + Len(t) : (s \o t)[i] = IF i <= Len(s) THEN s[i] ELSE t[i - Len(s)]
    BY ConcatProperties
  <2> QED
    BY <1>3, <2>1, Zenon
<1>6. Key(a, b) = c \o b
  BY DEF Key, c
<1>7. /\ \A i \in 1 .. Len(a) + 1 : i <= Len(c) /\ i \in 1 .. Len(c) + Len(b)
      /\ \A i \in 1 .. Len(b) : /\ Len(a) + 1 + i \in 1 .. Len(c) + Len(b)
                                /\ ~ (Len(a) + 1 + i <= Len(c))
                                /\ (Len(a) + 1 + i) - Len(c) = i
  BY <1>2, <1>3
<1>8. \A i \in 1 .. Len(a) + 1 : Key(a, b)[i] = c[i]
  BY <1>5, <1>6, <1>7
<1>9. \A i \in 1 .. Len(b) : Key(a, b)[Len(a) + 1 + i] = b[i]
  BY <1>5, <1>6, <1>7
<1>10. Len(Key(a, b)) = Len(a) + 1 + Len(b)
  BY <1>3, <1>5, <1>6
<1>11. (\A i \in 1 .. Len(a) : i \in 1 .. Len(a) + 1) /\ Len(a) + 1 \in 1 .. Len(a) + 1
  BY <1>2
<1> QED
  BY <1>4, <1>5, <1>6, <1>8, <1>9, <1>10, <1>11

LEMMA KeyUnderItsName ==
  ASSUME NEW n \in Seq(Chars), NEW p \in Seq(Chars)
  PROVE  Under(n, Key(n, p)) /\ IsPrefix(n, Key(n, << >>))
<1>1. << >> \in Seq(Chars) /\ Len(<< >>) = 0 /\ Len(n) \in Nat /\ Len(p) \in Nat
  BY EmptySeq, LenProperties
<1>2. /\ Key(n, << >>) \in Seq(Chars) /\ Len(Key(n, << >>)) = Len(n) + 1
      /\ \A i \in 1 .. Len(n) : Key(n, << >>)[i] = n[i]
      /\ Key(n, << >>)[Len(n) + 1] = ":"
  <2>1. Len(Key(n, << >>)) = Len(n) + 1 + Len(<< >>)
    BY <1>1, KeyIs
  <2>2. \A a, c \in Nat : c = 0 => a + 1 + c = a + 1
    OBVIOUS
  <2>3. Len(Key(n, << >>)) = Len(n) + 1
    BY <1>1, <2>1, <2>2
  <2> QED
    BY <1>1, <2>3, KeyIs
<1>3. /\ Key(n, p) \in Seq(Chars) /\ Len(Key(n, p)) = Len(n) + 1 + Len(p)
      /\ \A i \in 1 .. Len(n) : Key(n, p)[i] = n[i]
      /\ Key(n, p)[Len(n) + 1] = ":"
  BY KeyIs
<1>4. \A i \in 1 .. Len(n) + 1 : i \in 1 .. Len(n) \/ i = Len(n) + 1
  BY <1>1
<1>5. \A i \in 1 .. Len(Key(n, << >>)) : Key(n, << >>)[i] = Key(n, p)[i]
  BY <1>2, <1>3, <1>4
<1>6. Len(Key(n, << >>)) <= Len(Key(n, p)) /\ Len(n) <= Len(Key(n, << >>))
  BY <1>1, <1>2, <1>3
<1> QED
  BY <1>2, <1>3, <1>5, <1>6, Prefix DEF Under

LEMMA NameKey ==
  ASSUME NEW n \in Seq(Chars)
  PROVE  Key(n, << >>) \in Seq(Chars) /\ Len(Key(n, << >>)) \in Nat
BY EmptySeq, KeyIs, LenProperties

LEMMA UnderBoth ==
  ASSUME NEW m \in Seq(Chars), NEW n \in Seq(Chars), NEW k \in Seq(Chars), Under(m, k), Under(n, k)
  PROVE  Clash(m, n)
<1> DEFINE s == Key(m, << >>)
           t == Key(n, << >>)
<1>1. s \in Seq(Chars) /\ t \in Seq(Chars) /\ Len(s) \in Nat /\ Len(t) \in Nat
  BY NameKey
<1>2. IsPrefix(s, k) /\ IsPrefix(t, k)
  BY DEF Under
<1>3. IsPrefix(s, t) \/ IsPrefix(t, s)
  <2> HIDE DEF s, t
  <2>1. Len(s) <= Len(t) \/ Len(t) <= Len(s)
    BY <1>1
  <2> QED
    BY <1>1, <1>2, <2>1, PrefixesNested
<1> QED
  BY <1>3 DEF Clash

LEMMA UnderLonger ==
  ASSUME NEW m \in Seq(Chars), NEW n \in Seq(Chars), NEW k \in Seq(Chars),
         IsPrefix(Key(m, << >>), n), Under(n, k)
  PROVE  Under(m, k)
<1>1. Key(m, << >>) \in Seq(Chars) /\ Key(n, << >>) \in Seq(Chars)
  BY NameKey
<1>2. IsPrefix(n, Key(n, << >>))
  BY EmptySeq, KeyUnderItsName
<1>3. IsPrefix(n, k)
  BY <1>1, <1>2, PrefixTransitive DEF Under
<1> QED
  BY <1>1, <1>3, PrefixTransitive DEF Under

LEMMA ClashItself ==
  ASSUME NEW n \in Seq(Chars)
  PROVE  Clash(n, n)
BY NameKey, PrefixOfItself DEF Clash

LEMMA KeyCancels ==
  ASSUME NEW n \in Seq(Chars), NEW p \in Seq(Chars), NEW q \in Seq(Chars), Key(n, p) = Key(n, q)
  PROVE  p = q
<1>1. Len(n) \in Nat /\ Len(p) \in Nat /\ Len(q) \in Nat
  BY LenProperties
<1>2. Len(n) + 1 + Len(p) = Len(n) + 1 + Len(q)
  <2>1. Len(Key(n, p)) = Len(n) + 1 + Len(p)
    BY KeyIs
  <2>2. Len(Key(n, q)) = Len(n) + 1 + Len(q)
    BY KeyIs
  <2> QED
    BY <2>1, <2>2
<1>3. Len(p) = Len(q)
  BY <1>1, <1>2
<1>4. \A i \in 1 .. Len(p) : p[i] = Key(n, p)[Len(n) + 1 + i]
  BY KeyIs
<1>5. \A i \in 1 .. Len(p) : q[i] = Key(n, p)[Len(n) + 1 + i]
  <2>1. \A i \in 1 .. Len(q) : q[i] = Key(n, q)[Len(n) + 1 + i]
    BY KeyIs
  <2> QED
    BY <1>3, <2>1
<1> QED
  BY <1>3, <1>4, <1>5, SeqEqual

LEMMA ReverseIs ==
  ASSUME NEW U, NEW s \in Seq(U)
  PROVE  /\ Reverse(s) \in Seq(U) /\ Len(Reverse(s)) = Len(s)
         /\ \A i \in 1 .. Len(s) : Reverse(s)[i] = s[Len(s) - i + 1]
<1>1. PICK n \in Nat : n = Len(s)
  BY LenProperties
<1>2. \A i \in 1 .. n : n - i + 1 \in 1 .. n
  OBVIOUS
<1>3. \A i \in 1 .. n : s[n - i + 1] \in U
  BY <1>1, <1>2, ElementOfSeq
<1>4. [i \in 1 .. n |-> s[n - i + 1]] \in Seq(U) /\ Len([i \in 1 .. n |-> s[n - i + 1]]) = n
  BY <1>3
<1>5. Reverse(s) = [i \in 1 .. n |-> s[n - i + 1]]
  BY <1>1 DEF Reverse
<1> QED
  BY <1>1, <1>4, <1>5

LEMMA KeyEndsInName ==
  ASSUME NEW p \in Seq(Chars), NEW n \in Seq(Chars)
  PROVE  IsSuffix(Key(<< >>, n), Key(p, n))
<1> DEFINE s == Key(<< >>, n)
           t == Key(p, n)
           L == Len(n)
           P == Len(p)
<1>1. L \in Nat /\ P \in Nat /\ << >> \in Seq(Chars) /\ Len(<< >>) = 0
  BY LenProperties, EmptySeq
<1>2. /\ s \in Seq(Chars) /\ Len(s) = L + 1
      /\ s[1] = ":" /\ \A i \in 1 .. L : s[1 + i] = n[i]
  <2>1. /\ s \in Seq(Chars) /\ Len(s) = 0 + 1 + L
        /\ s[0 + 1] = ":" /\ \A i \in 1 .. L : s[0 + 1 + i] = n[i]
    BY <1>1, KeyIs
  <2> HIDE DEF s, L
  <2> QED
    BY <1>1, <2>1
<1>3. /\ t \in Seq(Chars) /\ Len(t) = P + 1 + L
      /\ t[P + 1] = ":" /\ \A i \in 1 .. L : t[P + 1 + i] = n[i]
  BY KeyIs
<1> HIDE DEF s, t, L, P
<1>4. \A j \in 1 .. L + 1 : s[j] = t[P + j]
  <2>1. \A j \in 1 .. L + 1 : j = 1 \/ (j - 1 \in 1 .. L /\ 1 + (j - 1) = j /\ P + 1 + (j - 1) = P + j)
    BY <1>1
  <2> QED
    BY <1>2, <1>3, <2>1
<1>5. L + 1 \in Nat /\ P + 1 + L \in Nat
  BY <1>1
<1>6. /\ Reverse(s) \in Seq(Chars) /\ Len(Reverse(s)) = L + 1
      /\ \A i \in 1 .. L + 1 : Reverse(s)[i] = s[(L + 1) - i + 1]
      /\ Reverse(t) \in Seq(Chars) /\ Len(Reverse(t)) = P + 1 + L
      /\ \A i \in 1 .. P + 1 + L : Reverse(t)[i] = t[(P + 1 + L) - i + 1]
  <2>1. /\ Reverse(s) \in Seq(Chars) /\ Len(Reverse(s)) = Len(s)
        /\ \A i \in 1 .. Len(s) : Reverse(s)[i] = s[Len(s) - i + 1]
    BY <1>2, ReverseIs
  <2>2. /\ Reverse(t) \in Seq(Chars) /\ Len(Reverse(t)) = Len(t)
        /\ \A i \in 1 .. Len(t) : Reverse(t)[i] = t[Len(t) - i + 1]
    BY <1>3, ReverseIs
  <2> QED
    BY <1>2, <1>3, <2>1, <2>2
<1>7. \A i \in 1 .. L + 1 : Reverse(s)[i] = Reverse(t)[i]
  <2> SUFFICES ASSUME NEW i \in 1 .. L + 1 PROVE Reverse(s)[i] = Reverse(t)[i]
    OBVIOUS
  <2>1. PICK j \in 1 .. L + 1 : j = (L + 1) - i + 1
    BY <1>1
  <2>2. i \in 1 .. P + 1 + L /\ P + j = (P + 1 + L) - i + 1
    BY <1>1, <2>1
  <2>3. Reverse(s)[i] = s[j]
    BY <1>6, <2>1
  <2>4. Reverse(t)[i] = t[P + j]
    BY <1>6, <2>2
  <2> QED
    BY <1>4, <2>3, <2>4
<1>8. L + 1 <= P + 1 + L
  BY <1>1
<1>9. IsPrefix(Reverse(s), Reverse(t))
  BY <1>6, <1>7, <1>8, Prefix
<1> QED
  BY <1>9 DEF IsSuffix, s, t

-------------------------------------------------------------------------------
(***************************************************************************)
(* What is under a key when some of a call's writes are done               *)
(***************************************************************************)

Trees == {"archives", "files", "path_index", "stats"}

Puts(op, t, k, e) == op.op = "put" /\ op.tree = t /\ k \in DOMAIN op.entries /\ op.entries[k] = e

Touches(op, t, k) ==
  \/ op.op = "put" /\ op.tree = t /\ k \in DOMAIN op.entries
  \/ op.op = "drop" /\ op.tree = t /\ k \in op.keys

Has(T, t, k, e) == k \in DOMAIN T[t] /\ T[t][k] = e

\* The entry e is under the key k of the tree t after the first n of these writes.
Comes(T, ops, n, t, k, e) ==
  \/ Has(T, t, k, e) /\ \A j \in 1 .. n : ~ Touches(ops[j], t, k)
  \/ \E j \in 1 .. n : Puts(ops[j], t, k, e) /\ \A i \in j + 1 .. n : ~ Touches(ops[i], t, k)

\* One write makes T into T2.
Effect(op, T, T2) ==
  \A t \in Trees : \A k, e :
    Has(T2, t, k, e) <=> Puts(op, t, k, e) \/ (Has(T, t, k, e) /\ ~ Touches(op, t, k))

LEMMA ComesFirst ==
  ASSUME NEW T, NEW ops, NEW t, NEW k, NEW e
  PROVE  Comes(T, ops, 0, t, k, e) <=> Has(T, t, k, e)
<1>1. \A j \in 1 .. 0 : FALSE
  OBVIOUS
<1> QED
  BY <1>1 DEF Comes

\* What comes after some of the writes comes after one less of the rest.
LEMMA ComesStep ==
  ASSUME NEW U, NEW ops \in Seq(U), ops # << >>, NEW T, NEW T2, Effect(Head(ops), T, T2)
  PROVE  \A n \in 0 .. Len(ops) - 1 : \A t \in Trees : \A k, e :
           Comes(T2, Tail(ops), n, t, k, e) <=> Comes(T, ops, n + 1, t, k, e)
<1>1. Len(ops) \in Nat \ {0}
  BY EmptySeq
<1>2. PICK rest : rest = Tail(ops)
  OBVIOUS
<1>3. Head(ops) = ops[1] /\ \A j \in 1 .. Len(ops) - 1 : rest[j] = ops[j + 1]
  BY <1>1, <1>2
<1> SUFFICES ASSUME NEW n \in 0 .. Len(ops) - 1, NEW t \in Trees, NEW k, NEW e
             PROVE  Comes(T2, rest, n, t, k, e) <=> Comes(T, ops, n + 1, t, k, e)
  BY <1>2
<1>4. n \in Nat /\ \A j \in 1 .. n : j + 1 \in 2 .. n + 1 /\ j + 1 \in 1 .. n + 1 /\ rest[j] = ops[j + 1]
  BY <1>1, <1>3
<1>5. \A j \in 1 .. n + 1 : j = 1 \/ (j - 1 \in 1 .. n /\ (j - 1) + 1 = j)
  BY <1>4
<1>6. Has(T2, t, k, e) <=> Puts(ops[1], t, k, e) \/ (Has(T, t, k, e) /\ ~ Touches(ops[1], t, k))
  BY <1>3 DEF Effect
<1>7. (\A j \in 1 .. n : ~ Touches(rest[j], t, k)) <=> (\A i \in 2 .. n + 1 : ~ Touches(ops[i], t, k))
  <2>1. \A i \in 2 .. n + 1 : i - 1 \in 1 .. n /\ rest[i - 1] = ops[i]
    <3>1. \A i \in 2 .. n + 1 : i - 1 \in 1 .. n /\ (i - 1) + 1 = i
      BY <1>4
    <3> QED
      BY <1>4, <3>1
  <2> QED
    BY <1>4, <2>1
<1>8. \A j \in 1 .. n :
        (\A i \in j + 1 .. n : ~ Touches(rest[i], t, k))
          <=> (\A i \in (j + 1) + 1 .. n + 1 : ~ Touches(ops[i], t, k))
  <2> SUFFICES ASSUME NEW j \in 1 .. n
               PROVE  (\A i \in j + 1 .. n : ~ Touches(rest[i], t, k))
                        <=> (\A i \in (j + 1) + 1 .. n + 1 : ~ Touches(ops[i], t, k))
    OBVIOUS
  <2>1. \A i \in (j + 1) + 1 .. n + 1 : i - 1 \in j + 1 .. n /\ rest[i - 1] = ops[i]
    <3>1. \A i \in (j + 1) + 1 .. n + 1 : i - 1 \in j + 1 .. n /\ i - 1 \in 1 .. n /\ (i - 1) + 1 = i
      BY <1>4
    <3> QED
      BY <1>4, <3>1
  <2>2. \A i \in j + 1 .. n : i + 1 \in (j + 1) + 1 .. n + 1 /\ rest[i] = ops[i + 1]
    <3>1. \A i \in j + 1 .. n : i + 1 \in (j + 1) + 1 .. n + 1 /\ i \in 1 .. n
      BY <1>4
    <3> QED
      BY <1>4, <3>1
  <2> QED
    BY <2>1, <2>2
<1>9. ASSUME Comes(T2, rest, n, t, k, e)
      PROVE  Comes(T, ops, n + 1, t, k, e)
  <2>1. CASE Has(T2, t, k, e) /\ \A j \in 1 .. n : ~ Touches(rest[j], t, k)
    <3>1. \A i \in 2 .. n + 1 : ~ Touches(ops[i], t, k)
      BY <1>7, <2>1
    <3>2. CASE Puts(ops[1], t, k, e)
      <4>1. 1 \in 1 .. n + 1 /\ 1 + 1 = 2
        BY <1>4
      <4> QED
        BY <3>1, <3>2, <4>1 DEF Comes
    <3>3. CASE Has(T, t, k, e) /\ ~ Touches(ops[1], t, k)
      <4>1. \A j \in 1 .. n + 1 : j = 1 \/ j \in 2 .. n + 1
        BY <1>4
      <4> QED
        BY <3>1, <3>3, <4>1 DEF Comes
    <3> QED
      BY <1>6, <2>1, <3>2, <3>3
  <2>2. CASE \E j \in 1 .. n : Puts(rest[j], t, k, e) /\ \A i \in j + 1 .. n : ~ Touches(rest[i], t, k)
    <3>1. PICK j \in 1 .. n : Puts(rest[j], t, k, e) /\ \A i \in j + 1 .. n : ~ Touches(rest[i], t, k)
      BY <2>2
    <3>2. Puts(ops[j + 1], t, k, e) /\ j + 1 \in 1 .. n + 1
      BY <1>4, <3>1
    <3>3. \A i \in (j + 1) + 1 .. n + 1 : ~ Touches(ops[i], t, k)
      BY <1>8, <3>1
    <3> QED
      BY <3>2, <3>3 DEF Comes
  <2> QED
    BY <1>9, <2>1, <2>2 DEF Comes
<1>10. ASSUME Comes(T, ops, n + 1, t, k, e)
       PROVE  Comes(T2, rest, n, t, k, e)
  <2>1. CASE Has(T, t, k, e) /\ \A j \in 1 .. n + 1 : ~ Touches(ops[j], t, k)
    <3>1. 1 \in 1 .. n + 1 /\ \A i \in 2 .. n + 1 : i \in 1 .. n + 1
      BY <1>4
    <3> QED
      BY <1>6, <1>7, <2>1, <3>1 DEF Comes
  <2>2. CASE \E j \in 1 .. n + 1 : Puts(ops[j], t, k, e) /\ \A i \in j + 1 .. n + 1 : ~ Touches(ops[i], t, k)
    <3>1. PICK j \in 1 .. n + 1 : Puts(ops[j], t, k, e) /\ \A i \in j + 1 .. n + 1 : ~ Touches(ops[i], t, k)
      BY <2>2
    <3>2. CASE j = 1
      <4>1. \A i \in 2 .. n + 1 : ~ Touches(ops[i], t, k)
        BY <3>1, <3>2
      <4>2. Puts(ops[1], t, k, e)
        BY <3>1, <3>2
      <4>3. Has(T2, t, k, e)
        BY <1>6, <4>2
      <4>4. \A i \in 1 .. n : ~ Touches(rest[i], t, k)
        BY <1>7, <4>1
      <4> QED
        BY <4>3, <4>4 DEF Comes
    <3>3. CASE j # 1
      <4>1. PICK m \in 1 .. n : m + 1 = j
        BY <1>5, <3>3
      <4>2. Puts(rest[m], t, k, e)
        BY <1>4, <3>1, <4>1
      <4>3. \A i \in m + 1 .. n : ~ Touches(rest[i], t, k)
        BY <1>8, <3>1, <4>1
      <4> QED
        BY <4>2, <4>3 DEF Comes
    <3> QED
      BY <3>2, <3>3
  <2> QED
    BY <1>10, <2>1, <2>2 DEF Comes
<1> QED
  BY <1>9, <1>10

-------------------------------------------------------------------------------
(***************************************************************************)
(* Types, and what one write changes                                       *)
(***************************************************************************)

Archives == [name : Names, time : Nat, items : Contents]

\* What may be under a key of a tree.
Fits(t, k, e) ==
  /\ t = "archives" => \E a \in Archives : k = a.name /\ e = CatalogArchive(a)
  /\ t = "stats" => \E a \in Archives : k = a.name /\ e = Stats(a)
  /\ t = "files" => \E a \in Archives : \E p \in DOMAIN a.items : k = Key(a.name, p) /\ e = CatalogFile(a, p)

OpOK(op) ==
  \/ /\ op.op = "put" /\ op.tree \in Trees
     /\ op.tree \in {"archives", "files"} => IsFiniteSet(DOMAIN op.entries)
     /\ \A k \in DOMAIN op.entries : Fits(op.tree, k, op.entries[k])
  \/ op.op = "drop" /\ op.tree \in Trees
  \/ op.op = "panic"
  \/ op.op = "done" /\ op.archives \subseteq Archives /\ op.all \in BOOLEAN

OpsOK(ops) == (\E U : ops \in Seq(U)) /\ \A i \in 1 .. Len(ops) : OpOK(ops[i])

TreesOK(T) ==
  /\ T = [t \in Trees |-> T[t]]
  /\ \A t \in {"archives", "files"} : IsFiniteSet(DOMAIN T[t])
  /\ \A t \in Trees : \A k \in DOMAIN T[t] : Fits(t, k, T[t][k])

CatalogTypeOK ==
  /\ repo \in Seq(Archives) /\ time \in Nat
  /\ TreesOK(trees)
  /\ OpsOK(agenda)
  /\ indexed \subseteq Archives /\ touched \subseteq Names /\ hurt \in BOOLEAN

LEMMA NamesAreKeys ==
  /\ \A n \in Names : n \in Seq(Chars) /\ n # << >>
  /\ \A a \in Archives : \A p \in DOMAIN a.items : p \in Seq(Chars)
  /\ << >> \in Seq(Chars)
<1>1. STRING \subseteq Chars
  BY DEF Chars
<1>2. \A s \in Seq(STRING) : s \in Seq(Chars)
  BY <1>1, SeqMonotonic
<1>3. \A n \in Names : n \in Seq(STRING) /\ n # << >>
  BY NamesAssumption
<1>4. \A a \in Archives : \A p \in DOMAIN a.items : p \in Seq(STRING)
  <2>1. \A a \in Archives : a.items \in Contents
    BY DEF Archives
  <2> QED
    BY <2>1, ContentsAssumption
<1> QED
  BY <1>2, <1>3, <1>4, EmptySeq

LEMMA FileKeys ==
  ASSUME NEW k, NEW e, Fits("files", k, e)
  PROVE  k \in Seq(Chars) /\ e.archive \in Names /\ Under(e.archive, k)
<1>1. PICK a \in Archives : \E p \in DOMAIN a.items : k = Key(a.name, p) /\ e = CatalogFile(a, p)
  BY DEF Fits
<1>2. PICK p \in DOMAIN a.items : k = Key(a.name, p) /\ e = CatalogFile(a, p)
  BY <1>1
<1>3. a.name \in Names /\ a.name \in Seq(Chars) /\ p \in Seq(Chars)
  BY NamesAreKeys DEF Archives
<1>4. e.archive = a.name
  BY <1>2 DEF CatalogFile
<1> QED
  BY <1>2, <1>3, <1>4, KeyIs, KeyUnderItsName

LEMMA ComesFits ==
  ASSUME NEW T, NEW ops, TreesOK(T), OpsOK(ops), NEW n \in 0 .. Len(ops), NEW t \in Trees,
         NEW k, NEW e, Comes(T, ops, n, t, k, e)
  PROVE  Fits(t, k, e)
<1>1. CASE Has(T, t, k, e)
  BY <1>1 DEF Has, TreesOK
<1>2. CASE \E j \in 1 .. n : Puts(ops[j], t, k, e)
  <2>1. PICK j \in 1 .. n : Puts(ops[j], t, k, e)
    BY <1>2
  <2>2. j \in 1 .. Len(ops)
    <3>1. Len(ops) \in Nat
      BY LenProperties DEF OpsOK
    <3> QED
      BY <3>1
  <2>3. OpOK(ops[j])
    BY <2>2 DEF OpsOK
  <2> QED
    BY <2>1, <2>3 DEF OpOK, Puts
<1> QED
  BY <1>1, <1>2 DEF Comes

LEMMA WriteIs ==
  ASSUME CatalogTypeOK, Write
  PROVE  /\ agenda # << >> /\ agenda' = Tail(agenda) /\ Len(agenda) \in Nat \ {0}
         /\ Head(agenda) = agenda[1] /\ OpOK(agenda[1]) /\ agenda[1].op # "panic"
         /\ agenda[1].op \in {"put", "drop"} =>
              UNCHANGED <<indexed, touched, hurt>>
         /\ agenda[1].op = "put" =>
              trees' = [trees EXCEPT ![agenda[1].tree] = Written(@, agenda[1].entries)]
         /\ agenda[1].op = "drop" =>
              trees' = [trees EXCEPT ![agenda[1].tree] = Restrict(@, DOMAIN @ \ agenda[1].keys)]
         /\ agenda[1].op = "done" =>
              /\ indexed' = indexed \cup agenda[1].archives
              /\ touched' = touched \ agenda[1].names
              /\ hurt' = (hurt /\ ~ agenda[1].all)
              /\ trees' = trees
         /\ UNCHANGED <<repo, time, calls>>
<1>1. agenda # << >> /\ agenda' = Tail(agenda)
  BY DEF Write
<1>2. PICK U : agenda \in Seq(U)
  BY DEF CatalogTypeOK, OpsOK
<1>3. Len(agenda) \in Nat \ {0} /\ Head(agenda) = agenda[1] /\ 1 \in 1 .. Len(agenda)
  BY <1>1, <1>2, EmptySeq
<1>4. OpOK(agenda[1])
  BY <1>3 DEF CatalogTypeOK, OpsOK
<1>5. agenda[1].op # "panic"
  BY <1>3 DEF Write
<1>6. agenda[1].op \in {"put", "drop", "done"}
  BY <1>4, <1>5 DEF OpOK
<1>7. agenda[1].op \in {"put", "drop"} => UNCHANGED <<indexed, touched, hurt>>
  BY <1>3 DEF Write
<1>8. agenda[1].op = "put" => trees' = [trees EXCEPT ![agenda[1].tree] = Written(@, agenda[1].entries)]
  BY <1>3 DEF Write
<1>9. agenda[1].op = "drop" =>
        trees' = [trees EXCEPT ![agenda[1].tree] = Restrict(@, DOMAIN @ \ agenda[1].keys)]
  BY <1>3 DEF Write
<1>10. agenda[1].op = "done" =>
              /\ indexed' = indexed \cup agenda[1].archives
              /\ touched' = touched \ agenda[1].names
              /\ hurt' = (hurt /\ ~ agenda[1].all)
              /\ trees' = trees
  BY <1>3 DEF Write
<1>11. UNCHANGED <<repo, time, calls>>
  BY DEF Write
<1> QED
  BY <1>1, <1>3, <1>4, <1>5, <1>7, <1>8, <1>9, <1>10, <1>11

LEMMA WriteEffect ==
  ASSUME CatalogTypeOK, Write
  PROVE  TreesOK(trees') /\ Effect(agenda[1], trees, trees')
<1> DEFINE op == agenda[1]
<1>1. OpOK(op) /\ op.op # "panic"
  BY WriteIs
<1>2. TreesOK(trees)
  BY DEF CatalogTypeOK
<1>3. CASE op.op = "put"
  <2>1. op.tree \in Trees /\ \A k \in DOMAIN op.entries : Fits(op.tree, k, op.entries[k])
    BY <1>1, <1>3 DEF OpOK
  <2>2. trees' = [trees EXCEPT ![op.tree] = Written(trees[op.tree], op.entries)]
    BY <1>3, WriteIs
  <2> HIDE DEF op
  <2>3. /\ trees' = [t \in Trees |-> trees'[t]]
        /\ trees'[op.tree] = Written(trees[op.tree], op.entries)
        /\ \A t \in Trees : t # op.tree => trees'[t] = trees[t]
    BY <1>2, <2>1, <2>2 DEF TreesOK
  <2>4. \A k, e : Has(trees', op.tree, k, e) <=>
          Puts(op, op.tree, k, e) \/ (Has(trees, op.tree, k, e) /\ ~ Touches(op, op.tree, k))
    <3>1. /\ DOMAIN trees'[op.tree] = DOMAIN trees[op.tree] \cup DOMAIN op.entries
          /\ \A k \in DOMAIN trees[op.tree] \cup DOMAIN op.entries :
               trees'[op.tree][k] = IF k \in DOMAIN op.entries THEN op.entries[k] ELSE trees[op.tree][k]
      BY <2>3 DEF Written
    <3> QED
      BY <1>3, <3>1 DEF Has, Puts, Touches
  <2>5. \A t \in Trees : t # op.tree => \A k, e : ~ Puts(op, t, k, e) /\ ~ Touches(op, t, k)
    BY <1>3 DEF Puts, Touches
  <2>6. Effect(op, trees, trees')
    <3> SUFFICES ASSUME NEW t \in Trees, NEW k, NEW e
                 PROVE  Has(trees', t, k, e) <=>
                          Puts(op, t, k, e) \/ (Has(trees, t, k, e) /\ ~ Touches(op, t, k))
      BY DEF Effect
    <3>1. CASE t = op.tree
      BY <2>4, <3>1
    <3>2. CASE t # op.tree
      BY <2>3, <2>5, <3>2 DEF Has
    <3> QED
      BY <3>1, <3>2
  <2>7. \A t \in Trees : \A k \in DOMAIN trees'[t] : Fits(t, k, trees'[t][k])
    <3> SUFFICES ASSUME NEW t \in Trees, NEW k \in DOMAIN trees'[t]
                 PROVE  Fits(t, k, trees'[t][k])
      OBVIOUS
    <3>1. Has(trees', t, k, trees'[t][k])
      BY DEF Has
    <3>2. Puts(op, t, k, trees'[t][k]) \/ Has(trees, t, k, trees'[t][k])
      BY <2>6, <3>1 DEF Effect
    <3>3. Has(trees, t, k, trees'[t][k]) => Fits(t, k, trees'[t][k])
      BY <1>2 DEF Has, TreesOK
    <3>4. Puts(op, t, k, trees'[t][k]) => Fits(t, k, trees'[t][k])
      BY <2>1 DEF Puts
    <3> QED
      BY <3>2, <3>3, <3>4
  <2>8. \A t \in {"archives", "files"} : IsFiniteSet(DOMAIN trees'[t])
    <3> SUFFICES ASSUME NEW t \in {"archives", "files"} PROVE IsFiniteSet(DOMAIN trees'[t])
      OBVIOUS
    <3>1. IsFiniteSet(DOMAIN trees[t]) /\ t \in Trees
      BY <1>2 DEF TreesOK, Trees
    <3>2. CASE t = op.tree
      <4>1. IsFiniteSet(DOMAIN op.entries)
        BY <1>1, <1>3, <3>2 DEF OpOK
      <4>2. DOMAIN trees'[t] = DOMAIN trees[t] \cup DOMAIN op.entries
        BY <2>3, <3>2 DEF Written
      <4> QED
        BY <3>1, <4>1, <4>2, FS_Union
    <3>3. CASE t # op.tree
      BY <2>3, <3>1, <3>3
    <3> QED
      BY <3>2, <3>3
  <2> QED
    BY <2>3, <2>6, <2>7, <2>8 DEF TreesOK, op
<1>4. CASE op.op = "drop"
  <2>1. op.tree \in Trees
    BY <1>1, <1>4 DEF OpOK
  <2>2. trees' = [trees EXCEPT ![op.tree] = Restrict(trees[op.tree], DOMAIN trees[op.tree] \ op.keys)]
    BY <1>4, WriteIs
  <2> HIDE DEF op
  <2>3. /\ trees' = [t \in Trees |-> trees'[t]]
        /\ trees'[op.tree] = Restrict(trees[op.tree], DOMAIN trees[op.tree] \ op.keys)
        /\ \A t \in Trees : t # op.tree => trees'[t] = trees[t]
    BY <1>2, <2>1, <2>2 DEF TreesOK
  <2>4. \A k, e : Has(trees', op.tree, k, e) <=>
          Puts(op, op.tree, k, e) \/ (Has(trees, op.tree, k, e) /\ ~ Touches(op, op.tree, k))
    <3>1. /\ DOMAIN trees'[op.tree] = DOMAIN trees[op.tree] \ op.keys
          /\ \A k \in DOMAIN trees[op.tree] \ op.keys : trees'[op.tree][k] = trees[op.tree][k]
      BY <2>3 DEF Restrict
    <3> QED
      BY <1>4, <3>1 DEF Has, Puts, Touches
  <2>5. \A t \in Trees : t # op.tree => \A k, e : ~ Puts(op, t, k, e) /\ ~ Touches(op, t, k)
    BY <1>4 DEF Puts, Touches
  <2>6. Effect(op, trees, trees')
    <3> SUFFICES ASSUME NEW t \in Trees, NEW k, NEW e
                 PROVE  Has(trees', t, k, e) <=>
                          Puts(op, t, k, e) \/ (Has(trees, t, k, e) /\ ~ Touches(op, t, k))
      BY DEF Effect
    <3>1. CASE t = op.tree
      BY <2>4, <3>1
    <3>2. CASE t # op.tree
      BY <2>3, <2>5, <3>2 DEF Has
    <3> QED
      BY <3>1, <3>2
  <2>7. \A t \in Trees : \A k \in DOMAIN trees'[t] : Fits(t, k, trees'[t][k])
    <3> SUFFICES ASSUME NEW t \in Trees, NEW k \in DOMAIN trees'[t]
                 PROVE  Fits(t, k, trees'[t][k])
      OBVIOUS
    <3>1. Has(trees', t, k, trees'[t][k])
      BY DEF Has
    <3>2. Has(trees, t, k, trees'[t][k])
      BY <1>4, <2>6, <3>1 DEF Effect, Puts
    <3> QED
      BY <1>2, <3>2 DEF Has, TreesOK
  <2>8. \A t \in {"archives", "files"} : IsFiniteSet(DOMAIN trees'[t])
    <3> SUFFICES ASSUME NEW t \in {"archives", "files"} PROVE IsFiniteSet(DOMAIN trees'[t])
      OBVIOUS
    <3>1. IsFiniteSet(DOMAIN trees[t]) /\ t \in Trees
      BY <1>2 DEF TreesOK, Trees
    <3>2. CASE t = op.tree
      <4>1. DOMAIN trees'[t] = DOMAIN trees[t] \ op.keys
        BY <2>3, <3>2 DEF Restrict
      <4> QED
        BY <3>1, <4>1, FS_Difference
    <3>3. CASE t # op.tree
      BY <2>3, <3>1, <3>3
    <3> QED
      BY <3>2, <3>3
  <2> QED
    BY <2>3, <2>6, <2>7, <2>8 DEF TreesOK, op
<1>5. CASE op.op = "done"
  <2>1. trees' = trees
    BY <1>5, WriteIs
  <2>2. \A t, k, e : ~ Puts(op, t, k, e) /\ ~ Touches(op, t, k)
    BY <1>5 DEF Puts, Touches
  <2>3. Effect(op, trees, trees')
    BY <2>1, <2>2 DEF Effect
  <2> QED
    BY <1>2, <2>1, <2>3
<1>6. op.op \in {"put", "drop", "done"}
  BY <1>1 DEF OpOK
<1> QED
  BY <1>3, <1>4, <1>5, <1>6

-------------------------------------------------------------------------------
(***************************************************************************)
(* The invariant: what holds after every number of the writes that are     *)
(* still to come                                                           *)
(***************************************************************************)

\* The archives that count as indexed from there on.
Marks(idx, ops, n) == IF n = 0 THEN idx ELSE IF ops[n].op = "done" THEN ops[n].archives ELSE {}

\* The names that may have files by then.
Open(names, ops, n) == {m \in names : \A i \in 1 .. n : ops[i].op = "done" => m \notin ops[i].names}

\* No character of its paths has more than one byte, so that nothing panics over it.
Narrow(a) == \A p \in DOMAIN a.items : \A i \in DOMAIN p : p[i] \notin Wide

\* The archive has its entry, and under keys like its own its files and nothing else.
ExactAt(T, ops, n, a) ==
  /\ \A k, e : Comes(T, ops, n, "files", k, e) /\ Under(a.name, k) =>
       \E p \in DOMAIN a.items : k = Key(a.name, p) /\ e = CatalogFile(a, p)
  /\ \A p \in DOMAIN a.items : Comes(T, ops, n, "files", Key(a.name, p), CatalogFile(a, p))
  /\ Comes(T, ops, n, "archives", a.name, CatalogArchive(a))

\* The write is of no key that is or looks like one of the archive's.
LeavesAlone(op, a) ==
  /\ ~ Touches(op, "archives", a.name)
  /\ \A k \in Seq(Chars) : Under(a.name, k) => ~ Touches(op, "files", k)

\* Every file is under a name that may have files.
Located(T, ops, names) ==
  \A n \in 0 .. Len(ops) : \A k, e :
    Comes(T, ops, n, "files", k, e) => \E m \in Open(names, ops, n) : Under(m, k)

\* Of an archive that counts as indexed all is there and stays, unless a panic comes first.
Exact(T, ops, idx) ==
  \A n \in 0 .. Len(ops) : \A a \in Marks(idx, ops, n) :
    /\ ExactAt(T, ops, n, a)
    /\ \A j \in n + 1 .. Len(ops) : LeavesAlone(ops[j], a)
    /\ Narrow(a) \/ \E j \in 1 .. n : ops[j].op = "panic"

\* The names of those do not clash, whenever they come to count.
Apart(ops, idx) ==
  \A n, m \in 0 .. Len(ops) : \A a \in Marks(idx, ops, n) : \A b \in Marks(idx, ops, m) :
    a # b => ~ Clash(a.name, b.name)

\* Every archive has its statistics, and no file and no key of the index is of none.
Matched(T, ops, n) ==
  /\ \A m, e : Comes(T, ops, n, "stats", m, e) =>
       \E a \in Archives : m = a.name /\ e = Stats(a) /\ Comes(T, ops, n, "archives", m, CatalogArchive(a))
  /\ \A m, e : Comes(T, ops, n, "archives", m, e) =>
       \E a \in Archives : m = a.name /\ e = CatalogArchive(a) /\ Comes(T, ops, n, "stats", m, Stats(a))
  /\ \A k, e : Comes(T, ops, n, "files", k, e) => \E e2 : Comes(T, ops, n, "archives", e.archive, e2)
  /\ \A k, e : Comes(T, ops, n, "path_index", k, e) =>
       \E m, e2 : Comes(T, ops, n, "archives", m, e2) /\ IsSuffix(Key(<< >>, m), k)

\* In the end all is matched, if no call ended half-way or a rebuild is under way.
Mends(T, ops, broken) ==
  (broken => \E j \in 1 .. Len(ops) : ops[j].op = "done" /\ ops[j].all) => Matched(T, ops, Len(ops))

\* Without what is yet to be written none of these would be inductive: a call is right
\* as a whole, and every prefix of its writes is what a crash leaves.
CatalogInv ==
  /\ CatalogTypeOK
  /\ Located(trees, agenda, touched)
  /\ Exact(trees, agenda, indexed)
  /\ Apart(agenda, indexed)
  /\ Mends(trees, agenda, hurt)

LEMMA WriteShifts ==
  ASSUME CatalogTypeOK, Write
  PROVE  /\ Len(agenda) \in Nat \ {0} /\ Len(agenda') = Len(agenda) - 1
         /\ OpsOK(agenda') /\ TreesOK(trees')
         /\ \A j \in 1 .. Len(agenda') : agenda'[j] = agenda[j + 1]
         /\ \A n \in 0 .. Len(agenda') : \A t \in Trees : \A k, e :
              Comes(trees', agenda', n, t, k, e) <=> Comes(trees, agenda, n + 1, t, k, e)
         /\ \A n \in 1 .. Len(agenda') : Marks(indexed', agenda', n) = Marks(indexed, agenda, n + 1)
         /\ Marks(indexed', agenda', 0) = Marks(indexed, agenda, 0) \cup Marks(indexed, agenda, 1)
         /\ \A n \in 0 .. Len(agenda') : Open(touched', agenda', n) = Open(touched, agenda, n + 1)
<1>1. PICK U : agenda \in Seq(U)
  BY DEF CatalogTypeOK, OpsOK
<1>2. /\ agenda # << >> /\ agenda' = Tail(agenda) /\ Head(agenda) = agenda[1]
      /\ Len(agenda) \in Nat \ {0} /\ OpOK(agenda[1]) /\ agenda[1].op # "panic"
  BY WriteIs
<1>3. agenda' \in Seq(U) /\ Len(agenda') = Len(agenda) - 1
  BY <1>1, <1>2, HeadTailProperties
<1>4. \A j \in 1 .. Len(agenda') : agenda'[j] = agenda[j + 1]
  BY <1>1, <1>2, <1>3
<1>5. OpsOK(agenda')
  <2>1. \A j \in 1 .. Len(agenda') : j + 1 \in 1 .. Len(agenda)
    BY <1>2, <1>3
  <2>2. \A j \in 1 .. Len(agenda') : OpOK(agenda'[j])
    BY <1>4, <2>1 DEF CatalogTypeOK, OpsOK
  <2> QED
    BY <1>3, <2>2 DEF OpsOK
<1>6. TreesOK(trees') /\ Effect(Head(agenda), trees, trees')
  BY <1>2, WriteEffect
<1>7. \A n \in 0 .. Len(agenda') : \A t \in Trees : \A k, e :
              Comes(trees', agenda', n, t, k, e) <=> Comes(trees, agenda, n + 1, t, k, e)
  <2>1. \A n \in 0 .. Len(agenda) - 1 : \A t \in Trees : \A k, e :
              Comes(trees', Tail(agenda), n, t, k, e) <=> Comes(trees, agenda, n + 1, t, k, e)
    BY <1>1, <1>2, <1>6, ComesStep
  <2> QED
    BY <1>2, <1>3, <2>1
<1>8. \A n \in 1 .. Len(agenda') : Marks(indexed', agenda', n) = Marks(indexed, agenda, n + 1)
  <2>1. \A n \in 1 .. Len(agenda') : n # 0 /\ n + 1 # 0
    BY <1>2, <1>3
  <2> QED
    BY <1>4, <2>1 DEF Marks
<1>9. Marks(indexed', agenda', 0) = Marks(indexed, agenda, 0) \cup Marks(indexed, agenda, 1)
  <2>1. CASE agenda[1].op = "done"
    BY <2>1, WriteIs DEF Marks
  <2>2. CASE agenda[1].op # "done"
    <3>1. agenda[1].op \in {"put", "drop"}
      BY <1>2, <2>2 DEF OpOK
    <3>2. indexed' = indexed
      BY <3>1, WriteIs
    <3> QED
      BY <2>2, <3>2 DEF Marks
  <2> QED
    BY <2>1, <2>2
<1>10. \A n \in 0 .. Len(agenda') : Open(touched', agenda', n) = Open(touched, agenda, n + 1)
  <2> SUFFICES ASSUME NEW n \in 0 .. Len(agenda')
               PROVE  Open(touched', agenda', n) = Open(touched, agenda, n + 1)
    OBVIOUS
  <2>1. \A m : m \in touched' <=> m \in touched /\ (agenda[1].op = "done" => m \notin agenda[1].names)
    <3>1. CASE agenda[1].op = "done"
      <4>1. touched' = touched \ agenda[1].names
        BY <3>1, WriteIs
      <4> QED
        BY <3>1, <4>1
    <3>2. CASE agenda[1].op # "done"
      <4>1. agenda[1].op \in {"put", "drop"}
        BY <1>2, <3>2 DEF OpOK
      <4>2. touched' = touched
        BY <4>1, WriteIs
      <4> QED
        BY <3>2, <4>2
    <3> QED
      BY <3>1, <3>2
  <2>2. n \in Nat /\ n <= Len(agenda')
    BY <1>2, <1>3
  <2>3. \A i \in 1 .. n : i + 1 \in 1 .. n + 1 /\ agenda'[i] = agenda[i + 1]
    <3>1. \A i \in 1 .. n : i + 1 \in 1 .. n + 1 /\ i \in 1 .. Len(agenda')
      BY <1>2, <1>3, <2>2
    <3> QED
      BY <1>4, <3>1
  <2>4. \A i \in 1 .. n + 1 : i = 1 \/ (i - 1 \in 1 .. n /\ agenda'[i - 1] = agenda[i])
    <3>1. \A i \in 1 .. n + 1 : i = 1 \/ (i - 1 \in 1 .. n /\ (i - 1) + 1 = i)
      BY <2>2
    <3> QED
      BY <2>3, <3>1
  <2>5. 1 \in 1 .. n + 1
    BY <2>2
  <2>6. \A m : (\A i \in 1 .. n + 1 : agenda[i].op = "done" => m \notin agenda[i].names)
           <=> /\ agenda[1].op = "done" => m \notin agenda[1].names
               /\ \A i \in 1 .. n : agenda'[i].op = "done" => m \notin agenda'[i].names
    BY <2>3, <2>4, <2>5
  <2> QED
    BY <2>1, <2>6 DEF Open
<1> QED
  BY <1>2, <1>3, <1>4, <1>5, <1>6, <1>7, <1>8, <1>9, <1>10

LEMMA WriteType ==
  ASSUME CatalogTypeOK, Write
  PROVE  CatalogTypeOK'
<1>1. TreesOK(trees') /\ OpsOK(agenda')
  BY WriteShifts
<1>2. repo' = repo /\ time' = time
  BY WriteIs
<1>3. indexed' \subseteq Archives /\ touched' \subseteq Names /\ hurt' \in BOOLEAN
  <2>1. OpOK(agenda[1]) /\ agenda[1].op # "panic"
    BY WriteIs
  <2>2. CASE agenda[1].op = "done"
    <3>1. agenda[1].archives \subseteq Archives /\ agenda[1].all \in BOOLEAN
      BY <2>1, <2>2 DEF OpOK
    <3>2. /\ indexed' = indexed \cup agenda[1].archives
          /\ touched' = touched \ agenda[1].names
          /\ hurt' = (hurt /\ ~ agenda[1].all)
      BY <2>2, WriteIs
    <3>3. hurt' \in BOOLEAN
      BY <3>2
    <3> QED
      BY <3>1, <3>2, <3>3 DEF CatalogTypeOK
  <2>3. CASE agenda[1].op # "done"
    <3>1. agenda[1].op \in {"put", "drop"}
      BY <2>1, <2>3 DEF OpOK
    <3>2. UNCHANGED <<indexed, touched, hurt>>
      BY <3>1, WriteIs
    <3> QED
      BY <3>2 DEF CatalogTypeOK
  <2> QED
    BY <2>2, <2>3
<1> QED
  BY <1>1, <1>2, <1>3 DEF CatalogTypeOK

LEMMA WriteLocated ==
  ASSUME CatalogInv, Write
  PROVE  Located(trees', agenda', touched')
<1>1. CatalogTypeOK /\ Located(trees, agenda, touched)
  BY DEF CatalogInv
<1>2. \A n \in 0 .. Len(agenda') : n + 1 \in 0 .. Len(agenda)
  BY <1>1, WriteShifts
<1> SUFFICES ASSUME NEW n \in 0 .. Len(agenda'), NEW k, NEW e, Comes(trees', agenda', n, "files", k, e)
             PROVE  \E m \in Open(touched', agenda', n) : Under(m, k)
  BY DEF Located
<1>3. Comes(trees, agenda, n + 1, "files", k, e)
  <2>1. "files" \in Trees
    BY DEF Trees
  <2> QED
    BY <1>1, <2>1, WriteShifts
<1>4. \E m \in Open(touched, agenda, n + 1) : Under(m, k)
  BY <1>1, <1>2, <1>3 DEF Located
<1>5. Open(touched', agenda', n) = Open(touched, agenda, n + 1)
  BY <1>1, WriteShifts
<1> QED
  BY <1>4, <1>5

\* An archive that writes leave alone stays exact.
LEMMA ExactLater ==
  ASSUME NEW T, NEW ops, TreesOK(T), OpsOK(ops), NEW n \in 0 .. Len(ops), n + 1 \in 1 .. Len(ops),
         NEW a \in Archives, ExactAt(T, ops, n, a), LeavesAlone(ops[n + 1], a)
  PROVE  ExactAt(T, ops, n + 1, a)
<1>1. PICK N \in Nat : N = Len(ops)
  BY LenProperties DEF OpsOK
<1>2. n \in Nat /\ n + 1 \in 0 .. Len(ops) /\ \A j \in 1 .. n + 1 : j \in 1 .. n \/ j = n + 1
  BY <1>1
<1>3. ASSUME NEW t, NEW k, ~ Touches(ops[n + 1], t, k)
      PROVE  \A e : Comes(T, ops, n + 1, t, k, e) <=> Comes(T, ops, n, t, k, e)
  <2> SUFFICES ASSUME NEW e PROVE Comes(T, ops, n + 1, t, k, e) <=> Comes(T, ops, n, t, k, e)
    OBVIOUS
  <2>1. ~ Puts(ops[n + 1], t, k, e)
    BY <1>3 DEF Puts, Touches
  <2>2. (\A j \in 1 .. n + 1 : ~ Touches(ops[j], t, k)) <=> (\A j \in 1 .. n : ~ Touches(ops[j], t, k))
    <3>1. \A j \in 1 .. n : j \in 1 .. n + 1
      BY <1>2
    <3> QED
      BY <1>2, <1>3, <3>1
  <2>3. \A j \in 1 .. n : j \in 1 .. n + 1 /\
          ((\A i \in j + 1 .. n + 1 : ~ Touches(ops[i], t, k)) <=> (\A i \in j + 1 .. n : ~ Touches(ops[i], t, k)))
    <3> SUFFICES ASSUME NEW j \in 1 .. n
                 PROVE  j \in 1 .. n + 1 /\
          ((\A i \in j + 1 .. n + 1 : ~ Touches(ops[i], t, k)) <=> (\A i \in j + 1 .. n : ~ Touches(ops[i], t, k)))
      OBVIOUS
    <3>1. \A i \in j + 1 .. n : i \in j + 1 .. n + 1
      BY <1>2
    <3>2. \A i \in j + 1 .. n + 1 : i \in j + 1 .. n \/ i = n + 1
      BY <1>2
    <3>3. j \in 1 .. n + 1
      BY <1>2
    <3> QED
      BY <1>3, <3>1, <3>2, <3>3
  <2> QED
    BY <1>2, <2>1, <2>2, <2>3 DEF Comes
<1>4. \A e : Comes(T, ops, n + 1, "archives", a.name, e) <=> Comes(T, ops, n, "archives", a.name, e)
  BY <1>3 DEF LeavesAlone
<1>5. \A k \in Seq(Chars) : Under(a.name, k) =>
        \A e : Comes(T, ops, n + 1, "files", k, e) <=> Comes(T, ops, n, "files", k, e)
  BY <1>3 DEF LeavesAlone
<1>6. \A k, e : Comes(T, ops, n + 1, "files", k, e) => k \in Seq(Chars)
  <2> SUFFICES ASSUME NEW k, NEW e, Comes(T, ops, n + 1, "files", k, e) PROVE k \in Seq(Chars)
    OBVIOUS
  <2>1. Fits("files", k, e)
    <3>1. "files" \in Trees
      BY DEF Trees
    <3> QED
      BY <1>2, <3>1, ComesFits
  <2> QED
    BY <2>1, FileKeys
<1>7. \A p \in DOMAIN a.items : Key(a.name, p) \in Seq(Chars) /\ Under(a.name, Key(a.name, p))
  <2>1. a.name \in Seq(Chars) /\ \A p \in DOMAIN a.items : p \in Seq(Chars)
    BY NamesAreKeys DEF Archives
  <2> QED
    BY <2>1, KeyIs, KeyUnderItsName
<1> QED
  BY <1>4, <1>5, <1>6, <1>7 DEF ExactAt

LEMMA MarksType ==
  ASSUME NEW ops, OpsOK(ops), NEW idx, idx \subseteq Archives, NEW n \in 0 .. Len(ops)
  PROVE  Marks(idx, ops, n) \subseteq Archives
<1>1. CASE n = 0
  BY <1>1 DEF Marks
<1>2. CASE n # 0 /\ ops[n].op = "done"
  <2>1. Len(ops) \in Nat
    BY LenProperties DEF OpsOK
  <2>2. n \in 1 .. Len(ops)
    BY <1>2, <2>1
  <2>3. OpOK(ops[n])
    BY <2>2 DEF OpsOK
  <2> QED
    BY <1>2, <2>3 DEF Marks, OpOK
<1>3. CASE n # 0 /\ ops[n].op # "done"
  BY <1>3 DEF Marks
<1> QED
  BY <1>1, <1>2, <1>3

LEMMA WriteExact ==
  ASSUME CatalogInv, Write
  PROVE  Exact(trees', agenda', indexed')
<1>1. CatalogTypeOK /\ Exact(trees, agenda, indexed)
  BY DEF CatalogInv
<1>2. Len(agenda) \in Nat \ {0} /\ Len(agenda') = Len(agenda) - 1
  BY <1>1, WriteShifts
<1> SUFFICES ASSUME NEW n \in 0 .. Len(agenda'), NEW a \in Marks(indexed', agenda', n)
             PROVE  /\ ExactAt(trees', agenda', n, a)
                    /\ \A j \in n + 1 .. Len(agenda') : LeavesAlone(agenda'[j], a)
                    /\ Narrow(a) \/ \E j \in 1 .. n : agenda'[j].op = "panic"
  BY DEF Exact
<1>3. n \in Nat /\ n + 1 \in 1 .. Len(agenda) /\ n + 1 \in 0 .. Len(agenda) /\ 0 \in 0 .. Len(agenda) /\ 0 + 1 = 1
  BY <1>2
<1>4. agenda[1].op # "panic" /\ TreesOK(trees) /\ OpsOK(agenda) /\ indexed \subseteq Archives
  BY <1>1, WriteIs DEF CatalogTypeOK
<1>5. \/ a \in Marks(indexed, agenda, n + 1)
      \/ n = 0 /\ a \in Marks(indexed, agenda, 0)
  <2>1. CASE n = 0
    <3>1. a \in Marks(indexed, agenda, 0) \cup Marks(indexed, agenda, 1)
      BY <1>1, <2>1, WriteShifts
    <3> QED
      BY <1>3, <2>1, <3>1
  <2>2. CASE n # 0
    <3>1. n \in 1 .. Len(agenda')
      BY <1>2, <2>2
    <3> QED
      BY <1>1, <3>1, WriteShifts
  <2> QED
    BY <2>1, <2>2
<1>6. /\ ExactAt(trees, agenda, n + 1, a)
      /\ \A j \in (n + 1) + 1 .. Len(agenda) : LeavesAlone(agenda[j], a)
      /\ Narrow(a) \/ \E j \in 1 .. n + 1 : agenda[j].op = "panic"
  <2>1. CASE a \in Marks(indexed, agenda, n + 1)
    BY <1>1, <1>3, <2>1 DEF Exact
  <2>2. CASE n = 0 /\ a \in Marks(indexed, agenda, 0)
    <3>1. /\ ExactAt(trees, agenda, n, a)
          /\ \A j \in n + 1 .. Len(agenda) : LeavesAlone(agenda[j], a)
          /\ Narrow(a) \/ \E j \in 1 .. n : agenda[j].op = "panic"
      BY <1>1, <1>3, <2>2 DEF Exact
    <3>2. a \in Archives
      BY <1>3, <1>4, <2>2, MarksType
    <3>3. LeavesAlone(agenda[n + 1], a)
      <4>1. n + 1 \in n + 1 .. Len(agenda)
        BY <1>2, <1>3
      <4> QED
        BY <3>1, <4>1
    <3>4. ExactAt(trees, agenda, n + 1, a)
      <4>1. n \in 0 .. Len(agenda)
        BY <1>3, <2>2
      <4> QED
        BY <1>3, <1>4, <3>1, <3>2, <3>3, <4>1, ExactLater
    <3>5. Narrow(a)
      <4>1. \A j \in 1 .. n : FALSE
        BY <2>2
      <4> QED
        BY <3>1, <4>1
    <3>6. \A j \in (n + 1) + 1 .. Len(agenda) : j \in n + 1 .. Len(agenda)
      BY <1>2, <1>3
    <3> QED
      BY <3>1, <3>4, <3>5, <3>6
  <2> QED
    BY <1>5, <2>1, <2>2
<1>7. ExactAt(trees', agenda', n, a)
  <2>1. "files" \in Trees /\ "archives" \in Trees
    BY DEF Trees
  <2>2. /\ \A k, e : Comes(trees', agenda', n, "files", k, e) <=> Comes(trees, agenda, n + 1, "files", k, e)
        /\ \A k, e : Comes(trees', agenda', n, "archives", k, e) <=> Comes(trees, agenda, n + 1, "archives", k, e)
    BY <1>1, <2>1, WriteShifts
  <2> QED
    BY <1>6, <2>2 DEF ExactAt
<1>8. \A j \in n + 1 .. Len(agenda') : LeavesAlone(agenda'[j], a)
  <2>1. \A j \in n + 1 .. Len(agenda') : j \in 1 .. Len(agenda') /\ j + 1 \in (n + 1) + 1 .. Len(agenda)
    BY <1>2, <1>3
  <2>2. \A j \in 1 .. Len(agenda') : agenda'[j] = agenda[j + 1]
    BY <1>1, WriteShifts
  <2> QED
    BY <1>6, <2>1, <2>2
<1>9. Narrow(a) \/ \E j \in 1 .. n : agenda'[j].op = "panic"
  <2>1. ASSUME NEW j \in 1 .. n + 1, agenda[j].op = "panic"
        PROVE  \E i \in 1 .. n : agenda'[i].op = "panic"
    <3>1. j # 1
      BY <1>4, <2>1
    <3>2. j - 1 \in 1 .. n /\ j - 1 \in 1 .. Len(agenda') /\ (j - 1) + 1 = j
      BY <1>2, <1>3, <3>1
    <3>3. agenda'[j - 1] = agenda[j]
      BY <1>1, <3>2, WriteShifts
    <3> QED
      BY <2>1, <3>2, <3>3
  <2> QED
    BY <1>6, <2>1
<1> QED
  BY <1>7, <1>8, <1>9

LEMMA WriteApart ==
  ASSUME CatalogInv, Write
  PROVE  Apart(agenda', indexed')
<1>1. CatalogTypeOK /\ Apart(agenda, indexed)
  BY DEF CatalogInv
<1>2. Len(agenda) \in Nat \ {0} /\ Len(agenda') = Len(agenda) - 1
  BY <1>1, WriteShifts
<1>3. \A n \in 0 .. Len(agenda') : \A a \in Marks(indexed', agenda', n) :
        \E m \in 0 .. Len(agenda) : a \in Marks(indexed, agenda, m)
  <2> SUFFICES ASSUME NEW n \in 0 .. Len(agenda'), NEW a \in Marks(indexed', agenda', n)
               PROVE  \E m \in 0 .. Len(agenda) : a \in Marks(indexed, agenda, m)
    OBVIOUS
  <2>1. CASE n = 0
    <3>1. a \in Marks(indexed, agenda, 0) \cup Marks(indexed, agenda, 1)
      BY <1>1, <2>1, WriteShifts
    <3>2. 0 \in 0 .. Len(agenda) /\ 1 \in 0 .. Len(agenda)
      BY <1>2
    <3> QED
      BY <3>1, <3>2
  <2>2. CASE n # 0
    <3>1. n \in 1 .. Len(agenda') /\ n + 1 \in 0 .. Len(agenda)
      BY <1>2, <2>2
    <3>2. a \in Marks(indexed, agenda, n + 1)
      BY <1>1, <3>1, WriteShifts
    <3> QED
      BY <3>1, <3>2
  <2> QED
    BY <2>1, <2>2
<1> QED
  BY <1>1, <1>3 DEF Apart

LEMMA SameMatched ==
  ASSUME NEW T, NEW ops, NEW n, NEW T2, NEW ops2, NEW n2,
         \A t \in Trees : \A k, e : Comes(T2, ops2, n2, t, k, e) <=> Comes(T, ops, n, t, k, e)
  PROVE  Matched(T2, ops2, n2) <=> Matched(T, ops, n)
<1>1. /\ \A k, e : Comes(T2, ops2, n2, "stats", k, e) <=> Comes(T, ops, n, "stats", k, e)
      /\ \A k, e : Comes(T2, ops2, n2, "archives", k, e) <=> Comes(T, ops, n, "archives", k, e)
      /\ \A k, e : Comes(T2, ops2, n2, "files", k, e) <=> Comes(T, ops, n, "files", k, e)
      /\ \A k, e : Comes(T2, ops2, n2, "path_index", k, e) <=> Comes(T, ops, n, "path_index", k, e)
  BY DEF Trees
<1>2. (\A m, e : Comes(T2, ops2, n2, "stats", m, e) =>
        \E a \in Archives : m = a.name /\ e = Stats(a) /\ Comes(T2, ops2, n2, "archives", m, CatalogArchive(a)))
      <=>
      (\A m, e : Comes(T, ops, n, "stats", m, e) =>
        \E a \in Archives : m = a.name /\ e = Stats(a) /\ Comes(T, ops, n, "archives", m, CatalogArchive(a)))
  BY <1>1
<1>3. (\A m, e : Comes(T2, ops2, n2, "archives", m, e) =>
        \E a \in Archives : m = a.name /\ e = CatalogArchive(a) /\ Comes(T2, ops2, n2, "stats", m, Stats(a)))
      <=>
      (\A m, e : Comes(T, ops, n, "archives", m, e) =>
        \E a \in Archives : m = a.name /\ e = CatalogArchive(a) /\ Comes(T, ops, n, "stats", m, Stats(a)))
  BY <1>1
<1>4. (\A k, e : Comes(T2, ops2, n2, "files", k, e) => \E e2 : Comes(T2, ops2, n2, "archives", e.archive, e2))
      <=> (\A k, e : Comes(T, ops, n, "files", k, e) => \E e2 : Comes(T, ops, n, "archives", e.archive, e2))
  BY <1>1
<1>5. (\A k, e : Comes(T2, ops2, n2, "path_index", k, e) =>
        \E m, e2 : Comes(T2, ops2, n2, "archives", m, e2) /\ IsSuffix(Key(<< >>, m), k))
      <=>
      (\A k, e : Comes(T, ops, n, "path_index", k, e) =>
        \E m, e2 : Comes(T, ops, n, "archives", m, e2) /\ IsSuffix(Key(<< >>, m), k))
  BY <1>1
<1> QED
  BY <1>2, <1>3, <1>4, <1>5 DEF Matched

LEMMA WriteMends ==
  ASSUME CatalogInv, Write
  PROVE  Mends(trees', agenda', hurt')
<1>1. CatalogTypeOK /\ Mends(trees, agenda, hurt)
  BY DEF CatalogInv
<1>2. Len(agenda) \in Nat \ {0} /\ Len(agenda') = Len(agenda) - 1
  BY <1>1, WriteShifts
<1> SUFFICES ASSUME hurt' => \E j \in 1 .. Len(agenda') : agenda'[j].op = "done" /\ agenda'[j].all
             PROVE  Matched(trees', agenda', Len(agenda'))
  BY DEF Mends
<1>3. hurt => \E j \in 1 .. Len(agenda) : agenda[j].op = "done" /\ agenda[j].all
  <2> SUFFICES ASSUME hurt PROVE \E j \in 1 .. Len(agenda) : agenda[j].op = "done" /\ agenda[j].all
    OBVIOUS
  <2>1. CASE hurt'
    <3>1. PICK j \in 1 .. Len(agenda') : agenda'[j].op = "done" /\ agenda'[j].all
      BY <2>1
    <3>2. agenda'[j] = agenda[j + 1] /\ j + 1 \in 1 .. Len(agenda)
      <4>1. j + 1 \in 1 .. Len(agenda)
        BY <1>2
      <4> QED
        BY <1>1, <4>1, WriteShifts
    <3> QED
      BY <3>1, <3>2
  <2>2. CASE ~ hurt'
    <3>1. OpOK(agenda[1]) /\ agenda[1].op # "panic" /\ 1 \in 1 .. Len(agenda)
      BY <1>1, <1>2, WriteIs
    <3>2. agenda[1].op = "done"
      <4>1. agenda[1].op \in {"put", "drop"} => hurt' = hurt
        BY <1>1, WriteIs
      <4> QED
        BY <2>2, <3>1, <4>1 DEF OpOK
    <3>3. hurt' = (hurt /\ ~ agenda[1].all)
      BY <1>1, <3>2, WriteIs
    <3>4. agenda[1].all
      BY <2>2, <3>3
    <3> QED
      BY <3>1, <3>2, <3>4
  <2> QED
    BY <2>1, <2>2
<1>4. Matched(trees, agenda, Len(agenda))
  BY <1>1, <1>3 DEF Mends
<1>5. Len(agenda') \in 0 .. Len(agenda') /\ Len(agenda') + 1 = Len(agenda)
  BY <1>2
<1>6. \A t \in Trees : \A k, e :
        Comes(trees', agenda', Len(agenda'), t, k, e) <=> Comes(trees, agenda, Len(agenda), t, k, e)
  BY <1>1, <1>5, WriteShifts
<1> QED
  BY <1>4, <1>6, SameMatched

LEMMA WriteInv ==
  ASSUME CatalogInv, Write
  PROVE  CatalogInv'
<1>1. CatalogTypeOK
  BY DEF CatalogInv
<1>2. CatalogTypeOK'
  BY <1>1, WriteType
<1>3. Located(trees', agenda', touched') /\ Exact(trees', agenda', indexed')
      /\ Apart(agenda', indexed') /\ Mends(trees', agenda', hurt')
  BY WriteLocated, WriteExact, WriteApart, WriteMends
<1> QED
  BY <1>2, <1>3 DEF CatalogInv

LEMMA NothingToDo ==
  /\ Len(<< >>) = 0 /\ OpsOK(<< >>)
  /\ \A n \in 0 .. Len(<< >>) : n = 0
  /\ \A j \in 1 .. Len(<< >>) : FALSE
<1>1. << >> \in Seq({}) /\ Len(<< >>) = 0
  BY EmptySeq
<1>2. (\A n \in 0 .. 0 : n = 0) /\ \A j \in 1 .. 0 : FALSE
  OBVIOUS
<1> QED
  BY <1>1, <1>2 DEF OpsOK

LEMMA CrashInv ==
  ASSUME CatalogInv, Crash
  PROVE  CatalogInv'
<1>1. agenda' = << >> /\ hurt' = TRUE /\ UNCHANGED <<repo, trees, indexed, touched, time>>
  BY DEF Crash
<1>2. CatalogTypeOK /\ 0 \in 0 .. Len(agenda)
  <2>1. Len(agenda) \in Nat
    BY LenProperties DEF CatalogInv, CatalogTypeOK, OpsOK
  <2> QED
    BY <2>1 DEF CatalogInv
<1>3. CatalogTypeOK'
  BY <1>1, <1>2, NothingToDo DEF CatalogTypeOK
<1>4. \A t, k, e : Comes(trees', agenda', 0, t, k, e) <=> Comes(trees, agenda, 0, t, k, e)
  BY <1>1, ComesFirst
<1>5. \A n \in 0 .. Len(agenda') : n = 0
  BY <1>1, NothingToDo
<1>6. Located(trees', agenda', touched')
  <2> SUFFICES ASSUME NEW k, NEW e, Comes(trees', agenda', 0, "files", k, e)
               PROVE  \E m \in Open(touched', agenda', 0) : Under(m, k)
    BY <1>5 DEF Located
  <2>1. \E m \in Open(touched, agenda, 0) : Under(m, k)
    BY <1>2, <1>4 DEF CatalogInv, Located
  <2>2. \A i \in 1 .. 0 : FALSE
    OBVIOUS
  <2> QED
    BY <1>1, <2>1, <2>2 DEF Open
<1>7. Exact(trees', agenda', indexed')
  <2> SUFFICES ASSUME NEW a \in Marks(indexed', agenda', 0)
               PROVE  /\ ExactAt(trees', agenda', 0, a)
                      /\ \A j \in 0 + 1 .. Len(agenda') : LeavesAlone(agenda'[j], a)
                      /\ Narrow(a) \/ \E j \in 1 .. 0 : agenda'[j].op = "panic"
    BY <1>5 DEF Exact
  <2>1. a \in Marks(indexed, agenda, 0)
    BY <1>1 DEF Marks
  <2>2. ExactAt(trees, agenda, 0, a) /\ (Narrow(a) \/ \E j \in 1 .. 0 : agenda[j].op = "panic")
    BY <1>2, <2>1 DEF CatalogInv, Exact
  <2>3. ExactAt(trees', agenda', 0, a)
    BY <1>4, <2>2 DEF ExactAt
  <2>4. \A j \in 1 .. 0 : FALSE
    OBVIOUS
  <2>5. \A j \in 0 + 1 .. Len(agenda') : FALSE
    BY <1>1, NothingToDo
  <2> QED
    BY <2>2, <2>3, <2>4, <2>5
<1>8. Apart(agenda', indexed')
  <2>1. Marks(indexed', agenda', 0) = Marks(indexed, agenda, 0)
    BY <1>1 DEF Marks
  <2> QED
    BY <1>2, <1>5, <2>1 DEF CatalogInv, Apart
<1>9. Mends(trees', agenda', hurt')
  <2>1. \A j \in 1 .. Len(agenda') : FALSE
    BY <1>1, NothingToDo
  <2> QED
    BY <1>1, <2>1 DEF Mends
<1> QED
  BY <1>3, <1>6, <1>7, <1>8, <1>9 DEF CatalogInv

\* What changes the repository alone.
LEMMA OthersInv ==
  ASSUME CatalogInv, UNCHANGED <<trees, agenda, indexed, touched, hurt>>,
         repo' \in Seq(Archives), time' \in Nat
  PROVE  CatalogInv'
<1>1. trees' = trees /\ agenda' = agenda /\ indexed' = indexed /\ touched' = touched /\ hurt' = hurt
  OBVIOUS
<1>2. CatalogTypeOK'
  BY <1>1 DEF CatalogInv, CatalogTypeOK
<1>3. /\ Located(trees', agenda', touched') /\ Exact(trees', agenda', indexed')
      /\ Apart(agenda', indexed') /\ Mends(trees', agenda', hurt')
  BY <1>1 DEF CatalogInv
<1> QED
  BY <1>2, <1>3 DEF CatalogInv

LEMMA CreateInv ==
  ASSUME CatalogInv, NEW name \in Names, NEW contents \in Contents, Create(name, contents)
  PROVE  CatalogInv'
<1>1. repo \in Seq(Archives) /\ time \in Nat
  BY DEF CatalogInv, CatalogTypeOK
<1>2. time' = time + 1 /\ repo' = Append(repo, [name |-> name, time |-> time', items |-> contents])
  BY DEF Create
<1>3. time' \in Nat
  BY <1>1, <1>2
<1>4. [name |-> name, time |-> time', items |-> contents] \in Archives
  BY <1>3 DEF Archives
<1>5. repo' \in Seq(Archives)
  BY <1>1, <1>2, <1>4, AppendProperties
<1> QED
  BY <1>3, <1>5, OthersInv DEF Create

\* Without its element at i.
LEMMA RemoveAtIs ==
  ASSUME NEW U, NEW s \in Seq(U), NEW i \in 1 .. Len(s)
  PROVE  /\ RemoveAt(s, i) \in Seq(U) /\ Len(RemoveAt(s, i)) = Len(s) - 1
         /\ \A j \in 1 .. Len(s) - 1 : RemoveAt(s, i)[j] = IF j < i THEN s[j] ELSE s[j + 1]
<1>1. PICK n \in Nat : n = Len(s)
  BY LenProperties
<1>2. i \in 1 .. n /\ i \in Nat
  BY <1>1
<1>3. /\ \A j \in 1 .. i - 1 : s[j] \in U
      /\ \A j \in i + 1 .. n : s[j] \in U
  <2>1. /\ \A j \in 1 .. i - 1 : j \in 1 .. n
        /\ \A j \in i + 1 .. n : j \in 1 .. n
    BY <1>2
  <2> QED
    BY <1>1, <2>1, ElementOfSeq
<1>4. PICK a : a = SubSeq(s, 1, i - 1)
  OBVIOUS
<1>5. PICK b : b = SubSeq(s, i + 1, n)
  OBVIOUS
<1>6. a \in Seq(U) /\ Len(a) = i - 1 /\ \A j \in 1 .. i - 1 : a[j] = s[j]
  <2>1. /\ SubSeq(s, 1, i - 1) \in Seq(U)
        /\ Len(SubSeq(s, 1, i - 1)) = IF 1 <= i - 1 THEN (i - 1) - 1 + 1 ELSE 0
        /\ \A j \in 1 .. (i - 1) - 1 + 1 : SubSeq(s, 1, i - 1)[j] = s[1 + j - 1]
    BY <1>2, <1>3, SubSeqProperties
  <2>2. (IF 1 <= i - 1 THEN (i - 1) - 1 + 1 ELSE 0) = i - 1 /\ (i - 1) - 1 + 1 = i - 1
    BY <1>2
  <2>3. \A j \in 1 .. i - 1 : 1 + j - 1 = j
    BY <1>2
  <2> QED
    BY <1>4, <2>1, <2>2, <2>3
<1>7. b \in Seq(U) /\ Len(b) = n - i /\ \A j \in 1 .. n - i : b[j] = s[i + j]
  <2>1. /\ SubSeq(s, i + 1, n) \in Seq(U)
        /\ Len(SubSeq(s, i + 1, n)) = IF i + 1 <= n THEN n - (i + 1) + 1 ELSE 0
        /\ \A j \in 1 .. n - (i + 1) + 1 : SubSeq(s, i + 1, n)[j] = s[(i + 1) + j - 1]
    BY <1>2, <1>3, SubSeqProperties
  <2>2. (IF i + 1 <= n THEN n - (i + 1) + 1 ELSE 0) = n - i /\ n - (i + 1) + 1 = n - i
    BY <1>2
  <2>3. \A j \in 1 .. n - i : (i + 1) + j - 1 = i + j
    BY <1>2
  <2> QED
    BY <1>5, <2>1, <2>2, <2>3
<1>8. /\ a \o b \in Seq(U) /\ Len(a \o b) = (i - 1) + (n - i)
      /\ \A j \in 1 .. i - 1 : (a \o b)[j] = a[j]
      /\ \A j \in 1 .. n - i : (a \o b)[(i - 1) + j] = b[j]
  <2>1. i - 1 \in Nat /\ n - i \in Nat
    BY <1>2
  <2>2. /\ a \o b \in Seq(U)
        /\ \A p, q \in Nat : p = Len(a) /\ q = Len(b) =>
             /\ Len(a \o b) = p + q
             /\ \A j \in 1 .. p : (a \o b)[j] = a[j]
             /\ \A j \in 1 .. q : (a \o b)[p + j] = b[j]
    <3>1. a \in Seq(U) /\ b \in Seq(U)
      BY <1>6, <1>7
    <3> QED
      BY <3>1, Joined, SMTT(30)
  <2>3. i - 1 = Len(a) /\ n - i = Len(b)
    BY <1>6, <1>7
  <2>4. PICK p \in Nat, q \in Nat : p = i - 1 /\ q = n - i
    BY <2>1
  <2>5. /\ Len(a \o b) = p + q
        /\ \A j \in 1 .. p : (a \o b)[j] = a[j]
        /\ \A j \in 1 .. q : (a \o b)[p + j] = b[j]
    BY <2>2, <2>3, <2>4, Zenon
  <2> QED
    BY <2>2, <2>4, <2>5
<1>9. (i - 1) + (n - i) = n - 1
  BY <1>2
<1>10. \A j \in 1 .. n - 1 : (a \o b)[j] = IF j < i THEN s[j] ELSE s[j + 1]
  <2> SUFFICES ASSUME NEW j \in 1 .. n - 1
               PROVE  (a \o b)[j] = IF j < i THEN s[j] ELSE s[j + 1]
    OBVIOUS
  <2>2. CASE j < i
    <3>1. j \in 1 .. i - 1
      BY <1>2, <2>2
    <3> QED
      BY <1>6, <1>8, <2>2, <3>1
  <2>3. CASE ~ (j < i)
    <3>1. PICK m \in 1 .. n - i : m = j - (i - 1)
      BY <1>2, <2>3
    <3>2. (i - 1) + m = j /\ i + m = j + 1
      BY <1>2, <3>1
    <3> QED
      BY <1>7, <1>8, <2>3, <3>2
  <2> QED
    BY <2>2, <2>3
<1>11. RemoveAt(s, i) = a \o b
  BY <1>1, <1>4, <1>5 DEF RemoveAt
<1> QED
  BY <1>1, <1>8, <1>9, <1>10, <1>11

LEMMA DeleteIs ==
  ASSUME CatalogTypeOK, NEW name, Delete(name)
  PROVE  \E i \in 1 .. Len(repo) : repo' = RemoveAt(repo, i)
<1> DEFINE I == {i \in 1 .. Len(repo) : repo[i].name = name}
<1>1. Len(repo) \in Nat /\ DOMAIN repo = 1 .. Len(repo)
  BY LenProperties DEF CatalogTypeOK
<1>2. I # {} /\ I \in SUBSET Nat
  BY <1>1 DEF Delete
<1>3. \E i \in I : \A j \in I : i <= j
  <2> HIDE DEF I
  <2> QED
    BY <1>2, LeastNumber
<1>4. Min(I) \in I
  BY <1>3 DEF Min
<1>5. repo' = RemoveAt(repo, Min(I))
  BY <1>2 DEF Delete, RemoveFirstMatch, SelectInSeq
<1> QED
  BY <1>4, <1>5

LEMMA DeleteInv ==
  ASSUME CatalogInv, NEW name, Delete(name)
  PROVE  CatalogInv'
<1>1. CatalogTypeOK /\ repo \in Seq(Archives) /\ time \in Nat
  BY DEF CatalogInv, CatalogTypeOK
<1>2. repo' \in Seq(Archives)
  BY <1>1, DeleteIs, RemoveAtIs
<1>3. UNCHANGED <<trees, agenda, indexed, touched, hurt, time>>
  BY DEF Delete
<1> QED
  BY <1>1, <1>2, <1>3, OthersInv

LEMMA InitInv == CatalogInit => CatalogInv
<1> SUFFICES ASSUME CatalogInit PROVE CatalogInv
  OBVIOUS
<1>1. /\ repo = << >> /\ trees = NewDatabase /\ agenda = << >>
      /\ indexed = {} /\ touched = {} /\ hurt = FALSE /\ time = 0
  BY DEF CatalogInit
<1>2. \A t \in Trees : DOMAIN trees[t] = {}
  <2>1. \A t \in Trees : trees[t] = << >>
    BY <1>1 DEF NewDatabase, Trees
  <2> QED
    BY <2>1
<1>3. \A t \in Trees : \A k, e : ~ Has(trees, t, k, e)
  BY <1>2 DEF Has
<1>4. TreesOK(trees)
  <2>1. trees = [t \in Trees |-> trees[t]]
    BY <1>1 DEF NewDatabase, Trees
  <2>2. \A t \in {"archives", "files"} : IsFiniteSet(DOMAIN trees[t])
    BY <1>2, FS_EmptySet DEF Trees
  <2> QED
    BY <1>2, <2>1, <2>2 DEF TreesOK
<1>5. CatalogTypeOK
  BY <1>1, <1>4, NothingToDo, EmptySeq DEF CatalogTypeOK
<1>6. Len(agenda) = 0 /\ \A n \in 0 .. Len(agenda) : n = 0
  BY <1>1, NothingToDo
<1>7. \A t \in Trees : \A k, e : ~ Comes(trees, agenda, 0, t, k, e)
  BY <1>3, ComesFirst
<1>8. Located(trees, agenda, touched)
  BY <1>6, <1>7 DEF Located, Trees
<1>9. Exact(trees, agenda, indexed) /\ Apart(agenda, indexed)
  BY <1>1, <1>6 DEF Exact, Apart, Marks
<1>10. Mends(trees, agenda, hurt)
  BY <1>6, <1>7 DEF Mends, Matched, Trees
<1> QED
  BY <1>5, <1>8, <1>9, <1>10 DEF CatalogInv


-------------------------------------------------------------------------------
(***************************************************************************)
(* What indexing an archive does                                           *)
(***************************************************************************)

ArchivePut(a) == Put("archives", Entry(a.name, CatalogArchive(a)))
StatsPut(a) == Put("stats", Entry(a.name, Stats(a)))
FilePut(a, p) == Put("files", Entry(Key(a.name, p), CatalogFile(a, p)))
IndexPut(a, p) == Put("path_index", [k \in {Key(prefix, a.name) : prefix \in Prefixes_of(p)} |-> p])

IndexOps(a) ==
  {ArchivePut(a), StatsPut(a), Panic} \cup UNION {{FilePut(a, p), IndexPut(a, p)} : p \in DOMAIN a.items}

\* The pieces of Index_archive.
ItemsOf(a) == [i \in 1 .. Cardinality(DOMAIN a.items) |-> Index_item(a, SetToSeq(DOMAIN a.items)[i])]

LEMMA ItemSeq ==
  ASSUME NEW a \in Archives, NEW p \in DOMAIN a.items
  PROVE  /\ Index_item(a, p) \in Seq(IndexOps(a))
         /\ \E i \in 1 .. Len(Index_item(a, p)) : Index_item(a, p)[i] = FilePut(a, p)
         /\ (\E i \in DOMAIN p : p[i] \in Wide) =>
              \E i \in 1 .. Len(Index_item(a, p)) : Index_item(a, p)[i] = Panic
<1> DEFINE s == <<FilePut(a, p), IndexPut(a, p)>>
           t == IF \E i \in DOMAIN p : p[i] \in Wide THEN <<Panic>> ELSE << >>
<1>1. Index_item(a, p) = s \o t
  BY DEF Index_item, FilePut, IndexPut
<1>2. FilePut(a, p) \in IndexOps(a) /\ IndexPut(a, p) \in IndexOps(a) /\ Panic \in IndexOps(a)
  BY DEF IndexOps
<1>3. s \in Seq(IndexOps(a)) /\ Len(s) = 2 /\ s[1] = FilePut(a, p)
  <2> HIDE DEF FilePut, IndexPut
  <2>1. PICK x, y : x = FilePut(a, p) /\ y = IndexPut(a, p)
    OBVIOUS
  <2>2. x \in IndexOps(a) /\ y \in IndexOps(a)
    BY <1>2, <2>1
  <2>3. <<x, y>> \in Seq(IndexOps(a)) /\ Len(<<x, y>>) = 2 /\ <<x, y>>[1] = x
    BY <2>2
  <2> QED
    BY <2>1, <2>3
<1>4. t \in Seq(IndexOps(a)) /\ Len(t) \in Nat
      /\ ((\E i \in DOMAIN p : p[i] \in Wide) => Len(t) = 1 /\ t[1] = Panic)
  <2>1. <<Panic>> \in Seq(IndexOps(a)) /\ Len(<<Panic>>) = 1 /\ <<Panic>>[1] = Panic
    <3>1. PICK x : x = Panic
      OBVIOUS
    <3>2. x \in IndexOps(a)
      BY <1>2, <3>1
    <3>3. <<x>> \in Seq(IndexOps(a)) /\ Len(<<x>>) = 1 /\ <<x>>[1] = x
      BY <3>2
    <3> QED
      BY <3>1, <3>3
  <2>2. << >> \in Seq(IndexOps(a)) /\ Len(<< >>) = 0
    BY EmptySeq
  <2> QED
    BY <2>1, <2>2
<1> HIDE DEF s, t
<1>5. /\ s \o t \in Seq(IndexOps(a))
      /\ \A m, n \in Nat : m = Len(s) /\ n = Len(t) =>
           /\ Len(s \o t) = m + n
           /\ \A i \in 1 .. m : (s \o t)[i] = s[i]
           /\ \A i \in 1 .. n : (s \o t)[m + i] = t[i]
  <2>1. s \in Seq(IndexOps(a)) /\ t \in Seq(IndexOps(a))
    BY <1>3, <1>4
  <2> QED
    BY <2>1, Joined, SMTT(30)
<1>6. PICK n \in Nat : n = Len(t)
  BY <1>4
<1>7. Len(s \o t) = 2 + n /\ (s \o t)[1] = s[1] /\ (n = 1 => (s \o t)[3] = t[1])
  <2>1. /\ Len(s \o t) = 2 + n
        /\ \A i \in 1 .. 2 : (s \o t)[i] = s[i]
        /\ \A i \in 1 .. n : (s \o t)[2 + i] = t[i]
    BY <1>3, <1>5, <1>6
  <2>2. 1 \in 1 .. 2 /\ 2 + 1 = 3 /\ (n = 1 => 1 \in 1 .. n)
    OBVIOUS
  <2> QED
    BY <2>1, <2>2
<1>8. 1 \in 1 .. 2 + n /\ (n = 1 => 3 \in 1 .. 2 + n)
  BY <1>6
<1>9. \E i \in 1 .. Len(s \o t) : (s \o t)[i] = FilePut(a, p)
  BY <1>3, <1>7, <1>8
<1>10. (\E i \in DOMAIN p : p[i] \in Wide) => \E i \in 1 .. Len(s \o t) : (s \o t)[i] = Panic
  BY <1>4, <1>6, <1>7, <1>8
<1> QED
  BY <1>1, <1>5, <1>9, <1>10

\* The places of a list that is laid out: they go up, and each is one of a piece.
Spread(seqs, flat, after) ==
  /\ after[0] = 0 /\ after[Len(seqs)] = Len(flat)
  /\ \A i, j \in 0 .. Len(seqs) : i <= j => after[i] <= after[j]
  /\ \A i \in 1 .. Len(seqs) : after[i] = after[i - 1] + Len(seqs[i])
  /\ \A j \in 1 .. Len(flat) : \E i \in 1 .. Len(seqs) : \E m \in 1 .. Len(seqs[i]) :
       j = after[i - 1] + m /\ flat[j] = seqs[i][m]
  /\ \A i \in 1 .. Len(seqs) : \A m \in 1 .. Len(seqs[i]) :
       /\ after[i - 1] + m \in 1 .. Len(flat) /\ after[i - 1] + m <= after[i]
       /\ flat[after[i - 1] + m] = seqs[i][m]

LEMMA LaidOut ==
  ASSUME NEW U, NEW seqs \in Seq(Seq(U)), NEW flat \in Seq(U),
         NEW after \in [0 .. Len(seqs) -> Nat], Laid(seqs, flat, after)
  PROVE  Spread(seqs, flat, after)
<1>1. PICK N \in Nat : N = Len(seqs)
  BY LenProperties
<1>2. \A i \in 1 .. N : seqs[i] \in Seq(U) /\ Len(seqs[i]) \in Nat
  BY <1>1, LenProperties, ElementOfSeq
<1>3. /\ \A i \in 0 .. N : after[i] \in Nat
      /\ after[0] = 0 /\ after[N] = Len(flat)
      /\ \A i \in 1 .. N : after[i] = after[i - 1] + Len(seqs[i])
      /\ \A i \in 1 .. N : \A m \in 1 .. Len(seqs[i]) : flat[after[i - 1] + m] = seqs[i][m]
  BY <1>1 DEF Laid
<1>4. \A i \in 0 .. N - 1 : i + 1 \in 1 .. N /\ (i + 1) - 1 = i
  BY <1>1
<1>5. \A i \in 0 .. N - 1 : after[i + 1] = after[i] + Len(seqs[i + 1]) /\ Len(seqs[i + 1]) \in Nat
  BY <1>2, <1>3, <1>4
<1>6. \A n \in 0 .. N : n \in {k \in 0 .. N : \A i \in 0 .. k : after[i] <= after[k]}
  <2> DEFINE S == {k \in 0 .. N : \A i \in 0 .. k : after[i] <= after[k]}
  <2>1. 0 \in S
    BY <1>1, <1>3
  <2>2. ASSUME NEW n \in 0 .. N - 1, n \in S
        PROVE  n + 1 \in S
    <3>1. after[n] \in Nat /\ after[n + 1] \in Nat /\ after[n] <= after[n + 1] /\ n + 1 \in 0 .. N
      BY <1>1, <1>3, <1>5
    <3>2. \A i \in 0 .. n + 1 : i \in 0 .. n \/ i = n + 1
      BY <1>1
    <3>3. \A i \in 0 .. n : after[i] <= after[n] /\ after[i] \in Nat
      BY <2>2, <1>1, <1>3
    <3>4. \A i \in 0 .. n + 1 : after[i] <= after[n + 1]
      BY <3>1, <3>2, <3>3
    <3> QED
      BY <3>1, <3>4
  <2> HIDE DEF S
  <2>3. \A n \in 0 .. N : n \in S
    BY <1>1, <2>1, <2>2, UpTo
  <2> QED
    BY <2>3 DEF S
<1>7. \A i, j \in 0 .. N : i <= j => after[i] <= after[j]
  BY <1>1, <1>6
<1>8. \A n \in 0 .. N : n \in {k \in 0 .. N : \A j \in 1 .. after[k] :
        \E i \in 1 .. k : \E m \in 1 .. Len(seqs[i]) : j = after[i - 1] + m}
  <2> DEFINE S == {k \in 0 .. N : \A j \in 1 .. after[k] :
                     \E i \in 1 .. k : \E m \in 1 .. Len(seqs[i]) : j = after[i - 1] + m}
  <2>1. 0 \in S
    BY <1>1, <1>3
  <2>2. ASSUME NEW n \in 0 .. N - 1, n \in S
        PROVE  n + 1 \in S
    <3>1. /\ n + 1 \in 0 .. N /\ after[n] \in Nat /\ after[n + 1] = after[n] + Len(seqs[n + 1])
          /\ Len(seqs[n + 1]) \in Nat /\ (n + 1) - 1 = n /\ n + 1 \in 1 .. n + 1
      BY <1>1, <1>3, <1>5
    <3>2. SUFFICES ASSUME NEW j \in 1 .. after[n + 1]
                   PROVE  \E i \in 1 .. n + 1 : \E m \in 1 .. Len(seqs[i]) : j = after[i - 1] + m
      BY <3>1
    <3>3. CASE j <= after[n]
      <4>1. j \in 1 .. after[n]
        BY <3>1, <3>3
      <4>2. PICK i \in 1 .. n : \E m \in 1 .. Len(seqs[i]) : j = after[i - 1] + m
        BY <2>2, <4>1
      <4>3. i \in 1 .. n + 1
        BY <1>1
      <4> QED
        BY <4>2, <4>3
    <3>4. CASE ~ (j <= after[n])
      <4>1. j - after[n] \in 1 .. Len(seqs[n + 1]) /\ j = after[n] + (j - after[n])
        BY <3>1, <3>4
      <4> QED
        BY <3>1, <4>1
    <3> QED
      BY <3>3, <3>4
  <2> HIDE DEF S
  <2>3. \A n \in 0 .. N : n \in S
    BY <1>1, <2>1, <2>2, UpTo
  <2> QED
    BY <2>3 DEF S
<1>9. \A j \in 1 .. Len(flat) : \E i \in 1 .. N : \E m \in 1 .. Len(seqs[i]) : j = after[i - 1] + m
  <2>1. N \in 0 .. N
    BY <1>1
  <2> QED
    BY <1>3, <1>8, <2>1
<1>10. \A j \in 1 .. Len(flat) : \E i \in 1 .. N : \E m \in 1 .. Len(seqs[i]) :
         j = after[i - 1] + m /\ flat[j] = seqs[i][m]
  BY <1>3, <1>9
<1>11. ASSUME NEW i \in 1 .. N, NEW m \in 1 .. Len(seqs[i])
       PROVE  after[i - 1] + m \in 1 .. Len(flat) /\ after[i - 1] + m <= after[i]
  <2>1. /\ i \in 0 .. N /\ N \in 0 .. N /\ i <= N /\ i - 1 \in 0 .. N /\ i \in Int /\ N \in Int
        /\ Len(seqs[i]) \in Nat
    BY <1>1, <1>2
  <2>2. after[i] <= after[N]
    BY <1>7, <2>1
  <2>3. after[i] \in Nat /\ after[i - 1] \in Nat /\ after[N] \in Nat /\ after[i] = after[i - 1] + Len(seqs[i])
        /\ after[N] = Len(flat)
    BY <1>3, <2>1
  <2>4. PICK x, y, z, l \in Nat : /\ x = after[i - 1] /\ y = after[i] /\ z = after[N] /\ l = Len(seqs[i])
    BY <2>1, <2>3
  <2>5. y = x + l /\ y <= z /\ m \in 1 .. l /\ z = Len(flat)
    BY <2>2, <2>3, <2>4
  <2>6. x + m \in 1 .. z /\ x + m <= y
    BY <2>5
  <2> QED
    BY <2>4, <2>5, <2>6
<1> QED
  BY <1>1, <1>3, <1>7, <1>10, <1>11 DEF Spread

LEMMA FlattenSpread ==
  ASSUME NEW U, NEW seqs \in Seq(Seq(U))
  PROVE  /\ FlattenSeq(seqs) \in Seq(U)
         /\ \E after \in [0 .. Len(seqs) -> Nat] : Spread(seqs, FlattenSeq(seqs), after)
<1>1. FlattenSeq(seqs) \in Seq(U)
  BY FlattenIs
<1>2. PICK after \in [0 .. Len(seqs) -> Nat] : Laid(seqs, FlattenSeq(seqs), after)
  BY FlattenIs
<1>3. Spread(seqs, FlattenSeq(seqs), after)
  BY <1>1, <1>2, LaidOut
<1> QED
  BY <1>1, <1>3

LEMMA IndexSeq ==
  ASSUME NEW a \in Archives
  PROVE  /\ Index_archive(a) \in Seq(IndexOps(a))
         /\ \E i \in 1 .. Len(Index_archive(a)) : Index_archive(a)[i] = ArchivePut(a)
         /\ \E i \in 1 .. Len(Index_archive(a)) : Index_archive(a)[i] = StatsPut(a)
         /\ \A p \in DOMAIN a.items : \E i \in 1 .. Len(Index_archive(a)) : Index_archive(a)[i] = FilePut(a, p)
         /\ Narrow(a) \/ \E i \in 1 .. Len(Index_archive(a)) : Index_archive(a)[i] = Panic
<1> DEFINE U == IndexOps(a)
           first == <<ArchivePut(a)>>
           flat == FlattenSeq(ItemsOf(a))
           last == <<StatsPut(a)>>
           order == SetToSeq(DOMAIN a.items)
           N == Cardinality(DOMAIN a.items)
<1>1. IsFiniteSet(DOMAIN a.items) /\ N \in Nat
  BY ContentsAssumption, FS_CardinalityType DEF Archives
<1>2. /\ order \in Seq(DOMAIN a.items) /\ Len(order) = N
      /\ \A p \in DOMAIN a.items : \E i \in 1 .. N : order[i] = p
  BY <1>1, SetToSeqIs
<1>3. \A i \in 1 .. N : order[i] \in DOMAIN a.items
  BY <1>1, <1>2, ElementOfSeq
<1>4. ItemsOf(a) \in Seq(Seq(U)) /\ Len(ItemsOf(a)) = N /\ \A i \in 1 .. N : ItemsOf(a)[i] = Index_item(a, order[i])
  <2>1. \A i \in 1 .. N : Index_item(a, order[i]) \in Seq(U)
    BY <1>3, ItemSeq
  <2>2. ItemsOf(a) \in [1 .. N -> Seq(U)] /\ \A i \in 1 .. N : ItemsOf(a)[i] = Index_item(a, order[i])
    BY <2>1 DEF ItemsOf
  <2> QED
    BY <1>1, <2>2
<1>5. flat \in Seq(U) /\ \A i \in 1 .. N : \A m \in 1 .. Len(ItemsOf(a)[i]) :
        \E j \in 1 .. Len(flat) : flat[j] = ItemsOf(a)[i][m]
  <2>1. flat \in Seq(U) /\ \E after \in [0 .. Len(ItemsOf(a)) -> Nat] : Spread(ItemsOf(a), flat, after)
    BY <1>4, FlattenSpread
  <2>2. PICK after \in [0 .. Len(ItemsOf(a)) -> Nat] : Spread(ItemsOf(a), flat, after)
    BY <2>1
  <2> HIDE DEF flat, U
  <2>3. \A i \in 1 .. Len(ItemsOf(a)) : \A m \in 1 .. Len(ItemsOf(a)[i]) :
              /\ after[i - 1] + m \in 1 .. Len(flat)
              /\ flat[after[i - 1] + m] = ItemsOf(a)[i][m]
    BY <2>2 DEF Spread
  <2> QED
    BY <1>4, <2>1, <2>3
<1>6. Index_archive(a) = (first \o flat) \o last
  BY DEF Index_archive, ItemsOf, ArchivePut, StatsPut
<1>7. first \in Seq(U) /\ last \in Seq(U) /\ Len(first) = 1 /\ Len(last) = 1
      /\ first[1] = ArchivePut(a) /\ last[1] = StatsPut(a)
  <2>1. ArchivePut(a) \in U /\ StatsPut(a) \in U
    BY DEF IndexOps
  <2>2. PICK x, y : x = ArchivePut(a) /\ y = StatsPut(a)
    OBVIOUS
  <2>3. <<x>> \in Seq(U) /\ <<y>> \in Seq(U) /\ Len(<<x>>) = 1 /\ Len(<<y>>) = 1 /\ <<x>>[1] = x /\ <<y>>[1] = y
    BY <2>1, <2>2
  <2> QED
    BY <2>2, <2>3
<1> HIDE DEF first, flat, last
<1>8. PICK n \in Nat : n = Len(flat)
  BY <1>5, LenProperties
<1>9. /\ first \o flat \in Seq(U) /\ Len(first \o flat) = n + 1
      /\ (first \o flat)[1] = first[1]
      /\ \A i \in 1 .. n : (first \o flat)[1 + i] = flat[i]
  <2>1. first \in Seq(U) /\ flat \in Seq(U)
    BY <1>5, <1>7
  <2>2. /\ first \o flat \in Seq(U) /\ Len(first \o flat) = 1 + n
        /\ \A i \in 1 .. 1 : (first \o flat)[i] = first[i]
        /\ \A i \in 1 .. n : (first \o flat)[1 + i] = flat[i]
    <3>1. /\ first \o flat \in Seq(U)
          /\ \A m, k \in Nat : m = Len(first) /\ k = Len(flat) =>
               /\ Len(first \o flat) = m + k
               /\ \A i \in 1 .. m : (first \o flat)[i] = first[i]
               /\ \A i \in 1 .. k : (first \o flat)[m + i] = flat[i]
      BY <2>1, Joined, SMTT(30)
    <3> QED
      BY <1>7, <1>8, <3>1
  <2> QED
    BY <2>2
<1>10. /\ (first \o flat) \o last \in Seq(U) /\ Len((first \o flat) \o last) = n + 2
       /\ \A i \in 1 .. n + 1 : ((first \o flat) \o last)[i] = (first \o flat)[i]
       /\ ((first \o flat) \o last)[n + 2] = last[1]
  <2>1. first \o flat \in Seq(U) /\ last \in Seq(U)
    BY <1>7, <1>9
  <2>2. PICK s : s = first \o flat
    OBVIOUS
  <2>3. /\ s \o last \in Seq(U)
        /\ \A m, k \in Nat : m = Len(s) /\ k = Len(last) =>
             /\ Len(s \o last) = m + k
             /\ \A i \in 1 .. m : (s \o last)[i] = s[i]
             /\ \A i \in 1 .. k : (s \o last)[m + i] = last[i]
    <3> HIDE DEF U
    <3>1. s \in Seq(U) /\ last \in Seq(U)
      BY <2>1, <2>2
    <3> QED
      BY <3>1, Joined, SMTT(30)
  <2>4. n + 1 \in Nat /\ n + 1 = Len(s) /\ 1 = Len(last) /\ (n + 1) + 1 = n + 2 /\ 1 \in 1 .. 1
    BY <1>7, <1>9, <2>2
  <2>5. /\ Len(s \o last) = (n + 1) + 1
        /\ \A i \in 1 .. n + 1 : (s \o last)[i] = s[i]
        /\ \A i \in 1 .. 1 : (s \o last)[(n + 1) + i] = last[i]
    BY <2>3, <2>4
  <2> QED
    BY <2>2, <2>3, <2>4, <2>5
<1> DEFINE all == (first \o flat) \o last
<1>11. /\ all \in Seq(U) /\ Len(all) = n + 2 /\ all[1] = ArchivePut(a) /\ all[n + 2] = StatsPut(a)
       /\ \A i \in 1 .. n : all[1 + i] = flat[i]
  <2>1. 1 \in 1 .. n + 1 /\ \A i \in 1 .. n : 1 + i \in 1 .. n + 1
    BY <1>8
  <2> QED
    BY <1>7, <1>9, <1>10, <2>1
<1> HIDE DEF all
<1>12. 1 \in 1 .. n + 2 /\ n + 2 \in 1 .. n + 2 /\ \A i \in 1 .. n : 1 + i \in 1 .. n + 2
  BY <1>8
<1>13. \A i \in 1 .. N : \A m \in 1 .. Len(ItemsOf(a)[i]) : \E j \in 1 .. n + 2 : all[j] = ItemsOf(a)[i][m]
  BY <1>5, <1>8, <1>11, <1>12
<1>14. ASSUME NEW p \in DOMAIN a.items
       PROVE  \E j \in 1 .. n + 2 : all[j] = FilePut(a, p)
  <2>1. PICK i \in 1 .. N : order[i] = p
    BY <1>2
  <2>2. ItemsOf(a)[i] = Index_item(a, p)
    BY <1>4, <2>1
  <2>3. \E m \in 1 .. Len(ItemsOf(a)[i]) : ItemsOf(a)[i][m] = FilePut(a, p)
    BY <2>2, ItemSeq
  <2> QED
    BY <1>13, <2>3
<1>15. Narrow(a) \/ \E j \in 1 .. n + 2 : all[j] = Panic
  <2> SUFFICES ASSUME ~ Narrow(a) PROVE \E j \in 1 .. n + 2 : all[j] = Panic
    OBVIOUS
  <2>1. PICK p \in DOMAIN a.items : \E i \in DOMAIN p : p[i] \in Wide
    BY DEF Narrow
  <2>2. PICK i \in 1 .. N : order[i] = p
    BY <1>2
  <2>3. ItemsOf(a)[i] = Index_item(a, p)
    BY <1>4, <2>2
  <2>4. \E m \in 1 .. Len(ItemsOf(a)[i]) : ItemsOf(a)[i][m] = Panic
    BY <2>1, <2>3, ItemSeq
  <2> QED
    BY <1>13, <2>4
<1>16. Index_archive(a) = all
  BY <1>6 DEF all
<1> QED
  BY <1>11, <1>12, <1>14, <1>15, <1>16

LEMMA PrefixesAreKeys ==
  ASSUME NEW a \in Archives, NEW p \in DOMAIN a.items
  PROVE  Prefixes_of(p) \subseteq Seq(Chars)
<1> DEFINE wide == {i \in DOMAIN p : p[i] \in Wide}
           last == IF wide = {} THEN Len(p) ELSE Min(wide) - 1
<1>1. p \in Seq(STRING)
  BY ContentsAssumption DEF Archives
<1>2. Len(p) \in Nat /\ DOMAIN p = 1 .. Len(p) /\ \A i \in 1 .. Len(p) : p[i] \in STRING
  BY <1>1, LenProperties, ElementOfSeq
<1>3. last \in Nat /\ last <= Len(p)
  <2>1. CASE wide = {}
    BY <1>2, <2>1
  <2>2. CASE wide # {}
    <3>1. wide \in SUBSET Nat /\ wide \subseteq 1 .. Len(p)
      BY <1>2
    <3> HIDE DEF wide
    <3>2. \E i \in wide : \A j \in wide : i <= j
      BY <2>2, <3>1, LeastNumber
    <3>3. Min(wide) \in wide
      BY <3>2 DEF Min
    <3>4. Min(wide) \in 1 .. Len(p)
      BY <3>1, <3>3
    <3>5. last = Min(wide) - 1
      BY <2>2
    <3> QED
      BY <1>2, <3>4, <3>5
  <2> QED
    BY <2>1, <2>2
<1>4. Prefixes_of(p) = {[j \in 1 .. i |-> Lower(p[j])] : i \in 1 .. last}
  BY DEF Prefixes_of
<1> HIDE DEF last
<1>5. \A i \in 1 .. last : [j \in 1 .. i |-> Lower(p[j])] \in Seq(Chars)
  <2> SUFFICES ASSUME NEW i \in 1 .. last PROVE [j \in 1 .. i |-> Lower(p[j])] \in Seq(Chars)
    OBVIOUS
  <2>1. i \in Nat /\ \A j \in 1 .. i : j \in 1 .. Len(p)
    BY <1>2, <1>3
  <2>2. \A j \in 1 .. i : Lower(p[j]) \in Chars
    BY <1>2, <2>1 DEF Chars
  <2>3. [j \in 1 .. i |-> Lower(p[j])] \in [1 .. i -> Chars]
    BY <2>2
  <2> QED
    BY <2>1, <2>3
<1> QED
  BY <1>4, <1>5

LEMMA IndexPuts ==
  ASSUME NEW a, NEW p
  PROVE  /\ Puts(ArchivePut(a), "archives", a.name, CatalogArchive(a))
         /\ Puts(StatsPut(a), "stats", a.name, Stats(a))
         /\ Puts(FilePut(a, p), "files", Key(a.name, p), CatalogFile(a, p))
<1>1. \A key, value : DOMAIN Entry(key, value) = {key} /\ Entry(key, value)[key] = value
  BY DEF Entry
<1> QED
  BY <1>1 DEF Puts, ArchivePut, StatsPut, FilePut, Put

LEMMA IndexTouches ==
  ASSUME NEW a \in Archives, NEW op \in IndexOps(a)
  PROVE  /\ OpOK(op) /\ op.op \in {"put", "panic"}
         /\ \A t, k : Touches(op, t, k) => \E e : Puts(op, t, k, e)
         /\ \A k : Touches(op, "archives", k) => k = a.name /\ Puts(op, "archives", k, CatalogArchive(a))
         /\ \A k : Touches(op, "stats", k) => k = a.name /\ Puts(op, "stats", k, Stats(a))
         /\ \A k : Touches(op, "files", k) =>
              \E p \in DOMAIN a.items : k = Key(a.name, p) /\ Puts(op, "files", k, CatalogFile(a, p))
         /\ \A k : Touches(op, "path_index", k) => IsSuffix(Key(<< >>, a.name), k)
<1>2. a.name \in Seq(Chars)
  BY NamesAreKeys DEF Archives
<1>3. CASE op = ArchivePut(a)
  <2>1. /\ op.op = "put" /\ op.tree = "archives"
        /\ DOMAIN op.entries = {a.name} /\ op.entries[a.name] = CatalogArchive(a)
    <3>1. op.op = "put" /\ op.tree = "archives" /\ op.entries = Entry(a.name, CatalogArchive(a))
      BY <1>3 DEF ArchivePut, Put
    <3> QED
      BY <3>1 DEF Entry
  <2>2. IsFiniteSet(DOMAIN op.entries)
    BY <2>1, FS_Singleton
  <2>3. OpOK(op)
    BY <2>1, <2>2 DEF OpOK, Trees, Fits
  <2> QED
    BY <2>1, <2>3 DEF Touches, Puts
<1>4. CASE op = StatsPut(a)
  <2>1. /\ op.op = "put" /\ op.tree = "stats"
        /\ DOMAIN op.entries = {a.name} /\ op.entries[a.name] = Stats(a)
    <3>1. op.op = "put" /\ op.tree = "stats" /\ op.entries = Entry(a.name, Stats(a))
      BY <1>4 DEF StatsPut, Put
    <3> QED
      BY <3>1 DEF Entry
  <2>2. OpOK(op)
    BY <2>1 DEF OpOK, Trees, Fits
  <2> QED
    BY <2>1, <2>2 DEF Touches, Puts
<1>5. CASE op = Panic
  BY <1>5 DEF Panic, OpOK, Touches
<1>6. ASSUME NEW p \in DOMAIN a.items, op = FilePut(a, p)
      PROVE  /\ OpOK(op) /\ op.op \in {"put", "panic"}
             /\ \A t, k : Touches(op, t, k) => \E e : Puts(op, t, k, e)
             /\ \A k : Touches(op, "archives", k) => k = a.name /\ Puts(op, "archives", k, CatalogArchive(a))
             /\ \A k : Touches(op, "stats", k) => k = a.name /\ Puts(op, "stats", k, Stats(a))
             /\ \A k : Touches(op, "files", k) =>
                  \E q \in DOMAIN a.items : k = Key(a.name, q) /\ Puts(op, "files", k, CatalogFile(a, q))
             /\ \A k : Touches(op, "path_index", k) => IsSuffix(Key(<< >>, a.name), k)
  <2>1. /\ op.op = "put" /\ op.tree = "files"
        /\ DOMAIN op.entries = {Key(a.name, p)} /\ op.entries[Key(a.name, p)] = CatalogFile(a, p)
    <3>1. op.op = "put" /\ op.tree = "files" /\ op.entries = Entry(Key(a.name, p), CatalogFile(a, p))
      BY <1>6 DEF FilePut, Put
    <3> QED
      BY <3>1 DEF Entry
  <2>2. IsFiniteSet(DOMAIN op.entries)
    BY <2>1, FS_Singleton
  <2>3. OpOK(op)
    BY <2>1, <2>2 DEF OpOK, Trees, Fits
  <2> QED
    BY <2>1, <2>3 DEF Touches, Puts
<1>7. ASSUME NEW p \in DOMAIN a.items, op = IndexPut(a, p)
      PROVE  /\ OpOK(op) /\ op.op \in {"put", "panic"}
             /\ \A t, k : Touches(op, t, k) => \E e : Puts(op, t, k, e)
             /\ \A k : Touches(op, "archives", k) => k = a.name /\ Puts(op, "archives", k, CatalogArchive(a))
             /\ \A k : Touches(op, "stats", k) => k = a.name /\ Puts(op, "stats", k, Stats(a))
             /\ \A k : Touches(op, "files", k) =>
                  \E q \in DOMAIN a.items : k = Key(a.name, q) /\ Puts(op, "files", k, CatalogFile(a, q))
             /\ \A k : Touches(op, "path_index", k) => IsSuffix(Key(<< >>, a.name), k)
  <2>1. /\ op.op = "put" /\ op.tree = "path_index"
        /\ DOMAIN op.entries = {Key(prefix, a.name) : prefix \in Prefixes_of(p)}
    BY <1>7 DEF IndexPut, Put
  <2>2. OpOK(op)
    BY <2>1 DEF OpOK, Trees, Fits
  <2>3. ASSUME NEW k, Touches(op, "path_index", k)
        PROVE  IsSuffix(Key(<< >>, a.name), k)
    <3>1. PICK prefix \in Prefixes_of(p) : k = Key(prefix, a.name)
      BY <2>1, <2>3 DEF Touches
    <3>2. prefix \in Seq(Chars)
      BY PrefixesAreKeys
    <3> QED
      BY <1>2, <3>1, <3>2, KeyEndsInName
  <2> QED
    BY <2>1, <2>2, <2>3 DEF Touches, Puts
<1>8. op \in {ArchivePut(a), StatsPut(a), Panic} \/ \E p \in DOMAIN a.items : op \in {FilePut(a, p), IndexPut(a, p)}
  BY DEF IndexOps
<1> QED
  BY <1>3, <1>4, <1>5, <1>6, <1>7, <1>8

\* Some touch is the last.
LEMMA LastTouch ==
  ASSUME NEW ops, NEW n \in Nat, NEW t, NEW k, NEW j0 \in 1 .. n, Touches(ops[j0], t, k)
  PROVE  \E j \in j0 .. n : Touches(ops[j], t, k) /\ \A i \in j + 1 .. n : ~ Touches(ops[i], t, k)
<1> DEFINE later == {m \in 0 .. n - j0 : Touches(ops[n - m], t, k)}
<1>1. n - j0 \in later /\ later \in SUBSET Nat
  BY n - (n - j0) = j0
<1>2. \E m \in later : \A i \in later : m <= i
  <2>1. later # {} /\ later \in SUBSET Nat
    BY <1>1
  <2> HIDE DEF later
  <2> QED
    BY <2>1, LeastNumber
<1>3. PICK m \in later : \A i \in later : m <= i
  BY <1>2
<1>4. m \in 0 .. n - j0 /\ Touches(ops[n - m], t, k) /\ n - m \in j0 .. n
  BY <1>3
<1>5. ASSUME NEW i \in (n - m) + 1 .. n, Touches(ops[i], t, k)
      PROVE  FALSE
  <2>1. n - i \in 0 .. n - j0 /\ n - (n - i) = i /\ ~ (m <= n - i)
    BY <1>4
  <2>2. n - i \in later
    BY <1>5, <2>1
  <2> QED
    BY <1>3, <2>1, <2>2
<1> QED
  BY <1>4, <1>5

\* What is put comes when it is touched by puts of the same only, from there on.
LEMMA PutComes ==
  ASSUME NEW T, NEW ops, NEW n \in Nat, NEW t, NEW k, NEW e, NEW j0 \in 1 .. n, Puts(ops[j0], t, k, e),
         \A i \in j0 .. n : Touches(ops[i], t, k) => Puts(ops[i], t, k, e)
  PROVE  Comes(T, ops, n, t, k, e)
<1>1. Touches(ops[j0], t, k)
  BY DEF Touches, Puts
<1>2. PICK j \in j0 .. n : Touches(ops[j], t, k) /\ \A i \in j + 1 .. n : ~ Touches(ops[i], t, k)
  BY <1>1, LastTouch
<1>3. j \in 1 .. n
  OBVIOUS
<1> QED
  BY <1>2, <1>3 DEF Comes

\* Something comes when a put is followed by puts only.
LEMMA SomeComes ==
  ASSUME NEW T, NEW ops, NEW n \in Nat, NEW t, NEW k, NEW j0 \in 1 .. n, Touches(ops[j0], t, k),
         \A i \in j0 .. n : Touches(ops[i], t, k) => \E e : Puts(ops[i], t, k, e)
  PROVE  \E e : Comes(T, ops, n, t, k, e)
<1>1. PICK j \in j0 .. n : Touches(ops[j], t, k) /\ \A i \in j + 1 .. n : ~ Touches(ops[i], t, k)
  BY LastTouch
<1>2. PICK e : Puts(ops[j], t, k, e)
  BY <1>1
<1>3. j \in 1 .. n
  OBVIOUS
<1> QED
  BY <1>1, <1>2, <1>3 DEF Comes

LEMMA Appended ==
  ASSUME NEW U, NEW s \in Seq(U), NEW x \in U, NEW n \in Nat, n = Len(s)
  PROVE  /\ s \o <<x>> \in Seq(U) /\ Len(s \o <<x>>) = n + 1
         /\ (s \o <<x>>)[n + 1] = x
         /\ \A i \in 1 .. n : (s \o <<x>>)[i] = s[i]
<1>1. <<x>> \in Seq(U) /\ Len(<<x>>) = 1 /\ <<x>>[1] = x
  OBVIOUS
<1>2. PICK t : t = <<x>>
  OBVIOUS
<1>3. s \in Seq(U) /\ t \in Seq(U)
  BY <1>1, <1>2
<1>4. /\ s \o t \in Seq(U)
      /\ \A m, k \in Nat : m = Len(s) /\ k = Len(t) =>
           /\ Len(s \o t) = m + k
           /\ \A i \in 1 .. m : (s \o t)[i] = s[i]
           /\ \A i \in 1 .. k : (s \o t)[m + i] = t[i]
  BY ONLY <1>3, Joined, SMTT(30)
<1>5. 1 \in Nat /\ 1 = Len(t) /\ 1 \in 1 .. 1
  BY <1>1, <1>2
<1>6. Len(s \o t) = n + 1 /\ (\A i \in 1 .. n : (s \o t)[i] = s[i]) /\ (s \o t)[n + 1] = t[1]
  BY <1>4, <1>5
<1> QED
  BY <1>1, <1>2, <1>4, <1>6

\* What comes after n writes came after m of them and was left, or was put since.
LEMMA ComesSplit ==
  ASSUME NEW T, NEW ops, NEW m \in Nat, NEW n \in Nat, m <= n, NEW t, NEW k, NEW e,
         Comes(T, ops, n, t, k, e)
  PROVE  \/ Comes(T, ops, m, t, k, e) /\ \A j \in m + 1 .. n : ~ Touches(ops[j], t, k)
         \/ \E j \in m + 1 .. n : Puts(ops[j], t, k, e) /\ \A i \in j + 1 .. n : ~ Touches(ops[i], t, k)
<1>1. \A j \in 1 .. n : j \in 1 .. m \/ j \in m + 1 .. n
  OBVIOUS
<1>2. (\A j \in 1 .. m : j \in 1 .. n) /\ \A j \in m + 1 .. n : j \in 1 .. n
  OBVIOUS
<1>3. CASE Has(T, t, k, e) /\ \A j \in 1 .. n : ~ Touches(ops[j], t, k)
  <2>1. Comes(T, ops, m, t, k, e)
    BY <1>2, <1>3 DEF Comes
  <2> QED
    BY <1>2, <1>3, <2>1
<1>4. ASSUME NEW j \in 1 .. n, Puts(ops[j], t, k, e), \A i \in j + 1 .. n : ~ Touches(ops[i], t, k)
      PROVE  \/ Comes(T, ops, m, t, k, e) /\ \A i \in m + 1 .. n : ~ Touches(ops[i], t, k)
             \/ \E i \in m + 1 .. n : Puts(ops[i], t, k, e) /\ \A l \in i + 1 .. n : ~ Touches(ops[l], t, k)
  <2>1. CASE j \in m + 1 .. n
    BY <1>4, <2>1
  <2>2. CASE j \in 1 .. m
    <3>1. (\A i \in j + 1 .. m : i \in j + 1 .. n) /\ \A i \in m + 1 .. n : i \in j + 1 .. n
      BY <2>2
    <3>2. Comes(T, ops, m, t, k, e)
      BY <1>4, <2>2, <3>1 DEF Comes
    <3> QED
      BY <1>4, <3>1, <3>2
  <2> QED
    BY <1>1, <2>1, <2>2
<1>5. \/ Has(T, t, k, e) /\ \A j \in 1 .. n : ~ Touches(ops[j], t, k)
      \/ \E j \in 1 .. n : Puts(ops[j], t, k, e) /\ \A i \in j + 1 .. n : ~ Touches(ops[i], t, k)
  BY DEF Comes
<1> QED
  BY <1>3, <1>4, <1>5

\* What is left alone stays.
LEMMA ComesStill ==
  ASSUME NEW T, NEW ops, NEW m \in Nat, NEW n \in Nat, m <= n, NEW t, NEW k, NEW e,
         Comes(T, ops, m, t, k, e), \A j \in m + 1 .. n : ~ Touches(ops[j], t, k)
  PROVE  Comes(T, ops, n, t, k, e)
<1>1. \A j \in 1 .. n : j \in 1 .. m \/ j \in m + 1 .. n
  OBVIOUS
<1>2. CASE Has(T, t, k, e) /\ \A j \in 1 .. m : ~ Touches(ops[j], t, k)
  BY <1>1, <1>2 DEF Comes
<1>3. ASSUME NEW j \in 1 .. m, Puts(ops[j], t, k, e), \A i \in j + 1 .. m : ~ Touches(ops[i], t, k)
      PROVE  Comes(T, ops, n, t, k, e)
  <2>1. j \in 1 .. n /\ \A i \in j + 1 .. n : i \in j + 1 .. m \/ i \in m + 1 .. n
    OBVIOUS
  <2> QED
    BY <1>3, <2>1 DEF Comes
<1>4. \/ Has(T, t, k, e) /\ \A j \in 1 .. m : ~ Touches(ops[j], t, k)
      \/ \E j \in 1 .. m : Puts(ops[j], t, k, e) /\ \A i \in j + 1 .. m : ~ Touches(ops[i], t, k)
  BY DEF Comes
<1> QED
  BY <1>2, <1>3, <1>4

LEMMA IndexLeavesAlone ==
  ASSUME NEW a \in Archives, NEW b \in Archives, ~ Clash(a.name, b.name), NEW op \in IndexOps(b)
  PROVE  LeavesAlone(op, a)
<1>1. a.name \in Seq(Chars) /\ b.name \in Seq(Chars)
  BY NamesAreKeys DEF Archives
<1>2. a.name # b.name
  BY <1>1, ClashItself
<1>3. ~ Touches(op, "archives", a.name)
  BY <1>2, IndexTouches
<1>4. ASSUME NEW k \in Seq(Chars), Under(a.name, k), Touches(op, "files", k)
      PROVE  FALSE
  <2>1. PICK p \in DOMAIN b.items : k = Key(b.name, p)
    BY <1>4, IndexTouches
  <2>2. p \in Seq(Chars)
    BY NamesAreKeys
  <2>3. Under(b.name, k)
    BY <1>1, <2>1, <2>2, KeyUnderItsName
  <2> QED
    BY <1>1, <1>4, <2>3, UnderBoth
<1> QED
  BY <1>3, <1>4 DEF LeavesAlone

\* An archive that is indexed by some of the writes after the first m, where it had no
\* files, and that the others leave alone is there as it is.
LEMMA IndexedExact ==
  ASSUME NEW T, NEW ops, TreesOK(T), OpsOK(ops), NEW m \in 0 .. Len(ops), NEW n \in 0 .. Len(ops), m <= n,
         NEW a \in Archives,
         \A k, e : Comes(T, ops, m, "files", k, e) => ~ Under(a.name, k),
         \A j \in m + 1 .. n : ops[j] \in IndexOps(a) \/ LeavesAlone(ops[j], a),
         \E j \in m + 1 .. n : ops[j] = ArchivePut(a),
         \A p \in DOMAIN a.items : \E j \in m + 1 .. n : ops[j] = FilePut(a, p)
  PROVE  ExactAt(T, ops, n, a)
<1>1. Len(ops) \in Nat
  BY LenProperties DEF OpsOK
<1>2. /\ m \in Nat /\ n \in Nat
      /\ \A j \in m + 1 .. n : j \in 1 .. n /\ j \in Nat /\ \A i \in j .. n : i \in m + 1 .. n
  BY <1>1
<1>3. a.name \in Seq(Chars) /\ \A p \in DOMAIN a.items : p \in Seq(Chars)
  BY NamesAreKeys DEF Archives
<1>4. ASSUME NEW k, NEW e, Comes(T, ops, n, "files", k, e), Under(a.name, k)
      PROVE  \E p \in DOMAIN a.items : k = Key(a.name, p) /\ e = CatalogFile(a, p)
  <2>1. ~ Comes(T, ops, m, "files", k, e)
    BY <1>4
  <2>2. PICK j \in m + 1 .. n : Puts(ops[j], "files", k, e)
    BY <1>2, <1>4, <2>1, ComesSplit
  <2>3. k \in Seq(Chars)
    <3>1. Fits("files", k, e)
      BY <1>4, ComesFits DEF Trees
    <3> QED
      BY <3>1, FileKeys
  <2>4. Touches(ops[j], "files", k)
    BY <2>2 DEF Touches, Puts
  <2>5. ops[j] \in IndexOps(a)
    BY <1>4, <2>3, <2>4 DEF LeavesAlone
  <2>6. PICK p \in DOMAIN a.items : k = Key(a.name, p) /\ Puts(ops[j], "files", k, CatalogFile(a, p))
    BY <2>4, <2>5, IndexTouches
  <2>7. e = CatalogFile(a, p)
    BY <2>2, <2>6 DEF Puts
  <2> QED
    BY <2>6, <2>7
<1>5. ASSUME NEW p \in DOMAIN a.items
      PROVE  Comes(T, ops, n, "files", Key(a.name, p), CatalogFile(a, p))
  <2>1. PICK j \in m + 1 .. n : ops[j] = FilePut(a, p)
    OBVIOUS
  <2>2. Puts(ops[j], "files", Key(a.name, p), CatalogFile(a, p))
    BY <2>1, IndexPuts
  <2>3. ASSUME NEW i \in j .. n, Touches(ops[i], "files", Key(a.name, p))
        PROVE  Puts(ops[i], "files", Key(a.name, p), CatalogFile(a, p))
    <3>1. Key(a.name, p) \in Seq(Chars) /\ Under(a.name, Key(a.name, p))
      BY <1>3, KeyIs, KeyUnderItsName
    <3>2. ops[i] \in IndexOps(a)
      BY <1>2, <2>3, <3>1 DEF LeavesAlone
    <3>3. PICK q \in DOMAIN a.items : /\ Key(a.name, p) = Key(a.name, q)
                                      /\ Puts(ops[i], "files", Key(a.name, p), CatalogFile(a, q))
      BY <2>3, <3>2, IndexTouches
    <3>4. p = q
      BY <1>3, <3>3, KeyCancels
    <3> QED
      BY <3>3, <3>4
  <2>4. j \in 1 .. n
    BY <1>2
  <2> QED
    BY <1>2, <2>2, <2>3, <2>4, PutComes
<1>6. Comes(T, ops, n, "archives", a.name, CatalogArchive(a))
  <2>1. PICK j \in m + 1 .. n : ops[j] = ArchivePut(a)
    OBVIOUS
  <2>2. Puts(ops[j], "archives", a.name, CatalogArchive(a))
    BY <2>1, IndexPuts
  <2>3. ASSUME NEW i \in j .. n, Touches(ops[i], "archives", a.name)
        PROVE  Puts(ops[i], "archives", a.name, CatalogArchive(a))
    <3>1. ops[i] \in IndexOps(a)
      BY <1>2, <2>3 DEF LeavesAlone
    <3> QED
      BY <2>3, <3>1, IndexTouches
  <2>4. j \in 1 .. n
    BY <1>2
  <2> QED
    BY <1>2, <2>2, <2>3, <2>4, PutComes
<1> QED
  BY <1>4, <1>5, <1>6 DEF ExactAt

-------------------------------------------------------------------------------
(***************************************************************************)
(* The calls                                                               *)
(***************************************************************************)

\* What holds when nothing is under way, whatever a call is about to do.
LEMMA CallStart ==
  ASSUME CatalogInv, agenda = << >>, NEW ops
  PROVE  /\ \A k, e : Comes(trees, ops, 0, "files", k, e) => \E m \in touched : Under(m, k)
         /\ \A b \in indexed : ExactAt(trees, ops, 0, b) /\ Narrow(b)
         /\ \A b, c \in indexed : b # c => ~ Clash(b.name, c.name)
         /\ ~ hurt => Matched(trees, ops, 0)
<1>1. Len(agenda) = 0 /\ 0 \in 0 .. Len(agenda) /\ \A j \in 1 .. Len(agenda) : FALSE
  BY NothingToDo
<1>2. \A t \in Trees : \A k, e : Comes(trees, ops, 0, t, k, e) <=> Comes(trees, agenda, 0, t, k, e)
  BY ComesFirst
<1>3. Open(touched, agenda, 0) \subseteq touched /\ Marks(indexed, agenda, 0) = indexed
  BY DEF Open, Marks
<1>4. \A k, e : Comes(trees, ops, 0, "files", k, e) => \E m \in touched : Under(m, k)
  BY <1>1, <1>2, <1>3 DEF CatalogInv, Located, Trees
<1>5. \A b \in indexed : ExactAt(trees, agenda, 0, b) /\ Narrow(b)
  <2>1. ~ \E j \in 1 .. 0 : agenda[j].op = "panic"
    OBVIOUS
  <2>2. Exact(trees, agenda, indexed)
    BY DEF CatalogInv
  <2> QED
    BY <1>1, <1>3, <2>1, <2>2 DEF Exact
<1>6. \A b \in indexed : ExactAt(trees, ops, 0, b)
  <2>1. "files" \in Trees /\ "archives" \in Trees
    BY DEF Trees
  <2> QED
    BY <1>2, <1>5, <2>1 DEF ExactAt
<1>7. \A b, c \in indexed : b # c => ~ Clash(b.name, c.name)
  BY <1>1, <1>3 DEF CatalogInv, Apart
<1>8. ~ hurt => Matched(trees, ops, 0)
  <2>1. ~ hurt => Matched(trees, agenda, 0)
    BY <1>1 DEF CatalogInv, Mends
  <2> QED
    BY <1>2, <2>1, SameMatched
<1> QED
  BY <1>4, <1>5, <1>6, <1>7, <1>8

\* Where there are only puts, something stays under a key.
LEMMA PutsKeep ==
  ASSUME NEW T, NEW ops, NEW n \in Nat, NEW t, NEW k, NEW e0, Comes(T, ops, 0, t, k, e0),
         \A j \in 1 .. n : Touches(ops[j], t, k) => \E e : Puts(ops[j], t, k, e)
  PROVE  \E e : Comes(T, ops, n, t, k, e)
<1>1. CASE \E j \in 1 .. n : Touches(ops[j], t, k)
  <2>1. PICK j \in 1 .. n : Touches(ops[j], t, k)
    BY <1>1
  <2>2. \A i \in j .. n : Touches(ops[i], t, k) => \E e : Puts(ops[i], t, k, e)
    OBVIOUS
  <2> QED
    BY <2>1, <2>2, SomeComes
<1>2. CASE \A j \in 1 .. n : ~ Touches(ops[j], t, k)
  <2>1. 0 \in Nat /\ 0 <= n /\ \A j \in 0 + 1 .. n : ~ Touches(ops[j], t, k)
    BY <1>2
  <2> QED
    BY <2>1, ComesStill
<1> QED
  BY <1>1, <1>2

\* The writes that index an archive, and their end.
IndexCall(ops, a, done) ==
  /\ Len(ops) \in Nat /\ Len(ops) # 0 /\ OpsOK(ops)
  /\ \A j \in 1 .. Len(ops) : j # Len(ops) => ops[j] \in IndexOps(a)
  /\ ops[Len(ops)] = Done(done, {}, FALSE)
  /\ \E j \in 1 .. Len(ops) : j # Len(ops) /\ ops[j] = ArchivePut(a)
  /\ \E j \in 1 .. Len(ops) : j # Len(ops) /\ ops[j] = StatsPut(a)
  /\ \A p \in DOMAIN a.items : \E j \in 1 .. Len(ops) : j # Len(ops) /\ ops[j] = FilePut(a, p)
  /\ Narrow(a) \/ \E j \in 1 .. Len(ops) : j # Len(ops) /\ ops[j] = Panic

LEMMA IndexCallIs ==
  ASSUME NEW a \in Archives, NEW done, done \subseteq Archives
  PROVE  IndexCall(Index_archive(a) \o <<Done(done, {}, FALSE)>>, a, done)
<1> DEFINE block == Index_archive(a)
           end == Done(done, {}, FALSE)
           ops == block \o <<end>>
           U == IndexOps(a) \cup {end}
<1>1. block \in Seq(IndexOps(a))
  BY IndexSeq
<1>2. block \in Seq(U) /\ end \in U
  <2>1. IndexOps(a) \subseteq U
    OBVIOUS
  <2> HIDE DEF block, U
  <2>2. block \in Seq(U)
    BY <1>1, <2>1, SeqMonotonic
  <2> QED
    BY <2>2 DEF U
<1>3. PICK n \in Nat : n = Len(block)
  BY <1>1, LenProperties
<1>4. /\ ops \in Seq(U) /\ Len(ops) = n + 1 /\ ops[n + 1] = end
      /\ \A i \in 1 .. n : ops[i] = block[i]
  <2> HIDE DEF block, end, U
  <2> QED
    BY <1>2, <1>3, Appended
<1>5. \A i \in 1 .. n : block[i] \in IndexOps(a)
  BY <1>1, <1>3, ElementOfSeq
<1>6. /\ \E i \in 1 .. n : block[i] = ArchivePut(a)
      /\ \E i \in 1 .. n : block[i] = StatsPut(a)
      /\ \A p \in DOMAIN a.items : \E i \in 1 .. n : block[i] = FilePut(a, p)
      /\ Narrow(a) \/ \E i \in 1 .. n : block[i] = Panic
  BY <1>3, IndexSeq
<1>7. OpOK(end)
  BY DEF OpOK, Done
<1> HIDE DEF block, end, ops
<1>8. /\ n + 1 \in Nat /\ n + 1 # 0 /\ n + 1 \in 1 .. n + 1
      /\ \A i \in 1 .. n : i \in 1 .. n + 1 /\ i # n + 1
      /\ \A i \in 1 .. n + 1 : i # n + 1 => i \in 1 .. n
  BY <1>3
<1>9. \A i \in 1 .. n : ops[i] \in IndexOps(a)
  BY <1>4, <1>5
<1>10. OpsOK(ops)
  <2>1. \A i \in 1 .. n + 1 : OpOK(ops[i])
    <3>1. \A i \in 1 .. n : OpOK(ops[i])
      BY <1>9, IndexTouches
    <3> QED
      BY <1>4, <1>7, <1>8, <3>1
  <2> QED
    BY <1>4, <2>1 DEF OpsOK
<1>11. /\ \E i \in 1 .. n : ops[i] = ArchivePut(a)
       /\ \E i \in 1 .. n : ops[i] = StatsPut(a)
       /\ \A p \in DOMAIN a.items : \E i \in 1 .. n : ops[i] = FilePut(a, p)
       /\ Narrow(a) \/ \E i \in 1 .. n : ops[i] = Panic
  BY <1>4, <1>6
<1>12. IndexCall(ops, a, done)
  BY <1>4, <1>8, <1>9, <1>10, <1>11 DEF IndexCall, end
<1> QED
  BY <1>12 DEF ops, block, end

\* The archives whose entry and statistics come together, when an archive is indexed.
LEMMA IndexMatched ==
  ASSUME NEW T, NEW ops, NEW a \in Archives, NEW done, TreesOK(T), IndexCall(ops, a, done), Matched(T, ops, 0)
  PROVE  Matched(T, ops, Len(ops))
<1> DEFINE n == Len(ops)
<1>1. n \in Nat /\ n # 0
  BY DEF IndexCall
<1>2. \A j \in 1 .. n : \A t, k : Touches(ops[j], t, k) => j # n /\ ops[j] \in IndexOps(a)
  <2>1. \A t, k : ~ Touches(ops[n], t, k)
    BY DEF IndexCall, Done, Touches
  <2> QED
    BY <2>1 DEF IndexCall
<1>3. \A t, k : \A j \in 1 .. n : Touches(ops[j], t, k) => \E e : Puts(ops[j], t, k, e)
  BY <1>2, IndexTouches
<1>4. PICK x \in 1 .. n : ops[x] = ArchivePut(a)
  BY DEF IndexCall
<1>5. PICK y \in 1 .. n : ops[y] = StatsPut(a)
  BY DEF IndexCall
<1>6. /\ Touches(ops[x], "archives", a.name) /\ Puts(ops[x], "archives", a.name, CatalogArchive(a))
      /\ Touches(ops[y], "stats", a.name) /\ Puts(ops[y], "stats", a.name, Stats(a))
  BY <1>4, <1>5, IndexPuts DEF Touches, Puts
<1>7. /\ \A j \in 1 .. n : \A k : Touches(ops[j], "archives", k) => k = a.name /\ Puts(ops[j], "archives", k, CatalogArchive(a))
      /\ \A j \in 1 .. n : \A k : Touches(ops[j], "stats", k) => k = a.name /\ Puts(ops[j], "stats", k, Stats(a))
  BY <1>2, IndexTouches
<1>8. Comes(T, ops, n, "archives", a.name, CatalogArchive(a)) /\ Comes(T, ops, n, "stats", a.name, Stats(a))
  <2>1. (\A j \in x .. n : j \in 1 .. n) /\ \A j \in y .. n : j \in 1 .. n
    OBVIOUS
  <2>2. Comes(T, ops, n, "archives", a.name, CatalogArchive(a))
    BY <1>1, <1>6, <1>7, <2>1, PutComes
  <2>3. Comes(T, ops, n, "stats", a.name, Stats(a))
    BY <1>1, <1>6, <1>7, <2>1, PutComes
  <2> QED
    BY <2>2, <2>3
<1>9. ASSUME NEW t, NEW k, NEW e, Comes(T, ops, n, t, k, e)
      PROVE  \/ Comes(T, ops, 0, t, k, e) /\ \A j \in 1 .. n : ~ Touches(ops[j], t, k)
             \/ \E j \in 1 .. n : Puts(ops[j], t, k, e) /\ Touches(ops[j], t, k)
  <2>1. 0 \in Nat /\ 0 <= n /\ 0 + 1 = 1
    BY <1>1
  <2>2. \/ Comes(T, ops, 0, t, k, e) /\ \A j \in 0 + 1 .. n : ~ Touches(ops[j], t, k)
        \/ \E j \in 0 + 1 .. n : Puts(ops[j], t, k, e) /\ \A i \in j + 1 .. n : ~ Touches(ops[i], t, k)
    BY <1>1, <1>9, <2>1, ComesSplit
  <2> QED
    BY <2>1, <2>2 DEF Puts, Touches
<1>10. ASSUME NEW t, NEW k, NEW e, Comes(T, ops, 0, t, k, e), \A j \in 1 .. n : ~ Touches(ops[j], t, k)
       PROVE  Comes(T, ops, n, t, k, e)
  <2>1. 0 \in Nat /\ 0 <= n /\ 0 + 1 = 1
    BY <1>1
  <2> QED
    BY <1>1, <1>10, <2>1, ComesStill
<1>11. \A t, k, e : Comes(T, ops, 0, t, k, e) => \E e2 : Comes(T, ops, n, t, k, e2)
  BY <1>1, <1>3, PutsKeep
<1> HIDE DEF n
<1>12. ASSUME NEW m, NEW e, Comes(T, ops, n, "stats", m, e)
       PROVE  \E b \in Archives : m = b.name /\ e = Stats(b) /\ Comes(T, ops, n, "archives", m, CatalogArchive(b))
  <2>1. CASE m = a.name
    <3>1. \E j \in 1 .. n : Puts(ops[j], "stats", m, e) /\ Touches(ops[j], "stats", m)
      BY <1>6, <1>9, <1>12, <2>1
    <3>2. e = Stats(a)
      BY <1>7, <3>1 DEF Puts
    <3> QED
      BY <1>8, <2>1, <3>2
  <2>2. CASE m # a.name
    <3>1. Comes(T, ops, 0, "stats", m, e)
      BY <1>7, <1>9, <1>12, <2>2
    <3>2. PICK b \in Archives : m = b.name /\ e = Stats(b) /\ Comes(T, ops, 0, "archives", m, CatalogArchive(b))
      BY <3>1 DEF Matched
    <3>3. \A j \in 1 .. n : ~ Touches(ops[j], "archives", m)
      <4> SUFFICES ASSUME NEW j \in 1 .. n, Touches(ops[j], "archives", m) PROVE FALSE
        OBVIOUS
      <4>1. m = a.name
        BY <1>7
      <4> QED
        BY <2>2, <4>1
    <3> QED
      BY <1>10, <3>2, <3>3
  <2> QED
    BY <2>1, <2>2
<1>13. ASSUME NEW m, NEW e, Comes(T, ops, n, "archives", m, e)
       PROVE  \E b \in Archives : m = b.name /\ e = CatalogArchive(b) /\ Comes(T, ops, n, "stats", m, Stats(b))
  <2>1. CASE m = a.name
    <3>1. \E j \in 1 .. n : Puts(ops[j], "archives", m, e) /\ Touches(ops[j], "archives", m)
      BY <1>6, <1>9, <1>13, <2>1
    <3>2. e = CatalogArchive(a)
      BY <1>7, <3>1 DEF Puts
    <3> QED
      BY <1>8, <2>1, <3>2
  <2>2. CASE m # a.name
    <3>1. Comes(T, ops, 0, "archives", m, e)
      BY <1>7, <1>9, <1>13, <2>2
    <3>2. PICK b \in Archives : m = b.name /\ e = CatalogArchive(b) /\ Comes(T, ops, 0, "stats", m, Stats(b))
      BY <3>1 DEF Matched
    <3>3. \A j \in 1 .. n : ~ Touches(ops[j], "stats", m)
      BY <1>7, <2>2
    <3> QED
      BY <1>10, <3>2, <3>3
  <2> QED
    BY <2>1, <2>2
<1>14. ASSUME NEW k, NEW e, Comes(T, ops, n, "files", k, e)
       PROVE  \E e2 : Comes(T, ops, n, "archives", e.archive, e2)
  <2>1. CASE Comes(T, ops, 0, "files", k, e)
    <3>1. PICK e2 : Comes(T, ops, 0, "archives", e.archive, e2)
      BY <2>1 DEF Matched
    <3> QED
      BY <1>11, <3>1
  <2>2. CASE \E j \in 1 .. n : Puts(ops[j], "files", k, e) /\ Touches(ops[j], "files", k)
    <3>1. PICK j \in 1 .. n : Puts(ops[j], "files", k, e) /\ Touches(ops[j], "files", k)
      BY <2>2
    <3>2. PICK p \in DOMAIN a.items : Puts(ops[j], "files", k, CatalogFile(a, p))
      BY <1>2, <3>1, IndexTouches
    <3>3. e = CatalogFile(a, p)
      BY <3>1, <3>2 DEF Puts
    <3>4. e.archive = a.name
      BY <3>3 DEF CatalogFile
    <3> QED
      BY <1>8, <3>4
  <2> QED
    BY <1>9, <1>14, <2>1, <2>2
<1>15. ASSUME NEW k, NEW e, Comes(T, ops, n, "path_index", k, e)
       PROVE  \E m, e2 : Comes(T, ops, n, "archives", m, e2) /\ IsSuffix(Key(<< >>, m), k)
  <2>1. CASE Comes(T, ops, 0, "path_index", k, e)
    <3>1. PICK m, e2 : Comes(T, ops, 0, "archives", m, e2) /\ IsSuffix(Key(<< >>, m), k)
      BY <2>1 DEF Matched
    <3> QED
      BY <1>11, <3>1
  <2>2. CASE \E j \in 1 .. n : Touches(ops[j], "path_index", k)
    <3>1. IsSuffix(Key(<< >>, a.name), k)
      BY <1>2, <2>2, IndexTouches
    <3> QED
      BY <1>8, <3>1
  <2> QED
    BY <1>9, <1>15, <2>1, <2>2
<1> QED
  BY <1>12, <1>13, <1>14, <1>15 DEF Matched, n

LEMMA CallIndexInv ==
  ASSUME CatalogInv, NEW a \in Archives, CallIndex(a)
  PROVE  CatalogInv'
<1> DEFINE clean == \A m \in touched : ~ Clash(m, a.name)
           done == IF clean THEN {a} ELSE {}
           ops == Index_archive(a) \o <<Done(done, {}, FALSE)>>
           n == Len(ops)
<1>1. /\ agenda = << >> /\ agenda' = ops /\ indexed' = Untouched(a.name)
      /\ touched' = touched \cup {a.name} /\ UNCHANGED <<repo, trees, hurt, time>>
  BY DEF CallIndex, Call
<1>2. IndexCall(ops, a, done) /\ done \subseteq {a}
  BY IndexCallIs
<1>3. CatalogTypeOK /\ TreesOK(trees) /\ indexed \subseteq Archives /\ touched \subseteq Names /\ a.name \in Names
  BY DEF CatalogInv, CatalogTypeOK, Archives
<1>4. /\ \A k, e : Comes(trees, ops, 0, "files", k, e) => \E m \in touched : Under(m, k)
      /\ \A b \in indexed : ExactAt(trees, ops, 0, b) /\ Narrow(b)
      /\ \A b, c \in indexed : b # c => ~ Clash(b.name, c.name)
      /\ ~ hurt => Matched(trees, ops, 0)
  BY <1>1, CallStart
<1>5. /\ indexed' \subseteq indexed /\ \A b \in indexed' : ~ Clash(b.name, a.name) /\ ~ Clash(a.name, b.name)
  BY <1>1 DEF Untouched, Clash
<1> HIDE DEF ops
<1>6. /\ n \in Nat /\ n # 0 /\ OpsOK(ops)
      /\ \A j \in 1 .. n : j # n => ops[j] \in IndexOps(a)
      /\ ops[n].op = "done" /\ ops[n].archives = done /\ ops[n].names = {} /\ ops[n].all = FALSE
      /\ \A t, k : ~ Touches(ops[n], t, k)
  BY <1>2 DEF IndexCall, Done, Touches
<1>7. \A j \in 1 .. n : j # n => ops[j].op \in {"put", "panic"}
  BY <1>6, IndexTouches
<1>8. CatalogTypeOK'
  <2>1. OpsOK(agenda') /\ repo' \in Seq(Archives) /\ time' \in Nat /\ TreesOK(trees') /\ hurt' \in BOOLEAN
    BY <1>1, <1>3, <1>6 DEF CatalogTypeOK
  <2>2. indexed' \subseteq Archives /\ touched' \subseteq Names
    BY <1>1, <1>3, <1>5
  <2> QED
    BY <2>1, <2>2 DEF CatalogTypeOK
<1>9. Located(trees', agenda', touched')
  <2> SUFFICES ASSUME NEW i \in 0 .. n, NEW k, NEW e, Comes(trees, ops, i, "files", k, e)
               PROVE  \E m \in Open(touched', ops, i) : Under(m, k)
    BY <1>1 DEF Located
  <2>1. touched' \subseteq Open(touched', ops, i)
    <3>1. \A j \in 1 .. i : ops[j].op = "done" => ops[j].names = {}
      <4>1. \A j \in 1 .. i : j \in 1 .. n
        BY <1>6
      <4> QED
        BY <1>6, <1>7, <4>1
    <3> QED
      BY <3>1 DEF Open
  <2>2. 0 \in Nat /\ i \in Nat /\ 0 <= i /\ 0 + 1 = 1 /\ \A j \in 1 .. i : j \in 1 .. n
    BY <1>6
  <2>3. \/ Comes(trees, ops, 0, "files", k, e)
        \/ \E j \in 1 .. i : Puts(ops[j], "files", k, e)
    <3>1. \/ Comes(trees, ops, 0, "files", k, e) /\ \A j \in 0 + 1 .. i : ~ Touches(ops[j], "files", k)
          \/ \E j \in 0 + 1 .. i : Puts(ops[j], "files", k, e) /\ \A l \in j + 1 .. i : ~ Touches(ops[l], "files", k)
      BY <2>2, ComesSplit
    <3> QED
      BY <2>2, <3>1
  <2>4. CASE Comes(trees, ops, 0, "files", k, e)
    BY <1>1, <1>4, <2>1, <2>4
  <2>5. CASE \E j \in 1 .. i : Puts(ops[j], "files", k, e)
    <3>1. PICK j \in 1 .. n : Touches(ops[j], "files", k)
      BY <2>2, <2>5 DEF Touches, Puts
    <3>2. PICK p \in DOMAIN a.items : k = Key(a.name, p)
      BY <1>6, <3>1, IndexTouches
    <3>3. Under(a.name, k)
      BY <3>2, NamesAreKeys, KeyUnderItsName DEF Archives
    <3> QED
      BY <1>1, <2>1, <3>3
  <2> QED
    BY <2>3, <2>4, <2>5
<1>10. \A i \in 0 .. n : Marks(indexed', ops, i) = IF i = 0 THEN indexed' ELSE IF i = n THEN done ELSE {}
  <2>1. \A i \in 0 .. n : i # 0 => i \in 1 .. n
    BY <1>6
  <2> QED
    BY <1>6, <1>7, <2>1 DEF Marks
<1>11. Exact(trees', agenda', indexed')
  <2> SUFFICES ASSUME NEW i \in 0 .. n, NEW b \in Marks(indexed', ops, i)
               PROVE  /\ ExactAt(trees, ops, i, b)
                      /\ \A j \in i + 1 .. n : LeavesAlone(ops[j], b)
                      /\ Narrow(b) \/ \E j \in 1 .. i : ops[j].op = "panic"
    BY <1>1 DEF Exact
  <2>1. CASE i = 0
    <3>1. b \in indexed' /\ b \in indexed /\ b \in Archives
      BY <1>3, <1>5, <1>10, <2>1
    <3>2. ASSUME NEW j \in i + 1 .. n
          PROVE  LeavesAlone(ops[j], b)
      <4>1. j \in 1 .. n
        BY <2>1
      <4>2. CASE j = n
        BY <1>6, <4>2 DEF LeavesAlone
      <4>3. CASE j # n
        <5>1. ops[j] \in IndexOps(a)
          BY <1>6, <4>1, <4>3
        <5> QED
          BY <1>5, <3>1, <5>1, IndexLeavesAlone
      <4> QED
        BY <4>2, <4>3
    <3> QED
      BY <1>4, <2>1, <3>1, <3>2
  <2>2. CASE i # 0
    <3>1. i = n /\ clean /\ b = a
      BY <1>10, <2>2
    <3>2. 0 \in 0 .. n /\ n \in 0 .. n /\ 0 <= n /\ 0 + 1 = 1
      BY <1>6
    <3>3. \A k, e : Comes(trees, ops, 0, "files", k, e) => ~ Under(a.name, k)
      <4> SUFFICES ASSUME NEW k, NEW e, Comes(trees, ops, 0, "files", k, e), Under(a.name, k) PROVE FALSE
        OBVIOUS
      <4>1. PICK m \in touched : Under(m, k)
        BY <1>4
      <4>2. Fits("files", k, e)
        <5>1. "files" \in Trees /\ 0 \in 0 .. Len(ops)
          BY <1>6 DEF Trees
        <5> QED
          BY <1>3, <1>6, <5>1, ComesFits
      <4>3. k \in Seq(Chars)
        BY <4>2, FileKeys
      <4>4. m \in Seq(Chars) /\ a.name \in Seq(Chars)
        BY <1>3, NamesAreKeys
      <4>5. Clash(m, a.name)
        BY <4>1, <4>3, <4>4, UnderBoth
      <4> QED
        BY <3>1, <4>5
    <3>4. \A j \in 0 + 1 .. n : ops[j] \in IndexOps(a) \/ LeavesAlone(ops[j], a)
      <4>1. LeavesAlone(ops[n], a)
        BY <1>6 DEF LeavesAlone
      <4> QED
        BY <1>6, <3>2, <4>1
    <3>5. /\ \E j \in 0 + 1 .. n : ops[j] = ArchivePut(a)
          /\ \A p \in DOMAIN a.items : \E j \in 0 + 1 .. n : ops[j] = FilePut(a, p)
      BY <1>2, <3>2 DEF IndexCall
    <3>6. ExactAt(trees, ops, n, a)
      BY <1>3, <1>6, <3>2, <3>3, <3>4, <3>5, IndexedExact
    <3>7. \A j \in n + 1 .. n : FALSE
      BY <1>6
    <3>8. Narrow(a) \/ \E j \in 1 .. n : ops[j].op = "panic"
      <4>1. Panic.op = "panic"
        BY DEF Panic
      <4> QED
        BY <1>2, <4>1 DEF IndexCall
    <3> QED
      BY <3>1, <3>6, <3>7, <3>8
  <2> QED
    BY <2>1, <2>2
<1>12. Apart(agenda', indexed')
  <2> SUFFICES ASSUME NEW i \in 0 .. n, NEW j \in 0 .. n, NEW b \in Marks(indexed', ops, i),
                      NEW c \in Marks(indexed', ops, j), b # c
               PROVE  ~ Clash(b.name, c.name)
    BY <1>1 DEF Apart
  <2>1. (b \in indexed' \/ b = a) /\ (c \in indexed' \/ c = a)
    BY <1>2, <1>10
  <2> QED
    BY <1>4, <1>5, <2>1
<1>13. Mends(trees', agenda', hurt')
  <2> SUFFICES ASSUME hurt => \E j \in 1 .. n : ops[j].op = "done" /\ ops[j].all
               PROVE  Matched(trees, ops, n)
    BY <1>1 DEF Mends
  <2>1. ~ hurt
    BY <1>6, <1>7
  <2> QED
    BY <1>2, <1>3, <1>4, <2>1, IndexMatched
<1> QED
  BY <1>8, <1>9, <1>11, <1>12, <1>13 DEF CatalogInv

\* The writes that remove an archive, and their end.
RemoveCall(ops, T, name, closed) ==
  /\ Len(ops) \in Nat /\ Len(ops) # 0 /\ OpsOK(ops)
  /\ \A j \in 1 .. Len(ops) : j # Len(ops) => ops[j].op = "drop"
  /\ ops[Len(ops)] = Done({}, closed, FALSE)
  /\ \A j \in 1 .. Len(ops) : \A k :
       /\ Touches(ops[j], "archives", k) => k = name
       /\ Touches(ops[j], "stats", k) => k = name
       /\ Touches(ops[j], "files", k) => Under(name, k)
  /\ \E j \in 1 .. Len(ops) : Touches(ops[j], "archives", name)
  /\ \E j \in 1 .. Len(ops) : Touches(ops[j], "stats", name)
  /\ \A k \in DOMAIN T.files : Under(name, k) => \E j \in 1 .. Len(ops) : Touches(ops[j], "files", k)
  /\ \A k \in DOMAIN T.path_index :
       IsSuffix(Key(<< >>, name), k) => \E j \in 1 .. Len(ops) : Touches(ops[j], "path_index", k)

LEMMA RemoveCallIs ==
  ASSUME TreesOK(trees), NEW name, NEW closed
  PROVE  RemoveCall(Remove_archive(name) \o <<Done({}, closed, FALSE)>>, trees, name, closed)
<1> DEFINE files == Scan_prefix(DOMAIN trees.files, name)
           index == {k \in DOMAIN trees.path_index : IsSuffix(Key(<< >>, name), k)}
           N == Cardinality(files)
           d1 == Drop("archives", {name})
           d2 == Drop("stats", {name})
           d3 == Drop("path_index", index)
           end == Done({}, closed, FALSE)
           U == {d1, d2, d3, end} \cup {Drop("files", {k}) : k \in files}
           mid == [i \in 1 .. N |-> Drop("files", {SetToSeq(files)[i]})]
           s1 == <<d1, d2>> \o mid
           s2 == s1 \o <<d3>>
           ops == s2 \o <<end>>
<1>1. IsFiniteSet(files) /\ N \in Nat
  <2>1. IsFiniteSet(DOMAIN trees.files) /\ files \subseteq DOMAIN trees.files
    BY DEF TreesOK, Scan_prefix
  <2>2. IsFiniteSet(files)
    BY <2>1, FS_Subset
  <2> QED
    BY <2>2, FS_CardinalityType
<1>2. /\ SetToSeq(files) \in Seq(files) /\ Len(SetToSeq(files)) = N
      /\ \A k \in files : \E i \in 1 .. N : SetToSeq(files)[i] = k
  BY <1>1, SetToSeqIs
<1>3. mid \in Seq(U) /\ Len(mid) = N /\ \A i \in 1 .. N : mid[i] = Drop("files", {SetToSeq(files)[i]})
  <2>1. \A i \in 1 .. N : SetToSeq(files)[i] \in files
    BY <1>1, <1>2, ElementOfSeq
  <2>2. mid \in [1 .. N -> U] /\ \A i \in 1 .. N : mid[i] = Drop("files", {SetToSeq(files)[i]})
    BY <2>1
  <2> HIDE DEF mid, N, U
  <2> QED
    BY <1>1, <2>2
<1>4. <<d1, d2>> \in Seq(U) /\ Len(<<d1, d2>>) = 2 /\ <<d1, d2>>[1] = d1 /\ <<d1, d2>>[2] = d2
  <2>1. PICK x, y : x = d1 /\ y = d2
    OBVIOUS
  <2>2. x \in U /\ y \in U
    BY <2>1
  <2> HIDE DEF d1, d2, U
  <2>3. <<x, y>> \in Seq(U) /\ Len(<<x, y>>) = 2 /\ <<x, y>>[1] = x /\ <<x, y>>[2] = y
    BY <2>2
  <2> QED
    BY <2>1, <2>3
<1>5. d1 \in U /\ d2 \in U /\ d3 \in U /\ end \in U
  OBVIOUS
<1>6. /\ s1 \in Seq(U) /\ Len(s1) = 2 + N /\ s1[1] = d1 /\ s1[2] = d2
      /\ \A i \in 1 .. N : s1[2 + i] = mid[i]
  <2>1. PICK s, t : s = <<d1, d2>> /\ t = mid
    OBVIOUS
  <2> HIDE DEF d1, d2, U, mid, N
  <2>2. s \in Seq(U) /\ t \in Seq(U)
    BY <1>3, <1>4, <2>1
  <2>3. /\ s \o t \in Seq(U)
        /\ \A m, n \in Nat : m = Len(s) /\ n = Len(t) =>
             /\ Len(s \o t) = m + n
             /\ \A i \in 1 .. m : (s \o t)[i] = s[i]
             /\ \A i \in 1 .. n : (s \o t)[m + i] = t[i]
    BY ONLY <2>2, Joined, SMTT(30)
  <2>4. 2 \in Nat /\ 2 = Len(s) /\ N = Len(t) /\ 1 \in 1 .. 2 /\ 2 \in 1 .. 2
    BY <1>3, <1>4, <2>1
  <2>5. /\ Len(s \o t) = 2 + N /\ (s \o t)[1] = s[1] /\ (s \o t)[2] = s[2]
        /\ \A i \in 1 .. N : (s \o t)[2 + i] = t[i]
    BY <1>1, <2>3, <2>4
  <2> QED
    BY <1>4, <2>1, <2>3, <2>5
<1>7. /\ s2 \in Seq(U) /\ Len(s2) = 3 + N /\ s2[3 + N] = d3
      /\ \A i \in 1 .. 2 + N : s2[i] = s1[i]
  <2> HIDE DEF d3, U, s1, N
  <2>1. 2 + N \in Nat /\ (2 + N) + 1 = 3 + N
    BY <1>1
  <2>2. s1 \in Seq(U) /\ d3 \in U
    BY <1>5, <1>6
  <2>3. /\ s1 \o <<d3>> \in Seq(U) /\ Len(s1 \o <<d3>>) = (2 + N) + 1 /\ (s1 \o <<d3>>)[(2 + N) + 1] = d3
        /\ \A i \in 1 .. 2 + N : (s1 \o <<d3>>)[i] = s1[i]
    BY <1>6, <2>1, <2>2, Appended
  <2> QED
    BY <2>1, <2>3
<1>8. /\ ops \in Seq(U) /\ Len(ops) = 4 + N /\ ops[4 + N] = end
      /\ \A i \in 1 .. 3 + N : ops[i] = s2[i]
  <2> HIDE DEF end, U, s2, N
  <2>1. 3 + N \in Nat /\ (3 + N) + 1 = 4 + N
    BY <1>1
  <2>2. s2 \in Seq(U) /\ end \in U
    BY <1>5, <1>7
  <2>3. /\ s2 \o <<end>> \in Seq(U) /\ Len(s2 \o <<end>>) = (3 + N) + 1 /\ (s2 \o <<end>>)[(3 + N) + 1] = end
        /\ \A i \in 1 .. 3 + N : (s2 \o <<end>>)[i] = s2[i]
    BY <1>7, <2>1, <2>2, Appended
  <2> QED
    BY <2>1, <2>3
<1> HIDE DEF ops, s1, s2, mid, N, U, files, index
<1>9. /\ ops[1] = d1 /\ ops[2] = d2 /\ ops[3 + N] = d3 /\ ops[4 + N] = end
      /\ \A i \in 1 .. N : ops[2 + i] = Drop("files", {SetToSeq(files)[i]})
  <2>1. /\ 1 \in 1 .. 3 + N /\ 2 \in 1 .. 3 + N /\ 3 + N \in 1 .. 3 + N /\ 1 \in 1 .. 2 + N /\ 2 \in 1 .. 2 + N
        /\ \A i \in 1 .. N : 2 + i \in 1 .. 2 + N /\ 2 + i \in 1 .. 3 + N
    BY <1>1
  <2> QED
    BY <1>3, <1>6, <1>7, <1>8, <2>1
<1>10. /\ 4 + N \in Nat /\ 4 + N # 0
       /\ \A j \in 1 .. 4 + N : j \in {1, 2, 3 + N, 4 + N} \/ (j - 2 \in 1 .. N /\ 2 + (j - 2) = j)
       /\ 1 \in 1 .. 4 + N /\ 2 \in 1 .. 4 + N /\ 3 + N \in 1 .. 4 + N /\ 4 + N \in 1 .. 4 + N
       /\ \A i \in 1 .. N : 2 + i \in 1 .. 4 + N
  BY <1>1
<1>11. \A j \in 1 .. 4 + N : ops[j] = end \/ ops[j] \in {d1, d2, d3} \/ \E k \in files : ops[j] = Drop("files", {k})
  <2> SUFFICES ASSUME NEW j \in 1 .. 4 + N
               PROVE  ops[j] = end \/ ops[j] \in {d1, d2, d3} \/ \E k \in files : ops[j] = Drop("files", {k})
    OBVIOUS
  <2> HIDE DEF d1, d2, d3, end
  <2>1. CASE j \in {1, 2, 3 + N, 4 + N}
    BY <1>9, <2>1
  <2>2. CASE j - 2 \in 1 .. N /\ 2 + (j - 2) = j
    <3>1. SetToSeq(files)[j - 2] \in files
      BY <1>1, <1>2, <2>2, ElementOfSeq
    <3>2. ops[j] = Drop("files", {SetToSeq(files)[j - 2]})
      BY <1>9, <2>2
    <3> QED
      BY <3>1, <3>2
  <2> QED
    BY <1>10, <2>1, <2>2
<1>12. \A j \in 1 .. 4 + N : j # 4 + N => ops[j] \in {d1, d2, d3} \/ \E k \in files : ops[j] = Drop("files", {k})
  <2> SUFFICES ASSUME NEW j \in 1 .. 4 + N, j # 4 + N
               PROVE  ops[j] \in {d1, d2, d3} \/ \E k \in files : ops[j] = Drop("files", {k})
    OBVIOUS
  <2> HIDE DEF d1, d2, d3
  <2>1. CASE j \in {1, 2, 3 + N}
    BY <1>9, <2>1
  <2>2. CASE j - 2 \in 1 .. N /\ 2 + (j - 2) = j
    <3>1. SetToSeq(files)[j - 2] \in files
      BY <1>1, <1>2, <2>2, ElementOfSeq
    <3>2. ops[j] = Drop("files", {SetToSeq(files)[j - 2]})
      BY <1>9, <2>2
    <3> QED
      BY <3>1, <3>2
  <2> QED
    BY <1>10, <2>1, <2>2
<1>13. \A k \in files : Under(name, k)
  BY DEF files, Scan_prefix, Under
<1>14. \A x, y : /\ Drop(x, y).op = "drop" /\ Drop(x, y).tree = x /\ Drop(x, y).keys = y
  BY DEF Drop
<1>15. OpsOK(ops)
  <2>1. OpOK(d1) /\ OpOK(d2) /\ OpOK(d3) /\ OpOK(end)
    BY DEF OpOK, Drop, Done, Trees
  <2>2. \A k \in files : OpOK(Drop("files", {k}))
    BY DEF OpOK, Drop, Trees
  <2> HIDE DEF d1, d2, d3, end
  <2>3. \A j \in 1 .. 4 + N : OpOK(ops[j])
    BY <1>11, <2>1, <2>2
  <2> QED
    BY <1>8, <2>3 DEF OpsOK
<1>16. \A j \in 1 .. 4 + N : j # 4 + N => ops[j].op = "drop"
  <2>1. d1.op = "drop" /\ d2.op = "drop" /\ d3.op = "drop"
    BY <1>14
  <2>2. \A k : Drop("files", {k}).op = "drop"
    BY <1>14
  <2> HIDE DEF d1, d2, d3
  <2> QED
    BY <1>12, <2>1, <2>2
<1>17. \A j \in 1 .. 4 + N : \A k :
         /\ Touches(ops[j], "archives", k) => k = name
         /\ Touches(ops[j], "stats", k) => k = name
         /\ Touches(ops[j], "files", k) => Under(name, k)
  <2> SUFFICES ASSUME NEW j \in 1 .. 4 + N, NEW k
               PROVE  /\ Touches(ops[j], "archives", k) => k = name
                      /\ Touches(ops[j], "stats", k) => k = name
                      /\ Touches(ops[j], "files", k) => Under(name, k)
    OBVIOUS
  <2>1. CASE ops[j] \in {d1, d2, d3, end}
    BY <2>1 DEF Touches, Drop, Done
  <2>2. ASSUME NEW f \in files, ops[j] = Drop("files", {f})
        PROVE  /\ Touches(ops[j], "archives", k) => k = name
               /\ Touches(ops[j], "stats", k) => k = name
               /\ Touches(ops[j], "files", k) => Under(name, k)
    BY <1>13, <2>2 DEF Touches, Drop
  <2> QED
    BY <1>11, <2>1, <2>2
<1>18. Touches(ops[1], "archives", name) /\ Touches(ops[2], "stats", name)
  BY <1>9, <1>14 DEF Touches
<1>19. \A k \in DOMAIN trees.files : Under(name, k) => \E j \in 1 .. 4 + N : Touches(ops[j], "files", k)
  <2> SUFFICES ASSUME NEW k \in DOMAIN trees.files, Under(name, k)
               PROVE  \E j \in 1 .. 4 + N : Touches(ops[j], "files", k)
    OBVIOUS
  <2>1. k \in files
    BY DEF files, Scan_prefix, Under
  <2>2. PICK i \in 1 .. N : SetToSeq(files)[i] = k
    BY <1>2, <2>1
  <2>3. ops[2 + i] = Drop("files", {k})
    BY <1>9, <2>2
  <2>4. Touches(ops[2 + i], "files", k)
    BY <2>3 DEF Touches, Drop
  <2> QED
    BY <1>10, <2>4
<1>20. \A k \in DOMAIN trees.path_index :
         IsSuffix(Key(<< >>, name), k) => \E j \in 1 .. 4 + N : Touches(ops[j], "path_index", k)
  <2> SUFFICES ASSUME NEW k \in DOMAIN trees.path_index, IsSuffix(Key(<< >>, name), k)
               PROVE  \E j \in 1 .. 4 + N : Touches(ops[j], "path_index", k)
    OBVIOUS
  <2>1. k \in index
    BY DEF index
  <2>2. Touches(ops[3 + N], "path_index", k)
    BY <1>9, <1>14, <2>1 DEF Touches
  <2> QED
    BY <1>10, <2>2
<1>21. RemoveCall(ops, trees, name, closed)
  BY <1>8, <1>9, <1>10, <1>15, <1>16, <1>17, <1>18, <1>19, <1>20 DEF RemoveCall
<1>22. ops = Remove_archive(name) \o <<Done({}, closed, FALSE)>>
  BY DEF Remove_archive, ops, s2, s1, mid, N, index, files
<1> QED
  BY <1>21, <1>22

LEMMA CallRemoveInv ==
  ASSUME CatalogInv, NEW name \in Names, CallRemove(name)
  PROVE  CatalogInv'
<1> DEFINE closed == Scan_prefix(touched, name) \cup {name}
           ops == Remove_archive(name) \o <<Done({}, closed, FALSE)>>
           n == Len(ops)
<1>1. /\ agenda = << >> /\ agenda' = ops /\ indexed' = Untouched(name)
      /\ UNCHANGED <<repo, trees, touched, hurt, time>>
  BY DEF CallRemove, Call
<1>2. CatalogTypeOK /\ TreesOK(trees) /\ indexed \subseteq Archives /\ touched \subseteq Names
  BY DEF CatalogInv, CatalogTypeOK
<1>3. RemoveCall(ops, trees, name, closed)
  BY <1>2, RemoveCallIs
<1>4. /\ \A k, e : Comes(trees, ops, 0, "files", k, e) => \E m \in touched : Under(m, k)
      /\ \A b \in indexed : ExactAt(trees, ops, 0, b) /\ Narrow(b)
      /\ \A b, c \in indexed : b # c => ~ Clash(b.name, c.name)
      /\ ~ hurt => Matched(trees, ops, 0)
  BY <1>1, CallStart
<1>5. indexed' \subseteq indexed /\ \A b \in indexed' : ~ Clash(b.name, name)
  BY <1>1 DEF Untouched
<1>6. name \in Seq(Chars) /\ \A m \in touched : m \in Seq(Chars)
  BY <1>2, NamesAreKeys
<1> HIDE DEF ops
<1>7. /\ n \in Nat /\ n # 0 /\ OpsOK(ops)
      /\ \A j \in 1 .. n : j # n => ops[j].op = "drop"
      /\ ops[n].op = "done" /\ ops[n].archives = {} /\ ops[n].names = closed /\ ops[n].all = FALSE
  BY <1>3 DEF RemoveCall, Done
<1>8. /\ \A j \in 1 .. n : \A k :
           /\ Touches(ops[j], "archives", k) => k = name
           /\ Touches(ops[j], "stats", k) => k = name
           /\ Touches(ops[j], "files", k) => Under(name, k)
      /\ \E j \in 1 .. n : Touches(ops[j], "archives", name)
      /\ \E j \in 1 .. n : Touches(ops[j], "stats", name)
      /\ \A k \in DOMAIN trees.files : Under(name, k) => \E j \in 1 .. n : Touches(ops[j], "files", k)
      /\ \A k \in DOMAIN trees.path_index :
           IsSuffix(Key(<< >>, name), k) => \E j \in 1 .. n : Touches(ops[j], "path_index", k)
  BY <1>3 DEF RemoveCall
<1>9. \A j \in 1 .. n : \A t, k, e : ~ Puts(ops[j], t, k, e)
  BY <1>7 DEF Puts
<1>10. ASSUME NEW i \in 0 .. n, NEW t, NEW k, NEW e, Comes(trees, ops, i, t, k, e)
       PROVE  Comes(trees, ops, 0, t, k, e) /\ Has(trees, t, k, e) /\ \A j \in 1 .. i : ~ Touches(ops[j], t, k)
  <2>1. \A j \in 1 .. i : j \in 1 .. n
    BY <1>7
  <2>2. Has(trees, t, k, e) /\ \A j \in 1 .. i : ~ Touches(ops[j], t, k)
    BY <1>9, <1>10, <2>1 DEF Comes
  <2> QED
    BY <2>2, ComesFirst
<1>11. ASSUME NEW t, NEW k, NEW e, Comes(trees, ops, 0, t, k, e), \A j \in 1 .. n : ~ Touches(ops[j], t, k)
       PROVE  Comes(trees, ops, n, t, k, e)
  BY <1>11, ComesFirst DEF Comes
<1>12. CatalogTypeOK'
  BY <1>1, <1>2, <1>5, <1>7 DEF CatalogTypeOK
<1>13. n \in 0 .. n
  BY <1>7
<1>14. Located(trees', agenda', touched')
  <2> SUFFICES ASSUME NEW i \in 0 .. n, NEW k, NEW e, Comes(trees, ops, i, "files", k, e)
               PROVE  \E m \in Open(touched, ops, i) : Under(m, k)
    BY <1>1 DEF Located
  <2>1. Comes(trees, ops, 0, "files", k, e) /\ Has(trees, "files", k, e) /\ \A j \in 1 .. i : ~ Touches(ops[j], "files", k)
    BY <1>10
  <2>2. PICK m \in touched : Under(m, k)
    BY <1>4, <2>1
  <2>3. k \in DOMAIN trees.files
    BY <2>1 DEF Has
  <2>4. k \in Seq(Chars)
    <3>1. Fits("files", k, e)
      BY <1>2, <2>1 DEF TreesOK, Trees, Has
    <3> QED
      BY <3>1, FileKeys
  <2>5. CASE i # n
    <3>1. \A j \in 1 .. i : j \in 1 .. n /\ j # n
      BY <1>7, <2>5
    <3>2. \A j \in 1 .. i : ops[j].op # "done"
      BY <1>7, <3>1
    <3> QED
      BY <2>2, <3>2 DEF Open
  <2>6. CASE i = n
    <3>1. ~ Under(name, k)
      BY <1>8, <2>1, <2>3, <2>6
    <3>2. m # name
      BY <2>2, <3>1
    <3>3. ~ IsPrefix(Key(name, << >>), m)
      BY <1>6, <2>2, <2>4, <3>1, UnderLonger
    <3>4. m \notin closed
      BY <3>2, <3>3 DEF Scan_prefix
    <3>5. \A j \in 1 .. n : ops[j].op = "done" => j = n
      BY <1>7
    <3>6. \A j \in 1 .. i : ops[j].op = "done" => m \notin ops[j].names
      BY <1>7, <2>6, <3>4, <3>5
    <3> QED
      BY <2>2, <3>6 DEF Open
  <2> QED
    BY <2>5, <2>6
<1>15. \A i \in 0 .. n : Marks(indexed', ops, i) = IF i = 0 THEN indexed' ELSE {}
  <2>1. \A i \in 0 .. n : i # 0 => i \in 1 .. n
    BY <1>7
  <2> QED
    BY <1>7, <2>1 DEF Marks
<1>16. Exact(trees', agenda', indexed')
  <2> SUFFICES ASSUME NEW i \in 0 .. n, NEW b \in Marks(indexed', ops, i)
               PROVE  /\ ExactAt(trees, ops, i, b)
                      /\ \A j \in i + 1 .. n : LeavesAlone(ops[j], b)
                      /\ Narrow(b) \/ \E j \in 1 .. i : ops[j].op = "panic"
    BY <1>1 DEF Exact
  <2>1. i = 0 /\ b \in indexed /\ ~ Clash(b.name, name)
    BY <1>5, <1>15
  <2>2. b.name \in Seq(Chars)
    BY <1>2, <2>1, NamesAreKeys DEF Archives
  <2>3. b.name # name
    BY <1>6, <2>1, ClashItself
  <2>4. ASSUME NEW j \in i + 1 .. n
        PROVE  LeavesAlone(ops[j], b)
    <3>1. j \in 1 .. n
      BY <2>1
    <3>2. ~ Touches(ops[j], "archives", b.name)
      BY <1>8, <2>3, <3>1
    <3>3. \A k \in Seq(Chars) : Under(b.name, k) => ~ Touches(ops[j], "files", k)
      BY <1>6, <1>8, <2>1, <2>2, <3>1, UnderBoth
    <3> QED
      BY <3>2, <3>3 DEF LeavesAlone
  <2> QED
    BY <1>4, <2>1, <2>4
<1>17. Apart(agenda', indexed')
  BY <1>1, <1>4, <1>5, <1>15 DEF Apart
<1>18. ASSUME Matched(trees, ops, 0)
       PROVE  Matched(trees, ops, n)
  <2>1. ASSUME NEW m, NEW e, Comes(trees, ops, n, "stats", m, e)
        PROVE  \E b \in Archives : m = b.name /\ e = Stats(b) /\ Comes(trees, ops, n, "archives", m, CatalogArchive(b))
    <3>1. Comes(trees, ops, 0, "stats", m, e) /\ \A j \in 1 .. n : ~ Touches(ops[j], "stats", m)
      BY <1>10, <1>13, <2>1
    <3>2. m # name
      BY <1>8, <3>1
    <3>3. PICK b \in Archives : m = b.name /\ e = Stats(b) /\ Comes(trees, ops, 0, "archives", m, CatalogArchive(b))
      BY <1>18, <3>1 DEF Matched
    <3>4. \A j \in 1 .. n : ~ Touches(ops[j], "archives", m)
      BY <1>8, <3>2
    <3> QED
      BY <1>11, <3>3, <3>4
  <2>2. ASSUME NEW m, NEW e, Comes(trees, ops, n, "archives", m, e)
        PROVE  \E b \in Archives : m = b.name /\ e = CatalogArchive(b) /\ Comes(trees, ops, n, "stats", m, Stats(b))
    <3>1. Comes(trees, ops, 0, "archives", m, e) /\ \A j \in 1 .. n : ~ Touches(ops[j], "archives", m)
      BY <1>10, <1>13, <2>2
    <3>2. m # name
      BY <1>8, <3>1
    <3>3. PICK b \in Archives : m = b.name /\ e = CatalogArchive(b) /\ Comes(trees, ops, 0, "stats", m, Stats(b))
      BY <1>18, <3>1 DEF Matched
    <3>4. \A j \in 1 .. n : ~ Touches(ops[j], "stats", m)
      BY <1>8, <3>2
    <3> QED
      BY <1>11, <3>3, <3>4
  <2>3. ASSUME NEW k, NEW e, Comes(trees, ops, n, "files", k, e)
        PROVE  \E e2 : Comes(trees, ops, n, "archives", e.archive, e2)
    <3>1. /\ Comes(trees, ops, 0, "files", k, e) /\ Has(trees, "files", k, e)
          /\ \A j \in 1 .. n : ~ Touches(ops[j], "files", k)
      BY <1>10, <1>13, <2>3
    <3>2. ~ Under(name, k)
      BY <1>8, <3>1 DEF Has
    <3>3. Fits("files", k, e)
      BY <1>2, <3>1 DEF TreesOK, Trees, Has
    <3>4. e.archive # name
      BY <3>2, <3>3, FileKeys
    <3>5. PICK e2 : Comes(trees, ops, 0, "archives", e.archive, e2)
      BY <1>18, <3>1 DEF Matched
    <3>6. \A j \in 1 .. n : ~ Touches(ops[j], "archives", e.archive)
      BY <1>8, <3>4
    <3> QED
      BY <1>11, <3>5, <3>6
  <2>4. ASSUME NEW k, NEW e, Comes(trees, ops, n, "path_index", k, e)
        PROVE  \E m, e2 : Comes(trees, ops, n, "archives", m, e2) /\ IsSuffix(Key(<< >>, m), k)
    <3>1. /\ Comes(trees, ops, 0, "path_index", k, e) /\ Has(trees, "path_index", k, e)
          /\ \A j \in 1 .. n : ~ Touches(ops[j], "path_index", k)
      BY <1>10, <1>13, <2>4
    <3>2. ~ IsSuffix(Key(<< >>, name), k)
      BY <1>8, <3>1 DEF Has
    <3>3. PICK m, e2 : Comes(trees, ops, 0, "archives", m, e2) /\ IsSuffix(Key(<< >>, m), k)
      BY <1>18, <3>1 DEF Matched
    <3>4. \A j \in 1 .. n : ~ Touches(ops[j], "archives", m)
      BY <1>8, <3>2, <3>3
    <3> QED
      BY <1>11, <3>3, <3>4
  <2> QED
    BY <2>1, <2>2, <2>3, <2>4 DEF Matched
<1>19. Mends(trees', agenda', hurt')
  <2> SUFFICES ASSUME hurt => \E j \in 1 .. n : ops[j].op = "done" /\ ops[j].all
               PROVE  Matched(trees, ops, n)
    BY <1>1 DEF Mends
  <2>1. ~ hurt
    BY <1>7
  <2> QED
    BY <1>4, <1>18, <2>1
<1> QED
  BY <1>12, <1>14, <1>16, <1>17, <1>19 DEF CatalogInv

LEMMA OwnSet ==
  ASSUME NEW ops, OpsOK(ops)
  PROVE  ops \in Seq({ops[j] : j \in 1 .. Len(ops)})
<1>1. PICK U : ops \in Seq(U)
  BY DEF OpsOK
<1>2. PICK n \in Nat : n = Len(ops)
  BY <1>1, LenProperties
<1>3. DOMAIN ops = 1 .. n /\ ops = [j \in 1 .. n |-> ops[j]]
  BY <1>1, <1>2
<1>4. ops \in [1 .. n -> {ops[j] : j \in 1 .. n}]
  BY <1>3
<1> QED
  BY <1>2, <1>4

\* The writes for one archive, among those of all.
Block(ops, a, done, from, to) ==
  /\ from < to
  /\ \A j \in from + 1 .. to - 1 : ops[j] \in IndexOps(a)
  /\ ops[to] = Done(done, {}, FALSE)
  /\ \E j \in from + 1 .. to - 1 : ops[j] = ArchivePut(a)
  /\ \E j \in from + 1 .. to - 1 : ops[j] = StatsPut(a)
  /\ \A p \in DOMAIN a.items : \E j \in from + 1 .. to - 1 : ops[j] = FilePut(a, p)
  /\ Narrow(a) \/ \E j \in from + 1 .. to - 1 : ops[j] = Panic

LEMMA BlockAt ==
  ASSUME NEW ops, NEW block, NEW a, NEW done, NEW from \in Nat, NEW L \in Nat, L = Len(block),
         IndexCall(block, a, done), \A m \in 1 .. L : ops[from + m] = block[m]
  PROVE  Block(ops, a, done, from, from + L)
<1> DEFINE to == from + L
<1>1. L # 0 /\ from < to /\ L \in 1 .. L
  BY DEF IndexCall
<1>2. \A j \in from + 1 .. to - 1 : j - from \in 1 .. L /\ j - from # L /\ from + (j - from) = j
  OBVIOUS
<1>3. \A m \in 1 .. L : m # L => from + m \in from + 1 .. to - 1
  OBVIOUS
<1>4. \A j \in from + 1 .. to - 1 : ops[j] = block[j - from]
  BY <1>2
<1>5. \A j \in from + 1 .. to - 1 : ops[j] \in IndexOps(a)
  BY <1>2, <1>4 DEF IndexCall
<1>6. ops[to] = Done(done, {}, FALSE)
  BY <1>1 DEF IndexCall
<1>7. \A x : (\E m \in 1 .. L : m # L /\ block[m] = x) => \E j \in from + 1 .. to - 1 : ops[j] = x
  BY <1>3
<1> HIDE DEF to
<1>8. /\ \E j \in from + 1 .. to - 1 : ops[j] = ArchivePut(a)
      /\ \E j \in from + 1 .. to - 1 : ops[j] = StatsPut(a)
      /\ \A p \in DOMAIN a.items : \E j \in from + 1 .. to - 1 : ops[j] = FilePut(a, p)
      /\ Narrow(a) \/ \E j \in from + 1 .. to - 1 : ops[j] = Panic
  BY <1>7 DEF IndexCall
<1>9. Block(ops, a, done, from, to)
  BY <1>1, <1>5, <1>6, <1>8 DEF Block
<1> QED
  BY <1>9 DEF to

\* The writes of a rebuild from the sixth on, and where those of each archive end.
Blocks(ops, archives, own, at) ==
  /\ Len(ops) \in Nat /\ 5 < Len(ops) /\ at[0] = 5 /\ at[Len(archives)] = Len(ops) - 1
  /\ \A i, j \in 0 .. Len(archives) : i <= j => at[i] <= at[j]
  /\ \A j \in 6 .. Len(ops) - 1 : \E i \in 1 .. Len(archives) : at[i - 1] < j /\ j <= at[i]
  /\ \A i \in 1 .. Len(archives) : Block(ops, archives[i], own[i], at[i - 1], at[i])

RebuildList(head, archives, own) ==
  head \o FlattenSeq([i \in 1 .. Len(archives) |->
    Index_archive(archives[i]) \o <<Done(own[i], {}, FALSE)>>]) \o <<Done({}, {}, TRUE)>>

RebuildFrom(head, archives, own) ==
  /\ archives \in Seq(Archives) /\ own \in [1 .. Len(archives) -> SUBSET Archives]
  /\ \E U : head \in Seq(U)
  /\ Len(head) = 5 /\ \A j \in 1 .. 5 : OpOK(head[j])

RebuildTo(ops, head, archives, own) ==
  /\ OpsOK(ops) /\ \A j \in 1 .. 5 : ops[j] = head[j]
  /\ ops[Len(ops)] = Done({}, {}, TRUE)
  /\ \E at \in [0 .. Len(archives) -> Nat] : Blocks(ops, archives, own, at)

LEMMA RebuildCallIs ==
  ASSUME NEW head, NEW archives, NEW own, RebuildFrom(head, archives, own)
  PROVE  RebuildTo(RebuildList(head, archives, own), head, archives, own)
<1> DEFINE blocks == [i \in 1 .. Len(archives) |-> Index_archive(archives[i]) \o <<Done(own[i], {}, FALSE)>>]
           V == UNION {{blocks[i][j] : j \in 1 .. Len(blocks[i])} : i \in 1 .. Len(archives)}
           flat == FlattenSeq(blocks)
           end == Done({}, {}, TRUE)
           ops == RebuildList(head, archives, own)
<1>0. /\ archives \in Seq(Archives) /\ own \in [1 .. Len(archives) -> SUBSET Archives]
      /\ Len(head) = 5 /\ \A j \in 1 .. 5 : OpOK(head[j])
  BY DEF RebuildFrom
<1> PICK U : head \in Seq(U)
  BY DEF RebuildFrom
<1> DEFINE W == U \cup V \cup {end}
<1>1. PICK R \in Nat : R = Len(archives)
  BY <1>0, LenProperties
<1>2. \A i \in 1 .. R : archives[i] \in Archives /\ own[i] \subseteq Archives
  BY <1>0, <1>1, ElementOfSeq
<1>3. \A i \in 1 .. R : IndexCall(blocks[i], archives[i], own[i])
  BY <1>1, <1>2, IndexCallIs
<1>4. blocks \in Seq(Seq(V)) /\ Len(blocks) = R
  <2>1. DOMAIN blocks = 1 .. R /\ blocks = [i \in 1 .. R |-> blocks[i]]
    BY <1>1
  <2> HIDE DEF blocks
  <2>2. \A i \in 1 .. R : blocks[i] \in Seq(V)
    <3> SUFFICES ASSUME NEW i \in 1 .. R PROVE blocks[i] \in Seq(V)
      OBVIOUS
    <3>1. PICK b : b = blocks[i]
      OBVIOUS
    <3>2. b \in Seq({b[j] : j \in 1 .. Len(b)})
      <4>1. OpsOK(b)
        BY <1>3, <3>1 DEF IndexCall
      <4> QED
        BY <4>1, OwnSet
    <3>3. {b[j] : j \in 1 .. Len(b)} \subseteq V
      <4> DEFINE piece(l) == {blocks[l][j] : j \in 1 .. Len(blocks[l])}
      <4>1. piece(i) = {b[j] : j \in 1 .. Len(b)}
        BY <3>1
      <4>2. V = UNION {piece(l) : l \in 1 .. Len(archives)}
        OBVIOUS
      <4> HIDE DEF piece, V
      <4>3. i \in 1 .. Len(archives)
        BY <1>1
      <4>4. piece(i) \subseteq V
        BY <4>2, <4>3
      <4> QED
        BY <4>1, <4>4
    <3> HIDE DEF V
    <3>4. b \in Seq(V)
      BY <3>2, <3>3, SeqMonotonic
    <3> QED
      BY <3>1, <3>4
  <2> HIDE DEF V
  <2>3. R \in Nat /\ blocks \in [1 .. R -> Seq(V)]
    BY <2>1, <2>2
  <2> QED
    BY ONLY <2>3
<1> HIDE DEF blocks
<1>5. flat \in Seq(V) /\ \E after \in [0 .. Len(blocks) -> Nat] : Spread(blocks, flat, after)
  BY <1>4, FlattenSpread
<1>6. PICK after \in [0 .. R -> Nat] : Spread(blocks, flat, after)
  BY <1>4, <1>5
<1>7. PICK F \in Nat : F = Len(flat)
  BY <1>5, LenProperties
<1>8. /\ \A i, j \in 0 .. R : i <= j => after[i] <= after[j]
      /\ \A i \in 1 .. R : after[i] = after[i - 1] + Len(blocks[i])
      /\ \A j \in 1 .. F : \E i \in 1 .. R : \E m \in 1 .. Len(blocks[i]) :
           j = after[i - 1] + m /\ flat[j] = blocks[i][m]
      /\ \A i \in 1 .. R : \A m \in 1 .. Len(blocks[i]) :
           /\ after[i - 1] + m \in 1 .. F /\ after[i - 1] + m <= after[i]
           /\ flat[after[i - 1] + m] = blocks[i][m]
  BY <1>4, <1>6, <1>7 DEF Spread
<1>9. PICK last : last = after[R] /\ last = F /\ after[0] = 0
  BY <1>4, <1>6, <1>7 DEF Spread
<1>10. head \in Seq(W) /\ flat \in Seq(W) /\ end \in W
  <2>1. U \subseteq W /\ V \subseteq W
    OBVIOUS
  <2> HIDE DEF flat, V, W
  <2>2. head \in Seq(W) /\ flat \in Seq(W)
    BY <1>5, <2>1, SeqMonotonic
  <2> QED
    BY <2>2 DEF W
<1> HIDE DEF V, W, flat, end
<1>11. /\ head \o flat \in Seq(W) /\ Len(head \o flat) = 5 + F
       /\ \A i \in 1 .. 5 : (head \o flat)[i] = head[i]
       /\ \A i \in 1 .. F : (head \o flat)[5 + i] = flat[i]
  <2> PICK s, t, X : s = head /\ t = flat /\ X = W
    OBVIOUS
  <2>1. s \in Seq(X) /\ t \in Seq(X)
    BY <1>10
  <2>2. /\ s \o t \in Seq(X)
        /\ \A m, n \in Nat : m = Len(s) /\ n = Len(t) =>
             /\ Len(s \o t) = m + n
             /\ \A i \in 1 .. m : (s \o t)[i] = s[i]
             /\ \A i \in 1 .. n : (s \o t)[m + i] = t[i]
    BY ONLY <2>1, Joined, SMTT(30)
  <2>3. 5 \in Nat /\ 5 = Len(s) /\ F = Len(t)
    BY <1>0, <1>7
  <2>4. /\ Len(s \o t) = 5 + F
        /\ \A i \in 1 .. 5 : (s \o t)[i] = s[i]
        /\ \A i \in 1 .. F : (s \o t)[5 + i] = t[i]
    BY <1>7, <2>2, <2>3
  <2> QED
    BY <2>2, <2>4
<1>12. /\ (head \o flat) \o <<end>> \in Seq(W) /\ Len((head \o flat) \o <<end>>) = 6 + F
       /\ ((head \o flat) \o <<end>>)[6 + F] = end
       /\ \A i \in 1 .. 5 + F : ((head \o flat) \o <<end>>)[i] = (head \o flat)[i]
  <2>1. PICK s : s = head \o flat
    OBVIOUS
  <2>2. s \in Seq(W) /\ 5 + F \in Nat /\ 5 + F = Len(s) /\ (5 + F) + 1 = 6 + F
    BY <1>7, <1>11, <2>1
  <2>3. /\ s \o <<end>> \in Seq(W) /\ Len(s \o <<end>>) = (5 + F) + 1
        /\ (s \o <<end>>)[(5 + F) + 1] = end
        /\ \A i \in 1 .. 5 + F : (s \o <<end>>)[i] = s[i]
    BY <1>10, <2>2, Appended
  <2> QED
    BY <2>1, <2>2, <2>3
<1>13. ops = (head \o flat) \o <<end>>
  BY DEF RebuildList, flat, blocks, end
<1> HIDE DEF ops
<1>14. PICK n \in Nat : n = 6 + F
  BY <1>7
<1>15. ops \in Seq(W) /\ Len(ops) = n /\ ops[n] = end
  BY <1>12, <1>13, <1>14
<1>16. /\ \A j \in 1 .. 5 : ops[j] = head[j]
       /\ \A j \in 1 .. F : ops[5 + j] = flat[j]
  <2>1. (\A j \in 1 .. 5 : j \in 1 .. 5 + F) /\ \A j \in 1 .. F : 5 + j \in 1 .. 5 + F
    BY <1>7
  <2> QED
    BY <1>11, <1>12, <1>13, <2>1
<1>17. /\ \A j \in 1 .. n : j \in 1 .. 5 \/ j = n \/ (j - 5 \in 1 .. F /\ 5 + (j - 5) = j)
       /\ \A j \in 6 .. n - 1 : j - 5 \in 1 .. F /\ 5 + (j - 5) = j
  BY <1>7, <1>14
<1>18. \A i \in 1 .. R : Len(blocks[i]) \in Nat /\ \A m \in 1 .. Len(blocks[i]) : OpOK(blocks[i][m])
  BY <1>3 DEF IndexCall, OpsOK
<1>19. OpsOK(ops)
  <2>1. OpOK(end)
    BY DEF OpOK, Done, end
  <2>2. \A j \in 1 .. F : OpOK(flat[j])
    BY <1>8, <1>18
  <2>3. \A j \in 1 .. n : OpOK(ops[j])
    <3> SUFFICES ASSUME NEW j \in 1 .. n PROVE OpOK(ops[j])
      OBVIOUS
    <3>1. CASE j \in 1 .. 5
      BY <1>0, <1>16, <3>1
    <3>2. CASE j = n
      BY <1>15, <2>1, <3>2
    <3>3. CASE j - 5 \in 1 .. F /\ 5 + (j - 5) = j
      <4>1. ops[j] = flat[j - 5]
        BY <1>16, <3>3
      <4> QED
        BY <2>2, <3>3, <4>1
    <3> QED
      BY <1>17, <3>1, <3>2, <3>3
  <2> QED
    BY <1>15, <2>3 DEF OpsOK
<1> DEFINE at == [i \in 0 .. R |-> 5 + after[i]]
<1>20. \A i \in 0 .. R : after[i] \in Nat /\ at[i] = 5 + after[i] /\ at[i] \in Nat
  OBVIOUS
<1>21. at \in [0 .. R -> Nat] /\ at[0] = 5 /\ at[R] = n - 1 /\ 5 < n
  <2>1. at \in [0 .. R -> Nat]
    BY <1>20
  <2>2. 0 \in 0 .. R /\ R \in 0 .. R
    BY <1>1
  <2>3. at[0] = 5 + after[0] /\ at[R] = 5 + after[R] /\ after[0] = 0 /\ after[R] = F
    BY <1>9, <1>20, <2>2
  <2> HIDE DEF at
  <2> QED
    BY <1>7, <1>14, <2>1, <2>3
<1> HIDE DEF at
<1>22. \A i, j \in 0 .. R : i <= j => at[i] <= at[j]
  BY <1>8, <1>20
<1>23. \A i \in 1 .. R : i - 1 \in 0 .. R /\ i \in 0 .. R
  OBVIOUS
<1>24. \A j \in 6 .. n - 1 : \E i \in 1 .. R : at[i - 1] < j /\ j <= at[i]
  <2> SUFFICES ASSUME NEW j \in 6 .. n - 1 PROVE \E i \in 1 .. R : at[i - 1] < j /\ j <= at[i]
    OBVIOUS
  <2>1. j - 5 \in 1 .. F
    BY <1>17
  <2>2. PICK i \in 1 .. R : \E m \in 1 .. Len(blocks[i]) : j - 5 = after[i - 1] + m
    BY <1>8, <2>1
  <2>3. PICK m \in 1 .. Len(blocks[i]) : j - 5 = after[i - 1] + m
    BY <2>2
  <2>4. after[i - 1] + m <= after[i] /\ Len(blocks[i]) \in Nat
    BY <1>8, <1>18
  <2>5. at[i - 1] = 5 + after[i - 1] /\ at[i] = 5 + after[i] /\ after[i - 1] \in Nat /\ after[i] \in Nat
    BY <1>20, <1>23
  <2>6. PICK x, y, L \in Nat : x = after[i - 1] /\ y = after[i] /\ L = Len(blocks[i])
    BY <2>4, <2>5
  <2>7. j - 5 = x + m /\ x + m <= y /\ m \in 1 .. L
    BY <2>3, <2>4, <2>6
  <2>8. 5 + x < j /\ j <= 5 + y
    BY <2>7
  <2> QED
    BY <2>5, <2>6, <2>8
<1>25. \A i \in 1 .. R : Block(ops, archives[i], own[i], at[i - 1], at[i])
  <2> SUFFICES ASSUME NEW i \in 1 .. R PROVE Block(ops, archives[i], own[i], at[i - 1], at[i])
    OBVIOUS
  <2>1. at[i - 1] = 5 + after[i - 1] /\ at[i] = 5 + after[i] /\ after[i - 1] \in Nat /\ after[i] \in Nat
    BY <1>20, <1>23
  <2>2. PICK L \in Nat : L = Len(blocks[i])
    BY <1>18
  <2>3. PICK from \in Nat : from = at[i - 1]
    BY <2>1
  <2>4. at[i] = from + L
    <3>1. PICK x, y \in Nat : x = after[i - 1] /\ y = after[i]
      BY <2>1
    <3>2. y = x + L
      BY <1>8, <2>2, <3>1
    <3>3. at[i] = 5 + y /\ from = 5 + x
      BY <2>1, <2>3, <3>1
    <3> QED
      BY <3>2, <3>3
  <2>5. \A m \in 1 .. L : ops[from + m] = blocks[i][m]
    <3> SUFFICES ASSUME NEW m \in 1 .. L PROVE ops[from + m] = blocks[i][m]
      OBVIOUS
    <3>1. after[i - 1] + m \in 1 .. F /\ flat[after[i - 1] + m] = blocks[i][m]
      BY <1>8, <2>2
    <3>2. from + m = 5 + (after[i - 1] + m)
      BY <2>1, <2>3
    <3> QED
      BY <1>16, <3>1, <3>2
  <2>6. Block(ops, archives[i], own[i], from, from + L)
    BY <1>3, <2>2, <2>5, BlockAt
  <2> QED
    BY <2>3, <2>4, <2>6
<1>26. Blocks(ops, archives, own, at)
  BY <1>1, <1>15, <1>21, <1>22, <1>24, <1>25 DEF Blocks
<1>27. ops[Len(ops)] = Done({}, {}, TRUE)
  BY <1>15 DEF end
<1> QED
  BY <1>1, <1>16, <1>19, <1>21, <1>26, <1>27 DEF RebuildTo, ops

RebuildCall(ops, T, archives, own, closed, at) ==
  /\ archives \in Seq(Archives) /\ at \in [0 .. Len(archives) -> Nat]
  /\ OpsOK(ops) /\ Blocks(ops, archives, own, at)
  /\ ops[Len(ops)] = Done({}, {}, TRUE) /\ ops[5] = Done({}, closed, FALSE)
  /\ \A j \in 1 .. 4 : ops[j].op = "drop"
  /\ \A t \in Trees : \A k \in DOMAIN T[t] : \E j \in 1 .. 4 : Touches(ops[j], t, k)

\* The j-th write is one of those that index the i-th archive.
Within(at, i, j) == at[i - 1] < j /\ j < at[i]

Places(ops, archives, own, at, n, R) ==
  /\ R \in Nat /\ n \in Nat /\ 5 < n /\ \A i \in 1 .. R : archives[i] \in Archives
  /\ \A i \in 0 .. R : at[i] \in Nat /\ 5 <= at[i] /\ at[i] < n
  /\ \A i, j \in 0 .. R : i <= j => at[i] <= at[j]
  /\ \A i \in 1 .. R : ops[at[i]] = Done(own[i], {}, FALSE)
  /\ \A i \in 1 .. R : \A j \in 1 .. n : Within(at, i, j) => ops[j] \in IndexOps(archives[i])
  /\ \A j \in 1 .. n : \/ j \in 1 .. 4 \/ j = 5 \/ j = n
                       \/ \E i \in 1 .. R : j = at[i]
                       \/ \E i \in 1 .. R : Within(at, i, j)

LEMMA RebuildPlaces ==
  ASSUME NEW ops, NEW T, NEW archives, NEW own, NEW closed, NEW at,
         RebuildCall(ops, T, archives, own, closed, at), NEW n, n = Len(ops), NEW R, R = Len(archives)
  PROVE  Places(ops, archives, own, at, n, R)
<1>1. /\ R \in Nat /\ n \in Nat /\ 5 < n /\ \A i \in 1 .. R : archives[i] \in Archives
  BY LenProperties, ElementOfSeq DEF RebuildCall, Blocks
<1>2. /\ at[0] = 5 /\ at[R] = n - 1
      /\ \A i, j \in 0 .. R : i <= j => at[i] <= at[j]
      /\ \A j \in 6 .. n - 1 : \E i \in 1 .. R : at[i - 1] < j /\ j <= at[i]
      /\ \A i \in 1 .. R : Block(ops, archives[i], own[i], at[i - 1], at[i])
  BY DEF RebuildCall, Blocks
<1>3. \A i \in 0 .. R : at[i] \in Nat
  BY DEF RebuildCall
<1>4. \A i \in 0 .. R : 5 <= at[i] /\ at[i] < n
  <2> SUFFICES ASSUME NEW i \in 0 .. R PROVE 5 <= at[i] /\ at[i] < n
    OBVIOUS
  <2>1. 0 \in 0 .. R /\ R \in 0 .. R /\ 0 <= i /\ i <= R
    BY <1>1
  <2>2. at[0] <= at[i] /\ at[i] <= at[R]
    BY <1>2, <2>1
  <2> QED
    BY <1>1, <1>2, <1>3, <2>2
<1>5. \A i \in 1 .. R : ops[at[i]] = Done(own[i], {}, FALSE)
  BY <1>2 DEF Block
<1>6. \A i \in 1 .. R : \A j \in 1 .. n : Within(at, i, j) => ops[j] \in IndexOps(archives[i])
  <2> SUFFICES ASSUME NEW i \in 1 .. R, NEW j \in 1 .. n, Within(at, i, j) PROVE ops[j] \in IndexOps(archives[i])
    OBVIOUS
  <2>1. i - 1 \in 0 .. R /\ i \in 0 .. R
    BY <1>1
  <2>2. PICK x, y \in Nat : x = at[i - 1] /\ y = at[i]
    BY <1>3, <2>1
  <2>3. x < j /\ j < y
    BY <2>2 DEF Within
  <2>4. j \in x + 1 .. y - 1
    BY <1>1, <2>3
  <2>5. Block(ops, archives[i], own[i], x, y)
    BY <1>2, <2>2
  <2> QED
    BY <2>4, <2>5 DEF Block
<1>7. \A j \in 1 .. n : \/ j \in 1 .. 4 \/ j = 5 \/ j = n
                        \/ \E i \in 1 .. R : j = at[i]
                        \/ \E i \in 1 .. R : Within(at, i, j)
  <2> SUFFICES ASSUME NEW j \in 1 .. n, j \notin 1 .. 4, j # 5, j # n
               PROVE  \E i \in 1 .. R : j = at[i] \/ Within(at, i, j)
    OBVIOUS
  <2>1. j \in 6 .. n - 1
    BY <1>1
  <2>2. PICK i \in 1 .. R : at[i - 1] < j /\ j <= at[i]
    BY <1>2, <2>1
  <2>3. i \in 0 .. R
    BY <1>1
  <2>4. j = at[i] \/ j < at[i]
    BY <1>1, <1>3, <2>2, <2>3
  <2> QED
    BY <2>2, <2>4 DEF Within
<1> QED
  BY <1>1, <1>2, <1>3, <1>4, <1>5, <1>6, <1>7 DEF Places

LEMMA RebuildTouches ==
  ASSUME NEW ops, NEW T, NEW archives, NEW own, NEW closed, NEW at,
         RebuildCall(ops, T, archives, own, closed, at), NEW n, n = Len(ops), NEW R, R = Len(archives)
  PROVE  /\ \A j \in 1 .. n : \A t, k : Touches(ops[j], t, k) => j \in 1 .. 4 \/ \E i \in 1 .. R : Within(at, i, j)
         /\ \A j \in 1 .. n : \A t, k, e : Puts(ops[j], t, k, e) => \E i \in 1 .. R : Within(at, i, j)
         /\ \A i, l \in 1 .. R : \A j, m \in 1 .. n : Within(at, i, j) /\ Within(at, l, m) /\ i < l => j < m
         /\ \A i, l \in 1 .. R : \A j \in 1 .. n : Within(at, i, j) => (j <= at[l] <=> i <= l) /\ 5 < j
<1>1. /\ R \in Nat /\ n \in Nat /\ 5 < n
      /\ \A i \in 0 .. R : at[i] \in Nat /\ 5 <= at[i] /\ at[i] < n
      /\ \A i, j \in 0 .. R : i <= j => at[i] <= at[j]
      /\ \A i \in 1 .. R : ops[at[i]] = Done(own[i], {}, FALSE)
      /\ \A j \in 1 .. n : \/ j \in 1 .. 4 \/ j = 5 \/ j = n
                           \/ \E i \in 1 .. R : j = at[i]
                           \/ \E i \in 1 .. R : Within(at, i, j)
  <2>1. Places(ops, archives, own, at, n, R)
    BY RebuildPlaces
  <2> QED
    BY <2>1 DEF Places
<1>2. \A x, y, z, t, k, e : ~ Touches(Done(x, y, z), t, k) /\ ~ Puts(Done(x, y, z), t, k, e)
  BY DEF Touches, Puts, Done
<1>3. /\ ops[5] = Done({}, closed, FALSE) /\ ops[n] = Done({}, {}, TRUE)
      /\ \A j \in 1 .. 4 : ops[j].op = "drop"
  BY DEF RebuildCall
<1>4. \A j \in 1 .. n : j = 5 \/ j = n \/ (\E i \in 1 .. R : j = at[i]) => \E x, y, z : ops[j] = Done(x, y, z)
  <2>1. ASSUME NEW j \in 1 .. n, NEW i \in 1 .. R, j = at[i]
        PROVE  \E x, y, z : ops[j] = Done(x, y, z)
    <3>1. ops[j] = Done(own[i], {}, FALSE)
      BY <1>1, <2>1
    <3> QED
      BY <3>1
  <2>2. (\E x, y, z : ops[5] = Done(x, y, z)) /\ \E x, y, z : ops[n] = Done(x, y, z)
    BY <1>3
  <2> QED
    BY <2>1, <2>2
<1>5. ASSUME NEW j \in 1 .. n, NEW t, NEW k, Touches(ops[j], t, k)
      PROVE  j \in 1 .. 4 \/ \E i \in 1 .. R : Within(at, i, j)
  <2>1. ~ \E x, y, z : ops[j] = Done(x, y, z)
    BY <1>2, <1>5
  <2> QED
    BY <1>1, <1>4, <2>1
<1>6. ASSUME NEW j \in 1 .. n, NEW t, NEW k, NEW e, Puts(ops[j], t, k, e)
      PROVE  \E i \in 1 .. R : Within(at, i, j)
  <2>1. Touches(ops[j], t, k)
    BY <1>6 DEF Touches, Puts
  <2>2. ~ (j \in 1 .. 4)
    BY <1>3, <1>6 DEF Puts
  <2> QED
    BY <1>5, <2>1, <2>2
<1>7. ASSUME NEW i \in 1 .. R, NEW l \in 1 .. R, NEW j \in 1 .. n, Within(at, i, j)
      PROVE  (j <= at[l] <=> i <= l) /\ 5 < j
  <2>1. i - 1 \in 0 .. R /\ i \in 0 .. R /\ l \in 0 .. R
    BY <1>1
  <2>2. PICK x, y, z \in Nat : x = at[i - 1] /\ y = at[i] /\ z = at[l]
    BY <1>1, <2>1
  <2>3. x < j /\ j < y /\ 5 <= x
    BY <1>1, <1>7, <2>1, <2>2 DEF Within
  <2>4. i <= l => y <= z
    BY <1>1, <2>1, <2>2
  <2>5. ~ (i <= l) => l <= i - 1
    OBVIOUS
  <2>6. ~ (i <= l) => z <= x
    BY <1>1, <2>1, <2>2, <2>5
  <2> QED
    BY <2>2, <2>3, <2>4, <2>6
<1>8. ASSUME NEW i \in 1 .. R, NEW l \in 1 .. R, NEW j \in 1 .. n, NEW m \in 1 .. n,
             Within(at, i, j), Within(at, l, m), i < l
      PROVE  j < m
  <2>1. i \in 0 .. R /\ l - 1 \in 0 .. R /\ i <= l - 1
    BY <1>1, <1>8
  <2>2. PICK x, y \in Nat : x = at[i] /\ y = at[l - 1]
    BY <1>1, <2>1
  <2>3. j < x /\ y < m /\ x <= y
    BY <1>1, <1>8, <2>1, <2>2 DEF Within
  <2> QED
    BY <2>3
<1> QED
  BY <1>5, <1>6, <1>7, <1>8

\* From the fifth write on all there is comes from an archive of the list.
LEMMA RebuildComes ==
  ASSUME NEW ops, NEW T, NEW archives, NEW own, NEW closed, NEW at,
         RebuildCall(ops, T, archives, own, closed, at), NEW n, n = Len(ops), NEW R, R = Len(archives),
         NEW m \in 4 .. n, NEW t \in Trees, NEW k, NEW e, Comes(T, ops, m, t, k, e)
  PROVE  \E j \in 1 .. m : \E i \in 1 .. R :
           /\ Within(at, i, j) /\ j \in 1 .. n /\ ops[j] \in IndexOps(archives[i])
           /\ Puts(ops[j], t, k, e) /\ Touches(ops[j], t, k)
           /\ \A l \in j + 1 .. m : ~ Touches(ops[l], t, k)
<1>1. n \in Nat /\ \A j \in 1 .. m : j \in 1 .. n
  BY RebuildPlaces DEF Places
<1>2. ~ (Has(T, t, k, e) /\ \A j \in 1 .. m : ~ Touches(ops[j], t, k))
  <2> SUFFICES ASSUME Has(T, t, k, e) PROVE \E j \in 1 .. m : Touches(ops[j], t, k)
    OBVIOUS
  <2>1. PICK j \in 1 .. 4 : Touches(ops[j], t, k)
    BY DEF RebuildCall, Has
  <2>2. j \in 1 .. m
    BY <1>1
  <2> QED
    BY <2>1, <2>2
<1>3. PICK j \in 1 .. m : Puts(ops[j], t, k, e) /\ \A l \in j + 1 .. m : ~ Touches(ops[l], t, k)
  BY <1>2 DEF Comes
<1>4. PICK i \in 1 .. R : Within(at, i, j)
  BY <1>1, <1>3, RebuildTouches
<1>5. ops[j] \in IndexOps(archives[i])
  BY <1>1, <1>4, RebuildPlaces DEF Places
<1>6. Touches(ops[j], t, k)
  BY <1>3 DEF Touches, Puts
<1> QED
  BY <1>1, <1>3, <1>4, <1>5, <1>6

\* After a rebuild the entries, the statistics, the files and the index go together.
LEMMA RebuildMatched ==
  ASSUME NEW ops, NEW T, NEW archives, NEW own, NEW closed, NEW at,
         RebuildCall(ops, T, archives, own, closed, at)
  PROVE  Matched(T, ops, Len(ops))
<1> DEFINE n == Len(ops)
           R == Len(archives)
<1>1. Places(ops, archives, own, at, n, R)
  BY RebuildPlaces
<1>2. /\ R \in Nat /\ n \in Nat /\ 5 < n /\ \A i \in 1 .. R : archives[i] \in Archives
      /\ \A i \in 1 .. R : \A j \in 1 .. n : Within(at, i, j) => ops[j] \in IndexOps(archives[i])
  BY <1>1 DEF Places
<1>3. /\ \A j \in 1 .. n : \A t, k : Touches(ops[j], t, k) => j \in 1 .. 4 \/ \E i \in 1 .. R : Within(at, i, j)
      /\ \A i, l \in 1 .. R : \A j, m \in 1 .. n : Within(at, i, j) /\ Within(at, l, m) /\ i < l => j < m
      /\ \A i, l \in 1 .. R : \A j \in 1 .. n : Within(at, i, j) => (j <= at[l] <=> i <= l) /\ 5 < j
  BY RebuildTouches
<1>4. ASSUME NEW t \in Trees, NEW k, NEW e, Comes(T, ops, n, t, k, e)
      PROVE  \E j \in 1 .. n : \E i \in 1 .. R :
               /\ Within(at, i, j) /\ ops[j] \in IndexOps(archives[i])
               /\ Puts(ops[j], t, k, e) /\ Touches(ops[j], t, k)
               /\ \A l \in j + 1 .. n : ~ Touches(ops[l], t, k)
  <2>1. n \in 4 .. n /\ n = Len(ops) /\ R = Len(archives)
    BY <1>2
  <2> HIDE DEF n, R
  <2>2. \E j \in 1 .. n : \E i \in 1 .. R :
               /\ Within(at, i, j) /\ j \in 1 .. n /\ ops[j] \in IndexOps(archives[i])
               /\ Puts(ops[j], t, k, e) /\ Touches(ops[j], t, k)
               /\ \A l \in j + 1 .. n : ~ Touches(ops[l], t, k)
    BY <1>4, <2>1, RebuildComes
  <2> QED
    BY <2>2
\* Each archive's entry and statistics are put.
<1>5. \A i \in 1 .. R : /\ \E j \in 1 .. n : Within(at, i, j) /\ ops[j] = ArchivePut(archives[i])
                        /\ \E j \in 1 .. n : Within(at, i, j) /\ ops[j] = StatsPut(archives[i])
  <2> SUFFICES ASSUME NEW i \in 1 .. R
               PROVE  /\ \E j \in 1 .. n : Within(at, i, j) /\ ops[j] = ArchivePut(archives[i])
                      /\ \E j \in 1 .. n : Within(at, i, j) /\ ops[j] = StatsPut(archives[i])
    OBVIOUS
  <2>1. Block(ops, archives[i], own[i], at[i - 1], at[i])
    BY DEF RebuildCall, Blocks
  <2>2. i - 1 \in 0 .. R /\ i \in 0 .. R
    BY <1>2
  <2>3. PICK x, y \in Nat : x = at[i - 1] /\ y = at[i] /\ y < n
    BY <1>1, <2>2 DEF Places
  <2>4. \A j \in x + 1 .. y - 1 : j \in 1 .. n /\ x < j /\ j < y
    BY <1>2, <2>3
  <2>5. \A j \in x + 1 .. y - 1 : j \in 1 .. n /\ Within(at, i, j)
    BY <2>3, <2>4 DEF Within
  <2>6. /\ \E j \in x + 1 .. y - 1 : ops[j] = ArchivePut(archives[i])
        /\ \E j \in x + 1 .. y - 1 : ops[j] = StatsPut(archives[i])
    BY <2>1, <2>3 DEF Block
  <2> QED
    BY <2>5, <2>6
<1> HIDE DEF n, R
<1>6. \A i \in 1 .. R : \A j \in 1 .. n : Within(at, i, j) =>
        /\ \A k : Touches(ops[j], "archives", k) => k = archives[i].name /\ Puts(ops[j], "archives", k, CatalogArchive(archives[i]))
        /\ \A k : Touches(ops[j], "stats", k) => k = archives[i].name /\ Puts(ops[j], "stats", k, Stats(archives[i]))
        /\ \A t, k : Touches(ops[j], t, k) => \E e : Puts(ops[j], t, k, e)
  BY <1>2, IndexTouches
<1>7. ASSUME NEW j \in 1 .. n, NEW i \in 1 .. R, Within(at, i, j), NEW t, NEW k, NEW m \in j .. n, Touches(ops[m], t, k)
      PROVE  m \in 1 .. n /\ \E l \in 1 .. R : Within(at, l, m)
  <2>1. 5 < j
    BY <1>3, <1>7
  <2>2. m \in 1 .. n /\ ~ (m \in 1 .. 4)
    BY <1>2, <2>1
  <2> QED
    BY <1>3, <1>7, <2>2
\* A name's last entry and last statistics are of the same archive.
<1>8. ASSUME NEW i \in 1 .. R, NEW j \in 1 .. n, NEW m, Within(at, i, j), m = archives[i].name,
             \/ Touches(ops[j], "archives", m) /\ \A l \in j + 1 .. n : ~ Touches(ops[l], "archives", m)
             \/ Touches(ops[j], "stats", m) /\ \A l \in j + 1 .. n : ~ Touches(ops[l], "stats", m)
      PROVE  \A l \in 1 .. R : \A x \in 1 .. n : Within(at, l, x) /\ archives[l].name = m => l <= i
  <2> SUFFICES ASSUME NEW l \in 1 .. R, archives[l].name = m, ~ (l <= i) PROVE FALSE
    OBVIOUS
  <2>1. i < l
    BY <1>2
  <2>2. PICK x \in 1 .. n : Within(at, l, x) /\ ops[x] = ArchivePut(archives[l])
    BY <1>5
  <2>3. PICK y \in 1 .. n : Within(at, l, y) /\ ops[y] = StatsPut(archives[l])
    BY <1>5
  <2>4. j < x /\ j < y
    BY <1>3, <1>8, <2>1, <2>2, <2>3
  <2>5. x \in j + 1 .. n /\ y \in j + 1 .. n
    BY <1>2, <2>4
  <2>6. Touches(ops[x], "archives", m) /\ Touches(ops[y], "stats", m)
    <3>1. /\ Puts(ArchivePut(archives[l]), "archives", archives[l].name, CatalogArchive(archives[l]))
          /\ Puts(StatsPut(archives[l]), "stats", archives[l].name, Stats(archives[l]))
      BY IndexPuts
    <3>2. /\ Puts(ops[x], "archives", m, CatalogArchive(archives[l]))
          /\ Puts(ops[y], "stats", m, Stats(archives[l]))
      BY <2>2, <2>3, <3>1
    <3> QED
      BY <3>2 DEF Touches, Puts
  <2> QED
    BY <1>8, <2>5, <2>6
<1>9. ASSUME NEW i \in 1 .. R, NEW j \in 1 .. n, NEW m, Within(at, i, j), m = archives[i].name,
             \/ Touches(ops[j], "archives", m) /\ \A l \in j + 1 .. n : ~ Touches(ops[l], "archives", m)
             \/ Touches(ops[j], "stats", m) /\ \A l \in j + 1 .. n : ~ Touches(ops[l], "stats", m)
      PROVE  /\ Comes(T, ops, n, "archives", m, CatalogArchive(archives[i]))
             /\ Comes(T, ops, n, "stats", m, Stats(archives[i]))
  <2>1. \A l \in 1 .. R : \A x \in 1 .. n : Within(at, l, x) /\ archives[l].name = m => l <= i
    BY <1>8, <1>9
  <2>2. PICK x \in 1 .. n : Within(at, i, x) /\ ops[x] = ArchivePut(archives[i])
    BY <1>5
  <2>3. PICK y \in 1 .. n : Within(at, i, y) /\ ops[y] = StatsPut(archives[i])
    BY <1>5
  <2>4. Puts(ops[x], "archives", m, CatalogArchive(archives[i])) /\ Puts(ops[y], "stats", m, Stats(archives[i]))
    BY <1>9, <2>2, <2>3, IndexPuts
  <2>5. ASSUME NEW l \in x .. n, Touches(ops[l], "archives", m)
        PROVE  Puts(ops[l], "archives", m, CatalogArchive(archives[i]))
    <3>1. l \in 1 .. n
      BY <1>2
    <3>2. PICK w \in 1 .. R : Within(at, w, l)
      BY <1>7, <2>2, <2>5
    <3>3. m = archives[w].name /\ Puts(ops[l], "archives", m, CatalogArchive(archives[w]))
      BY <1>6, <2>5, <3>1, <3>2
    <3>4. w <= i /\ ~ (w < i)
      BY <1>2, <1>3, <2>1, <2>2, <3>1, <3>2, <3>3
    <3>5. w = i
      BY <1>2, <3>4
    <3> QED
      BY <3>3, <3>5
  <2>6. ASSUME NEW l \in y .. n, Touches(ops[l], "stats", m)
        PROVE  Puts(ops[l], "stats", m, Stats(archives[i]))
    <3>1. l \in 1 .. n
      BY <1>2
    <3>2. PICK w \in 1 .. R : Within(at, w, l)
      BY <1>7, <2>3, <2>6
    <3>3. m = archives[w].name /\ Puts(ops[l], "stats", m, Stats(archives[w]))
      BY <1>6, <2>6, <3>1, <3>2
    <3>4. w <= i /\ ~ (w < i)
      BY <1>2, <1>3, <2>1, <2>3, <3>1, <3>2, <3>3
    <3>5. w = i
      BY <1>2, <3>4
    <3> QED
      BY <3>3, <3>5
  <2>7. Comes(T, ops, n, "archives", m, CatalogArchive(archives[i]))
    BY <1>2, <2>4, <2>5, PutComes
  <2>8. Comes(T, ops, n, "stats", m, Stats(archives[i]))
    BY <1>2, <2>4, <2>6, PutComes
  <2> QED
    BY <2>7, <2>8
<1>10. ASSUME NEW m, NEW e, Comes(T, ops, n, "stats", m, e)
       PROVE  \E b \in Archives : m = b.name /\ e = Stats(b) /\ Comes(T, ops, n, "archives", m, CatalogArchive(b))
  <2>1. PICK j \in 1 .. n, i \in 1 .. R :
          /\ Within(at, i, j) /\ Puts(ops[j], "stats", m, e) /\ Touches(ops[j], "stats", m)
          /\ \A l \in j + 1 .. n : ~ Touches(ops[l], "stats", m)
    BY <1>4, <1>10 DEF Trees
  <2>2. m = archives[i].name /\ Puts(ops[j], "stats", m, Stats(archives[i]))
    BY <1>6, <2>1
  <2>3. e = Stats(archives[i])
    BY <2>1, <2>2 DEF Puts
  <2> QED
    BY <1>2, <1>9, <2>1, <2>2, <2>3
<1>11. ASSUME NEW m, NEW e, Comes(T, ops, n, "archives", m, e)
       PROVE  \E b \in Archives : m = b.name /\ e = CatalogArchive(b) /\ Comes(T, ops, n, "stats", m, Stats(b))
  <2>1. PICK j \in 1 .. n, i \in 1 .. R :
          /\ Within(at, i, j) /\ Puts(ops[j], "archives", m, e) /\ Touches(ops[j], "archives", m)
          /\ \A l \in j + 1 .. n : ~ Touches(ops[l], "archives", m)
    BY <1>4, <1>11 DEF Trees
  <2>2. m = archives[i].name /\ Puts(ops[j], "archives", m, CatalogArchive(archives[i]))
    BY <1>6, <2>1
  <2>3. e = CatalogArchive(archives[i])
    BY <2>1, <2>2 DEF Puts
  <2> QED
    BY <1>2, <1>9, <2>1, <2>2, <2>3
<1>12. \A i \in 1 .. R : \E e : Comes(T, ops, n, "archives", archives[i].name, e)
  <2> SUFFICES ASSUME NEW i \in 1 .. R PROVE \E e : Comes(T, ops, n, "archives", archives[i].name, e)
    OBVIOUS
  <2>1. PICK x \in 1 .. n : Within(at, i, x) /\ ops[x] = ArchivePut(archives[i])
    BY <1>5
  <2>2. Touches(ops[x], "archives", archives[i].name)
    BY <2>1, IndexPuts DEF Touches, Puts
  <2>3. \A l \in x .. n : Touches(ops[l], "archives", archives[i].name) => \E e : Puts(ops[l], "archives", archives[i].name, e)
    BY <1>6, <1>7, <2>1
  <2> QED
    BY <1>2, <2>2, <2>3, SomeComes
<1>13. ASSUME NEW k, NEW e, Comes(T, ops, n, "files", k, e)
       PROVE  \E e2 : Comes(T, ops, n, "archives", e.archive, e2)
  <2>1. PICK j \in 1 .. n, i \in 1 .. R :
          ops[j] \in IndexOps(archives[i]) /\ Puts(ops[j], "files", k, e) /\ Touches(ops[j], "files", k)
    BY <1>4, <1>13 DEF Trees
  <2>2. PICK p \in DOMAIN archives[i].items : Puts(ops[j], "files", k, CatalogFile(archives[i], p))
    BY <1>2, <2>1, IndexTouches
  <2>3. e = CatalogFile(archives[i], p)
    BY <2>1, <2>2 DEF Puts
  <2>4. e.archive = archives[i].name
    BY <2>3 DEF CatalogFile
  <2> QED
    BY <1>12, <2>4
<1>14. ASSUME NEW k, NEW e, Comes(T, ops, n, "path_index", k, e)
       PROVE  \E m, e2 : Comes(T, ops, n, "archives", m, e2) /\ IsSuffix(Key(<< >>, m), k)
  <2>1. PICK j \in 1 .. n, i \in 1 .. R : ops[j] \in IndexOps(archives[i]) /\ Touches(ops[j], "path_index", k)
    BY <1>4, <1>14 DEF Trees
  <2>2. IsSuffix(Key(<< >>, archives[i].name), k)
    BY <1>2, <2>1, IndexTouches
  <2> QED
    BY <1>12, <2>2
<1> QED
  BY <1>10, <1>11, <1>13, <1>14 DEF Matched, n

LEMMA CallRebuildInv ==
  ASSUME CatalogInv, CallRebuild
  PROVE  CatalogInv'
<1> DEFINE names == {repo[i].name : i \in DOMAIN repo}
           closed == touched \ names
           alone(i) == ~ \E j \in DOMAIN repo \ {i} : Clash(repo[i].name, repo[j].name)
           own == [i \in 1 .. Len(repo) |-> IF alone(i) THEN {repo[i]} ELSE {}]
           d1 == Drop("archives", DOMAIN trees.archives)
           d2 == Drop("files", DOMAIN trees.files)
           d3 == Drop("path_index", DOMAIN trees.path_index)
           d4 == Drop("stats", DOMAIN trees.stats)
           d5 == Done({}, closed, FALSE)
           ops == Rebuild_from_archives(repo)
           n == Len(ops)
           R == Len(repo)
<1>1. /\ agenda = << >> /\ agenda' = ops /\ indexed' = {}
      /\ touched' = touched \cup names /\ UNCHANGED <<repo, trees, hurt, time>>
  BY DEF CallRebuild, Call
<1>2. CatalogTypeOK /\ TreesOK(trees) /\ touched \subseteq Names /\ repo \in Seq(Archives)
  BY DEF CatalogInv, CatalogTypeOK
<1>3. /\ R \in Nat /\ DOMAIN repo = 1 .. R /\ \A i \in 1 .. R : repo[i] \in Archives /\ repo[i].name \in names /\ repo[i].name \in Names
  <2>1. R \in Nat /\ DOMAIN repo = 1 .. R /\ \A i \in 1 .. R : repo[i] \in Archives
    BY <1>2, LenProperties, ElementOfSeq
  <2> QED
    BY <2>1 DEF Archives
<1>4. names \subseteq Names
  BY <1>3
<1>5. own \in [1 .. R -> SUBSET Archives] /\ \A i \in 1 .. R : own[i] = IF alone(i) THEN {repo[i]} ELSE {}
  BY <1>3
<1>6. \E at : RebuildCall(ops, trees, repo, own, closed, at)
  <2> DEFINE head == <<d1, d2, d3, d4, d5>>
             U == {d1, d2, d3, d4, d5}
  <2>1. /\ head \in Seq(U) /\ Len(head) = 5
        /\ head[1] = d1 /\ head[2] = d2 /\ head[3] = d3 /\ head[4] = d4 /\ head[5] = d5
    <3> HIDE DEF d1, d2, d3, d4, d5
    <3> QED
      OBVIOUS
  <2>2. ops = RebuildList(head, repo, own)
    <3>1. \A i \in 1 .. R : own[i] = IF \E j \in DOMAIN repo \ {i} : Clash(repo[i].name, repo[j].name) THEN {} ELSE {repo[i]}
      BY <1>5
    <3>2. [i \in DOMAIN repo |-> Index_archive(repo[i]) \o
             <<Done(IF \E j \in DOMAIN repo \ {i} : Clash(repo[i].name, repo[j].name) THEN {} ELSE {repo[i]}, {}, FALSE)>>]
          = [i \in 1 .. R |-> Index_archive(repo[i]) \o <<Done(own[i], {}, FALSE)>>]
      <4> HIDE DEF own
      <4> QED
        BY <1>3, <3>1
    <3> QED
      BY <3>2 DEF Rebuild_from_archives, RebuildList
  <2>3. OpOK(d1) /\ OpOK(d2) /\ OpOK(d3) /\ OpOK(d4) /\ OpOK(d5)
    BY DEF OpOK, Drop, Done, Trees
  <2>4. \A j \in 1 .. 5 : OpOK(head[j])
    <3>1. \A j \in 1 .. 5 : j = 1 \/ j = 2 \/ j = 3 \/ j = 4 \/ j = 5
      OBVIOUS
    <3> HIDE DEF head, d1, d2, d3, d4, d5
    <3> QED
      BY <2>1, <2>3, <3>1
  <2> HIDE DEF head, U, own, ops
  <2>5. /\ OpsOK(ops) /\ \A j \in 1 .. 5 : ops[j] = head[j]
        /\ ops[Len(ops)] = Done({}, {}, TRUE)
        /\ \E at \in [0 .. Len(repo) -> Nat] : Blocks(ops, repo, own, at)
    <3>1. RebuildFrom(head, repo, own)
      BY <1>2, <1>5, <2>1, <2>4 DEF RebuildFrom
    <3>2. RebuildTo(ops, head, repo, own)
      BY <2>2, <3>1, RebuildCallIs
    <3> QED
      BY <3>2 DEF RebuildTo
  <2>6. PICK at \in [0 .. Len(repo) -> Nat] : Blocks(ops, repo, own, at)
    BY <2>5
  <2>7. ops[1] = d1 /\ ops[2] = d2 /\ ops[3] = d3 /\ ops[4] = d4 /\ ops[5] = d5
    <3>1. 1 \in 1 .. 5 /\ 2 \in 1 .. 5 /\ 3 \in 1 .. 5 /\ 4 \in 1 .. 5 /\ 5 \in 1 .. 5
      OBVIOUS
    <3> HIDE DEF d1, d2, d3, d4, d5
    <3> QED
      BY <2>1, <2>5, <3>1
  <2>8. \A j \in 1 .. 4 : ops[j].op = "drop"
    <3>1. d1.op = "drop" /\ d2.op = "drop" /\ d3.op = "drop" /\ d4.op = "drop"
      BY DEF Drop
    <3>2. \A j \in 1 .. 4 : j = 1 \/ j = 2 \/ j = 3 \/ j = 4
      OBVIOUS
    <3> HIDE DEF d1, d2, d3, d4
    <3> QED
      BY <2>7, <3>1, <3>2
  <2>9. ASSUME NEW t \in Trees, NEW k \in DOMAIN trees[t]
        PROVE  \E j \in 1 .. 4 : Touches(ops[j], t, k)
    <3>1. CASE t = "archives"
      BY <2>7, <3>1 DEF Touches, Drop
    <3>2. CASE t = "files"
      BY <2>7, <3>2 DEF Touches, Drop
    <3>3. CASE t = "path_index"
      BY <2>7, <3>3 DEF Touches, Drop
    <3>4. CASE t = "stats"
      BY <2>7, <3>4 DEF Touches, Drop
    <3> QED
      BY <3>1, <3>2, <3>3, <3>4 DEF Trees
  <2> QED
    BY <1>2, <2>5, <2>6, <2>7, <2>8, <2>9 DEF RebuildCall
<1>7. PICK at : RebuildCall(ops, trees, repo, own, closed, at)
  BY <1>6
<1> HIDE DEF ops, own
<1>8. Places(ops, repo, own, at, n, R)
  BY <1>7, RebuildPlaces
<1>9. /\ n \in Nat /\ 5 < n
      /\ \A i \in 0 .. R : at[i] \in Nat /\ 5 <= at[i] /\ at[i] < n
      /\ \A i \in 1 .. R : ops[at[i]] = Done(own[i], {}, FALSE)
      /\ \A i \in 1 .. R : \A j \in 1 .. n : Within(at, i, j) => ops[j] \in IndexOps(repo[i])
      /\ \A j \in 1 .. n : \/ j \in 1 .. 4 \/ j = 5 \/ j = n
                           \/ \E i \in 1 .. R : j = at[i]
                           \/ \E i \in 1 .. R : Within(at, i, j)
  BY <1>8 DEF Places
<1>10. /\ OpsOK(ops) /\ ops[n] = Done({}, {}, TRUE) /\ ops[5] = Done({}, closed, FALSE)
       /\ \A j \in 1 .. 4 : ops[j].op = "drop"
       /\ \A i \in 1 .. R : Block(ops, repo[i], own[i], at[i - 1], at[i])
  BY <1>7 DEF RebuildCall, Blocks
<1>11. /\ \A j \in 1 .. n : \A t, k : Touches(ops[j], t, k) => j \in 1 .. 4 \/ \E i \in 1 .. R : Within(at, i, j)
       /\ \A j \in 1 .. n : \A t, k, e : Puts(ops[j], t, k, e) => \E i \in 1 .. R : Within(at, i, j)
       /\ \A i, l \in 1 .. R : \A j \in 1 .. n : Within(at, i, j) => (j <= at[l] <=> i <= l) /\ 5 < j
  BY <1>7, RebuildTouches
<1>12. \A i \in 1 .. R : \A j \in 1 .. n : Within(at, i, j) => ops[j].op \in {"put", "panic"}
  BY <1>3, <1>9, IndexTouches
\* Where a call for one archive or for all ends.
<1>13. \A j \in 1 .. n : ops[j].op = "done" =>
         \/ j = 5 /\ ops[j].names = closed /\ ops[j].archives = {}
         \/ j = n /\ ops[j].names = {} /\ ops[j].archives = {}
         \/ \E i \in 1 .. R : j = at[i] /\ ops[j].names = {} /\ ops[j].archives = own[i]
  <2>1. \A x, y, z : Done(x, y, z).op = "done" /\ Done(x, y, z).archives = x /\ Done(x, y, z).names = y
    BY DEF Done
  <2> SUFFICES ASSUME NEW j \in 1 .. n, ops[j].op = "done"
               PROVE  \/ j = 5 /\ ops[j].names = closed /\ ops[j].archives = {}
                      \/ j = n /\ ops[j].names = {} /\ ops[j].archives = {}
                      \/ \E i \in 1 .. R : j = at[i] /\ ops[j].names = {} /\ ops[j].archives = own[i]
    OBVIOUS
  <2>2. CASE j = 5
    BY <1>10, <2>2 DEF Done
  <2>3. CASE j = n
    BY <1>10, <2>3 DEF Done
  <2>4. ASSUME NEW i \in 1 .. R, j = at[i]
        PROVE  \E l \in 1 .. R : j = at[l] /\ ops[j].names = {} /\ ops[j].archives = own[l]
    <3>1. ops[j] = Done(own[i], {}, FALSE)
      BY <1>9, <2>4
    <3>2. ops[j].names = {} /\ ops[j].archives = own[i]
      BY <3>1 DEF Done
    <3> QED
      BY <2>4, <3>2
  <2>5. ~ (j \in 1 .. 4) /\ ~ \E i \in 1 .. R : Within(at, i, j)
    BY <1>10, <1>12
  <2> QED
    BY <1>9, <2>2, <2>3, <2>4, <2>5
<1>14. CatalogTypeOK'
  BY <1>1, <1>2, <1>4, <1>10 DEF CatalogTypeOK
<1>15. \A t, k, e : Comes(trees, ops, 0, t, k, e) => Has(trees, t, k, e)
  BY ComesFirst
<1>16. Located(trees', agenda', touched')
  <2> SUFFICES ASSUME NEW m \in 0 .. n, NEW k, NEW e, Comes(trees, ops, m, "files", k, e)
               PROVE  \E x \in Open(touched', ops, m) : Under(x, k)
    BY <1>1 DEF Located
  <2>1. \A j \in 1 .. m : j \in 1 .. n
    BY <1>9
  <2>2. CASE m \in 0 .. 4
    <3>1. \A j \in 1 .. m : j \in 1 .. 4 /\ ops[j].op = "drop"
      BY <1>10, <2>2
    <3>2. Has(trees, "files", k, e)
      BY <3>1 DEF Comes, Puts
    <3>3. PICK x \in touched : Under(x, k)
      <4>1. Comes(trees, ops, 0, "files", k, e)
        BY <3>2, ComesFirst
      <4> QED
        BY <1>1, <4>1, CallStart
    <3>4. x \in Open(touched', ops, m)
      BY <1>1, <3>1 DEF Open
    <3> QED
      BY <3>3, <3>4
  <2>3. CASE m \in 4 .. n
    <3>1. "files" \in Trees
      BY DEF Trees
    <3>2. PICK j \in 1 .. m : \E i \in 1 .. R : Within(at, i, j) /\ ops[j] \in IndexOps(repo[i]) /\ Touches(ops[j], "files", k)
      BY <1>7, <2>3, <3>1, RebuildComes
    <3>3. PICK i \in 1 .. R : ops[j] \in IndexOps(repo[i]) /\ Touches(ops[j], "files", k)
      BY <3>2
    <3>4. PICK p \in DOMAIN repo[i].items : k = Key(repo[i].name, p)
      BY <1>3, <3>3, IndexTouches
    <3>5. Under(repo[i].name, k)
      BY <1>3, <3>4, NamesAreKeys, KeyUnderItsName
    <3>6. repo[i].name \in Open(touched', ops, m)
      <4>1. repo[i].name \in names /\ repo[i].name \notin closed
        BY <1>3
      <4>2. \A l \in 1 .. m : ops[l].op = "done" => repo[i].name \notin ops[l].names
        BY <1>13, <2>1, <4>1
      <4> QED
        BY <1>1, <4>1, <4>2 DEF Open
    <3> QED
      BY <3>5, <3>6
  <2> QED
    BY <1>9, <2>2, <2>3
\* What counts as indexed after each write.
<1>17. ASSUME NEW m \in 0 .. n, NEW b \in Marks(indexed', ops, m)
       PROVE  \E i \in 1 .. R : m = at[i] /\ b = repo[i] /\ alone(i)
  <2>1. m # 0 /\ ops[m].op = "done" /\ b \in ops[m].archives
    BY <1>1, <1>17 DEF Marks
  <2>2. m \in 1 .. n
    BY <1>9, <2>1
  <2>3. PICK i \in 1 .. R : m = at[i] /\ b \in own[i]
    BY <1>13, <2>1, <2>2
  <2> QED
    BY <1>5, <2>3
<1>18. \A i, l \in 1 .. R : alone(i) /\ i # l => ~ Clash(repo[i].name, repo[l].name)
  BY <1>3
<1> HIDE DEF alone
<1>19. ASSUME NEW i \in 1 .. R, NEW j \in 6 .. n, alone(i)
       PROVE  (ops[j] \in IndexOps(repo[i]) /\ Within(at, i, j)) \/ LeavesAlone(ops[j], repo[i])
  <2>1. j \in 1 .. n /\ ~ (j \in 1 .. 4) /\ j # 5
    BY <1>9
  <2>2. ASSUME \A l \in 1 .. R : ~ Within(at, l, j)
        PROVE  LeavesAlone(ops[j], repo[i])
    BY <1>11, <2>1, <2>2 DEF LeavesAlone
  <2>3. ASSUME NEW l \in 1 .. R, Within(at, l, j), l # i
        PROVE  LeavesAlone(ops[j], repo[i])
    <3>1. ops[j] \in IndexOps(repo[l]) /\ ~ Clash(repo[i].name, repo[l].name)
      BY <1>9, <1>18, <1>19, <2>1, <2>3
    <3> QED
      BY <1>3, <3>1, IndexLeavesAlone
  <2>4. CASE Within(at, i, j)
    BY <1>9, <2>1, <2>4
  <2> QED
    BY <2>2, <2>3, <2>4
<1>20. Exact(trees', agenda', indexed')
  <2> SUFFICES ASSUME NEW m \in 0 .. n, NEW b \in Marks(indexed', ops, m)
               PROVE  /\ ExactAt(trees, ops, m, b)
                      /\ \A j \in m + 1 .. n : LeavesAlone(ops[j], b)
                      /\ Narrow(b) \/ \E j \in 1 .. m : ops[j].op = "panic"
    BY <1>1 DEF Exact
  <2>1. PICK i \in 1 .. R : m = at[i] /\ b = repo[i] /\ alone(i)
    BY <1>17
  <2>2. m \in Nat /\ 5 <= m /\ m < n /\ i - 1 \in 0 .. R /\ i \in 0 .. R
    BY <1>3, <1>9, <2>1
  <2>3. PICK x \in Nat : x = at[i - 1] /\ 5 <= x
    BY <1>9, <2>2
  <2>4. Block(ops, b, own[i], x, m)
    BY <1>10, <2>1, <2>3
  <2>5. \A j \in x + 1 .. m - 1 : j \in 5 + 1 .. m /\ j \in 1 .. m
    BY <2>2, <2>3
  <2>6. \A k, e : Comes(trees, ops, 5, "files", k, e) => ~ Under(b.name, k)
    <3> SUFFICES ASSUME NEW k, NEW e, Comes(trees, ops, 5, "files", k, e) PROVE FALSE
      OBVIOUS
    <3>1. "files" \in Trees /\ 5 \in 4 .. n
      BY <1>9 DEF Trees
    <3>2. PICK j \in 1 .. 5 : \E l \in 1 .. R : Within(at, l, j) /\ j \in 1 .. n
      BY <1>7, <3>1, RebuildComes
    <3>3. 5 < j
      BY <1>11, <3>2
    <3> QED
      BY <3>3
  <2>7. \A j \in 5 + 1 .. m : ops[j] \in IndexOps(b) \/ LeavesAlone(ops[j], b)
    <3>1. \A j \in 5 + 1 .. m : j \in 6 .. n
      BY <1>9, <2>2
    <3> QED
      BY <1>19, <2>1, <3>1
  <2>8. /\ \E j \in 5 + 1 .. m : ops[j] = ArchivePut(b)
        /\ \A p \in DOMAIN b.items : \E j \in 5 + 1 .. m : ops[j] = FilePut(b, p)
    BY <2>4, <2>5 DEF Block
  <2>9. 5 \in 0 .. n /\ m \in 0 .. n /\ 5 <= m /\ b \in Archives
    BY <1>3, <1>9, <2>1, <2>2
  <2>10. ExactAt(trees, ops, m, b)
    BY <1>2, <1>10, <2>6, <2>7, <2>8, <2>9, IndexedExact
  <2>11. ASSUME NEW j \in m + 1 .. n
         PROVE  LeavesAlone(ops[j], b)
    <3>1. j \in 6 .. n /\ j \in 1 .. n /\ ~ (j <= at[i])
      BY <1>9, <2>1, <2>2
    <3>2. ~ Within(at, i, j)
      <4>1. i <= i
        BY <1>3
      <4> QED
        BY <1>11, <3>1, <4>1
    <3> QED
      BY <1>19, <2>1, <3>1, <3>2
  <2>12. Narrow(b) \/ \E j \in 1 .. m : ops[j].op = "panic"
    <3>1. Panic.op = "panic"
      BY DEF Panic
    <3> QED
      BY <2>4, <2>5, <3>1 DEF Block
  <2> QED
    BY <2>10, <2>11, <2>12
<1>21. Apart(agenda', indexed')
  <2> SUFFICES ASSUME NEW m \in 0 .. n, NEW l \in 0 .. n, NEW b \in Marks(indexed', ops, m),
                      NEW c \in Marks(indexed', ops, l), b # c
               PROVE  ~ Clash(b.name, c.name)
    BY <1>1 DEF Apart
  <2>1. PICK i \in 1 .. R : b = repo[i] /\ alone(i)
    BY <1>17
  <2>2. PICK j \in 1 .. R : c = repo[j]
    BY <1>17
  <2> QED
    BY <1>18, <2>1, <2>2
<1>22. Mends(trees', agenda', hurt')
  BY <1>1, <1>7, RebuildMatched DEF Mends
<1> QED
  BY <1>14, <1>16, <1>20, <1>21, <1>22 DEF CatalogInv

-------------------------------------------------------------------------------
(***************************************************************************)
(* What holds always                                                       *)
(***************************************************************************)

LEMMA CatalogStep ==
  ASSUME CatalogInv, [CatalogNext]_catalogVars
  PROVE  CatalogInv'
<1>1. repo \in Seq(Archives) /\ time \in Nat
  BY DEF CatalogInv, CatalogTypeOK
<1>2. \A i \in DOMAIN repo : repo[i] \in Archives
  BY <1>1, LenProperties, ElementOfSeq
<1>3. CASE \E i \in DOMAIN repo : CallIndex(repo[i])
  <2>1. PICK i \in DOMAIN repo : CallIndex(repo[i])
    BY <1>3
  <2>2. repo[i] \in Archives
    BY <1>2
  <2>3. \A a \in Archives : CallIndex(a) => CatalogInv'
    BY CallIndexInv
  <2> QED
    BY <2>1, <2>2, <2>3
<1>4. CASE \E name \in Names : CallRemove(name)
  BY <1>4, CallRemoveInv
<1>5. CASE CallRebuild
  BY <1>5, CallRebuildInv
<1>6. CASE Write
  BY <1>6, WriteInv
<1>7. CASE Crash
  BY <1>7, CrashInv
<1>8. CASE \E name \in Names : Delete(name)
  BY <1>8, DeleteInv
<1>9. CASE \E name \in Names, contents \in Contents : Create(name, contents)
  BY <1>9, CreateInv
<1>10. CASE UNCHANGED catalogVars
  <2>1. /\ UNCHANGED <<trees, agenda, indexed, touched, hurt>>
        /\ repo' \in Seq(Archives) /\ time' \in Nat
    BY <1>1, <1>10 DEF catalogVars
  <2> QED
    BY <2>1, OthersInv
<1> QED
  BY <1>3, <1>4, <1>5, <1>6, <1>7, <1>8, <1>9, <1>10 DEF CatalogNext

LEMMA CatalogAlways == CatalogSpec => []CatalogInv
<1>1. CatalogInit => CatalogInv
  BY InitInv
<1>2. CatalogInv /\ [CatalogNext]_catalogVars => CatalogInv'
  BY CatalogStep
<1> QED
  BY <1>1, <1>2, PTL DEF CatalogSpec

\* Type correctness of the catalog: every key of a tree and its entry are what
\* indexing some archive under that key would write.
THEOREM CatalogTypeCorrect == CatalogSpec => []CatalogTypeOK
<1>1. CatalogInv => CatalogTypeOK
  BY DEF CatalogInv
<1> QED
  BY <1>1, CatalogAlways, PTL

LEMMA AsManyListed ==
  ASSUME TreesOK(trees)
  PROVE  Len(List_archives) = Cardinality(DOMAIN trees.archives)
<1> DEFINE A == trees.archives
           D == DOMAIN A
           R == Range(A)
           h == [n \in D |-> A[n]]
<1>1. IsFiniteSet(D) /\ \A n \in D : \E a \in Archives : n = a.name /\ A[n] = CatalogArchive(a)
  <2>1. "archives" \in {"archives", "files"} /\ "archives" \in Trees
    BY DEF Trees
  <2> QED
    BY <2>1 DEF TreesOK, Fits
<1>2. \A n \in D : A[n].name = n
  <2>1. \A a : CatalogArchive(a).name = a.name
    BY DEF CatalogArchive
  <2> HIDE DEF D, A
  <2> QED
    BY <1>1, <2>1
<1>3. R = {A[n] : n \in D}
  BY DEF Range
<1> HIDE DEF A, D, R
<1>4. h \in [D -> R] /\ \A n \in D : h[n] = A[n]
  BY <1>3
<1>5. h \in Surjection(D, R)
  BY <1>3, <1>4 DEF Surjection
<1>6. h \in Injection(D, R)
  <2>1. \A m, n \in D : h[m] = h[n] => m = n
    BY <1>2, <1>4
  <2> HIDE DEF h
  <2> QED
    BY <1>4, <2>1 DEF Injection, IsInjective
<1> HIDE DEF h
<1>7. IsFiniteSet(R) /\ Cardinality(R) = Cardinality(D)
  BY <1>1, <1>5, <1>6, FS_Surjection
<1>8. Cardinality(R) \in Nat
  BY <1>7, FS_CardinalityType
<1>9. Len(Newest(R)) = Cardinality(R)
  BY <1>8 DEF Newest
<1> QED
  BY <1>7, <1>9 DEF List_archives, R, D, A

LEMMA SameTotals ==
  ASSUME NEW S, NEW T, NEW f, DOMAIN S = DOMAIN T, \A n \in DOMAIN S : S[n][f] = T[n][f]
  PROVE  Total(S, f) = Total(T, f)
<1>1. [n \in DOMAIN S |-> S[n][f]] = [n \in DOMAIN T |-> T[n][f]]
  OBVIOUS
<1> QED
  BY <1>1 DEF Total

\* Between calls, unless one ended half-way, the totals are those of the archives
\* that are listed, and no file and no key of the index is left of any other.
THEOREM CatalogLeavesNothing == CatalogSpec => []NothingLeft
<1>1. CatalogInv => NothingLeft
  <2> SUFFICES ASSUME CatalogInv, agenda = << >>, ~ hurt
               PROVE  /\ Get_total_stats =
                           [archives |-> Len(List_archives),
                            files |-> Total(trees.archives, "files"),
                            dirs |-> Total(trees.archives, "dirs"),
                            size |-> Total(trees.archives, "size")]
                      /\ \A k \in DOMAIN trees.files : trees.files[k].archive \in DOMAIN trees.archives
                      /\ \A k \in DOMAIN trees.path_index :
                           \E n \in DOMAIN trees.archives : IsSuffix(Key(<< >>, n), k)
    BY DEF NothingLeft
  <2>1. Matched(trees, << >>, 0) /\ TreesOK(trees)
    BY CallStart DEF CatalogInv, CatalogTypeOK
  <2>2. \A t, k, e : Comes(trees, << >>, 0, t, k, e) <=> Has(trees, t, k, e)
    BY ComesFirst
  <2>3. /\ \A m, e : Has(trees, "stats", m, e) =>
             \E a \in Archives : m = a.name /\ e = Stats(a) /\ Has(trees, "archives", m, CatalogArchive(a))
        /\ \A m, e : Has(trees, "archives", m, e) =>
             \E a \in Archives : m = a.name /\ e = CatalogArchive(a) /\ Has(trees, "stats", m, Stats(a))
        /\ \A k, e : Has(trees, "files", k, e) => \E e2 : Has(trees, "archives", e.archive, e2)
        /\ \A k, e : Has(trees, "path_index", k, e) =>
             \E m, e2 : Has(trees, "archives", m, e2) /\ IsSuffix(Key(<< >>, m), k)
    BY <2>1, <2>2 DEF Matched
  <2>4. \A t : \A k \in DOMAIN trees[t] : Has(trees, t, k, trees[t][k])
    BY DEF Has
  <2>5. \A t, k, e : Has(trees, t, k, e) => k \in DOMAIN trees[t] /\ trees[t][k] = e
    BY DEF Has
  <2>6. DOMAIN trees.stats = DOMAIN trees.archives
    <3>1. \A n : n \in DOMAIN trees.stats => n \in DOMAIN trees.archives
      BY <2>3, <2>4, <2>5
    <3>2. \A n : n \in DOMAIN trees.archives => n \in DOMAIN trees.stats
      BY <2>3, <2>4, <2>5
    <3> QED
      BY <3>1, <3>2
  <2>7. \A n \in DOMAIN trees.stats :
          /\ trees.stats[n].files = trees.archives[n].files
          /\ trees.stats[n].dirs = trees.archives[n].dirs
          /\ trees.stats[n].size = trees.archives[n].size
    <3> SUFFICES ASSUME NEW n \in DOMAIN trees.stats
                 PROVE  /\ trees.stats[n].files = trees.archives[n].files
                        /\ trees.stats[n].dirs = trees.archives[n].dirs
                        /\ trees.stats[n].size = trees.archives[n].size
      OBVIOUS
    <3>1. PICK a \in Archives : trees.stats[n] = Stats(a) /\ trees.archives[n] = CatalogArchive(a)
      BY <2>3, <2>4, <2>5
    <3> QED
      BY <3>1 DEF CatalogArchive
  <2>8. /\ Total(trees.stats, "files") = Total(trees.archives, "files")
        /\ Total(trees.stats, "dirs") = Total(trees.archives, "dirs")
        /\ Total(trees.stats, "size") = Total(trees.archives, "size")
    BY <2>6, <2>7, SameTotals
  <2>9. Cardinality(DOMAIN trees.stats) = Len(List_archives)
    BY <2>1, <2>6, AsManyListed
  <2>10. \A k \in DOMAIN trees.files : trees.files[k].archive \in DOMAIN trees.archives
    BY <2>3, <2>4, <2>5
  <2>11. \A k \in DOMAIN trees.path_index :
           \E n \in DOMAIN trees.archives : IsSuffix(Key(<< >>, n), k)
    BY <2>3, <2>4, <2>5
  <2> QED
    BY <2>8, <2>9, <2>10, <2>11 DEF Get_total_stats
<1> QED
  BY <1>1, CatalogAlways, PTL

-------------------------------------------------------------------------------
(***************************************************************************)
(* Differences                                                             *)
(***************************************************************************)

LEMMA FilesOfIndexed ==
  ASSUME NEW a \in Archives, ExactAt(trees, << >>, 0, a)
  PROVE  FilesOf(a.name) = {CatalogFile(a, p) : p \in DOMAIN a.items}
<1> DEFINE F == FilesOf(a.name)
<1>1. /\ \A k, e : Has(trees, "files", k, e) /\ Under(a.name, k) =>
           \E p \in DOMAIN a.items : k = Key(a.name, p) /\ e = CatalogFile(a, p)
      /\ \A p \in DOMAIN a.items : Has(trees, "files", Key(a.name, p), CatalogFile(a, p))
  <2>1. \A k, e : Comes(trees, << >>, 0, "files", k, e) <=> Has(trees, "files", k, e)
    BY ComesFirst
  <2> QED
    BY <2>1 DEF ExactAt
<1>2. \A k : k \in Scan_prefix(DOMAIN trees.files, a.name) <=> k \in DOMAIN trees.files /\ Under(a.name, k)
  BY DEF Scan_prefix, Under
<1>3. ASSUME NEW f \in F
      PROVE  f \in {CatalogFile(a, p) : p \in DOMAIN a.items}
  <2>1. PICK k \in Scan_prefix(DOMAIN trees.files, a.name) : f = trees.files[k]
    BY <1>3 DEF FilesOf
  <2>2. Has(trees, "files", k, f) /\ Under(a.name, k)
    BY <1>2, <2>1 DEF Has
  <2> QED
    BY <1>1, <2>2
<1>4. ASSUME NEW p \in DOMAIN a.items
      PROVE  CatalogFile(a, p) \in F
  <2>1. Key(a.name, p) \in DOMAIN trees.files /\ trees.files[Key(a.name, p)] = CatalogFile(a, p)
    BY <1>1 DEF Has
  <2>2. a.name \in Seq(Chars) /\ p \in Seq(Chars)
    BY NamesAreKeys DEF Archives
  <2>3. Under(a.name, Key(a.name, p))
    BY <2>2, KeyUnderItsName
  <2>4. Key(a.name, p) \in Scan_prefix(DOMAIN trees.files, a.name)
    BY <1>2, <2>1, <2>3
  <2> QED
    BY <2>1, <2>4 DEF FilesOf
<1> HIDE DEF F
<1>5. F = {CatalogFile(a, p) : p \in DOMAIN a.items}
  BY <1>3, <1>4
<1> QED
  BY <1>5 DEF F

LEMMA ByPathIs ==
  ASSUME NEW a \in Archives, ExactAt(trees, << >>, 0, a)
  PROVE  /\ DOMAIN ByPath(a.name) = DOMAIN a.items
         /\ \A p \in DOMAIN a.items : ByPath(a.name)[p] = a.items[p]
<1> DEFINE F == FilesOf(a.name)
           one(p) == CHOOSE f \in F : f.path = p
<1>1. F = {CatalogFile(a, p) : p \in DOMAIN a.items}
  BY FilesOfIndexed
<1>2. ByPath(a.name) = [p \in {f.path : f \in F} |-> [type |-> one(p).type, data |-> one(p).data]]
  BY DEF ByPath
<1> HIDE DEF F
<1>3. \A p \in DOMAIN a.items :
        /\ CatalogFile(a, p).path = p
        /\ CatalogFile(a, p).type = a.items[p].type /\ CatalogFile(a, p).data = a.items[p].data
  BY DEF CatalogFile
<1>4. {f.path : f \in F} = DOMAIN a.items
  BY <1>1, <1>3
<1>5. ASSUME NEW p \in DOMAIN a.items
      PROVE  ByPath(a.name)[p] = a.items[p]
  <2>1. CatalogFile(a, p) \in F /\ CatalogFile(a, p).path = p
    BY <1>1, <1>3
  <2>2. one(p) \in F /\ one(p).path = p
    BY <2>1
  <2> HIDE DEF one
  <2>3. one(p) = CatalogFile(a, p)
    BY <1>1, <1>3, <2>2
  <2>4. a.items[p] \in [type : STRING, data : Nat]
    BY ContentsAssumption DEF Archives
  <2>5. [type |-> a.items[p].type, data |-> a.items[p].data] = a.items[p]
    BY <2>4
  <2> QED
    BY <1>2, <1>3, <1>4, <2>3, <2>5
<1> QED
  BY <1>2, <1>4, <1>5

\* The difference of two archives is that of the archives themselves, except that
\* a change of type alone goes unnoticed, and it is the same seen from either side.
THEOREM CatalogDiffAgrees == CatalogSpec => []DiffAgrees
<1>1. CatalogInv => DiffAgrees
  <2> SUFFICES ASSUME CatalogInv, NEW a \in indexed, NEW b \in indexed
               PROVE  LET diff == Diff_archives(a.name, b.name)
                          back == Diff_archives(b.name, a.name)
                          real == Compute_diff(a, b)
                      IN  /\ diff.added = real.added /\ diff.removed = real.removed
                          /\ diff.modified = {m \in real.modified : m[2] # m[3].data}
                          /\ back.added = diff.removed /\ back.removed = diff.added
                          /\ back.unchanged = diff.unchanged
    BY DEF DiffAgrees
  <2> DEFINE A == ByPath(a.name)
             B == ByPath(b.name)
             M == {p \in Both(A, B) : Is_different_from(A[p], B[p])}
             N == {p \in Both(B, A) : Is_different_from(B[p], A[p])}
             R == {p \in Both(a.items, b.items) : Is_modified(a.items[p], b.items[p])}
  <2>1. a \in Archives /\ b \in Archives
    BY DEF CatalogInv, CatalogTypeOK
  <2>2. /\ Len(<< >>) = 0 /\ 0 \in 0 .. Len(agenda)
        /\ Marks(indexed, agenda, 0) = indexed
    <3>1. Len(agenda) \in Nat
      BY LenProperties DEF CatalogInv, CatalogTypeOK, OpsOK
    <3> QED
      BY <3>1, NothingToDo DEF Marks
  <2>3. \A c \in indexed : ExactAt(trees, << >>, 0, c)
    <3>1. \A c \in indexed : ExactAt(trees, agenda, 0, c)
      BY <2>2 DEF CatalogInv, Exact
    <3>2. \A t, k, e : Comes(trees, << >>, 0, t, k, e) <=> Comes(trees, agenda, 0, t, k, e)
      BY ComesFirst
    <3> QED
      BY <3>1, <3>2 DEF ExactAt
  <2>4. DOMAIN A = DOMAIN a.items /\ \A p \in DOMAIN a.items : A[p] = a.items[p]
    BY <2>1, <2>3, ByPathIs
  <2>5. DOMAIN B = DOMAIN b.items /\ \A p \in DOMAIN b.items : B[p] = b.items[p]
    BY <2>1, <2>3, ByPathIs
  <2>6. /\ Diff_archives(a.name, b.name) = Difference(A, B, M)
        /\ Diff_archives(b.name, a.name) = Difference(B, A, N)
        /\ Compute_diff(a, b) = Difference(a.items, b.items, R)
    BY DEF Diff_archives, Compute_diff
  <2> HIDE DEF A, B
  <2>7. M = N /\ Both(A, B) = Both(B, A) /\ Both(A, B) = Both(a.items, b.items)
    BY <2>4, <2>5 DEF Both, Is_different_from
  <2>8. M = {p \in R : a.items[p].data # b.items[p].data}
    BY <2>4, <2>5 DEF Both, Is_different_from, Is_modified
  <2>9. /\ Difference(A, B, M).added = Difference(a.items, b.items, R).added
        /\ Difference(A, B, M).removed = Difference(a.items, b.items, R).removed
    BY <2>4, <2>5 DEF Difference, From_file
  <2>10. Difference(A, B, M).modified = {m \in Difference(a.items, b.items, R).modified : m[2] # m[3].data}
    <3>1. \A p \in R : A[p] = a.items[p] /\ B[p] = b.items[p]
      BY <2>4, <2>5 DEF Both
    <3>2. /\ Difference(A, B, M).modified = {<<p, A[p].data, B[p]>> : p \in M}
          /\ Difference(a.items, b.items, R).modified = {<<p, a.items[p].data, b.items[p]>> : p \in R}
      BY DEF Difference, From_files
    <3> HIDE DEF M, R
    <3> QED
      BY <2>8, <3>1, <3>2
  <2>11. /\ Difference(B, A, N).added = Difference(A, B, M).removed
         /\ Difference(B, A, N).removed = Difference(A, B, M).added
         /\ Difference(B, A, N).unchanged = Difference(A, B, M).unchanged
    BY <2>7 DEF Difference
  <2> QED
    BY <2>6, <2>9, <2>10, <2>11
<1> QED
  BY <1>1, CatalogAlways, PTL

-------------------------------------------------------------------------------
(***************************************************************************)
(* Patterns                                                                *)
(***************************************************************************)

\* The i-th character of the pattern matches what is between two places of the text.
Piece(text, pattern, i, from, to) ==
  \/ pattern[i] = "*" /\ from <= to
  \/ to = from + 1 /\ pattern[i] \in {"?", text[to]}

\* The pattern after p characters matches the text after t.
Matching(text, pattern, p, t) ==
  \E cut \in [p .. Len(pattern) -> 0 .. Len(text)] :
    /\ cut[p] = t /\ cut[Len(pattern)] = Len(text)
    /\ \A i \in p + 1 .. Len(pattern) : Piece(text, pattern, i, cut[i - 1], cut[i])

\* There is a function that is what Glob_match takes it to be.
LEMMA GlobSolution ==
  ASSUME NEW text, NEW pattern, Len(pattern) \in Nat
  PROVE  \E f : f = [p \in 0 .. Len(pattern) |-> Glob_rest(text, pattern, p, f[p + 1])]
<1> DEFINE P == Len(pattern)
           Solves(n) == \E f : /\ f = [p \in P - n .. P |-> f[p]]
                               /\ \A p \in P - n .. P : f[p] = Glob_rest(text, pattern, p, f[p + 1])
           S == {n \in 0 .. P : Solves(n)}
<1>1. P \in Nat
  OBVIOUS
<1>2. \A x, y : Glob_rest(text, pattern, P, x) = Glob_rest(text, pattern, P, y)
  BY DEF Glob_rest
<1> HIDE DEF P
<1>3. 0 \in S
  <2> DEFINE f == [p \in P - 0 .. P |-> Glob_rest(text, pattern, P, 0)]
  <2>1. \A p \in P - 0 .. P : p = P
    BY <1>1
  <2>2. f = [p \in P - 0 .. P |-> f[p]]
    OBVIOUS
  <2>3. \A p \in P - 0 .. P : f[p] = Glob_rest(text, pattern, P, 0)
    OBVIOUS
  <2>4. \A p \in P - 0 .. P : f[p] = Glob_rest(text, pattern, p, f[p + 1])
    <3> HIDE DEF f
    <3> QED
      BY <1>2, <2>1, <2>3
  <2> HIDE DEF f
  <2>5. Solves(0)
    BY <2>2, <2>4
  <2> HIDE DEF Solves
  <2> QED
    BY <1>1, <2>5
<1>4. ASSUME NEW n \in 0 .. P - 1, n \in S
      PROVE  n + 1 \in S
  <2>1. PICK f : \A p \in P - n .. P : f[p] = Glob_rest(text, pattern, p, f[p + 1])
    BY <1>4
  <2> DEFINE b == P - (n + 1)
             first == Glob_rest(text, pattern, b, f[b + 1])
             g == [p \in b .. P |-> IF p = b THEN first ELSE f[p]]
  <2>2. b \in Nat /\ b + 1 = P - n /\ b # P /\ b \in b .. P /\ b + 1 \in b .. P /\ b + 1 # b /\ n + 1 \in 0 .. P
    BY <1>1
  <2>3. \A p \in b .. P : p = b \/ p \in P - n .. P
    BY <1>1
  <2>4. \A p \in P - n .. P : p # b /\ p \in b .. P
    BY <1>1
  <2> HIDE DEF b
  <2>5. g = [p \in b .. P |-> g[p]]
    OBVIOUS
  <2>6. g[b] = first /\ \A p \in P - n .. P : g[p] = f[p]
    BY <2>2, <2>4
  <2> HIDE DEF g
  <2>7. g[b] = Glob_rest(text, pattern, b, g[b + 1])
    <3>1. b + 1 \in P - n .. P
      BY <2>2, <1>1
    <3>2. g[b + 1] = f[b + 1]
      BY <2>6, <3>1
    <3> QED
      BY <2>6, <3>2
  <2>8. ASSUME NEW p \in P - n .. P
        PROVE  g[p] = Glob_rest(text, pattern, p, g[p + 1])
    <3>1. CASE p = P
      <4>1. Glob_rest(text, pattern, p, f[p + 1]) = Glob_rest(text, pattern, p, g[p + 1])
        BY <1>2, <3>1
      <4> QED
        BY <2>1, <2>6, <4>1
    <3>2. CASE p # P
      <4>1. p + 1 \in P - n .. P
        BY <1>1, <3>2
      <4>2. g[p + 1] = f[p + 1] /\ g[p] = f[p]
        BY <2>6, <4>1
      <4> QED
        BY <2>1, <4>2
    <3> QED
      BY <3>1, <3>2
  <2>9. \A p \in b .. P : g[p] = Glob_rest(text, pattern, p, g[p + 1])
    BY <2>3, <2>7, <2>8
  <2>10. Solves(n + 1)
    <3>1. b = P - (n + 1)
      BY DEF b
    <3> QED
      BY <2>5, <2>9, <3>1
  <2> HIDE DEF Solves
  <2> QED
    BY <2>2, <2>10
<1>5. P \in S
  <2> HIDE DEF S
  <2>1. \A n \in 0 .. P : n \in S
    BY <1>1, <1>3, <1>4, UpTo
  <2> QED
    BY <1>1, <2>1
<1>6. PICK f : /\ f = [p \in P - P .. P |-> f[p]]
               /\ \A p \in P - P .. P : f[p] = Glob_rest(text, pattern, p, f[p + 1])
  BY <1>5
<1>7. P - P = 0
  BY <1>1
<1>8. f = [p \in 0 .. P |-> Glob_rest(text, pattern, p, f[p + 1])]
  BY <1>6, <1>7
<1> QED
  BY <1>8 DEF P

LEMMA MatchingEnds ==
  ASSUME NEW text, NEW pattern, NEW P \in Nat, P = Len(pattern), NEW T \in Nat, T = Len(text),
         NEW t \in 0 .. T
  PROVE  Matching(text, pattern, P, t) <=> t = T
<1>1. \A i \in P + 1 .. P : FALSE
  OBVIOUS
<1>2. ASSUME t = T
      PROVE  Matching(text, pattern, P, t)
  <2> DEFINE cut == [i \in P .. P |-> T]
  <2>1. cut \in [P .. P -> 0 .. T] /\ cut[P] = T
    OBVIOUS
  <2> HIDE DEF cut
  <2> QED
    BY <1>1, <1>2, <2>1 DEF Matching
<1> QED
  BY <1>2 DEF Matching

LEMMA MatchingStep ==
  ASSUME NEW text, NEW pattern, NEW P \in Nat, P = Len(pattern), NEW T \in Nat, T = Len(text),
         NEW p \in 0 .. P - 1, NEW t \in 0 .. T
  PROVE  Matching(text, pattern, p, t)
           <=> \E to \in t .. T : Piece(text, pattern, p + 1, t, to) /\ Matching(text, pattern, p + 1, to)
<1>0. /\ p \in p .. P /\ p + 1 \in p .. P /\ P \in p + 1 .. P /\ p + 1 \in p + 1 .. P /\ P \in p .. P
      /\ (p + 1) - 1 = p /\ \A i \in p + 1 .. P : i \in p .. P /\ i # p
      /\ \A i \in (p + 1) + 1 .. P : i \in p + 1 .. P /\ i - 1 \in p + 1 .. P /\ i - 1 # p /\ i # p
      /\ \A i \in p + 1 .. P : i = p + 1 \/ i \in (p + 1) + 1 .. P
  OBVIOUS
<1>1. ASSUME Matching(text, pattern, p, t)
      PROVE  \E to \in t .. T : Piece(text, pattern, p + 1, t, to) /\ Matching(text, pattern, p + 1, to)
  <2>1. PICK cut \in [p .. P -> 0 .. T] :
          /\ cut[p] = t /\ cut[P] = T
          /\ \A i \in p + 1 .. P : Piece(text, pattern, i, cut[i - 1], cut[i])
    BY <1>1 DEF Matching
  <2> DEFINE rest == [i \in p + 1 .. P |-> cut[i]]
  <2>2. Piece(text, pattern, p + 1, t, cut[p + 1])
    BY <1>0, <2>1
  <2>3. cut[p + 1] \in 0 .. T /\ t <= cut[p + 1]
    <3>1. cut[p + 1] \in 0 .. T
      BY <1>0
    <3> QED
      BY <2>2, <3>1 DEF Piece
  <2>4. rest \in [p + 1 .. P -> 0 .. T] /\ \A i \in p + 1 .. P : rest[i] = cut[i]
    BY <1>0
  <2> HIDE DEF rest
  <2>5. \A i \in (p + 1) + 1 .. P : Piece(text, pattern, i, rest[i - 1], rest[i])
    <3>1. \A i \in (p + 1) + 1 .. P : rest[i - 1] = cut[i - 1] /\ rest[i] = cut[i]
      BY <1>0, <2>4
    <3> QED
      BY <1>0, <2>1, <3>1
  <2>6. rest[p + 1] = cut[p + 1] /\ rest[P] = T
    BY <1>0, <2>1, <2>4
  <2>7. Matching(text, pattern, p + 1, cut[p + 1])
    BY <2>4, <2>5, <2>6 DEF Matching
  <2>8. cut[p + 1] \in t .. T
    BY <2>3
  <2> QED
    BY <2>2, <2>7, <2>8
<1>2. ASSUME NEW to \in t .. T, Piece(text, pattern, p + 1, t, to), Matching(text, pattern, p + 1, to)
      PROVE  Matching(text, pattern, p, t)
  <2>1. PICK rest \in [p + 1 .. P -> 0 .. T] :
          /\ rest[p + 1] = to /\ rest[P] = T
          /\ \A i \in (p + 1) + 1 .. P : Piece(text, pattern, i, rest[i - 1], rest[i])
    BY <1>2 DEF Matching
  <2> DEFINE cut == [i \in p .. P |-> IF i = p THEN t ELSE rest[i]]
  <2>2. cut \in [p .. P -> 0 .. T]
    <3>1. \A i \in p .. P : i = p \/ i \in p + 1 .. P
      OBVIOUS
    <3> QED
      BY <3>1
  <2>3. cut[p] = t /\ \A i \in p + 1 .. P : cut[i] = rest[i]
    BY <1>0
  <2> HIDE DEF cut
  <2>4. cut[P] = T
    BY <1>0, <2>1, <2>3
  <2>5. ASSUME NEW i \in p + 1 .. P
        PROVE  Piece(text, pattern, i, cut[i - 1], cut[i])
    <3>1. CASE i = p + 1
      <4>1. cut[i - 1] = t /\ cut[i] = to
        BY <1>0, <2>1, <2>3, <3>1
      <4> QED
        BY <1>2, <3>1, <4>1
    <3>2. CASE i \in (p + 1) + 1 .. P
      <4>1. cut[i - 1] = rest[i - 1] /\ cut[i] = rest[i]
        BY <1>0, <2>3, <3>2
      <4> QED
        BY <2>1, <3>2, <4>1
    <3> QED
      BY <1>0, <3>1, <3>2
  <2> QED
    BY <2>2, <2>3, <2>4, <2>5 DEF Matching
<1> QED
  BY <1>1, <1>2

\* One character of the pattern in a text without wide ones.
LEMMA GlobRow ==
  ASSUME NEW text, NEW pattern, NEW P \in Nat, P = Len(pattern), NEW T \in Nat, T = Len(text),
         \A i \in 1 .. T : text[i] \notin Wide,
         NEW p \in 0 .. P - 1, NEW next, \A t \in 0 .. T : next[t] \in {"yes", "no"},
         p + 1 = P => next[T] = "yes", NEW t \in 0 .. T
  PROVE  /\ Glob_rest(text, pattern, p, next)[t] \in {"yes", "no"}
         /\ Glob_rest(text, pattern, p, next)[t] = "yes"
              <=> \E to \in t .. T : Piece(text, pattern, p + 1, t, to) /\ next[to] = "yes"
<1> DEFINE at(i) == IF next[i] # "no" THEN next[i]
                    ELSE IF i < T /\ text[i + 1] \in Wide THEN "panic" ELSE "no"
           ends == {i \in t .. T : at(i) # "no"}
           row == Glob_rest(text, pattern, p, next)
           tried == IF ends = {} THEN "no" ELSE at(Min(ends))
<1>1. row[t] = IF pattern[p + 1] = "*" THEN IF p + 1 = P THEN "yes" ELSE tried
               ELSE IF t < T /\ pattern[p + 1] \in {"?", text[t + 1]} THEN next[t + 1] ELSE "no"
  BY DEF Glob_rest
<1>2. \A i \in 0 .. T : at(i) = next[i]
  <2>1. \A i \in 0 .. T : i < T => i + 1 \in 1 .. T
    OBVIOUS
  <2> QED
    BY <2>1
<1> HIDE DEF row, at
<1>3. tried \in {"yes", "no"} /\ (tried = "yes" <=> \E to \in t .. T : next[to] = "yes")
  <2>1. \A i \in t .. T : i \in 0 .. T
    OBVIOUS
  <2>2. ends = {i \in t .. T : next[i] = "yes"}
    BY <1>2, <2>1
  <2>3. ASSUME ends # {}
        PROVE  Min(ends) \in ends
    <3>1. ends \in SUBSET Nat
      OBVIOUS
    <3> HIDE DEF ends
    <3>2. PICK n \in ends : \A m \in ends : n <= m
      BY <2>3, <3>1, LeastNumber
    <3> QED
      BY <3>2 DEF Min
  <2> HIDE DEF ends
  <2>4. CASE ends = {}
    BY <2>2, <2>4
  <2>5. CASE ends # {}
    <3>1. Min(ends) \in t .. T /\ next[Min(ends)] = "yes"
      BY <2>2, <2>3, <2>5
    <3>2. at(Min(ends)) = "yes"
      BY <1>2, <2>1, <3>1
    <3> QED
      BY <2>5, <3>1, <3>2
  <2> QED
    BY <2>4, <2>5
<1> HIDE DEF tried
<1>4. CASE pattern[p + 1] = "*"
  <2>1. \A to \in t .. T : Piece(text, pattern, p + 1, t, to)
    BY <1>4 DEF Piece
  <2>2. CASE p + 1 = P
    <3>1. row[t] = "yes" /\ T \in t .. T /\ next[T] = "yes"
      BY <1>1, <1>4, <2>2
    <3> QED
      BY <2>1, <3>1 DEF row
  <2>3. CASE p + 1 # P
    <3>1. row[t] = tried
      BY <1>1, <1>4, <2>3
    <3> QED
      BY <1>3, <2>1, <3>1 DEF row
  <2> QED
    BY <2>2, <2>3
<1>5. CASE pattern[p + 1] # "*"
  <2>1. row[t] = IF t < T /\ pattern[p + 1] \in {"?", text[t + 1]} THEN next[t + 1] ELSE "no"
    BY <1>1, <1>5
  <2>2. \A to \in t .. T : Piece(text, pattern, p + 1, t, to) <=> to = t + 1 /\ pattern[p + 1] \in {"?", text[t + 1]}
    BY <1>5 DEF Piece
  <2>3. CASE t < T /\ pattern[p + 1] \in {"?", text[t + 1]}
    <3>1. t + 1 \in t .. T /\ t + 1 \in 0 .. T
      BY <2>3
    <3>2. row[t] = next[t + 1]
      BY <2>1, <2>3
    <3> QED
      BY <2>2, <2>3, <3>1, <3>2 DEF row
  <2>4. CASE ~ (t < T /\ pattern[p + 1] \in {"?", text[t + 1]})
    <3>1. row[t] = "no"
      BY <2>1, <2>4
    <3>2. \A to \in t .. T : to = t + 1 => t < T
      OBVIOUS
    <3> QED
      BY <2>2, <2>4, <3>1, <3>2 DEF row
  <2> QED
    BY <2>3, <2>4
<1> QED
  BY <1>4, <1>5

\* In a text without wide characters a pattern matches what it means.
LEMMA GlobMeans ==
  ASSUME NEW text, NEW pattern, NEW P \in Nat, P = Len(pattern), NEW T \in Nat, T = Len(text),
         DOMAIN pattern = 1 .. P, \A i \in 1 .. T : text[i] \notin Wide
  PROVE  /\ Glob_match(text, pattern) \in {"yes", "no"}
         /\ Glob_match(text, pattern) = "yes" <=> Means(text, pattern)
<1> DEFINE m == CHOOSE f : f = [p \in 0 .. P |-> Glob_rest(text, pattern, p, f[p + 1])]
           Good(p) == \A t \in 0 .. T : /\ m[p][t] \in {"yes", "no"}
                                        /\ m[p][t] = "yes" <=> Matching(text, pattern, p, t)
           S == {n \in 0 .. P : Good(P - n)}
<1>1. m = [p \in 0 .. P |-> Glob_rest(text, pattern, p, m[p + 1])]
  <2>1. PICK f : f = [p \in 0 .. Len(pattern) |-> Glob_rest(text, pattern, p, f[p + 1])]
    BY GlobSolution
  <2>2. f = [p \in 0 .. P |-> Glob_rest(text, pattern, p, f[p + 1])]
    BY <2>1
  <2> QED
    BY <2>2
<1>2. Glob_match(text, pattern) = m[0][0]
  BY DEF Glob_match
<1> HIDE DEF m
<1>3. \A p \in 0 .. P : m[p] = Glob_rest(text, pattern, p, m[p + 1])
  BY <1>1
<1>4. 0 \in S
  <2>1. m[P] = Glob_rest(text, pattern, P, m[P + 1])
    BY <1>3
  <2>2. \A t \in 0 .. T : m[P][t] = IF t = T THEN "yes" ELSE "no"
    BY <2>1 DEF Glob_rest
  <2>3. Good(P)
    BY <2>2, MatchingEnds
  <2>4. P - 0 = P /\ 0 \in 0 .. P
    OBVIOUS
  <2> HIDE DEF Good
  <2> QED
    BY <2>3, <2>4
<1>5. ASSUME NEW n \in 0 .. P - 1, n \in S
      PROVE  n + 1 \in S
  <2> DEFINE p == P - (n + 1)
  <2>1. p \in 0 .. P - 1 /\ p \in 0 .. P /\ p + 1 = P - n /\ n + 1 \in 0 .. P
    OBVIOUS
  <2>2. Good(p + 1)
    BY <1>5, <2>1
  <2> HIDE DEF p
  <2>3. m[p] = Glob_rest(text, pattern, p, m[p + 1])
    BY <1>3, <2>1
  <2>4. p + 1 = P => m[p + 1][T] = "yes"
    <3>1. T \in 0 .. T
      OBVIOUS
    <3> QED
      BY <2>2, <3>1, MatchingEnds
  <2>5. \A t \in 0 .. T : m[p + 1][t] \in {"yes", "no"}
    BY <2>2
  <2>6. ASSUME NEW t \in 0 .. T
        PROVE  /\ m[p][t] \in {"yes", "no"}
               /\ m[p][t] = "yes" <=> Matching(text, pattern, p, t)
    <3> DEFINE row == Glob_rest(text, pattern, p, m[p + 1])
    <3>1. /\ row[t] \in {"yes", "no"}
          /\ row[t] = "yes" <=> \E to \in t .. T : Piece(text, pattern, p + 1, t, to) /\ m[p + 1][to] = "yes"
      <4>1. \A next : /\ \A u \in 0 .. T : next[u] \in {"yes", "no"}
                      /\ p + 1 = P => next[T] = "yes"
              => /\ Glob_rest(text, pattern, p, next)[t] \in {"yes", "no"}
                 /\ Glob_rest(text, pattern, p, next)[t] = "yes"
                      <=> \E to \in t .. T : Piece(text, pattern, p + 1, t, to) /\ next[to] = "yes"
        BY <2>1, GlobRow
      <4> QED
        BY <2>4, <2>5, <4>1, Zenon
    <3>2. \A to \in t .. T : to \in 0 .. T
      OBVIOUS
    <3>3. \A to \in t .. T : m[p + 1][to] = "yes" <=> Matching(text, pattern, p + 1, to)
      BY <2>2, <3>2
    <3>4. Matching(text, pattern, p, t)
            <=> \E to \in t .. T : Piece(text, pattern, p + 1, t, to) /\ Matching(text, pattern, p + 1, to)
      BY <2>1, MatchingStep
    <3> HIDE DEF row
    <3>5. m[p][t] = row[t]
      BY <2>3 DEF row
    <3> QED
      BY <3>1, <3>3, <3>4, <3>5
  <2>7. Good(p)
    BY <2>6
  <2> HIDE DEF Good
  <2> QED
    BY <2>1, <2>7 DEF p
<1>6. Good(0)
  <2> HIDE DEF S
  <2>1. \A n \in 0 .. P : n \in S
    BY <1>4, <1>5, UpTo
  <2>2. P \in S /\ P - P = 0
    BY <2>1
  <2> HIDE DEF Good
  <2> QED
    BY <2>2 DEF S
<1>7. Matching(text, pattern, 0, 0) <=> Means(text, pattern)
  <2>1. \A cut : \A i \in 1 .. P : Piece(text, pattern, i, cut[i - 1], cut[i])
          <=> \/ pattern[i] = "*" /\ cut[i - 1] <= cut[i]
              \/ cut[i] = cut[i - 1] + 1 /\ pattern[i] \in {"?", text[cut[i]]}
    BY DEF Piece
  <2>2. 0 + 1 = 1
    OBVIOUS
  <2> QED
    BY <2>1, <2>2 DEF Matching, Means
<1>8. 0 \in 0 .. T
  OBVIOUS
<1> QED
  BY <1>2, <1>6, <1>7, <1>8

-------------------------------------------------------------------------------
(***************************************************************************)
(* What a search finds                                                     *)
(***************************************************************************)

\* Two queries that differ at most in the archive.
Alike(q1, q2) ==
  /\ q1.pattern = q2.pattern /\ q1.kind = q2.kind /\ q1.type = q2.type
  /\ q1.min = q2.min /\ q1.max = q2.max /\ q1.limit = q2.limit

LEMMA LoweredIs ==
  ASSUME NEW s \in Seq(STRING)
  PROVE  /\ Len(s) \in Nat /\ Len(Lowered(s)) = Len(s) /\ DOMAIN Lowered(s) = 1 .. Len(s)
         /\ \A i \in 1 .. Len(s) : Lowered(s)[i] = Lower(s[i])
<1>1. Len(s) \in Nat /\ DOMAIN s = 1 .. Len(s)
  BY LenProperties
<1>2. Lowered(s) = [i \in 1 .. Len(s) |-> Lower(s[i])]
  BY <1>1 DEF Lowered
<1> QED
  BY <1>1, <1>2

LEMMA PathVerdict ==
  ASSUME NEW a \in Archives, Narrow(a), NEW p \in DOMAIN a.items,
         NEW q \in Queries, NEW q2, Alike(q, q2)
  PROVE  /\ PathMatches(p, q2) \in {"yes", "no"}
         /\ PathMatches(p, q2) = "yes" <=> <<p, q>> \in Meant
<1>1. a.items \in Contents /\ p \in Seq(STRING)
  BY ContentsAssumption DEF Archives
<1>2. /\ q.pattern \in Seq(STRING) /\ q.kind \in {"exact", "glob", "contains"}
      /\ q2.pattern = q.pattern /\ q2.kind = q.kind
  BY QueriesAssumption DEF Alike
<1>3. <<p, q>> \in Meant
        <=> IF q.kind = "glob" THEN Means(Lowered(p), Lowered(q.pattern)) ELSE PathMatches(p, q) = "yes"
  <2>1. <<p, q>> \in (UNION {DOMAIN contents : contents \in Contents}) \X Queries
    BY <1>1
  <2>2. <<p, q>>[1] = p /\ <<p, q>>[2] = q
    OBVIOUS
  <2> QED
    BY <2>1, <2>2 DEF Meant
<1>4. CASE q.kind = "exact"
  BY <1>2, <1>3, <1>4 DEF PathMatches
<1>5. CASE q.kind = "contains"
  BY <1>2, <1>3, <1>5 DEF PathMatches
<1>6. CASE q.kind = "glob"
  <2> DEFINE text == Lowered(p)
             pattern == Lowered(q.pattern)
  <2>1. PathMatches(p, q2) = Glob_match(text, pattern)
    BY <1>2, <1>6 DEF PathMatches
  <2>2. PICK T \in Nat : T = Len(p)
    BY <1>1, LoweredIs
  <2>3. PICK P \in Nat : P = Len(q.pattern)
    BY <1>2, LoweredIs
  <2>4. T = Len(text) /\ \A i \in 1 .. T : text[i] \notin Wide
    <3>1. T = Len(text) /\ \A i \in 1 .. T : text[i] = Lower(p[i])
      BY <1>1, <2>2, LoweredIs
    <3>2. DOMAIN p = 1 .. T
      BY <1>1, <2>2, LenProperties
    <3>3. \A i \in 1 .. T : p[i] \notin Wide
      BY <3>2 DEF Narrow
    <3>4. \A i \in 1 .. T : Lower(p[i]) \notin Wide
      BY <1>1, <3>2, <3>3, LowerAssumption
    <3> QED
      BY <3>1, <3>4
  <2>5. P = Len(pattern) /\ DOMAIN pattern = 1 .. P
    BY <1>2, <2>3, LoweredIs
  <2> HIDE DEF text, pattern
  <2>6. Glob_match(text, pattern) \in {"yes", "no"} /\ (Glob_match(text, pattern) = "yes" <=> Means(text, pattern))
    BY <2>4, <2>5, GlobMeans
  <2> QED
    BY <1>3, <1>6, <2>1, <2>6 DEF text, pattern
<1> QED
  BY <1>2, <1>4, <1>5, <1>6

LEMMA Verdict ==
  ASSUME NEW a \in Archives, Narrow(a), NEW p \in DOMAIN a.items,
         NEW q \in Queries, NEW q2, Alike(q, q2)
  PROVE  Matches_query(p, CatalogFile(a, p), q2) = IF CatalogFile(a, p) \in Sought(a, q) THEN "yes" ELSE "no"
<1>1. Filters(CatalogFile(a, p), q2) <=> Filters(a.items[p], q)
  BY DEF Filters, CatalogFile, Alike
<1>2. CatalogFile(a, p) \in Sought(a, q) <=> <<p, q>> \in Meant /\ Filters(a.items[p], q)
  <2>1. \A p2 : CatalogFile(a, p2).path = p2
    BY DEF CatalogFile
  <2> QED
    BY <2>1 DEF Sought
<1>3. /\ PathMatches(p, q2) \in {"yes", "no"}
      /\ PathMatches(p, q2) = "yes" <=> <<p, q>> \in Meant
  BY PathVerdict
<1> QED
  BY <1>1, <1>2, <1>3 DEF Matches_query

\* What Found takes its function to be.
Finder(f, files, q, N) ==
  f = [n \in 0 .. N |-> IF n = 0 THEN << >> ELSE Add_file(f[n - 1], files[n], q)]

LEMMA FoundSolution ==
  ASSUME NEW files, NEW q, NEW N \in Nat
  PROVE  \E f : Finder(f, files, q, N)
<1> DEFINE step(f, n) == IF n = 0 THEN << >> ELSE Add_file(f[n - 1], files[n], q)
           Solves(n) == \E f : f = [i \in 0 .. n |-> f[i]] /\ \A i \in 0 .. n : f[i] = step(f, i)
           S == {n \in 0 .. N : Solves(n)}
<1>1. 0 \in S
  <2> DEFINE f == [i \in 0 .. 0 |-> << >>]
  <2>1. f = [i \in 0 .. 0 |-> f[i]] /\ \A i \in 0 .. 0 : i = 0 /\ f[i] = << >>
    OBVIOUS
  <2> HIDE DEF f
  <2>2. Solves(0)
    BY <2>1
  <2> HIDE DEF Solves
  <2> QED
    BY <2>2
<1>2. ASSUME NEW n \in 0 .. N - 1, n \in S
      PROVE  n + 1 \in S
  <2>1. PICK f : \A i \in 0 .. n : f[i] = step(f, i)
    BY <1>2
  <2> DEFINE last == Add_file(f[n], files[n + 1], q)
             g == [i \in 0 .. n + 1 |-> IF i = n + 1 THEN last ELSE f[i]]
  <2>2. /\ n + 1 \in 0 .. N /\ n + 1 # 0 /\ (n + 1) - 1 = n /\ n \in 0 .. n /\ n + 1 \in 0 .. n + 1
        /\ \A i \in 0 .. n + 1 : i = n + 1 \/ i \in 0 .. n
        /\ \A i \in 0 .. n : i # n + 1 /\ i \in 0 .. n + 1 /\ (i # 0 => i - 1 \in 0 .. n)
    OBVIOUS
  <2> HIDE DEF last
  <2>3. g = [i \in 0 .. n + 1 |-> g[i]]
    OBVIOUS
  <2>4. g[n + 1] = last /\ \A i \in 0 .. n : g[i] = f[i]
    BY <2>2
  <2> HIDE DEF g
  <2>5. g[n + 1] = step(g, n + 1)
    <3>1. g[(n + 1) - 1] = f[n]
      BY <2>2, <2>4
    <3> QED
      BY <2>2, <2>4, <3>1 DEF last
  <2>6. \A i \in 0 .. n : g[i] = step(g, i)
    <3> SUFFICES ASSUME NEW i \in 0 .. n PROVE g[i] = step(g, i)
      OBVIOUS
    <3>1. i # 0 => g[i - 1] = f[i - 1]
      BY <2>2, <2>4
    <3>2. g[i] = f[i] /\ f[i] = step(f, i)
      BY <2>1, <2>4
    <3> QED
      BY <3>1, <3>2
  <2> HIDE DEF step
  <2>7. Solves(n + 1)
    BY <2>2, <2>3, <2>5, <2>6
  <2> HIDE DEF Solves
  <2> QED
    BY <2>2, <2>7
<1>3. N \in S
  <2> HIDE DEF S
  <2>1. \A n \in 0 .. N : n \in S
    BY <1>1, <1>2, UpTo
  <2> QED
    BY <2>1
<1>4. PICK f : f = [i \in 0 .. N |-> f[i]] /\ \A i \in 0 .. N : f[i] = step(f, i)
  BY <1>3
<1> HIDE DEF step
<1>5. f = [i \in 0 .. N |-> step(f, i)]
  BY <1>4
<1>6. Finder(f, files, q, N)
  BY <1>5 DEF step, Finder
<1> QED
  BY <1>6

\* What was found are the files at these places, up to the limit L.
AllAt(found, files, I, L) ==
  /\ IsFiniteSet(I) /\ Cardinality(I) \in Nat
  /\ Len(found) = IF Cardinality(I) <= L THEN Cardinality(I) ELSE L
  /\ ToSet(found) \subseteq {files[i] : i \in I}
  /\ Cardinality(I) <= L => ToSet(found) = {files[i] : i \in I}

\* A search that meets no wide character finds, up to the limit, as many files as
\* there are that match.
LEMMA FoundIs ==
  ASSUME NEW U, Panic \notin U, NEW files \in Seq(U), NEW q, q.limit \in Nat, NEW W,
         \A i \in 1 .. Len(files) :
           Matches_query(files[i].path, files[i], q) = IF files[i] \in W THEN "yes" ELSE "no"
  PROVE  AllAt(Found(files, q), files, {i \in 1 .. Len(files) : files[i] \in W}, AtLeastOne(q.limit))
<1> DEFINE N == Len(files)
           L == AtLeastOne(q.limit)
           f == CHOOSE h : h = [n \in 0 .. N |-> IF n = 0 THEN << >> ELSE Add_file(h[n - 1], files[n], q)]
           I(n) == {i \in 1 .. n : files[i] \in W}
           Right(n) == /\ f[n] \in Seq(U)
                       /\ IsFiniteSet(I(n)) /\ Cardinality(I(n)) \in Nat
                       /\ Len(f[n]) = IF Cardinality(I(n)) <= L THEN Cardinality(I(n)) ELSE L
                       /\ ToSet(f[n]) \subseteq {files[i] : i \in I(n)}
                       /\ Cardinality(I(n)) <= L => ToSet(f[n]) = {files[i] : i \in I(n)}
           S == {n \in 0 .. N : Right(n)}
<1>1. N \in Nat /\ \A i \in 1 .. N : files[i] \in U
  BY LenProperties, ElementOfSeq
<1>2. L \in Nat /\ L # 0
  BY DEF AtLeastOne
<1>3. f = [n \in 0 .. N |-> IF n = 0 THEN << >> ELSE Add_file(f[n - 1], files[n], q)]
  <2>1. PICK h : Finder(h, files, q, N)
    BY <1>1, FoundSolution
  <2> HIDE DEF N
  <2>2. h = [n \in 0 .. N |-> IF n = 0 THEN << >> ELSE Add_file(h[n - 1], files[n], q)]
    BY <2>1 DEF Finder
  <2> QED
    BY <2>2
<1>4. Found(files, q) = f[N]
  BY DEF Found
<1> HIDE DEF f
<1>5. f[0] = << >> /\ \A n \in 0 .. N - 1 : f[n + 1] = Add_file(f[n], files[n + 1], q)
  <2> HIDE DEF N
  <2>1. /\ 0 \in 0 .. N
        /\ \A n \in 0 .. N - 1 : n + 1 \in 0 .. N /\ n + 1 # 0 /\ (n + 1) - 1 = n
    BY <1>1
  <2> QED
    BY <1>3, <2>1
<1> HIDE DEF L
<1>6. 0 \in S
  <2>1. I(0) = {}
    OBVIOUS
  <2>2. IsFiniteSet({}) /\ Cardinality({}) = 0
    BY FS_EmptySet
  <2>3. << >> \in Seq(U) /\ Len(<< >>) = 0 /\ ToSet(<< >>) = {}
    <3>1. << >> \in Seq(U) /\ Len(<< >>) = 0
      BY EmptySeq
    <3>2. DOMAIN << >> = {}
      OBVIOUS
    <3> QED
      BY <3>1, <3>2 DEF ToSet
  <2> HIDE DEF I
  <2>4. {files[i] : i \in I(0)} = {} /\ 0 <= L
    BY <1>2, <2>1
  <2>5. Cardinality(I(0)) = 0 /\ IsFiniteSet(I(0))
    BY <2>1, <2>2
  <2>6. f[0] \in Seq(U) /\ Len(f[0]) = 0 /\ ToSet(f[0]) = {}
    BY <1>5, <2>3
  <2> HIDE DEF I
  <2>7. Right(0)
    <3>1. /\ f[0] \in Seq(U)
          /\ IsFiniteSet(I(0)) /\ Cardinality(I(0)) \in Nat /\ Cardinality(I(0)) <= L
      BY <2>4, <2>5, <2>6
    <3>2. Len(f[0]) = IF Cardinality(I(0)) <= L THEN Cardinality(I(0)) ELSE L
      BY <2>5, <2>6, <3>1
    <3>3. ToSet(f[0]) = {files[i] : i \in I(0)}
      BY <2>4, <2>6
    <3> QED
      BY <3>1, <3>2, <3>3
  <2> HIDE DEF Right
  <2> QED
    BY <1>1, <2>7
<1>7. ASSUME NEW n \in 0 .. N - 1, n \in S
      PROVE  n + 1 \in S
  <2> DEFINE x == files[n + 1]
             c == Cardinality(I(n))
  <2>1. n + 1 \in 1 .. N /\ n + 1 \in 0 .. N /\ n + 1 \notin I(n) /\ x \in U
    BY <1>1
  <2>2. Right(n)
    BY <1>7
  <2>3. f[n + 1] = Add_file(f[n], x, q)
    BY <1>5
  <2>4. Matches_query(x.path, x, q) = IF x \in W THEN "yes" ELSE "no"
    BY <2>1
  <2>5. PICK k \in Nat : k = Len(f[n])
    BY <2>2, LenProperties
  <2>6. f[n] # <<Panic>>
    <3>1. \A y : <<y>> \in Seq(U) => y \in U
      <4> SUFFICES ASSUME NEW y, <<y>> \in Seq(U) PROVE y \in U
        OBVIOUS
      <4>1. <<y>>[1] = y /\ Len(<<y>>) = 1 /\ 1 \in 1 .. 1
        OBVIOUS
      <4> QED
        BY <4>1, ElementOfSeq
    <3> QED
      BY <2>2, <3>1
  <2>7. CASE x \notin W
    <3>1. f[n + 1] = f[n]
      BY <2>3, <2>4, <2>7 DEF Add_file
    <3>2. I(n + 1) = I(n)
      <4>1. \A i \in 1 .. n + 1 : i = n + 1 \/ i \in 1 .. n
        OBVIOUS
      <4>2. \A i \in 1 .. n : i \in 1 .. n + 1
        OBVIOUS
      <4> QED
        BY <2>7, <4>1, <4>2
    <3> HIDE DEF I
    <3>3. Right(n + 1)
      BY <2>2, <3>1, <3>2
    <3> HIDE DEF Right
    <3> QED
      BY <2>1, <3>3
  <2>8. CASE x \in W
    <3>1. I(n + 1) = I(n) \cup {n + 1}
      <4>1. \A i \in 1 .. n + 1 : i = n + 1 \/ i \in 1 .. n
        OBVIOUS
      <4>2. \A i \in 1 .. n : i \in 1 .. n + 1
        OBVIOUS
      <4>3. n + 1 \in 1 .. n + 1
        OBVIOUS
      <4> QED
        BY <2>8, <4>1, <4>2, <4>3
    <3> HIDE DEF I
    <3>2. IsFiniteSet(I(n + 1)) /\ Cardinality(I(n + 1)) = c + 1 /\ c \in Nat
      BY <2>1, <2>2, <3>1, FS_AddElement
    <3>3. {files[i] : i \in I(n + 1)} = {files[i] : i \in I(n)} \cup {x}
      BY <3>1
    <3> HIDE DEF x, c
    <3>4. CASE Len(f[n]) = L
      <4>1. f[n + 1] = f[n]
        BY <2>3, <3>4 DEF Add_file, L
      <4>2. ~ (c + 1 <= L) /\ c + 1 \in Nat
        <5>1. k = L /\ k = IF c <= L THEN c ELSE L
          BY <2>2, <2>5, <3>4 DEF c
        <5> QED
          BY <1>2, <3>2, <5>1
      <4>3. Right(n + 1)
        BY <2>2, <3>2, <3>3, <3>4, <4>1, <4>2
      <4> HIDE DEF Right
      <4> QED
        BY <2>1, <4>3
    <3>5. CASE Len(f[n]) # L
      <4>1. f[n + 1] = Append(f[n], x)
        BY <2>3, <2>4, <2>6, <2>8, <3>5 DEF Add_file, L
      <4>2. c = k /\ c <= L /\ c + 1 <= L /\ c + 1 \in Nat
        <5>1. k # L /\ k = IF c <= L THEN c ELSE L
          BY <2>2, <2>5, <3>5 DEF c
        <5> QED
          BY <1>2, <3>2, <5>1
      <4>3. /\ Append(f[n], x) \in Seq(U) /\ Len(Append(f[n], x)) = c + 1
            /\ ToSet(Append(f[n], x)) = ToSet(f[n]) \cup {x}
        <5>1. /\ Append(f[n], x) \in Seq(U) /\ Len(Append(f[n], x)) = k + 1
              /\ \A i \in 1 .. k : Append(f[n], x)[i] = f[n][i]
              /\ Append(f[n], x)[k + 1] = x
          BY <2>1, <2>2, <2>5, AppendProperties
        <5>2. DOMAIN Append(f[n], x) = 1 .. k + 1 /\ DOMAIN f[n] = 1 .. k
          BY <2>2, <2>5, <5>1, LenProperties
        <5>3. /\ \A i \in 1 .. k + 1 : i = k + 1 \/ i \in 1 .. k
              /\ \A i \in 1 .. k : i \in 1 .. k + 1
              /\ k + 1 \in 1 .. k + 1
          OBVIOUS
        <5>4. ToSet(Append(f[n], x)) = ToSet(f[n]) \cup {x}
          BY <5>1, <5>2, <5>3 DEF ToSet
        <5> QED
          BY <4>2, <5>1, <5>4
      <4>4. ToSet(f[n]) = {files[i] : i \in I(n)}
        BY <2>2, <4>2 DEF c
      <4>5. Right(n + 1)
        BY <3>2, <3>3, <4>1, <4>2, <4>3, <4>4
      <4> HIDE DEF Right
      <4> QED
        BY <2>1, <4>5
    <3> QED
      BY <3>4, <3>5
  <2> QED
    BY <2>7, <2>8
<1>8. Right(N)
  <2> HIDE DEF S
  <2>1. \A n \in 0 .. N : n \in S
    BY <1>1, <1>6, <1>7, UpTo
  <2>2. N \in S
    BY <1>1, <2>1
  <2> HIDE DEF Right
  <2> QED
    BY <2>2 DEF S
<1>9. AllAt(f[N], files, I(N), L)
  BY <1>8 DEF AllAt
<1> QED
  BY <1>4, <1>9 DEF L

\* The sequence has every member of the set, once.
Lists(s, F) ==
  /\ s \in Seq(F)
  /\ \A i, j \in 1 .. Len(s) : s[i] = s[j] => i = j
  /\ \A x \in F : \E i \in 1 .. Len(s) : s[i] = x

LEMMA SetToSeqLists ==
  ASSUME NEW S, IsFiniteSet(S)
  PROVE  Lists(SetToSeq(S), S)
<1> DEFINE n == Cardinality(S)
           f == SetToSeq(S)
<1>1. n \in Nat /\ ExistsBijection(1 .. n, S)
  BY FS_CardinalityType
<1>2. \E h \in [1 .. n -> S] : IsInjective(h)
  BY <1>1 DEF ExistsBijection, Bijection, Injection
<1>3. f \in [1 .. n -> S] /\ IsInjective(f)
  BY <1>2 DEF SetToSeq
<1> HIDE DEF f
<1>4. DOMAIN f = 1 .. n /\ \A i, j \in 1 .. n : f[i] = f[j] => i = j
  BY <1>3 DEF IsInjective
<1>5. f \in Seq(S) /\ Len(f) = n
  BY <1>1, <1>3
<1>6. \A x \in S : \E i \in 1 .. Len(f) : f[i] = x
  BY SetToSeqIs DEF f
<1> QED
  BY <1>4, <1>5, <1>6 DEF f, Lists

LEMMA NothingListed == Lists(<< >>, {})
<1>1. << >> \in Seq({}) /\ Len(<< >>) = 0 /\ \A i \in 1 .. 0 : FALSE
  BY EmptySeq
<1> QED
  BY <1>1 DEF Lists

IsFunction(f) == f = [x \in DOMAIN f |-> f[x]]

\* What lists that have nothing in common come to, one after the other.
LEMMA FlattenLists ==
  ASSUME NEW N \in Nat, NEW seqs, IsFunction(seqs), DOMAIN seqs = 1 .. N, NEW G, NEW U,
         \A x : x \in U <=> \E i \in 1 .. N : x \in G[i],
         \A i \in 1 .. N : Lists(seqs[i], G[i]),
         \A i, j \in 1 .. N : i # j => G[i] \cap G[j] = {}
  PROVE  Lists(FlattenSeq(seqs), U)
<1> DEFINE flat == FlattenSeq(seqs)
<1>1. \A i \in 1 .. N : seqs[i] \in Seq(U) /\ seqs[i] \in Seq(G[i]) /\ Len(seqs[i]) \in Nat
  <2> SUFFICES ASSUME NEW i \in 1 .. N PROVE seqs[i] \in Seq(U) /\ seqs[i] \in Seq(G[i]) /\ Len(seqs[i]) \in Nat
    OBVIOUS
  <2>1. Lists(seqs[i], G[i]) /\ G[i] \subseteq U
    OBVIOUS
  <2>2. seqs[i] \in Seq(G[i])
    BY <2>1 DEF Lists
  <2>3. seqs[i] \in Seq(U)
    BY <2>1, <2>2, SeqMonotonic
  <2> QED
    BY <2>2, <2>3, LenProperties
<1>2. seqs \in Seq(Seq(U)) /\ Len(seqs) = N
  <2>1. seqs \in [1 .. N -> Seq(U)]
    BY <1>1 DEF IsFunction
  <2> QED
    BY <2>1
<1>3. flat \in Seq(U) /\ \E after \in [0 .. Len(seqs) -> Nat] : Spread(seqs, flat, after)
  BY <1>2, FlattenSpread
<1> HIDE DEF flat
<1>4. PICK after \in [0 .. N -> Nat] : Spread(seqs, flat, after)
  BY <1>2, <1>3
<1>5. /\ \A j \in 1 .. Len(flat) : \E i \in 1 .. N : \E m \in 1 .. Len(seqs[i]) :
           j = after[i - 1] + m /\ flat[j] = seqs[i][m]
      /\ \A i \in 1 .. N : \A m \in 1 .. Len(seqs[i]) :
           /\ after[i - 1] + m \in 1 .. Len(flat)
           /\ flat[after[i - 1] + m] = seqs[i][m]
  BY <1>2, <1>4 DEF Spread
<1>6. \A i \in 1 .. N : \A m \in 1 .. Len(seqs[i]) : seqs[i][m] \in G[i]
  BY <1>1, ElementOfSeq
<1>7. ASSUME NEW j \in 1 .. Len(flat), NEW k \in 1 .. Len(flat), flat[j] = flat[k]
      PROVE  j = k
  <2>1. PICK i \in 1 .. N : \E m \in 1 .. Len(seqs[i]) : j = after[i - 1] + m /\ flat[j] = seqs[i][m]
    BY <1>5
  <2>2. PICK m \in 1 .. Len(seqs[i]) : j = after[i - 1] + m /\ flat[j] = seqs[i][m]
    BY <2>1
  <2>3. PICK l \in 1 .. N : \E n \in 1 .. Len(seqs[l]) : k = after[l - 1] + n /\ flat[k] = seqs[l][n]
    BY <1>5
  <2>4. PICK n \in 1 .. Len(seqs[l]) : k = after[l - 1] + n /\ flat[k] = seqs[l][n]
    BY <2>3
  <2>5. seqs[i][m] \in G[i] /\ seqs[l][n] \in G[l] /\ seqs[i][m] = seqs[l][n]
    BY <1>6, <1>7, <2>2, <2>4
  <2>6. i = l
    BY <2>5
  <2>7. m = n
    <3>1. Lists(seqs[i], G[i])
      OBVIOUS
    <3> QED
      BY <2>5, <2>6, <3>1 DEF Lists
  <2> QED
    BY <2>2, <2>4, <2>6, <2>7
<1>8. ASSUME NEW x \in U
      PROVE  \E j \in 1 .. Len(flat) : flat[j] = x
  <2>1. PICK i \in 1 .. N : x \in G[i]
    BY <1>8
  <2>2. PICK m \in 1 .. Len(seqs[i]) : seqs[i][m] = x
    BY <2>1 DEF Lists
  <2>3. after[i - 1] + m \in 1 .. Len(flat) /\ flat[after[i - 1] + m] = seqs[i][m]
    BY <1>5
  <2> QED
    BY <2>2, <2>3, Zenon
<1> QED
  BY <1>3, <1>7, <1>8 DEF Lists, flat

\* What was found are these files, up to the limit L.
UpToLimit(found, W, L) ==
  /\ IsFiniteSet(W) /\ Cardinality(W) \in Nat
  /\ Len(found) = IF Cardinality(W) <= L THEN Cardinality(W) ELSE L
  /\ ToSet(found) \subseteq W
  /\ Cardinality(W) <= L => ToSet(found) = W

LEMMA SearchIs ==
  ASSUME NEW F, Panic \notin F, NEW files, Lists(files, F), NEW q, q.limit \in Nat, NEW W \in SUBSET F,
         \A x \in F : Matches_query(x.path, x, q) = IF x \in W THEN "yes" ELSE "no"
  PROVE  UpToLimit(Found(files, q), W, AtLeastOne(q.limit))
<1> DEFINE I == {i \in 1 .. Len(files) : files[i] \in W}
           L == AtLeastOne(q.limit)
           found == Found(files, q)
           h == [i \in I |-> files[i]]
<1>1. /\ files \in Seq(F)
      /\ \A i, j \in 1 .. Len(files) : files[i] = files[j] => i = j
      /\ \A x \in F : \E i \in 1 .. Len(files) : files[i] = x
  BY DEF Lists
<1>2. \A i \in 1 .. Len(files) : files[i] \in F
  BY <1>1, ElementOfSeq
<1>3. \A i \in 1 .. Len(files) :
        Matches_query(files[i].path, files[i], q) = IF files[i] \in W THEN "yes" ELSE "no"
  BY <1>2
<1>4. /\ IsFiniteSet(I) /\ Cardinality(I) \in Nat
      /\ Len(found) = IF Cardinality(I) <= L THEN Cardinality(I) ELSE L
      /\ ToSet(found) \subseteq {files[i] : i \in I}
      /\ Cardinality(I) <= L => ToSet(found) = {files[i] : i \in I}
  <2>1. AllAt(found, files, I, L)
    BY <1>1, <1>3, FoundIs
  <2> HIDE DEF found, I, L
  <2> QED
    BY <2>1 DEF AllAt
<1>5. {files[i] : i \in I} = W
  BY <1>1
<1>6. h \in [I -> W] /\ \A i \in I : h[i] = files[i]
  BY <1>5
<1>7. \A i, j \in I : files[i] = files[j] => i = j
  BY <1>1
<1> HIDE DEF I, h
<1>8. h \in Bijection(I, W)
  <2>1. \A i, j \in I : h[i] = h[j] => i = j
    BY <1>6, <1>7
  <2>2. \A x \in W : \E i \in I : h[i] = x
    BY <1>5, <1>6
  <2>3. DOMAIN h = I
    BY <1>6
  <2>4. h \in Injection(I, W)
    BY <1>6, <2>1, <2>3 DEF Injection, IsInjective
  <2>5. h \in Surjection(I, W)
    BY <1>6, <2>2 DEF Surjection
  <2> QED
    BY <2>4, <2>5 DEF Bijection
<1>9. IsFiniteSet(W) /\ Cardinality(W) = Cardinality(I)
  BY <1>4, <1>8, FS_Bijection DEF ExistsBijection
<1> HIDE DEF found, L
<1>10. UpToLimit(found, W, L)
  BY <1>4, <1>5, <1>9 DEF UpToLimit
<1> QED
  BY <1>10 DEF found, L

ArchiveFiles(a) == {CatalogFile(a, p) : p \in DOMAIN a.items}

LEMMA FilesFinite ==
  ASSUME NEW a \in Archives
  PROVE  IsFiniteSet(ArchiveFiles(a))
<1> DEFINE D == DOMAIN a.items
           F == ArchiveFiles(a)
           h == [p \in D |-> CatalogFile(a, p)]
<1>1. IsFiniteSet(D)
  BY ContentsAssumption DEF Archives
<1>2. h \in [D -> F] /\ \A x \in F : \E p \in D : h[p] = x
  BY DEF ArchiveFiles
<1> HIDE DEF D, F, h
<1>3. h \in Surjection(D, F)
  BY <1>2 DEF Surjection
<1> QED
  BY <1>1, <1>3, FS_Surjection DEF F

LEMMA NoPanic == \A a : Panic \notin ArchiveFiles(a)
<1> SUFFICES ASSUME NEW a, NEW p, CatalogFile(a, p) = Panic PROVE FALSE
  BY DEF ArchiveFiles
<1>1. "path" \in DOMAIN CatalogFile(a, p) /\ "path" \notin DOMAIN Panic
  BY DEF CatalogFile, Panic
<1> QED
  BY <1>1

LEMMA ArchiveVerdict ==
  ASSUME NEW a \in Archives, Narrow(a), NEW q \in Queries, NEW q2, Alike(q, q2)
  PROVE  /\ Sought(a, q) \subseteq ArchiveFiles(a)
         /\ \A x \in ArchiveFiles(a) :
              Matches_query(x.path, x, q2) = IF x \in Sought(a, q) THEN "yes" ELSE "no"
<1>1. Sought(a, q) \subseteq ArchiveFiles(a)
  BY DEF Sought, ArchiveFiles
<1>2. ASSUME NEW x \in ArchiveFiles(a)
      PROVE  Matches_query(x.path, x, q2) = IF x \in Sought(a, q) THEN "yes" ELSE "no"
  <2>1. PICK p \in DOMAIN a.items : x = CatalogFile(a, p)
    BY <1>2 DEF ArchiveFiles
  <2>2. x.path = p
    BY <2>1 DEF CatalogFile
  <2>3. Matches_query(p, CatalogFile(a, p), q2) = IF CatalogFile(a, p) \in Sought(a, q) THEN "yes" ELSE "no"
    BY Verdict
  <2> QED
    BY <2>1, <2>2, <2>3
<1> QED
  BY <1>1, <1>2

LEMMA SearchOfOne ==
  ASSUME NEW a \in Archives, Narrow(a), ExactAt(trees, << >>, 0, a),
         NEW q \in Queries, NEW q2, Alike(q, q2), q2.archive = a.name
  PROVE  UpToLimit(Search_files(q2), Sought(a, q), AtLeastOne(q.limit))
<1> DEFINE F == ArchiveFiles(a)
           names == <<a.name>>
           seqs == [i \in DOMAIN names |-> SetToSeq(FilesOf(names[i]))]
           G == [i \in 1 .. 1 |-> F]
<1>1. a.name # Anywhere /\ a.name \in Names
  BY NamesAssumption DEF Anywhere, Archives
<1>2. Search_files(q2) = Found(FlattenSeq(seqs), q2)
  BY <1>1 DEF Search_files
<1>3. FilesOf(a.name) = F
  BY FilesOfIndexed DEF ArchiveFiles
<1>4. DOMAIN seqs = 1 .. 1 /\ \A i \in 1 .. 1 : seqs[i] = SetToSeq(F)
  BY <1>3
<1>5. IsFunction(seqs)
  BY DEF IsFunction
<1>6. Lists(SetToSeq(F), F)
  BY FilesFinite, SetToSeqLists
<1>7. /\ \A i \in 1 .. 1 : G[i] = F
      /\ \A i, j \in 1 .. 1 : i = j
  OBVIOUS
<1> HIDE DEF seqs, F, G
<1>8. Lists(FlattenSeq(seqs), F)
  <2>1. \A i \in 1 .. 1 : Lists(seqs[i], G[i])
    BY <1>4, <1>6, <1>7
  <2>2. /\ 1 \in Nat
        /\ \A i, j \in 1 .. 1 : i # j => G[i] \cap G[j] = {}
        /\ \A x : x \in F <=> \E i \in 1 .. 1 : x \in G[i]
    BY <1>7
  <2> QED
    BY <1>4, <1>5, <2>1, <2>2, FlattenLists
<1>9. q2.limit = q.limit /\ q.limit \in Nat
  BY QueriesAssumption DEF Alike
<1>10. /\ Sought(a, q) \in SUBSET F /\ Panic \notin F
       /\ \A x \in F : Matches_query(x.path, x, q2) = IF x \in Sought(a, q) THEN "yes" ELSE "no"
  BY ArchiveVerdict, NoPanic DEF F
<1>11. UpToLimit(Found(FlattenSeq(seqs), q2), Sought(a, q), AtLeastOne(q2.limit))
  BY <1>8, <1>9, <1>10, SearchIs
<1> QED
  BY <1>2, <1>9, <1>11

\* What was indexed between calls is as it was indexed.
LEMMA IndexedNow ==
  ASSUME CatalogInv
  PROVE  /\ \A a \in indexed : a \in Archives /\ ExactAt(trees, << >>, 0, a) /\ Narrow(a)
         /\ \A a, b \in indexed : a # b => ~ Clash(a.name, b.name)
<1>1. Len(agenda) \in Nat /\ 0 \in 0 .. Len(agenda) /\ Marks(indexed, agenda, 0) = indexed
  <2>1. Len(agenda) \in Nat
    BY LenProperties DEF CatalogInv, CatalogTypeOK, OpsOK
  <2> QED
    BY <2>1 DEF Marks
<1>2. \A a \in indexed : ExactAt(trees, agenda, 0, a) /\ Narrow(a)
  <2>1. \A j \in 1 .. 0 : FALSE
    OBVIOUS
  <2> QED
    BY <1>1, <2>1 DEF CatalogInv, Exact
<1>3. \A t, k, e : Comes(trees, << >>, 0, t, k, e) <=> Comes(trees, agenda, 0, t, k, e)
  BY ComesFirst
<1>4. \A a \in indexed : ExactAt(trees, << >>, 0, a)
  BY <1>2, <1>3 DEF ExactAt
<1>5. \A a, b \in indexed : a # b => ~ Clash(a.name, b.name)
  BY <1>1 DEF CatalogInv, Apart
<1>6. \A a \in indexed : a \in Archives
  BY DEF CatalogInv, CatalogTypeOK
<1> QED
  BY <1>2, <1>4, <1>5, <1>6

\* A search in an archive that was indexed and that nothing with a like name came
\* near finds what there is to find, once, up to the limit: also while another
\* archive is written or removed, or was half-way when the program died.
THEOREM CatalogSearchFinds == CatalogSpec => []SearchFinds
<1>1. CatalogInv => SearchFinds
  <2> SUFFICES ASSUME CatalogInv, NEW a \in indexed, NEW q \in Queries
               PROVE  Finds(Search_files([q EXCEPT !.archive = a.name]), a, q)
    BY DEF SearchFinds
  <2> DEFINE q2 == [q EXCEPT !.archive = a.name]
             L == AtLeastOne(q.limit)
             W == Sought(a, q)
  <2>1. a \in Archives /\ ExactAt(trees, << >>, 0, a) /\ Narrow(a)
    BY IndexedNow
  <2>2. Alike(q, q2) /\ q2.archive = a.name
    BY QueriesAssumption DEF Alike
  <2> HIDE DEF q2
  <2>3. UpToLimit(Search_files(q2), W, L)
    BY <2>1, <2>2, SearchOfOne
  <2>4. L \in Nat
    BY QueriesAssumption DEF AtLeastOne
  <2> HIDE DEF L
  <2>5. Min({L, Cardinality(W)}) = IF Cardinality(W) <= L THEN Cardinality(W) ELSE L
    <3>1. PICK c \in Nat : c = Cardinality(W)
      BY <2>3 DEF UpToLimit
    <3>2. Min({L, c}) = IF c <= L THEN c ELSE L
      BY <2>4 DEF Min
    <3> QED
      BY <3>1, <3>2
  <2>6. ToSet(Search_files(q2)) \subseteq W /\ Len(Search_files(q2)) = Min({L, Cardinality(W)})
    BY <2>3, <2>5 DEF UpToLimit
  <2> QED
    BY <2>6 DEF Finds, q2, L
<1> QED
  BY <1>1, CatalogAlways, PTL

-------------------------------------------------------------------------------
(***************************************************************************)
(* The catalog and the commands                                            *)
(***************************************************************************)

\* The archives of the manifest are in the order of their times.
Ordered ==
  /\ \A i \in 1 .. Len(repo) : repo[i].time <= time
  /\ \A i, j \in 1 .. Len(repo) : i < j => repo[i].time < repo[j].time

LEMMA OrderedStep ==
  ASSUME CatalogTypeOK, Ordered, [CatalogNext]_catalogVars
  PROVE  Ordered'
<1>1. repo \in Seq(Archives) /\ time \in Nat
  BY DEF CatalogTypeOK
<1>2. PICK n \in Nat : n = Len(repo)
  BY <1>1, LenProperties
<1>3. \A i \in 1 .. n : repo[i] \in Archives /\ repo[i].time \in Nat
  <2>1. \A i \in 1 .. n : repo[i] \in Archives
    BY <1>1, <1>2, ElementOfSeq
  <2> QED
    BY <2>1 DEF Archives
<1>4. /\ \A i \in 1 .. n : repo[i].time <= time
      /\ \A i, j \in 1 .. n : i < j => repo[i].time < repo[j].time
  BY <1>2 DEF Ordered
<1>5. CASE UNCHANGED <<repo, time>>
  BY <1>5 DEF Ordered
<1>6. ASSUME NEW name \in Names, NEW contents \in Contents, Create(name, contents)
      PROVE  Ordered'
  <2> DEFINE a == [name |-> name, time |-> time', items |-> contents]
  <2>1. time' = time + 1 /\ repo' = Append(repo, a) /\ a.time = time'
    BY <1>6 DEF Create
  <2>2. a \in Archives
    BY <1>1, <2>1 DEF Archives
  <2> HIDE DEF a
  <2>3. /\ Len(repo') = n + 1 /\ repo'[n + 1] = a
        /\ \A i \in 1 .. n : repo'[i] = repo[i]
    BY <1>1, <1>2, <2>1, <2>2, AppendProperties
  <2>4. \A i \in 1 .. n + 1 : i = n + 1 \/ i \in 1 .. n
    OBVIOUS
  <2>5. \A i \in 1 .. n + 1 : repo'[i].time <= time'
    <3>1. \A x \in Nat : x <= time => x <= time'
      BY <1>1, <2>1
    <3> QED
      BY <1>1, <1>3, <1>4, <2>1, <2>3, <2>4, <3>1
  <2>6. ASSUME NEW i \in 1 .. n + 1, NEW j \in 1 .. n + 1, i < j
        PROVE  repo'[i].time < repo'[j].time
    <3>1. i \in 1 .. n
      BY <2>6
    <3>2. CASE j \in 1 .. n
      BY <1>4, <2>3, <2>6, <3>1, <3>2
    <3>3. CASE j = n + 1
      <4>1. \A x \in Nat : x <= time => x < time + 1
        BY <1>1
      <4> QED
        BY <1>3, <1>4, <2>1, <2>3, <3>1, <3>3, <4>1
    <3> QED
      BY <2>4, <3>2, <3>3
  <2> QED
    BY <2>3, <2>5, <2>6 DEF Ordered
<1>7. ASSUME NEW name \in Names, Delete(name)
      PROVE  Ordered'
  <2>1. PICK k \in 1 .. Len(repo) : repo' = RemoveAt(repo, k)
    BY <1>7, DeleteIs
  <2>2. k \in 1 .. n /\ time' = time
    BY <1>2, <1>7 DEF Delete
  <2>3. /\ Len(repo') = n - 1
        /\ \A j \in 1 .. n - 1 : repo'[j] = IF j < k THEN repo[j] ELSE repo[j + 1]
    BY <1>1, <1>2, <2>1, RemoveAtIs
  <2>4. \A j \in 1 .. n - 1 : j \in 1 .. n /\ j + 1 \in 1 .. n
    OBVIOUS
  <2>5. \A i \in 1 .. n - 1 : repo'[i].time <= time'
    BY <1>4, <2>2, <2>3, <2>4
  <2>6. ASSUME NEW i \in 1 .. n - 1, NEW j \in 1 .. n - 1, i < j
        PROVE  repo'[i].time < repo'[j].time
    <3>1. CASE j < k
      <4>1. i < k
        BY <2>2, <2>6, <3>1
      <4> QED
        BY <1>4, <2>3, <2>4, <2>6, <3>1, <4>1
    <3>2. CASE ~ (j < k)
      <4>1. i < j + 1 /\ i + 1 < j + 1
        BY <2>6
      <4> QED
        BY <1>4, <2>3, <2>4, <3>2, <4>1
    <3> QED
      BY <3>1, <3>2
  <2> QED
    BY <2>3, <2>5, <2>6 DEF Ordered
<1>8. CASE \E i \in DOMAIN repo : CallIndex(repo[i])
  BY <1>5, <1>8 DEF CallIndex
<1>9. CASE \E name \in Names : CallRemove(name)
  BY <1>5, <1>9 DEF CallRemove
<1>10. CASE CallRebuild \/ Write \/ Crash
  BY <1>5, <1>10 DEF CallRebuild, Write, Crash
<1>11. CASE UNCHANGED catalogVars
  BY <1>5, <1>11 DEF catalogVars
<1> QED
  BY <1>6, <1>7, <1>8, <1>9, <1>10, <1>11 DEF CatalogNext

LEMMA OrderedAlways == CatalogSpec => []Ordered
<1>1. CatalogInit => Ordered
  <2> SUFFICES ASSUME CatalogInit PROVE Ordered
    OBVIOUS
  <2>1. \A i \in 1 .. Len(repo) : FALSE
    BY NothingToDo DEF CatalogInit
  <2> QED
    BY <2>1 DEF Ordered
<1>2. CatalogInv /\ Ordered /\ [CatalogNext]_catalogVars => Ordered'
  BY OrderedStep DEF CatalogInv
<1> QED
  BY <1>1, <1>2, CatalogAlways, PTL DEF CatalogSpec

\* Of archives in the order of their times the newest first are these in reverse.
LEMMA NewestIs ==
  ASSUME NEW N \in Nat, NEW s, \A i \in 1 .. N : s[i].time \in Nat,
         \A i, j \in 1 .. N : i < j => s[i].time < s[j].time,
         NEW A, \A x : x \in A <=> \E i \in 1 .. N : x = s[i]
  PROVE  /\ Len(Newest(A)) = N /\ DOMAIN Newest(A) = 1 .. N /\ Newest(A) \in Seq(A)
         /\ \A i \in 1 .. N : Newest(A)[i] = s[N + 1 - i]
<1> DEFINE newer(t) == {b \in A : b.time > t}
<1>1. \A i \in 1 .. N : s[i] \in A
  OBVIOUS
<1>2. \A i, j \in 1 .. N : s[i] = s[j] => i = j
  <2>1. \A i, j \in 1 .. N : i # j => i < j \/ j < i
    OBVIOUS
  <2>2. \A x, y \in Nat : x < y => x # y
    OBVIOUS
  <2> QED
    BY <2>1, <2>2
\* As many as there are numbers.
<1>3. ASSUME NEW m \in 0 .. N, NEW B, \A x : x \in B <=> \E i \in m + 1 .. N : x = s[i]
      PROVE  Cardinality(B) = N - m
  <2> DEFINE h == [i \in m + 1 .. N |-> s[i]]
  <2>1. h \in [m + 1 .. N -> B] /\ \A i \in m + 1 .. N : h[i] = s[i]
    BY <1>3
  <2> HIDE DEF h
  <2>2. \A i \in m + 1 .. N : i \in 1 .. N
    OBVIOUS
  <2>3. \A i, j \in m + 1 .. N : h[i] = h[j] => i = j
    BY <1>2, <2>1, <2>2
  <2>4. \A x \in B : \E i \in m + 1 .. N : h[i] = x
    BY <1>3, <2>1
  <2>5. DOMAIN h = m + 1 .. N
    BY <2>1
  <2>6. h \in Injection(m + 1 .. N, B)
    BY <2>1, <2>3, <2>5 DEF Injection, IsInjective
  <2>7. h \in Surjection(m + 1 .. N, B)
    BY <2>1, <2>4 DEF Surjection
  <2>8. ExistsBijection(m + 1 .. N, B)
    BY <2>6, <2>7 DEF Bijection, ExistsBijection
  <2>9. IsFiniteSet(m + 1 .. N) /\ Cardinality(m + 1 .. N) = N - m
    <3>1. m + 1 \in Int /\ N \in Int
      OBVIOUS
    <3>2. IsFiniteSet(m + 1 .. N) /\ Cardinality(m + 1 .. N) = IF m + 1 > N THEN 0 ELSE N - (m + 1) + 1
      BY <3>1, FS_Interval
    <3>3. N - m = IF m + 1 > N THEN 0 ELSE N - (m + 1) + 1
      OBVIOUS
    <3> QED
      BY <3>2, <3>3
  <2> QED
    BY <2>8, <2>9, FS_Bijection
<1>4. Cardinality(A) = N
  <2>1. 0 \in 0 .. N /\ 0 + 1 = 1 /\ N - 0 = N
    OBVIOUS
  <2> QED
    BY <1>3, <2>1
<1>5. ASSUME NEW j \in 1 .. N
      PROVE  Cardinality(newer(s[j].time)) = N - j
  <2> DEFINE B == newer(s[j].time)
  <2>1. ASSUME NEW x
        PROVE  x \in B <=> \E i \in j + 1 .. N : x = s[i]
    <3>1. ASSUME x \in B
          PROVE  \E i \in j + 1 .. N : x = s[i]
      <4>1. PICK i \in 1 .. N : x = s[i]
        BY <3>1
      <4>2. s[i].time > s[j].time
        BY <3>1, <4>1
      <4>3. i = j \/ i < j \/ i \in j + 1 .. N
        OBVIOUS
      <4>4. s[i].time \in Nat /\ s[j].time \in Nat
        OBVIOUS
      <4>5. ~ (i < j) /\ i # j
        <5>1. i < j => s[i].time < s[j].time
          OBVIOUS
        <5> QED
          BY <4>2, <4>4, <5>1
      <4> QED
        BY <4>1, <4>3, <4>5
    <3>2. ASSUME NEW i \in j + 1 .. N, x = s[i]
          PROVE  x \in B
      <4>1. i \in 1 .. N /\ j < i
        OBVIOUS
      <4>2. s[j].time < s[i].time /\ s[i].time \in Nat /\ s[j].time \in Nat
        BY <4>1
      <4> QED
        BY <1>1, <3>2, <4>1, <4>2
    <3> QED
      BY <3>1, <3>2
  <2>2. j \in 0 .. N
    OBVIOUS
  <2> HIDE DEF B
  <2> QED
    BY <1>3, <2>1, <2>2 DEF B
<1> HIDE DEF newer
<1>6. Newest(A) = [i \in 1 .. N |-> CHOOSE a \in A : Cardinality(newer(a.time)) = i - 1]
  BY <1>4 DEF Newest, newer
<1>7. ASSUME NEW i \in 1 .. N
      PROVE  Newest(A)[i] = s[N + 1 - i] /\ s[N + 1 - i] \in A
  <2>1. N + 1 - i \in 1 .. N /\ N - (N + 1 - i) = i - 1
    OBVIOUS
  <2>2. s[N + 1 - i] \in A /\ Cardinality(newer(s[N + 1 - i].time)) = i - 1
    BY <1>1, <1>5, <2>1
  <2>3. ASSUME NEW a \in A, Cardinality(newer(a.time)) = i - 1
        PROVE  a = s[N + 1 - i]
    <3>1. PICK j \in 1 .. N : a = s[j]
      BY <2>3
    <3>2. N - j = i - 1
      BY <1>5, <2>3, <3>1
    <3>3. j = N + 1 - i
      BY <3>2
    <3> QED
      BY <3>1, <3>3
  <2>4. (CHOOSE a \in A : Cardinality(newer(a.time)) = i - 1) = s[N + 1 - i]
    BY <2>2, <2>3
  <2> QED
    BY <1>6, <2>2, <2>4
<1>8. Newest(A) \in [1 .. N -> A]
  <2>1. DOMAIN Newest(A) = 1 .. N
    BY <1>6
  <2>2. IsFunction(Newest(A))
    BY <1>6 DEF IsFunction
  <2> QED
    BY <1>7, <2>1, <2>2 DEF IsFunction
<1>9. \A f \in [1 .. N -> A] : f \in Seq(A) /\ Len(f) = N /\ DOMAIN f = 1 .. N
  OBVIOUS
<1> QED
  BY <1>7, <1>8, <1>9

\* Archives with names of their own and without wide characters.
Proper(s, N) ==
  /\ \A i \in 1 .. N : s[i] \in Archives /\ Narrow(s[i])
  /\ \A i, j \in 1 .. N : i # j => s[i].name # s[j].name

\* The files of some of them, archive by archive.
FilesOfSome(seqs, s, N, M) ==
  /\ IsFunction(seqs) /\ DOMAIN seqs = 1 .. N
  /\ \A i \in 1 .. N : seqs[i] = IF i \in M THEN SetToSeq(ArchiveFiles(s[i])) ELSE << >>

SoughtInSome(W, s, M, q) == \A x : x \in W <=> \E i \in M : x \in Sought(s[i], q)

\* A search that goes through some archives, one by one.
LEMMA SearchOfSome ==
  ASSUME NEW N \in Nat, NEW s, Proper(s, N), NEW M \in SUBSET (1 .. N),
         NEW seqs, FilesOfSome(seqs, s, N, M), NEW q \in Queries, NEW W, SoughtInSome(W, s, M, q)
  PROVE  UpToLimit(Found(FlattenSeq(seqs), q), W, AtLeastOne(q.limit))
<1>0. /\ \A i \in 1 .. N : s[i] \in Archives /\ Narrow(s[i])
      /\ \A i, j \in 1 .. N : i # j => s[i].name # s[j].name
      /\ IsFunction(seqs) /\ DOMAIN seqs = 1 .. N
      /\ \A i \in 1 .. N : seqs[i] = IF i \in M THEN SetToSeq(ArchiveFiles(s[i])) ELSE << >>
      /\ \A x : x \in W <=> \E i \in M : x \in Sought(s[i], q)
  BY DEF Proper, FilesOfSome, SoughtInSome
<1> DEFINE G == [i \in 1 .. N |-> IF i \in M THEN ArchiveFiles(s[i]) ELSE {}]
           F == {x \in UNION {G[i] : i \in 1 .. N} : TRUE}
<1>1. /\ \A i \in 1 .. N : i \in M => G[i] = ArchiveFiles(s[i])
      /\ \A i \in 1 .. N : i \notin M => G[i] = {}
      /\ \A x : x \in F <=> \E i \in 1 .. N : x \in G[i]
  OBVIOUS
<1> HIDE DEF G, F
<1>2. ASSUME NEW i \in 1 .. N
      PROVE  Lists(seqs[i], G[i])
  <2>1. CASE i \in M
    <3>1. Lists(SetToSeq(ArchiveFiles(s[i])), ArchiveFiles(s[i]))
      BY <1>0, FilesFinite, SetToSeqLists
    <3> QED
      BY <1>0, <1>1, <2>1, <3>1
  <2>2. CASE i \notin M
    <3>1. seqs[i] = << >> /\ G[i] = {}
      BY <1>0, <1>1, <2>2
    <3> QED
      BY <3>1, NothingListed
  <2> QED
    BY <2>1, <2>2
<1>3. \A a : \A x \in ArchiveFiles(a) : x.archive = a.name
  BY DEF ArchiveFiles, CatalogFile
<1>4. \A i, j \in 1 .. N : i # j => G[i] \cap G[j] = {}
  <2> SUFFICES ASSUME NEW i \in 1 .. N, NEW j \in 1 .. N, i # j, NEW x, x \in G[i], x \in G[j]
               PROVE  FALSE
    OBVIOUS
  <2>1. x \in ArchiveFiles(s[i]) /\ x \in ArchiveFiles(s[j])
    BY <1>1
  <2>2. s[i].name = s[j].name
    BY <1>3, <2>1
  <2> QED
    BY <1>0, <2>2
<1>5. Lists(FlattenSeq(seqs), F)
  BY <1>0, <1>1, <1>2, <1>4, FlattenLists
<1>6. ASSUME NEW i \in 1 .. N
      PROVE  /\ Sought(s[i], q) \subseteq ArchiveFiles(s[i])
             /\ \A x \in ArchiveFiles(s[i]) :
                  Matches_query(x.path, x, q) = IF x \in Sought(s[i], q) THEN "yes" ELSE "no"
  <2>1. Alike(q, q)
    BY DEF Alike
  <2> QED
    BY <1>0, <2>1, ArchiveVerdict
<1>7. W \in SUBSET F
  <2> SUFFICES ASSUME NEW x \in W PROVE x \in F
    OBVIOUS
  <2>1. PICK i \in M : x \in Sought(s[i], q)
    BY <1>0
  <2>2. i \in 1 .. N
    OBVIOUS
  <2>3. x \in G[i]
    BY <1>1, <1>6, <2>1, <2>2
  <2> QED
    BY <1>1, <2>2, <2>3
<1>8. ASSUME NEW x \in F
      PROVE  Matches_query(x.path, x, q) = IF x \in W THEN "yes" ELSE "no"
  <2>1. PICK i \in 1 .. N : x \in G[i]
    BY <1>1, <1>8
  <2>2. i \in M /\ x \in ArchiveFiles(s[i])
    BY <1>1, <2>1
  <2>3. x \in W <=> x \in Sought(s[i], q)
    <3>1. ASSUME x \in W
          PROVE  x \in Sought(s[i], q)
      <4>1. PICK j \in M : x \in Sought(s[j], q)
        BY <1>0, <3>1
      <4>2. j \in 1 .. N
        OBVIOUS
      <4>3. x \in ArchiveFiles(s[j])
        BY <1>6, <4>1, <4>2
      <4>4. s[i].name = s[j].name
        BY <1>3, <2>2, <4>3
      <4>5. i = j
        BY <1>0, <4>2, <4>4
      <4> QED
        BY <4>1, <4>5
    <3> QED
      BY <1>0, <2>2, <3>1
  <2> QED
    BY <1>6, <2>2, <2>3
<1>9. Panic \notin F
  <2> SUFFICES ASSUME Panic \in F PROVE FALSE
    OBVIOUS
  <2>1. PICK i \in 1 .. N : Panic \in G[i]
    BY <1>1
  <2> QED
    BY <1>1, <2>1, NoPanic
<1>10. q.limit \in Nat
  BY QueriesAssumption
<1> QED
  BY <1>5, <1>7, <1>8, <1>9, <1>10, SearchIs

\* Two searches for the same, up to the same limit.
LEMMA SameFound ==
  ASSUME NEW found, NEW read, NEW W, NEW limit \in Nat,
         UpToLimit(found, W, AtLeastOne(limit)), UpToLimit(read, W, AtLeastOne(limit))
  PROVE  Len(found) = Len(read) /\ (limit > Len(read) => ToSet(found) = ToSet(read))
<1> DEFINE L == AtLeastOne(limit)
<1>1. L \in Nat /\ limit <= L
  BY DEF AtLeastOne
<1> HIDE DEF L
<1>2. PICK c \in Nat : c = Cardinality(W)
  BY DEF UpToLimit
<1>3. Len(found) = (IF c <= L THEN c ELSE L) /\ Len(read) = (IF c <= L THEN c ELSE L)
  BY <1>2 DEF UpToLimit, L
<1>4. c <= L => ToSet(found) = W /\ ToSet(read) = W
  BY <1>2 DEF UpToLimit, L
<1> QED
  BY <1>1, <1>3, <1>4

\* The catalog holds the archives of the manifest, under names of their own.
Holds(N) ==
  /\ N = Len(repo) /\ N \in Nat /\ DOMAIN repo = 1 .. N
  /\ \A i \in 1 .. N : repo[i] \in Archives /\ Narrow(repo[i]) /\ ExactAt(trees, << >>, 0, repo[i])
  /\ \A i, j \in 1 .. N : i # j => repo[i].name # repo[j].name
  /\ \A i \in 1 .. N : repo[i].time \in Nat
  /\ \A i, j \in 1 .. N : i < j => repo[i].time < repo[j].time
  /\ \A n : n \in DOMAIN trees.archives <=> \E i \in 1 .. N : n = repo[i].name

LEMMA HoldsAll ==
  ASSUME CatalogInv, Ordered, indexed = ToSet(repo), DOMAIN trees.archives = {a.name : a \in indexed}
  PROVE  Holds(Len(repo))
<1> DEFINE N == Len(repo)
<1>1. repo \in Seq(Archives)
  BY DEF CatalogInv, CatalogTypeOK
<1>2. N \in Nat /\ DOMAIN repo = 1 .. N /\ \A i \in 1 .. N : repo[i] \in Archives
  BY <1>1, LenProperties, ElementOfSeq
<1>3. indexed = {repo[i] : i \in 1 .. N}
  BY <1>2 DEF ToSet
<1>4. \A i \in 1 .. N : Narrow(repo[i]) /\ ExactAt(trees, << >>, 0, repo[i])
  BY <1>3, IndexedNow
<1>5. \A i \in 1 .. N : repo[i].time \in Nat /\ repo[i].name \in Seq(Chars)
  BY <1>2, NamesAreKeys DEF Archives
<1>6. \A i, j \in 1 .. N : i < j => repo[i].time < repo[j].time
  BY DEF Ordered
<1>7. ASSUME NEW i \in 1 .. N, NEW j \in 1 .. N, i # j
      PROVE  repo[i].name # repo[j].name
  <2>1. i < j \/ j < i
    BY <1>2, <1>7
  <2>2. \A x, y \in Nat : x < y => x # y
    OBVIOUS
  <2>3. repo[i] # repo[j]
    BY <1>5, <1>6, <2>1, <2>2
  <2>4. ~ Clash(repo[i].name, repo[j].name)
    BY <1>3, <2>3, IndexedNow
  <2> QED
    BY <1>5, <2>4, ClashItself
<1>8. \A n : n \in DOMAIN trees.archives <=> \E i \in 1 .. N : n = repo[i].name
  BY <1>3
<1> QED
  BY <1>2, <1>4, <1>5, <1>6, <1>7, <1>8 DEF Holds

\* The members of A are the first N entries of s, in the order of their times.
InOrder(A, s, N) ==
  /\ \A i \in 1 .. N : s[i].time \in Nat
  /\ \A i, j \in 1 .. N : i < j => s[i].time < s[j].time
  /\ \A x : x \in A <=> \E i \in 1 .. N : x = s[i]

Backwards(newest, A, s, N) ==
  /\ Len(newest) = N /\ DOMAIN newest = 1 .. N /\ newest \in Seq(A)
  /\ \A i \in 1 .. N : newest[i] = s[N + 1 - i]

LEMMA NewestBackwards ==
  ASSUME NEW N \in Nat, NEW s, NEW A, InOrder(A, s, N)
  PROVE  Backwards(Newest(A), A, s, N)
<1>1. /\ \A i \in 1 .. N : s[i].time \in Nat
      /\ \A i, j \in 1 .. N : i < j => s[i].time < s[j].time
      /\ \A x : x \in A <=> \E i \in 1 .. N : x = s[i]
  BY DEF InOrder
<1>2. /\ Len(Newest(A)) = N /\ DOMAIN Newest(A) = 1 .. N /\ Newest(A) \in Seq(A)
      /\ \A i \in 1 .. N : Newest(A)[i] = s[N + 1 - i]
  BY <1>1, NewestIs
<1> QED
  BY <1>2 DEF Backwards

LEMMA SameLists ==
  ASSUME NEW N, Holds(N)
  PROVE  /\ DOMAIN List_archives = 1 .. N
         /\ \A i \in 1 .. N : List_archives[i].name = repo[N + 1 - i].name
         /\ \A i \in 1 .. N : List(N, N)[i] = repo[N + 1 - i]
<1> DEFINE s == [i \in 1 .. N |-> CatalogArchive(repo[i])]
           A == Range(trees.archives)
           R == Range(repo)
<1>1. /\ N = Len(repo) /\ N \in Nat /\ DOMAIN repo = 1 .. N
      /\ \A i \in 1 .. N : repo[i] \in Archives /\ ExactAt(trees, << >>, 0, repo[i])
      /\ \A i \in 1 .. N : repo[i].time \in Nat
      /\ \A i, j \in 1 .. N : i < j => repo[i].time < repo[j].time
      /\ \A n : n \in DOMAIN trees.archives <=> \E i \in 1 .. N : n = repo[i].name
  BY DEF Holds
<1>2. \A i \in 1 .. N : /\ s[i] = CatalogArchive(repo[i])
                        /\ s[i].time = repo[i].time /\ s[i].name = repo[i].name
  BY DEF CatalogArchive
<1>3. \A i \in 1 .. N : trees.archives[repo[i].name] = s[i]
  <2>1. \A t, k, e : Comes(trees, << >>, 0, t, k, e) <=> Has(trees, t, k, e)
    BY ComesFirst
  <2> QED
    BY <1>1, <1>2, <2>1 DEF ExactAt, Has
<1> HIDE DEF s
<1>4. \A x : x \in A <=> \E i \in 1 .. N : x = s[i]
  <2>1. \A x : x \in A <=> \E n \in DOMAIN trees.archives : x = trees.archives[n]
    BY DEF Range
  <2> HIDE DEF A
  <2> QED
    BY <1>1, <1>3, <2>1
<1>5. \A x : x \in R <=> \E i \in 1 .. N : x = repo[i]
  <2>1. \A x : x \in R <=> \E i \in DOMAIN repo : x = repo[i]
    BY DEF Range
  <2> HIDE DEF R
  <2> QED
    BY <1>1, <2>1
<1> HIDE DEF A, R
<1>6. DOMAIN Newest(A) = 1 .. N /\ \A i \in 1 .. N : Newest(A)[i] = s[N + 1 - i]
  <2>1. /\ N \in Nat /\ \A i \in 1 .. N : s[i].time \in Nat
        /\ \A i, j \in 1 .. N : i < j => s[i].time < s[j].time
    BY <1>1, <1>2
  <2>2. InOrder(A, s, N)
    BY <1>4, <2>1 DEF InOrder
  <2>3. N \in Nat
    BY <1>1
  <2>4. Backwards(Newest(A), A, s, N)
    BY ONLY <2>2, <2>3, NewestBackwards
  <2> QED
    BY <2>4 DEF Backwards
<1>7. Len(Newest(R)) = N /\ Newest(R) \in Seq(R) /\ \A i \in 1 .. N : Newest(R)[i] = repo[N + 1 - i]
  <2>1. InOrder(R, repo, N)
    BY <1>1, <1>5 DEF InOrder
  <2>2. N \in Nat
    BY <1>1
  <2>3. Backwards(Newest(R), R, repo, N)
    BY ONLY <2>1, <2>2, NewestBackwards
  <2> QED
    BY <2>3 DEF Backwards
<1>8. \A i \in 1 .. N : N + 1 - i \in 1 .. N
  BY <1>1
<1>9. List(N, N) = Newest(R)
  <2>1. Min({N, N}) = N
    BY <1>1 DEF Min
  <2>2. SubSeq(Newest(R), 1, N) = Newest(R)
    BY <1>7, SubSeqFull
  <2>3. ~ (N < N)
    BY <1>1
  <2>4. Newest(Range(repo)) = Newest(R)
    BY DEF R
  <2> QED
    BY <1>7, <2>1, <2>2, <2>3, <2>4 DEF List
<1>10. List_archives = Newest(A)
  BY DEF List_archives, A
<1>11. \A i \in 1 .. N : List_archives[i].name = repo[N + 1 - i].name
  BY <1>2, <1>6, <1>8, <1>10
<1>12. \A i \in 1 .. N : List(N, N)[i] = repo[N + 1 - i]
  BY <1>7, <1>9
<1>13. DOMAIN List_archives = 1 .. N
  BY <1>6, <1>10
<1> QED
  BY <1>11, <1>12, <1>13

LEMMA SearchArchivesIs ==
  ASSUME NEW N, Holds(N), NEW q \in Queries,
         NEW W, \A x : x \in W <=> \E i \in 1 .. N : q.archive \in {Anywhere, repo[i].name} /\ x \in Sought(repo[i], q)
  PROVE  UpToLimit(Search_archives(q), W, AtLeastOne(q.limit))
<1> DEFINE filesOf(archive) == SetToSeq({CatalogFile(archive, p) : p \in DOMAIN archive.items})
           searched(i) == q.archive \in {Anywhere, repo[i].name}
           seqs == [i \in DOMAIN repo |-> IF searched(i) THEN filesOf(Load_archive(repo[i].name)) ELSE << >>]
           M == {i \in 1 .. N : searched(i)}
<1>1. /\ N \in Nat /\ DOMAIN repo = 1 .. N
      /\ \A i \in 1 .. N : repo[i] \in Archives /\ Narrow(repo[i])
      /\ \A i, j \in 1 .. N : i # j => repo[i].name # repo[j].name
  BY DEF Holds
<1>2. Search_archives(q) = Found(FlattenSeq(seqs), q)
  BY DEF Search_archives
<1>3. \A i \in 1 .. N : Load_archive(repo[i].name) = repo[i]
  <2> SUFFICES ASSUME NEW i \in 1 .. N PROVE Load_archive(repo[i].name) = repo[i]
    OBVIOUS
  <2>1. {j \in DOMAIN repo : repo[j].name = repo[i].name} = {i}
    BY <1>1
  <2>2. Min({i}) = i
    BY DEF Min
  <2> QED
    BY <2>1, <2>2 DEF Load_archive
<1>4. FilesOfSome(seqs, repo, N, M)
  <2>1. IsFunction(seqs) /\ DOMAIN seqs = 1 .. N
    BY <1>1 DEF IsFunction
  <2>2. \A i \in 1 .. N : filesOf(Load_archive(repo[i].name)) = SetToSeq(ArchiveFiles(repo[i]))
    BY <1>3 DEF ArchiveFiles
  <2>3. \A i \in 1 .. N : seqs[i] = IF searched(i) THEN filesOf(Load_archive(repo[i].name)) ELSE << >>
    BY <1>1
  <2>4. \A i \in 1 .. N : i \in M <=> searched(i)
    OBVIOUS
  <2> HIDE DEF filesOf, searched, M, seqs
  <2>5. \A i \in 1 .. N : seqs[i] = IF i \in M THEN SetToSeq(ArchiveFiles(repo[i])) ELSE << >>
    BY <2>2, <2>3, <2>4
  <2> QED
    BY <2>1, <2>5 DEF FilesOfSome
<1>5. M \in SUBSET (1 .. N) /\ SoughtInSome(W, repo, M, q)
  BY DEF SoughtInSome
<1>6. Proper(repo, N)
  BY <1>1 DEF Proper
<1> HIDE DEF seqs, M
<1> QED
  BY <1>1, <1>2, <1>4, <1>5, <1>6, SearchOfSome

LEMMA SearchAllIs ==
  ASSUME NEW N, Holds(N), NEW q \in Queries, q.archive = Anywhere,
         NEW W, \A x : x \in W <=> \E i \in 1 .. N : x \in Sought(repo[i], q)
  PROVE  UpToLimit(Search_files(q), W, AtLeastOne(q.limit))
<1> DEFINE listed == [i \in DOMAIN List_archives |-> List_archives[i].name]
           seqs == [i \in DOMAIN listed |-> SetToSeq(FilesOf(listed[i]))]
           s == [i \in 1 .. N |-> repo[N + 1 - i]]
           M == 1 .. N
<1>1. /\ N \in Nat
      /\ \A i \in 1 .. N : repo[i] \in Archives /\ Narrow(repo[i]) /\ ExactAt(trees, << >>, 0, repo[i])
      /\ \A i, j \in 1 .. N : i # j => repo[i].name # repo[j].name
  BY DEF Holds
<1>2. /\ \A i \in 1 .. N : s[i] = repo[N + 1 - i] /\ N + 1 - i \in 1 .. N
      /\ \A i \in 1 .. N : N + 1 - i \in 1 .. N /\ s[N + 1 - i] = repo[i]
      /\ \A i, j \in 1 .. N : i # j => N + 1 - i # N + 1 - j
  <2>1. \A i \in 1 .. N : N + 1 - i \in 1 .. N /\ N + 1 - (N + 1 - i) = i
    BY <1>1
  <2>2. \A i, j \in 1 .. N : i # j => N + 1 - i # N + 1 - j
    BY <1>1
  <2> QED
    BY <2>1, <2>2
<1> HIDE DEF s
<1>3. Search_files(q) = Found(FlattenSeq(seqs), q)
  BY DEF Search_files
<1>4. DOMAIN listed = 1 .. N /\ \A i \in 1 .. N : listed[i] = s[i].name
  <2>1. DOMAIN List_archives = 1 .. N /\ \A i \in 1 .. N : List_archives[i].name = repo[N + 1 - i].name
    BY SameLists
  <2> QED
    BY <1>2, <2>1
<1> HIDE DEF listed
<1>5. FilesOfSome(seqs, s, N, M)
  <2>1. \A i \in 1 .. N : FilesOf(s[i].name) = ArchiveFiles(s[i])
    <3>1. \A i \in 1 .. N : s[i] \in Archives /\ ExactAt(trees, << >>, 0, s[i])
      BY <1>1, <1>2
    <3> QED
      BY <3>1, FilesOfIndexed DEF ArchiveFiles
  <2>2. IsFunction(seqs) /\ DOMAIN seqs = 1 .. N
    BY <1>4 DEF IsFunction
  <2>3. \A i \in 1 .. N : seqs[i] = SetToSeq(ArchiveFiles(s[i]))
    BY <1>4, <2>1
  <2> HIDE DEF seqs
  <2> QED
    BY <2>2, <2>3 DEF FilesOfSome
<1> HIDE DEF seqs
<1>6. Proper(s, N)
  <2>1. \A i \in 1 .. N : s[i] \in Archives /\ Narrow(s[i])
    BY <1>1, <1>2
  <2>2. ASSUME NEW i \in 1 .. N, NEW j \in 1 .. N, i # j
        PROVE  s[i].name # s[j].name
    <3>1. /\ s[i] = repo[N + 1 - i] /\ s[j] = repo[N + 1 - j]
          /\ N + 1 - i \in 1 .. N /\ N + 1 - j \in 1 .. N
          /\ N + 1 - i # N + 1 - j
      BY <1>2, <2>2
    <3> QED
      BY <1>1, <3>1
  <2> QED
    BY <2>1, <2>2 DEF Proper
<1>7. M \in SUBSET (1 .. N) /\ SoughtInSome(W, s, M, q)
  BY <1>2 DEF SoughtInSome
<1> HIDE DEF M
<1> QED
  BY <1>1, <1>3, <1>5, <1>6, <1>7, SearchOfSome

\* When the catalog has all archives and no others, under names of their own, the
\* catalog and the commands, which go through the archives, say the same of all
\* archives or of one of them.
THEOREM CatalogCommandsAgree == CatalogSpec => []CommandsAgree
<1>1. CatalogInv /\ Ordered => CommandsAgree
  <2> SUFFICES ASSUME CatalogInv, Ordered, indexed = ToSet(repo),
                      DOMAIN trees.archives = {a.name : a \in indexed}
               PROVE  /\ \A q \in {q \in Queries : q.archive \in {Anywhere} \cup DOMAIN trees.archives} :
                           LET found == Search_files(q)  read == Search_archives(q)
                           IN  Len(found) = Len(read) /\ (q.limit > Len(read) => ToSet(found) = ToSet(read))
                      /\ [i \in DOMAIN List_archives |-> List_archives[i].name]
                           = [i \in DOMAIN repo |-> List(Len(repo), Len(repo))[i].name]
    BY DEF CommandsAgree
  <2> DEFINE N == Len(repo)
  <2>1. Holds(N)
    BY HoldsAll
  <2>2. /\ N \in Nat /\ DOMAIN repo = 1 .. N
        /\ \A i \in 1 .. N : repo[i] \in Archives /\ Narrow(repo[i]) /\ ExactAt(trees, << >>, 0, repo[i])
        /\ \A i, j \in 1 .. N : i # j => repo[i].name # repo[j].name
        /\ \A n : n \in DOMAIN trees.archives <=> \E i \in 1 .. N : n = repo[i].name
    BY <2>1 DEF Holds
  <2>3. [i \in DOMAIN List_archives |-> List_archives[i].name]
          = [i \in DOMAIN repo |-> List(N, N)[i].name]
    <3>1. /\ DOMAIN List_archives = 1 .. N
          /\ \A i \in 1 .. N : List_archives[i].name = repo[N + 1 - i].name
          /\ \A i \in 1 .. N : List(N, N)[i] = repo[N + 1 - i]
      BY <2>1, SameLists
    <3> HIDE DEF N
    <3> QED
      BY <2>2, <3>1
  <2>4. ASSUME NEW q \in Queries, q.archive \in {Anywhere} \cup DOMAIN trees.archives
        PROVE  /\ Len(Search_files(q)) = Len(Search_archives(q))
               /\ q.limit > Len(Search_archives(q)) => ToSet(Search_files(q)) = ToSet(Search_archives(q))
    <3> DEFINE W == {x \in UNION {Sought(repo[i], q) : i \in 1 .. N} :
                       \E i \in 1 .. N : q.archive \in {Anywhere, repo[i].name} /\ x \in Sought(repo[i], q)}
               L == AtLeastOne(q.limit)
    <3>1. \A x : x \in W <=> \E i \in 1 .. N : q.archive \in {Anywhere, repo[i].name} /\ x \in Sought(repo[i], q)
      OBVIOUS
    <3> HIDE DEF W, N
    <3>2. UpToLimit(Search_archives(q), W, L)
      BY <2>1, <3>1, SearchArchivesIs
    <3>3. UpToLimit(Search_files(q), W, L)
      <4>1. CASE q.archive = Anywhere
        <5>1. \A x : x \in W <=> \E i \in 1 .. N : x \in Sought(repo[i], q)
          BY <3>1, <4>1
        <5> QED
          BY <2>1, <4>1, <5>1, SearchAllIs
      <4>2. CASE q.archive # Anywhere
        <5>1. PICK k \in 1 .. N : q.archive = repo[k].name
          BY <2>2, <2>4, <4>2
        <5>2. \A i \in 1 .. N : q.archive \in {Anywhere, repo[i].name} <=> i = k
          BY <2>2, <4>2, <5>1
        <5>3. \A x : x \in W <=> x \in Sought(repo[k], q)
          BY <3>1, <5>2
        <5>4. W = Sought(repo[k], q)
          <6> DEFINE V == Sought(repo[k], q)
          <6> HIDE DEF V
          <6>1. \A x : x \in W <=> x \in V
            BY <5>3 DEF V
          <6>2. W = V
            BY <6>1
          <6> QED
            BY <6>2 DEF V
        <5>5. Alike(q, q)
          BY DEF Alike
        <5>6. UpToLimit(Search_files(q), Sought(repo[k], q), L)
          BY <2>2, <5>1, <5>5, SearchOfOne
        <5> QED
          BY <5>4, <5>6
      <4> QED
        BY <4>1, <4>2
    <3>4. q.limit \in Nat
      BY QueriesAssumption
    <3> QED
      BY <3>2, <3>3, <3>4, SameFound
  <2> QED
    BY <2>3, <2>4
<1> QED
  BY <1>1, CatalogAlways, OrderedAlways, PTL

===============================================================================
