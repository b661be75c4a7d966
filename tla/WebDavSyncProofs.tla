---------------------------- MODULE WebDavSyncProofs ----------------------------
(***************************************************************************)
(* Proofs about WebDavSync, for any tree, servers, bodies and bounds: that *)
(* whatever reads a body came in, its chunks are those it is cut into at   *)
(* one go, and that a quiet round makes the copy level with the server.    *)
(***************************************************************************)
EXTENDS WebDavSync, FiniteSetTheorems, SequenceTheorems, WellFoundedInduction, TLAPS

-------------------------------------------------------------------------------
(***************************************************************************)
(* Chunks                                                                  *)
(***************************************************************************)

LEMMA LeastNumber ==
  ASSUME NEW S \in SUBSET Nat, S # {}
  PROVE  \E n \in S : \A m \in S : n <= m
<1>1. PICK n \in S : \A m \in S : ~ (<<m, n>> \in OpToRel(<, Nat))
  BY WFMin, NatLessThanWellFounded
<1>2. \A m \in S : ~ (m < n)
  BY <1>1 DEF OpToRel
<1> QED
  BY <1>2

Longest(data) == Least(MaxSize, Len(data))
Ends(data) ==
  {n \in MinSize .. Longest(data) : Body[data[n][1]][data[n][2]]} \cup {Longest(data)}

LEMMA CutIsLeast ==
  ASSUME NEW data, Len(data) \in Nat \ {0}
  PROVE  /\ Longest(data) \in 1 .. Len(data)
         /\ Ends(data) \subseteq 1 .. Len(data)
         /\ Cut(data) \in Ends(data)
         /\ Cut(data) \in 1 .. Len(data)
         /\ \A m \in Ends(data) : Cut(data) <= m
<1>1. MinSize \in Nat /\ MaxSize \in Nat /\ 0 < MinSize /\ 0 < MaxSize
  BY SizesAssumption
<1>2. Longest(data) \in 1 .. Len(data)
  BY <1>1 DEF Longest, Least
<1>3. Ends(data) \subseteq 1 .. Len(data) /\ Ends(data) # {}
  BY <1>1, <1>2 DEF Ends
<1>4. \E n \in Ends(data) : \A m \in Ends(data) : n <= m
  <2>1. Ends(data) \in SUBSET Nat
    BY <1>3
  <2> QED
    BY <1>3, <2>1, LeastNumber
<1>5. Cut(data) = CHOOSE n \in Ends(data) : \A m \in Ends(data) : n <= m
  BY DEF Cut, Ends, Longest
<1>6. Cut(data) \in Ends(data) /\ \A m \in Ends(data) : Cut(data) <= m
  BY <1>4, <1>5
<1> QED
  BY <1>2, <1>3, <1>6

\* The chunks of the data but its first n pieces, given those of shorter rests.
ChunkStep(data, g, n) ==
  IF n = Len(data) THEN << >>
  ELSE LET rest == SubSeq(data, n + 1, Len(data))
       IN  <<SubSeq(rest, 1, Cut(rest))>> \o g[n + Cut(rest)]

ChunksFrom(data, g, k) == \A n \in k .. Len(data) : g[n] = ChunkStep(data, g, n)

LEMMA RestIs ==
  ASSUME NEW S, NEW data \in Seq(S), NEW n \in Nat, n < Len(data)
  PROVE  LET rest == SubSeq(data, n + 1, Len(data))
         IN  /\ rest \in Seq(S) /\ Len(rest) = Len(data) - n /\ Len(rest) \in Nat \ {0}
             /\ Cut(rest) \in 1 .. Len(data) - n
             /\ SubSeq(rest, 1, Cut(rest)) \in Seq(S)
             /\ SubSeq(rest, 1, Cut(rest)) = SubSeq(data, n + 1, n + Cut(rest))
<1> DEFINE L == Len(data)
           rest == SubSeq(data, n + 1, L)
           e == Cut(rest)
<1>1. L \in Nat /\ n + 1 \in 1 .. L /\ \A i \in 1 .. L : data[i] \in S
  BY LenProperties, ElementOfSeq
<1>2. rest \in Seq(S) /\ Len(rest) = L - n
  <2>1. n + 1 \in Int /\ L \in Int /\ n + 1 <= L /\ L - (n + 1) + 1 = L - n
    BY <1>1
  <2>2. \A i \in n + 1 .. L : data[i] \in S
    BY <1>1
  <2> HIDE DEF L
  <2> QED
    BY <2>1, <2>2, SubSeqProperties
<1>3. Len(rest) \in Nat \ {0}
  <2>1. L - n \in Nat \ {0}
    BY <1>1
  <2> HIDE DEF rest, L
  <2> QED
    BY <1>2, <2>1
<1>4. e \in 1 .. L - n
  BY <1>2, <1>3, CutIsLeast
<1>5. SubSeq(rest, 1, e) = SubSeq(data, n + 1, n + e)
  <2>1. 1 \in 1 .. L - (n + 1) + 1 /\ e \in 1 .. L - (n + 1) + 1 /\ L \in 1 .. L
    BY <1>1, <1>4
  <2>2. SubSeq(rest, 1, e) = SubSeq(data, n + 1 + 1 - 1, n + 1 + e - 1)
    BY <1>1, <2>1, SubSeqOfSubSeq
  <2> QED
    BY <1>1, <1>4, <2>2
<1>6. SubSeq(rest, 1, e) \in Seq(S)
  <2>1. \A i \in 1 .. e : rest[i] \in S
    BY <1>2, <1>3, <1>4, ElementOfSeq
  <2> QED
    BY <1>4, <2>1, SubSeqProperties
<1> QED
  BY <1>2, <1>3, <1>4, <1>5, <1>6

LEMMA ChunksExist ==
  ASSUME NEW S, NEW data \in Seq(S)
  PROVE  \E g \in [0 .. Len(data) -> Seq(Seq(S))] : ChunksFrom(data, g, 0)
<1> DEFINE L == Len(data)
           from == {k \in 0 .. L : \E g \in [k .. L -> Seq(Seq(S))] : ChunksFrom(data, g, k)}
<1>1. L \in Nat
  BY LenProperties
<1>2. L \in from
  <2>1. [n \in L .. L |-> << >>] \in [L .. L -> Seq(Seq(S))]
    BY EmptySeq
  <2>2. ChunksFrom(data, [n \in L .. L |-> << >>], L)
    BY <1>1 DEF ChunksFrom, ChunkStep
  <2>3. \E g \in [L .. L -> Seq(Seq(S))] : ChunksFrom(data, g, L)
    BY <2>1, <2>2
  <2> QED
    BY <1>1, <2>3
<1>3. ASSUME NEW k \in from, k # 0
      PROVE  k - 1 \in from
  <2>1. PICK g \in [k .. L -> Seq(Seq(S))] : ChunksFrom(data, g, k)
    OBVIOUS
  <2> DEFINE m == k - 1
             rest == SubSeq(data, m + 1, L)
             c == <<SubSeq(rest, 1, Cut(rest))>> \o g[m + Cut(rest)]
             h == [n \in m .. L |-> IF n = m THEN c ELSE g[n]]
  <2>2. m \in Nat /\ m < L /\ k \in 1 .. L
    <3>1. k \in 0 .. L
      OBVIOUS
    <3> QED
      BY <1>1, <1>3, <3>1
  <2>3. Cut(rest) \in 1 .. L - m /\ SubSeq(rest, 1, Cut(rest)) \in Seq(S)
    BY <2>2, RestIs
  <2>4. m + Cut(rest) \in k .. L
    BY <1>1, <2>2, <2>3
  <2>5. c \in Seq(Seq(S))
    <3>1. <<SubSeq(rest, 1, Cut(rest))>> \in Seq(Seq(S))
      BY <2>3
    <3>2. g[m + Cut(rest)] \in Seq(Seq(S))
      BY <2>4
    <3> QED
      BY <3>1, <3>2, ConcatProperties
  <2>6. h \in [m .. L -> Seq(Seq(S))]
    <3>1. \A n \in m .. L : n # m => n \in k .. L
      BY <1>1, <2>2
    <3> HIDE DEF c
    <3> QED
      BY <2>5, <3>1
  <2>7. \A n \in k .. L : h[n] = g[n]
    BY <1>1, <2>2
  <2>8. ASSUME NEW n \in m .. L
        PROVE  h[n] = ChunkStep(data, h, n)
    <3>1. CASE n = m
      <4>1. h[n] = c /\ h[m + Cut(rest)] = g[m + Cut(rest)]
        BY <1>1, <2>4, <2>7, <3>1
      <4>2. n # L
        BY <2>2, <3>1
      <4> HIDE DEF h, m
      <4> QED
        BY <3>1, <4>1, <4>2 DEF ChunkStep
    <3>2. CASE n # m /\ n = L
      <4>1. n \in k .. L
        BY <1>1, <2>2, <3>2
      <4>2. h[n] = g[n] /\ g[n] = << >>
        BY <2>1, <2>7, <3>2, <4>1 DEF ChunksFrom, ChunkStep
      <4> QED
        BY <3>2, <4>2 DEF ChunkStep
    <3>3. CASE n # m /\ n # L
      <4> DEFINE r == SubSeq(data, n + 1, L)
      <4>1. n \in k .. L /\ n \in Nat /\ n < L
        BY <1>1, <2>2, <3>3
      <4>2. Cut(r) \in 1 .. L - n
        BY <4>1, RestIs
      <4>3. n + Cut(r) \in k .. L
        BY <1>1, <2>2, <4>1, <4>2
      <4>4. h[n + Cut(r)] = g[n + Cut(r)] /\ h[n] = g[n]
        BY <2>7, <4>1, <4>3
      <4>5. g[n] = <<SubSeq(r, 1, Cut(r))>> \o g[n + Cut(r)]
        BY <2>1, <3>3, <4>1 DEF ChunksFrom, ChunkStep
      <4> HIDE DEF h
      <4> QED
        BY <3>3, <4>4, <4>5 DEF ChunkStep
    <3> QED
      BY <3>1, <3>2, <3>3
  <2>9. ChunksFrom(data, h, m)
    BY <2>8 DEF ChunksFrom
  <2>10. \E f \in [m .. L -> Seq(Seq(S))] : ChunksFrom(data, f, m)
    BY <2>6, <2>9
  <2>11. m \in 0 .. L
    BY <1>1, <2>2
  <2> HIDE DEF h
  <2> QED
    BY <2>10, <2>11
<1>4. 0 \in from
  <2>1. from \in SUBSET Nat /\ from # {}
    <3>1. from \subseteq 0 .. L
      OBVIOUS
    <3> HIDE DEF from
    <3> QED
      BY <1>1, <1>2, <3>1
  <2> HIDE DEF from
  <2>2. PICK k \in from : \A m \in from : k <= m
    BY <2>1, LeastNumber
  <2>3. k = 0
    <3>1. k # 0 => k - 1 \in from /\ k \in Nat
      BY <1>3, <2>1
    <3> QED
      BY <2>2, <3>1
  <2> QED
    BY <2>2, <2>3
<1> QED
  BY <1>4

\* The chunks of a rest of the data are those of the data from there on.
LEMMA SolutionsOfRest ==
  ASSUME NEW S, NEW data \in Seq(S), NEW b \in 0 .. Len(data),
         NEW g, NEW h,
         ChunksFrom(data, g, 0), ChunksFrom(SubSeq(data, b + 1, Len(data)), h, 0)
  PROVE  \A n \in 0 .. Len(data) - b : h[n] = g[b + n]
<1> DEFINE L == Len(data)
           rest == SubSeq(data, b + 1, L)
           R == L - b
           bad == {n \in 0 .. R : h[n] # g[b + n]}
           left == {R - n : n \in bad}
<1>1. L \in Nat /\ R \in Nat /\ b + R = L /\ \A i \in 1 .. L : data[i] \in S
  BY LenProperties, ElementOfSeq
<1>2. Len(rest) = R /\ rest \in Seq(S)
  <2>1. b + 1 \in Int /\ L \in Int /\ (IF b + 1 <= L THEN L - (b + 1) + 1 ELSE 0) = R
    <3>1. b \in Nat /\ b <= L
      OBVIOUS
    <3> HIDE DEF L
    <3> QED
      BY <1>1, <3>1
  <2>2. \A i \in b + 1 .. L : data[i] \in S
    BY <1>1
  <2> HIDE DEF L, R
  <2> QED
    BY <2>1, <2>2, SubSeqProperties DEF L
<1>3. ASSUME NEW n \in 0 .. R, \A m \in 0 .. R : n < m => h[m] = g[b + m]
      PROVE  h[n] = g[b + n]
  <2>1. CASE n = R
    <3>1. h[n] = << >>
      BY <1>2, <2>1 DEF ChunksFrom, ChunkStep
    <3>2. b + n = L /\ L \in 0 .. L
      BY <1>1, <2>1
    <3>3. g[L] = << >>
      BY <3>2 DEF ChunksFrom, ChunkStep
    <3> QED
      BY <3>1, <3>2, <3>3
  <2>2. CASE n # R
    <3> DEFINE r == SubSeq(data, b + n + 1, L)
    <3>1. n \in Nat /\ n < R /\ b + n \in 0 .. L /\ b + n < L /\ b + n \in Nat
      <4>1. b \in Nat
        OBVIOUS
      <4> HIDE DEF L
      <4> QED
        BY <1>1, <2>2, <4>1
    <3>2. SubSeq(rest, n + 1, R) = r
      <4>1. b + 1 \in 1 .. L /\ L \in 1 .. L /\ n + 1 \in 1 .. L - (b + 1) + 1 /\ R \in 1 .. L - (b + 1) + 1
        BY <1>1, <3>1
      <4>2. SubSeq(SubSeq(data, b + 1, L), n + 1, R) = SubSeq(data, b + 1 + (n + 1) - 1, b + 1 + R - 1)
        BY <4>1, SubSeqOfSubSeq
      <4>3. b + 1 + (n + 1) - 1 = b + n + 1 /\ b + 1 + R - 1 = L
        BY <1>1, <3>1
      <4> QED
        BY <4>2, <4>3
    <3>3. Cut(r) \in 1 .. L - (b + n)
      BY <3>1, RestIs
    <3>4. n + Cut(r) \in 0 .. R /\ n < n + Cut(r) /\ b + (n + Cut(r)) = b + n + Cut(r)
      BY <1>1, <3>1, <3>3
    <3>5. h[n] = <<SubSeq(r, 1, Cut(r))>> \o h[n + Cut(r)]
      <4>1. n \in 0 .. Len(rest) /\ n # Len(rest)
        BY <1>2, <2>2
      <4> QED
        BY <1>2, <3>2, <4>1 DEF ChunksFrom, ChunkStep
    <3>6. g[b + n] = <<SubSeq(r, 1, Cut(r))>> \o g[b + n + Cut(r)]
      <4> DEFINE k == b + n
      <4>1. k \in 0 .. Len(data) /\ k # Len(data)
        BY <3>1
      <4>2. g[k] = ChunkStep(data, g, k)
        <5> HIDE DEF k
        <5> QED
          BY <4>1 DEF ChunksFrom
      <4> QED
        BY <4>1, <4>2 DEF ChunkStep
    <3>7. h[n + Cut(r)] = g[b + (n + Cut(r))]
      <4> HIDE DEF r, R
      <4> QED
        BY <1>3, <3>4
    <3> QED
      BY <3>4, <3>5, <3>6, <3>7
  <2> QED
    BY <2>1, <2>2
<1>4. bad = {}
  <2> SUFFICES ASSUME bad # {}
               PROVE  FALSE
    OBVIOUS
  <2>1. left \in SUBSET Nat /\ left # {}
    BY <1>1
  <2>2. PICK k \in left : \A j \in left : k <= j
    <3> HIDE DEF left
    <3> QED
      BY <2>1, LeastNumber
  <2>3. PICK n \in bad : k = R - n
    OBVIOUS
  <2>4. ASSUME NEW m \in 0 .. R, n < m
        PROVE  h[m] = g[b + m]
    <3> SUFFICES ASSUME m \in bad
                 PROVE  FALSE
      OBVIOUS
    <3>1. R - n <= R - m
      BY <2>2, <2>3
    <3>2. n \in Nat /\ m \in Nat
      OBVIOUS
    <3> QED
      BY <1>1, <2>4, <3>1, <3>2
  <2> QED
    BY <1>3, <2>3, <2>4
<1> QED
  BY <1>4

LEMMA SolutionsAgree ==
  ASSUME NEW S, NEW data \in Seq(S), NEW g, ChunksFrom(data, g, 0), NEW h, ChunksFrom(data, h, 0)
  PROVE  \A n \in 0 .. Len(data) : h[n] = g[n]
<1>1. Len(data) \in Nat
  BY LenProperties
<1>2. ChunksFrom(SubSeq(data, 0 + 1, Len(data)), h, 0) /\ 0 \in 0 .. Len(data)
  <2> DEFINE whole == SubSeq(data, 0 + 1, Len(data))
  <2>1. whole = data
    BY SubSeqFull
  <2> HIDE DEF whole
  <2>2. ChunksFrom(whole, h, 0)
    BY <2>1
  <2> QED
    BY <1>1, <2>2 DEF whole
<1>3. \A n \in 0 .. Len(data) - 0 : h[n] = g[0 + n]
  BY <1>2, SolutionsOfRest
<1>4. \A n \in 0 .. Len(data) : 0 + n = n /\ n \in 0 .. Len(data) - 0
  BY <1>1
<1> QED
  BY <1>3, <1>4

\* What Chunk_data computes: there are functions as it defines one.
LEMMA ChunkDataIs ==
  ASSUME NEW S, NEW data \in Seq(S)
  PROVE  \E g \in [0 .. Len(data) -> Seq(Seq(S))] :
           ChunksFrom(data, g, 0) /\ Chunk_data(data) = g[0]
<1> DEFINE L == Len(data)
           Is(f) == f = [n \in 0 .. L |->
                           IF n = Len(data) THEN << >>
                           ELSE LET rest == SubSeq(data, n + 1, Len(data))
                                    end == Cut(rest)
                                IN  <<SubSeq(rest, 1, end)>> \o f[n + end]]
           g == CHOOSE f : Is(f)
<1>1. PICK h \in [0 .. L -> Seq(Seq(S))] : ChunksFrom(data, h, 0)
  BY ChunksExist
<1>2. Is(h)
  BY <1>1 DEF ChunksFrom, ChunkStep
<1>3. Is(g)
  <2> HIDE DEF Is
  <2> QED
    BY <1>2
<1>4. Chunk_data(data) = g[0]
  BY DEF Chunk_data
<1>5. ChunksFrom(data, g, 0) /\ DOMAIN g = 0 .. L
  <2> HIDE DEF g
  <2> QED
    BY <1>3 DEF ChunksFrom, ChunkStep
<1> HIDE DEF g
<1>6. \A n \in 0 .. L : g[n] = h[n]
  BY <1>1, <1>5, SolutionsAgree
<1>7. g \in [0 .. L -> Seq(Seq(S))]
  <2>1. g = [n \in 0 .. L |-> g[n]]
    BY <1>3
  <2> QED
    BY <1>1, <1>6, <2>1
<1> QED
  BY <1>4, <1>5, <1>7

LEMMA PartIs ==
  ASSUME NEW S, NEW s \in Seq(S), NEW n \in Nat, NEW m \in n .. Len(s)
  PROVE  /\ SubSeq(s, n + 1, m) \in Seq(S)
         /\ Len(SubSeq(s, n + 1, m)) = m - n
         /\ m - n \in Nat
         /\ \A i \in 1 .. m - n : SubSeq(s, n + 1, m)[i] = s[n + i]
         /\ n = m => SubSeq(s, n + 1, m) = << >>
<1>1. /\ Len(s) \in Nat /\ \A i \in 1 .. Len(s) : s[i] \in S
      /\ m \in Nat /\ n <= m /\ m <= Len(s)
  BY LenProperties, ElementOfSeq
<1>2. \A i \in n + 1 .. m : s[i] \in S
  BY <1>1
<1>3. n + 1 \in Int /\ m \in Int
  BY <1>1
<1>4. /\ SubSeq(s, n + 1, m) \in Seq(S)
      /\ Len(SubSeq(s, n + 1, m)) = IF n + 1 <= m THEN m - (n + 1) + 1 ELSE 0
      /\ \A i \in 1 .. m - (n + 1) + 1 : SubSeq(s, n + 1, m)[i] = s[n + 1 + i - 1]
  BY <1>2, <1>3, SubSeqProperties
<1>5. (IF n + 1 <= m THEN m - (n + 1) + 1 ELSE 0) = m - n /\ m - (n + 1) + 1 = m - n
  BY <1>1
<1>6. \A i \in 1 .. m - n : n + 1 + i - 1 = n + i
  BY <1>1
<1>7. n = m => SubSeq(s, n + 1, m) = << >>
  <2>1. m < m + 1 /\ m + 1 \in Int
    BY <1>1
  <2> QED
    BY <1>1, <2>1, SubSeqEmpty
<1> QED
  BY <1>1, <1>4, <1>5, <1>6, <1>7

LEMMA PartOfPart ==
  ASSUME NEW S, NEW s \in Seq(S), NEW n \in Nat, NEW m \in n .. Len(s),
         NEW j \in Nat, NEW k \in j .. m - n
  PROVE  SubSeq(SubSeq(s, n + 1, m), j + 1, k) = SubSeq(s, n + j + 1, n + k)
<1> DEFINE t == SubSeq(s, n + 1, m)
<1>1. /\ Len(s) \in Nat /\ m \in Nat /\ n <= m /\ m <= Len(s)
      /\ k \in Nat /\ j <= k /\ k <= m - n
  BY LenProperties
<1>2. t \in Seq(S) /\ Len(t) = m - n /\ \A i \in 1 .. m - n : t[i] = s[n + i]
  BY PartIs
<1> HIDE DEF t
<1>3. k \in j .. Len(t) /\ n + j \in Nat /\ n + k \in n + j .. Len(s)
  BY <1>1, <1>2
<1>4. /\ SubSeq(t, j + 1, k) \in Seq(S) /\ Len(SubSeq(t, j + 1, k)) = k - j
      /\ \A i \in 1 .. k - j : SubSeq(t, j + 1, k)[i] = t[j + i]
  BY <1>2, <1>3, PartIs
<1>5. /\ SubSeq(s, n + j + 1, n + k) \in Seq(S)
      /\ Len(SubSeq(s, n + j + 1, n + k)) = (n + k) - (n + j)
      /\ \A i \in 1 .. (n + k) - (n + j) : SubSeq(s, n + j + 1, n + k)[i] = s[n + j + i]
  BY <1>3, PartIs
<1>6. (n + k) - (n + j) = k - j /\ k - j \in Nat
  BY <1>1
<1>7. \A i \in 1 .. k - j : j + i \in 1 .. m - n /\ n + (j + i) = n + j + i
  BY <1>1
<1>8. \A i \in 1 .. k - j : SubSeq(t, j + 1, k)[i] = SubSeq(s, n + j + 1, n + k)[i]
  BY <1>2, <1>4, <1>5, <1>6, <1>7
<1>9. SubSeq(t, j + 1, k) = SubSeq(s, n + j + 1, n + k)
  BY <1>4, <1>5, <1>6, <1>8, SeqEqual
<1> QED
  BY <1>9 DEF t

\* Data is cut where its first chunk ends, and then as the rest is.
LEMMA ChunksUnfold ==
  ASSUME NEW S, NEW data \in Seq(S)
  PROVE  /\ Chunk_data(data) \in Seq(Seq(S))
         /\ Len(data) = 0 => Chunk_data(data) = << >>
         /\ Len(data) # 0 =>
              Chunk_data(data) = <<SubSeq(data, 1, Cut(data))>>
                                   \o Chunk_data(SubSeq(data, Cut(data) + 1, Len(data)))
<1>1. PICK g : /\ g \in [0 .. Len(data) -> Seq(Seq(S))]
               /\ ChunksFrom(data, g, 0) /\ Chunk_data(data) = g[0]
  BY ChunkDataIs
<1>2. Len(data) \in Nat /\ 0 \in 0 .. Len(data)
  BY LenProperties
<1>3. Chunk_data(data) \in Seq(Seq(S))
  BY <1>1, <1>2
<1>4. ASSUME Len(data) = 0
      PROVE  Chunk_data(data) = << >>
  BY <1>1, <1>2, <1>4 DEF ChunksFrom, ChunkStep
<1>5. ASSUME Len(data) # 0
      PROVE  Chunk_data(data) = <<SubSeq(data, 1, Cut(data))>>
                                  \o Chunk_data(SubSeq(data, Cut(data) + 1, Len(data)))
  <2> DEFINE c == Cut(data)
             rest == SubSeq(data, c + 1, Len(data))
  <2>1. c \in 1 .. Len(data)
    BY <1>2, <1>5, CutIsLeast
  <2>2. SubSeq(data, 0 + 1, Len(data)) = data
    BY SubSeqFull
  <2>3. g[0] = <<SubSeq(data, 1, c)>> \o g[c]
    <3>1. g[0] = ChunkStep(data, g, 0)
      BY <1>1, <1>2 DEF ChunksFrom
    <3>2. 0 + c = c
      BY <2>1
    <3> QED
      BY <1>5, <2>2, <3>1, <3>2 DEF ChunkStep
  <2>4. c \in Nat /\ Len(data) \in c .. Len(data) /\ c \in 0 .. Len(data)
    BY <1>2, <2>1
  <2>5. rest \in Seq(S) /\ Len(rest) = Len(data) - c /\ Len(data) - c \in Nat
    BY <2>4, PartIs
  <2>6. PICK h : ChunksFrom(rest, h, 0) /\ Chunk_data(rest) = h[0]
    <3> HIDE DEF rest
    <3> QED
      BY <2>5, ChunkDataIs
  <2>7. \A n \in 0 .. Len(data) - c : h[n] = g[c + n]
    <3>1. ChunksFrom(data, g, 0) /\ ChunksFrom(rest, h, 0) /\ c \in 0 .. Len(data)
      BY <1>1, <2>4, <2>6
    <3> HIDE DEF c
    <3> QED
      BY <3>1, SolutionsOfRest
  <2>8. h[0] = g[c]
    <3>1. 0 \in 0 .. Len(data) - c /\ c + 0 = c
      BY <2>4, <2>5
    <3> QED
      BY <2>7, <3>1
  <2> QED
    BY <1>1, <2>3, <2>6, <2>8
<1> QED
  BY <1>3, <1>4, <1>5

\* What follows a chunk that ends within some data does not change where it ends.
LEMMA CutOfPart ==
  ASSUME NEW S, NEW data \in Seq(S), NEW n \in Nat, NEW m \in n .. Len(data),
         n < m, Cut(SubSeq(data, n + 1, m)) < m - n
  PROVE  Cut(SubSeq(data, n + 1, Len(data))) = Cut(SubSeq(data, n + 1, m))
<1> DEFINE a == SubSeq(data, n + 1, m)
           d == SubSeq(data, n + 1, Len(data))
           k == m - n
           l == Len(data) - n
<1>1. /\ k \in Nat \ {0} /\ l \in Nat \ {0} /\ k <= l
      /\ Len(data) \in n .. Len(data)
  BY LenProperties
<1>2. /\ Len(a) = k /\ Len(d) = l
      /\ \A i \in 1 .. k : a[i] = data[n + i]
      /\ \A i \in 1 .. l : d[i] = data[n + i]
  BY <1>1, PartIs
<1>3. MinSize \in Nat /\ MaxSize \in Nat /\ 0 < MinSize /\ 0 < MaxSize
  BY SizesAssumption
<1>4. Cut(a) < k
  OBVIOUS
<1> HIDE DEF a, d, k, l
<1>5. \A i \in 1 .. k : a[i] = d[i]
  <2>1. \A i \in 1 .. k : i \in 1 .. l
    BY <1>1
  <2> QED
    BY <1>2, <2>1
<1>6. /\ Cut(a) \in Ends(a) /\ Cut(a) \in 1 .. k /\ \A i \in Ends(a) : Cut(a) <= i
      /\ Cut(d) \in Ends(d) /\ Cut(d) \in 1 .. l /\ \A i \in Ends(d) : Cut(d) <= i
  BY <1>1, <1>2, CutIsLeast
<1>7. Longest(a) = Least(MaxSize, k) /\ Longest(d) = Least(MaxSize, l)
  BY <1>2 DEF Longest
<1>8. /\ Longest(a) \in 1 .. k /\ Longest(a) <= Longest(d)
      /\ Longest(a) < k => Longest(d) = Longest(a)
  BY <1>1, <1>3, <1>7 DEF Least
<1>9. Longest(d) \in Nat
  BY <1>1, <1>3, <1>7 DEF Least
<1>10. \A i \in 1 .. k : i <= Longest(a) /\ i \in Ends(d) => i \in Ends(a)
  <2> SUFFICES ASSUME NEW i \in 1 .. k, i <= Longest(a), i \in Ends(d)
               PROVE  i \in Ends(a)
    OBVIOUS
  <2>1. CASE i = Longest(a)
    BY <2>1 DEF Ends
  <2>2. CASE i < Longest(a)
    <3>1. i # Longest(d)
      BY <1>8, <1>9, <2>2
    <3>2. i \in MinSize .. Longest(d) /\ Body[d[i][1]][d[i][2]]
      BY <3>1 DEF Ends
    <3>3. i \in MinSize .. Longest(a)
      BY <1>3, <1>8, <2>2, <3>2
    <3>4. Body[a[i][1]][a[i][2]]
      BY <1>5, <3>2
    <3> QED
      BY <3>3, <3>4 DEF Ends
  <2> QED
    BY <1>8, <2>1, <2>2
<1>11. Cut(a) <= Longest(a)
  BY <1>6 DEF Ends
<1>12. Cut(a) \in Ends(d)
  <2>1. CASE Cut(a) = Longest(a)
    BY <1>4, <1>8, <2>1 DEF Ends
  <2>2. CASE Cut(a) # Longest(a)
    <3>1. Cut(a) \in MinSize .. Longest(a) /\ Body[a[Cut(a)][1]][a[Cut(a)][2]]
      BY <1>6, <2>2 DEF Ends
    <3>2. Cut(a) \in MinSize .. Longest(d)
      BY <1>3, <1>8, <1>9, <3>1
    <3>3. Body[d[Cut(a)][1]][d[Cut(a)][2]]
      BY <1>5, <1>6, <3>1
    <3> QED
      BY <3>2, <3>3 DEF Ends
  <2> QED
    BY <2>1, <2>2
<1>13. Cut(d) <= Cut(a)
  BY <1>6, <1>12
<1>14. Cut(d) \in Ends(a)
  <2>1. Cut(d) \in 1 .. k /\ Cut(d) <= Longest(a)
    BY <1>1, <1>6, <1>8, <1>11, <1>13
  <2> QED
    BY <1>6, <1>10, <2>1
<1>15. Cut(a) <= Cut(d)
  BY <1>6, <1>14
<1>16. Cut(a) = Cut(d)
  BY <1>6, <1>13, <1>15
<1> QED
  BY <1>16 DEF a, d

LEMMA FirstAndRest ==
  ASSUME NEW T, NEW x \in T, NEW t \in Seq(T)
  PROVE  /\ <<x>> \o t \in Seq(T) /\ <<x>> \o t # << >> /\ Len(<<x>> \o t) = Len(t) + 1
         /\ t = << >> => Last(<<x>> \o t) = x /\ Front(<<x>> \o t) = << >>
         /\ t # << >> => /\ Last(<<x>> \o t) = Last(t)
                         /\ Front(<<x>> \o t) = <<x>> \o Front(t)
                         /\ Front(t) \in Seq(T) /\ Last(t) \in T
<1> DEFINE s == <<x>> \o t
<1>1. <<x>> \in Seq(T) /\ Len(<<x>>) = 1 /\ <<x>>[1] = x
  OBVIOUS
<1>2. Len(t) \in Nat /\ (t # << >> => Len(t) # 0) /\ (t = << >> => Len(t) = 0)
  BY EmptySeq
<1>3. s \in Seq(T) /\ Len(s) = 1 + Len(t)
      /\ \A i \in 1 .. 1 + Len(t) : s[i] = IF i <= 1 THEN <<x>>[i] ELSE t[i - 1]
  <2> HIDE DEF s
  <2>1. \A u, v \in Seq(T) : /\ u \o v \in Seq(T) /\ Len(u \o v) = Len(u) + Len(v)
                             /\ \A i \in 1 .. Len(u) + Len(v) :
                                  (u \o v)[i] = IF i <= Len(u) THEN u[i] ELSE v[i - Len(u)]
    BY ConcatProperties
  <2> QED
    BY <1>1, <2>1 DEF s
<1> HIDE DEF s
<1>4. s # << >> /\ Len(s) = Len(t) + 1
  BY <1>2, <1>3, EmptySeq
<1>5. ASSUME t = << >>
      PROVE  Last(s) = x /\ Front(s) = << >>
  <2>1. Len(s) = 1 /\ s[1] = x
    BY <1>1, <1>2, <1>3, <1>5
  <2>2. SubSeq(s, 1, 0) = << >>
    BY SubSeqEmpty
  <2> QED
    BY <2>1, <2>2 DEF Last, Front
<1>6. ASSUME t # << >>
      PROVE  /\ Last(s) = Last(t) /\ Front(s) = <<x>> \o Front(t)
             /\ Front(t) \in Seq(T) /\ Last(t) \in T
  <2> DEFINE L == Len(t)
  <2>1. L \in Nat \ {0}
    BY <1>2, <1>6
  <2>2. s[1 + L] = t[L]
    <3>1. 1 + L \in 1 .. 1 + L /\ ~(1 + L <= 1) /\ (1 + L) - 1 = L
      BY <2>1
    <3> HIDE DEF L
    <3> QED
      BY <1>3, <3>1 DEF L
  <2>3. Last(s) = Last(t)
    BY <1>3, <2>2 DEF Last
  <2>4. L \in 1 .. L /\ t[L] \in T
    BY <2>1, ElementOfSeq
  <2>5. L - 1 \in 0 .. L /\ 0 \in Nat
    BY <2>1
  <2> DEFINE m == L - 1
  <2>6. SubSeq(t, 0 + 1, m) \in Seq(T) /\ Len(SubSeq(t, 0 + 1, m)) = m - 0
        /\ \A i \in 1 .. m - 0 : SubSeq(t, 0 + 1, m)[i] = t[0 + i]
    <3>1. m \in 0 .. Len(t)
      BY <2>5
    <3> HIDE DEF m
    <3> QED
      BY <2>5, <3>1, PartIs
  <2>7. Front(t) \in Seq(T) /\ Len(Front(t)) = L - 1 /\ \A i \in 1 .. L - 1 : Front(t)[i] = t[i]
    BY <2>1, <2>6 DEF Front
  <2>8. L \in 0 .. Len(s)
    BY <1>3, <2>1
  <2>9. SubSeq(s, 0 + 1, L) \in Seq(T) /\ Len(SubSeq(s, 0 + 1, L)) = L - 0
        /\ \A i \in 1 .. L - 0 : SubSeq(s, 0 + 1, L)[i] = s[0 + i]
    BY <1>3, <2>5, <2>8, PartIs
  <2>10. Front(s) = SubSeq(s, 1, L)
    BY <1>3, <2>1 DEF Front
  <2>11. Front(s) \in Seq(T) /\ Len(Front(s)) = L /\ \A i \in 1 .. L : Front(s)[i] = s[i]
    BY <2>1, <2>9, <2>10
  <2> DEFINE f == Front(t)
             u == <<x>> \o f
  <2>12. u \in Seq(T) /\ Len(u) = 1 + (L - 1)
         /\ \A i \in 1 .. 1 + (L - 1) : u[i] = IF i <= 1 THEN <<x>>[i] ELSE f[i - 1]
    <3>1. \A v, w \in Seq(T) : /\ v \o w \in Seq(T) /\ Len(v \o w) = Len(v) + Len(w)
                               /\ \A i \in 1 .. Len(v) + Len(w) :
                                    (v \o w)[i] = IF i <= Len(v) THEN v[i] ELSE w[i - Len(v)]
      BY ConcatProperties
    <3> HIDE DEF f, L
    <3>2. f \in Seq(T) /\ Len(f) = L - 1
      BY <2>7 DEF f
    <3> QED
      BY <1>1, <3>1, <3>2
  <2> HIDE DEF u, f, L
  <2>13. Len(u) = L /\ 1 + (L - 1) = L
    BY <2>1, <2>12
  <2>14. \A i \in 1 .. L : Front(s)[i] = u[i]
    <3> SUFFICES ASSUME NEW i \in 1 .. L
                 PROVE  s[i] = u[i]
      BY <2>11
    <3>1. i \in 1 .. 1 + L /\ (i # 1 => i - 1 \in 1 .. L - 1)
      BY <2>1
    <3>2. s[i] = IF i <= 1 THEN <<x>>[i] ELSE t[i - 1]
      BY <1>3, <3>1 DEF L
    <3>3. u[i] = IF i <= 1 THEN <<x>>[i] ELSE f[i - 1]
      BY <2>12, <2>13
    <3>4. i # 1 => f[i - 1] = t[i - 1]
      BY <2>7, <3>1 DEF f
    <3> QED
      BY <3>2, <3>3, <3>4
  <2>15. Front(s) = u
    BY <2>11, <2>12, <2>13, <2>14, SeqEqual
  <2> QED
    BY <2>3, <2>4, <2>7, <2>15 DEF u, f, Last, L
<1> QED
  BY <1>3, <1>4, <1>5, <1>6 DEF s

LEMMA PartSplit ==
  ASSUME NEW S, NEW s \in Seq(S), NEW n \in Nat, NEW m \in n .. Len(s), NEW j \in 0 .. m - n
  PROVE  /\ SubSeq(SubSeq(s, n + 1, m), 1, j) = SubSeq(s, n + 1, n + j)
         /\ SubSeq(SubSeq(s, n + 1, m), j + 1, m - n) = SubSeq(s, n + j + 1, m)
<1> DEFINE k == m - n
           t == SubSeq(s, n + 1, m)
<1>1. /\ 0 \in Nat /\ j \in Nat /\ m \in Nat /\ j \in 0 .. m - n
      /\ k \in j .. m - n /\ n + k = m /\ n + 0 + 1 = n + 1 /\ 0 + 1 = 1
  BY LenProperties
<1> HIDE DEF k
<1>2. SubSeq(t, 0 + 1, j) = SubSeq(s, n + 0 + 1, n + j)
  BY <1>1, PartOfPart
<1>3. SubSeq(t, j + 1, k) = SubSeq(s, n + j + 1, n + k)
  BY <1>1, PartOfPart
<1> HIDE DEF t
<1>4. SubSeq(t, 1, j) = SubSeq(s, n + 1, n + j)
  BY <1>1, <1>2
<1>5. SubSeq(t, j + 1, k) = SubSeq(s, n + j + 1, m)
  BY <1>1, <1>3
<1> QED
  BY <1>4, <1>5 DEF k, t

\* Of the chunks of a part of the data all but the last are chunks of the data, and
\* the data goes on from the last, which is the end of the part.
HeldBack(data, n, m) ==
  LET chunks == Chunk_data(SubSeq(data, n + 1, m))
      last == Last(chunks)
  IN  /\ chunks # << >> /\ Len(last) \in 1 .. m - n
      /\ last = SubSeq(data, m - Len(last) + 1, m)
      /\ Front(chunks) \o Chunk_data(SubSeq(data, m - Len(last) + 1, Len(data)))
           = Chunk_data(SubSeq(data, n + 1, Len(data)))

LEMMA HeldBackStep ==
  ASSUME NEW S, NEW data \in Seq(S), NEW m \in 0 .. Len(data), NEW n \in 0 .. m, n < m,
         \A k \in 0 .. m : n < k /\ k < m => HeldBack(data, k, m)
  PROVE  HeldBack(data, n, m)
<1> DEFINE T == Seq(S)
           L == Len(data)
           a == SubSeq(data, n + 1, m)
           d == SubSeq(data, n + 1, L)
           e == Cut(a)
           x == SubSeq(a, 1, e)
           b == SubSeq(a, e + 1, m - n)
           k == n + e
           c == Chunk_data(a)
           t == Chunk_data(b)
<1>1. /\ L \in Nat /\ m \in Nat /\ n \in Nat /\ m <= L /\ n < L
      /\ m \in n .. L /\ L \in n .. L /\ m - n \in Nat \ {0}
  BY LenProperties
<1>2. a \in T /\ Len(a) = m - n /\ d \in T /\ Len(d) = L - n
  BY <1>1, PartIs
<1>3. e \in 1 .. m - n
  BY <1>1, <1>2, CutIsLeast
<1>4. x = SubSeq(data, n + 1, n + e) /\ b = SubSeq(data, n + e + 1, m)
  <2>1. e \in 0 .. m - n
    BY <1>3
  <2> HIDE DEF e
  <2> QED
    BY <1>1, <2>1, PartSplit
<1>5. k \in Nat /\ m \in k .. L /\ k \in n .. L /\ k \in 0 .. m /\ n < k
  BY <1>1, <1>3
<1>6. x \in T /\ b \in T /\ Len(b) = m - k
  <2>1. SubSeq(data, n + 1, k) \in T
    BY <1>1, <1>5, PartIs
  <2>2. SubSeq(data, k + 1, m) \in T /\ Len(SubSeq(data, k + 1, m)) = m - k
    BY <1>5, PartIs
  <2> QED
    BY <1>4, <2>1, <2>2
<1>7. c = <<x>> \o t /\ t \in Seq(T) /\ c \in Seq(T)
  <2>1. Len(a) # 0
    BY <1>1, <1>2
  <2>2. c \in Seq(T) /\ c = <<SubSeq(a, 1, Cut(a))>> \o Chunk_data(SubSeq(a, Cut(a) + 1, Len(a)))
    BY <1>2, <2>1, ChunksUnfold
  <2>3. t \in Seq(T)
    BY <1>6, ChunksUnfold
  <2> QED
    BY <1>2, <2>2, <2>3
<1>8. CASE k = m
  <2>1. t = << >>
    <3>1. Len(b) = 0
      BY <1>5, <1>6, <1>8
    <3> HIDE DEF b
    <3> QED
      BY <1>6, <3>1, ChunksUnfold
  <2>2. x = a
    BY <1>4, <1>8
  <2>3. Last(c) = a /\ Front(c) = << >> /\ c # << >>
    <3> HIDE DEF x, t, c, a, T
    <3> QED
      BY <1>6, <1>7, <2>1, <2>2, FirstAndRest
  <2>4. m - (m - n) = n /\ m - n \in 1 .. m - n
    BY <1>1
  <2>5. << >> \o Chunk_data(d) = Chunk_data(d)
    <3>1. Chunk_data(d) \in Seq(T)
      BY <1>2, ChunksUnfold
    <3> QED
      BY <3>1, ConcatEmptySeq
  <2> HIDE DEF c
  <2> QED
    BY <1>2, <2>3, <2>4, <2>5 DEF HeldBack, c
<1>9. CASE k # m
  <2>1. k < m
    BY <1>5, <1>9
  <2>2. HeldBack(data, k, m)
    BY <1>5, <2>1
  <2> DEFINE l == Last(t)
             rest == Chunk_data(SubSeq(data, m - Len(l) + 1, L))
  <2>3. /\ t # << >> /\ Len(l) \in 1 .. m - k /\ l = SubSeq(data, m - Len(l) + 1, m)
        /\ Front(t) \o rest = Chunk_data(SubSeq(data, k + 1, L))
    BY <1>4, <2>2 DEF HeldBack
  <2>4. c # << >> /\ Last(c) = l /\ Front(c) = <<x>> \o Front(t) /\ Front(t) \in Seq(T)
    <3>2. t # << >> /\ t \in Seq(T) /\ x \in T
      BY <1>6, <1>7, <2>3
    <3> HIDE DEF x, t, c, T
    <3>1. /\ <<x>> \o t # << >> /\ Last(<<x>> \o t) = Last(t)
          /\ Front(<<x>> \o t) = <<x>> \o Front(t) /\ Front(t) \in Seq(T)
      BY <3>2, FirstAndRest
    <3> QED
      BY <1>7, <3>1
  <2>5. Len(l) \in 1 .. m - n
    BY <1>1, <1>5, <2>3
  <2>6. rest \in Seq(T)
    <3>1. m - Len(l) \in Nat /\ L \in m - Len(l) .. L
      BY <1>1, <1>5, <2>3
    <3>2. SubSeq(data, m - Len(l) + 1, L) \in T
      BY <3>1, PartIs
    <3> QED
      BY <3>2, ChunksUnfold
  <2>7. Front(c) \o rest = <<x>> \o (Front(t) \o rest)
    <3>1. <<x>> \in Seq(T)
      BY <1>6
    <3> HIDE DEF rest, t, x, T, c
    <3> QED
      BY <2>4, <2>6, <3>1, ConcatAssociative
  <2>8. Cut(d) = e
    <3>1. e < m - n
      BY <1>1, <1>3, <2>1
    <3> QED
      BY <1>1, <3>1, CutOfPart
  <2>9. Chunk_data(d) = <<SubSeq(d, 1, e)>> \o Chunk_data(SubSeq(d, e + 1, L - n))
    <3>1. Len(d) # 0
      BY <1>1, <1>2
    <3>2. Chunk_data(d) = <<SubSeq(d, 1, Cut(d))>> \o Chunk_data(SubSeq(d, Cut(d) + 1, Len(d)))
      BY <1>2, <3>1, ChunksUnfold
    <3> QED
      BY <1>2, <2>8, <3>2
  <2>10. SubSeq(d, 1, e) = x /\ SubSeq(d, e + 1, L - n) = SubSeq(data, k + 1, L)
    <3>1. e \in 0 .. L - n
      BY <1>1, <1>3
    <3> HIDE DEF e
    <3>2. /\ SubSeq(d, 1, e) = SubSeq(data, n + 1, n + e)
          /\ SubSeq(d, e + 1, L - n) = SubSeq(data, n + e + 1, L)
      BY <1>1, <3>1, PartSplit
    <3> QED
      BY <1>4, <3>2
  <2>11. Front(c) \o rest = Chunk_data(d)
    BY <2>3, <2>7, <2>9, <2>10
  <2> HIDE DEF c, l
  <2> QED
    BY <2>3, <2>4, <2>5, <2>11 DEF HeldBack, c
<1> QED
  BY <1>8, <1>9

LEMMA ChunksOfPart ==
  ASSUME NEW S, NEW data \in Seq(S), NEW m \in 0 .. Len(data)
  PROVE  \A n \in 0 .. m : n < m => HeldBack(data, n, m)
<1> DEFINE bad == {n \in 0 .. m : n < m /\ ~HeldBack(data, n, m)}
           left == {m - n : n \in bad}
<1> SUFFICES ASSUME bad # {}
             PROVE  FALSE
  OBVIOUS
<1>1. m \in Nat
  BY LenProperties
<1>2. left \in SUBSET Nat /\ left # {}
  BY <1>1
<1>3. PICK i \in left : \A j \in left : i <= j
  <2> HIDE DEF left
  <2> QED
    BY <1>2, LeastNumber
<1>4. PICK n \in bad : i = m - n
  OBVIOUS
<1>5. ASSUME NEW k \in 0 .. m, n < k, k < m
      PROVE  HeldBack(data, k, m)
  <2> SUFFICES ASSUME k \in bad
               PROVE  FALSE
    BY <1>5
  <2>1. m - n <= m - k
    BY <1>3, <1>4
  <2>2. n \in Nat /\ k \in Nat
    OBVIOUS
  <2> QED
    BY <1>1, <1>5, <2>1, <2>2
<1>6. n \in 0 .. m /\ n < m /\ ~HeldBack(data, n, m)
  OBVIOUS
<1>7. HeldBack(data, n, m)
  BY <1>5, <1>6, HeldBackStep
<1> QED
  BY <1>6, <1>7

LEMMA LastOfPart ==
  ASSUME NEW S, NEW s \in Seq(S), NEW n \in Nat, NEW m \in n .. Len(s), n < m
  PROVE  SubSeq(s, n + 1, m) # << >> /\ Last(SubSeq(s, n + 1, m)) = s[m]
<1> DEFINE t == SubSeq(s, n + 1, m)
<1>1. /\ t \in Seq(S) /\ Len(t) = m - n /\ m - n \in Nat
      /\ \A i \in 1 .. m - n : t[i] = s[n + i]
  BY PartIs
<1>2. m \in Nat /\ m - n \in 1 .. m - n /\ n + (m - n) = m /\ m - n # 0
  BY LenProperties
<1> HIDE DEF t
<1>3. t[m - n] = s[m]
  BY <1>1, <1>2
<1>4. t # << >>
  BY <1>1, <1>2, EmptySeq
<1> QED
  BY <1>1, <1>3, <1>4 DEF Last, t

-------------------------------------------------------------------------------
(***************************************************************************)
(* Reading                                                                 *)
(***************************************************************************)

Piece == Versions \X (Nat \ {0})
Chunk == Seq(Piece)
DownloadPcs == {"none", "open", "permit", "request", "body", "done", "failed"}
DownloadState ==
  [pc : DownloadPcs, etag : Versions \cup {0}, from : Versions \cup {0},
   at : Nat, pending : Chunk, cut : Seq(Chunk), tries : Nat]

\* The invariant of what is read: of the first at pieces of the whole, those but the
\* pending ones are cut as the whole is.
CutAsWhole(d, whole) ==
  LET start == d.at - Len(d.pending)
  IN  /\ d.at <= Len(whole) /\ Len(d.pending) <= d.at
      /\ d.pending = SubSeq(whole, start + 1, d.at)
      /\ d.cut \o Chunk_data(SubSeq(whole, start + 1, Len(whole))) = Chunk_data(whole)

Passed(d) ==
  LET chunks == Chunk_data(d.pending)
  IN  [d EXCEPT !.cut = @ \o Front(chunks), !.pending = Last(chunks)]

LEMMA PassIs ==
  ASSUME NEW d
  PROVE  \/ Pass(d) = d
         \/ Pass(d) = Passed(d) /\ ~(Len(d.pending) < MaxSize)
BY DEF Pass, Passed

\* The last chunk of some data ends where the data does.
LEMMA LastChunk ==
  ASSUME NEW data \in Chunk, data # << >>
  PROVE  LET chunks == Chunk_data(data)
             last == Last(chunks)
         IN  /\ chunks \in Seq(Chunk) /\ chunks # << >>
             /\ last \in Chunk /\ last # << >> /\ Last(last) = Last(data)
<1> DEFINE n == Len(data)
           c == Chunk_data(data)
           l == Last(c)
<1>1. n \in Nat \ {0}
  BY LenProperties, EmptySeq DEF Chunk
<1>2. /\ c # << >> /\ Len(l) \in 1 .. n - 0
      /\ l = SubSeq(data, n - Len(l) + 1, n)
  <2>1. 0 \in 0 .. n /\ 0 < n /\ n \in 0 .. n
    BY <1>1
  <2>2. HeldBack(data, 0, n)
    BY <2>1, ChunksOfPart DEF Chunk
  <2>3. SubSeq(data, 0 + 1, n) = data
    BY SubSeqFull DEF Chunk
  <2> HIDE DEF n
  <2> QED
    BY <2>2, <2>3 DEF HeldBack
<1>3. c \in Seq(Chunk)
  BY ChunksUnfold DEF Chunk
<1>4. n - Len(l) \in Nat /\ n \in n - Len(l) .. n /\ n - Len(l) < n
  <2>1. \A i \in 1 .. n - 0 : n - i \in Nat /\ n \in n - i .. n /\ n - i < n
    BY <1>1
  <2> HIDE DEF n, l
  <2> QED
    BY <1>2, <2>1
<1>5. l \in Chunk /\ l # << >> /\ Last(l) = data[n]
  <2> DEFINE k == n - Len(l)
  <2>1. k \in Nat /\ n \in k .. Len(data) /\ k < n
    BY <1>4
  <2>2. l = SubSeq(data, k + 1, n)
    BY <1>2
  <2> HIDE DEF k, l
  <2>3. SubSeq(data, k + 1, n) \in Chunk
    BY <2>1, PartIs DEF Chunk
  <2>4. SubSeq(data, k + 1, n) # << >> /\ Last(SubSeq(data, k + 1, n)) = data[n]
    BY <2>1, LastOfPart DEF Chunk
  <2> QED
    BY <2>2, <2>3, <2>4
<1> QED
  BY <1>2, <1>3, <1>5 DEF Last

LEMMA PassedFields ==
  ASSUME NEW d \in DownloadState, ~(Len(d.pending) < MaxSize)
  PROVE  /\ Passed(d) \in DownloadState
         /\ \A f \in {"pc", "etag", "from", "at", "tries"} : Passed(d)[f] = d[f]
         /\ Passed(d).cut = d.cut \o Front(Chunk_data(d.pending))
         /\ Passed(d).pending = Last(Chunk_data(d.pending))
         /\ Passed(d).pending # << >> /\ d.pending # << >>
         /\ Last(Passed(d).pending) = Last(d.pending)
<1> DEFINE n == Len(d.pending)
           c == Chunk_data(d.pending)
           l == Last(c)
<1>1. d.pending \in Chunk /\ d.cut \in Seq(Chunk) /\ MaxSize \in Nat /\ 0 < MaxSize
  BY SizesAssumption DEF DownloadState
<1>2. n \in Nat \ {0} /\ d.pending # << >>
  BY <1>1, LenProperties, EmptySeq DEF Chunk
<1>3. c \in Seq(Chunk) /\ c # << >> /\ l \in Chunk /\ l # << >> /\ Last(l) = Last(d.pending)
  BY <1>1, <1>2, LastChunk
<1>4. Front(c) \in Seq(Chunk)
  <2>1. Len(c) \in Nat \ {0}
    BY <1>3, EmptySeq
  <2> DEFINE m == Len(c) - 1
  <2>2. m \in 0 .. Len(c) /\ 0 \in Nat
    BY <2>1
  <2>3. SubSeq(c, 0 + 1, m) \in Seq(Chunk)
    <3> HIDE DEF m, c
    <3> QED
      BY <1>3, <2>2, PartIs
  <2> QED
    BY <2>3 DEF Front
<1>5. d.cut \o Front(c) \in Seq(Chunk)
  <2> HIDE DEF c
  <2> QED
    BY <1>1, <1>4, ConcatProperties
<1> HIDE DEF l, c
<1>6. Passed(d) = [d EXCEPT !.cut = d.cut \o Front(c), !.pending = l]
  BY DEF Passed, c, l
<1>7. Passed(d) \in DownloadState
  BY <1>3, <1>5, <1>6 DEF DownloadState
<1>8. /\ Passed(d).cut = d.cut \o Front(c) /\ Passed(d).pending = l
       /\ \A f \in {"pc", "etag", "from", "at", "tries"} : Passed(d)[f] = d[f]
  BY <1>6 DEF DownloadState
<1> QED
  BY <1>2, <1>3, <1>7, <1>8 DEF c, l

\* Passing chunks on keeps the invariant of what is read.
LEMMA PassCutsAsWhole ==
  ASSUME NEW whole \in Chunk, NEW d \in DownloadState, CutAsWhole(d, whole)
  PROVE  CutAsWhole(Pass(d), whole)
<1>1. CASE Pass(d) = d
  BY <1>1
<1>2. CASE Pass(d) = Passed(d) /\ ~(Len(d.pending) < MaxSize)
  <2> DEFINE e == Passed(d)
             L == Len(whole)
             s == d.at - Len(d.pending)
             l == Last(Chunk_data(d.pending))
             rest == Chunk_data(SubSeq(whole, d.at - Len(l) + 1, L))
  <2>1. /\ e.at = d.at /\ e.pending = l /\ e.cut = d.cut \o Front(Chunk_data(d.pending))
        /\ e \in DownloadState /\ d.pending # << >>
    BY <1>2, PassedFields
  <2>2. d.at \in Nat /\ d.pending \in Chunk /\ d.cut \in Seq(Chunk) /\ e.cut \in Seq(Chunk)
    BY <2>1 DEF DownloadState
  <2>3. /\ d.at <= L /\ Len(d.pending) <= d.at /\ d.pending = SubSeq(whole, s + 1, d.at)
        /\ d.cut \o Chunk_data(SubSeq(whole, s + 1, L)) = Chunk_data(whole)
    BY DEF CutAsWhole
  <2>4. Len(d.pending) \in Nat \ {0} /\ L \in Nat
    BY <2>1, <2>2, EmptySeq, LenProperties DEF Chunk
  <2>5. s \in 0 .. d.at /\ s < d.at /\ d.at \in 0 .. L /\ s \in Nat
    BY <2>2, <2>3, <2>4
  <2>6. HeldBack(whole, s, d.at)
    <3> HIDE DEF s
    <3> QED
      BY <2>5, ChunksOfPart DEF Chunk
  <2>7. /\ Len(l) \in 1 .. d.at - s
        /\ l = SubSeq(whole, d.at - Len(l) + 1, d.at)
        /\ Front(Chunk_data(d.pending)) \o rest = Chunk_data(SubSeq(whole, s + 1, L))
    <3> HIDE DEF s
    <3> QED
      BY <2>3, <2>6 DEF HeldBack
  <2>8. Len(l) <= d.at /\ d.at - Len(l) \in Nat /\ L \in d.at - Len(l) .. L
    <3>1. \A i \in 1 .. d.at - s : i <= d.at /\ d.at - i \in Nat /\ L \in d.at - i .. L
      <4>1. \A a, b, c \in Nat : b < a /\ a <= c =>
              \A i \in 1 .. a - b : i <= a /\ a - i \in Nat /\ c \in a - i .. c
        OBVIOUS
      <4> HIDE DEF s, L
      <4>2. d.at \in Nat /\ s \in Nat /\ L \in Nat /\ s < d.at /\ d.at <= L
        BY <2>2, <2>3, <2>4, <2>5
      <4> QED
        BY ONLY <4>1, <4>2
    <3> HIDE DEF s, l, L
    <3> QED
      BY <2>7, <3>1
  <2>9. e.cut \o rest = Chunk_data(whole)
    <3>1. rest \in Seq(Chunk)
      <4>1. SubSeq(whole, d.at - Len(l) + 1, L) \in Chunk
        BY <2>8, PartIs DEF Chunk
      <4> QED
        BY <4>1, ChunksUnfold DEF Chunk
    <3>2. Front(Chunk_data(d.pending)) \in Seq(Chunk)
      <4> DEFINE c == Chunk_data(d.pending)
                 n == Len(c) - 1
      <4>1. c \in Seq(Chunk) /\ Len(d.pending) # 0
        BY <2>2, <2>4, ChunksUnfold DEF Chunk
      <4>2. c # << >>
        <5>1. SubSeq(whole, s + 1, d.at) = d.pending
          BY <2>3
        <5> HIDE DEF s
        <5> QED
          BY <2>6, <5>1 DEF HeldBack
      <4>3. n \in 0 .. Len(c) /\ 0 \in Nat
        <5>1. Len(c) \in Nat \ {0}
          BY <4>1, <4>2, EmptySeq
        <5> QED
          BY <5>1
      <4>4. SubSeq(c, 0 + 1, n) \in Seq(Chunk)
        <5> HIDE DEF n, c
        <5> QED
          BY <4>1, <4>3, PartIs
      <4> QED
        BY <4>4 DEF Front
    <3> DEFINE f == Front(Chunk_data(d.pending))
    <3>3. (d.cut \o f) \o rest = d.cut \o (f \o rest)
      <4>1. f \in Seq(Chunk) /\ d.cut \in Seq(Chunk)
        BY <2>2, <3>2
      <4>2. \A u, v, w \in Seq(Chunk) : (u \o v) \o w = u \o (v \o w)
        BY ConcatAssociative
      <4> HIDE DEF rest, f
      <4> QED
        BY <3>1, <4>1, <4>2, Zenon
    <3> QED
      BY <2>1, <2>3, <2>7, <3>3
  <2> HIDE DEF e, l
  <2>10. CutAsWhole(e, whole)
    BY <2>1, <2>3, <2>7, <2>8, <2>9 DEF CutAsWhole
  <2> QED
    BY <1>2, <2>10 DEF e
<1> QED
  BY <1>1, <1>2, PassIs

LEMMA PiecesIs ==
  ASSUME NEW v \in Versions
  PROVE  /\ Pieces(v) \in Chunk /\ Len(Pieces(v)) = Len(Body[v]) /\ Len(Body[v]) \in Nat \ {0}
         /\ \A i \in 1 .. Len(Body[v]) : Pieces(v)[i] = <<v, i>>
<1>1. Body[v] \in Seq(BOOLEAN) /\ Body[v] # << >>
  BY BodiesAssumption DEF Versions
<1>2. Len(Body[v]) \in Nat \ {0}
  BY <1>1, EmptySeq
<1>3. \A i \in 1 .. Len(Body[v]) : <<v, i>> \in Piece
  BY DEF Piece
<1>4. Pieces(v) \in Chunk /\ Len(Pieces(v)) = Len(Body[v])
  BY <1>2, <1>3 DEF Pieces, Chunk
<1> QED
  BY <1>2, <1>4 DEF Pieces

\* What a read makes of a download, before chunks are passed on.
Arrived(d, n) ==
  [d EXCEPT !.at = @ + n, !.pending = @ \o SubSeq(Rest(d), 1, n)]

LEMMA ArrivedIs ==
  ASSUME NEW d \in DownloadState, d.from \in Versions,
         NEW n \in Nat \ {0}, n <= Len(Rest(d))
  PROVE  /\ d.at + n <= Len(Body[d.from])
         /\ SubSeq(Rest(d), 1, n) = SubSeq(Pieces(d.from), d.at + 1, d.at + n)
         /\ Arrived(d, n) \in DownloadState
         /\ \A f \in {"pc", "etag", "from", "cut", "tries"} : Arrived(d, n)[f] = d[f]
         /\ Arrived(d, n).at = d.at + n
         /\ Arrived(d, n).pending = d.pending \o SubSeq(Pieces(d.from), d.at + 1, d.at + n)
         /\ Len(Arrived(d, n).pending) = Len(d.pending) + n
         /\ Arrived(d, n).pending # << >>
         /\ Last(Arrived(d, n).pending) = <<d.from, d.at + n>>
<1> DEFINE whole == Pieces(d.from)
           L == Len(Body[d.from])
           at == d.at
           new == SubSeq(whole, at + 1, at + n)
<1>1. /\ whole \in Chunk /\ Len(whole) = L /\ L \in Nat \ {0}
      /\ \A i \in 1 .. L : whole[i] = <<d.from, i>>
  BY PiecesIs
<1>2. at \in Nat /\ d.pending \in Chunk /\ d.cut \in Seq(Chunk)
  BY DEF DownloadState
<1>3. Rest(d) = SubSeq(whole, at + 1, L)
  BY DEF Rest
<1> HIDE DEF whole, L, at
<1>4. at + n <= L
  <2>1. CASE at <= L
    <3>1. at \in Nat /\ L \in at .. Len(whole)
      BY <1>1, <1>2, <2>1
    <3>2. Len(Rest(d)) = L - at
      BY <1>1, <1>3, <3>1, PartIs DEF Chunk
    <3> QED
      BY <1>1, <1>2, <3>2
  <2>2. CASE ~(at <= L)
    <3>1. L < at + 1 /\ at + 1 \in Int /\ L \in Int
      BY <1>1, <1>2, <2>2
    <3>2. Rest(d) = << >>
      BY <1>3, <3>1, SubSeqEmpty
    <3>3. Len(Rest(d)) = 0
      BY <3>2, EmptySeq
    <3> QED
      BY <3>3
  <2> QED
    BY <2>1, <2>2
<1>5. /\ at \in Nat /\ L \in at .. Len(whole) /\ n \in 0 .. L - at
      /\ at + n \in at .. Len(whole) /\ at < at + n /\ at + n \in 1 .. L /\ (at + n) - at = n
  BY <1>1, <1>2, <1>4
<1>6. SubSeq(Rest(d), 1, n) = new
  <2>1. SubSeq(SubSeq(whole, at + 1, L), 1, n) = SubSeq(whole, at + 1, at + n)
    BY <1>1, <1>5, PartSplit DEF Chunk
  <2> QED
    BY <1>3, <2>1
<1>7. new \in Chunk /\ Len(new) = n /\ new # << >> /\ Last(new) = <<d.from, at + n>>
  <2> DEFINE m == at + n
  <2>1. m \in at .. Len(whole) /\ at < m /\ m - at = n /\ whole[m] = <<d.from, m>>
    BY <1>1, <1>5
  <2> HIDE DEF m
  <2>2. SubSeq(whole, at + 1, m) \in Chunk /\ Len(SubSeq(whole, at + 1, m)) = m - at
    BY <1>1, <1>5, <2>1, PartIs DEF Chunk
  <2>3. SubSeq(whole, at + 1, m) # << >> /\ Last(SubSeq(whole, at + 1, m)) = whole[m]
    BY <1>1, <1>5, <2>1, LastOfPart DEF Chunk
  <2> QED
    BY <2>1, <2>2, <2>3 DEF m
<1> HIDE DEF new
<1> DEFINE all == d.pending \o new
<1>8. /\ all \in Chunk /\ Len(all) = Len(d.pending) + n
      /\ \A i \in 1 .. Len(d.pending) + n :
           all[i] = IF i <= Len(d.pending) THEN d.pending[i] ELSE new[i - Len(d.pending)]
  BY <1>2, <1>7, ConcatProperties DEF Chunk
<1>9. Len(d.pending) \in Nat
  BY <1>2, LenProperties DEF Chunk
<1> HIDE DEF all
<1>10. all # << >> /\ Last(all) = <<d.from, at + n>>
  <2>1. PICK k \in Nat : k = Len(d.pending)
    BY <1>9
  <2>2. Len(all) = k + n /\ k + n \in 1 .. k + n /\ ~(k + n <= k) /\ (k + n) - k = n
    BY <1>8, <2>1
  <2>3. all[k + n] = new[n]
    BY <1>8, <2>1, <2>2
  <2>4. all # << >>
    BY <1>8, <2>2, EmptySeq
  <2> QED
    BY <1>7, <2>2, <2>3, <2>4 DEF Last
<1>11. Arrived(d, n) = [d EXCEPT !.at = at + n, !.pending = all]
  BY <1>6 DEF Arrived, at, all
<1>12. at + n \in Nat
  BY <1>2
<1>13. /\ Arrived(d, n) \in DownloadState
       /\ \A f \in {"pc", "etag", "from", "cut", "tries"} : Arrived(d, n)[f] = d[f]
       /\ Arrived(d, n).at = at + n /\ Arrived(d, n).pending = all
  BY <1>8, <1>11, <1>12 DEF DownloadState
<1> QED
  BY <1>4, <1>6, <1>8, <1>10, <1>13 DEF whole, L, at, new, all

LEMMA ArrivedCutsAsWhole ==
  ASSUME NEW d \in DownloadState, d.from \in Versions, CutAsWhole(d, Pieces(d.from)),
         NEW n \in Nat \ {0}, n <= Len(Rest(d))
  PROVE  CutAsWhole(Arrived(d, n), Pieces(d.from))
<1> DEFINE whole == Pieces(d.from)
           at == d.at
           k == Len(d.pending)
           s == at - k
           e == Arrived(d, n)
<1>1. /\ e.at = at + n /\ e.cut = d.cut /\ Len(e.pending) = k + n
      /\ e.pending = d.pending \o SubSeq(whole, at + 1, at + n)
      /\ at + n <= Len(Body[d.from])
  BY ArrivedIs
<1>2. whole \in Chunk /\ Len(whole) = Len(Body[d.from]) /\ Len(whole) \in Nat
  BY PiecesIs
<1>3. at \in Nat /\ k \in Nat /\ k <= at
  BY LenProperties DEF CutAsWhole, DownloadState, Chunk
<1>4. /\ d.pending = SubSeq(whole, s + 1, at)
      /\ d.cut \o Chunk_data(SubSeq(whole, s + 1, Len(whole))) = Chunk_data(whole)
  BY DEF CutAsWhole
<1> HIDE DEF whole, at, k, e
<1>5. s + 1 \in 1 .. Len(whole) + 1 /\ at \in (s + 1) - 1 .. Len(whole) /\ at + n \in at .. Len(whole)
  BY <1>1, <1>2, <1>3
<1>6. SubSeq(whole, s + 1, at) \o SubSeq(whole, at + 1, at + n) = SubSeq(whole, s + 1, at + n)
  <2> DEFINE i == s + 1
             j == at + n
  <2> HIDE DEF i, j
  <2>1. i \in 1 .. Len(whole) + 1 /\ at \in i - 1 .. Len(whole) /\ j \in at .. Len(whole)
    BY <1>5 DEF i, j
  <2>2. SubSeq(whole, i, at) \o SubSeq(whole, at + 1, j) = SubSeq(whole, i, j)
    BY <1>2, <2>1, ConcatAdjacentSubSeq DEF Chunk
  <2> QED
    BY <2>2 DEF i, j
<1>7. (at + n) - (k + n) = s /\ k + n <= at + n
  BY <1>3
<1>8. e.at - Len(e.pending) = s /\ Len(e.pending) <= e.at /\ e.at <= Len(whole)
  BY <1>1, <1>2, <1>7
<1>9. e.pending = SubSeq(whole, s + 1, e.at)
  BY <1>1, <1>4, <1>6
<1>10. CutAsWhole(e, whole)
  BY <1>1, <1>4, <1>8, <1>9 DEF CutAsWhole
<1> QED
  BY <1>10 DEF e, whole

-------------------------------------------------------------------------------
(***************************************************************************)
(* Types                                                                   *)
(***************************************************************************)

ScanTypeOK ==
  /\ scan = [pc |-> scan.pc, dirs |-> scan.dirs, found |-> scan.found]
  /\ scan.pc \in {"idle", "list", "fetch", "update"}
  /\ scan.dirs \in Seq(DOMAIN Children)
  /\ DOMAIN scan.found \subseteq Files
  /\ \A p \in DOMAIN scan.found : scan.found[p] \in Versions

\* What has been compared was found.
Working == scan.pc \in {"fetch", "update"}

TypeOK ==
  /\ server \in Servers
  /\ remote \in [Files -> [version : Versions, here : BOOLEAN]]
  /\ cache \in [Files -> [version : Versions \cup {0}, deleted : BOOLEAN]]
  /\ copy \in [Files -> Seq(Chunk)]
  /\ ScanTypeOK
  /\ diff \in [unchanged : SUBSET Files, changed : SUBSET Files, deleted : SUBSET Files]
  /\ down \in [Files -> DownloadState]
  /\ astray \in SUBSET Files
  /\ quiet \in BOOLEAN
  /\ Working => diff.unchanged \cup diff.changed \subseteq DOMAIN scan.found

LEMMA VersionsAre ==
  1 \in Versions /\ \A v \in Versions : v \in Nat \ {0} /\ v \in Nat /\ v # 0
BY BodiesAssumption DEF Versions

\* What a request comes to, and the version that is there.
LEMMA AskedIs ==
  ASSUME TypeOK
  PROVE  /\ \A p \in Paths : Asked(p) \in Paths \cup {Nowhere}
         /\ \A p \in Files : Asked(p) \in Files \cup {Nowhere}
BY ServersAssumption DEF TypeOK, Asked

LEMMA NowIs ==
  ASSUME TypeOK, NEW p \in Files
  PROVE  /\ Now(p) \in Versions \cup {0} /\ Now(p) \in Nat
         /\ Granted(p) => Now(p) \in Versions
         /\ AskedAsIs(p) => Now(p) = remote[p].version
         /\ Granted(p) /\ AskedAsIs(p) => remote[p].here
<1>1. \A q \in Files : remote[q].version \in Versions
  BY DEF TypeOK
<1>2. Asked(p) \in Files \cup {Nowhere}
  BY AskedIs
<1>3. Now(p) \in Versions \cup {0}
  BY <1>1 DEF Now
<1>4. Granted(p) => Asked(p) \in Files
  BY <1>2 DEF Granted, Is_there
<1>5. Granted(p) => Now(p) \in Versions
  BY <1>1, <1>4 DEF Now
<1>6. AskedAsIs(p) => Now(p) = remote[p].version
  BY DEF AskedAsIs, Now
<1>7. Granted(p) /\ AskedAsIs(p) => remote[p].here
  BY DEF AskedAsIs, Granted, Is_there
<1> QED
  BY <1>3, <1>5, <1>6, <1>7, VersionsAre

LEMMA SetToSeqIs ==
  ASSUME NEW S, IsFiniteSet(S)
  PROVE  SetToSeq(S) \in Seq(S) /\ \A x \in S : \E i \in 1 .. Len(SetToSeq(S)) : SetToSeq(S)[i] = x
<1> DEFINE n == Cardinality(S)
           f == SetToSeq(S)
<1>1. n \in Nat /\ ExistsBijection(1 .. n, S)
  BY FS_CardinalityType
<1>2. \E h \in [1 .. n -> S] : IsInjective(h)
  BY <1>1 DEF ExistsBijection, Bijection, Injection
<1>3. f \in [1 .. n -> S] /\ IsInjective(f)
  BY <1>2 DEF SetToSeq
<1>4. f \in Injection(1 .. n, S)
  BY <1>3 DEF Injection
<1>5. IsFiniteSet(1 .. n) /\ Cardinality(1 .. n) = n
  BY <1>1, FS_Interval
<1> HIDE DEF f
<1>6. f \in Surjection(1 .. n, S)
  BY <1>4, <1>5, FS_Injection
<1>7. \A x \in S : \E i \in 1 .. n : f[i] = x
  BY <1>6 DEF Surjection
<1>8. f \in Seq(S) /\ Len(f) = n
  BY <1>1, <1>3
<1> QED
  BY <1>7, <1>8 DEF f

LEMMA NoDownloadIs ==
  /\ NoDownload \in DownloadState
  /\ \A pc \in DownloadPcs : [NoDownload EXCEPT !.pc = pc] \in DownloadState
  /\ \A pc \in DownloadPcs : [NoDownload EXCEPT !.pc = pc].pc = pc
  /\ \A pc \in DownloadPcs : [NoDownload EXCEPT !.pc = pc].at = 0
  /\ \A pc \in DownloadPcs : [NoDownload EXCEPT !.pc = pc].pending = << >>
  /\ \A pc \in DownloadPcs : [NoDownload EXCEPT !.pc = pc].cut = << >>
  /\ \A pc \in DownloadPcs : [NoDownload EXCEPT !.pc = pc].etag = 0
  /\ NoDownload.pc = "none" /\ NoDownload.at = 0
  /\ NoDownload.pending = << >> /\ NoDownload.cut = << >>
<1>1. << >> \in Chunk /\ << >> \in Seq(Chunk)
  BY EmptySeq DEF Chunk
<1> QED
  BY <1>1 DEF NoDownload, DownloadState, DownloadPcs

LEMMA InitType == Init => TypeOK
<1> SUFFICES ASSUME Init
             PROVE  TypeOK
  OBVIOUS
<1>1. \A p \in Files : NoEntry \in [version : Versions \cup {0}, deleted : BOOLEAN]
  BY DEF NoEntry
<1>2. << >> \in Seq(Chunk) /\ << >> \in Seq(DOMAIN Children) /\ DOMAIN << >> = {}
  BY EmptySeq
<1>3. ScanTypeOK
  BY <1>2 DEF Init, ScanTypeOK
<1>4. remote \in [Files -> [version : Versions, here : BOOLEAN]]
  BY VersionsAre DEF Init
<1>5. copy \in [Files -> Seq(Chunk)]
  BY <1>2 DEF Init, Absent
<1>6. down \in [Files -> DownloadState]
  BY NoDownloadIs DEF Init
<1> QED
  BY <1>1, <1>3, <1>4, <1>5, <1>6 DEF Init, TypeOK, Working, NoDiff

LEMMA ChangeType ==
  ASSUME TypeOK, NEW p \in Files, Change(p)
  PROVE  TypeOK'
<1>1. PICK v \in Versions, here \in BOOLEAN :
        remote' = [remote EXCEPT ![p] = [version |-> v, here |-> here]]
  BY DEF Change
<1>2. remote' \in [Files -> [version : Versions, here : BOOLEAN]]
  BY <1>1 DEF TypeOK, Working
<1>3. UNCHANGED <<server, cache, copy, scan, diff, down, astray>> /\ quiet' = FALSE
  BY DEF Change, caller
<1> QED
  BY <1>2, <1>3 DEF TypeOK, Working, ScanTypeOK

LEMMA ScanType ==
  ASSUME TypeOK, StartScan \/ ScanFails \/ Crash \/ EndUpdate
  PROVE  TypeOK'
<1>1. << >> \in Seq(DOMAIN Children) /\ DOMAIN << >> = {}
  BY EmptySeq
<1>2. Root \in DOMAIN Children
  BY TreeAssumption
<1>3. CASE StartScan
  <2>1. <<Root>> \in Seq(DOMAIN Children)
    BY <1>2
  <2>2. ScanTypeOK'
    BY <1>1, <1>3, <2>1 DEF StartScan, ScanTypeOK
  <2> QED
    BY <1>3, <2>2, NoDownloadIs DEF TypeOK, Working, StartScan, NoDiff, counts
<1>4. CASE ScanFails
  <2>1. ScanTypeOK'
    BY <1>1, <1>4 DEF ScanFails, ScanTypeOK
  <2> QED
    BY <1>4, <2>1 DEF TypeOK, Working, ScanFails
<1>5. CASE Crash
  <2>1. ScanTypeOK'
    BY <1>1, <1>5 DEF Crash, ScanTypeOK
  <2> QED
    BY <1>5, <2>1, NoDownloadIs DEF TypeOK, Working, Crash, NoDiff
<1>6. CASE EndUpdate
  <2>1. ScanTypeOK'
    BY <1>6 DEF EndUpdate, ScanTypeOK, TypeOK, Working
  <2> QED
    BY <1>6, <2>1 DEF TypeOK, Working, EndUpdate
<1> QED
  BY <1>3, <1>4, <1>5, <1>6

\* What a listing leaves to be listed, and what it finds.
LEMMA PropfindIs ==
  ASSUME TypeOK, Propfind
  PROVE  /\ ScanTypeOK' /\ scan'.pc = "list"
         /\ Head(scan.dirs) \in DOMAIN Children
         /\ scan'.found = Listing(Head(scan.dirs))
         /\ \A i \in 1 .. Len(scan.dirs) :
              scan.dirs[i] = Head(scan.dirs)
                \/ \E j \in 1 .. Len(scan'.dirs) : scan'.dirs[j] = scan.dirs[i]
         /\ \A d \in Directories(Head(scan.dirs)) :
              \E j \in 1 .. Len(scan'.dirs) : scan'.dirs[j] = d
<1> DEFINE D == DOMAIN Children
           dir == Head(scan.dirs)
           below == Directories(dir)
           t == Tail(scan.dirs)
           b == SetToSeq(below)
           dirs == t \o b
           found == Listing(dir)
<1>1. scan.dirs \in Seq(D) /\ scan.dirs # << >>
  BY DEF Propfind, TypeOK, Working, ScanTypeOK
<1>2. /\ dir \in D /\ t \in Seq(D) /\ Len(t) = Len(scan.dirs) - 1
      /\ \A i \in 1 .. Len(t) : t[i] = scan.dirs[i + 1]
  BY <1>1, HeadTailProperties
<1>3. Asked(dir) \in Files \cup D
  <2>1. Asked(dir) # Nowhere
    BY DEF Propfind, Is_there
  <2>2. dir \in Paths
    BY <1>2 DEF Paths
  <2> QED
    BY <2>1, <2>2, AskedIs DEF Paths
<1>4. below \subseteq D /\ IsFiniteSet(below)
  <2> DEFINE c == Children_of(Asked(dir))
  <2>1. c \subseteq Files \cup D /\ IsFiniteSet(c)
    <3>1. CASE Asked(dir) \in Files
      BY <3>1, FS_Singleton DEF Children_of
    <3>2. CASE Asked(dir) \notin Files
      <4>1. Asked(dir) \in D /\ c = Children[Asked(dir)]
        BY <1>3, <3>2 DEF Children_of
      <4> QED
        BY <4>1, TreeAssumption
    <3> QED
      BY <3>1, <3>2
  <2> HIDE DEF c
  <2>2. IsFiniteSet(c \cup {Asked(dir)})
    BY <2>1, FS_AddElement
  <2>3. below \subseteq c \cup {Asked(dir)} /\ below \cap Files = {}
    BY DEF Directories, c
  <2>4. IsFiniteSet(below)
    BY <2>2, <2>3, FS_Subset
  <2> QED
    BY <1>3, <2>1, <2>3, <2>4
<1>5. b \in Seq(below) /\ \A d \in below : \E i \in 1 .. Len(b) : b[i] = d
  <2> HIDE DEF below
  <2> QED
    BY <1>4, SetToSeqIs
<1>6. b \in Seq(D)
  <2> HIDE DEF below, b
  <2> QED
    BY <1>4, <1>5, SeqMonotonic
<1> HIDE DEF t, b
<1>7. /\ dirs \in Seq(D) /\ Len(dirs) = Len(t) + Len(b)
      /\ \A i \in 1 .. Len(t) + Len(b) : dirs[i] = IF i <= Len(t) THEN t[i] ELSE b[i - Len(t)]
  BY <1>2, <1>6, ConcatProperties
<1>8. Len(t) \in Nat /\ Len(b) \in Nat /\ Len(scan.dirs) \in Nat
  BY <1>1, <1>2, <1>6, LenProperties
<1>9. /\ scan'.pc = "list" /\ scan'.dirs = dirs /\ scan'.found = found
      /\ scan' = [pc |-> "list", dirs |-> dirs, found |-> found]
  BY DEF Propfind, TypeOK, Working, ScanTypeOK, t, b
<1>10. DOMAIN found \subseteq Files /\ \A p \in DOMAIN found : found[p] \in Versions
  BY DEF Listing, TypeOK, Working, ScanTypeOK
<1> HIDE DEF dirs, found
<1>11. ScanTypeOK'
  BY <1>7, <1>9, <1>10 DEF ScanTypeOK
<1>12. ASSUME NEW i \in 1 .. Len(scan.dirs)
       PROVE  scan.dirs[i] = dir \/ \E j \in 1 .. Len(dirs) : dirs[j] = scan.dirs[i]
  <2>1. CASE i = 1
    BY <1>1, <2>1 DEF dir
  <2>2. CASE i # 1
    <3>1. /\ i - 1 \in 1 .. Len(t) /\ i - 1 \in 1 .. Len(t) + Len(b) /\ i - 1 <= Len(t)
          /\ (i - 1) + 1 = i
      BY <1>2, <1>8, <2>2
    <3>2. dirs[i - 1] = scan.dirs[i]
      BY <1>2, <1>7, <3>1
    <3> QED
      BY <1>7, <3>1, <3>2
  <2> QED
    BY <2>1, <2>2
<1>13. ASSUME NEW d \in below
       PROVE  \E j \in 1 .. Len(dirs) : dirs[j] = d
  <2>1. PICK i \in 1 .. Len(b) : b[i] = d
    BY <1>5
  <2>2. /\ Len(t) + i \in 1 .. Len(t) + Len(b) /\ ~(Len(t) + i <= Len(t))
        /\ (Len(t) + i) - Len(t) = i
    BY <1>8
  <2>3. dirs[Len(t) + i] = d
    BY <1>7, <2>1, <2>2
  <2> QED
    BY <1>7, <2>2, <2>3
<1> QED
  BY <1>2, <1>9, <1>11, <1>12, <1>13 DEF found

LEMMA CompareType ==
  ASSUME TypeOK, Compare
  PROVE  TypeOK'
<1>1. ScanTypeOK'
  BY DEF Compare, TypeOK, Working, ScanTypeOK
<1>2. diff' \in [unchanged : SUBSET Files, changed : SUBSET Files, deleted : SUBSET Files]
  BY DEF Compare, Diff_with_cache, TypeOK, Working, ScanTypeOK
<1>3. copy' \in [Files -> Seq(Chunk)]
  <2>1. Absent \in Seq(Chunk)
    BY EmptySeq DEF Absent
  <2> QED
    BY <2>1 DEF Compare, TypeOK, Working
<1>4. down' \in [Files -> DownloadState]
  BY NoDownloadIs DEF Compare, DownloadPcs
<1>5. diff'.unchanged \cup diff'.changed \subseteq DOMAIN scan'.found
  BY DEF Compare, Diff_with_cache, TypeOK, ScanTypeOK
<1> QED
  BY <1>1, <1>2, <1>3, <1>4, <1>5 DEF Compare, TypeOK, Working, counts

LEMMA StartUpdateIs ==
  ASSUME TypeOK, StartUpdate
  PROVE  /\ diff'.unchanged = diff.unchanged /\ diff'.deleted = diff.deleted
         /\ diff' \in [unchanged : SUBSET Files, changed : SUBSET Files, deleted : SUBSET Files]
         /\ \/ /\ diff'.changed = diff.changed \ Failed
               /\ astray' = astray \ (diff'.changed \cup diff.deleted)
            \/ /\ diff'.changed = diff.changed
               /\ astray' = (astray \ (diff.changed \cup diff.deleted)) \cup Failed
<1>1. CASE diff' = [diff EXCEPT !.changed = @ \ Failed] /\ astray' = astray \ (diff'.changed \cup diff.deleted)
  BY <1>1 DEF TypeOK, Working
<1>2. CASE diff' = diff /\ astray' = (astray \ (diff.changed \cup diff.deleted)) \cup Failed
  BY <1>2 DEF TypeOK, Working
<1> QED
  BY <1>1, <1>2 DEF StartUpdate

LEMMA PutIs ==
  ASSUME TypeOK, NEW p \in Files, Put(p)
  PROVE  /\ diff' \in [unchanged : SUBSET Files, changed : SUBSET Files, deleted : SUBSET Files]
         /\ diff'.unchanged = diff.unchanged \ {p} /\ diff'.changed = diff.changed \ {p}
         /\ diff'.deleted = diff.deleted \ {p}
<1>1. DOMAIN diff = {"unchanged", "changed", "deleted"}
  BY DEF TypeOK, Working
<1>2. diff' = [unchanged |-> diff.unchanged \ {p}, changed |-> diff.changed \ {p},
               deleted |-> diff.deleted \ {p}]
  BY <1>1 DEF Put
<1> QED
  BY <1>2 DEF TypeOK, Working

LEMMA UpdateType ==
  ASSUME TypeOK, StartUpdate \/ \E p \in Files : Put(p)
  PROVE  TypeOK'
<1>1. CASE StartUpdate
  <2>1. ScanTypeOK'
    BY <1>1 DEF StartUpdate, TypeOK, ScanTypeOK
  <2>2. diff' \in [unchanged : SUBSET Files, changed : SUBSET Files, deleted : SUBSET Files]
    BY <1>1, StartUpdateIs
  <2>3. astray' \in SUBSET Files
    BY <1>1, <2>2 DEF StartUpdate, TypeOK, Failed
  <2>4. diff'.unchanged \cup diff'.changed \subseteq DOMAIN scan'.found
    <3>1. scan'.found = scan.found /\ Working
      BY <1>1 DEF StartUpdate, TypeOK, ScanTypeOK, Working
    <3> QED
      BY <1>1, <3>1, StartUpdateIs DEF TypeOK
  <2> QED
    BY <1>1, <2>1, <2>2, <2>3, <2>4 DEF StartUpdate, TypeOK, Working
<1>2. ASSUME NEW p \in Files, Put(p)
      PROVE  TypeOK'
  <2>1. diff' \in [unchanged : SUBSET Files, changed : SUBSET Files, deleted : SUBSET Files]
    BY <1>2, PutIs
  <2>2. Entry(p) \in [version : Versions \cup {0}, deleted : BOOLEAN]
    <3>1. p \notin diff.deleted => scan.found[p] \in Versions
      BY <1>2 DEF Put, TypeOK, Working, ScanTypeOK
    <3>2. cache[p] \in [version : Versions \cup {0}, deleted : BOOLEAN]
      BY DEF TypeOK
    <3> QED
      BY <3>1, <3>2 DEF Entry
  <2>3. cache' \in [Files -> [version : Versions \cup {0}, deleted : BOOLEAN]]
    BY <1>2, <2>2 DEF Put, TypeOK, Working
  <2>4. Working' => diff'.unchanged \cup diff'.changed \subseteq DOMAIN scan'.found
    BY <1>2, PutIs DEF Put, TypeOK, Working
  <2> QED
    BY <1>2, <2>1, <2>3, <2>4 DEF Put, TypeOK, Working, ScanTypeOK
<1> QED
  BY <1>1, <1>2

Steady == UNCHANGED <<server, remote, cache, scan, diff, astray, quiet>>

\* What a step of a download makes of it: it is opened, asks for a permit, a request is
\* made, its answer begins, is read, breaks off or ends, or the download fails.
Opened(p) ==
  /\ down[p].pc = "open" /\ Granted(p)
  /\ down' = [down EXCEPT ![p] =
       [down[p] EXCEPT !.pc = "permit", !.etag = IF server.etags THEN Now(p) ELSE 0]]
  /\ copy' = copy
Requested(p) ==
  /\ down[p].pc = "permit" /\ (down[p].at > 0 => server.ranges)
  /\ down' = [down EXCEPT ![p] = [down[p] EXCEPT !.pc = "request"]] /\ copy' = copy
Answered(p) ==
  /\ down[p].pc = "request" /\ Served(p)
  /\ down' = [down EXCEPT ![p] =
       [down[p] EXCEPT !.pc = "body", !.from = Now(p), !.tries = 0]]
  /\ copy' = copy
Retried(p) ==
  /\ down[p].pc \in {"permit", "request"} /\ copy' = copy
  /\ down' = [down EXCEPT ![p] = [down[p] EXCEPT !.pc = "permit", !.tries = @ + 1]]
GaveUp(p) ==
  /\ down[p].pc \in {"open", "permit", "request"} /\ copy' = copy
  /\ down' = [down EXCEPT ![p] = [NoDownload EXCEPT !.pc = "failed"]]
ReadSome(p) ==
  /\ down[p].pc = "body" /\ copy' = copy
  /\ \E n \in Nat \ {0} :
       n <= Len(Rest(down[p])) /\ down' = [down EXCEPT ![p] = Pass(Arrived(down[p], n))]
BrokeOff(p) ==
  /\ down[p].pc = "body" /\ copy' = copy
  /\ down' = [down EXCEPT ![p] = [down[p] EXCEPT !.pc = "permit", !.from = 0]]
Finished(p) ==
  /\ down[p].pc = "body" /\ Rest(down[p]) = << >>
  /\ copy' = [copy EXCEPT ![p] = down[p].cut \o Chunk_data(down[p].pending)]
  /\ down' = [down EXCEPT ![p] = [NoDownload EXCEPT !.pc = "done"]]

LEMMA DownloadSteps ==
  ASSUME NEW p \in Files, Download(p)
  PROVE  /\ Steady
         /\ \/ Opened(p) \/ Requested(p) \/ Answered(p) \/ Retried(p) \/ GaveUp(p)
            \/ ReadSome(p) \/ BrokeOff(p) \/ Finished(p)
<1>1. CASE Open(p)
  BY <1>1 DEF Open, To, counts, Steady, Opened
<1>2. CASE OpenFails(p)
  BY <1>2 DEF OpenFails, To, Steady, GaveUp
<1>3. CASE Acquire(p)
  BY <1>3 DEF Acquire, To, counts, Steady, Requested
<1>4. CASE Get(p)
  BY <1>4 DEF Get, To, counts, Steady, Answered
<1>5. CASE GetFails(p)
  BY <1>5 DEF GetFails, To, Retry, Steady, Retried, GaveUp
<1>6. ASSUME NEW n \in 1 .. 2 * MaxSize, Read(p, n)
      PROVE  Steady /\ ReadSome(p)
  <2>1. n \in Nat \ {0}
    BY SizesAssumption
  <2>2. down' = [down EXCEPT ![p] = Pass(Arrived(down[p], n))]
    BY <1>6 DEF Read, To, Arrived
  <2> QED
    BY <1>6, <2>1, <2>2 DEF Read, counts, Steady, ReadSome
<1>7. CASE Break(p)
  BY <1>7 DEF Break, To, Steady, BrokeOff
<1>8. CASE Finish(p)
  BY <1>8 DEF Finish, To, counts, Steady, Finished
<1> QED
  BY <1>1, <1>2, <1>3, <1>4, <1>5, <1>6, <1>7, <1>8 DEF Download

LEMMA DownAfter ==
  ASSUME TypeOK, NEW p \in Files, NEW d, down' = [down EXCEPT ![p] = d]
  PROVE  /\ down'[p] = d /\ \A q \in Files : q # p => down'[q] = down[q]
         /\ d \in DownloadState => down' \in [Files -> DownloadState]
BY DEF TypeOK

LEMMA ReadIs ==
  ASSUME NEW d \in DownloadState, d.from \in Versions, NEW n \in Nat \ {0}, n <= Len(Rest(d))
  PROVE  LET e == Pass(Arrived(d, n))
         IN  /\ e \in DownloadState
             /\ e.pc = d.pc /\ e.etag = d.etag /\ e.from = d.from /\ e.at = d.at + n
             /\ e.pending # << >> /\ Last(e.pending) = <<d.from, d.at + n>>
             /\ d.at + n <= Len(Body[d.from])
<1> DEFINE a == Arrived(d, n)
<1>1. /\ a \in DownloadState /\ a.pending # << >> /\ Last(a.pending) = <<d.from, d.at + n>>
      /\ a.pc = d.pc /\ a.etag = d.etag /\ a.from = d.from /\ a.at = d.at + n
      /\ d.at + n <= Len(Body[d.from])
  BY ArrivedIs
<1> HIDE DEF a
<1>2. CASE Pass(a) = a
  BY <1>1, <1>2 DEF a
<1>3. CASE Pass(a) = Passed(a) /\ ~(Len(a.pending) < MaxSize)
  <2>1. /\ Passed(a) \in DownloadState /\ Passed(a).pending # << >>
        /\ Last(Passed(a).pending) = Last(a.pending)
        /\ Passed(a).pc = a.pc /\ Passed(a).etag = a.etag /\ Passed(a).from = a.from
        /\ Passed(a).at = a.at
    BY <1>1, <1>3, PassedFields
  <2> QED
    BY <1>1, <1>3, <2>1 DEF a
<1> QED
  BY <1>2, <1>3, PassIs

\* What of a type lemma is needed of a download: its answer is of a version.
BodyVersions == \A p \in Files : down[p].pc = "body" => down[p].from \in Versions

LEMMA DownloadType ==
  ASSUME TypeOK, BodyVersions, NEW p \in Files, Download(p)
  PROVE  TypeOK' /\ BodyVersions'
<1> USE DEF DownloadPcs
<1> DEFINE d == down[p]
<1>1. Steady /\ UNCHANGED <<server, remote, cache, scan, diff, astray, quiet>>
  BY DownloadSteps DEF Steady
<1>2. /\ d \in DownloadState /\ copy \in [Files -> Seq(Chunk)]
      /\ Now(p) \in Versions \cup {0} /\ (Granted(p) => Now(p) \in Versions)
  BY NowIs DEF TypeOK
<1> SUFFICES ASSUME NEW e \in DownloadState, down' = [down EXCEPT ![p] = e],
                    e.pc = "body" => e.from \in Versions,
                    copy' \in [Files -> Seq(Chunk)]
             PROVE  TypeOK' /\ BodyVersions'
  <2>1. CASE Opened(p)
    <3> DEFINE v == IF server.etags THEN Now(p) ELSE 0
               e == [d EXCEPT !.pc = "permit", !.etag = v]
    <3>3. v \in Versions \cup {0}
      BY <1>2
    <3>1. e \in DownloadState
      <4> HIDE DEF v
      <4> QED
        BY <1>2, <3>3 DEF DownloadState
    <3>2. e.pc = "permit"
      BY <1>2 DEF DownloadState
    <3> QED
      BY <1>2, <2>1, <3>1, <3>2 DEF Opened
  <2>2. CASE Requested(p)
    <3>1. [d EXCEPT !.pc = "request"] \in DownloadState /\ [d EXCEPT !.pc = "request"].pc = "request"
      BY <1>2 DEF DownloadState
    <3> QED
      BY <1>2, <2>2, <3>1 DEF Requested
  <2>3. CASE Answered(p)
    <3> DEFINE e == [d EXCEPT !.pc = "body", !.from = Now(p), !.tries = 0]
    <3>0. Now(p) \in Versions
      BY <1>2, <2>3 DEF Answered, Served
    <3>1. e \in DownloadState
      BY <1>2, <3>0 DEF DownloadState
    <3>2. e.from \in Versions
      BY <1>2, <3>0 DEF DownloadState
    <3>3. down' = [down EXCEPT ![p] = e] /\ copy' = copy
      BY <2>3 DEF Answered
    <3>4. copy' \in [Files -> Seq(Chunk)] /\ (e.pc = "body" => e.from \in Versions)
      BY <1>2, <3>2, <3>3
    <3> HIDE DEF e
    <3> QED
      BY <3>1, <3>3, <3>4
  <2>4. CASE Retried(p)
    <3> DEFINE t == d.tries + 1
               e == [d EXCEPT !.pc = "permit", !.tries = t]
    <3>1. t \in Nat
      BY <1>2 DEF DownloadState
    <3>2. down' = [down EXCEPT ![p] = e] /\ copy' = copy
      BY <2>4 DEF Retried
    <3> HIDE DEF t
    <3>3. e \in DownloadState
      BY <1>2, <3>1 DEF DownloadState
    <3>4. e.pc = "permit"
      BY <1>2 DEF DownloadState
    <3> HIDE DEF e
    <3>5. e.pc = "body" => e.from \in Versions
      BY <3>4
    <3>6. copy' \in [Files -> Seq(Chunk)]
      BY <1>2, <3>2
    <3> QED
      BY <3>2, <3>3, <3>5, <3>6
  <2>5. CASE GaveUp(p)
    BY <1>2, <2>5, NoDownloadIs DEF GaveUp
  <2>6. CASE ReadSome(p)
    <3>1. PICK n \in Nat \ {0} :
            n <= Len(Rest(d)) /\ down' = [down EXCEPT ![p] = Pass(Arrived(d, n))]
      BY <2>6 DEF ReadSome
    <3>2. d.from \in Versions
      BY <2>6 DEF ReadSome, BodyVersions
    <3> DEFINE e == Pass(Arrived(d, n))
    <3>3. e \in DownloadState /\ e.from = d.from
      BY <1>2, <3>1, <3>2, ReadIs
    <3> QED
      BY <1>2, <2>6, <3>1, <3>2, <3>3 DEF ReadSome
  <2>7. CASE BrokeOff(p)
    <3> DEFINE e == [d EXCEPT !.pc = "permit", !.from = 0]
    <3>1. e \in DownloadState /\ e.pc = "permit"
      BY <1>2 DEF DownloadState
    <3> QED
      BY <1>2, <2>7, <3>1 DEF BrokeOff
  <2>8. CASE Finished(p)
    <3>1. d.cut \in Seq(Chunk) /\ d.pending \in Chunk
      BY <1>2 DEF DownloadState
    <3>2. Chunk_data(d.pending) \in Seq(Chunk)
      BY <3>1, ChunksUnfold DEF Chunk
    <3>3. d.cut \o Chunk_data(d.pending) \in Seq(Chunk)
      BY <3>1, <3>2, ConcatProperties
    <3> QED
      BY <1>2, <2>8, <3>3, NoDownloadIs DEF Finished
  <2> QED
    BY <2>1, <2>2, <2>3, <2>4, <2>5, <2>6, <2>7, <2>8, DownloadSteps
<1>3. down' \in [Files -> DownloadState]
  BY DownAfter
<1>4. BodyVersions'
  BY DownAfter DEF BodyVersions
<1> QED
  BY <1>1, <1>3, <1>4 DEF TypeOK, ScanTypeOK, Working

LEMMA TypeStep ==
  ASSUME TypeOK, BodyVersions, Next
  PROVE  TypeOK' /\ BodyVersions'
<1>1. ASSUME NEW p \in Files, Change(p)
      PROVE  TypeOK' /\ BodyVersions'
  BY <1>1, ChangeType DEF BodyVersions, Change, caller
<1>2. CASE StartScan \/ ScanFails \/ Crash \/ EndUpdate
  <2>1. down' = down \/ down' = [p \in Files |-> NoDownload]
    BY <1>2 DEF StartScan, ScanFails, Crash, EndUpdate
  <2> QED
    BY <1>2, <2>1, ScanType, NoDownloadIs DEF BodyVersions
<1>3. CASE Propfind
  <2>1. UNCHANGED <<server, remote, cache, copy, diff, down, astray, quiet>>
    BY <1>3 DEF Propfind
  <2> QED
    BY <1>3, <2>1, PropfindIs DEF TypeOK, Working, BodyVersions
<1>4. CASE Compare
  <2>1. \A p \in Files : down'[p].pc # "body"
    BY <1>4, NoDownloadIs DEF Compare, DownloadPcs
  <2> QED
    BY <1>4, <2>1, CompareType DEF BodyVersions
<1>5. CASE StartUpdate \/ \E p \in Files : Put(p)
  <2>1. down' = down
    BY <1>5 DEF StartUpdate, Put
  <2> QED
    BY <1>5, <2>1, UpdateType DEF BodyVersions
<1>6. ASSUME NEW p \in Files, Download(p)
      PROVE  TypeOK' /\ BodyVersions'
  BY <1>6, DownloadType
<1> QED
  BY <1>1, <1>2, <1>3, <1>4, <1>5, <1>6 DEF Next, Sync

LEMMA Stutter ==
  ASSUME UNCHANGED vars
  PROVE  UNCHANGED <<server, remote, cache, copy, scan, diff, down, astray, quiet>>
BY DEF vars, caller

\* Every variable keeps to its type, and what has been compared was found.
THEOREM TypeCorrect == Spec => [](TypeOK /\ BodyVersions)
<1>1. Init => TypeOK /\ BodyVersions
  BY InitType, NoDownloadIs DEF Init, BodyVersions
<1>2. TypeOK /\ BodyVersions /\ [Next]_vars => (TypeOK /\ BodyVersions)'
  <2>1. TypeOK /\ BodyVersions /\ UNCHANGED vars => (TypeOK /\ BodyVersions)'
    BY Stutter DEF TypeOK, ScanTypeOK, Working, BodyVersions
  <2> QED
    BY <2>1, TypeStep
<1> QED
  BY <1>1, <1>2, PTL DEF Spec

-------------------------------------------------------------------------------
(***************************************************************************)
(* Downloads, field by field                                               *)
(***************************************************************************)

SameTaken(d, e) == e.at = d.at /\ e.pending = d.pending /\ e.cut = d.cut
TakesNothing(e) == e.at = 0 /\ e.pending = << >> /\ e.cut = << >> /\ e.etag = 0

\* What the steps of a download do to its fields, and to the copy of its file.
Opens(p, d, e) ==
  /\ d.pc = "open" /\ e.pc = "permit" /\ SameTaken(d, e) /\ Granted(p)
  /\ e.etag = IF server.etags THEN Now(p) ELSE 0
Asks(d, e) ==
  /\ d.pc = "permit" /\ (d.at > 0 => server.ranges)
  /\ e.pc = "request" /\ SameTaken(d, e) /\ e.etag = d.etag
Begins(p, d, e) ==
  /\ d.pc = "request" /\ Served(p)
  /\ e.pc = "body" /\ SameTaken(d, e) /\ e.etag = d.etag /\ e.from = Now(p)
Resumes(d, e) ==
  d.pc \in {"permit", "request", "body"} /\ e.pc = "permit" /\ SameTaken(d, e) /\ e.etag = d.etag
Fails(d, e) == d.pc \in {"open", "permit", "request"} /\ e.pc = "failed" /\ TakesNothing(e)
Reads(d, e) ==
  /\ d.pc = "body" /\ d.from \in Versions
  /\ \E n \in Nat \ {0} : n <= Len(Rest(d)) /\ e = Pass(Arrived(d, n))
Completes(p, d, e) ==
  /\ d.pc = "body" /\ d.from \in Versions /\ Rest(d) = << >> /\ e.pc = "done" /\ TakesNothing(e)
  /\ copy'[p] = d.cut \o Chunk_data(d.pending)

LEMMA DownloadFields ==
  ASSUME TypeOK, BodyVersions, NEW p \in Files, Download(p)
  PROVE  LET d == down[p]
             e == down'[p]
         IN  /\ Steady /\ d \in DownloadState /\ e \in DownloadState
             /\ \A q \in Files : q # p => down'[q] = down[q] /\ copy'[q] = copy[q]
             /\ \/ /\ copy'[p] = copy[p]
                   /\ \/ Opens(p, d, e) \/ Asks(d, e) \/ Begins(p, d, e) \/ Resumes(d, e)
                      \/ Fails(d, e) \/ Reads(d, e)
                \/ Completes(p, d, e)
<1> DEFINE d == down[p]
           e == down'[p]
<1>1. Steady
  BY DownloadSteps
<1>2. /\ d \in DownloadState /\ e \in DownloadState /\ copy \in [Files -> Seq(Chunk)]
      /\ down \in [Files -> DownloadState]
  BY DownloadType DEF TypeOK
<1>3. \A x : down' = [down EXCEPT ![p] = x] =>
        e = x /\ \A q \in Files : q # p => down'[q] = down[q]
  BY <1>2
<1>4. \E x : down' = [down EXCEPT ![p] = x]
  BY DownloadSteps DEF Opened, Requested, Answered, Retried, GaveUp, ReadSome, BrokeOff, Finished
<1>5. \A q \in Files : q # p => down'[q] = down[q]
  BY <1>3, <1>4
<1>6. copy' = copy \/ \E c : copy' = [copy EXCEPT ![p] = c]
  BY DownloadSteps DEF Opened, Requested, Answered, Retried, GaveUp, ReadSome, BrokeOff, Finished
<1>7. \A q \in Files : q # p => copy'[q] = copy[q]
  BY <1>2, <1>6
<1>8. CASE Opened(p)
  <2>1. e = [d EXCEPT !.pc = "permit", !.etag = IF server.etags THEN Now(p) ELSE 0]
    BY <1>3, <1>8 DEF Opened
  <2>2. Opens(p, d, e)
    BY <1>2, <1>8, <2>1 DEF Opened, Opens, SameTaken, DownloadState
  <2> QED
    BY <1>1, <1>2, <1>5, <1>7, <1>8, <2>2 DEF Opened
<1>9. CASE Requested(p)
  <2>1. e = [d EXCEPT !.pc = "request"]
    BY <1>3, <1>9 DEF Requested
  <2>2. Asks(d, e)
    BY <1>2, <1>9, <2>1 DEF Requested, Asks, SameTaken, DownloadState
  <2> QED
    BY <1>1, <1>2, <1>5, <1>7, <1>9, <2>2 DEF Requested
<1>10. CASE Answered(p)
  <2>1. e = [d EXCEPT !.pc = "body", !.from = Now(p), !.tries = 0]
    BY <1>3, <1>10 DEF Answered
  <2>2. Begins(p, d, e)
    BY <1>2, <1>10, <2>1 DEF Answered, Begins, SameTaken, DownloadState
  <2> QED
    BY <1>1, <1>2, <1>5, <1>7, <1>10, <2>2 DEF Answered
<1>11. CASE Retried(p)
  <2>1. e = [d EXCEPT !.pc = "permit", !.tries = d.tries + 1]
    BY <1>3, <1>11 DEF Retried
  <2>2. Resumes(d, e)
    BY <1>2, <1>11, <2>1 DEF Retried, Resumes, SameTaken, DownloadState
  <2> QED
    BY <1>1, <1>2, <1>5, <1>7, <1>11, <2>2 DEF Retried
<1>12. CASE GaveUp(p)
  <2>1. e = [NoDownload EXCEPT !.pc = "failed"]
    BY <1>3, <1>12 DEF GaveUp
  <2>2. Fails(d, e)
    BY <1>12, <2>1, NoDownloadIs DEF GaveUp, Fails, TakesNothing, DownloadPcs
  <2> QED
    BY <1>1, <1>2, <1>5, <1>7, <1>12, <2>2 DEF GaveUp
<1>13. CASE ReadSome(p)
  <2>1. d.from \in Versions
    BY <1>13 DEF ReadSome, BodyVersions
  <2>2. Reads(d, e)
    BY <1>3, <1>13, <2>1 DEF ReadSome, Reads
  <2> QED
    BY <1>1, <1>2, <1>5, <1>7, <1>13, <2>2 DEF ReadSome
<1>14. CASE BrokeOff(p)
  <2>1. e = [d EXCEPT !.pc = "permit", !.from = 0]
    BY <1>3, <1>14 DEF BrokeOff
  <2>2. Resumes(d, e)
    BY <1>2, <1>14, <2>1 DEF BrokeOff, Resumes, SameTaken, DownloadState
  <2> QED
    BY <1>1, <1>2, <1>5, <1>7, <1>14, <2>2 DEF BrokeOff
<1>15. CASE Finished(p)
  <2>1. e = [NoDownload EXCEPT !.pc = "done"]
    BY <1>3, <1>15 DEF Finished
  <2>2. copy'[p] = d.cut \o Chunk_data(d.pending)
    BY <1>2, <1>15 DEF Finished
  <2>3. d.from \in Versions
    BY <1>15 DEF Finished, BodyVersions
  <2>4. Completes(p, d, e)
    BY <1>15, <2>1, <2>2, <2>3, NoDownloadIs DEF Finished, Completes, TakesNothing, DownloadPcs
  <2> QED
    BY <1>1, <1>2, <1>5, <1>7, <2>4
<1> QED
  BY <1>8, <1>9, <1>10, <1>11, <1>12, <1>13, <1>14, <1>15, DownloadSteps

-------------------------------------------------------------------------------
(***************************************************************************)
(* The copy is whole                                                       *)
(*                                                                         *)
(* Inductive is that of what a download has read, the chunks it has cut    *)
(* are the first the whole of some version is cut into: a version no older *)
(* than its entity tag and no newer than what the server has now.  A range *)
(* is served if the entity tag is of what the server has, so that the      *)
(* version that lies between them is the very one that is served.          *)
(***************************************************************************)

Busy == {"permit", "request", "body"}
Mixed == server.ranges /\ ~server.etags

\* Download d, of a file the server has version now of, is of one version.
OneVersion(d, now) ==
  /\ d.pc \notin Busy => d.at = 0
  /\ d.at = 0 => d.pending = << >> /\ d.cut = << >>
  /\ d.pc \in Busy => d.etag <= now /\ (server.etags => d.etag \in Versions)
  /\ d.pc = "body" =>
       /\ d.from \in Versions /\ d.etag <= d.from /\ d.from <= now
       /\ CutAsWhole(d, Pieces(d.from))
  /\ d.pc \in Busy /\ d.at > 0 =>
       /\ d.pc = "request" => server.ranges
       /\ \E v \in Versions : d.etag <= v /\ v <= now /\ CutAsWhole(d, Pieces(v))

WholeInv == Whole /\ (~Mixed => \A p \in Files : OneVersion(down[p], Now(p)))

LEMMA CutAsWholeAgain ==
  ASSUME NEW d, NEW e, SameTaken(d, e), NEW whole, CutAsWhole(d, whole)
  PROVE  CutAsWhole(e, whole)
BY DEF SameTaken, CutAsWhole

\* Before anything is read nothing is cut.
LEMMA NothingRead ==
  ASSUME NEW d \in DownloadState, d.at = 0, d.pending = << >>, d.cut = << >>,
         NEW whole \in Chunk
  PROVE  CutAsWhole(d, whole)
<1>1. Len(d.pending) = 0 /\ d.at - Len(d.pending) = 0 /\ Len(whole) \in Nat
  <2>1. Len(<< >>) = 0
    BY EmptySeq
  <2>2. Len(d.pending) = 0
    BY <2>1, Zenon
  <2>3. d.at - Len(d.pending) = 0
    <3>1. d.at = 0
      OBVIOUS
    <3>2. \A a, k : a = 0 /\ k = 0 => a - k = 0
      OBVIOUS
    <3> QED
      BY <2>2, <3>1, <3>2, Zenon
  <2>4. Len(whole) \in Nat
    BY LenProperties DEF Chunk
  <2> QED
    BY <2>2, <2>3, <2>4
<1>2. SubSeq(whole, 0 + 1, 0) = << >>
  <2>1. 0 \in Nat /\ 0 \in 0 .. Len(whole)
    BY <1>1
  <2>2. \A n \in Nat : \A m \in n .. Len(whole) : n = m => SubSeq(whole, n + 1, m) = << >>
    BY PartIs DEF Chunk
  <2> QED
    BY <2>1, <2>2
<1>3. SubSeq(whole, 0 + 1, Len(whole)) = whole
  BY SubSeqFull DEF Chunk
<1>4. Chunk_data(whole) \in Seq(Chunk)
  BY ChunksUnfold DEF Chunk
<1>5. << >> \o Chunk_data(whole) = Chunk_data(whole)
  BY <1>4, ConcatEmptySeq
<1> QED
  BY <1>1, <1>2, <1>3, <1>5 DEF CutAsWhole

\* What is pending at the end of the body is cut as the end of the whole is.
LEMMA ReadToTheEnd ==
  ASSUME NEW d \in DownloadState, d.from \in Versions, Rest(d) = << >>
  PROVE  /\ d.at >= Len(Body[d.from])
         /\ CutAsWhole(d, Pieces(d.from)) =>
              d.cut \o Chunk_data(d.pending) = Chunk_data(Pieces(d.from))
<1> DEFINE whole == Pieces(d.from)
           L == Len(Body[d.from])
<1>1. whole \in Chunk /\ Len(whole) = L /\ L \in Nat
  BY PiecesIs
<1>2. d.at \in Nat
  BY DEF DownloadState
<1>3. d.at >= L
  <2> SUFFICES ASSUME d.at < L
               PROVE  FALSE
    BY <1>1, <1>2
  <2>1. L \in d.at .. Len(whole) /\ L - d.at # 0
    BY <1>1, <1>2
  <2>2. Len(SubSeq(whole, d.at + 1, L)) = L - d.at
    <3> HIDE DEF whole, L
    <3> QED
      BY <1>1, <1>2, <2>1, PartIs DEF Chunk
  <2>3. Rest(d) = SubSeq(whole, d.at + 1, L)
    BY DEF Rest
  <2> QED
    BY <2>1, <2>2, <2>3, EmptySeq
<1>4. ASSUME CutAsWhole(d, whole)
      PROVE  d.cut \o Chunk_data(d.pending) = Chunk_data(whole)
  <2>1. d.at = L
    <3>1. d.at <= Len(whole)
      BY <1>4 DEF CutAsWhole
    <3> HIDE DEF whole, L
    <3> QED
      BY <1>1, <1>2, <1>3, <3>1
  <2> HIDE DEF whole, L
  <2> QED
    BY <1>1, <1>4, <2>1 DEF CutAsWhole
<1> QED
  BY <1>3, <1>4

\* That somebody writes does not disturb what has been read.
LEMMA StillOneVersion ==
  ASSUME NEW d \in DownloadState, NEW now \in Nat, NEW later \in Nat, now <= later,
         OneVersion(d, now)
  PROVE  OneVersion(d, later)
<1>1. \A v \in Nat : v <= now => v <= later
  BY VersionsAre
<1>2. d.etag \in Nat
  BY VersionsAre DEF DownloadState
<1>3. d.pc \in Busy => d.etag <= later
  BY <1>1, <1>2 DEF OneVersion
<1>4. d.pc = "body" => d.from <= later
  BY <1>1, VersionsAre DEF OneVersion
<1>5. ASSUME NEW v \in Versions, v <= now
      PROVE  v <= later
  BY <1>1, <1>5, VersionsAre
<1> QED
  BY <1>3, <1>4, <1>5 DEF OneVersion

LEMMA NoDownloadOneVersion ==
  ASSUME NEW d, d.pc \notin Busy, d.at = 0, d.pending = << >>, d.cut = << >>, NEW now
  PROVE  OneVersion(d, now)
BY DEF OneVersion, Busy

\* The step of a download of one version leaves it one, whose copy is whole.
LEMMA DownloadOneVersion ==
  ASSUME TypeOK, BodyVersions, ~Mixed, NEW p \in Files, Download(p),
         OneVersion(down[p], Now(p))
  PROVE  /\ OneVersion(down'[p], Now(p))
         /\ copy'[p] = copy[p] \/ \E v \in Versions : copy'[p] = Chunk_data(Pieces(v))
<1> DEFINE d == down[p]
           e == down'[p]
           now == Now(p)
<1>1. /\ d \in DownloadState /\ e \in DownloadState
      /\ now \in Nat /\ (Granted(p) => now \in Versions)
      /\ \/ /\ copy'[p] = copy[p]
            /\ \/ Opens(p, d, e) \/ Asks(d, e) \/ Begins(p, d, e) \/ Resumes(d, e)
               \/ Fails(d, e) \/ Reads(d, e)
         \/ Completes(p, d, e)
  BY DownloadFields, NowIs
<1> SUFFICES /\ OneVersion(e, now)
             /\ copy'[p] = copy[p] \/ \E v \in Versions : copy'[p] = Chunk_data(Pieces(v))
  OBVIOUS
<1> HIDE DEF now
<1>2. now \in Nat /\ d.etag \in Nat /\ d.at \in Nat
  BY <1>1, VersionsAre DEF DownloadState
<1>3. server \in Servers
  BY DEF TypeOK
<1>4. CASE Opens(p, d, e) /\ copy'[p] = copy[p]
  <2>1. d.at = 0 /\ d.pending = << >> /\ d.cut = << >>
    BY <1>4 DEF Opens, OneVersion, Busy
  <2>2. e.at = 0 /\ e.pending = << >> /\ e.cut = << >> /\ e.pc = "permit"
    BY <1>4, <2>1 DEF Opens, SameTaken
  <2>3. e.etag <= now /\ (server.etags => e.etag \in Versions)
    BY <1>1, <1>2, <1>4 DEF Opens, now
  <2>4. OneVersion(e, now)
    BY <2>2, <2>3 DEF OneVersion, Busy, now
  <2> QED
    BY <1>4, <2>4
<1>5. CASE (Asks(d, e) \/ Resumes(d, e)) /\ copy'[p] = copy[p]
  <2>1. /\ d.pc \in Busy /\ e.pc \in {"permit", "request"} /\ SameTaken(d, e) /\ e.etag = d.etag
        /\ e.pc = "request" /\ e.at > 0 => server.ranges
    BY <1>5 DEF Asks, Resumes, Busy, SameTaken
  <2>2. e.at = d.at /\ e.pending = d.pending /\ e.cut = d.cut
    BY <2>1 DEF SameTaken
  <2>3. e.at > 0 => \E v \in Versions : e.etag <= v /\ v <= now /\ CutAsWhole(e, Pieces(v))
    <3> SUFFICES ASSUME e.at > 0
                 PROVE  \E v \in Versions : e.etag <= v /\ v <= now /\ CutAsWhole(e, Pieces(v))
      OBVIOUS
    <3>1. PICK v \in Versions : d.etag <= v /\ v <= now /\ CutAsWhole(d, Pieces(v))
      BY <2>1, <2>2 DEF OneVersion, now
    <3> QED
      BY <2>1, <3>1, CutAsWholeAgain
  <2>4. OneVersion(e, now)
    BY <2>1, <2>2, <2>3 DEF OneVersion, Busy, now
  <2> QED
    BY <1>5, <2>4
<1>6. CASE Begins(p, d, e) /\ copy'[p] = copy[p]
  <2>1. /\ d.pc = "request" /\ d.pc \in Busy /\ e.pc = "body" /\ SameTaken(d, e)
        /\ e.etag = d.etag /\ e.from = now /\ Served(p) /\ now \in Versions
    BY <1>1, <1>6 DEF Begins, Busy, Served, now
  <2>2. e.at = d.at /\ e.pending = d.pending /\ e.cut = d.cut
    BY <2>1 DEF SameTaken
  <2>3. CutAsWhole(e, Pieces(now))
    <3>1. CASE d.at = 0
      <4>1. e.at = 0 /\ e.pending = << >> /\ e.cut = << >>
        BY <2>2, <3>1 DEF OneVersion, now
      <4> QED
        BY <1>1, <2>1, <4>1, NothingRead, PiecesIs
    <3>2. CASE d.at # 0
      <4>1. d.at > 0
        BY <1>2, <3>2
      <4>2. PICK v \in Versions : d.etag <= v /\ v <= now /\ CutAsWhole(d, Pieces(v))
        BY <2>1, <4>1 DEF OneVersion, now
      <4>3. server.etags
        BY <2>1, <4>1 DEF OneVersion, Mixed
      <4>4. d.etag \in Versions
        BY <2>1, <4>3 DEF OneVersion, now
      <4>5. d.etag = now
        BY <2>1, <4>1, <4>4, VersionsAre DEF Served, Matches, now
      <4>6. v = now
        BY <1>2, <4>2, <4>5, VersionsAre
      <4> QED
        BY <2>1, <4>2, <4>6, CutAsWholeAgain
    <3> QED
      BY <3>1, <3>2
  <2>4. e.etag <= now /\ now <= now /\ (server.etags => e.etag \in Versions)
    BY <1>2, <2>1 DEF OneVersion, now
  <2>5. d.at = 0 => d.pending = << >> /\ d.cut = << >>
    BY DEF OneVersion, now
  <2>6. OneVersion(e, now)
    BY <1>1, <2>1, <2>2, <2>3, <2>4, <2>5 DEF OneVersion, Busy, now
  <2> QED
    BY <1>6, <2>6
<1>7. CASE Fails(d, e) /\ copy'[p] = copy[p]
  BY <1>7, NoDownloadOneVersion DEF Fails, TakesNothing, Busy
<1>8. CASE Reads(d, e) /\ copy'[p] = copy[p]
  <2>1. PICK n \in Nat \ {0} : n <= Len(Rest(d)) /\ e = Pass(Arrived(d, n))
    BY <1>8 DEF Reads
  <2>2. d.pc = "body" /\ d.pc \in Busy /\ d.from \in Versions
    BY <1>8 DEF Reads, Busy
  <2>3. CutAsWhole(d, Pieces(d.from)) /\ d.etag <= d.from /\ d.from <= now
    BY <2>2 DEF OneVersion, now
  <2>4. e.pc = d.pc /\ e.etag = d.etag /\ e.from = d.from /\ e.at = d.at + n
    BY <1>1, <2>1, <2>2, ReadIs
  <2>5. CutAsWhole(e, Pieces(d.from))
    <3> DEFINE a == Arrived(d, n)
    <3>1. a \in DownloadState /\ CutAsWhole(a, Pieces(d.from))
      BY <1>1, <2>1, <2>2, <2>3, ArrivedIs, ArrivedCutsAsWhole
    <3> HIDE DEF a
    <3>2. CutAsWhole(Pass(a), Pieces(d.from))
      BY <2>2, <3>1, PassCutsAsWhole, PiecesIs
    <3> QED
      BY <2>1, <3>2 DEF a
  <2>6. e.at # 0
    BY <1>2, <2>4
  <2>7. e.etag <= now /\ (server.etags => e.etag \in Versions)
    BY <2>2, <2>4 DEF OneVersion, now
  <2>8. OneVersion(e, now)
    BY <2>2, <2>3, <2>4, <2>5, <2>6, <2>7 DEF OneVersion, Busy, now
  <2> QED
    BY <1>8, <2>8
<1>9. CASE Completes(p, d, e)
  <2>1. OneVersion(e, now)
    BY <1>9, NoDownloadOneVersion DEF Completes, TakesNothing, Busy
  <2>2. /\ d.pc = "body" /\ d.from \in Versions /\ Rest(d) = << >>
        /\ copy'[p] = d.cut \o Chunk_data(d.pending)
    BY <1>9 DEF Completes
  <2>3. CutAsWhole(d, Pieces(d.from))
    BY <2>2 DEF OneVersion, now
  <2>4. copy'[p] = Chunk_data(Pieces(d.from))
    BY <1>1, <2>2, <2>3, ReadToTheEnd
  <2> QED
    BY <2>1, <2>2, <2>4
<1> QED
  BY <1>1, <1>4, <1>5, <1>6, <1>7, <1>8, <1>9 DEF now

LEMMA WholeStep ==
  ASSUME TypeOK, BodyVersions, WholeInv, Next
  PROVE  WholeInv'
<1>1. server' = server /\ (Mixed' <=> Mixed)
  <2>1. ASSUME NEW p \in Files, Download(p)
        PROVE  server' = server
    BY <2>1, DownloadSteps DEF Steady
  <2>2. server' = server
    BY <2>1 DEF Next, Sync, Change, StartScan, Propfind, ScanFails, Compare, StartUpdate, Put,
                EndUpdate, Crash
  <2> QED
    BY <2>2 DEF Mixed
<1> USE DEF Busy
<1>2. CASE Mixed
  BY <1>1, <1>2 DEF WholeInv, Whole, Mixed
<1> SUFFICES ASSUME ~Mixed
             PROVE  WholeInv'
  BY <1>2
<1>3. \A p \in Files : /\ OneVersion(down[p], Now(p))
                       /\ copy[p] # Absent => \E v \in Versions : copy[p] = Chunk_data(Pieces(v))
  BY DEF WholeInv, Whole, Mixed
<1> SUFFICES ASSUME NEW q \in Files
             PROVE  /\ OneVersion(down[q], Now(q))'
                    /\ copy'[q] # Absent => \E v \in Versions : copy'[q] = Chunk_data(Pieces(v))
  BY <1>1 DEF WholeInv, Whole
<1>4. \A d, now : OneVersion(d, now) => OneVersion(d, now)'
  BY <1>1 DEF OneVersion
<1>5. /\ down[q] \in DownloadState /\ Now(q) \in Nat
      /\ remote \in [Files -> [version : Versions, here : BOOLEAN]]
      /\ Now(q)' = IF Asked(q) \in Files THEN remote'[Asked(q)].version ELSE 0
  BY <1>1, NowIs DEF TypeOK, Now, Asked
<1>6. ASSUME NEW p \in Files, Change(p)
      PROVE  /\ OneVersion(down[q], Now(q))' /\ copy' = copy
  <2>1. PICK v \in Versions, here \in BOOLEAN :
          /\ v >= remote[p].version
          /\ remote' = [remote EXCEPT ![p] = [version |-> v, here |-> here]]
    BY <1>6 DEF Change
  <2>2. UNCHANGED <<copy, down>>
    BY <1>6 DEF Change, caller
  <2>3. Now(q)' \in Nat /\ Now(q) <= Now(q)'
    <3>1. \A f \in Files : remote'[f].version \in Nat /\ remote[f].version <= remote'[f].version
      BY <1>5, <2>1, VersionsAre
    <3>2. CASE Asked(q) \in Files
      BY <1>5, <3>1, <3>2 DEF Now
    <3>3. CASE Asked(q) \notin Files
      <4>1. Now(q)' = 0 /\ Now(q) = 0
        BY <1>5, <3>3 DEF Now
      <4> QED
        BY <4>1
    <3> QED
      BY <3>2, <3>3
  <2>4. OneVersion(down[q], Now(q)')
    BY <1>3, <1>5, <2>3, StillOneVersion
  <2> QED
    BY <1>4, <2>2, <2>4
<1>7. CASE StartScan \/ ScanFails \/ Crash \/ EndUpdate \/ Propfind \/ StartUpdate \/ Compare
             \/ \E p \in Files : Put(p)
  <2>1. remote' = remote
    BY <1>7 DEF StartScan, ScanFails, Crash, EndUpdate, Propfind, StartUpdate, Compare, Put
  <2>2. \/ down'[q] = down[q]
        \/ down'[q] = NoDownload
        \/ \E pc \in {"open"} : down'[q] = [NoDownload EXCEPT !.pc = pc]
    BY <1>7 DEF StartScan, ScanFails, Crash, EndUpdate, Propfind, StartUpdate, Compare, Put
  <2>3. copy'[q] \in {copy[q], Absent}
    BY <1>7 DEF StartScan, ScanFails, Crash, EndUpdate, Propfind, StartUpdate, Compare, Put
  <2>4. down'[q] # down[q] =>
          /\ down'[q].pc \notin Busy /\ down'[q].at = 0
          /\ down'[q].pending = << >> /\ down'[q].cut = << >>
    BY <2>2, NoDownloadIs DEF DownloadPcs
  <2>5. OneVersion(down'[q], Now(q))
    BY <1>3, <2>4, NoDownloadOneVersion
  <2>6. OneVersion(down[q], Now(q))'
    BY <1>4, <1>5, <2>1, <2>5 DEF Now
  <2> QED
    BY <1>3, <2>3, <2>6
<1>8. ASSUME NEW p \in Files, Download(p)
      PROVE  /\ OneVersion(down[q], Now(q))'
             /\ copy'[q] = copy[q] \/ \E v \in Versions : copy'[q] = Chunk_data(Pieces(v))
  <2>1. remote' = remote
    BY <1>8, DownloadSteps DEF Steady
  <2>2. q # p => down'[q] = down[q] /\ copy'[q] = copy[q]
    BY <1>8, DownloadFields
  <2>3. /\ OneVersion(down'[q], Now(q))
        /\ copy'[q] = copy[q] \/ \E v \in Versions : copy'[q] = Chunk_data(Pieces(v))
    BY <1>3, <1>8, <2>2, DownloadOneVersion
  <2>4. Now(q)' = Now(q)
    BY <1>5, <2>1 DEF Now
  <2> QED
    BY <1>4, <2>3, <2>4
<1> QED
  BY <1>3, <1>6, <1>7, <1>8 DEF Next, Sync

\* A copy is all of one version, cut into the chunks it is cut into at one go, whatever
\* reads it came in and however often it was resumed.
THEOREM CopiesAreWhole == Spec => []Whole
<1>1. Init => WholeInv
  <2> SUFFICES ASSUME Init
               PROVE  WholeInv
    OBVIOUS
  <2>1. \A p \in Files : down[p] = NoDownload /\ copy[p] = Absent
    BY DEF Init
  <2>2. \A p \in Files : OneVersion(down[p], Now(p))
    BY <2>1, NoDownloadIs, NoDownloadOneVersion DEF Busy
  <2> QED
    BY <2>1, <2>2 DEF WholeInv, Whole
<1>2. TypeOK /\ BodyVersions /\ WholeInv /\ [Next]_vars => WholeInv'
  <2>1. WholeInv /\ UNCHANGED vars => WholeInv'
    BY Stutter DEF WholeInv, Whole, Mixed, OneVersion, Now, Asked
  <2> QED
    BY <2>1, WholeStep
<1>3. WholeInv => Whole
  BY DEF WholeInv
<1> QED
  BY <1>1, <1>2, <1>3, TypeCorrect, PTL DEF Spec

-------------------------------------------------------------------------------
(***************************************************************************)
(* A quiet round makes the copy level                                      *)
(*                                                                         *)
(* Inductive is that a copy is of the version its entry is of or of a      *)
(* later one, but for astray files; that what is being copied is what has  *)
(* changed; and that the scan has found what is there, but for what is in  *)
(* or below a directory that it is still to list.                          *)
(***************************************************************************)

\* A download has the end of what it has read, and of a version that is read to the
\* end, its last piece.
Holds(p) ==
  LET d == down[p]
  IN  /\ d.at > 0 => d.pending # << >>
      /\ d.pc = "body" =>
           /\ d.from <= remote[p].version
           /\ p \in DOMAIN scan.found => scan.found[p] <= d.from
           /\ d.at > 0 /\ d.at >= Len(Body[d.from]) => Last(d.pending)[1] = d.from

\* What is being downloaded has changed; what is put has not, or was downloaded.
Downloads ==
  /\ \A p \in Files : down[p].pc \notin {"none", "done", "failed"} =>
       scan.pc = "fetch" /\ p \in diff.changed
  /\ scan.pc = "fetch" =>
       diff = Diff_with_cache /\ \A p \in Files : down[p].pc = "none" <=> p \notin diff.changed
  /\ scan.pc = "update" =>
       /\ \A p \in diff.unchanged : Same(p)
       /\ \A p \in diff.changed : down[p].pc = "done" \/ p \in Failed \cap astray
       /\ diff.deleted \cap DOMAIN scan.found = {}

\* D has all there is below its directories.
Closed(D) == \A d \in D : Children[d] \ Files \subseteq D

\* What was found was there, and is unless somebody wrote to it since; what was not
\* is in or below a directory that is still to be listed, if they are asked for as they
\* are.
Scanned ==
  /\ \A p \in DOMAIN scan.found :
       /\ scan.found[p] <= remote[p].version
       /\ quiet => remote[p].here /\ scan.found[p] = remote[p].version
  /\ scan.pc = "list" /\ quiet /\ DirectoriesAsIs =>
       \A D \in SUBSET DOMAIN Children :
         Closed(D) /\ (\A i \in 1 .. Len(scan.dirs) : scan.dirs[i] \in D) =>
           \A p \in Files : remote[p].here =>
             p \in DOMAIN scan.found \/ \E d \in D : p \in Children[d]
  /\ scan.pc = "fetch" /\ quiet /\ DirectoriesAsIs =>
       \A p \in Files : remote[p].here => p \in DOMAIN scan.found

Copied(p) ==
  copy[p] # Absent /\ Version(copy[p]) \in Versions /\ Version(copy[p]) <= remote[p].version

\* The copy of a file is of the version its entry is of, or of a later one.
Consistent(p) ==
  IF Live(p)
    THEN /\ Copied(p)
         /\ \E u \in Versions : u <= Version(copy[p]) /\ Stamp[u] = Stamp[cache[p].version]
    ELSE copy[p] = Absent

\* Its entry is still to be put of what was downloaded, or to be marked as deleted.
Fetched(p) == Working /\ p \in diff.changed /\ down[p].pc = "done"
Gone(p) == Working /\ p \in diff.deleted

EntryOK(p) ==
  /\ Fetched(p) => Copied(p) /\ scan.found[p] <= Version(copy[p])
  /\ Gone(p) => copy[p] = Absent
  /\ p \notin astray /\ ~Fetched(p) /\ ~Gone(p) => Consistent(p)

LevelInv ==
  /\ Downloads /\ Scanned /\ RoundLevels
  /\ \A p \in Files : AskedAsIs(p) => Holds(p) /\ EntryOK(p)

LEMMA StillAsked ==
  ASSUME UNCHANGED server
  PROVE  (DirectoriesAsIs' <=> DirectoriesAsIs) /\ \A p : AskedAsIs(p)' <=> AskedAsIs(p)
<1>1. \A p : AskedAsIs(p)' <=> AskedAsIs(p)
  BY DEF AskedAsIs, Asked
<1> QED
  BY <1>1 DEF DirectoriesAsIs

\* What the steps of the caller but a listing make of the scan.
LEMMA ScanIs ==
  ASSUME TypeOK
  PROVE  /\ StartScan => scan.pc = "idle" /\ scan'.pc = "list" /\ scan'.dirs = <<Root>> /\ scan'.found = << >>
         /\ ScanFails => scan.pc = "list" /\ scan'.pc = "idle" /\ scan'.found = << >>
         /\ Crash => scan'.pc = "idle" /\ scan'.found = << >>
         /\ Compare => scan.pc = "list" /\ scan.dirs = << >> /\ scan'.pc = "fetch" /\ scan'.found = scan.found
         /\ StartUpdate => scan.pc = "fetch" /\ scan'.pc = "update" /\ scan'.found = scan.found
         /\ EndUpdate => scan.pc = "update" /\ scan'.pc = "idle" /\ scan'.found = scan.found
<1>1. scan = [pc |-> scan.pc, dirs |-> scan.dirs, found |-> scan.found]
  BY DEF TypeOK, ScanTypeOK
<1>2. Compare => scan'.pc = "fetch" /\ scan'.found = scan.found
  BY <1>1 DEF Compare
<1>3. StartUpdate => scan'.pc = "update" /\ scan'.found = scan.found
  BY <1>1 DEF StartUpdate
<1>4. EndUpdate => scan'.pc = "idle" /\ scan'.found = scan.found
  BY <1>1 DEF EndUpdate
<1> QED
  BY <1>2, <1>3, <1>4 DEF StartScan, ScanFails, Crash, Compare, StartUpdate, EndUpdate

\* A download that takes a step is under way, and its file has changed.
LEMMA Downloading ==
  ASSUME TypeOK, BodyVersions, Downloads, NEW p \in Files, Download(p)
  PROVE  /\ scan.pc = "fetch" /\ p \in diff.changed /\ Fetched(p) = FALSE
         /\ diff = Diff_with_cache /\ p \in DOMAIN scan.found /\ ~Gone(p)
         /\ down'[p].pc \in {"permit", "request", "body", "failed", "done"}
<1>1. down[p].pc \in {"open", "permit", "request", "body"} /\ down[p].pc \notin {"none", "done", "failed"}
  BY DownloadSteps
     DEF Opened, Requested, Answered, Retried, GaveUp, ReadSome, BrokeOff, Finished
<1>2. scan.pc = "fetch" /\ p \in diff.changed /\ diff = Diff_with_cache
  BY <1>1 DEF Downloads
<1>3. p \in DOMAIN scan.found /\ p \notin diff.deleted
  BY <1>2 DEF Diff_with_cache
<1>4. down'[p].pc \in {"permit", "request", "body", "failed", "done"}
  <2>1. down[p] \in DownloadState
    BY DEF TypeOK
  <2>2. Reads(down[p], down'[p]) => down'[p].pc = "body"
    BY <2>1, ReadIs DEF Reads
  <2> QED
    BY <2>2, DownloadFields DEF Opens, Asks, Begins, Resumes, Fails, Completes
<1> QED
  BY <1>1, <1>2, <1>3, <1>4 DEF Fetched, Gone

LEMMA LevelChange ==
  ASSUME TypeOK, BodyVersions, LevelInv, NEW q \in Files, Change(q)
  PROVE  LevelInv'
<1>1. UNCHANGED <<server, cache, copy, scan, diff, down, astray>> /\ quiet' = FALSE
  BY DEF Change, caller
<1>2. \A p \in Files : /\ remote[p].version \in Versions /\ remote'[p].version \in Versions
                       /\ remote[p].version <= remote'[p].version
  <2>1. PICK v \in Versions, here \in BOOLEAN :
          /\ v >= remote[q].version
          /\ remote' = [remote EXCEPT ![q] = [version |-> v, here |-> here]]
    BY DEF Change
  <2> QED
    BY <2>1, VersionsAre DEF TypeOK
<1>3. \A p \in Files, v \in Versions : v <= remote[p].version => v <= remote'[p].version
  <2> SUFFICES ASSUME NEW p \in Files, NEW v \in Versions, v <= remote[p].version
               PROVE  v <= remote'[p].version
    OBVIOUS
  <2>1. v \in Nat /\ remote[p].version \in Nat /\ remote'[p].version \in Nat
    BY <1>2, VersionsAre
  <2> QED
    BY <1>2, <2>1
<1>4. Downloads'
  BY <1>1 DEF LevelInv, Downloads, Diff_with_cache, Same, Live, Failed
<1>5. Scanned'
  <2>1. \A p \in DOMAIN scan.found : scan.found[p] \in Versions /\ p \in Files
    BY DEF TypeOK, ScanTypeOK
  <2> QED
    BY <1>1, <1>3, <2>1 DEF LevelInv, Scanned
<1>6. RoundLevels'
  BY <1>1 DEF RoundLevels
<1>7. ASSUME NEW p \in Files, AskedAsIs(p)
      PROVE  Holds(p)' /\ EntryOK(p)'
  <2>1. down[p].pc = "body" => down[p].from \in Versions
    BY DEF BodyVersions
  <2>2. Holds(p)'
    BY <1>1, <1>3, <1>7, <2>1 DEF LevelInv, Holds
  <2>3. Copied(p) => Copied(p)'
    BY <1>1, <1>3 DEF Copied
  <2> QED
    BY <1>1, <1>7, <2>2, <2>3 DEF LevelInv, EntryOK, Fetched, Gone, Working, Consistent, Live
<1> QED
  BY <1>1, StillAsked, <1>4, <1>5, <1>6, <1>7 DEF LevelInv

\* With no files found and no file compared, what was fetched or is gone is astray or
\* its entry was put.
LEMMA LevelScan ==
  ASSUME TypeOK, BodyVersions, LevelInv, StartScan \/ ScanFails \/ Crash \/ EndUpdate
  PROVE  LevelInv'
<1>1. /\ UNCHANGED <<server, remote, cache, copy>>
      /\ scan'.pc \in {"idle", "list"} /\ ~Working'
  <2>1. UNCHANGED <<server, remote, cache, copy>>
    BY DEF StartScan, ScanFails, Crash, EndUpdate
  <2>2. scan'.pc \in {"idle", "list"}
    BY ScanIs
  <2> QED
    BY <2>1, <2>2 DEF Working
<1>2. ASSUME NEW p \in Files
      PROVE  down'[p].pc \in {"none", "done", "failed"} /\ (down'[p] = down[p] \/ down'[p] = NoDownload)
  <2>1. CASE ScanFails \/ EndUpdate
    <3>1. scan.pc \in {"list", "update"} /\ down' = down
      BY <2>1, ScanIs DEF ScanFails, EndUpdate
    <3> QED
      BY <3>1 DEF LevelInv, Downloads
  <2>2. CASE StartScan \/ Crash
    BY <2>2, NoDownloadIs DEF StartScan, Crash
  <2> QED
    BY <2>1, <2>2
<1>3. Downloads'
  BY <1>1, <1>2 DEF Downloads
<1>4. Scanned'
  <2>1. CASE StartScan
    <3>1. scan'.pc = "list" /\ scan'.dirs = <<Root>> /\ DOMAIN scan'.found = {}
      BY <2>1, ScanIs, EmptySeq
    <3>2. ASSUME NEW D \in SUBSET DOMAIN Children, Closed(D),
                 \A i \in 1 .. Len(scan'.dirs) : scan'.dirs[i] \in D
          PROVE  \A p \in Files : \E d \in D : p \in Children[d]
      <4>1. Root \in D
        <5>1. Len(<<Root>>) = 1 /\ <<Root>>[1] = Root
          OBVIOUS
        <5>2. 1 \in 1 .. 1
          OBVIOUS
        <5> QED
          BY <3>1, <3>2, <5>1, <5>2
      <4>2. Files \subseteq UNION {Children[d] : d \in D}
        BY <3>2, <4>1, TreeAssumption DEF Closed
      <4> QED
        BY <4>2
    <3> QED
      BY <3>1, <3>2 DEF Scanned, Closed
  <2>2. CASE ScanFails \/ Crash
    <3>1. scan'.pc = "idle" /\ DOMAIN scan'.found = {}
      BY <2>2, ScanIs, EmptySeq
    <3> QED
      BY <3>1 DEF Scanned
  <2>3. CASE EndUpdate
    <3>1. scan'.pc = "idle" /\ scan'.found = scan.found /\ quiet' = quiet
      BY <2>3, ScanIs DEF EndUpdate
    <3> QED
      BY <1>1, <3>1 DEF LevelInv, Scanned
  <2> QED
    BY <2>1, <2>2, <2>3
<1>5. RoundLevels'
  BY <1>1 DEF RoundLevels
<1>6. ASSUME NEW p \in Files, AskedAsIs(p)
      PROVE  Holds(p)' /\ EntryOK(p)'
  <2>1. Holds(p)'
    BY <1>2, <1>6, NoDownloadIs DEF LevelInv, Holds
  <2>2. p \notin astray' => p \notin astray /\ ~Fetched(p) /\ ~Gone(p)
    <3>1. CASE StartScan \/ ScanFails
      BY <3>1, ScanIs DEF StartScan, ScanFails, Fetched, Gone, Working
    <3>2. CASE EndUpdate
      BY <3>2 DEF EndUpdate, NoDiff, Fetched, Gone
    <3>3. CASE Crash
      BY <3>3 DEF Crash, Fetched, Gone
    <3> QED
      BY <3>1, <3>2, <3>3
  <2>3. Consistent(p)' <=> Consistent(p)
    BY <1>1 DEF Consistent, Live, Copied
  <2>4. EntryOK(p)'
    BY <1>1, <1>6, <2>2, <2>3 DEF LevelInv, EntryOK, Fetched, Gone
  <2> QED
    BY <2>1, <2>4
<1> QED
  BY <1>1, StillAsked, <1>3, <1>4, <1>5, <1>6 DEF LevelInv

LEMMA LevelPropfind ==
  ASSUME TypeOK, BodyVersions, LevelInv, Propfind
  PROVE  LevelInv'
<1> DEFINE dir == Head(scan.dirs)
           files == {f \in Children_of(Asked(dir)) \cap Files : remote[f].here}
<1>1. UNCHANGED <<server, remote, cache, copy, diff, down, astray, quiet>> /\ scan.pc = "list"
  BY DEF Propfind
<1>2. /\ scan'.pc = "list" /\ dir \in DOMAIN Children
      /\ scan'.found = Listing(dir)
      /\ \A i \in 1 .. Len(scan.dirs) :
           scan.dirs[i] = dir \/ \E j \in 1 .. Len(scan'.dirs) : scan'.dirs[j] = scan.dirs[i]
      /\ \A d \in Directories(dir) : \E j \in 1 .. Len(scan'.dirs) : scan'.dirs[j] = d
  BY PropfindIs
<1>3. /\ DOMAIN scan'.found = files \cup DOMAIN scan.found
      /\ \A p \in files \cup DOMAIN scan.found :
           scan'.found[p] = IF p \in files THEN remote[p].version ELSE scan.found[p]
  BY <1>2 DEF Listing
<1>4. \A p \in Files : down[p].pc \in {"none", "done", "failed"}
  BY <1>1 DEF LevelInv, Downloads
<1>5. Downloads'
  BY <1>1, <1>2, <1>4 DEF Downloads
<1>6. \A p \in DOMAIN scan'.found :
        /\ scan'.found[p] <= remote[p].version
        /\ quiet => remote[p].here /\ scan'.found[p] = remote[p].version
  <2>1. \A p \in Files : remote[p].version <= remote[p].version
    BY VersionsAre DEF TypeOK
  <2> QED
    BY <1>3, <2>1 DEF LevelInv, Scanned
<1>7. ASSUME quiet, DirectoriesAsIs, NEW D \in SUBSET DOMAIN Children, Closed(D),
             \A i \in 1 .. Len(scan'.dirs) : scan'.dirs[i] \in D,
             NEW p \in Files, remote[p].here
      PROVE  p \in DOMAIN scan'.found \/ \E d \in D : p \in Children[d]
  <2> DEFINE E == D \cup {dir}
  <2>1. E \in SUBSET DOMAIN Children
    BY <1>2
  <2>0. Asked(dir) = dir /\ Children_of(dir) = Children[dir]
    BY <1>2, <1>7, TreeAssumption DEF DirectoriesAsIs, AskedAsIs, Children_of
  <2>2. Closed(E)
    <3>1. Children[dir] \ Files \subseteq E
      BY <1>2, <1>7, <2>0 DEF Directories
    <3> QED
      BY <1>7, <3>1 DEF Closed
  <2>3. \A i \in 1 .. Len(scan.dirs) : scan.dirs[i] \in E
    BY <1>2, <1>7
  <2> HIDE DEF E
  <2>4. p \in DOMAIN scan.found \/ \E d \in E : p \in Children[d]
    BY <1>1, <1>7, <2>1, <2>2, <2>3 DEF LevelInv, Scanned
  <2> QED
    BY <1>3, <1>7, <2>0, <2>4 DEF E
<1>8. Scanned'
  BY <1>1, <1>2, <1>6, <1>7, StillAsked DEF Scanned, Closed
<1>9. RoundLevels'
  BY <1>2 DEF RoundLevels
<1>10. ASSUME NEW p \in Files, AskedAsIs(p)
       PROVE  Holds(p)' /\ EntryOK(p)'
  <2>1. Holds(p)'
    BY <1>1, <1>4, <1>10 DEF LevelInv, Holds
  <2>2. ~Working /\ ~Working'
    BY <1>1, <1>2 DEF Working
  <2>3. Consistent(p)' <=> Consistent(p)
    BY <1>1 DEF Consistent, Live, Copied
  <2> QED
    BY <1>1, <1>10, <2>1, <2>2, <2>3 DEF LevelInv, EntryOK, Fetched, Gone
<1> QED
  BY <1>1, StillAsked, <1>5, <1>8, <1>9, <1>10 DEF LevelInv

LEMMA LevelCompare ==
  ASSUME TypeOK, BodyVersions, LevelInv, Compare
  PROVE  LevelInv'
<1>1. /\ scan.pc = "list" /\ scan.dirs = << >> /\ scan'.pc = "fetch" /\ scan'.found = scan.found
      /\ UNCHANGED <<server, remote, cache, astray, quiet>> /\ diff' = Diff_with_cache
  BY ScanIs DEF Compare
<1>2. /\ \A p \in Files : copy'[p] = IF p \in diff'.deleted THEN Absent ELSE copy[p]
      /\ \A p \in Files : down'[p] = IF p \in diff'.changed THEN [NoDownload EXCEPT !.pc = "open"]
                                     ELSE NoDownload
  BY DEF Compare
<1>3. \A p \in Files : /\ down'[p].pc = IF p \in diff'.changed THEN "open" ELSE "none"
                       /\ down'[p].at = 0
  BY <1>2, NoDownloadIs DEF DownloadPcs
<1>4. diff' = Diff_with_cache'
  BY <1>1 DEF Diff_with_cache, Same, Live
<1>5. Downloads'
  BY <1>1, <1>3, <1>4 DEF Downloads
<1>6. ASSUME quiet, DirectoriesAsIs, NEW p \in Files, remote[p].here
      PROVE  p \in DOMAIN scan.found
  <2>1. /\ {} \in SUBSET DOMAIN Children /\ Closed({})
        /\ \A i \in 1 .. Len(scan.dirs) : scan.dirs[i] \in {}
    <3>1. Len(scan.dirs) = 0
      BY <1>1, EmptySeq
    <3>2. 1 .. 0 = {}
      OBVIOUS
    <3> QED
      BY <3>1, <3>2 DEF Closed
  <2> QED
    BY <1>1, <1>6, <2>1 DEF LevelInv, Scanned
<1>7. Scanned'
  BY <1>1, <1>6, StillAsked DEF LevelInv, Scanned
<1>8. RoundLevels'
  BY <1>1 DEF RoundLevels
<1>9. ASSUME NEW p \in Files, AskedAsIs(p)
      PROVE  Holds(p)' /\ EntryOK(p)'
  <2>1. down'[p].pc \in {"open", "none"} /\ down'[p].at = 0
    BY <1>3
  <2>2. Holds(p)'
    BY <2>1 DEF Holds
  <2>3. ~Working
    BY <1>1 DEF Working
  <2>4. p \notin astray => Consistent(p)
    BY <1>9, <2>3 DEF LevelInv, EntryOK, Fetched, Gone
  <2>5. p \notin diff'.deleted /\ Consistent(p) => Consistent(p)'
    BY <1>1, <1>2 DEF Consistent, Live, Copied
  <2>6. ~Fetched(p)'
    BY <2>1 DEF Fetched
  <2>7. Gone(p)' <=> p \in diff'.deleted
    BY <1>1 DEF Gone, Working
  <2>8. Gone(p)' => copy'[p] = Absent
    BY <1>2, <2>7
  <2>9. p \notin astray' /\ ~Gone(p)' => Consistent(p)'
    BY <1>1, <2>4, <2>5, <2>7
  <2> QED
    BY <2>2, <2>6, <2>8, <2>9 DEF EntryOK
<1> QED
  BY <1>1, StillAsked, <1>5, <1>7, <1>8, <1>9 DEF LevelInv

\* The copy of a file that was read to its end is of the version that was served.
LEMMA CopyIs ==
  ASSUME NEW d \in DownloadState, d.pending # << >>
  PROVE  LET chunks == d.cut \o Chunk_data(d.pending)
         IN  chunks # Absent /\ Version(chunks) = Last(d.pending)[1]
<1> DEFINE c == Chunk_data(d.pending)
           all == d.cut \o c
<1>1. d.pending \in Chunk /\ d.cut \in Seq(Chunk)
  BY DEF DownloadState
<1>2. c \in Seq(Chunk) /\ c # << >> /\ Last(Last(c)) = Last(d.pending)
  BY <1>1, LastChunk
<1> HIDE DEF c
<1>3. Len(c) \in Nat \ {0} /\ Len(d.cut) \in Nat
  BY <1>1, <1>2, EmptySeq
<1>4. /\ Len(all) = Len(d.cut) + Len(c)
      /\ \A i \in 1 .. Len(d.cut) + Len(c) :
           all[i] = IF i <= Len(d.cut) THEN d.cut[i] ELSE c[i - Len(d.cut)]
  BY <1>1, <1>2, ConcatProperties
<1>5. PICK k \in Nat, m \in Nat \ {0} : k = Len(d.cut) /\ m = Len(c)
  BY <1>3
<1> HIDE DEF all
<1>6. k + m \in 1 .. k + m /\ ~(k + m <= k) /\ (k + m) - k = m
  BY <1>5
<1>7. Len(all) = k + m /\ all[k + m] = c[m]
  BY <1>4, <1>5, <1>6
<1>8. Last(all) = Last(c)
  BY <1>5, <1>7 DEF Last
<1>9. all # << >>
  BY <1>6, <1>7, EmptySeq
<1>10. all # Absent /\ Version(all) = Last(d.pending)[1]
  BY <1>2, <1>8, <1>9 DEF Version, Absent
<1> QED
  BY <1>10 DEF all, c

LEMMA DownloadHolds ==
  ASSUME TypeOK, BodyVersions, LevelInv, NEW p \in Files, AskedAsIs(p),
         Download(p)
  PROVE  /\ Holds(p)'
         /\ down'[p].pc # "done" => copy'[p] = copy[p]
         /\ down'[p].pc = "done" => Copied(p)' /\ scan.found[p] <= Version(copy'[p])
<1> DEFINE d == down[p]
           e == down'[p]
           now == remote[p].version
<1>1. /\ d \in DownloadState /\ e \in DownloadState /\ now \in Versions /\ Now(p) = now
      /\ \/ /\ copy'[p] = copy[p]
            /\ \/ Opens(p, d, e) \/ Asks(d, e) \/ Begins(p, d, e) \/ Resumes(d, e)
               \/ Fails(d, e) \/ Reads(d, e)
         \/ Completes(p, d, e)
      /\ remote' = remote /\ scan' = scan
  BY DownloadFields, NowIs DEF TypeOK, Steady
<1>2. now \in Nat /\ d.at \in Nat
  BY <1>1, VersionsAre DEF DownloadState
<1>3. p \in DOMAIN scan.found /\ scan.found[p] \in Versions /\ scan.found[p] <= now
  BY Downloading DEF LevelInv, Scanned, TypeOK, ScanTypeOK
<1>4. Holds(p)
  BY DEF LevelInv
<1> SUFFICES /\ Holds(p)' /\ (e.pc # "done" => copy'[p] = copy[p])
             /\ e.pc = "done" => Copied(p)' /\ scan.found[p] <= Version(copy'[p])
  OBVIOUS
<1>5. CASE Opens(p, d, e) \/ Asks(d, e) \/ Resumes(d, e)
  <2>1. e.pc \in {"permit", "request"} /\ SameTaken(d, e) /\ copy'[p] = copy[p]
    BY <1>1, <1>5 DEF Opens, Asks, Resumes, Completes
  <2> QED
    BY <1>4, <2>1 DEF Holds, SameTaken
<1>6. CASE Begins(p, d, e)
  <2>1. /\ e.pc = "body" /\ SameTaken(d, e) /\ e.from = now /\ Served(p) /\ copy'[p] = copy[p]
    BY <1>1, <1>6 DEF Begins, Completes
  <2>2. e.at > 0 => ~(e.at >= Len(Body[now]))
    <3>1. Len(Body[now]) \in Nat
      BY <1>1, PiecesIs
    <3>2. d.at > 0 => d.at < Len(Body[now])
      BY <1>1, <2>1 DEF Served
    <3>3. e.at = d.at
      BY <2>1 DEF SameTaken
    <3> QED
      BY <1>2, <3>1, <3>2, <3>3
  <2>3. now <= now
    BY <1>2
  <2> QED
    BY <1>1, <1>3, <1>4, <2>1, <2>2, <2>3 DEF Holds, SameTaken
<1>7. CASE Fails(d, e)
  BY <1>1, <1>7 DEF Fails, TakesNothing, Holds, Completes
<1>8. CASE Reads(d, e)
  <2>1. PICK n \in Nat \ {0} : n <= Len(Rest(d)) /\ e = Pass(Arrived(d, n))
    BY <1>8 DEF Reads
  <2>2. d.pc = "body" /\ d.from \in Versions
    BY <1>8 DEF Reads
  <2>3. /\ e.pc = "body" /\ e.from = d.from /\ e.pending # << >>
        /\ Last(e.pending) = <<d.from, d.at + n>>
    BY <1>1, <2>1, <2>2, ReadIs
  <2>4. copy'[p] = copy[p]
    BY <1>1, <2>3 DEF Completes
  <2>5. d.from <= now /\ scan.found[p] <= d.from
    BY <1>3, <1>4, <2>2 DEF Holds
  <2>6. Last(e.pending)[1] = e.from
    BY <2>3
  <2>7. Holds(p)'
    BY <1>1, <2>3, <2>5, <2>6 DEF Holds
  <2> QED
    BY <2>3, <2>4, <2>7
<1>9. CASE Completes(p, d, e)
  <2>1. /\ d.pc = "body" /\ d.from \in Versions /\ Rest(d) = << >> /\ e.pc = "done"
        /\ e.at = 0 /\ copy'[p] = d.cut \o Chunk_data(d.pending)
    BY <1>9 DEF Completes, TakesNothing
  <2>2. d.at >= Len(Body[d.from]) /\ Len(Body[d.from]) \in Nat \ {0}
    BY <1>1, <2>1, ReadToTheEnd, PiecesIs
  <2>3. d.at > 0
    BY <1>2, <2>2
  <2>4. d.pending # << >> /\ Last(d.pending)[1] = d.from /\ d.from <= now /\ scan.found[p] <= d.from
    BY <1>3, <1>4, <2>1, <2>2, <2>3 DEF Holds
  <2>5. copy'[p] # Absent /\ Version(copy'[p]) = d.from
    BY <1>1, <2>1, <2>4, CopyIs
  <2>6. Copied(p)'
    BY <1>1, <2>1, <2>4, <2>5 DEF Copied, Version
  <2>7. Holds(p)'
    BY <2>1 DEF Holds
  <2> QED
    BY <2>1, <2>4, <2>5, <2>6, <2>7
<1> QED
  BY <1>1, <1>5, <1>6, <1>7, <1>8, <1>9

LEMMA LevelDownload ==
  ASSUME TypeOK, BodyVersions, LevelInv, NEW q \in Files, Download(q)
  PROVE  LevelInv'
<1>1. /\ UNCHANGED <<server, remote, cache, scan, diff, astray, quiet>>
      /\ \A p \in Files : p # q => down'[p] = down[p] /\ copy'[p] = copy[p]
  BY DownloadFields DEF Steady
<1>2. /\ scan.pc = "fetch" /\ q \in diff.changed /\ ~Fetched(q)
      /\ diff = Diff_with_cache /\ q \in DOMAIN scan.found /\ ~Gone(q)
      /\ down'[q].pc \in {"permit", "request", "body", "failed", "done"}
  BY Downloading DEF LevelInv
<1>3. Diff_with_cache' = Diff_with_cache
  BY <1>1 DEF Diff_with_cache, Same, Live
<1>4. Downloads'
  <2>1. \A p \in Files : down'[p].pc \notin {"none", "done", "failed"} => p \in diff.changed
    BY <1>1, <1>2 DEF LevelInv, Downloads
  <2>2. \A p \in Files : down'[p].pc = "none" <=> p \notin diff.changed
    BY <1>1, <1>2 DEF LevelInv, Downloads
  <2> QED
    BY <1>1, <1>2, <1>3, <2>1, <2>2 DEF Downloads
<1>5. Scanned'
  BY <1>1, StillAsked DEF LevelInv, Scanned
<1>6. RoundLevels'
  BY <1>1, <1>2 DEF RoundLevels
<1>7. ASSUME NEW p \in Files, AskedAsIs(p)
      PROVE  Holds(p)' /\ EntryOK(p)'
  <2>1. CASE p # q
    BY <1>1, <1>7, <2>1
       DEF LevelInv, Holds, EntryOK, Fetched, Gone, Working, Consistent, Live, Copied
  <2>2. CASE p = q
    <3>1. /\ Holds(p)' /\ (down'[p].pc # "done" => copy'[p] = copy[p])
          /\ down'[p].pc = "done" => Copied(p)' /\ scan.found[p] <= Version(copy'[p])
      BY <1>7, <2>2, DownloadHolds
    <3>2. ~Gone(p)' /\ ~Gone(p) /\ ~Fetched(p)
      BY <1>1, <1>2, <2>2 DEF Gone, Working
    <3>3. Fetched(p)' <=> down'[p].pc = "done"
      BY <1>1, <1>2, <2>2 DEF Fetched, Working
    <3>4. Fetched(p)' => (Copied(p) /\ scan.found[p] <= Version(copy[p]))'
      BY <1>1, <3>1, <3>3
    <3>5. ~Fetched(p)' /\ p \notin astray' => Consistent(p)'
      <4> SUFFICES ASSUME ~Fetched(p)', p \notin astray
                   PROVE  Consistent(p)'
        BY <1>1
      <4>1. Consistent(p) /\ copy'[p] = copy[p]
        BY <1>7, <3>1, <3>2, <3>3 DEF LevelInv, EntryOK
      <4> QED
        BY <1>1, <4>1 DEF Consistent, Live, Copied
    <3> QED
      BY <3>1, <3>2, <3>4, <3>5 DEF EntryOK
  <2> QED
    BY <2>1, <2>2
<1> QED
  BY <1>1, StillAsked, <1>4, <1>5, <1>6, <1>7 DEF LevelInv

\* Once nobody has written since the scan began, and nothing is being downloaded, the
\* copy of a file is level with the server, or its download failed, or it is astray.
LEMMA CopyLevel ==
  ASSUME TypeOK, BodyVersions, LevelInv, StartUpdate, quiet, DirectoriesAsIs,
         NEW p \in Files, AskedAsIs(p), p \notin Failed, p \notin astray'
  PROVE  Level(p) \/ Unseen(p)
<1> DEFINE now == remote[p].version
           c == Version(copy[p])
<1>1. /\ scan.pc = "fetch" /\ down[p].pc \in {"none", "done", "failed"} /\ Working
      /\ diff = Diff_with_cache
      /\ down[p].pc = "none" <=> p \notin diff.changed
  BY DEF StartUpdate, LevelInv, Downloads, Working
<1>2. p \in diff.changed => Fetched(p)
  BY <1>1 DEF Failed, Fetched
<1>3. p \notin diff.changed /\ p \notin diff.deleted => p \notin astray /\ ~Fetched(p) /\ ~Gone(p)
  BY StartUpdateIs DEF Fetched, Gone
<1>4. EntryOK(p)
  BY DEF LevelInv
<1>5. /\ diff.changed = {q \in DOMAIN scan.found : ~Same(q)}
      /\ diff.deleted = {q \in Files \ DOMAIN scan.found : Live(q)}
  BY <1>1 DEF Diff_with_cache
<1>6. now \in Versions /\ now \in Nat
  BY VersionsAre DEF TypeOK
<1>7. CASE p \in DOMAIN scan.found
  <2>1. remote[p].here /\ scan.found[p] = now
    BY <1>7 DEF LevelInv, Scanned
  <2>2. CASE p \in diff.changed
    <3>1. Copied(p) /\ now <= c
      BY <1>2, <1>4, <2>1, <2>2 DEF EntryOK
    <3>2. copy[p] # Absent /\ c \in Versions /\ c <= now
      BY <3>1 DEF Copied
    <3>3. c = now
      BY <1>6, <3>1, <3>2, VersionsAre
    <3> QED
      BY <2>1, <3>2, <3>3 DEF Level
  <2>3. CASE p \notin diff.changed
    <3>1. Same(p) /\ p \notin diff.deleted
      BY <1>5, <1>7, <2>3
    <3>2. Live(p) /\ Stamp[cache[p].version] = Stamp[now]
      BY <2>1, <3>1 DEF Same
    <3>3. Consistent(p)
      BY <1>3, <1>4, <2>3, <3>1 DEF EntryOK
    <3>4. Copied(p) /\ \E u \in Versions : u <= c /\ Stamp[u] = Stamp[cache[p].version]
      BY <3>2, <3>3 DEF Consistent
    <3>5. PICK u \in Versions : u <= c /\ Stamp[u] = Stamp[now]
      BY <3>2, <3>4
    <3>6. copy[p] # Absent /\ c \in Versions /\ c <= now
      BY <3>4 DEF Copied
    <3>7. Stamp[c] = Stamp[now]
      BY <1>6, <3>5, <3>6, StampsAssumption DEF Versions
    <3>8. down[p].pc = "none"
      BY <1>1, <2>3
    <3> QED
      BY <2>1, <3>6, <3>7, <3>8 DEF Unseen
  <2> QED
    BY <2>2, <2>3
<1>8. CASE p \notin DOMAIN scan.found
  <2>1. ~remote[p].here
    BY <1>1, <1>8 DEF LevelInv, Scanned
  <2>2. copy[p] = Absent
    <3>1. CASE Live(p)
      BY <1>1, <1>4, <1>5, <1>8, <3>1 DEF EntryOK, Gone
    <3>2. CASE ~Live(p)
      <4>1. p \notin diff.changed /\ p \notin diff.deleted
        BY <1>5, <1>8, <3>2
      <4> QED
        BY <1>3, <1>4, <3>2, <4>1 DEF EntryOK, Consistent
    <3> QED
      BY <3>1, <3>2
  <2> QED
    BY <2>1, <2>2 DEF Level
<1> QED
  BY <1>7, <1>8

LEMMA LevelStartUpdate ==
  ASSUME TypeOK, BodyVersions, LevelInv, StartUpdate
  PROVE  LevelInv'
<1>1. /\ UNCHANGED <<server, remote, cache, copy, down, quiet>>
      /\ \A p \in Files : down[p].pc \in {"none", "done", "failed"}
  BY DEF StartUpdate
<1>2. scan.pc = "fetch" /\ scan'.pc = "update" /\ scan'.found = scan.found /\ Working /\ Working'
  BY ScanIs DEF Working
<1>3. diff = Diff_with_cache /\ \A p \in Files : down[p].pc = "none" <=> p \notin diff.changed
  BY <1>2 DEF LevelInv, Downloads
<1>4. /\ diff'.unchanged = diff.unchanged /\ diff'.deleted = diff.deleted
      /\ diff'.changed \subseteq diff.changed
      /\ \A p \in Files : p \in diff.changed /\ down[p].pc = "done" => p \in diff'.changed
      /\ \A p \in diff'.changed : down[p].pc = "done" \/ p \in Failed \cap astray'
  <2>1. \A p \in diff.changed : p \in Files /\ down[p].pc \in {"done", "failed"}
    <3>1. diff.changed \subseteq Files
      BY DEF TypeOK
    <3> QED
      BY <1>1, <1>3, <3>1
  <2>2. \A p \in diff.changed : p \in Failed <=> down[p].pc # "done"
    BY <2>1 DEF Failed
  <2>3. \/ diff'.changed = diff.changed \ Failed
        \/ diff'.changed = diff.changed /\ Failed \subseteq astray'
    BY StartUpdateIs
  <2> QED
    BY <2>2, <2>3, StartUpdateIs
<1>5. Failed' = Failed
  BY <1>1 DEF Failed
<1>6. Downloads'
  <2>1. \A p \in diff'.unchanged : Same(p)'
    <3>1. diff.unchanged = {p \in DOMAIN scan.found : Same(p)}
      BY <1>3 DEF Diff_with_cache
    <3> QED
      BY <1>1, <1>2, <1>4, <3>1 DEF Same, Live
  <2>2. \A p \in diff'.changed : down'[p].pc = "done" \/ p \in (Failed \cap astray)'
    BY <1>1, <1>4, <1>5
  <2>3. diff'.deleted \cap DOMAIN scan'.found = {}
    BY <1>2, <1>3, <1>4 DEF Diff_with_cache
  <2> QED
    BY <1>1, <1>2, <2>1, <2>2, <2>3 DEF Downloads
<1>7. Scanned'
  BY <1>1, <1>2, StillAsked DEF LevelInv, Scanned
<1>8. RoundLevels'
  <2>1. \A p \in Files : (Level(p)' <=> Level(p)) /\ (Unseen(p)' <=> Unseen(p))
    BY <1>1 DEF Level, Unseen, Version
  <2> QED
    BY <1>1, <1>5, <2>1, CopyLevel, StillAsked DEF RoundLevels
<1>9. ASSUME NEW p \in Files, AskedAsIs(p)
      PROVE  Holds(p)' /\ EntryOK(p)'
  <2>1. Holds(p)'
    BY <1>1, <1>2, <1>9 DEF LevelInv, Holds
  <2>2. (Fetched(p)' <=> Fetched(p)) /\ (Gone(p)' <=> Gone(p))
    BY <1>1, <1>2, <1>4 DEF Fetched, Gone
  <2>3. ~Fetched(p) /\ ~Gone(p) /\ p \notin astray' => p \notin astray
    <3>1. ~Fetched(p) => p \notin diff.changed \/ p \in Failed
      BY <1>1, <1>2, <1>3 DEF Fetched, Failed
    <3>2. ~Gone(p) => p \notin diff.deleted
      BY <1>2 DEF Gone
    <3>3. \/ /\ diff'.changed = diff.changed \ Failed
             /\ astray' = astray \ (diff'.changed \cup diff.deleted)
          \/ astray' = (astray \ (diff.changed \cup diff.deleted)) \cup Failed
      BY StartUpdateIs
    <3> QED
      BY <3>1, <3>2, <3>3
  <2>4. (Copied(p)' <=> Copied(p)) /\ (Consistent(p)' <=> Consistent(p))
    BY <1>1 DEF Consistent, Live, Copied
  <2> QED
    BY <1>1, <1>2, <1>9, <2>1, <2>2, <2>3, <2>4 DEF LevelInv, EntryOK
<1> QED
  BY <1>1, StillAsked, <1>6, <1>7, <1>8, <1>9 DEF LevelInv

LEMMA LevelPut ==
  ASSUME TypeOK, BodyVersions, LevelInv, NEW q \in Files, Put(q)
  PROVE  LevelInv'
<1>1. /\ UNCHANGED <<server, remote, copy, scan, down, astray, quiet>> /\ scan.pc = "update"
      /\ q \in diff.unchanged \cup diff.changed \cup diff.deleted
      /\ cache' = [cache EXCEPT ![q] = Entry(q)]
  BY DEF Put
<1>2. /\ diff'.unchanged = diff.unchanged \ {q} /\ diff'.changed = diff.changed \ {q}
      /\ diff'.deleted = diff.deleted \ {q}
  BY PutIs
<1>3. /\ cache \in [Files -> [version : Versions \cup {0}, deleted : BOOLEAN]]
      /\ diff.unchanged \cup diff.changed \subseteq DOMAIN scan.found
      /\ diff.unchanged \subseteq Files /\ Working /\ Working'
  BY <1>1 DEF TypeOK, Working
<1>4. cache'[q] = Entry(q) /\ \A p \in Files : p # q => cache'[p] = cache[p]
  BY <1>1, <1>3
<1>5. Downloads'
  <2>1. \A p \in diff'.unchanged : Same(p)'
    <3> SUFFICES ASSUME NEW p \in diff'.unchanged
                 PROVE  Same(p)'
      OBVIOUS
    <3>1. p \in diff.unchanged /\ p # q /\ p \in Files
      BY <1>2, <1>3
    <3> QED
      BY <1>1, <1>4, <3>1 DEF LevelInv, Downloads, Same, Live
  <2> QED
    BY <1>1, <1>2, <2>1 DEF LevelInv, Downloads, Failed
<1>6. Scanned'
  BY <1>1, StillAsked DEF LevelInv, Scanned
<1>7. RoundLevels'
  BY <1>1, StillAsked DEF LevelInv, RoundLevels, Level, Unseen, Version, Failed
<1>8. ASSUME NEW p \in Files, AskedAsIs(p)
      PROVE  Holds(p)' /\ EntryOK(p)'
  <2>1. Holds(p)' /\ EntryOK(p)
    BY <1>1, <1>8 DEF LevelInv, Holds
  <2>2. CASE p # q
    <3>1. (Consistent(p)' <=> Consistent(p)) /\ (Copied(p)' <=> Copied(p))
      BY <1>1, <1>4, <2>2 DEF Consistent, Live, Copied
    <3>2. (Fetched(p)' <=> Fetched(p)) /\ (Gone(p)' <=> Gone(p))
      BY <1>1, <1>2, <1>3, <2>2 DEF Fetched, Gone
    <3> QED
      BY <1>1, <2>1, <3>1, <3>2 DEF EntryOK
  <2>3. CASE p = q
    <3>1. ~Fetched(p)' /\ ~Gone(p)'
      BY <1>2, <2>3 DEF Fetched, Gone
    <3>2. p \notin astray => Consistent(p)'
      <4> SUFFICES ASSUME p \notin astray
                   PROVE  Consistent(p)'
        OBVIOUS
      <4>1. CASE p \in diff.deleted
        <5>1. copy[p] = Absent
          BY <1>3, <2>1, <4>1 DEF EntryOK, Gone
        <5>2. cache'[p].deleted = TRUE
          BY <1>3, <1>4, <2>3, <4>1 DEF Entry
        <5> QED
          BY <1>1, <5>1, <5>2 DEF Consistent, Live
      <4>2. CASE p \notin diff.deleted
        <5>1. p \in DOMAIN scan.found /\ scan.found[p] \in Versions
          BY <1>1, <1>3, <2>3, <4>2 DEF TypeOK, ScanTypeOK
        <5>2. cache'[p] = [version |-> scan.found[p], deleted |-> FALSE]
          BY <1>4, <2>3, <4>2 DEF Entry
        <5>3. Copied(p) /\ \E u \in Versions : u <= Version(copy[p]) /\ Stamp[u] = Stamp[scan.found[p]]
          <6>1. CASE p \in diff.changed
            <7>1. Fetched(p)
              BY <1>1, <1>3, <6>1 DEF LevelInv, Downloads, Fetched
            <7> QED
              BY <2>1, <5>1, <7>1 DEF EntryOK
          <6>2. CASE p \notin diff.changed
            <7>1. p \in diff.unchanged
              BY <1>1, <2>3, <4>2, <6>2
            <7>2. Same(p)
              BY <1>1, <7>1 DEF LevelInv, Downloads
            <7>3. Consistent(p)
              BY <2>1, <4>2, <6>2 DEF EntryOK, Fetched, Gone
            <7> QED
              BY <7>2, <7>3 DEF Same, Consistent
          <6> QED
            BY <6>1, <6>2
        <5>4. Live(p)'
          BY <5>1, <5>2, VersionsAre DEF Live, NoEntry
        <5> QED
          BY <1>1, <5>2, <5>3, <5>4 DEF Consistent, Copied
      <4> QED
        BY <4>1, <4>2
    <3> QED
      BY <1>1, <2>1, <3>1, <3>2 DEF EntryOK
  <2> QED
    BY <2>2, <2>3
<1> QED
  BY <1>1, StillAsked, <1>5, <1>6, <1>7, <1>8 DEF LevelInv

\* A round during which nobody writes makes the copy of every file whose name comes
\* through level with the server, version for version, but for what failed in it, for
\* changes that do not show in size and time, and for what the cache has an entry of
\* that is not of the copy.
THEOREM RoundsLevel == Spec => []RoundLevels
<1>1. Init => LevelInv
  <2> SUFFICES ASSUME Init
               PROVE  LevelInv
    OBVIOUS
  <2>1. /\ scan.pc = "idle" /\ DOMAIN scan.found = {}
        /\ \A p \in Files : down[p] = NoDownload /\ cache[p] = NoEntry /\ copy[p] = Absent
    BY EmptySeq DEF Init
  <2>2. Downloads /\ Scanned /\ RoundLevels
    BY <2>1, NoDownloadIs DEF Downloads, Scanned, RoundLevels
  <2>3. \A p \in Files : Holds(p)
    BY <2>1, NoDownloadIs DEF Holds
  <2>4. \A p \in Files : EntryOK(p)
    BY <2>1 DEF EntryOK, Fetched, Gone, Working, Consistent, Live
  <2> QED
    BY <2>2, <2>3, <2>4 DEF LevelInv
<1>2. TypeOK /\ BodyVersions /\ LevelInv /\ [Next]_vars => LevelInv'
  <2> SUFFICES ASSUME TypeOK, BodyVersions, LevelInv, [Next]_vars
               PROVE  LevelInv'
    OBVIOUS
  <2>1. CASE Next
    BY <2>1, LevelChange, LevelScan, LevelPropfind, LevelCompare, LevelDownload,
       LevelStartUpdate, LevelPut DEF Next, Sync
  <2>2. CASE UNCHANGED vars
    <3>1. UNCHANGED <<server, remote, cache, copy, scan, diff, down, astray, quiet>>
      BY <2>2, Stutter
    <3>2. Downloads' /\ Scanned' /\ RoundLevels'
      BY <3>1, StillAsked
         DEF LevelInv, Downloads, Diff_with_cache, Same, Live, Failed, Scanned, RoundLevels,
             Level, Unseen, Version
    <3>3. \A p \in Files : AskedAsIs(p) => Holds(p)' /\ EntryOK(p)'
      BY <3>1 DEF LevelInv, Holds, EntryOK, Fetched, Gone, Working, Consistent, Live, Copied
    <3> QED
      BY <3>1, <3>2, <3>3, StillAsked DEF LevelInv
  <2> QED
    BY <2>1, <2>2
<1>3. LevelInv => RoundLevels
  BY DEF LevelInv
<1> QED
  BY <1>1, <1>2, <1>3, TypeCorrect, PTL DEF Spec
===============================================================================
