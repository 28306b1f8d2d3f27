--------------------------- MODULE ScheduleProofs ---------------------------
(***************************************************************************)
(* Proofs about build_batches, for any files, sizes, priorities, cap and   *)
(* limit: it keeps its types, forgets no file, and gives batches in the    *)
(* order of the ranking, each closed only where the next file did not fit, *)
(* the first of them being what an estimate queues.  Sums of sizes are     *)
(* reasoned about by induction on the number of files.                     *)
(***************************************************************************)
EXTENDS Schedule, TLAPS, FiniteSetTheorems, WellFoundedInduction

(* What a sequence holds after an append.                                   *)
LEMMA ToSetAppend ==
    ASSUME NEW S, NEW s \in Seq(S), NEW x \in S
    PROVE  ToSet(Append(s, x)) = ToSet(s) \cup {x}
<1>1. DOMAIN Append(s, x) = DOMAIN s \cup {Len(s) + 1}
  OBVIOUS
<1>2. \A i \in DOMAIN s : Append(s, x)[i] = s[i]
  OBVIOUS
<1>3. Append(s, x)[Len(s) + 1] = x
  OBVIOUS
<1> QED BY <1>1, <1>2, <1>3 DEF ToSet

(* Closing a batch adds its files to those of the batches before.           *)
LEMMA FilesAppend ==
    ASSUME NEW S, NEW bs \in Seq(Seq(S)), NEW b \in Seq(S)
    PROVE  Files(Append(bs, b)) = Files(bs) \cup ToSet(b)
<1>1. DOMAIN Append(bs, b) = DOMAIN bs \cup {Len(bs) + 1}
  OBVIOUS
<1>2. \A i \in DOMAIN bs : Append(bs, b)[i] = bs[i]
  OBVIOUS
<1>3. Append(bs, b)[Len(bs) + 1] = b
  OBVIOUS
<1>4. ASSUME NEW f PROVE f \in Files(Append(bs, b)) <=> f \in Files(bs) \cup ToSet(b)
  <2>1. f \in Files(Append(bs, b)) <=> \E i \in DOMAIN Append(bs, b) : f \in ToSet(Append(bs, b)[i])
    BY DEF Files
  <2>2. f \in Files(bs) <=> \E i \in DOMAIN bs : f \in ToSet(bs[i])
    BY DEF Files
  <2> QED BY <2>1, <2>2, <1>1, <1>2, <1>3
<1> QED BY <1>4

LEMMA SingleFile == \A r : ToSet(<<r>>) = {r} /\ ToSet(<<>>) = {}
  BY DEF ToSet

LEMMA NoFiles == Files(<<>>) = {}
  BY DEF Files

(* Types: the scheduler's sequences are made of the rows it was given.      *)
THEOREM TypeCorrect == Spec => []TypeOK
<1>1. Init => TypeOK
  BY DEF Init, TypeOK
<1>2. TypeOK /\ [Next]_vars => TypeOK'
  <2> SUFFICES ASSUME TypeOK, [Next]_vars PROVE TypeOK'
    OBVIOUS
  <2> USE RankingAssumption DEF TypeOK
  <2>1. ASSUME NEW r \in left, Row(r) PROVE TypeOK'
    <3>1. r \in wanted /\ Known(r, size) \in Nat
      BY DEF Known, Told, NoSize
    <3>2. CASE Skip(r)
      BY <2>1, <3>1, <3>2 DEF Row, Skip
    <3>3. CASE Close(r)
      BY <2>1, <3>1, <3>3 DEF Row, Close
    <3>4. CASE Add(r)
      BY <2>1, <3>1, <3>4 DEF Row, Add
    <3> QED BY <2>1, <3>2, <3>3, <3>4 DEF Row
  <2>2. CASE EndLoop
    BY <2>2 DEF EndLoop, AppendLast
  <2>3. CASE UNCHANGED vars
    BY <2>3 DEF vars
  <2> QED BY <2>1, <2>2, <2>3 DEF Next
<1> QED BY <1>1, <1>2, PTL DEF Spec

(* No file that fits is forgotten, and none above the limit is scheduled.   *)
THEOREM EveryFileAlwaysPlaced == Spec => []EveryFilePlaced
<1>1. Init => EveryFilePlaced
  BY NoFiles, SingleFile DEF Init, EveryFilePlaced, Fits
<1>2. TypeOK /\ EveryFilePlaced /\ [Next]_vars => EveryFilePlaced'
  <2> SUFFICES ASSUME TypeOK, EveryFilePlaced, [Next]_vars PROVE EveryFilePlaced'
    OBVIOUS
  <2> USE DEF TypeOK
  <2>1. Files(batches) \cup ToSet(current) = Fits(wanted \ left, size)
    BY DEF EveryFilePlaced
  <2>2. ASSUME NEW r \in left, Row(r)
        PROVE  Files(batches') \cup ToSet(current') = Fits(wanted' \ left', size')
    <3>1. wanted' = wanted /\ size' = size /\ left' = left \ {r} /\ r \in wanted
      BY <2>2 DEF Row
    <3>2. Fits(wanted' \ left', size') =
             Fits(wanted \ left, size) \cup (IF size[r] <= MaxFile THEN {r} ELSE {})
      BY <3>1 DEF Fits
    <3>3. CASE Skip(r)
      <4>1. ~(size[r] <= MaxFile)
        BY <3>1, <3>3, RankingAssumption DEF Skip, Told, NoSize
      <4>2. Files(batches') = Files(batches) /\ ToSet(current') = ToSet(current)
        BY <3>3 DEF Skip
      <4> QED BY <2>1, <3>2, <4>1, <4>2
    <3>4. CASE Close(r)
      <4>1. Files(batches') = Files(batches) \cup ToSet(current)
        BY <3>4, FilesAppend DEF Close
      <4>2. ToSet(current') = {r} /\ size[r] <= MaxFile
        BY <3>4, SingleFile DEF Close
      <4> QED BY <2>1, <3>2, <4>1, <4>2
    <3>5. CASE Add(r)
      <4>1. ToSet(current') = ToSet(current) \cup {r}
        BY <3>1, <3>5, ToSetAppend DEF Add
      <4>2. Files(batches') = Files(batches) /\ size[r] <= MaxFile
        BY <3>5 DEF Add
      <4> QED BY <2>1, <3>2, <4>1, <4>2
    <3> QED BY <2>2, <3>3, <3>4, <3>5 DEF Row
  <2>3. CASE EndLoop
    <3>1. Files(batches') \cup ToSet(current') = Files(batches) \cup ToSet(current)
      BY <2>3, FilesAppend, SingleFile DEF EndLoop, AppendLast
    <3> QED BY <2>1, <2>3, <3>1 DEF EndLoop, EveryFilePlaced
  <2>4. CASE UNCHANGED vars
    BY <2>1, <2>4 DEF vars, EveryFilePlaced
  <2> QED BY <2>2, <2>3, <2>4 DEF Next, EveryFilePlaced
<1> QED BY <1>1, <1>2, TypeCorrect, PTL DEF Spec

-----------------------------------------------------------------------------
(* What the sizes of a set of files add up to.                             *)

\* Induction over the numbers, for a set.
LEMMA NatSet ==
    ASSUME NEW S, 0 \in S, \A n \in Nat : n \in S => n + 1 \in S
    PROVE  Nat \subseteq S
<1> SUFFICES ASSUME Nat \ S # {} PROVE FALSE
  OBVIOUS
<1>1. PICK x \in Nat \ S : \A y \in Nat \ S : ~ (<<y, x>> \in OpToRel(<, Nat))
  <2> DEFINE T == Nat \ S
  <2>1. T \subseteq Nat /\ T # {}
    OBVIOUS
  <2> HIDE DEF T
  <2>2. \E x \in T : \A y \in T : ~ (<<y, x>> \in OpToRel(<, Nat))
    BY <2>1, WFMin, NatLessThanWellFounded
  <2> QED BY <2>2 DEF T
<1>2. x # 0 /\ x - 1 \in Nat /\ x - 1 < x
  OBVIOUS
<1>3. x - 1 \in S
  BY <1>1, <1>2 DEF OpToRel
<1>4. (x - 1) + 1 \in S
  BY <1>2, <1>3
<1> QED BY <1>2, <1>4

\* The recursion of MapThenSumSet.
One(s) == CHOOSE x \in s : TRUE
Rest(s) == s \ {One(s)}
SumStep(g, s, sz) == IF s = {} THEN 0 ELSE Known(One(s), sz) + g[Rest(s)]
Sums(g, S, sz) == g = [s \in SUBSET S |-> SumStep(g, s, sz)]

LEMMA BytesIsSum ==
    ASSUME NEW S, NEW sz PROVE Bytes(S, sz) = (CHOOSE g : Sums(g, S, sz))[S]
  BY Zenon DEF Bytes, MapThenSumSet, MapThenFoldSet, Sums, SumStep, One, Rest

LEMMA RestIsSmaller ==
    ASSUME NEW s, IsFiniteSet(s), s # {}
    PROVE  /\ One(s) \in s /\ IsFiniteSet(Rest(s)) /\ Rest(s) \subseteq s
           /\ Cardinality(Rest(s)) \in Nat /\ Cardinality(s) = Cardinality(Rest(s)) + 1
<1>1. One(s) \in s
  BY DEF One
<1>2. IsFiniteSet(Rest(s)) /\ Cardinality(Rest(s)) = Cardinality(s) - 1
  BY <1>1, FS_RemoveElement DEF Rest
<1>3. Cardinality(Rest(s)) \in Nat /\ Cardinality(s) \in Nat
  BY <1>2, FS_CardinalityType
<1> QED BY <1>1, <1>2, <1>3 DEF Rest

\* There is such a function on the subsets of a finite set.
LEMMA SumExists ==
    ASSUME NEW S, IsFiniteSet(S), NEW sz
    PROVE  \E g : Sums(g, S, sz)
<1> DEFINE Upto(n) == {s \in SUBSET S : Cardinality(s) =< n}
           OK(g, n) == \A s \in Upto(n) : g[s] = SumStep(g, s, sz)
           N == {n \in Nat : \E g : OK(g, n)}
<1>0. \A s \in SUBSET S : IsFiniteSet(s) /\ Cardinality(s) \in Nat
  BY FS_Subset, FS_CardinalityType
<1>1. 0 \in N
  <2> DEFINE g == [s \in SUBSET S |-> 0]
  <2>1. \A s \in Upto(0) : s = {}
    BY <1>0, FS_EmptySet
  <2>2. OK(g, 0)
    BY <2>1 DEF SumStep
  <2> HIDE DEF OK, g
  <2> QED BY <2>2
<1>2. ASSUME NEW n \in Nat, n \in N PROVE n + 1 \in N
  <2>1. PICK g : OK(g, n)
    BY <1>2
  <2> DEFINE h == [s \in SUBSET S |-> SumStep(g, s, sz)]
  <2>2. ASSUME NEW s \in Upto(n + 1) PROVE h[s] = SumStep(h, s, sz)
    <3>1. CASE s = {}
      BY <3>1 DEF SumStep
    <3>2. CASE s # {}
      <4>1. Rest(s) \in Upto(n)
        BY <1>0, <3>2, RestIsSmaller
      <4>2. g[Rest(s)] = SumStep(g, Rest(s), sz)
        BY <2>1, <4>1
      <4>3. h[Rest(s)] = g[Rest(s)]
        BY <4>1, <4>2
      <4>4. h[s] = SumStep(g, s, sz)
        OBVIOUS
      <4> HIDE DEF h
      <4> QED BY <3>2, <4>3, <4>4 DEF SumStep
    <3> QED BY <3>1, <3>2
  <2>3. OK(h, n + 1)
    BY <2>2
  <2> HIDE DEF OK, h
  <2> QED BY <2>3
<1> HIDE DEF N
<1>3. Cardinality(S) \in N
  BY <1>0, <1>1, <1>2, NatSet
<1>4. PICK g : OK(g, Cardinality(S))
  BY <1>3 DEF N
<1> DEFINE h == [s \in SUBSET S |-> g[s]]
<1>5. ASSUME NEW s \in SUBSET S PROVE g[s] = SumStep(g, s, sz)
  BY <1>0, <1>4, FS_Subset
<1>6. ASSUME NEW s \in SUBSET S PROVE SumStep(h, s, sz) = SumStep(g, s, sz)
  <2>1. Rest(s) \in SUBSET S
    BY DEF Rest
  <2> QED BY <2>1 DEF SumStep
<1>7. Sums(h, S, sz)
  BY <1>5, <1>6 DEF Sums
<1> QED BY <1>7

\* Bytes follows the recursion, whatever set it is begun with.
LEMMA SumsAgree ==
    ASSUME NEW S, IsFiniteSet(S), NEW T \in SUBSET S, NEW sz,
           NEW g, Sums(g, S, sz), NEW h, Sums(h, T, sz)
    PROVE  h[T] = g[T]
<1> DEFINE N == {n \in Nat : \A s \in SUBSET T : Cardinality(s) = n => h[s] = g[s]}
<1>0. \A s \in SUBSET T : IsFiniteSet(s) /\ Cardinality(s) \in Nat
  BY FS_Subset, FS_CardinalityType
<1>1. \A s \in SUBSET T : h[s] = SumStep(h, s, sz) /\ g[s] = SumStep(g, s, sz)
  BY DEF Sums
<1>2. 0 \in N
  BY <1>0, <1>1, FS_EmptySet DEF SumStep
<1>3. ASSUME NEW n \in Nat, n \in N PROVE n + 1 \in N
  <2> SUFFICES ASSUME NEW s \in SUBSET T, Cardinality(s) = n + 1 PROVE h[s] = g[s]
    OBVIOUS
  <2>1. s # {}
    BY FS_EmptySet
  <2>2. Rest(s) \in SUBSET T /\ Cardinality(Rest(s)) = n
    BY <1>0, <2>1, RestIsSmaller
  <2>3. h[Rest(s)] = g[Rest(s)]
    BY <1>3, <2>2
  <2> QED BY <1>1, <2>1, <2>3 DEF SumStep
<1> HIDE DEF N
<1>4. Cardinality(T) \in N
  BY <1>0, <1>2, <1>3, NatSet
<1> QED BY <1>4 DEF N

LEMMA BytesRecursion ==
    ASSUME NEW T, IsFiniteSet(T), NEW sz
    PROVE  Bytes(T, sz) = IF T = {} THEN 0 ELSE Known(One(T), sz) + Bytes(Rest(T), sz)
<1>1. PICK g : Sums(g, T, sz)
  BY SumExists
<1>2. \A s \in SUBSET T : Bytes(s, sz) = g[s]
  <2> SUFFICES ASSUME NEW s \in SUBSET T PROVE Bytes(s, sz) = g[s]
    OBVIOUS
  <2>1. \E h : Sums(h, s, sz)
    BY SumExists, FS_Subset
  <2>2. Sums(CHOOSE h : Sums(h, s, sz), s, sz)
    BY <2>1
  <2> QED BY <1>1, <2>2, BytesIsSum, SumsAgree
<1>3. Rest(T) \in SUBSET T
  BY DEF Rest
<1>4. g[T] = SumStep(g, T, sz)
  BY <1>1 DEF Sums
<1> QED BY <1>2, <1>3, <1>4 DEF SumStep

\* It does not matter which file is counted first.
LEMMA BytesRemove ==
    ASSUME NEW S, IsFiniteSet(S), NEW sz, \A r \in S : Known(r, sz) \in Nat
    PROVE  /\ Bytes(S, sz) \in Nat
           /\ \A r \in S : Bytes(S, sz) = Known(r, sz) + Bytes(S \ {r}, sz)
<1> DEFINE B(s) == Bytes(s, sz)
           K(r) == Known(r, sz)
           OK(s) == B(s) \in Nat /\ \A r \in s : B(s) = K(r) + B(s \ {r})
           N == {n \in Nat : \A s \in SUBSET S : Cardinality(s) =< n => OK(s)}
<1>0. \A s \in SUBSET S : IsFiniteSet(s) /\ Cardinality(s) \in Nat
  BY FS_Subset, FS_CardinalityType
<1>a. \A s \in SUBSET S : B(s) = IF s = {} THEN 0 ELSE K(One(s)) + B(Rest(s))
  BY <1>0, BytesRecursion
<1> HIDE DEF B, K
<1>1. 0 \in N
  <2>1. B({}) = 0
    BY <1>a
  <2>3. OK({})
    BY <2>1
  <2>2. \A s \in SUBSET S : Cardinality(s) =< 0 => s = {}
    BY <1>0, FS_EmptySet
  <2> HIDE DEF OK
  <2> QED BY <2>2, <2>3
<1>2. ASSUME NEW n \in Nat, n \in N PROVE n + 1 \in N
  <2>a. \A s \in SUBSET S : Cardinality(s) =< n => OK(s)
    BY <1>2
  <2>b. \A s \in SUBSET S : \A r \in s : Cardinality(s \ {r}) = Cardinality(s) - 1
    BY <1>0, FS_RemoveElement
  <2> SUFFICES ASSUME NEW s \in SUBSET S, Cardinality(s) = n + 1 PROVE OK(s)
    <3> HIDE DEF OK
    <3>1. ASSUME NEW s \in SUBSET S, Cardinality(s) =< n + 1 PROVE OK(s)
      BY <1>0, <2>a, <3>1
    <3> QED BY <3>1
  <2>1. s # {}
    BY FS_EmptySet
  <2> DEFINE c == One(s)
  <2>2. c \in s /\ Rest(s) = s \ {c} /\ B(s) = K(c) + B(s \ {c})
    BY <1>0, <1>a, <2>1, RestIsSmaller DEF Rest
  <2> HIDE DEF c
  <2>3. \A r \in s : OK(s \ {r})
    <3> SUFFICES ASSUME NEW r \in s PROVE OK(s \ {r})
      OBVIOUS
    <3>1. Cardinality(s \ {r}) = n
      BY <2>b
    <3> HIDE DEF OK
    <3> QED BY <2>a, <3>1
  <2>4. \A r \in s : K(r) \in Nat
    BY DEF K
  <2>5. B(s) \in Nat
    BY <2>2, <2>3, <2>4
  <2>6. ASSUME NEW r \in s, r # c PROVE B(s) = K(r) + B(s \ {r})
    <3>1. B(s \ {c}) = K(r) + B((s \ {c}) \ {r})
      BY <2>2, <2>3, <2>6
    <3>2. B(s \ {r}) = K(c) + B((s \ {r}) \ {c})
      BY <2>2, <2>3, <2>6
    <3>3. (s \ {r}) \ {c} = (s \ {c}) \ {r}
      OBVIOUS
    <3>4. B((s \ {c}) \ {r}) \in Nat
      <4>1. Cardinality((s \ {c}) \ {r}) = n - 1
        BY <2>2, <2>6, <2>b
      <4> QED BY <2>a, <4>1
    <3>5. B(s \ {r}) = K(c) + B((s \ {c}) \ {r})
      BY <3>2, <3>3
    <3>6. B(s) = K(c) + (K(r) + B((s \ {c}) \ {r}))
      BY <2>2, <3>1
    <3>7. K(c) \in Nat /\ K(r) \in Nat
      BY <2>2, <2>4
    <3> DEFINE x == B((s \ {c}) \ {r})
               k == K(c)
               l == K(r)
    <3>8. k + (l + x) = l + (k + x)
      <4>1. x \in Nat /\ k \in Nat /\ l \in Nat
        BY <3>4, <3>7
      <4> HIDE DEF x, k, l
      <4> QED BY <4>1
    <3> QED BY <3>5, <3>6, <3>8
  <2> QED BY <2>2, <2>5, <2>6
<1> HIDE DEF N
<1>3. Cardinality(S) \in N
  BY <1>0, <1>1, <1>2, NatSet
<1>4. OK(S)
  BY <1>3 DEF N
<1> QED BY <1>4 DEF B, K

-----------------------------------------------------------------------------
LEMMA NoBytes == \A sz : Bytes({}, sz) = 0
  BY FS_EmptySet, BytesRecursion

LEMMA BytesAdd ==
    ASSUME NEW S, IsFiniteSet(S), NEW r, r \notin S, NEW sz,
           \A x \in S \cup {r} : Known(x, sz) \in Nat
    PROVE  /\ Bytes(S \cup {r}, sz) = Bytes(S, sz) + Known(r, sz)
           /\ Bytes(S, sz) \in Nat /\ Known(r, sz) \in Nat
<1>1. IsFiniteSet(S \cup {r})
  BY FS_AddElement
<1>2. (S \cup {r}) \ {r} = S
  OBVIOUS
<1>3. Bytes(S \cup {r}, sz) = Known(r, sz) + Bytes((S \cup {r}) \ {r}, sz)
  BY <1>1, BytesRemove
<1>4. Bytes(S, sz) \in Nat
  BY BytesRemove
<1> QED BY <1>2, <1>3, <1>4

\* More files are not less.
LEMMA BytesGrow ==
    ASSUME NEW T, IsFiniteSet(T), NEW S \in SUBSET T, NEW sz,
           \A x \in T : Known(x, sz) \in Nat
    PROVE  Bytes(S, sz) <= Bytes(T, sz)
<1> DEFINE B(s) == Bytes(s, sz)
           N == {n \in Nat : \A s \in SUBSET T :
                                S \subseteq s /\ Cardinality(s) = n => B(S) <= B(s)}
<1>0. \A s \in SUBSET T : IsFiniteSet(s) /\ Cardinality(s) \in Nat
  BY FS_Subset, FS_CardinalityType
<1>1. \A s \in SUBSET T : B(s) \in Nat
  BY <1>0, BytesRemove
<1>2. ASSUME NEW s \in SUBSET T, NEW r \in s PROVE B(s) = B(s \ {r}) + Known(r, sz)
  <2>1. B(s) = Known(r, sz) + B(s \ {r})
    BY <1>0, BytesRemove
  <2>2. B(s \ {r}) \in Nat /\ Known(r, sz) \in Nat
    BY <1>1
  <2> HIDE DEF B
  <2> QED BY <2>1, <2>2
<1> HIDE DEF B
<1>3. 0 \in N
  <2>1. \A s \in SUBSET T : S \subseteq s /\ Cardinality(s) = 0 => S = s
    BY <1>0, FS_EmptySet
  <2> QED BY <1>1, <2>1
<1>4. ASSUME NEW n \in Nat, n \in N PROVE n + 1 \in N
  <2> SUFFICES ASSUME NEW s \in SUBSET T, S \subseteq s, Cardinality(s) = n + 1
               PROVE  B(S) <= B(s)
    OBVIOUS
  <2>1. CASE S = s
    BY <1>1, <2>1
  <2>2. CASE S # s
    <3>1. PICK r \in s : r \notin S
      BY <2>2
    <3>2. Cardinality(s \ {r}) = n
      BY <1>0, FS_RemoveElement
    <3>3. B(S) <= B(s \ {r})
      BY <1>4, <3>1, <3>2
    <3>4. B(s) = B(s \ {r}) + Known(r, sz) /\ Known(r, sz) \in Nat
      BY <1>2
    <3>5. B(S) \in Nat /\ B(s \ {r}) \in Nat
      BY <1>1
    <3> QED BY <3>3, <3>4, <3>5
  <2> QED BY <2>1, <2>2
<1> HIDE DEF N
<1>5. Cardinality(T) \in N
  BY <1>0, <1>3, <1>4, NatSet
<1>6. B(S) <= B(T)
  BY <1>5 DEF N
<1> QED BY <1>6 DEF B

-----------------------------------------------------------------------------
(* The order.                                                              *)

LEMMA BeforeIs ==
    ASSUME NEW sz \in [Resources -> Told], NEW a \in Resources, NEW b \in Resources
    PROVE  LET u(r) == IF sz[r] = NoSize THEN 1 ELSE 0
           IN  Before(sz, a, b) <=>
                 \/ Rank(a) < Rank(b)
                 \/ /\ Rank(a) = Rank(b)
                    /\ \/ u(a) < u(b)
                       \/ /\ u(a) = u(b)
                          /\ sz[a] < sz[b] \/ (sz[a] = sz[b] /\ a < b)
<1> DEFINE u(r) == IF sz[r] = NoSize THEN 1 ELSE 0
           k(r) == Key(r, sz)
           Less(i) == k(a)[i] < k(b)[i]
           Same(i) == k(a)[i] = k(b)[i]
<1>1. \A r : k(r)[1] = Rank(r) /\ k(r)[2] = u(r) /\ k(r)[3] = sz[r] /\ k(r)[4] = r
  BY DEF Key
<1> HIDE DEF k
<1>2. Before(sz, a, b) <=> \E i \in 1..4 : Less(i) /\ \A j \in 1..(i - 1) : Same(j)
  BY DEF Before, k
<1> HIDE DEF Less, Same
<1>3. Before(sz, a, b) <=> \/ Less(1)
                           \/ Same(1) /\ Less(2)
                           \/ Same(1) /\ Same(2) /\ Less(3)
                           \/ Same(1) /\ Same(2) /\ Same(3) /\ Less(4)
  BY <1>2
<1>4. /\ Rank(a) \in Nat /\ Rank(b) \in Nat /\ a \in Nat /\ b \in Nat
      /\ sz[a] \in Int /\ sz[b] \in Int
  BY RankingAssumption DEF Told, NoSize, Rank
<1> QED BY <1>1, <1>3, <1>4 DEF Less, Same

LEMMA BeforeOrders ==
    ASSUME NEW sz \in [Resources -> Told], NEW a \in Resources, NEW b \in Resources
    PROVE  /\ Before(sz, a, b) => ~Before(sz, b, a)
           /\ Before(sz, a, b) =>
                 /\ Rank(a) <= Rank(b)
                 /\ Rank(a) = Rank(b) /\ sz[a] = NoSize => sz[b] = NoSize
<1>1. /\ Rank(a) \in Nat /\ Rank(b) \in Nat /\ a \in Nat /\ b \in Nat
      /\ sz[a] \in Int /\ sz[b] \in Int
  BY RankingAssumption DEF Told, NoSize, Rank
<1> QED BY <1>1, BeforeIs

\* A file that comes after all that are placed is put at the end.
LEMMA PlacedAreInBatches ==
    ASSUME TypeOK, EveryFilePlaced
    PROVE  LET all == Append(batches, current)
           IN  /\ \A i \in DOMAIN all : \A k \in DOMAIN all[i] :
                     all[i][k] \in Fits(wanted \ left, size)
               /\ DOMAIN all = 1..(Len(batches) + 1)
               /\ \A i \in DOMAIN batches : all[i] = batches[i]
               /\ all[Len(batches) + 1] = current
<1> DEFINE all == Append(batches, current)
<1>1. /\ DOMAIN all = 1..(Len(batches) + 1) /\ DOMAIN batches = 1..Len(batches)
      /\ \A i \in DOMAIN batches : all[i] = batches[i]
      /\ all[Len(batches) + 1] = current
  BY DEF TypeOK
<1> HIDE DEF all
<1>2. ASSUME NEW i \in DOMAIN all, NEW k \in DOMAIN all[i]
      PROVE  all[i][k] \in Fits(wanted \ left, size)
  <2>1. CASE i \in DOMAIN batches
    <3>1. all[i][k] \in ToSet(batches[i])
      BY <1>1, <1>2, <2>1 DEF ToSet
    <3> QED BY <2>1, <3>1 DEF EveryFilePlaced, Files
  <2>2. CASE i = Len(batches) + 1
    <3>1. all[i][k] \in ToSet(current)
      BY <1>1, <1>2, <2>2 DEF ToSet
    <3> QED BY <3>1 DEF EveryFilePlaced
  <2> QED BY <1>1, <1>2, <2>1, <2>2 DEF TypeOK
<1> QED BY <1>1, <1>2 DEF all

LEMMA OrderStep ==
    ASSUME TypeOK, EveryFilePlaced, OrderInv, [Next]_vars PROVE OrderInv'
<1> DEFINE all == Append(batches, current)
           n == Len(batches) + 1
           Pair(bs, i, k, j, m) == i < j \/ (i = j /\ k < m) => Before(size, bs[i][k], bs[j][m])
<1>0. /\ size \in [Resources -> Told] /\ wanted \subseteq Resources /\ left \subseteq wanted
      /\ current \in Seq(wanted) /\ batches \in Seq(Seq(wanted))
      /\ Len(batches) \in Nat /\ Len(current) \in Nat
  BY DEF TypeOK
<1>1. /\ \A i \in DOMAIN all : \A k \in DOMAIN all[i] : all[i][k] \in Fits(wanted \ left, size)
      /\ DOMAIN all = 1..n
      /\ \A i \in DOMAIN batches : all[i] = batches[i]
      /\ all[n] = current
  BY PlacedAreInBatches
<1>2. /\ \A i, j \in DOMAIN all : \A k \in DOMAIN all[i], m \in DOMAIN all[j] :
            Pair(all, i, k, j, m)
      /\ \A x \in wanted \ left, y \in left : Before(size, x, y)
  BY DEF OrderInv, InOrder
\* The batches are in order if their files are Before one another.
<1>3. ASSUME NEW bs, bs = Append(batches', current'), size' = size, wanted' = wanted,
             \A i \in DOMAIN bs : \A k \in DOMAIN bs[i] : bs[i][k] \in wanted,
             \A i, j \in DOMAIN bs : \A k \in DOMAIN bs[i], m \in DOMAIN bs[j] :
                Pair(bs, i, k, j, m)
      PROVE  InOrder'
  <2> HIDE DEF all
  <2>1. \A i, j \in DOMAIN bs : \A k \in DOMAIN bs[i], m \in DOMAIN bs[j] :
           i < j \/ (i = j /\ k < m) =>
              /\ Before(size, bs[i][k], bs[j][m])
              /\ Rank(bs[i][k]) <= Rank(bs[j][m])
              /\ Rank(bs[i][k]) = Rank(bs[j][m]) /\ size[bs[i][k]] = NoSize
                    => size[bs[j][m]] = NoSize
    BY <1>0, <1>3, BeforeOrders
  <2> QED BY <1>3, <2>1 DEF InOrder, Before, Key, Rank
<1> HIDE DEF all
<1>4. ASSUME NEW r \in left, Row(r) PROVE OrderInv'
  <2>1. /\ wanted' = wanted /\ size' = size /\ left' = left \ {r}
        /\ \A x \in left \ {r} : Before(size, r, x)
    BY <1>4 DEF Row, IsNext
  <2>2. \A x \in wanted' \ left', y \in left' : Before(size', x, y)
    BY <1>2, <2>1
  <2>3. \A i \in DOMAIN all : \A k \in DOMAIN all[i] :
           all[i][k] \in wanted /\ Before(size, all[i][k], r)
    BY <1>1, <1>2 DEF Fits
  <2>4. CASE Skip(r)
    <3>1. Append(batches', current') = all
      BY <2>4 DEF Skip, all
    <3> QED BY <1>2, <1>3, <2>1, <2>2, <2>3, <3>1 DEF OrderInv
  <2>5. CASE Add(r)
    <3> DEFINE bs == Append(batches', current')
               c  == Append(current, r)
    <3>1. /\ DOMAIN bs = 1..n /\ bs[n] = c
          /\ \A i \in DOMAIN batches : bs[i] = batches[i]
      BY <1>0, <2>5 DEF Add
    <3>2. /\ DOMAIN c = DOMAIN current \cup {Len(current) + 1}
          /\ \A k \in DOMAIN current : c[k] = current[k] /\ k < Len(current) + 1
          /\ c[Len(current) + 1] = r
      BY <1>0
    <3> HIDE DEF bs, c
    <3>3. ASSUME NEW i \in 1..n, NEW k \in DOMAIN bs[i]
          PROVE  \/ k \in DOMAIN all[i] /\ bs[i][k] = all[i][k] /\ ~(i = n /\ k = Len(current) + 1)
                 \/ i = n /\ k = Len(current) + 1 /\ bs[i][k] = r
      <4>1. CASE i = n
        <5>1. bs[i] = c /\ all[i] = current
          BY <1>1, <3>1, <4>1
        <5>2. CASE k \in DOMAIN current
          BY <1>0, <3>2, <5>1, <5>2
        <5>3. CASE k = Len(current) + 1
          BY <3>2, <4>1, <5>1, <5>3
        <5> QED BY <3>2, <3>3, <5>1, <5>2, <5>3
      <4>2. CASE i # n
        <5>1. i \in DOMAIN batches
          BY <1>0, <4>2
        <5> QED BY <1>1, <3>1, <3>3, <4>2, <5>1
      <4> QED BY <4>1, <4>2
    <3>4. \A i \in DOMAIN bs : \A k \in DOMAIN bs[i] : bs[i][k] \in wanted
      BY <1>0, <2>3, <1>1, <3>1, <3>3
    <3>5. \A k \in DOMAIN c : k \in Nat /\ k <= Len(current) + 1
      BY <1>0, <3>2
    <3>6. ASSUME NEW i \in 1..n, NEW j \in 1..n, NEW k \in DOMAIN bs[i], NEW m \in DOMAIN bs[j],
                 i < j \/ (i = j /\ k < m)
          PROVE  Before(size, bs[i][k], bs[j][m])
      <4>1. ~(i = n /\ k = Len(current) + 1)
        BY <1>0, <3>1, <3>5, <3>6
      <4>2. k \in DOMAIN all[i] /\ bs[i][k] = all[i][k]
        BY <3>3, <4>1
      <4> QED BY <1>1, <1>2, <2>3, <3>3, <3>6, <4>2
    <3>7. InOrder'
      BY <1>3, <2>1, <3>1, <3>4, <3>6 DEF bs
    <3> QED BY <2>2, <3>7 DEF OrderInv
  <2>6. CASE Close(r)
    <3> DEFINE bs == Append(batches', current')
    <3>1. batches' = all /\ current' = <<r>>
      BY <2>6 DEF Close, all
    <3>2. all \in Seq(Seq(wanted)) /\ Len(all) = n /\ <<r>> \in Seq(wanted) /\ n \in Nat
      BY <1>0 DEF all
    <3>3. /\ DOMAIN bs = 1..(n + 1) /\ bs[n + 1] = <<r>>
          /\ \A i \in 1..n : bs[i] = all[i]
      BY <3>1, <3>2
    <3>4. DOMAIN <<r>> = {1} /\ <<r>>[1] = r
      OBVIOUS
    <3> HIDE DEF bs, n
    <3>5. \A i \in DOMAIN bs : \A k \in DOMAIN bs[i] : bs[i][k] \in wanted
      BY <1>0, <1>1, <2>3, <3>2, <3>3, <3>4
    <3>6. ASSUME NEW i \in DOMAIN bs, NEW j \in DOMAIN bs,
                 NEW k \in DOMAIN bs[i], NEW m \in DOMAIN bs[j],
                 i < j \/ (i = j /\ k < m)
          PROVE  Before(size, bs[i][k], bs[j][m])
      <4>1. i \in 1..n
        BY <3>2, <3>3, <3>4, <3>6
      <4>2. k \in DOMAIN all[i] /\ bs[i][k] = all[i][k]
        BY <3>3, <4>1
      <4>3. CASE j \in 1..n
        BY <1>1, <1>2, <3>3, <3>6, <4>1, <4>2, <4>3
      <4>4. CASE j = n + 1
        BY <1>1, <2>3, <3>3, <3>4, <4>1, <4>2, <4>4
      <4> QED BY <3>2, <3>3, <4>3, <4>4
    <3>7. InOrder'
      BY <1>3, <2>1, <3>5, <3>6 DEF bs
    <3> QED BY <2>2, <3>7 DEF OrderInv
  <2> QED BY <1>4, <2>4, <2>5, <2>6 DEF Row
<1>5. CASE EndLoop
  <2> DEFINE bs == Append(batches', current')
  <2>1. batches' = all /\ current' = <<>> /\ UNCHANGED <<wanted, size, left>>
    BY <1>5 DEF EndLoop, AppendLast, all
  <2>2. all \in Seq(Seq(wanted)) /\ Len(all) = n /\ <<>> \in Seq(wanted) /\ n \in Nat
    BY <1>0 DEF all
  <2>3. /\ DOMAIN bs = 1..(n + 1) /\ bs[n + 1] = <<>>
        /\ \A i \in 1..n : bs[i] = all[i]
    BY <2>1, <2>2
  <2>4. DOMAIN <<>> = {}
    OBVIOUS
  <2> HIDE DEF bs, n
  <2>5. \A i \in DOMAIN bs : \A k \in DOMAIN bs[i] : i \in 1..n
    BY <2>2, <2>3, <2>4
  <2>6. \A i \in DOMAIN bs : \A k \in DOMAIN bs[i] : bs[i][k] \in wanted
    BY <1>0, <1>1, <2>3, <2>5 DEF Fits
  <2>7. \A i, j \in DOMAIN bs : \A k \in DOMAIN bs[i], m \in DOMAIN bs[j] :
           Pair(bs, i, k, j, m)
    BY <1>1, <1>2, <2>3, <2>5
  <2>8. InOrder'
    BY <1>3, <2>1, <2>6, <2>7 DEF bs
  <2> QED BY <1>2, <2>1, <2>8 DEF OrderInv
<1>6. CASE UNCHANGED vars
  BY <1>6 DEF vars, OrderInv, InOrder
<1> QED BY <1>4, <1>5, <1>6 DEF Next

(* The batches, read one after the other, are in the order of the ranking.  *)
THEOREM AlwaysInOrder == Spec => []InOrder
<1>1. Init => OrderInv
  BY DEF Init, OrderInv, InOrder
<1>2. OrderInv => InOrder
  BY DEF OrderInv
<1> QED BY <1>1, <1>2, OrderStep, TypeCorrect, EveryFileAlwaysPlaced, PTL DEF Spec

-----------------------------------------------------------------------------
(* The batches.                                                            *)

\* What a batch and its successor satisfy.
GreedyAt(bs, i, sz) ==
    /\ Len(bs[i]) = 1 \/ Bytes(ToSet(bs[i]), sz) <= Cap
    /\ i > 1 => Bytes(ToSet(bs[i - 1]), sz) + Known(bs[i][1], sz) > Cap

LEMMA GreedyAppend ==
    ASSUME NEW S, NEW bs \in Seq(Seq(S)), NEW b \in Seq(S), NEW sz,
           \A i \in DOMAIN bs : GreedyAt(bs, i, sz),
           Len(b) = 1 \/ Bytes(ToSet(b), sz) <= Cap,
           bs # <<>> => Bytes(ToSet(bs[Len(bs)]), sz) + Known(b[1], sz) > Cap
    PROVE  \A i \in DOMAIN Append(bs, b) : GreedyAt(Append(bs, b), i, sz)
<1> DEFINE all == Append(bs, b)
           n == Len(bs)
<1>1. /\ DOMAIN all = 1..(n + 1) /\ all[n + 1] = b /\ n \in Nat
      /\ \A i \in 1..n : all[i] = bs[i]
      /\ DOMAIN bs = 1..n /\ bs # <<>> <=> n # 0
  OBVIOUS
<1> HIDE DEF all, n
<1> SUFFICES ASSUME NEW i \in DOMAIN all PROVE GreedyAt(all, i, sz)
  BY DEF all
<1>2. CASE i \in 1..n
  <2>1. all[i] = bs[i] /\ GreedyAt(bs, i, sz)
    BY <1>1, <1>2
  <2>2. i > 1 => i - 1 \in 1..n /\ all[i - 1] = bs[i - 1]
    BY <1>1, <1>2
  <2> QED BY <2>1, <2>2 DEF GreedyAt
<1>3. CASE i = n + 1
  <2>1. i > 1 => all[i - 1] = bs[n] /\ bs # <<>>
    BY <1>1, <1>3
  <2> QED BY <1>1, <1>3, <2>1 DEF GreedyAt, n
<1> QED BY <1>1, <1>2, <1>3

\* The batches so far, the one in hand included.
Batches == IF current = <<>> THEN batches ELSE Append(batches, current)

LEMMA GreedyIs ==
    BatchesAreGreedy <=> \A i \in DOMAIN Batches : GreedyAt(Batches, i, size)
  BY DEF BatchesAreGreedy, Batches, GreedyAt

LEMMA Placed ==
    ASSUME TypeOK, EveryFilePlaced
    PROVE  /\ \A x \in Resources : Known(x, size) \in Nat
           /\ \A S \in SUBSET wanted : IsFiniteSet(S)
           /\ ToSet(current) \subseteq wanted \ left
           /\ Files(batches) \subseteq wanted \ left
           /\ wanted \subseteq Resources
<1>1. \A x \in Resources : Known(x, size) \in Nat
  BY RankingAssumption DEF TypeOK, Told, Known, NoSize
<1>2. \A S \in SUBSET wanted : IsFiniteSet(S)
  BY RankingAssumption, FS_Subset DEF TypeOK
<1> QED BY <1>1, <1>2 DEF EveryFilePlaced, Fits, TypeOK

\* What the batch in hand adds up to with one more file.
LEMMA OneMoreFile ==
    ASSUME TypeOK, EveryFilePlaced, GreedyInv, NEW r \in left
    PROVE  /\ Bytes(ToSet(Append(current, r)), size) = bytes + Known(r, size)
           /\ Bytes(ToSet(current) \cup {r}, size) = bytes + Known(r, size)
           /\ Bytes(ToSet(<<r>>), size) = Known(r, size)
<1>1. /\ r \in wanted /\ r \notin ToSet(current) /\ wanted \subseteq Resources
      /\ IsFiniteSet(ToSet(current)) /\ IsFiniteSet({})
      /\ \A x \in ToSet(current) \cup {r} : Known(x, size) \in Nat
  BY Placed DEF TypeOK
<1>2. ToSet(Append(current, r)) = ToSet(current) \cup {r}
  BY <1>1, ToSetAppend DEF TypeOK
<1>3. Bytes(ToSet(current) \cup {r}, size) = bytes + Known(r, size)
  BY <1>1, BytesAdd DEF GreedyInv
<1>4. Bytes({} \cup {r}, size) = Bytes({}, size) + Known(r, size)
  BY <1>1, BytesAdd
<1>5. {} \cup {r} = ToSet(<<r>>)
  BY SingleFile
<1>6. Bytes(ToSet(<<r>>), size) = 0 + Known(r, size)
  BY <1>4, <1>5, NoBytes
<1>7. Known(r, size) \in Nat
  BY <1>1
<1> QED BY <1>2, <1>3, <1>6, <1>7

LEMMA GreedyStep ==
    ASSUME TypeOK, EveryFilePlaced, GreedyInv, [Next]_vars PROVE GreedyInv'
<1>0. /\ current \in Seq(wanted) /\ batches \in Seq(Seq(wanted)) /\ left \subseteq wanted
      /\ bytes \in Nat /\ Cap \in Nat
  BY RankingAssumption DEF TypeOK
<1>1. /\ \A i \in DOMAIN Batches : GreedyAt(Batches, i, size)
      /\ bytes = Bytes(ToSet(current), size)
      /\ \A i \in DOMAIN batches : batches[i] # <<>>
      /\ current = <<>> => batches = <<>> \/ left = {}
  BY GreedyIs DEF GreedyInv
<1>2. ASSUME size' = size, NEW bs, bs = Batches', \A i \in DOMAIN bs : GreedyAt(bs, i, size)
      PROVE  BatchesAreGreedy'
  BY <1>2 DEF BatchesAreGreedy, Batches, GreedyAt
<1>3. ASSUME NEW r \in left, Row(r) PROVE GreedyInv'
  <2>1. UNCHANGED <<wanted, size>> /\ left' \subseteq left /\ r \in wanted
    BY <1>0, <1>3 DEF Row
  <2>2. CASE Skip(r)
    <3>1. UNCHANGED <<batches, current, bytes>>
      BY <2>2 DEF Skip
    <3>2. Batches' = Batches
      BY <3>1 DEF Batches
    <3>3. BatchesAreGreedy'
      BY <1>1, <1>2, <2>1, <3>2
    <3> QED BY <1>1, <2>1, <3>1, <3>3 DEF GreedyInv
  <2>3. CASE Add(r)
    <3> DEFINE c == Append(current, r)
    <3>1. batches' = batches /\ current' = c /\ bytes' = bytes + Known(r, size) /\ ~Closes(r)
      BY <2>3 DEF Add
    <3>2. /\ c # <<>> /\ c \in Seq(wanted) /\ Len(c) = Len(current) + 1
          /\ current = <<>> => Len(c) = 1
          /\ current # <<>> => c[1] = current[1]
      <4>1. c \in Seq(wanted) /\ Len(c) = Len(current) + 1 /\ Len(current) \in Nat
        BY <1>0, <2>1
      <4>2. current # <<>> => Len(current) # 0
        BY <1>0
      <4>3. Len(current) # 0 => c[1] = current[1]
        BY <1>0, <2>1
      <4>4. Len(<<>>) = 0
        OBVIOUS
      <4> HIDE DEF c
      <4> QED BY <4>1, <4>2, <4>3, <4>4
    <3>3. Bytes(ToSet(c), size) = bytes + Known(r, size)
      BY OneMoreFile
    <3> HIDE DEF c
    <3>4. Batches' = Append(batches, c)
      BY <3>1, <3>2 DEF Batches
    <3>5. \A i \in DOMAIN Append(batches, c) : GreedyAt(Append(batches, c), i, size)
      <4>1. CASE current = <<>>
        <5>1. batches = <<>> /\ Len(c) = 1
          BY <1>1, <3>2, <4>1
        <5>2. \A i \in DOMAIN batches : GreedyAt(batches, i, size)
          BY <5>1
        <5> QED BY <1>0, <3>2, <5>1, <5>2, GreedyAppend
      <4>2. CASE current # <<>>
        <5> DEFINE n == Len(batches)
        <5>1. /\ Batches = Append(batches, current)
              /\ DOMAIN Batches = 1..(n + 1) /\ Batches[n + 1] = current /\ n \in Nat
              /\ \A i \in 1..n : Batches[i] = batches[i]
              /\ DOMAIN batches = 1..n /\ batches # <<>> => n >= 1
          BY <1>0, <4>2 DEF Batches
        <5> HIDE DEF n
        <5>2. \A i \in DOMAIN batches : GreedyAt(batches, i, size)
          BY <1>1, <5>1 DEF GreedyAt
        <5>3. batches # <<>> => Bytes(ToSet(batches[n]), size) + Known(current[1], size) > Cap
          <6> SUFFICES ASSUME batches # <<>>
                       PROVE  Bytes(ToSet(batches[n]), size) + Known(current[1], size) > Cap
            OBVIOUS
          <6>1. n + 1 > 1 /\ (n + 1) - 1 = n /\ n + 1 \in DOMAIN Batches /\ n \in 1..n
            BY <5>1
          <6>2. GreedyAt(Batches, n + 1, size)
            BY <1>1, <6>1
          <6> QED BY <5>1, <6>1, <6>2 DEF GreedyAt
        <5>4. Bytes(ToSet(c), size) <= Cap
          <6>1. bytes + Known(r, size) \in Int
            BY <1>0, <2>1, Placed
          <6> QED BY <1>0, <3>1, <3>3, <4>2, <6>1 DEF Closes
        <5> QED BY <1>0, <3>2, <4>2, <5>2, <5>3, <5>4, GreedyAppend DEF n
      <4> QED BY <4>1, <4>2
    <3>6. BatchesAreGreedy'
      BY <1>2, <2>1, <3>4, <3>5
    <3>7. bytes' = Bytes(ToSet(current'), size')
      BY <2>1, <3>1, <3>3
    <3> QED BY <1>1, <3>1, <3>2, <3>6, <3>7 DEF GreedyInv
  <2>4. CASE Close(r)
    <3>1. /\ current # <<>> /\ bytes + Known(r, size) > Cap
          /\ batches' = Append(batches, current) /\ current' = <<r>> /\ bytes' = Known(r, size)
      BY <2>4 DEF Close, Closes
    <3> DEFINE all == Append(batches, current)
    <3>2. Batches = all /\ all \in Seq(Seq(wanted)) /\ all[Len(all)] = current
      BY <1>0, <3>1 DEF Batches
    <3>3. \A i \in DOMAIN all : all[i] # <<>>
      BY <1>0, <1>1, <3>1
    <3> HIDE DEF all
    <3>4. <<r>> \in Seq(wanted) /\ Len(<<r>>) = 1 /\ <<r>>[1] = r /\ <<r>> # <<>>
      BY <2>1
    <3>5. Batches' = Append(all, <<r>>)
      BY <3>1, <3>4 DEF Batches, all
    <3>6. \A i \in DOMAIN Append(all, <<r>>) : GreedyAt(Append(all, <<r>>), i, size)
      BY <1>1, <3>1, <3>2, <3>4, GreedyAppend
    <3>7. BatchesAreGreedy'
      BY <1>2, <2>1, <3>5, <3>6
    <3>8. bytes' = Bytes(ToSet(current'), size')
      BY <2>1, <3>1, OneMoreFile
    <3> QED BY <3>1, <3>3, <3>4, <3>7, <3>8 DEF GreedyInv, all
  <2> QED BY <1>3, <2>2, <2>3, <2>4 DEF Row
<1>4. CASE EndLoop
  <2>1. /\ left = {} /\ current # <<>> /\ batches' = Append(batches, current)
        /\ current' = <<>> /\ bytes' = 0 /\ UNCHANGED <<wanted, size, left>>
    BY <1>4 DEF EndLoop, AppendLast
  <2>2. Batches' = Batches
    BY <2>1 DEF Batches
  <2>3. BatchesAreGreedy'
    BY <1>1, <1>2, <2>1, <2>2
  <2>4. \A i \in DOMAIN batches' : batches'[i] # <<>>
    BY <1>0, <1>1, <2>1
  <2>5. bytes' = Bytes(ToSet(current'), size')
    BY <2>1, NoBytes, SingleFile
  <2> QED BY <2>1, <2>3, <2>4, <2>5 DEF GreedyInv
<1>5. CASE UNCHANGED vars
  BY <1>5 DEF vars, GreedyInv, BatchesAreGreedy
<1> QED BY <1>3, <1>4, <1>5 DEF Next

LEMMA GreedyAtFirst == Init => GreedyInv
<1> SUFFICES ASSUME Init PROVE GreedyInv
  OBVIOUS
<1>1. batches = <<>> /\ current = <<>> /\ bytes = 0 /\ DOMAIN <<>> = {}
  BY DEF Init
<1>2. BatchesAreGreedy
  BY <1>1 DEF BatchesAreGreedy
<1>3. bytes = Bytes(ToSet(current), size)
  BY <1>1, NoBytes, SingleFile
<1> QED BY <1>1, <1>2, <1>3 DEF GreedyInv

(* Every batch keeps the cap or is one file, and ends where the next file   *)
(* did not fit.                                                             *)
THEOREM BatchesAlwaysGreedy == Spec => []BatchesAreGreedy
<1>1. Init => GreedyInv
  BY GreedyAtFirst
<1>2. GreedyInv => BatchesAreGreedy
  BY DEF GreedyInv
<1> QED BY <1>1, <1>2, GreedyStep, TypeCorrect, EveryFileAlwaysPlaced, PTL DEF Spec

-----------------------------------------------------------------------------
(* The first batch.                                                        *)

\* What FirstBatch takes of the files that come before r, and of r.
LEMMA FirstTakes ==
    ASSUME TypeOK, EveryFilePlaced, OrderInv, NEW r \in left, IsNext(r)
    PROVE  LET P == Files(batches) \cup ToSet(current)
           IN  r \in FirstBatch(wanted, size) <=>
                 size[r] <= MaxFile /\ (P = {} \/ Bytes(P \cup {r}, size) <= Cap)
<1> DEFINE P == Files(batches) \cup ToSet(current)
           upto(q) == {x \in Fits(wanted, size) : x = q \/ Before(size, x, q)}
<1>1. P = Fits(wanted \ left, size)
  BY DEF EveryFilePlaced
<1>2. /\ left \subseteq wanted /\ wanted \subseteq Resources /\ r \in wanted
      /\ size \in [Resources -> Told]
  BY DEF TypeOK
<1>3. ASSUME size[r] <= MaxFile PROVE upto(r) = P \cup {r}
  <2>1. \A x \in wanted \ left : Before(size, x, r)
    BY DEF OrderInv
  <2>2. \A x \in left : x # r => ~Before(size, x, r)
    BY <1>2, BeforeOrders DEF IsNext
  <2> QED BY <1>1, <1>2, <1>3, <2>1, <2>2 DEF Fits
<1>4. r \in FirstBatch(wanted, size) <=>
         r \in Fits(wanted, size) /\ (upto(r) = {r} \/ Bytes(upto(r), size) <= Cap)
  BY DEF FirstBatch
<1>5. r \in Fits(wanted, size) <=> size[r] <= MaxFile
  BY <1>2 DEF Fits
<1>6. r \notin P
  BY <1>1 DEF Fits
<1> HIDE DEF P, upto
<1>7. P \cup {r} = {r} <=> P = {}
  BY <1>6
<1> QED BY <1>3, <1>4, <1>5, <1>7 DEF P

\* The first file that did not fit keeps out all that come after it.
LEMMA FirstIsFull ==
    ASSUME TypeOK, EveryFilePlaced, OrderInv, GreedyInv, NEW r \in left, batches # <<>>
    PROVE  LET P == Files(batches) \cup ToSet(current)
           IN  P # {} /\ ~(Bytes(P \cup {r}, size) <= Cap)
<1> DEFINE P   == Files(batches) \cup ToSet(current)
           all == Append(batches, current)
           one == batches[1]
           h   == all[2][1]
           n   == Len(batches)
<1>1. /\ batches \in Seq(Seq(wanted)) /\ current \in Seq(wanted) /\ left \subseteq wanted
      /\ Cap \in Nat
  BY RankingAssumption DEF TypeOK
<1>2. current # <<>> /\ one # <<>> /\ n \in Nat /\ n # 0 /\ DOMAIN batches = 1..n
  BY <1>1 DEF GreedyInv
<1>3. /\ all[1] = one /\ all[2] = IF n = 1 THEN current ELSE batches[2]
      /\ DOMAIN all = 1..(n + 1) /\ 2 \in DOMAIN all /\ 1 \in DOMAIN all
  <2>1. /\ DOMAIN all = 1..(n + 1) /\ all[n + 1] = current
        /\ \A i \in 1..n : all[i] = batches[i]
    BY <1>1, <1>2
  <2> HIDE DEF all, n
  <2>2. 1 \in 1..n /\ (n # 1 => 2 \in 1..n) /\ 2 \in 1..(n + 1) /\ 1 \in 1..(n + 1)
    BY <1>2
  <2> QED BY <2>1, <2>2
<1>4. all[2] \in Seq(wanted) /\ all[2] # <<>> /\ one \in Seq(wanted)
  <2>1. \A i \in 1..n : batches[i] \in Seq(wanted) /\ batches[i] # <<>>
    <3>1. \A i \in DOMAIN batches : batches[i] \in Seq(wanted)
      BY <1>1
    <3>2. \A i \in DOMAIN batches : batches[i] # <<>>
      BY DEF GreedyInv
    <3> HIDE DEF n
    <3> QED BY <1>2, <3>1, <3>2
  <2>2. 1 \in 1..n /\ (n # 1 => 2 \in 1..n)
    BY <1>2
  <2>3. CASE n = 1
    <3>1. all[2] = current
      BY <1>3, <2>3
    <3> HIDE DEF all
    <3> QED BY <1>1, <1>2, <2>1, <2>2, <3>1
  <2>4. CASE n # 1
    <3>1. all[2] = batches[2]
      BY <1>3, <2>4
    <3> HIDE DEF all
    <3> QED BY <2>1, <2>2, <2>4, <3>1
  <2> HIDE DEF all, n
  <2> QED BY <2>3, <2>4
<1>5. 1 \in DOMAIN all[2] /\ 1 \in DOMAIN one /\ h \in wanted
  <2>1. \A b \in Seq(wanted) : b # <<>> => 1 \in DOMAIN b /\ b[1] \in wanted
    OBVIOUS
  <2> HIDE DEF all, one
  <2> QED BY <1>2, <1>4, <2>1
<1>6. ToSet(one) \subseteq P /\ one[1] \in P /\ r \notin P
  <2>1. ToSet(one) \subseteq P /\ one[1] \in ToSet(one)
    BY <1>2, <1>5 DEF Files, ToSet
  <2> QED BY <2>1, Placed
<1>7. h \in P
  BY <1>2, <1>3, <1>5 DEF Files, ToSet
<1>8. h \notin ToSet(one)
  <2>1. \A k \in DOMAIN one : Before(size, one[k], h)
    BY <1>3, <1>5 DEF OrderInv, InOrder
  <2>2. \A k \in DOMAIN one : one[k] # h
    BY <1>5, <2>1, BeforeOrders DEF TypeOK
  <2> QED BY <2>2 DEF ToSet
<1>9. Bytes(ToSet(one), size) + Known(h, size) > Cap
  <2>1. Batches = all
    BY <1>2 DEF Batches
  <2>2. GreedyAt(Batches, 2, size)
    BY <1>3, <2>1, GreedyIs DEF GreedyInv
  <2> HIDE DEF all
  <2> QED BY <1>3, <2>1, <2>2 DEF GreedyAt
<1> HIDE DEF P, all, one, h, n
<1>10. /\ P \cup {r} \in SUBSET wanted /\ ToSet(one) \cup {h} \in SUBSET (P \cup {r})
       /\ IsFiniteSet(P \cup {r}) /\ IsFiniteSet(ToSet(one))
       /\ \A x \in P \cup {r} : Known(x, size) \in Nat
  BY <1>1, <1>6, <1>7, Placed DEF P
<1>11. /\ Bytes(ToSet(one) \cup {h}, size) = Bytes(ToSet(one), size) + Known(h, size)
       /\ Bytes(ToSet(one), size) \in Nat /\ Known(h, size) \in Nat
  BY <1>8, <1>10, BytesAdd
<1>12. Bytes(ToSet(one) \cup {h}, size) <= Bytes(P \cup {r}, size)
  BY <1>10, BytesGrow
<1>13. Bytes(P \cup {r}, size) \in Nat
  BY <1>10, BytesRemove
<1> QED BY <1>1, <1>6, <1>9, <1>11, <1>12, <1>13 DEF P

LEMMA FirstStep ==
    ASSUME TypeOK, EveryFilePlaced, OrderInv, GreedyInv, FirstInv, [Next]_vars
    PROVE  FirstInv'
<1> DEFINE FB == FirstBatch(wanted, size)
           first == IF batches = <<>> THEN current ELSE batches[1]
<1>0. FB \ left = ToSet(first)
  BY DEF FirstInv
<1>1. ASSUME wanted' = wanted, size' = size, NEW f,
             f = IF batches' = <<>> THEN current' ELSE batches'[1], FB \ left' = ToSet(f)
      PROVE  FirstInv'
  <2>1. FB' = FB
    BY <1>1 DEF FirstBatch, Fits, Before, Key, Rank, Bytes, Known, MapThenSumSet, MapThenFoldSet
  <2> HIDE DEF FB
  <2> QED BY <1>1, <2>1 DEF FirstInv, FB, ToSet
<1>2. /\ batches \in Seq(Seq(wanted)) /\ current \in Seq(wanted) /\ left \subseteq wanted
      /\ bytes \in Nat /\ Cap \in Nat
  BY RankingAssumption DEF TypeOK
<1> HIDE DEF FB
<1>3. ASSUME NEW r \in left, Row(r) PROVE FirstInv'
  <2>1. UNCHANGED <<wanted, size>> /\ left' = left \ {r} /\ IsNext(r) /\ r \in wanted
    BY <1>2, <1>3 DEF Row
  <2>2. r \in FB <=> /\ size[r] <= MaxFile
                     /\ \/ Files(batches) \cup ToSet(current) = {}
                        \/ Bytes((Files(batches) \cup ToSet(current)) \cup {r}, size) <= Cap
    BY <2>1, FirstTakes DEF FB
  <2>3. CASE batches # <<>> \/ Skip(r)
    <3>1. r \notin FB
      <4>1. CASE batches # <<>>
        BY <2>2, <4>1, FirstIsFull
      <4>2. CASE Skip(r)
        <5>1. ~(size[r] <= MaxFile)
          BY <2>1, <4>2, RankingAssumption DEF Skip, TypeOK, Told, NoSize
        <5> QED BY <2>2, <5>1
      <4> QED BY <2>3, <4>1, <4>2
    <3>2. first = IF batches' = <<>> THEN current' ELSE batches'[1]
      <4>1. CASE Skip(r)
        BY <4>1 DEF Skip
      <4>2. CASE batches # <<>>
        <5>1. batches' = batches \/ batches' = Append(batches, current)
          BY <1>3 DEF Row, Skip, Close, Add
        <5>2. Append(batches, current) # <<>> /\ Append(batches, current)[1] = batches[1]
          <6>1. /\ Len(Append(batches, current)) = Len(batches) + 1 /\ Len(batches) \in Nat
                /\ Len(batches) # 0
            BY <1>2, <4>2
          <6>2. Append(batches, current)[1] = batches[1]
            BY <1>2, <6>1
          <6> QED BY <6>1, <6>2
        <5> QED BY <4>2, <5>1, <5>2
      <4> QED BY <2>3, <4>1, <4>2
    <3>3. FB \ left' = FB \ left
      BY <2>1, <3>1
    <3> QED BY <1>0, <1>1, <2>1, <3>2, <3>3
  <2>4. CASE batches = <<>> /\ ~Skip(r)
    <3>1. Files(batches) \cup ToSet(current) = ToSet(current) /\ first = current
      BY <2>4, NoFiles
    <3>2. ToSet(current) = {} <=> current = <<>>
      <4>1. current # <<>> => current[1] \in ToSet(current)
        BY <1>2 DEF ToSet
      <4> QED BY <4>1, SingleFile
    <3>3. size[r] <= MaxFile
      BY <1>3, <2>4 DEF Row, Close, Add
    <3>4. Bytes(ToSet(current) \cup {r}, size) = bytes + Known(r, size)
      BY OneMoreFile
    <3>5. bytes + Known(r, size) \in Int
      BY <1>2, <2>1, Placed
    <3>6. r \in FB <=> ~Closes(r)
      <4>1. r \in FB <=> ToSet(current) = {} \/ bytes + Known(r, size) <= Cap
        BY <2>2, <3>1, <3>3, <3>4
      <4>2. bytes + Known(r, size) <= Cap <=> ~(bytes + Known(r, size) > Cap)
        BY <1>2, <3>5
      <4> QED BY <3>2, <4>1, <4>2 DEF Closes
    <3>7. CASE Close(r)
      <4>1. batches' = <<current>>
        BY <1>2, <2>4, <3>7 DEF Close
      <4>2. current = IF batches' = <<>> THEN current' ELSE batches'[1]
        BY <4>1
      <4>3. FB \ left' = FB \ left
        BY <2>1, <3>6, <3>7 DEF Close
      <4> QED BY <1>0, <1>1, <2>1, <3>1, <4>2, <4>3
    <3>8. CASE Add(r)
      <4>1. current' = Append(current, r) /\ batches' = <<>>
        BY <2>4, <3>8 DEF Add
      <4>2. ToSet(Append(current, r)) = ToSet(current) \cup {r}
        BY <1>2, <2>1, ToSetAppend
      <4>3. FB \ left' = (FB \ left) \cup {r}
        BY <2>1, <3>6, <3>8 DEF Add
      <4> QED BY <1>0, <1>1, <2>1, <3>1, <4>1, <4>2, <4>3
    <3> QED BY <1>3, <2>4, <3>7, <3>8 DEF Row
  <2> QED BY <2>3, <2>4
<1>4. CASE EndLoop
  <2>1. batches' = Append(batches, current) /\ UNCHANGED <<wanted, size, left>>
    BY <1>4 DEF EndLoop, AppendLast
  <2>2. /\ batches' # <<>>
        /\ batches'[1] = first
    <3>1. CASE batches = <<>>
      BY <1>2, <2>1, <3>1
    <3>2. CASE batches # <<>>
      <4>1. /\ Len(batches') = Len(batches) + 1 /\ Len(batches) \in Nat /\ Len(batches) # 0
        BY <1>2, <2>1, <3>2
      <4>2. batches'[1] = batches[1]
        BY <1>2, <2>1, <4>1
      <4> QED BY <3>2, <4>1, <4>2
    <3> QED BY <3>1, <3>2
  <2> QED BY <1>0, <1>1, <2>1, <2>2
<1>5. CASE UNCHANGED vars
  BY <1>0, <1>1, <1>5 DEF vars
<1> QED BY <1>3, <1>4, <1>5 DEF Next

(* What an estimate queues is the first of the batches.                     *)
THEOREM FirstAlwaysFirst == Spec => []FirstIsFirstBatch
<1>1. Init => TypeOK /\ OrderInv /\ GreedyInv /\ FirstInv
  <2> SUFFICES ASSUME Init PROVE TypeOK /\ OrderInv /\ GreedyInv /\ FirstInv
    OBVIOUS
  <2>1. TypeOK
    BY DEF Init, TypeOK
  <2>2. OrderInv
    BY DEF Init, OrderInv, InOrder
  <2>3. FirstInv
    <3>1. FirstBatch(wanted, size) \subseteq left
      BY DEF Init, FirstBatch, Fits
    <3> QED BY <3>1, SingleFile DEF Init, FirstInv
  <2> QED BY <2>1, <2>2, <2>3, GreedyAtFirst
<1>2. FirstInv => FirstIsFirstBatch
  BY SingleFile DEF FirstInv, FirstIsFirstBatch
<1> QED
  BY <1>1, <1>2, OrderStep, GreedyStep, FirstStep, TypeCorrect, EveryFileAlwaysPlaced, PTL
  DEF Spec
=============================================================================
