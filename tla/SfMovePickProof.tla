-------------------------- MODULE SfMovePickProof --------------------------
(***************************************************************************)
(* Proofs about SfMovePick: that the invariant of SfMovePickInv holds of   *)
(* every list of moves and of all scores, and what follows from it.        *)
(***************************************************************************)
EXTENDS SfMovePickInv, FiniteSetTheorems, SequenceTheorems, WellFoundedInduction, TLAPS

-----------------------------------------------------------------------------
(***************************************************************************)
(* Numbers                                                                 *)
(***************************************************************************)

\* A set of numbers has a least element. What is shown of every number below is
\* shown by looking at the least one it would not hold for.
LEMMA NatMin ==
  ASSUME NEW T, T \subseteq Nat, T # {} PROVE \E x \in T : \A y \in T : x <= y
<1> DEFINE R == {ss \in Nat \X Nat : ss[1] < ss[2]}
<1>1. IsWellFoundedOn(R, Nat) BY NatLessThanWellFounded DEF OpToRel
<1> HIDE DEF R
<1>2. \E x \in T : \A y \in T : ~ (<<y, x>> \in R) BY <1>1, WFMin
<1>3. \A x, y \in Nat : x < y => <<x,y>> \in R BY DEF R
<1>4. PICK x \in T : \A y \in T : ~ (<<y, x>> \in R) BY <1>2
<1>5. x \in Nat OBVIOUS
<1>6. ASSUME NEW y \in T PROVE x <= y
  <2>1. y \in Nat OBVIOUS
  <2>2. ~ (y < x) BY <1>3, <1>4, <1>5, <2>1
  <2> QED BY <1>5, <2>1, <2>2
<1> QED BY <1>6

\* The numbers from 1 to n are n.
LEMMA UpTo ==
  ASSUME NEW n \in Nat PROVE IsFiniteSet(1 .. n) /\ Cardinality(1 .. n) = n
<1>1. 1 \in Int /\ n \in Int OBVIOUS
<1>2. IsFiniteSet(1 .. n) BY <1>1, FS_Interval
<1>3. Cardinality(1 .. n) = IF 1 > n THEN 0 ELSE n - 1 + 1 BY <1>1, FS_Interval
<1> QED BY <1>2, <1>3

\* The greatest of a set of numbers from 1 to n.
LEMMA MaxUpTo ==
  ASSUME NEW n \in Nat, NEW s \in SUBSET (1 .. n), s # {}
  PROVE  Max(s) \in s /\ \A y \in s : Max(s) >= y
<1>1. PICK x \in s : \A y \in s : x >= y
  <2> DEFINE U == {n - x : x \in s}
  <2>1. U \subseteq Nat /\ U # {}
    <3>1. \A y \in s : y \in 1 .. n /\ n - y \in Nat OBVIOUS
    <3> QED BY <3>1
  <2>2. PICK u \in U : \A v \in U : u <= v
    <3> HIDE DEF U
    <3> QED BY <2>1, NatMin
  <2>3. PICK x \in s : u = n - x OBVIOUS
  <2>4. ASSUME NEW y \in s PROVE x >= y
    <3>1. n - y \in U OBVIOUS
    <3>2. x \in 1 .. n /\ y \in 1 .. n OBVIOUS
    <3>3. n - x <= n - y BY <2>2, <2>3, <3>1
    <3> QED BY <3>2, <3>3
  <2> QED BY <2>4
<1> QED BY <1>1 DEF Max

-----------------------------------------------------------------------------

-----------------------------------------------------------------------------
(* Sorting.                                                                *)

\* What PartialInsertionSort does at a place.
SortStep(limit, acc, p) ==
  IF acc.list[p].value < limit THEN acc
  ELSE [sorted |-> acc.sorted + 1, list |-> Place(acc.list, p, acc.sorted + 1)]

\* The function by which its fold is defined, and what it computes place by place.
IsSortFold(f, n, base, limit) ==
  f = [s \in SUBSET (1 .. n) |->
         IF s = {} THEN base ELSE SortStep(limit, f[s \ {Max(s)}], Max(s) + 1)]

IsSortRun(r, n, base, limit) ==
  r[0] = base /\ \A i \in 1 .. n : r[i] = SortStep(limit, r[i - 1], i + 1)

LEMMA SortFoldExists ==
  ASSUME NEW N \in Nat, NEW base, NEW limit
  PROVE  \E f : IsSortFold(f, N, base, limit)
<1> DEFINE T == {n \in Nat : ~ \E f : IsSortFold(f, n, base, limit)}
<1> SUFFICES ASSUME T # {} PROVE FALSE OBVIOUS
<1>1. PICK n \in T : \A m \in T : n <= m
  <2>1. T \subseteq Nat OBVIOUS
  <2> HIDE DEF T
  <2> QED BY <2>1, NatMin
<1>2. n # 0
  <2> DEFINE f == [s \in SUBSET (1 .. 0) |-> base]
  <2>1. \A s \in SUBSET (1 .. 0) : s = {} OBVIOUS
  <2>2. f = [s \in SUBSET (1 .. 0) |->
               IF s = {} THEN base ELSE SortStep(limit, f[s \ {Max(s)}], Max(s) + 1)]
    BY <2>1
  <2> HIDE DEF f
  <2>3. IsSortFold(f, 0, base, limit) BY <2>2 DEF IsSortFold
  <2> QED BY <2>3
<1>3. n \in Nat /\ n - 1 \in Nat /\ n - 1 \notin T
  <2>1. n \in Nat /\ n - 1 \in Nat /\ ~ (n <= n - 1) BY <1>2
  <2> QED BY <1>1, <2>1
<1>4. PICK f : IsSortFold(f, n - 1, base, limit) BY <1>3
<1> DEFINE St(s, g) == IF s = {} THEN base ELSE SortStep(limit, g[s \ {Max(s)}], Max(s) + 1)
           h == [s \in SUBSET (1 .. n) |->
                   IF s \in SUBSET (1 .. n - 1) THEN f[s] ELSE St(s, f)]
<1>5. \A s \in SUBSET (1 .. n) : h[s] = St(s, h)
  <2> TAKE s \in SUBSET (1 .. n)
  <2>1. CASE s = {}
    <3>1. h[s] = f[s] BY <2>1
    <3> HIDE DEF h
    <3>2. f[s] = base BY <1>4, <2>1 DEF IsSortFold
    <3> QED BY <2>1, <3>1, <3>2
  <2>2. CASE s # {}
    <3>1. Max(s) \in s /\ \A y \in s : Max(s) >= y BY <1>3, <2>2, MaxUpTo
    <3> DEFINE m == Max(s)
               t == s \ {m}
    <3>2. m \in 1 .. n /\ m \in s BY <3>1
    <3> HIDE DEF m
    <3>3. \A y \in s : m >= y BY <3>1 DEF m
    <3>4. t \in SUBSET (1 .. n - 1)
      <4>1. \A y \in t : y \in 1 .. n /\ y # m /\ m >= y BY <3>3
      <4> QED BY <1>3, <3>2, <4>1
    <3>5. h[t] = f[t]
      <4>1. t \in SUBSET (1 .. n) OBVIOUS
      <4> QED BY <3>4, <4>1
    <3>6. h[s] = St(s, f)
      <4>1. CASE s \in SUBSET (1 .. n - 1)
        <5>1. h[s] = f[s] BY <4>1
        <5> HIDE DEF h
        <5>2. f[s] = IF s = {} THEN base ELSE SortStep(limit, f[s \ {Max(s)}], Max(s) + 1)
          BY <1>4, <4>1 DEF IsSortFold
        <5> QED BY <5>1, <5>2
      <4>2. CASE s \notin SUBSET (1 .. n - 1) BY <4>2
      <4> QED BY <4>1, <4>2
    <3> HIDE DEF h, t
    <3>7. St(s, f) = SortStep(limit, f[t], m + 1) BY <2>2 DEF t, m
    <3>8. St(s, h) = SortStep(limit, h[t], m + 1) BY <2>2 DEF t, m
    <3> HIDE DEF St
    <3> QED BY <3>5, <3>6, <3>7, <3>8
  <2> QED BY <2>1, <2>2
<1>6. h = [s \in SUBSET (1 .. n) |-> h[s]] OBVIOUS
<1> HIDE DEF h
<1>7. h = [s \in SUBSET (1 .. n) |-> St(s, h)] BY <1>5, <1>6
<1>8. IsSortFold(h, n, base, limit) BY <1>7 DEF IsSortFold
<1> QED BY <1>8

\* The value of such a function at the first i places.
LEMMA SortFoldAt ==
  ASSUME NEW n \in Nat, NEW base, NEW limit, NEW f, IsSortFold(f, n, base, limit)
  PROVE  IsSortRun([i \in 0 .. n |-> f[1 .. i]], n, base, limit)
<1> DEFINE r == [i \in 0 .. n |-> f[1 .. i]]
<1>1. r[0] = base
  <2>1. 1 .. 0 = {} /\ 0 \in 0 .. n OBVIOUS
  <2>2. r[0] = f[{}] BY <2>1
  <2> HIDE DEF r
  <2> QED BY <2>2 DEF IsSortFold
<1>2. ASSUME NEW i \in 1 .. n PROVE r[i] = SortStep(limit, r[i - 1], i + 1)
  <2>1. i \in 0 .. n /\ i - 1 \in 0 .. n OBVIOUS
  <2>2. r[i] = f[1 .. i] /\ r[i - 1] = f[1 .. i - 1] BY <2>1
  <2> HIDE DEF r
  <2>3. 1 .. i \in SUBSET (1 .. n) /\ i \in 1 .. i /\ 1 .. i # {}
    <3>1. i \in Nat /\ i >= 1 /\ i <= n OBVIOUS
    <3>2. i \in 1 .. i /\ \A j \in 1 .. i : j \in 1 .. n BY <3>1
    <3> QED BY <3>2
  <2>4. Max(1 .. i) = i
    <3>1. Max(1 .. i) \in 1 .. i /\ \A y \in 1 .. i : Max(1 .. i) >= y BY <2>3, MaxUpTo
    <3>2. Max(1 .. i) >= i BY <2>3, <3>1
    <3> QED BY <3>1, <3>2
  <2>5. (1 .. i) \ {i} = 1 .. i - 1 OBVIOUS
  <2>6. f[1 .. i] = IF 1 .. i = {} THEN base
                    ELSE SortStep(limit, f[(1 .. i) \ {Max(1 .. i)}], Max(1 .. i) + 1)
    BY <2>3 DEF IsSortFold
  <2> QED BY <2>2, <2>3, <2>4, <2>5, <2>6
<1> HIDE DEF r
<1>3. IsSortRun(r, n, base, limit) BY <1>1, <1>2 DEF IsSortRun
<1> QED BY <1>3 DEF r

SortBase(list) == [sorted |-> 1, list |-> list]

\* The places from the second on.
Steps(list) == IF Len(list) = 0 THEN 0 ELSE Len(list) - 1

LEMMA SortWalk ==
  ASSUME NEW list, Len(list) \in Nat, NEW limit
  PROVE  \E r : /\ IsSortRun(r, Steps(list), SortBase(list), limit)
                /\ PartialInsertionSort(list, limit) = r[Steps(list)].list
<1> DEFINE n == Steps(list)
           Q == [i \in 1 .. Len(list) - 1 |-> i + 1]
           base == [sorted |-> 1, list |-> list]
           W == CHOOSE it : it = [s \in SUBSET DOMAIN Q |->
                  IF s = {} THEN base ELSE SortStep(limit, it[s \ {Max(s)}], Q[Max(s)])]
<1>1. PartialInsertionSort(list, limit) = W[DOMAIN Q].list
  BY DEF PartialInsertionSort, FoldLeft, MapThenFoldSet, SortStep
<1>2. n \in Nat /\ DOMAIN Q = 1 .. n /\ \A i \in 1 .. n : Q[i] = i + 1
  <2>1. CASE Len(list) = 0
    <3>1. 1 .. Len(list) - 1 = {} /\ 1 .. 0 = {} BY <2>1
    <3> QED BY <2>1, <3>1 DEF Steps
  <2>2. CASE Len(list) # 0 BY <2>2 DEF Steps
  <2> QED BY <2>1, <2>2
<1> HIDE DEF n, Q
<1>3. PICK f : IsSortFold(f, n, base, limit)
  <2> HIDE DEF base
  <2> QED BY <1>2, SortFoldExists
<1> DEFINE Same(g) ==
      [s \in SUBSET DOMAIN Q |->
         IF s = {} THEN base ELSE SortStep(limit, g[s \ {Max(s)}], Q[Max(s)])]
<1>4. ASSUME NEW g
      PROVE  Same(g) = [s \in SUBSET (1 .. n) |->
               IF s = {} THEN base ELSE SortStep(limit, g[s \ {Max(s)}], Max(s) + 1)]
  <2>1. ASSUME NEW s \in SUBSET (1 .. n), s # {} PROVE Q[Max(s)] = Max(s) + 1
    <3>1. Max(s) \in s BY <1>2, <2>1, MaxUpTo
    <3>2. Max(s) \in 1 .. n BY <3>1
    <3> QED BY <1>2, <3>2
  <2> HIDE DEF base
  <2> QED BY <1>2, <2>1
<1>5. f = Same(f) BY <1>3, <1>4 DEF IsSortFold
<1>6. W = Same(W) BY <1>5
<1> HIDE DEF W
<1>7. IsSortFold(W, n, base, limit) BY <1>4, <1>6 DEF IsSortFold
<1> DEFINE r == [i \in 0 .. n |-> W[1 .. i]]
<1>8. IsSortRun(r, n, base, limit)
  <2> HIDE DEF base
  <2> QED BY <1>2, <1>7, SortFoldAt
<1>9. r[n] = W[DOMAIN Q] BY <1>2
<1> HIDE DEF r
<1>10. base = SortBase(list) BY DEF SortBase
<1> HIDE DEF base
<1> QED BY <1>1, <1>8, <1>9, <1>10 DEF n

\* b has the entries of a in some order.
Shuffled(a, b) ==
  /\ Len(b) = Len(a)
  /\ \A i \in 1 .. Len(a) : \E j \in 1 .. Len(a) : b[i] = a[j]
  /\ \A j \in 1 .. Len(a) : \E i \in 1 .. Len(a) : b[i] = a[j]
  /\ DistinctMoves(a) => DistinctMoves(b)

\* Where Place takes the element of a place from.
Origin(p, e, rank, i) ==
  IF i = rank THEN p ELSE IF i \in rank + 1 .. e THEN i - 1 ELSE IF i = p THEN e ELSE i

IsPermutation(n, p, e, rank) ==
  /\ \A i \in 1 .. n : Origin(p, e, rank, i) \in 1 .. n
  /\ \A j \in 1 .. n : \E i \in 1 .. n : Origin(p, e, rank, i) = j
  /\ \A i, j \in 1 .. n : Origin(p, e, rank, i) = Origin(p, e, rank, j) => i = j

LEMMA OriginIsPermutation ==
  ASSUME NEW n \in Nat, NEW p \in 1 .. n, NEW e \in 1 .. p, NEW rank \in 1 .. e
  PROVE  IsPermutation(n, p, e, rank)
<1>1. \A i \in 1 .. n : Origin(p, e, rank, i) \in 1 .. n BY DEF Origin
<1>2. \A i, j \in 1 .. n : Origin(p, e, rank, i) = Origin(p, e, rank, j) => i = j
  BY DEF Origin
<1>3. ASSUME NEW j \in 1 .. n PROVE \E i \in 1 .. n : Origin(p, e, rank, i) = j
  <2>1. CASE j = p
    <3>1. rank \in 1 .. n /\ Origin(p, e, rank, rank) = j BY <2>1 DEF Origin
    <3> QED BY <3>1
  <2>2. CASE j # p /\ j = e
    <3>1. p # rank /\ p \notin rank + 1 .. e BY <2>2
    <3>2. p \in 1 .. n /\ Origin(p, e, rank, p) = j BY <2>2, <3>1 DEF Origin
    <3> QED BY <3>2
  <2>3. CASE j # p /\ j \in rank .. e - 1
    <3>1. j + 1 \in 1 .. n /\ j + 1 # rank /\ j + 1 \in rank + 1 .. e BY <2>3
    <3>2. Origin(p, e, rank, j + 1) = j BY <3>1 DEF Origin
    <3> QED BY <3>1, <3>2
  <2>4. CASE j # p /\ j # e /\ j \notin rank .. e - 1
    <3>1. j # rank /\ j \notin rank + 1 .. e BY <2>4
    <3>2. Origin(p, e, rank, j) = j BY <2>4, <3>1 DEF Origin
    <3> QED BY <3>2
  <2> QED BY <2>1, <2>2, <2>3, <2>4
<1> QED BY <1>1, <1>2, <1>3 DEF IsPermutation

\* The place it is put at.
RankOf(list, p, e) == 1 + Cardinality({i \in 1 .. e - 1 : list[i].value >= list[p].value})

\* An element is put among the first e - 1 without losing or doubling any.
LEMMA PlaceShuffles ==
  ASSUME NEW S, NEW list \in Seq(S), NEW p \in 1 .. Len(list), NEW e \in 1 .. p
  PROVE  /\ Place(list, p, e) \in Seq(S) /\ Shuffled(list, Place(list, p, e))
         /\ RankOf(list, p, e) \in 1 .. e
         /\ \A i \in 1 .. Len(list) :
              Place(list, p, e)[i] = list[Origin(p, e, RankOf(list, p, e), i)]
<1> DEFINE hole == [list EXCEPT ![p] = list[e]]
           R == {i \in 1 .. e - 1 : list[i].value >= list[p].value}
           rank == 1 + Cardinality(R)
           b == [i \in DOMAIN list |->
                   IF i = rank THEN list[p]
                   ELSE IF i \in rank + 1..e THEN list[i - 1] ELSE hole[i]]
           n == Len(list)
<1>1. Place(list, p, e) = b BY DEF Place
<1>2. n \in Nat /\ DOMAIN list = 1 .. n /\ p \in 1 .. n /\ e \in 1 .. n /\ e - 1 \in Nat
  OBVIOUS
<1>3. rank \in 1 .. e
  <2>1. IsFiniteSet(1 .. e - 1) /\ Cardinality(1 .. e - 1) = e - 1 BY <1>2, UpTo
  <2>2. R \subseteq 1 .. e - 1 OBVIOUS
  <2> HIDE DEF R
  <2>3. IsFiniteSet(R) /\ Cardinality(R) <= e - 1 BY <2>1, <2>2, FS_Subset
  <2>4. Cardinality(R) \in Nat BY <2>3, FS_CardinalityType
  <2> QED BY <1>2, <2>3, <2>4
<1> HIDE DEF rank
<1>4. \A i \in 1 .. n : b[i] = list[Origin(p, e, rank, i)]
  <2> TAKE i \in 1 .. n
  <2>1. hole[i] = IF i = p THEN list[e] ELSE list[i] BY <1>2
  <2> HIDE DEF hole
  <2>2. b[i] = IF i = rank THEN list[p]
               ELSE IF i \in rank + 1..e THEN list[i - 1] ELSE hole[i]
    BY <1>2
  <2> QED BY <2>1, <2>2 DEF Origin
<1>5. b \in [1 .. n -> S] /\ DOMAIN b = 1 .. n
  <2>1. DOMAIN b = 1 .. n BY <1>2
  <2>2. b = [i \in 1 .. n |-> b[i]] BY <1>2
  <2>3. \A i \in 1 .. n : b[i] \in S
    <3> HIDE DEF b
    <3>1. \A i \in 1 .. n : Origin(p, e, rank, i) \in 1 .. n
      <4> HIDE DEF n
      <4>1. IsPermutation(n, p, e, rank) BY <1>2, <1>3, OriginIsPermutation
      <4> QED BY <4>1 DEF IsPermutation
    <3>2. \A i \in 1 .. n : list[i] \in S OBVIOUS
    <3> QED BY <1>4, <3>1, <3>2
  <2> HIDE DEF b
  <2> QED BY <2>1, <2>2, <2>3
<1> HIDE DEF b
<1>6. b \in Seq(S) /\ Len(b) = n BY <1>2, <1>5
<1>7. /\ \A i \in 1 .. n : Origin(p, e, rank, i) \in 1 .. n
      /\ \A j \in 1 .. n : \E i \in 1 .. n : Origin(p, e, rank, i) = j
      /\ \A i, j \in 1 .. n : Origin(p, e, rank, i) = Origin(p, e, rank, j) => i = j
  <2> HIDE DEF n
  <2>0. n \in Nat /\ p \in 1 .. n /\ e \in 1 .. p /\ rank \in 1 .. e BY <1>2, <1>3
  <2>1. IsPermutation(n, p, e, rank) BY <2>0, OriginIsPermutation
  <2> QED BY <2>1 DEF IsPermutation
<1>8. DistinctMoves(list) => DistinctMoves(b)
  <2> SUFFICES ASSUME DistinctMoves(list), NEW i \in 1 .. n, NEW j \in 1 .. n,
                      b[i].move = b[j].move
               PROVE  i = j
    BY <1>5 DEF DistinctMoves
  <2> HIDE DEF n
  <2> SUFFICES ASSUME NEW k, k = Origin(p, e, rank, i), NEW l, l = Origin(p, e, rank, j)
               PROVE  i = j
    OBVIOUS
  <2>1. k \in 1 .. n /\ l \in 1 .. n /\ list[k].move = list[l].move BY <1>4, <1>7
  <2>2. k = l BY <1>2, <2>1 DEF DistinctMoves
  <2> QED BY <1>7, <2>2
<1>9. Shuffled(list, b) BY <1>4, <1>6, <1>7, <1>8 DEF Shuffled
<1>10. RankOf(list, p, e) = rank BY DEF RankOf, rank
<1> QED BY <1>1, <1>3, <1>4, <1>6, <1>9, <1>10

LEMMA ShuffledTwice ==
  ASSUME NEW a, NEW b, NEW c, Shuffled(a, b), Shuffled(b, c) PROVE Shuffled(a, c)
<1>1. Len(c) = Len(a) BY DEF Shuffled
<1>2. ASSUME NEW i \in 1 .. Len(a) PROVE \E j \in 1 .. Len(a) : c[i] = a[j]
  <2>1. PICK k \in 1 .. Len(a) : c[i] = b[k] BY DEF Shuffled
  <2> QED BY <2>1 DEF Shuffled
<1>3. ASSUME NEW j \in 1 .. Len(a) PROVE \E i \in 1 .. Len(a) : c[i] = a[j]
  <2>1. PICK k \in 1 .. Len(a) : b[k] = a[j] BY DEF Shuffled
  <2> QED BY <2>1 DEF Shuffled
<1> QED BY <1>1, <1>2, <1>3 DEF Shuffled

\* A sorted list has the elements it had.
LEMMA SortShuffles ==
  ASSUME NEW S, NEW list \in Seq(S), NEW limit
  PROVE  /\ PartialInsertionSort(list, limit) \in Seq(S)
         /\ Shuffled(list, PartialInsertionSort(list, limit))
<1> DEFINE n == Steps(list)
           OK(y, i) == /\ y.sorted \in 1 .. i + 1
                       /\ y.list \in Seq(S) /\ Shuffled(list, y.list)
<1>0. Len(list) \in Nat /\ n \in Nat /\ n <= Len(list)
      /\ \A i \in 1 .. n : i + 1 \in 1 .. Len(list)
  BY DEF Steps
<1>1. PICK r : /\ IsSortRun(r, n, SortBase(list), limit)
               /\ PartialInsertionSort(list, limit) = r[n].list
  BY <1>0, SortWalk
<1>2. OK(r[0], 0)
  <2>1. r[0] = SortBase(list) BY <1>1 DEF IsSortRun
  <2>2. r[0].sorted = 1 /\ r[0].list = list BY <2>1 DEF SortBase
  <2>3. Shuffled(list, list) BY DEF Shuffled
  <2> QED BY <2>2, <2>3
<1>3. ASSUME NEW i \in 1 .. n, OK(r[i - 1], i - 1) PROVE OK(r[i], i)
  <2> SUFFICES ASSUME NEW y, y = r[i - 1], NEW p, p = i + 1 PROVE OK(r[i], i) OBVIOUS
  <2>1. /\ y.sorted \in 1 .. i /\ y.list \in Seq(S) /\ Shuffled(list, y.list)
        /\ p \in 1 .. Len(list) /\ i \in Nat
    BY <1>0, <1>3
  <2>2. r[i] = SortStep(limit, y, p) BY <1>1 DEF IsSortRun
  <2>3. CASE y.list[p].value < limit
    <3>1. r[i] = y BY <2>2, <2>3 DEF SortStep
    <3> QED BY <2>1, <3>1
  <2>4. CASE ~ (y.list[p].value < limit)
    <3> DEFINE e == y.sorted + 1
               z == Place(y.list, p, e)
    <3>1. r[i] = [sorted |-> e, list |-> z] BY <2>2, <2>4 DEF SortStep
    <3>2. Len(y.list) = Len(list) BY <2>1 DEF Shuffled
    <3>3. e \in 1 .. p /\ p \in 1 .. Len(y.list) BY <2>1, <3>2
    <3> HIDE DEF e
    <3>4. z \in Seq(S) /\ Shuffled(y.list, z) BY <2>1, <3>3, PlaceShuffles
    <3> HIDE DEF z
    <3>5. Shuffled(list, z) BY <2>1, <3>4, ShuffledTwice
    <3>6. r[i].sorted = e /\ r[i].list = z BY <3>1
    <3>7. e \in 1 .. i + 1 BY <3>3
    <3> QED BY <3>4, <3>5, <3>6, <3>7
  <2> QED BY <2>3, <2>4
<1> HIDE DEF OK
<1> DEFINE Z == {i \in 0 .. n : ~ OK(r[i], i)}
<1>4. Z = {}
  <2> SUFFICES ASSUME Z # {} PROVE FALSE OBVIOUS
  <2>1. PICK i \in Z : \A j \in Z : i <= j
    <3>1. Z \subseteq Nat BY <1>0
    <3> HIDE DEF Z
    <3> QED BY <3>1, NatMin
  <2>2. i # 0 BY <1>2
  <2>3. i \in 1 .. n /\ i - 1 \in 0 .. n /\ ~ (i <= i - 1) BY <1>0, <2>2
  <2>4. OK(r[i - 1], i - 1) BY <2>1, <2>3
  <2> QED BY <1>3, <2>3, <2>4
<1>5. n \in 0 .. n BY <1>0
<1>6. OK(r[n], n) BY <1>4, <1>5
<1> QED BY <1>1, <1>6 DEF OK


-----------------------------------------------------------------------------
(* Setting captures aside.                                                 *)

\* What the loop of select does at a place: those of C are passed over.
Visit(C, acc, i) ==
  IF i \notin C THEN acc
  ELSE [list |-> [acc.list EXCEPT ![acc.bad + 1] = acc.list[i], ![i] = acc.list[acc.bad + 1]],
        bad |-> acc.bad + 1]

\* The function by which its fold is defined, and what it computes place by place.
IsPassFold(f, n, base, C, at) ==
  f = [s \in SUBSET (1 .. n) |->
         IF s = {} THEN base ELSE Visit(C, f[s \ {Max(s)}], at + Max(s))]

IsPassRun(r, n, base, C, at) ==
  r[0] = base /\ \A i \in 1 .. n : r[i] = Visit(C, r[i - 1], at + i)

LEMMA PassFoldExists ==
  ASSUME NEW N \in Nat, NEW base, NEW C, NEW at
  PROVE  \E f : IsPassFold(f, N, base, C, at)
<1> DEFINE T == {n \in Nat : ~ \E f : IsPassFold(f, n, base, C, at)}
<1> SUFFICES ASSUME T # {} PROVE FALSE OBVIOUS
<1>1. PICK n \in T : \A m \in T : n <= m
  <2>1. T \subseteq Nat OBVIOUS
  <2> HIDE DEF T
  <2> QED BY <2>1, NatMin
<1>2. n # 0
  <2> DEFINE f == [s \in SUBSET (1 .. 0) |-> base]
  <2>1. \A s \in SUBSET (1 .. 0) : s = {} OBVIOUS
  <2>2. f = [s \in SUBSET (1 .. 0) |->
               IF s = {} THEN base ELSE Visit(C, f[s \ {Max(s)}], at + Max(s))]
    BY <2>1
  <2> HIDE DEF f
  <2>3. IsPassFold(f, 0, base, C, at) BY <2>2 DEF IsPassFold
  <2> QED BY <2>3
<1>3. n \in Nat /\ n - 1 \in Nat /\ n - 1 \notin T
  <2>1. n \in Nat /\ n - 1 \in Nat /\ ~ (n <= n - 1) BY <1>2
  <2> QED BY <1>1, <2>1
<1>4. PICK f : IsPassFold(f, n - 1, base, C, at) BY <1>3
<1> DEFINE St(s, g) == IF s = {} THEN base ELSE Visit(C, g[s \ {Max(s)}], at + Max(s))
           h == [s \in SUBSET (1 .. n) |->
                   IF s \in SUBSET (1 .. n - 1) THEN f[s] ELSE St(s, f)]
<1>5. \A s \in SUBSET (1 .. n) : h[s] = St(s, h)
  <2> TAKE s \in SUBSET (1 .. n)
  <2>1. CASE s = {}
    <3>1. h[s] = f[s] BY <2>1
    <3> HIDE DEF h
    <3>2. f[s] = base BY <1>4, <2>1 DEF IsPassFold
    <3> QED BY <2>1, <3>1, <3>2
  <2>2. CASE s # {}
    <3>1. Max(s) \in s /\ \A y \in s : Max(s) >= y BY <1>3, <2>2, MaxUpTo
    <3> DEFINE m == Max(s)
               t == s \ {m}
    <3>2. m \in 1 .. n /\ m \in s BY <3>1
    <3> HIDE DEF m
    <3>3. \A y \in s : m >= y BY <3>1 DEF m
    <3>4. t \in SUBSET (1 .. n - 1)
      <4>1. \A y \in t : y \in 1 .. n /\ y # m /\ m >= y BY <3>3
      <4> QED BY <1>3, <3>2, <4>1
    <3>5. h[t] = f[t]
      <4>1. t \in SUBSET (1 .. n) OBVIOUS
      <4> QED BY <3>4, <4>1
    <3>6. h[s] = St(s, f)
      <4>1. CASE s \in SUBSET (1 .. n - 1)
        <5>1. h[s] = f[s] BY <4>1
        <5> HIDE DEF h
        <5>2. f[s] = IF s = {} THEN base ELSE Visit(C, f[s \ {Max(s)}], at + Max(s))
          BY <1>4, <4>1 DEF IsPassFold
        <5> QED BY <5>1, <5>2
      <4>2. CASE s \notin SUBSET (1 .. n - 1) BY <4>2
      <4> QED BY <4>1, <4>2
    <3> HIDE DEF h, t
    <3>7. St(s, f) = Visit(C, f[t], at + m) BY <2>2 DEF t, m
    <3>8. St(s, h) = Visit(C, h[t], at + m) BY <2>2 DEF t, m
    <3> HIDE DEF St
    <3> QED BY <3>5, <3>6, <3>7, <3>8
  <2> QED BY <2>1, <2>2
<1>6. h = [s \in SUBSET (1 .. n) |-> h[s]] OBVIOUS
<1> HIDE DEF h
<1>7. h = [s \in SUBSET (1 .. n) |-> St(s, h)] BY <1>5, <1>6
<1>8. IsPassFold(h, n, base, C, at) BY <1>7 DEF IsPassFold
<1> QED BY <1>8

\* The value of such a function at the first i places.
LEMMA PassFoldAt ==
  ASSUME NEW n \in Nat, NEW base, NEW C, NEW at, NEW f, IsPassFold(f, n, base, C, at)
  PROVE  IsPassRun([i \in 0 .. n |-> f[1 .. i]], n, base, C, at)
<1> DEFINE r == [i \in 0 .. n |-> f[1 .. i]]
<1>1. r[0] = base
  <2>1. 1 .. 0 = {} /\ 0 \in 0 .. n OBVIOUS
  <2>2. r[0] = f[{}] BY <2>1
  <2> HIDE DEF r
  <2> QED BY <2>2 DEF IsPassFold
<1>2. ASSUME NEW i \in 1 .. n PROVE r[i] = Visit(C, r[i - 1], at + i)
  <2>1. i \in 0 .. n /\ i - 1 \in 0 .. n OBVIOUS
  <2>2. r[i] = f[1 .. i] /\ r[i - 1] = f[1 .. i - 1] BY <2>1
  <2> HIDE DEF r
  <2>3. 1 .. i \in SUBSET (1 .. n) /\ i \in 1 .. i /\ 1 .. i # {}
    <3>1. i \in Nat /\ i >= 1 /\ i <= n OBVIOUS
    <3>2. i \in 1 .. i /\ \A j \in 1 .. i : j \in 1 .. n BY <3>1
    <3> QED BY <3>2
  <2>4. Max(1 .. i) = i
    <3>1. Max(1 .. i) \in 1 .. i /\ \A y \in 1 .. i : Max(1 .. i) >= y BY <2>3, MaxUpTo
    <3>2. Max(1 .. i) >= i BY <2>3, <3>1
    <3> QED BY <3>1, <3>2
  <2>5. (1 .. i) \ {i} = 1 .. i - 1 OBVIOUS
  <2>6. f[1 .. i] = IF 1 .. i = {} THEN base
                    ELSE Visit(C, f[(1 .. i) \ {Max(1 .. i)}], at + Max(1 .. i))
    BY <2>3 DEF IsPassFold
  <2> QED BY <2>2, <2>3, <2>4, <2>5, <2>6
<1> HIDE DEF r
<1>3. IsPassRun(r, n, base, C, at) BY <1>1, <1>2 DEF IsPassRun
<1> QED BY <1>3 DEF r

PassBase == [list |-> moves, bad |-> endBadCaptures]

LEMMA PassWalk ==
  ASSUME NEW upto, upto \in Int, cur \in Int, cur <= upto
  PROVE  \E r : /\ IsPassRun(r, upto - cur, PassBase, Candidates(Loses), cur)
                /\ SetAside(upto) = r[upto - cur]
<1> DEFINE n == upto - cur
           C == Candidates(Loses)
           Q == [k \in 1 .. upto - cur |-> cur + k]
           base == [list |-> moves, bad |-> endBadCaptures]
           W == CHOOSE it : it = [s \in SUBSET DOMAIN Q |->
                  IF s = {} THEN base ELSE Visit(C, it[s \ {Max(s)}], Q[Max(s)])]
<1>1. SetAside(upto) = W[DOMAIN Q]
  BY DEF SetAside, FoldLeft, MapThenFoldSet, Visit
<1>2. n \in Nat /\ DOMAIN Q = 1 .. n /\ \A i \in 1 .. n : Q[i] = cur + i OBVIOUS
<1>0. base = PassBase BY DEF PassBase
<1> HIDE DEF n, Q, C
<1>3. PICK f : IsPassFold(f, n, base, C, cur)
  <2> HIDE DEF base
  <2> QED BY <1>2, PassFoldExists
<1> DEFINE Same(g) ==
      [s \in SUBSET DOMAIN Q |->
         IF s = {} THEN base ELSE Visit(C, g[s \ {Max(s)}], Q[Max(s)])]
<1>4. ASSUME NEW g
      PROVE  Same(g) = [s \in SUBSET (1 .. n) |->
               IF s = {} THEN base ELSE Visit(C, g[s \ {Max(s)}], cur + Max(s))]
  <2>1. ASSUME NEW s \in SUBSET (1 .. n), s # {} PROVE Q[Max(s)] = cur + Max(s)
    <3>1. Max(s) \in s BY <1>2, <2>1, MaxUpTo
    <3>2. Max(s) \in 1 .. n BY <3>1
    <3> QED BY <1>2, <3>2
  <2> HIDE DEF base
  <2> QED BY <1>2, <2>1
<1>5. f = Same(f) BY <1>3, <1>4 DEF IsPassFold
<1>6. W = Same(W) BY <1>5
<1> HIDE DEF W
<1>7. IsPassFold(W, n, base, C, cur) BY <1>4, <1>6 DEF IsPassFold
<1> DEFINE r == [i \in 0 .. n |-> W[1 .. i]]
<1>8. IsPassRun(r, n, base, C, cur)
  <2> HIDE DEF base
  <2> QED BY <1>2, <1>7, PassFoldAt
<1>9. r[n] = W[DOMAIN Q] BY <1>2
<1> HIDE DEF r, base
<1> QED BY <1>0, <1>1, <1>8, <1>9 DEF n, C


\* A list of scored captures, set aside or left where they were.
CapturesIn(list) ==
  /\ list \in Seq(Entry) /\ Len(list) = Few
  /\ DistinctMoves(list) /\ MovesFrom(list, 0, Few) = ToSet(Captures)

Swap(list, a, b) == [list EXCEPT ![a] = list[b], ![b] = list[a]]

\* z is list with two of its elements exchanged.
Exchanged(list, z, a, b) ==
  \A j \in 1 .. Len(list) : z[j] = IF j = b THEN list[a] ELSE IF j = a THEN list[b] ELSE list[j]

LEMMA SwapAt ==
  ASSUME NEW S, NEW list \in Seq(S), NEW a \in 1 .. Len(list), NEW b \in 1 .. Len(list)
  PROVE  /\ Swap(list, a, b) \in Seq(S) /\ Len(Swap(list, a, b)) = Len(list)
         /\ Exchanged(list, Swap(list, a, b), a, b)
BY DEF Swap, Exchanged

LEMMA SwapKeeps ==
  ASSUME NEW list, CapturesIn(list), NEW a \in 1 .. Few, NEW b \in 1 .. Few
  PROVE  CapturesIn(Swap(list, a, b))
<1> DEFINE z == Swap(list, a, b)
<1>0. list \in Seq(Entry) /\ Len(list) = Few /\ DOMAIN list = 1 .. Few BY DEF CapturesIn
<1>1. /\ z \in Seq(Entry) /\ Len(z) = Few /\ DOMAIN z = 1 .. Few
      /\ \A j \in 1 .. Few :
           z[j] = IF j = b THEN list[a] ELSE IF j = a THEN list[b] ELSE list[j]
  <2>1. a \in 1 .. Len(list) /\ b \in 1 .. Len(list) BY <1>0
  <2>2. z \in Seq(Entry) /\ Len(z) = Len(list) /\ Exchanged(list, z, a, b)
    BY <1>0, <2>1, SwapAt
  <2> HIDE DEF z
  <2> QED BY <1>0, <2>2 DEF Exchanged
<1> HIDE DEF z
<1>2. DistinctMoves(z) BY <1>0, <1>1 DEF DistinctMoves, CapturesIn
<1>3. Few \in Nat BY <1>1
<1>4. MovesFrom(z, 0, Few) = MovesFrom(list, 0, Few)
  <2>1. ASSUME NEW j \in 0 + 1 .. Few PROVE z[j].move \in MovesFrom(list, 0, Few)
    <3>1. \E i \in 0 + 1 .. Few : z[j] = list[i] BY <1>1
    <3> QED BY <3>1 DEF MovesFrom
  <2>2. ASSUME NEW j \in 0 + 1 .. Few PROVE list[j].move \in MovesFrom(z, 0, Few)
    <3>1. \E i \in 0 + 1 .. Few : z[i] = list[j]
      <4>1. CASE j = a
        <5>1. z[b] = list[j] /\ b \in 0 + 1 .. Few BY <1>1, <4>1
        <5> QED BY <5>1
      <4>2. CASE j # a /\ j = b
        <5>1. z[a] = list[j] /\ a \in 0 + 1 .. Few BY <1>1, <4>2
        <5> QED BY <5>1
      <4>3. CASE j # a /\ j # b
        <5>1. z[j] = list[j] BY <1>1, <4>3
        <5> QED BY <5>1
      <4> QED BY <4>1, <4>2, <4>3
    <3> QED BY <3>1 DEF MovesFrom
  <2> QED BY <2>1, <2>2 DEF MovesFrom
<1>5. CapturesIn(z) BY <1>1, <1>2, <1>4 DEF CapturesIn
<1> QED BY <1>5 DEF z

\* The first k places have been visited: those set aside are in front of those in Out.
SetAsideTo(y, k, Out) ==
  /\ CapturesIn(y.list)
  /\ y.bad \in 0 .. k
  /\ \A j \in 1 .. Few : j > k => y.list[j] = moves[j]
  /\ \A j \in 1 .. k : y.list[j].move # ttMove => (y.list[j].move \in Out <=> j > y.bad)

\* One place more: losing captures are set aside, winning ones are in Out.
LEMMA VisitKeeps ==
  ASSUME NEW y, NEW Out, NEW k \in 0 .. Few - 1, SetAsideTo(y, k, Out),
         NEW C, NEW i, i = k + 1,
         moves[i].move # ttMove => (moves[i].move \in Out <=> i \notin C),
         i \in C => moves[i].move # ttMove
  PROVE  SetAsideTo(Visit(C, y, i), i, Out)
<1>0. /\ Few \in Nat /\ k \in Nat /\ i \in 1 .. Few /\ y.bad \in 0 .. k /\ CapturesIn(y.list)
      /\ y.list[i] = moves[i]
  <2>1. CapturesIn(y.list) BY DEF SetAsideTo
  <2>2. Len(y.list) = Few /\ y.list \in Seq(Entry) BY <2>1 DEF CapturesIn
  <2>3. Few \in Nat BY <2>2
  <2>4. i \in 1 .. Few /\ k \in Nat /\ i > k BY <2>3
  <2> QED BY <2>1, <2>3, <2>4 DEF SetAsideTo
<1>1. CASE i \notin C
  <2>1. Visit(C, y, i) = y BY <1>1 DEF Visit
  <2>2. y.bad \in 0 .. i BY <1>0
  <2>3. \A j \in 1 .. Few : j > i => y.list[j] = moves[j] BY <1>0 DEF SetAsideTo
  <2>4. ASSUME NEW j \in 1 .. i, y.list[j].move # ttMove
        PROVE  y.list[j].move \in Out <=> j > y.bad
    <3>1. CASE j = i BY <1>0, <1>1, <2>4, <3>1
    <3>2. CASE j # i
      <4>1. j \in 1 .. k BY <1>0, <3>2
      <4> QED BY <2>4, <4>1 DEF SetAsideTo
    <3> QED BY <3>1, <3>2
  <2> QED BY <1>0, <2>1, <2>2, <2>3, <2>4 DEF SetAsideTo
<1>2. CASE i \in C
  <2> DEFINE a == y.bad + 1
             l == y.list
             z == Swap(l, a, i)
  <2>1. Visit(C, y, i) = [list |-> z, bad |-> a] BY <1>2 DEF Visit, Swap
  <2>2. Visit(C, y, i).list = z /\ Visit(C, y, i).bad = a BY <2>1
  <2>3. a \in 1 .. i /\ a \in 1 .. Few BY <1>0
  <2>4. CapturesIn(l) /\ l \in Seq(Entry) /\ Len(l) = Few BY <1>0 DEF CapturesIn
  <2>5. \A j \in 1 .. Few : j > k => l[j] = moves[j] BY DEF SetAsideTo
  <2>6. \A j \in 1 .. k : l[j].move # ttMove => (l[j].move \in Out <=> j >= a)
    <3>1. \A j \in 1 .. k : l[j].move # ttMove => (l[j].move \in Out <=> j > y.bad) BY DEF SetAsideTo
    <3>2. \A j \in 1 .. k : j > y.bad <=> j >= a BY <1>0
    <3> QED BY <3>1, <3>2
  <2> HIDE DEF a, l
  <2>7. CapturesIn(z) BY <1>0, <2>3, <2>4, SwapKeeps
  <2>8. \A j \in 1 .. Few :
          z[j] = IF j = i THEN l[a] ELSE IF j = a THEN l[i] ELSE l[j]
    <3>1. i \in 1 .. Len(l) /\ a \in 1 .. Len(l) BY <1>0, <2>3, <2>4
    <3>2. Exchanged(l, z, a, i) BY <2>4, <3>1, SwapAt
    <3> HIDE DEF z
    <3> QED BY <2>4, <3>2 DEF Exchanged
  <2> HIDE DEF z
  <2>9. a \in 0 .. i BY <2>3
  <2>10. ASSUME NEW j \in 1 .. Few, j > i PROVE z[j] = moves[j]
    <3>1. j # i /\ j # a /\ j > k BY <1>0, <2>3, <2>10
    <3> QED BY <2>5, <2>8, <3>1
  <2>11. ASSUME NEW j \in 1 .. i, z[j].move # ttMove
         PROVE  z[j].move \in Out <=> j > a
    <3>0. j \in 1 .. Few /\ l[i] = moves[i] BY <1>0, <2>5
    <3>1. CASE j = i /\ a = i
      <4>1. z[j] = moves[i] BY <2>8, <3>0, <3>1
      <4>2. ~ (j > a) BY <1>0, <3>1
      <4> QED BY <1>2, <2>11, <4>1, <4>2
    <3>2. CASE j = i /\ a # i
      <4>1. z[j] = l[a] BY <2>8, <3>0, <3>2
      <4>2. a \in 1 .. k /\ a >= a BY <1>0, <2>3, <3>2
      <4>3. j > a BY <2>3, <3>2
      <4> QED BY <2>6, <2>11, <4>1, <4>2, <4>3
    <3>3. CASE j # i /\ j = a
      <4>1. z[j] = moves[i] BY <2>8, <3>0, <3>3
      <4>2. ~ (j > a) BY <2>3, <3>3
      <4> QED BY <1>2, <2>11, <4>1, <4>2
    <3>4. CASE j # i /\ j # a
      <4>1. z[j] = l[j] BY <2>8, <3>0, <3>4
      <4>2. j \in 1 .. k BY <1>0, <3>4
      <4>3. j > a <=> j >= a BY <2>3, <3>4
      <4> QED BY <2>6, <2>11, <4>1, <4>2, <4>3
    <3> QED BY <3>1, <3>2, <3>3, <3>4
  <2> QED BY <2>2, <2>7, <2>9, <2>10, <2>11 DEF SetAsideTo
<1> QED BY <1>1, <1>2

\* Up to upto, the winning captures are in Out and no others.
Sorting(upto, Out) ==
  /\ CapturesIn(moves) /\ cur \in 0 .. upto /\ upto \in 0 .. Few /\ endCur = Few
  /\ endBadCaptures \in 0 .. cur
  /\ \A j \in 1 .. cur : moves[j].move # ttMove => (moves[j].move \in Out <=> j > endBadCaptures)
  /\ \A j \in cur + 1 .. upto :
        moves[j].move # ttMove => (moves[j].move \in Out <=> moves[j].move \in winning)

LEMMA SetAsideSplits ==
  ASSUME NEW upto, NEW Out, Sorting(upto, Out)
  PROVE  SetAsideTo(SetAside(upto), upto, Out)
<1> DEFINE n == upto - cur
           C == Candidates(Loses)
<1>0. /\ Few \in Nat /\ upto \in Int /\ cur \in Int /\ cur <= upto /\ n \in Nat /\ cur >= 0
      /\ upto <= Few /\ DOMAIN moves = 1 .. Few
  <2>1. Len(moves) = Few /\ moves \in Seq(Entry) BY DEF Sorting, CapturesIn
  <2> QED BY <2>1 DEF Sorting
<1>1. PICK r : IsPassRun(r, n, PassBase, C, cur) /\ SetAside(upto) = r[n]
  BY <1>0, PassWalk
<1> DEFINE Z == {i \in 0 .. n : ~ SetAsideTo(r[i], cur + i, Out)}
<1>2. 0 \notin Z
  <2>1. r[0] = PassBase BY <1>1 DEF IsPassRun
  <2>2. r[0].list = moves /\ r[0].bad = endBadCaptures BY <2>1 DEF PassBase
  <2>3. SetAsideTo(r[0], cur, Out) BY <2>2 DEF SetAsideTo, Sorting
  <2>4. cur + 0 = cur BY <1>0
  <2> QED BY <2>3, <2>4
<1>3. ASSUME NEW i \in 1 .. n, SetAsideTo(r[i - 1], cur + (i - 1), Out)
      PROVE  SetAsideTo(r[i], cur + i, Out)
  <2> SUFFICES ASSUME NEW k, k = cur + (i - 1), NEW j, j = cur + i
               PROVE  SetAsideTo(r[i], j, Out)
    OBVIOUS
  <2>1. k \in 0 .. Few - 1 /\ j = k + 1 /\ j \in cur + 1 .. upto /\ j \in 1 .. Few
    BY <1>0
  <2>2. r[i] = Visit(C, r[i - 1], j) BY <1>1 DEF IsPassRun
  <2>3. j \in C <=> moves[j].move # ttMove /\ moves[j].move \notin winning
    <3>1. j \in cur + 1 .. endCur /\ j \in DOMAIN moves BY <1>0, <2>1 DEF Sorting
    <3> QED BY <3>1 DEF Candidates, Loses, Wins
  <2>4. moves[j].move # ttMove => (moves[j].move \in Out <=> j \notin C)
    BY <2>1, <2>3 DEF Sorting
  <2> HIDE DEF C
  <2>5. SetAsideTo(r[i - 1], k, Out) BY <1>3
  <2>6. SetAsideTo(Visit(C, r[i - 1], j), j, Out) BY <2>1, <2>3, <2>4, <2>5, VisitKeeps
  <2> QED BY <2>2, <2>6
<1>4. Z = {}
  <2> SUFFICES ASSUME Z # {} PROVE FALSE OBVIOUS
  <2>1. PICK i \in Z : \A j \in Z : i <= j
    <3>1. Z \subseteq Nat BY <1>0
    <3> HIDE DEF Z
    <3> QED BY <3>1, NatMin
  <2>2. i # 0 BY <1>2
  <2>3. i \in 1 .. n /\ i - 1 \in 0 .. n /\ ~ (i <= i - 1) BY <1>0, <2>2
  <2>4. SetAsideTo(r[i - 1], cur + (i - 1), Out) BY <2>1, <2>3
  <2> QED BY <1>3, <2>3, <2>4
<1>5. n \in 0 .. n /\ cur + n = upto BY <1>0
<1>6. SetAsideTo(r[n], cur + n, Out) BY <1>4, <1>5
<1> QED BY <1>1, <1>5, <1>6


-----------------------------------------------------------------------------
(* Lists of moves.                                                         *)

\* A list of scored moves with each move of S once.
Lists(list, S) ==
  list \in Seq(Entry) /\ DistinctMoves(list) /\ MovesFrom(list, 0, Len(list)) = S

LEMMA Sizes ==
  /\ Few \in Nat /\ All \in Nat /\ All = Few + Len(Quiets) /\ Len(Quiets) \in Nat
  /\ ToSet(Captures) \subseteq GeneratedMoves /\ ToSet(Quiets) \subseteq GeneratedMoves
<1>1. Captures \in Seq(ToSet(Captures)) /\ Quiets \in Seq(ToSet(Quiets)) BY MovesAssumption
<1> QED BY <1>1 DEF Few, All, GeneratedMoves

LEMMA ShuffledLists ==
  ASSUME NEW a, NEW b \in Seq(Entry), NEW S, Lists(a, S), Shuffled(a, b)
  PROVE  Lists(b, S) /\ Len(b) = Len(a)
<1>1. Len(a) \in Nat /\ Len(b) = Len(a) /\ 0 + 1 = 1 BY DEF Lists, Shuffled
<1>2. DistinctMoves(b) BY DEF Lists, Shuffled
<1>3. ASSUME NEW i \in 1 .. Len(a) PROVE b[i].move \in MovesFrom(a, 0, Len(a))
  <2>1. PICK j \in 1 .. Len(a) : b[i] = a[j] BY DEF Shuffled
  <2> QED BY <1>1, <2>1 DEF MovesFrom
<1>4. ASSUME NEW i \in 1 .. Len(a) PROVE a[i].move \in MovesFrom(b, 0, Len(a))
  <2>1. PICK j \in 1 .. Len(a) : b[j] = a[i] BY DEF Shuffled
  <2> QED BY <1>1, <2>1 DEF MovesFrom
<1>5. MovesFrom(b, 0, Len(a)) = MovesFrom(a, 0, Len(a)) BY <1>1, <1>3, <1>4 DEF MovesFrom
<1> QED BY <1>1, <1>2, <1>5 DEF Lists

\* A list of the moves of l, whatever their values.
LEMMA ListsOf ==
  ASSUME NEW l, Len(l) \in Nat, DOMAIN l = 1 .. Len(l), IsInjective(l),
         NEW list \in Seq(Entry), Len(list) = Len(l),
         \A i \in 1 .. Len(l) : list[i].move = l[i]
  PROVE  Lists(list, ToSet(l))
<1>1. DOMAIN list = 1 .. Len(l) /\ 0 + 1 = 1 OBVIOUS
<1>2. DistinctMoves(list) BY <1>1 DEF DistinctMoves, IsInjective
<1>3. ASSUME NEW i \in 1 .. Len(l) PROVE list[i].move \in ToSet(l) BY DEF ToSet
<1>4. ASSUME NEW m \in ToSet(l) PROVE \E i \in 1 .. Len(l) : list[i].move = m
  <2>1. PICK i \in DOMAIN l : m = l[i] BY DEF ToSet
  <2> QED BY <2>1
<1>5. MovesFrom(list, 0, Len(list)) = ToSet(l) BY <1>1, <1>3, <1>4 DEF MovesFrom
<1> QED BY <1>2, <1>5 DEF Lists

\* Scoring a list.
LEMMA ScoreIs ==
  ASSUME NEW T, NEW l \in Seq(T), T \subseteq GeneratedMoves, NEW values, values \subseteq Int,
         NEW list \in Score(l, values)
  PROVE  list \in Seq(Entry) /\ Len(list) = Len(l) /\ \A i \in 1 .. Len(l) : list[i].move = l[i]
<1>1. PICK v \in [DOMAIN l -> values] : list = [i \in DOMAIN l |-> [move |-> l[i], value |-> v[i]]]
  BY DEF Score
<1>2. DOMAIN l = 1 .. Len(l) /\ Len(l) \in Nat OBVIOUS
<1>3. \A i \in 1 .. Len(l) : [move |-> l[i], value |-> v[i]] \in Entry
  <2> TAKE i \in 1 .. Len(l)
  <2>1. l[i] \in GeneratedMoves OBVIOUS
  <2>2. v[i] \in Int BY <1>2
  <2> QED BY <2>1, <2>2 DEF Entry
<1>4. \A i \in 1 .. Len(l) : list[i] = [move |-> l[i], value |-> v[i]] BY <1>1, <1>2
<1>5. list \in [1 .. Len(l) -> Entry] BY <1>1, <1>2, <1>3
<1>6. list \in Seq(Entry) /\ Len(list) = Len(l) BY <1>2, <1>5
<1>7. ASSUME NEW i \in 1 .. Len(l) PROVE list[i].move = l[i]
  <2>1. list[i] = [move |-> l[i], value |-> v[i]] BY <1>4
  <2> QED BY <2>1
<1> QED BY <1>6, <1>7

\* What the stages of initialisation sort.
LEMMA SortedScores ==
  ASSUME NEW T, NEW l \in Seq(T), T \subseteq GeneratedMoves, IsInjective(l),
         NEW values, values \subseteq Int, NEW list \in Score(l, values), NEW limit
  PROVE  /\ Lists(PartialInsertionSort(list, limit), ToSet(l))
         /\ Len(PartialInsertionSort(list, limit)) = Len(l)
<1>1. list \in Seq(Entry) /\ Len(list) = Len(l) /\ \A i \in 1 .. Len(l) : list[i].move = l[i]
  BY ScoreIs
<1>2. Len(l) \in Nat /\ DOMAIN l = 1 .. Len(l) OBVIOUS
<1>3. Lists(list, ToSet(l)) BY <1>1, <1>2, ListsOf
<1> DEFINE b == PartialInsertionSort(list, limit)
<1>4. b \in Seq(Entry) /\ Shuffled(list, b) BY <1>1, SortShuffles
<1> HIDE DEF b
<1>5. Lists(b, ToSet(l)) /\ Len(b) = Len(l) BY <1>1, <1>3, <1>4, ShuffledLists
<1> QED BY <1>5 DEF b

LEMMA CapturesScored ==
  ASSUME NEW list \in Score(Captures, CaptureValues)
  PROVE  /\ Lists(PartialInsertionSort(list, Lowest), ToSet(Captures))
         /\ Len(PartialInsertionSort(list, Lowest)) = Few
<1> SUFFICES ASSUME NEW T, T = ToSet(Captures)
             PROVE  /\ Lists(PartialInsertionSort(list, Lowest), T)
                    /\ Len(PartialInsertionSort(list, Lowest)) = Few
  OBVIOUS
<1>1. Captures \in Seq(T) /\ IsInjective(Captures) /\ CaptureValues \subseteq Int BY MovesAssumption
<1>2. T \subseteq GeneratedMoves BY Sizes
<1>3. /\ Lists(PartialInsertionSort(list, Lowest), ToSet(Captures))
      /\ Len(PartialInsertionSort(list, Lowest)) = Len(Captures)
  BY <1>1, <1>2, SortedScores
<1> QED BY <1>3 DEF Few

LEMMA QuietsScored ==
  ASSUME NEW list \in Score(Quiets, QuietValues), NEW limit
  PROVE  /\ Lists(PartialInsertionSort(list, limit), ToSet(Quiets))
         /\ Len(PartialInsertionSort(list, limit)) = Len(Quiets)
         /\ Len(list) = Len(Quiets)
<1> SUFFICES ASSUME NEW T, T = ToSet(Quiets)
             PROVE  /\ Lists(PartialInsertionSort(list, limit), T)
                    /\ Len(PartialInsertionSort(list, limit)) = Len(Quiets)
                    /\ Len(list) = Len(Quiets)
  OBVIOUS
<1>1. Quiets \in Seq(T) /\ IsInjective(Quiets) /\ QuietValues \subseteq Int BY MovesAssumption
<1>2. T \subseteq GeneratedMoves BY Sizes
<1>3. /\ Lists(PartialInsertionSort(list, limit), ToSet(Quiets))
      /\ Len(PartialInsertionSort(list, limit)) = Len(Quiets)
  BY <1>1, <1>2, SortedScores
<1>4. Len(list) = Len(Quiets) BY <1>1, <1>2, ScoreIs
<1> QED BY <1>3, <1>4

LEMMA EvasionsScored ==
  ASSUME NEW list \in EvasionScores
  PROVE  /\ Lists(PartialInsertionSort(list, Lowest), GeneratedMoves)
         /\ Len(PartialInsertionSort(list, Lowest)) = All /\ Len(list) = All
<1>0. PICK c \in Score(Captures, CaptureValues), q \in Score(Quiets, QuietValues) :
        list = CapturesFirst(c, q)
  BY DEF EvasionScores
<1> DEFINE d == [i \in DOMAIN c |-> [c[i] EXCEPT !.value = @ + PastHistories]]
           l == Captures \o Quiets
<1>1. /\ Captures \in Seq(GeneratedMoves) /\ IsInjective(Captures) /\ CaptureValues \subseteq Int
      /\ Quiets \in Seq(GeneratedMoves) /\ IsInjective(Quiets) /\ QuietValues \subseteq Int
      /\ ToSet(Captures) \cap ToSet(Quiets) = {}
  <2>1. Captures \in Seq(ToSet(Captures)) /\ Quiets \in Seq(ToSet(Quiets)) BY MovesAssumption
  <2>2. ToSet(Captures) \subseteq GeneratedMoves /\ ToSet(Quiets) \subseteq GeneratedMoves BY Sizes
  <2>3. Captures \in Seq(GeneratedMoves) BY <2>1, <2>2
  <2>4. Quiets \in Seq(GeneratedMoves) BY <2>1, <2>2
  <2> QED BY <2>3, <2>4, MovesAssumption
<1>2. /\ c \in Seq(Entry) /\ Len(c) = Few /\ DOMAIN c = 1 .. Few
      /\ \A i \in 1 .. Few : c[i].move = Captures[i]
  <2>1. c \in Seq(Entry) /\ Len(c) = Len(Captures)
        /\ \A i \in 1 .. Len(Captures) : c[i].move = Captures[i]
    BY <1>1, ScoreIs
  <2> QED BY <2>1 DEF Few
<1>3. /\ q \in Seq(Entry) /\ Len(q) = Len(Quiets)
      /\ \A i \in 1 .. Len(Quiets) : q[i].move = Quiets[i]
  BY <1>1, ScoreIs
<1>4. Few \in Nat /\ Few = Len(Captures) /\ All \in Nat /\ All = Few + Len(Quiets)
      /\ Len(Quiets) \in Nat
  BY Sizes DEF Few
<1>5. /\ d \in Seq(Entry) /\ Len(d) = Few
      /\ \A i \in 1 .. Few : d[i].move = Captures[i]
  <2>0. PastHistories \in Int BY DEF PastHistories
  <2>1. \A i \in 1 .. Few : [c[i] EXCEPT !.value = @ + PastHistories] \in Entry
                            /\ [c[i] EXCEPT !.value = @ + PastHistories].move = c[i].move
    <3> SUFFICES ASSUME NEW i \in 1 .. Few, NEW k, k = PastHistories, NEW e, e = c[i]
                 PROVE  [e EXCEPT !.value = @ + k] \in Entry
                        /\ [e EXCEPT !.value = @ + k].move = e.move
      OBVIOUS
    <3>1. e \in Entry BY <1>2
    <3> QED BY ONLY <2>0, <3>1, k = PastHistories DEF Entry
  <2>2. d \in [1 .. Few -> Entry] BY <1>2, <2>1
  <2>3. d \in Seq(Entry) /\ Len(d) = Few BY <1>4, <2>2
  <2>4. \A i \in 1 .. Few : d[i].move = c[i].move BY <1>2, <2>1
  <2> QED BY <1>2, <2>3, <2>4
<1>6. list = d \o q BY <1>0 DEF CapturesFirst
<1> HIDE DEF d
<1>7. /\ list \in Seq(Entry) /\ Len(list) = All
      /\ \A i \in 1 .. Few : list[i] = d[i]
      /\ \A i \in Few + 1 .. All : list[i] = q[i - Few]
  <2>1. d \o q \in Seq(Entry) /\ Len(d \o q) = Len(d) + Len(q) BY <1>3, <1>5, ConcatProperties
  <2>2. \A i \in 1 .. Len(d) + Len(q) :
          (d \o q)[i] = IF i <= Len(d) THEN d[i] ELSE q[i - Len(d)]
    BY <1>3, <1>5, ConcatProperties
  <2>3. \A i \in 1 .. Few : list[i] = d[i]
    <3> TAKE i \in 1 .. Few
    <3>1. i \in 1 .. Len(d) + Len(q) /\ i <= Len(d) BY <1>3, <1>4, <1>5
    <3> QED BY <1>6, <2>2, <3>1
  <2>4. \A i \in Few + 1 .. All : list[i] = q[i - Few]
    <3> TAKE i \in Few + 1 .. All
    <3>1. i \in 1 .. Len(d) + Len(q) /\ ~ (i <= Len(d)) BY <1>3, <1>4, <1>5
    <3> QED BY <1>5, <1>6, <2>2, <3>1
  <2> QED BY <1>3, <1>4, <1>5, <1>6, <2>1, <2>3, <2>4
<1>8. /\ l \in Seq(GeneratedMoves) /\ Len(l) = All /\ DOMAIN l = 1 .. All
      /\ \A i \in 1 .. Few : l[i] = Captures[i]
      /\ \A i \in Few + 1 .. All : l[i] = Quiets[i - Few]
  BY <1>1, <1>4
<1> HIDE DEF l
<1>9. \A i \in 1 .. All : list[i].move = l[i]
  <2> TAKE i \in 1 .. All
  <2>1. CASE i \in 1 .. Few BY <1>5, <1>7, <1>8, <2>1
  <2>2. CASE i \in Few + 1 .. All
    <3>1. i - Few \in 1 .. Len(Quiets) BY <1>4, <2>2
    <3> QED BY <1>3, <1>7, <1>8, <2>2, <3>1
  <2> QED BY <1>4, <2>1, <2>2
<1>10. ToSet(l) = GeneratedMoves
  <2>1. DOMAIN Captures = 1 .. Few /\ DOMAIN Quiets = 1 .. Len(Quiets) BY <1>1, <1>4
  <2>2. ASSUME NEW m \in GeneratedMoves PROVE m \in ToSet(l)
    <3>1. CASE m \in ToSet(Captures)
      <4>1. PICK i \in 1 .. Few : m = Captures[i] BY <2>1, <3>1 DEF ToSet
      <4>2. i \in DOMAIN l /\ l[i] = m BY <1>4, <1>8, <4>1
      <4> QED BY <4>2 DEF ToSet
    <3>2. CASE m \in ToSet(Quiets)
      <4>1. PICK i \in 1 .. Len(Quiets) : m = Quiets[i] BY <2>1, <3>2 DEF ToSet
      <4>2. Few + i \in Few + 1 .. All /\ (Few + i) - Few = i BY <1>4
      <4>3. Few + i \in DOMAIN l /\ l[Few + i] = m BY <1>4, <1>8, <4>1, <4>2
      <4> QED BY <4>3 DEF ToSet
    <3> QED BY <3>1, <3>2 DEF GeneratedMoves
  <2>3. ASSUME NEW m \in ToSet(l) PROVE m \in GeneratedMoves
    <3>1. PICK i \in DOMAIN l : m = l[i] BY <2>3 DEF ToSet
    <3> QED BY <1>8, <3>1
  <2> QED BY <2>2, <2>3
<1>11. IsInjective(l)
  <2>1. DOMAIN Captures = 1 .. Few /\ DOMAIN Quiets = 1 .. Len(Quiets) BY <1>1, <1>4
  <2>2. \A i \in 1 .. Few : l[i] \in ToSet(Captures) BY <1>8, <2>1 DEF ToSet
  <2>3. \A i \in Few + 1 .. All : i - Few \in 1 .. Len(Quiets) /\ l[i] \in ToSet(Quiets)
    <3> TAKE i \in Few + 1 .. All
    <3>1. i - Few \in 1 .. Len(Quiets) BY <1>4
    <3> QED BY <1>8, <2>1, <3>1 DEF ToSet
  <2> SUFFICES ASSUME NEW i \in 1 .. All, NEW j \in 1 .. All, l[i] = l[j] PROVE i = j
    BY <1>8 DEF IsInjective
  <2>4. i \in 1 .. Few \/ i \in Few + 1 .. All BY <1>4
  <2>5. j \in 1 .. Few \/ j \in Few + 1 .. All BY <1>4
  <2>6. CASE i \in 1 .. Few /\ j \in 1 .. Few
    BY <1>1, <1>8, <2>1, <2>6 DEF IsInjective
  <2>7. CASE i \in Few + 1 .. All /\ j \in Few + 1 .. All
    <3>1. i - Few \in 1 .. Len(Quiets) /\ j - Few \in 1 .. Len(Quiets)
          /\ Quiets[i - Few] = Quiets[j - Few]
      BY <1>8, <2>3, <2>7
    <3>2. i - Few = j - Few BY <1>1, <2>1, <3>1 DEF IsInjective
    <3> QED BY <1>4, <3>2
  <2>8. CASE ~ (i \in 1 .. Few <=> j \in 1 .. Few) BY <1>1, <2>2, <2>3, <2>4, <2>5, <2>8
  <2> QED BY <2>4, <2>5, <2>6, <2>7, <2>8
<1>12. Lists(list, GeneratedMoves)
  <2>1. Lists(list, ToSet(l)) BY <1>4, <1>7, <1>8, <1>9, <1>11, ListsOf
  <2> QED BY <1>10, <2>1
<1> DEFINE b == PartialInsertionSort(list, Lowest)
<1>13. b \in Seq(Entry) /\ Shuffled(list, b) BY <1>7, SortShuffles
<1> HIDE DEF b
<1>14. Lists(b, GeneratedMoves) /\ Len(b) = Len(list) BY <1>12, <1>13, ShuffledLists
<1> QED BY <1>7, <1>14 DEF b


-----------------------------------------------------------------------------
(* The invariant.                                                          *)

LEMMA InitInv == ASSUME Init PROVE Inv
<1>1. /\ ToSet(<< >>) = {} /\ IsInjective(<< >>)
  BY DEF ToSet, IsInjective
<1>2. stage \in TTStages \cup InitStages
  BY DEF Init, FirstStage, After, TTStages, InitStages
<1>3. depth \in Int /\ (depth > 0 <=> InMain)
  <2>1. CASE depth \in Depths /\ stage = FirstStage("MAIN_TT", ttMove, PseudoLegal(FALSE))
    <3>1. depth \in Nat \ {0} BY <2>1, MovesAssumption
    <3>2. InMain BY <2>1 DEF InMain, FirstStage, After
    <3> QED BY <3>1, <3>2
  <2>2. CASE /\ depth = 0
             /\ \/ stage = FirstStage("QSEARCH_TT", ttMove, PseudoLegal(FALSE))
                \/ stage = FirstStage("EVASION_TT", ttMove, PseudoLegal(TRUE))
                \/ stage = FirstStage("PROBCUT_TT", ttMove,
                                      ToSet(Captures) \cap PseudoLegal(FALSE))
    <3>1. ~ InMain BY <2>2 DEF InMain, FirstStage, After
    <3> QED BY <2>2, <3>1
  <2> QED BY <2>1, <2>2 DEF Init
<1>4. TypeOK
  <2>1. Unset \in Int BY DEF Unset
  <2>2. << >> \in Seq(Entry) /\ << >> \in Seq(GeneratedMoves) OBVIOUS
  <2> QED BY <1>2, <1>3, <2>1, <2>2 DEF Init, TypeOK
<1>5. TableMoveFirst
  <2>1. CASE \E st \in {"MAIN_TT", "QSEARCH_TT"} :
                 stage = FirstStage(st, ttMove, PseudoLegal(FALSE))
    <3>1. stage \in {"MAIN_TT", "CAPTURE_INIT", "QSEARCH_TT", "QCAPTURE_INIT"}
      BY <2>1 DEF FirstStage, After
    <3>2. Usable = PseudoLegal(FALSE) BY <3>1 DEF Usable, PseudoLegal
    <3> QED BY <1>1, <2>1, <3>1, <3>2
        DEF TableMoveFirst, Init, FirstStage, After, TTStages, InitStages, FirstMainStages
  <2>2. CASE stage = FirstStage("EVASION_TT", ttMove, PseudoLegal(TRUE))
    BY <1>1, <2>2
    DEF TableMoveFirst, Init, FirstStage, After, TTStages, InitStages, FirstMainStages, Usable
  <2>3. CASE stage = FirstStage("PROBCUT_TT", ttMove, ToSet(Captures) \cap PseudoLegal(FALSE))
    <3>1. ToSet(Captures) \cap PseudoLegal(FALSE) = ToSet(Captures) BY Sizes DEF PseudoLegal
    <3> QED BY <1>1, <2>3, <3>1
        DEF TableMoveFirst, Init, FirstStage, After, TTStages, InitStages, FirstMainStages, Usable
  <2> QED BY <2>1, <2>2, <2>3 DEF Init
<1>6. DepthFits BY <1>3 DEF DepthFits, Init
<1>7. ArrayHolds
  BY <1>2 DEF ArrayHolds, TTStages, InitStages, FirstMainStages, LateMainStages
<1>8. PointersFit
  BY <1>2 DEF PointersFit, TTStages, InitStages, FirstMainStages, LateMainStages, ShortStages, Init
<1>9. Tracked BY <1>2 DEF Tracked
<1>10. Drained BY DEF Drained, Init
<1> QED BY <1>1, <1>4, <1>5, <1>6, <1>7, <1>8, <1>9, <1>10 DEF Inv, Init

\* A move that was not emitted before is emitted.
Emitted(m) ==
  /\ emitted' \in Seq(GeneratedMoves) /\ IsInjective(emitted)'
  /\ ToSet(emitted)' = ToSet(emitted) \cup {m}
  /\ skipQuiets' \in BOOLEAN /\ (skipQuiets => skipQuiets') /\ (skipQuiets' => depth > 0)
  /\ over' = over

LEMMA EmitKeeps ==
  ASSUME TypeOK, DepthFits, IsInjective(emitted),
         NEW m \in GeneratedMoves, m \notin ToSet(emitted), Emit(m)
  PROVE  Emitted(m)
<1>1. emitted \in Seq(GeneratedMoves) /\ emitted' = Append(emitted, m) BY DEF TypeOK, Emit
<1> DEFINE n == Len(emitted)
<1>2. /\ emitted' \in Seq(GeneratedMoves) /\ Len(emitted') = n + 1 /\ emitted'[n + 1] = m
      /\ \A i \in 1 .. n : emitted'[i] = emitted[i]
      /\ n \in Nat /\ DOMAIN emitted = 1 .. n /\ DOMAIN emitted' = 1 .. n + 1
  BY <1>1
<1> HIDE DEF n
<1>3. ToSet(emitted') = ToSet(emitted) \cup {m}
  <2>1. ASSUME NEW x \in ToSet(emitted') PROVE x \in ToSet(emitted) \cup {m}
    <3>1. PICK i \in 1 .. n + 1 : x = emitted'[i] BY <1>2, <2>1 DEF ToSet
    <3>2. CASE i = n + 1 BY <1>2, <3>1, <3>2
    <3>3. CASE i # n + 1
      <4>1. i \in 1 .. n BY <1>2, <3>3
      <4> QED BY <1>2, <3>1, <4>1 DEF ToSet
    <3> QED BY <3>2, <3>3
  <2>2. ASSUME NEW x \in ToSet(emitted) PROVE x \in ToSet(emitted')
    <3>1. PICK i \in 1 .. n : x = emitted[i] BY <1>2, <2>2 DEF ToSet
    <3>2. i \in 1 .. n + 1 /\ emitted'[i] = x BY <1>2, <3>1
    <3> QED BY <1>2, <3>2 DEF ToSet
  <2>3. m \in ToSet(emitted')
    <3>1. n + 1 \in 1 .. n + 1 BY <1>2
    <3> QED BY <1>2, <3>1 DEF ToSet
  <2> QED BY <2>1, <2>2, <2>3
<1>4. IsInjective(emitted')
  <2>1. \A i \in 1 .. n : emitted[i] # m BY <1>2 DEF ToSet
  <2>2. \A i, j \in 1 .. n : emitted[i] = emitted[j] => i = j BY <1>2 DEF IsInjective
  <2> SUFFICES ASSUME NEW i \in 1 .. n + 1, NEW j \in 1 .. n + 1, emitted'[i] = emitted'[j]
               PROVE  i = j
    BY <1>2 DEF IsInjective
  <2>3. (i = n + 1 \/ i \in 1 .. n) /\ (j = n + 1 \/ j \in 1 .. n) BY <1>2
  <2> QED BY <1>2, <2>1, <2>2, <2>3
<1>5. /\ skipQuiets' \in BOOLEAN /\ (skipQuiets => skipQuiets') /\ (skipQuiets' => depth > 0)
      /\ over' = over
  BY DEF TypeOK, DepthFits, Emit
<1>6. (IsInjective(emitted)' <=> IsInjective(emitted')) /\ ToSet(emitted)' = ToSet(emitted')
  BY DEF IsInjective, ToSet
<1> QED BY <1>2, <1>3, <1>4, <1>5, <1>6 DEF Emitted

USE DEF TTStages, InitStages, FirstMainStages, LateMainStages, ShortStages

LEMMA EmitTTStep == ASSUME Inv, EmitTT PROVE Inv'
<1>1. stage \in TTStages /\ stage' = After(stage) /\ Emit(ttMove) BY DEF EmitTT
<1>2. emitted = << >> /\ ttMove \in Usable BY <1>1 DEF Inv, TableMoveFirst
<1>3. ToSet(emitted) = {} BY <1>2 DEF ToSet
<1>4. ttMove \in GeneratedMoves BY <1>2, Sizes DEF Usable, PseudoLegal
<1>5. Emitted(ttMove)
  <2>1. \A m \in GeneratedMoves : m \notin ToSet(emitted) /\ Emit(m) => Emitted(m)
    BY EmitKeeps DEF Inv
  <2> QED BY <1>1, <1>3, <1>4, <2>1
<1>6. stage' \in InitStages BY <1>1 DEF After
<1>7. TypeOK' BY <1>5, <1>6 DEF Inv, TypeOK, EmitTT, given, Emitted
<1>8. DepthFits' BY <1>1, <1>5 DEF Inv, DepthFits, EmitTT, given, Emitted, InMain, After
<1>9. TableMoveFirst' BY <1>3, <1>5, <1>6 DEF TableMoveFirst, EmitTT, given, Emitted
<1>10. ArrayHolds' BY <1>6 DEF ArrayHolds
<1>11. PointersFit' BY <1>1 DEF PointersFit, EmitTT, given, After, Inv
<1>12. Tracked' BY <1>6 DEF Tracked
<1>13. Drained' BY <1>1, <1>5 DEF Inv, Drained, Emitted
<1> QED BY <1>5, <1>7, <1>8, <1>9, <1>10, <1>11, <1>12, <1>13 DEF Inv, Emitted

LEMMA InitCapturesStep == ASSUME Inv, InitCaptures PROVE Inv'
<1>1. /\ stage \in {"CAPTURE_INIT", "PROBCUT_INIT", "QCAPTURE_INIT"} /\ stage' = After(stage)
      /\ cur' = 0 /\ endBadCaptures' = 0 /\ endCur' = Few /\ endCaptures' = Few
      /\ UNCHANGED <<emitted, skipQuiets, over, ttMove, depth, winning, endGenerated>>
  BY DEF InitCaptures, Keep, given, Few
<1>2. Lists(moves', ToSet(Captures)) /\ Len(moves') = Few
  <2>1. PICK scored \in Score(Captures, CaptureValues) :
          moves' = PartialInsertionSort(scored, Lowest)
    BY DEF InitCaptures
  <2> QED BY <2>1, CapturesScored
<1>3. /\ moves' \in Seq(Entry) /\ DistinctMoves(moves)' /\ DOMAIN moves' = 1 .. Few
      /\ MovesFrom(moves, 0, Few)' = ToSet(Captures)
  BY <1>2 DEF Lists, DistinctMoves, MovesFrom, Few
<1>4. \/ stage = "CAPTURE_INIT" /\ stage' = "GOOD_CAPTURE"
      \/ stage = "PROBCUT_INIT" /\ stage' = "PROBCUT"
      \/ stage = "QCAPTURE_INIT" /\ stage' = "QCAPTURE"
  BY <1>1 DEF After
<1>5. Few \in Nat BY Sizes
<1>6. ToSet(emitted) \subseteq {ttMove} /\ ToSet(emitted)' = ToSet(emitted)
      /\ (IsInjective(emitted)' <=> IsInjective(emitted))
  BY <1>1 DEF Inv, TableMoveFirst, ToSet, IsInjective
<1>7. TypeOK' BY <1>1, <1>3, <1>4, <1>5 DEF Inv, TypeOK
<1>8. DepthFits' BY <1>1, <1>4 DEF Inv, DepthFits, InMain
<1>9. TableMoveFirst' BY <1>1, <1>4, <1>6 DEF Inv, TableMoveFirst, Usable
<1>10. ArrayHolds' BY <1>2, <1>3, <1>4 DEF ArrayHolds, Few
<1>11. PointersFit' BY <1>1, <1>2, <1>4, <1>5 DEF Inv, PointersFit, Few
<1>12. Tracked'
  <2> SUFFICES ASSUME NEW i \in 1 .. Few, moves'[i].move # ttMove
               PROVE  ~ (moves'[i].move \in ToSet(emitted)) /\ ~ Passed(i)'
    BY <1>1, <1>3, <1>6 DEF Tracked
  <2>1. ~ (i <= cur') /\ i \notin endBadCaptures' + 1 .. cur' BY <1>1, <1>5
  <2> QED BY <1>4, <1>6, <2>1 DEF Passed
<1>13. Drained' BY <1>1, <1>4 DEF Inv, Drained
<1> QED BY <1>6, <1>7, <1>8, <1>9, <1>10, <1>11, <1>12, <1>13 DEF Inv

LEMMA InitEvasionsStep == ASSUME Inv, InitEvasions PROVE Inv'
<1>2. PICK scored \in EvasionScores :
        /\ moves' = PartialInsertionSort(scored, Lowest)
        /\ endCur' = Len(scored) /\ endGenerated' = Len(scored)
  BY DEF InitEvasions
<1>3. Lists(moves', GeneratedMoves) /\ Len(moves') = All /\ endCur' = All /\ endGenerated' = All
  BY <1>2, EvasionsScored
<1>1. /\ stage = "EVASION_INIT" /\ stage' = "EVASION" /\ cur' = 0
      /\ UNCHANGED <<emitted, skipQuiets, over, ttMove, depth, winning, endBadCaptures, endCaptures>>
  BY DEF InitEvasions, Keep, given, After
<1>4. /\ moves' \in Seq(Entry) /\ DistinctMoves(moves)' /\ DOMAIN moves' = 1 .. All
      /\ MovesFrom(moves, 0, All)' = GeneratedMoves
  BY <1>3 DEF Lists, DistinctMoves, MovesFrom, All, GeneratedMoves
<1>5. All \in Nat BY Sizes
<1>6. ToSet(emitted) \subseteq {ttMove} /\ ToSet(emitted)' = ToSet(emitted)
      /\ (IsInjective(emitted)' <=> IsInjective(emitted))
  BY <1>1 DEF Inv, TableMoveFirst, ToSet, IsInjective
<1>7. TypeOK' BY <1>1, <1>3, <1>4, <1>5 DEF Inv, TypeOK
<1>8. DepthFits' BY <1>1 DEF Inv, DepthFits, InMain
<1>9. TableMoveFirst' BY <1>1, <1>6 DEF Inv, TableMoveFirst, Usable
<1>10. ArrayHolds' BY <1>1, <1>3, <1>4 DEF ArrayHolds, All, GeneratedMoves
<1>11. PointersFit' BY <1>1, <1>3, <1>5 DEF Inv, PointersFit, All
<1>12. Tracked'
  <2> SUFFICES ASSUME NEW i \in 1 .. All, moves'[i].move # ttMove
               PROVE  ~ (moves'[i].move \in ToSet(emitted)) /\ ~ Passed(i)'
    BY <1>1, <1>4, <1>6 DEF Tracked
  <2>1. ~ (i <= cur') BY <1>1, <1>5
  <2>2. moves'[i].move \notin ToSet(emitted) BY <1>6
  <2>3. ~ Passed(i)' BY <1>1, <2>1 DEF Passed
  <2> QED BY <2>2, <2>3
<1>13. Drained' BY <1>1 DEF Inv, Drained
<1> QED BY <1>6, <1>7, <1>8, <1>9, <1>10, <1>11, <1>12, <1>13 DEF Inv


LEMMA FirstIs ==
  ASSUME NEW T, T \subseteq Nat, T # {} PROVE First(T) \in T /\ \A j \in T : First(T) <= j
<1>1. \E i \in T : \A j \in T : i <= j BY NatMin
<1> QED BY <1>1 DEF First

\* The stage of good captures at its start.
LEMMA CapturesAt ==
  ASSUME Inv, stage \in FirstMainStages
  PROVE  /\ CapturesIn(moves) /\ cur \in 0 .. Few /\ endCur = Few /\ endBadCaptures \in 0 .. cur
         /\ Few \in Nat /\ DOMAIN moves = 1 .. Few
         /\ \A i \in 1 .. Few : moves[i] \in Entry /\ moves[i].move \in ToSet(Captures)
         /\ \A i \in 1 .. Few :
              moves[i].move # ttMove =>
                (moves[i].move \in ToSet(emitted) <=> i \in endBadCaptures + 1 .. cur)
         /\ ToSet(emitted) \subseteq ToSet(Captures) \cup {ttMove}
         /\ endCaptures = Few /\ endGenerated = Unset
<1>1. CapturesIn(moves) BY DEF Inv, TypeOK, ArrayHolds, CapturesIn
<1>2. cur \in 0 .. Few /\ endCur = Few /\ endBadCaptures \in 0 .. cur
      /\ endCaptures = Few /\ endGenerated = Unset
  BY DEF Inv, PointersFit
<1>3. Few \in Nat /\ DOMAIN moves = 1 .. Few /\ moves \in Seq(Entry) /\ Len(moves) = Few
  BY <1>1, Sizes DEF CapturesIn
<1>4. \A i \in 1 .. Few : moves[i] \in Entry BY <1>3
<1>5. ASSUME NEW i \in 1 .. Few PROVE moves[i].move \in ToSet(Captures)
  <2>1. moves[i].move \in MovesFrom(moves, 0, Few) BY <1>3 DEF MovesFrom
  <2> QED BY <1>1, <2>1 DEF CapturesIn
<1>6. ASSUME NEW i \in 1 .. Few, moves[i].move # ttMove
      PROVE  moves[i].move \in ToSet(emitted) <=> i \in endBadCaptures + 1 .. cur
  <2>1. i <= Few /\ i \in DOMAIN moves BY <1>3
  <2>2. moves[i].move \in ToSet(emitted) <=> Passed(i) BY <1>6, <2>1 DEF Inv, Tracked
  <2> QED BY <2>2 DEF Passed
<1>7. ToSet(emitted) \subseteq ToSet(Captures) \cup {ttMove} BY DEF Inv, TableMoveFirst
<1> QED BY <1>1, <1>2, <1>3, <1>4, <1>5, <1>6, <1>7

LEMMA PassKeeps ==
  ASSUME Inv, stage = "GOOD_CAPTURE", NEW upto \in cur .. Few, Pass(upto),
         NEW Out, ToSet(emitted)' = Out,
         \A j \in 1 .. cur : moves[j].move # ttMove => (moves[j].move \in Out <=> j > endBadCaptures),
         \A j \in cur + 1 .. upto :
            moves[j].move # ttMove => (moves[j].move \in Out <=> moves[j].move \in winning),
         \A j \in upto + 1 .. Few : moves[j].move # ttMove => moves[j].move \notin Out,
         \/ stage' = "GOOD_CAPTURE"
         \/ stage' = "QUIET_INIT" /\ upto = Few
  PROVE  /\ moves' \in Seq(Entry) /\ cur' \in Int /\ endBadCaptures' \in Int
         /\ ArrayHolds' /\ PointersFit' /\ Tracked'
<1>1. /\ CapturesIn(moves) /\ cur \in 0 .. Few /\ endCur = Few /\ endBadCaptures \in 0 .. cur
      /\ Few \in Nat /\ DOMAIN moves = 1 .. Few
      /\ endCaptures = Few /\ endGenerated = Unset
  BY CapturesAt
<1>2. Sorting(upto, Out) BY <1>1 DEF Sorting
<1> DEFINE y == SetAside(upto)
<1>3. SetAsideTo(y, upto, Out) BY <1>2, SetAsideSplits
<1>4. /\ moves' = y.list /\ cur' = upto /\ endBadCaptures' = y.bad
      /\ UNCHANGED <<ttMove, depth, winning, endCur, endCaptures, endGenerated>>
  BY DEF Pass, given
<1> HIDE DEF y
<1>5. /\ CapturesIn(moves') /\ endBadCaptures' \in 0 .. upto
      /\ \A j \in 1 .. Few : j > upto => moves'[j] = moves[j]
      /\ \A j \in 1 .. upto :
            moves'[j].move # ttMove => (moves'[j].move \in Out <=> j > endBadCaptures')
  BY <1>3, <1>4 DEF SetAsideTo
<1>6. /\ moves' \in Seq(Entry) /\ Len(moves') = Few /\ DOMAIN moves' = 1 .. Few
      /\ DistinctMoves(moves)' /\ MovesFrom(moves, 0, Few)' = ToSet(Captures)
  BY <1>5 DEF CapturesIn, DistinctMoves, MovesFrom, Few
<1>7. ArrayHolds' BY <1>6 DEF ArrayHolds, Few
<1>8. upto \in 0 .. Few BY <1>1
<1>9. PointersFit' BY <1>1, <1>4, <1>5, <1>8 DEF PointersFit, Few
<1>10. Tracked'
  <2> SUFFICES ASSUME NEW i \in 1 .. Few, moves'[i].move # ttMove
               PROVE  moves'[i].move \in Out <=> Passed(i)'
    BY <1>4, <1>6 DEF Tracked
  <2>1. Passed(i)' <=> i \in endBadCaptures' + 1 .. upto BY <1>4 DEF Passed
  <2>2. CASE i <= upto
    <3>1. i \in 1 .. upto BY <1>8, <2>2
    <3>2. \A b \in 0 .. upto : i > b <=> i \in b + 1 .. upto BY <1>1, <1>8, <3>1
    <3>3. i > endBadCaptures' <=> i \in endBadCaptures' + 1 .. upto BY <1>5, <3>2
    <3> QED BY <1>5, <2>1, <3>1, <3>3
  <2>3. CASE ~ (i <= upto)
    <3>1. i \in upto + 1 .. Few /\ i > upto BY <1>8, <2>3
    <3>2. moves'[i] = moves[i] BY <1>5, <3>1
    <3>3. moves'[i].move \notin Out BY <3>1, <3>2
    <3> QED BY <2>1, <2>3, <3>1, <3>3
  <2> QED BY <2>2, <2>3
<1>11. cur' \in Int /\ endBadCaptures' \in Int BY <1>4, <1>5, <1>8
<1> QED BY <1>6, <1>7, <1>9, <1>10, <1>11

LEMMA GoodCaptureStep == ASSUME Inv, GoodCapture PROVE Inv'
<1> DEFINE C == Candidates(Wins)
<1>0. stage = "GOOD_CAPTURE" /\ stage' = "GOOD_CAPTURE" BY DEF GoodCapture
<1>1. /\ CapturesIn(moves) /\ cur \in 0 .. Few /\ endCur = Few /\ endBadCaptures \in 0 .. cur
      /\ Few \in Nat /\ DOMAIN moves = 1 .. Few
      /\ \A j \in 1 .. Few : moves[j] \in Entry /\ moves[j].move \in ToSet(Captures)
      /\ \A j \in 1 .. Few :
           moves[j].move # ttMove =>
             (moves[j].move \in ToSet(emitted) <=> j \in endBadCaptures + 1 .. cur)
      /\ ToSet(emitted) \subseteq ToSet(Captures) \cup {ttMove}
  BY <1>0, CapturesAt
<1>2. \A j : j \in C <=> j \in cur + 1 .. Few /\ moves[j].move # ttMove /\ moves[j].move \in winning
  BY <1>1 DEF Candidates, Wins
<1>3. C \subseteq Nat /\ C # {} BY <1>1, <1>2 DEF GoodCapture
<1> HIDE DEF C
<1>4. PICK i : i = First(C) /\ i \in C /\ \A j \in C : i <= j
  <2>1. First(C) \in C /\ \A j \in C : First(C) <= j BY <1>3, FirstIs
  <2> QED BY <2>1
<1>5. PICK m : m = moves[i].move OBVIOUS
<1>6. Pass(i) /\ Emit(m) BY <1>4, <1>5 DEF GoodCapture, C
<1>7. i \in cur + 1 .. Few /\ m # ttMove /\ m \in winning BY <1>2, <1>4, <1>5
<1>8. i \in 1 .. Few BY <1>1, <1>7
<1>9. m \in ToSet(Captures) /\ m \notin ToSet(emitted)
  BY <1>1, <1>5, <1>7, <1>8
<1>10. Emitted(m)
  <2>1. m \in GeneratedMoves BY <1>9, Sizes
  <2> QED BY <1>6, <1>9, <2>1, EmitKeeps DEF Inv
<1> DEFINE Out == ToSet(emitted) \cup {m}
<1>11. \A j \in 1 .. Few : moves[j].move = m => j = i
  BY <1>1, <1>5, <1>8 DEF CapturesIn, DistinctMoves
<1>12. \A j \in 1 .. cur : moves[j].move # ttMove => (moves[j].move \in Out <=> j > endBadCaptures)
  <2> SUFFICES ASSUME NEW j \in 1 .. cur, moves[j].move # ttMove
               PROVE  moves[j].move \in Out <=> j > endBadCaptures
    OBVIOUS
  <2>1. j \in 1 .. Few /\ j # i BY <1>1, <1>7
  <2>2. j > endBadCaptures <=> j \in endBadCaptures + 1 .. cur BY <1>1
  <2> QED BY <1>1, <1>11, <2>1, <2>2
<1>13. \A j \in cur + 1 .. i :
          moves[j].move # ttMove => (moves[j].move \in Out <=> moves[j].move \in winning)
  <2> SUFFICES ASSUME NEW j \in cur + 1 .. i, moves[j].move # ttMove
               PROVE  moves[j].move \in Out <=> moves[j].move \in winning
    OBVIOUS
  <2>1. j \in 1 .. Few /\ j \in cur + 1 .. Few /\ j <= i BY <1>1, <1>7
  <2>2. moves[j].move \notin ToSet(emitted) BY <1>1, <2>1
  <2>3. CASE j = i BY <1>5, <1>7, <2>3
  <2>4. CASE j # i
    <3>1. ~ (i <= j) BY <1>8, <2>1, <2>4
    <3>2. moves[j].move \notin winning BY <1>2, <1>4, <2>1, <3>1
    <3> QED BY <1>11, <2>1, <2>2, <2>4, <3>2
  <2> QED BY <2>3, <2>4
<1>14. \A j \in i + 1 .. Few : moves[j].move # ttMove => moves[j].move \notin Out
  <2> SUFFICES ASSUME NEW j \in i + 1 .. Few, moves[j].move # ttMove
               PROVE  moves[j].move \notin Out
    OBVIOUS
  <2>1. j \in 1 .. Few /\ j # i /\ j \notin endBadCaptures + 1 .. cur BY <1>1, <1>7
  <2> QED BY <1>1, <1>11, <2>1
<1>15. i \in cur .. Few /\ ToSet(emitted)' = Out BY <1>1, <1>7, <1>10 DEF Emitted
<1> HIDE DEF Out
<1>16. /\ moves' \in Seq(Entry) /\ cur' \in Int /\ endBadCaptures' \in Int
       /\ ArrayHolds' /\ PointersFit' /\ Tracked'
  BY <1>0, <1>6, <1>12, <1>13, <1>14, <1>15, PassKeeps
<1>17. UNCHANGED <<ttMove, depth, winning, endCur, endCaptures, endGenerated>>
  BY <1>6 DEF Pass, given
<1>18. TypeOK' BY <1>0, <1>10, <1>16, <1>17 DEF Inv, TypeOK, Emitted
<1>19. DepthFits' BY <1>0, <1>10, <1>17 DEF Inv, DepthFits, Emitted, InMain
<1>20. TableMoveFirst' BY <1>0, <1>9, <1>10, <1>17 DEF Inv, TableMoveFirst, Emitted, Usable
<1>21. Drained' BY <1>0, <1>10 DEF Inv, Drained, Emitted
<1> QED BY <1>10, <1>16, <1>18, <1>19, <1>20, <1>21 DEF Inv, Emitted

LEMMA NoGoodCaptureStep == ASSUME Inv, NoGoodCapture PROVE Inv'
<1>0. /\ stage = "GOOD_CAPTURE" /\ stage' = "QUIET_INIT" /\ Pass(endCur)
      /\ UNCHANGED <<emitted, skipQuiets, over>>
  BY DEF NoGoodCapture, Keep
<1>1. /\ CapturesIn(moves) /\ cur \in 0 .. Few /\ endCur = Few /\ endBadCaptures \in 0 .. cur
      /\ Few \in Nat /\ DOMAIN moves = 1 .. Few
      /\ \A j \in 1 .. Few : moves[j] \in Entry /\ moves[j].move \in ToSet(Captures)
      /\ \A j \in 1 .. Few :
           moves[j].move # ttMove =>
             (moves[j].move \in ToSet(emitted) <=> j \in endBadCaptures + 1 .. cur)
  BY <1>0, CapturesAt
<1>2. \A j \in cur + 1 .. Few : moves[j].move # ttMove => moves[j].move \notin winning
  <2>1. \A j \in cur + 1 .. Few : j \in DOMAIN moves BY <1>1
  <2> QED BY <1>1, <2>1 DEF NoGoodCapture, Candidates, Wins
<1> DEFINE Out == ToSet(emitted)
<1>12. \A j \in 1 .. cur : moves[j].move # ttMove => (moves[j].move \in Out <=> j > endBadCaptures)
  <2> TAKE j \in 1 .. cur
  <2>1. j \in 1 .. Few /\ (j > endBadCaptures <=> j \in endBadCaptures + 1 .. cur) BY <1>1
  <2> QED BY <1>1, <2>1
<1>13. \A j \in cur + 1 .. Few :
          moves[j].move # ttMove => (moves[j].move \in Out <=> moves[j].move \in winning)
  <2> TAKE j \in cur + 1 .. Few
  <2>1. j \in 1 .. Few /\ j \notin endBadCaptures + 1 .. cur BY <1>1
  <2> QED BY <1>1, <1>2, <2>1
<1>14. \A j \in Few + 1 .. Few : moves[j].move # ttMove => moves[j].move \notin Out BY <1>1
<1>15. Few \in cur .. Few /\ ToSet(emitted)' = Out /\ Pass(Few)
  BY <1>0, <1>1 DEF ToSet
<1>22. IsInjective(emitted)' BY <1>0 DEF Inv, IsInjective
<1> HIDE DEF Out
<1>16. /\ moves' \in Seq(Entry) /\ cur' \in Int /\ endBadCaptures' \in Int
       /\ ArrayHolds' /\ PointersFit' /\ Tracked'
  BY <1>0, <1>12, <1>13, <1>14, <1>15, PassKeeps
<1>17. UNCHANGED <<ttMove, depth, winning, endCur, endCaptures, endGenerated>>
  BY <1>0 DEF Pass, given
<1>18. TypeOK' BY <1>0, <1>16, <1>17 DEF Inv, TypeOK
<1>19. DepthFits' BY <1>0, <1>17 DEF Inv, DepthFits, InMain
<1>20. TableMoveFirst' BY <1>0, <1>15, <1>17 DEF Inv, TableMoveFirst, Usable, Out
<1>21. Drained' BY <1>0 DEF Inv, Drained
<1> QED BY <1>16, <1>18, <1>19, <1>20, <1>21, <1>22 DEF Inv


LEMMA FirstStages ==
  ASSUME stage \in LateMainStages \cup ShortStages
  PROVE  stage \notin TTStages \cup InitStages \cup FirstMainStages
OBVIOUS

\* The array in the stages that take the moves from it one by one.
LEMMA ArrayAt ==
  ASSUME Inv, stage \in LateMainStages \cup ShortStages
  PROVE  /\ moves \in Seq(Entry) /\ Len(moves) \in Nat /\ DOMAIN moves = 1 .. Len(moves)
         /\ Few \in Nat /\ Few <= Len(moves)
         /\ \A i \in 1 .. Len(moves) : moves[i].move \in GeneratedMoves
         /\ DistinctMoves(moves)
         /\ \A i \in 1 .. Len(moves) :
              moves[i].move # ttMove /\ (i <= Few \/ ~skipQuiets) =>
                (moves[i].move \in ToSet(emitted) <=> Passed(i))
<1>1. moves \in Seq(Entry) /\ Len(moves) \in Nat /\ DOMAIN moves = 1 .. Len(moves)
  BY DEF Inv, TypeOK
<1>2. Few \in Nat /\ Few <= Len(moves)
  <2>1. Few \in Nat /\ All \in Nat /\ Few <= All BY Sizes
  <2> QED BY <2>1 DEF Inv, ArrayHolds
<1>3. \A i \in 1 .. Len(moves) : moves[i].move \in GeneratedMoves
  <2> TAKE i \in 1 .. Len(moves)
  <2>1. moves[i] \in Entry BY <1>1
  <2> QED BY <2>1 DEF Entry
<1>4. DistinctMoves(moves) BY DEF Inv, ArrayHolds
<1>5. \A i \in DOMAIN moves :
        moves[i].move # ttMove /\ (i <= Few \/ ~skipQuiets) =>
          (moves[i].move \in ToSet(emitted) <=> Passed(i))
  BY FirstStages DEF Inv, Tracked
<1> QED BY <1>1, <1>2, <1>3, <1>4, <1>5

\* What select returns: the place i.
Selected(F, i) ==
  /\ i \in cur + 1 .. endCur /\ i \in 1 .. Len(moves) /\ i \in F /\ moves[i].move # ttMove
  /\ \A j \in cur + 1 .. endCur : j < i /\ j \in F => moves[j].move = ttMove
  /\ cur' = i /\ Emitted(moves[i].move)
  /\ UNCHANGED <<stage, ttMove, depth, winning, moves, endCur, endBadCaptures, endCaptures,
                 endGenerated>>

\* The place is left behind, and no other.
Advanced(i) ==
  \A j \in 1 .. Len(moves) :
    moves[j].move # ttMove /\ (j <= Few \/ ~skipQuiets') => (Passed(j)' <=> Passed(j) \/ j = i)

LEMMA SelectKeeps ==
  ASSUME Inv, stage \in LateMainStages \cup ShortStages, ~over, NEW F, Select(F),
         cur \in 0 .. Len(moves), endCur \in 0 .. Len(moves),
         \A j \in cur + 1 .. endCur :
            j \in F /\ moves[j].move # ttMove => ~ Passed(j) /\ (j <= Few \/ ~skipQuiets)
  PROVE  \E i : /\ Selected(F, i)
                /\ TypeOK' /\ DepthFits' /\ TableMoveFirst' /\ ArrayHolds' /\ Drained'
                /\ IsInjective(emitted)'
                /\ (Advanced(i) => Tracked')
<1> DEFINE C == Candidates(F)
<1>1. \A j : j \in C <=> j \in cur + 1 .. endCur /\ moves[j].move # ttMove /\ j \in F
  BY DEF Candidates
<1>2. C # {} /\ cur' = First(C) /\ Emit(moves[First(C)].move)
      /\ UNCHANGED <<stage, ttMove, depth, winning, moves, endCur, endBadCaptures, endCaptures,
                     endGenerated>>
  BY DEF Select, given
<1> HIDE DEF C
<1>0. /\ moves \in Seq(Entry) /\ Len(moves) \in Nat /\ DOMAIN moves = 1 .. Len(moves)
      /\ Few \in Nat /\ Few <= Len(moves)
      /\ \A i \in 1 .. Len(moves) : moves[i].move \in GeneratedMoves
      /\ DistinctMoves(moves)
      /\ \A i \in 1 .. Len(moves) :
           moves[i].move # ttMove /\ (i <= Few \/ ~skipQuiets) =>
             (moves[i].move \in ToSet(emitted) <=> Passed(i))
  BY ArrayAt
<1>3. C \subseteq Nat BY <1>0, <1>1
<1>4. PICK i : i = First(C) /\ i \in C /\ \A j \in C : i <= j
  <2>1. First(C) \in C /\ \A j \in C : First(C) <= j BY <1>2, <1>3, FirstIs
  <2> QED BY <2>1
<1>5. PICK m : m = moves[i].move OBVIOUS
<1>6. i \in cur + 1 .. endCur /\ i \in 1 .. Len(moves) /\ i \in F /\ m # ttMove
  BY <1>0, <1>1, <1>4, <1>5
<1>7. m \in GeneratedMoves /\ m \notin ToSet(emitted) /\ Emit(m) BY <1>0, <1>2, <1>4, <1>5, <1>6
<1>8. Emitted(m) BY <1>7, EmitKeeps DEF Inv
<1>9. ASSUME NEW j \in cur + 1 .. endCur, j < i, j \in F PROVE moves[j].move = ttMove
  <2>1. ~ (i <= j) BY <1>3, <1>4, <1>9
  <2> QED BY <1>1, <1>4, <1>9, <2>1
<1>10. Selected(F, i) BY <1>2, <1>4, <1>5, <1>6, <1>8, <1>9 DEF Selected
<1>11. TypeOK' BY <1>0, <1>2, <1>4, <1>6, <1>8 DEF Inv, TypeOK, Emitted
<1>12. DepthFits' BY <1>2, <1>8 DEF Inv, DepthFits, Emitted, InMain
<1>13. TableMoveFirst' BY <1>2, <1>8, FirstStages DEF Inv, TableMoveFirst, Emitted, Usable
<1>14. ArrayHolds'
  BY <1>2, <1>8 DEF Inv, ArrayHolds, Emitted, DistinctMoves, MovesFrom
<1>15. Drained' BY <1>8 DEF Drained, Emitted
<1>16. ASSUME Advanced(i) PROVE Tracked'
  <2> SUFFICES ASSUME NEW j \in 1 .. Len(moves), moves[j].move # ttMove,
                      j <= Few \/ ~skipQuiets'
               PROVE  moves[j].move \in ToSet(emitted)' <=> Passed(j)'
    BY <1>0, <1>2 DEF Tracked
  <2>1. j <= Few \/ ~skipQuiets BY <1>8 DEF Emitted
  <2>2. moves[j].move \in ToSet(emitted) <=> Passed(j) BY <1>0, <2>1
  <2>3. moves[j].move = m <=> j = i BY <1>0, <1>5, <1>6 DEF DistinctMoves
  <2>4. Passed(j)' <=> Passed(j) \/ j = i BY <1>16 DEF Advanced
  <2>5. ToSet(emitted)' = ToSet(emitted) \cup {m} BY <1>8 DEF Emitted
  <2> QED BY <2>2, <2>3, <2>4, <2>5
<1>17. IsInjective(emitted)' BY <1>8 DEF Emitted
<1> QED BY <1>10, <1>11, <1>12, <1>13, <1>14, <1>15, <1>16, <1>17

LEMMA GoodQuietStep == ASSUME Inv, GoodQuiet PROVE Inv'
<1>0. /\ moves \in Seq(Entry) /\ Len(moves) \in Nat /\ DOMAIN moves = 1 .. Len(moves)
      /\ Few \in Nat /\ Few <= Len(moves)
  BY ArrayAt DEF GoodQuiet
<1>1. stage = "GOOD_QUIET" /\ ~skipQuiets /\ Select(Promising) BY DEF GoodQuiet
<1>2. cur \in Few .. Len(moves) /\ endCur = Len(moves) /\ ~over
  BY <1>1 DEF Inv, PointersFit, Drained
<1>3. cur \in 0 .. Len(moves) /\ endCur \in 0 .. Len(moves) BY <1>0, <1>2
<1>4. \A j \in cur + 1 .. endCur :
        j \in Promising /\ moves[j].move # ttMove => ~ Passed(j) /\ (j <= Few \/ ~skipQuiets)
  <2> TAKE j \in cur + 1 .. endCur
  <2>1. j \notin Few + 1 .. cur /\ ~ (j <= Few) BY <1>0, <1>2
  <2>2. j \notin endBadCaptures + 1 .. Few BY <1>0, <1>2
  <2> QED BY <1>1, <2>1, <2>2 DEF Passed
<1>5. PICK i : /\ Selected(Promising, i)
               /\ TypeOK' /\ DepthFits' /\ TableMoveFirst' /\ ArrayHolds' /\ Drained'
               /\ IsInjective(emitted)'
               /\ (Advanced(i) => Tracked')
  BY <1>1, <1>2, <1>3, <1>4, SelectKeeps
<1>6. /\ i \in cur + 1 .. Len(moves) /\ i \in Promising
      /\ \A j \in cur + 1 .. Len(moves) : j < i /\ j \in Promising => moves[j].move = ttMove
      /\ cur' = i /\ stage' = "GOOD_QUIET"
      /\ UNCHANGED <<moves, endCur, endBadCaptures, endCaptures, endGenerated>>
  BY <1>1, <1>2, <1>5 DEF Selected
<1>7. PointersFit' BY <1>0, <1>1, <1>2, <1>6 DEF Inv, PointersFit, Few
<1>8. Advanced(i)
  <2> SUFFICES ASSUME NEW j \in 1 .. Len(moves), moves[j].move # ttMove
               PROVE  Passed(j)' <=> Passed(j) \/ j = i
    BY DEF Advanced
  <2>1. Passed(j) <=> j \in endBadCaptures + 1 .. Few \/ (j \in Few + 1 .. cur /\ j \in Promising)
    BY <1>1 DEF Passed
  <2>2. Passed(j)' <=> j \in endBadCaptures + 1 .. Few \/ (j \in Few + 1 .. i /\ j \in Promising)
    BY <1>1, <1>6 DEF Passed, Promising, Few
  <2>3. j \in Few + 1 .. i <=> j \in Few + 1 .. cur \/ j = i \/ (j \in cur + 1 .. Len(moves) /\ j < i)
    BY <1>0, <1>2, <1>6
  <2> QED BY <1>6, <2>1, <2>2, <2>3
<1> QED BY <1>5, <1>7, <1>8 DEF Inv


LEMMA BadCaptureStep == ASSUME Inv, BadCapture PROVE Inv'
<1>0. /\ moves \in Seq(Entry) /\ Len(moves) \in Nat /\ DOMAIN moves = 1 .. Len(moves)
      /\ Few \in Nat /\ Few <= Len(moves)
  BY ArrayAt DEF BadCapture
<1>1. stage = "BAD_CAPTURE" /\ Select(Every) BY DEF BadCapture
<1>2. cur \in 0 .. endBadCaptures /\ endCur = endBadCaptures /\ endBadCaptures \in 0 .. Few /\ ~over
  BY <1>1 DEF Inv, PointersFit, Drained
<1>3. cur \in 0 .. Len(moves) /\ endCur \in 0 .. Len(moves) BY <1>0, <1>2
<1>4. \A j \in cur + 1 .. endCur :
        j \in Every /\ moves[j].move # ttMove => ~ Passed(j) /\ (j <= Few \/ ~skipQuiets)
  <2> TAKE j \in cur + 1 .. endCur
  <2>1. ~ (j <= cur) /\ j <= Few BY <1>0, <1>2
  <2>2. j \notin endBadCaptures + 1 .. Few /\ ~ (j > Few) BY <1>0, <1>2
  <2> QED BY <1>1, <2>1, <2>2 DEF Passed
<1>5. PICK i : /\ Selected(Every, i)
               /\ TypeOK' /\ DepthFits' /\ TableMoveFirst' /\ ArrayHolds' /\ Drained'
               /\ IsInjective(emitted)'
               /\ (Advanced(i) => Tracked')
  BY <1>1, <1>2, <1>3, <1>4, SelectKeeps
<1>6. /\ i \in cur + 1 .. endBadCaptures
      /\ \A j \in cur + 1 .. endBadCaptures : j < i => moves[j].move = ttMove
      /\ cur' = i /\ stage' = "BAD_CAPTURE"
      /\ UNCHANGED <<moves, endCur, endBadCaptures, endCaptures, endGenerated>>
  <2>1. \A j \in cur + 1 .. endBadCaptures : j \in Every BY <1>0, <1>2 DEF Every
  <2> QED BY <1>1, <1>2, <1>5, <2>1 DEF Selected
<1>7. PointersFit' BY <1>0, <1>1, <1>2, <1>6 DEF Inv, PointersFit, Few
<1>8. Advanced(i)
  <2> SUFFICES ASSUME NEW j \in 1 .. Len(moves), moves[j].move # ttMove
               PROVE  Passed(j)' <=> Passed(j) \/ j = i
    BY DEF Advanced
  <2>1. Passed(j) <=> j <= cur \/ j \in endBadCaptures + 1 .. Few \/ (j > Few /\ j \in Promising)
    BY <1>1 DEF Passed
  <2>2. Passed(j)' <=> j <= i \/ j \in endBadCaptures + 1 .. Few \/ (j > Few /\ j \in Promising)
    BY <1>1, <1>6 DEF Passed, Promising, Few
  <2>3. j <= i <=> j <= cur \/ j = i \/ (j \in cur + 1 .. endBadCaptures /\ j < i)
    BY <1>0, <1>2, <1>6
  <2> QED BY <1>6, <2>1, <2>2, <2>3
<1> QED BY <1>5, <1>7, <1>8 DEF Inv

LEMMA BadQuietStep == ASSUME Inv, BadQuiet PROVE Inv'
<1>0. /\ moves \in Seq(Entry) /\ Len(moves) \in Nat /\ DOMAIN moves = 1 .. Len(moves)
      /\ Few \in Nat /\ Few <= Len(moves)
  BY ArrayAt DEF BadQuiet
<1>1. stage = "BAD_QUIET" /\ ~skipQuiets /\ Select(Hopeless) BY DEF BadQuiet
<1>2. cur \in Few .. Len(moves) /\ endCur = Len(moves)
  BY <1>1 DEF Inv, PointersFit
<1>9. ~over BY <1>1 DEF Inv, Drained, Select
<1>3. cur \in 0 .. Len(moves) /\ endCur \in 0 .. Len(moves) BY <1>0, <1>2
<1>4. \A j \in cur + 1 .. endCur :
        j \in Hopeless /\ moves[j].move # ttMove => ~ Passed(j) /\ (j <= Few \/ ~skipQuiets)
  <2> TAKE j \in cur + 1 .. endCur
  <2>1. ~ (j <= cur) BY <1>0, <1>2
  <2> QED BY <1>1, <2>1 DEF Passed, Hopeless
<1>5. PICK i : /\ Selected(Hopeless, i)
               /\ TypeOK' /\ DepthFits' /\ TableMoveFirst' /\ ArrayHolds' /\ Drained'
               /\ IsInjective(emitted)'
               /\ (Advanced(i) => Tracked')
  BY <1>1, <1>3, <1>4, <1>9, SelectKeeps
<1>6. /\ i \in cur + 1 .. Len(moves) /\ i \in Hopeless
      /\ \A j \in cur + 1 .. Len(moves) : j < i /\ j \in Hopeless => moves[j].move = ttMove
      /\ cur' = i /\ stage' = "BAD_QUIET"
      /\ UNCHANGED <<moves, endCur, endBadCaptures, endCaptures, endGenerated>>
  BY <1>1, <1>2, <1>5 DEF Selected
<1>7. PointersFit' BY <1>0, <1>1, <1>2, <1>6 DEF Inv, PointersFit, Few
<1>8. Advanced(i)
  <2> SUFFICES ASSUME NEW j \in 1 .. Len(moves), moves[j].move # ttMove
               PROVE  Passed(j)' <=> Passed(j) \/ j = i
    BY DEF Advanced
  <2>1. Passed(j) <=> j <= cur \/ j \in Promising BY <1>1 DEF Passed
  <2>2. Passed(j)' <=> j <= i \/ j \in Promising BY <1>1, <1>6 DEF Passed, Promising
  <2>3. j <= i <=> j <= cur \/ j = i \/ (j \in cur + 1 .. Len(moves) /\ j < i)
    BY <1>0, <1>2, <1>6
  <2>4. j \in Promising \/ j \in Hopeless BY <1>0 DEF Hopeless
  <2> QED BY <1>6, <2>1, <2>2, <2>3, <2>4
<1> QED BY <1>5, <1>7, <1>8 DEF Inv

LEMMA RemainingStep == ASSUME Inv, Remaining PROVE Inv'
<1> DEFINE F == IF stage = "PROBCUT" THEN Wins ELSE Every
<1>1. stage \in ShortStages /\ Select(F) /\ ~InMain BY DEF Remaining, InMain
<1>10. ~skipQuiets BY <1>1 DEF Inv, DepthFits
<1>0. /\ moves \in Seq(Entry) /\ Len(moves) \in Nat /\ DOMAIN moves = 1 .. Len(moves)
      /\ Few \in Nat /\ Few <= Len(moves)
  BY <1>1, ArrayAt
<1>2. cur \in 0 .. Len(moves) /\ endCur = Len(moves)
  BY <1>1 DEF Inv, PointersFit
<1>9. ~over BY <1>1 DEF Inv, Drained, Select
<1>3. endCur \in 0 .. Len(moves) BY <1>0, <1>2
<1>11. \A j \in 1 .. Len(moves) : Passed(j) <=> j <= cur /\ j \in F
  BY <1>0, <1>1 DEF Passed, Every
<1>13. \A i : \A j \in 1 .. Len(moves) : cur' = i /\ UNCHANGED <<stage, moves, winning>> =>
          (Passed(j)' <=> j <= i /\ j \in F)
  BY <1>0, <1>1 DEF Passed, Every, Wins
<1> HIDE DEF F
<1>4. \A j \in cur + 1 .. endCur :
        j \in F /\ moves[j].move # ttMove => ~ Passed(j) /\ (j <= Few \/ ~skipQuiets)
  <2> TAKE j \in cur + 1 .. endCur
  <2>1. ~ (j <= cur) /\ j \in 1 .. Len(moves) BY <1>0, <1>2
  <2> QED BY <1>10, <1>11, <2>1
<1>5. PICK i : /\ Selected(F, i)
               /\ TypeOK' /\ DepthFits' /\ TableMoveFirst' /\ ArrayHolds' /\ Drained'
               /\ IsInjective(emitted)'
               /\ (Advanced(i) => Tracked')
  BY <1>1, <1>2, <1>3, <1>4, <1>9, SelectKeeps
<1>6. /\ i \in cur + 1 .. Len(moves) /\ i \in F
      /\ \A j \in cur + 1 .. Len(moves) : j < i /\ j \in F => moves[j].move = ttMove
      /\ cur' = i
      /\ UNCHANGED <<stage, winning, moves, endCur, endBadCaptures, endCaptures, endGenerated>>
  BY <1>1, <1>2, <1>5 DEF Selected
<1>7. PointersFit' BY <1>0, <1>1, <1>2, <1>6 DEF Inv, PointersFit, Few
<1>8. Advanced(i)
  <2> SUFFICES ASSUME NEW j \in 1 .. Len(moves), moves[j].move # ttMove
               PROVE  Passed(j)' <=> Passed(j) \/ j = i
    BY DEF Advanced
  <2>1. Passed(j) <=> j <= cur /\ j \in F BY <1>11
  <2>2. Passed(j)' <=> j <= i /\ j \in F BY <1>6, <1>13
  <2>3. j <= i <=> j <= cur \/ j = i \/ (j \in cur + 1 .. Len(moves) /\ j < i)
    BY <1>0, <1>2, <1>6
  <2> QED BY <1>6, <2>1, <2>2, <2>3
<1> QED BY <1>5, <1>7, <1>8 DEF Inv

LEMMA ExhaustedStep == ASSUME Inv, Exhausted PROVE Inv'
<1>1. over' = TRUE /\ UNCHANGED <<stage, ttMove, depth, winning, moves, cur, endCur, endBadCaptures,
                                  endCaptures, endGenerated, skipQuiets, emitted>>
  BY DEF Exhausted, given
<1>2. TypeOK' BY <1>1 DEF Inv, TypeOK
<1>3. DepthFits' BY <1>1 DEF Inv, DepthFits, InMain
<1>4. TableMoveFirst' BY <1>1 DEF Inv, TableMoveFirst, Usable, ToSet
<1>5. ArrayHolds' BY <1>1 DEF Inv, ArrayHolds, DistinctMoves, MovesFrom
<1>6. PointersFit' BY <1>1 DEF Inv, PointersFit
<1>7. Tracked' BY <1>1 DEF Inv, Tracked, Passed, Promising, Wins, ToSet
<1>8. Drained' BY <1>1 DEF Exhausted, Drained, Candidates, Hopeless, Promising, Every, Wins
<1>9. IsInjective(emitted)' BY <1>1 DEF Inv, IsInjective
<1> QED BY <1>2, <1>3, <1>4, <1>5, <1>6, <1>7, <1>8, <1>9 DEF Inv


LEMMA InitNoQuietsStep == ASSUME Inv, InitNoQuiets PROVE Inv'
<1>1. /\ stage = "QUIET_INIT" /\ stage' = "GOOD_QUIET" /\ skipQuiets
      /\ UNCHANGED <<emitted, skipQuiets, over, ttMove, depth, winning, moves, cur, endCur,
                     endBadCaptures, endCaptures, endGenerated>>
  BY DEF InitNoQuiets, Keep, given
<1>2. /\ CapturesIn(moves) /\ endCur = Few /\ endBadCaptures \in 0 .. cur
      /\ Few \in Nat /\ DOMAIN moves = 1 .. Few
      /\ \A i \in 1 .. Few :
           moves[i].move # ttMove =>
             (moves[i].move \in ToSet(emitted) <=> i \in endBadCaptures + 1 .. cur)
      /\ endCaptures = Few /\ endGenerated = Unset
  BY <1>1, CapturesAt
<1>3. cur = Few BY <1>1 DEF Inv, PointersFit
<1>4. /\ moves \in Seq(Entry) /\ Len(moves) = Few /\ DistinctMoves(moves)
      /\ MovesFrom(moves, 0, Few) = ToSet(Captures)
  BY <1>1 DEF Inv, TypeOK, ArrayHolds
<1>5. TypeOK' BY <1>1 DEF Inv, TypeOK
<1>6. DepthFits' BY <1>1 DEF Inv, DepthFits, InMain
<1>7. TableMoveFirst' BY <1>1 DEF Inv, TableMoveFirst, Usable, ToSet
<1>8. ArrayHolds' BY <1>1, <1>2, <1>4 DEF ArrayHolds, DistinctMoves, MovesFrom, Few
<1>9. PointersFit' BY <1>1, <1>2, <1>3, <1>4 DEF PointersFit, Few
<1>10. Tracked'
  <2> SUFFICES ASSUME NEW i \in 1 .. Few, moves[i].move # ttMove
               PROVE  moves[i].move \in ToSet(emitted) <=> Passed(i)'
    BY <1>1, <1>2 DEF Tracked, ToSet
  <2>1. i \notin Few + 1 .. cur' BY <1>1, <1>2, <1>3
  <2>2. Passed(i)' <=> i \in endBadCaptures + 1 .. Few BY <1>1, <2>1 DEF Passed, Few
  <2> QED BY <1>2, <1>3, <2>2
<1>11. Drained' BY <1>1 DEF Inv, Drained
<1>12. IsInjective(emitted)' BY <1>1 DEF Inv, IsInjective
<1> QED BY <1>5, <1>6, <1>7, <1>8, <1>9, <1>10, <1>11, <1>12 DEF Inv

LEMMA NoBadCaptureStep == ASSUME Inv, NoBadCapture PROVE Inv'
<1>0. /\ moves \in Seq(Entry) /\ Len(moves) \in Nat /\ DOMAIN moves = 1 .. Len(moves)
      /\ Few \in Nat /\ Few <= Len(moves)
      /\ \A i \in 1 .. Len(moves) :
           moves[i].move # ttMove /\ (i <= Few \/ ~skipQuiets) =>
             (moves[i].move \in ToSet(emitted) <=> Passed(i))
  BY ArrayAt DEF NoBadCapture
<1>1. /\ stage = "BAD_CAPTURE" /\ stage' = "BAD_QUIET" /\ Candidates(Every) = {}
      /\ cur' = endCaptures
      /\ endCur' \in IF endGenerated = Unset THEN Garbage ELSE {endGenerated}
      /\ UNCHANGED <<emitted, skipQuiets, over, ttMove, depth, winning, moves,
                     endBadCaptures, endCaptures, endGenerated>>
  BY DEF NoBadCapture, Keep, given
<1>2. /\ endCaptures = Few /\ endBadCaptures \in 0 .. Few /\ cur \in 0 .. endBadCaptures
      /\ endCur = endBadCaptures
  BY <1>1 DEF Inv, PointersFit
<1>3. /\ MovesFrom(moves, 0, Few) = ToSet(Captures)
      /\ \/ Len(moves) = Few /\ endGenerated = Unset /\ skipQuiets
         \/ /\ Len(moves) = All /\ endGenerated = All
            /\ MovesFrom(moves, Few, All) = ToSet(Quiets)
  BY <1>1 DEF Inv, ArrayHolds
<1>4. All \in Nat /\ Garbage \subseteq Int /\ endGenerated \in Int
  BY Sizes, MovesAssumption DEF Inv, TypeOK
<1>5. endCur' \in Int BY <1>1, <1>4
<1>6. ~skipQuiets => endCur' = Len(moves)
  <2> SUFFICES ASSUME ~skipQuiets PROVE endCur' = Len(moves) OBVIOUS
  <2>1. Len(moves) = All /\ endGenerated = All BY <1>3
  <2>2. endGenerated # Unset BY <1>4, <2>1 DEF Unset
  <2> QED BY <1>1, <2>1, <2>2
<1>7. TypeOK' BY <1>0, <1>1, <1>2, <1>5 DEF Inv, TypeOK
<1>8. DepthFits' BY <1>1 DEF Inv, DepthFits, InMain
<1>9. TableMoveFirst' BY <1>1 DEF Inv, TableMoveFirst, Usable, ToSet
<1>10. ArrayHolds' BY <1>1 DEF Inv, ArrayHolds, DistinctMoves, MovesFrom
<1>11. PointersFit' BY <1>0, <1>1, <1>2, <1>6 DEF PointersFit, Few
<1>12. \A j \in cur + 1 .. endBadCaptures : moves[j].move = ttMove
  <2> TAKE j \in cur + 1 .. endBadCaptures
  <2>1. j \in DOMAIN moves /\ j \in cur + 1 .. endCur BY <1>0, <1>2
  <2> QED BY <1>1, <2>1 DEF Candidates, Every
<1>13. Tracked'
  <2> SUFFICES ASSUME NEW i \in 1 .. Len(moves), moves[i].move # ttMove, i <= Few \/ ~skipQuiets
               PROVE  moves[i].move \in ToSet(emitted) <=> Passed(i)'
    BY <1>0, <1>1 DEF Tracked, ToSet
  <2>1. moves[i].move \in ToSet(emitted) <=> Passed(i) BY <1>0
  <2>2. Passed(i)' <=> i <= Few \/ i \in Promising BY <1>1, <1>2 DEF Passed, Promising
  <2>3. Passed(i) <=> i <= cur \/ i \in endBadCaptures + 1 .. Few \/ (i > Few /\ i \in Promising)
    BY <1>1 DEF Passed
  <2>4. i <= Few => i <= cur \/ i \in endBadCaptures + 1 .. Few
    BY <1>0, <1>2, <1>12
  <2>5. i <= cur => i <= Few BY <1>0, <1>2
  <2>6. i \in endBadCaptures + 1 .. Few => i <= Few BY <1>0, <1>2
  <2>7. i <= Few \/ i > Few BY <1>0
  <2> QED BY <2>1, <2>2, <2>3, <2>4, <2>5, <2>6, <2>7
<1>14. Drained' BY <1>1 DEF Inv, Drained
<1>15. IsInjective(emitted)' BY <1>1 DEF Inv, IsInjective
<1> QED BY <1>7, <1>8, <1>9, <1>10, <1>11, <1>13, <1>14, <1>15 DEF Inv


LEMMA NoGoodQuietStep == ASSUME Inv, NoGoodQuiet PROVE Inv'
<1>0. /\ moves \in Seq(Entry) /\ Len(moves) \in Nat /\ DOMAIN moves = 1 .. Len(moves)
      /\ Few \in Nat /\ Few <= Len(moves)
      /\ \A i \in 1 .. Len(moves) :
           moves[i].move # ttMove /\ (i <= Few \/ ~skipQuiets) =>
             (moves[i].move \in ToSet(emitted) <=> Passed(i))
  BY ArrayAt DEF NoGoodQuiet
<1>1. /\ stage = "GOOD_QUIET" /\ stage' = "BAD_CAPTURE" /\ cur' = 0 /\ endCur' = endBadCaptures
      /\ skipQuiets \/ Candidates(Promising) = {}
      /\ UNCHANGED <<emitted, skipQuiets, over, ttMove, depth, winning, moves,
                     endBadCaptures, endCaptures, endGenerated>>
  BY DEF NoGoodQuiet, Keep, given
<1>2. /\ endCaptures = Few /\ endBadCaptures \in 0 .. Few
      /\ cur \in Few .. Len(moves) /\ endCur = Len(moves)
  BY <1>1 DEF Inv, PointersFit
<1>3. TypeOK' BY <1>0, <1>1, <1>2 DEF Inv, TypeOK
<1>4. DepthFits' BY <1>1 DEF Inv, DepthFits, InMain
<1>5. TableMoveFirst' BY <1>1 DEF Inv, TableMoveFirst, Usable, ToSet
<1>6. ArrayHolds' BY <1>1 DEF Inv, ArrayHolds, DistinctMoves, MovesFrom
<1>7. PointersFit' BY <1>0, <1>1, <1>2 DEF PointersFit, Few
<1>8. ASSUME ~skipQuiets, NEW j \in cur + 1 .. Len(moves), j \in Promising
      PROVE  moves[j].move = ttMove
  BY <1>1, <1>2, <1>8 DEF Candidates
<1>9. Tracked'
  <2> SUFFICES ASSUME NEW i \in 1 .. Len(moves), moves[i].move # ttMove, i <= Few \/ ~skipQuiets
               PROVE  moves[i].move \in ToSet(emitted) <=> Passed(i)'
    BY <1>0, <1>1 DEF Tracked, ToSet
  <2>1. moves[i].move \in ToSet(emitted) <=> Passed(i) BY <1>0
  <2>2. Passed(i)' <=> i <= 0 \/ i \in endBadCaptures + 1 .. Few \/ (i > Few /\ i \in Promising)
    BY <1>1 DEF Passed, Promising, Few
  <2>3. Passed(i) <=> i \in endBadCaptures + 1 .. Few \/ (i \in Few + 1 .. cur /\ i \in Promising)
    BY <1>1 DEF Passed
  <2>4. ~ (i <= 0) BY <1>0
  <2>5. i > Few => ~skipQuiets BY <1>0
  <2>6. i > Few /\ i \in Promising => i \in Few + 1 .. cur BY <1>0, <1>2, <1>8, <2>5
  <2>7. i \in Few + 1 .. cur => i > Few BY <1>0, <1>2
  <2> QED BY <2>1, <2>2, <2>3, <2>4, <2>6, <2>7
<1>10. Drained' BY <1>1 DEF Inv, Drained
<1>11. IsInjective(emitted)' BY <1>1 DEF Inv, IsInjective
<1> QED BY <1>3, <1>4, <1>5, <1>6, <1>7, <1>9, <1>10, <1>11 DEF Inv

\* Captures and quiets one after the other.
LEMMA BothLists ==
  ASSUME NEW a, CapturesIn(a), NEW b, Lists(b, ToSet(Quiets)), Len(b) = Len(Quiets)
  PROVE  /\ a \o b \in Seq(Entry) /\ Len(a \o b) = All /\ DOMAIN (a \o b) = 1 .. All
         /\ DistinctMoves(a \o b)
         /\ MovesFrom(a \o b, 0, Few) = ToSet(Captures)
         /\ MovesFrom(a \o b, Few, All) = ToSet(Quiets)
         /\ \A i \in 1 .. Few : (a \o b)[i] = a[i]
         /\ \A i \in Few + 1 .. All : (a \o b)[i].move \in ToSet(Quiets)
<1>1. /\ a \in Seq(Entry) /\ Len(a) = Few /\ DistinctMoves(a)
      /\ MovesFrom(a, 0, Few) = ToSet(Captures)
  BY DEF CapturesIn
<1>2. /\ b \in Seq(Entry) /\ DistinctMoves(b) /\ MovesFrom(b, 0, Len(Quiets)) = ToSet(Quiets)
  BY DEF Lists
<1>3. Few \in Nat /\ All \in Nat /\ All = Few + Len(Quiets) /\ Len(Quiets) \in Nat BY Sizes
<1>4. PICK c : c = a \o b OBVIOUS
<1>5. /\ c \in Seq(Entry) /\ Len(c) = All /\ DOMAIN c = 1 .. All
      /\ \A i \in 1 .. Few : c[i] = a[i]
      /\ \A i \in Few + 1 .. All : c[i] = b[i - Few]
  <2>0. a \in Seq(Entry) /\ b \in Seq(Entry) BY <1>1, <1>2
  <2>1. Len(c) = Len(a) + Len(b) /\ c \in Seq(Entry) BY ONLY <1>4, <2>0
  <2>2. \A i \in 1 .. Len(a) + Len(b) : c[i] = IF i <= Len(a) THEN a[i] ELSE b[i - Len(a)]
    BY <1>1, <1>2, <1>4
  <2> QED BY <1>1, <1>3, <2>1, <2>2
<1>6. ASSUME NEW i \in 1 .. Few PROVE c[i].move \in ToSet(Captures)
  <2>1. a[i].move \in MovesFrom(a, 0, Few) BY <1>3 DEF MovesFrom
  <2> QED BY <1>1, <1>5, <2>1
<1>7. ASSUME NEW i \in Few + 1 .. All PROVE c[i].move \in ToSet(Quiets)
  <2>1. i - Few \in 0 + 1 .. Len(Quiets) BY <1>3
  <2>2. b[i - Few].move \in MovesFrom(b, 0, Len(Quiets)) BY <2>1 DEF MovesFrom
  <2> QED BY <1>2, <1>5, <2>2
<1>8. \A m : ~ (m \in ToSet(Captures) /\ m \in ToSet(Quiets)) BY MovesAssumption
<1>9. DistinctMoves(c)
  <2> SUFFICES ASSUME NEW i \in 1 .. All, NEW j \in 1 .. All, c[i].move = c[j].move
               PROVE  i = j
    BY <1>5 DEF DistinctMoves
  <2>1. (i \in 1 .. Few \/ i \in Few + 1 .. All) /\ (j \in 1 .. Few \/ j \in Few + 1 .. All)
    BY <1>3
  <2>2. CASE i \in 1 .. Few /\ j \in 1 .. Few
    <3>1. i \in DOMAIN a /\ j \in DOMAIN a BY <1>1, <2>2
    <3> QED BY <1>1, <1>5, <2>2, <3>1 DEF DistinctMoves
  <2>3. CASE i \in Few + 1 .. All /\ j \in Few + 1 .. All
    <3>1. i - Few \in DOMAIN b /\ j - Few \in DOMAIN b BY <1>2, <1>3, <2>3
    <3>2. i - Few = j - Few BY <1>2, <1>5, <2>3, <3>1 DEF DistinctMoves
    <3> QED BY <1>3, <3>2
  <2>4. ~ (i \in 1 .. Few /\ j \in Few + 1 .. All) /\ ~ (j \in 1 .. Few /\ i \in Few + 1 .. All)
    BY <1>6, <1>7, <1>8
  <2> QED BY <2>1, <2>2, <2>3, <2>4
<1>10. MovesFrom(c, 0, Few) = ToSet(Captures)
  <2>1. \A i \in 0 + 1 .. Few : c[i] = a[i] BY <1>3, <1>5
  <2> QED BY <1>1, <2>1 DEF MovesFrom
<1>11. MovesFrom(c, Few, All) = ToSet(Quiets)
  <2>1. ASSUME NEW m \in MovesFrom(c, Few, All) PROVE m \in ToSet(Quiets)
    BY <1>7 DEF MovesFrom
  <2>2. ASSUME NEW m \in ToSet(Quiets) PROVE m \in MovesFrom(c, Few, All)
    <3>1. PICK i \in 0 + 1 .. Len(Quiets) : m = b[i].move BY <1>2 DEF MovesFrom
    <3>2. i + Few \in Few + 1 .. All /\ (i + Few) - Few = i BY <1>3
    <3>3. c[i + Few] = b[i] BY <1>5, <3>2
    <3> QED BY <3>1, <3>2, <3>3 DEF MovesFrom
  <2> QED BY <2>1, <2>2
<1> QED BY <1>4, <1>5, <1>7, <1>9, <1>10, <1>11

LEMMA InitQuietsStep == ASSUME Inv, InitQuiets PROVE Inv'
<1> DEFINE limit == -3560 * depth
<1>0. PICK scored \in Score(Quiets, QuietValues) :
        /\ moves' = SubSeq(moves, 1, cur) \o PartialInsertionSort(scored, limit)
        /\ endCur' = cur + Len(scored) /\ endGenerated' = cur + Len(scored)
  BY DEF InitQuiets
<1> HIDE DEF limit
<1>5. PICK front, b : /\ front = SubSeq(moves, 1, cur)
                      /\ b = PartialInsertionSort(scored, limit)
                      /\ moves' = front \o b
  BY <1>0
<1>1. /\ stage = "QUIET_INIT" /\ stage' = "GOOD_QUIET" /\ ~skipQuiets
      /\ UNCHANGED <<emitted, skipQuiets, over, ttMove, depth, winning, cur,
                     endBadCaptures, endCaptures>>
  BY DEF InitQuiets, Keep, given
<1>2. /\ CapturesIn(moves) /\ endBadCaptures \in 0 .. cur
      /\ Few \in Nat /\ DOMAIN moves = 1 .. Few
      /\ \A i \in 1 .. Few :
           moves[i].move # ttMove =>
             (moves[i].move \in ToSet(emitted) <=> i \in endBadCaptures + 1 .. cur)
      /\ ToSet(emitted) \subseteq ToSet(Captures) \cup {ttMove}
      /\ endCaptures = Few
  BY <1>1, CapturesAt
<1>3. cur = Few BY <1>1 DEF Inv, PointersFit
<1>4. front = moves
  <2>1. moves \in Seq(Entry) /\ Len(moves) = cur BY <1>2, <1>3 DEF CapturesIn
  <2> QED BY <1>5, <2>1
<1>6. Lists(b, ToSet(Quiets)) /\ Len(b) = Len(Quiets) /\ Len(scored) = Len(Quiets)
  BY <1>5, QuietsScored
<1>7. All \in Nat /\ All = Few + Len(Quiets) BY Sizes
<1>8. moves' = moves \o b /\ endCur' = All /\ endGenerated' = All
  <2>1. moves' = moves \o b BY <1>4, <1>5
  <2>2. cur + Len(scored) = All BY <1>3, <1>6, <1>7
  <2> QED BY <1>0, <2>1, <2>2
<1>9. /\ moves' \in Seq(Entry) /\ Len(moves') = All /\ DOMAIN moves' = 1 .. All
      /\ DistinctMoves(moves')
      /\ MovesFrom(moves', 0, Few) = ToSet(Captures)
      /\ MovesFrom(moves', Few, All) = ToSet(Quiets)
      /\ \A i \in 1 .. Few : moves'[i] = moves[i]
      /\ \A i \in Few + 1 .. All : moves'[i].move \in ToSet(Quiets)
  BY <1>2, <1>6, <1>8, BothLists
<1>10. TypeOK' BY <1>1, <1>7, <1>8, <1>9 DEF Inv, TypeOK
<1>11. DepthFits' BY <1>1 DEF Inv, DepthFits, InMain
<1>12. TableMoveFirst' BY <1>1 DEF Inv, TableMoveFirst, Usable, ToSet
<1>13. ArrayHolds' BY <1>1, <1>8, <1>9 DEF ArrayHolds, DistinctMoves, MovesFrom, Few, All
<1>14. PointersFit' BY <1>1, <1>2, <1>3, <1>7, <1>8, <1>9 DEF PointersFit, Few, All
<1>15. Tracked'
  <2> SUFFICES ASSUME NEW i \in 1 .. All, moves'[i].move # ttMove
               PROVE  moves'[i].move \in ToSet(emitted) <=> Passed(i)'
    BY <1>1, <1>9 DEF Tracked, ToSet
  <2>1. Passed(i)' <=> i \in endBadCaptures + 1 .. Few \/ (i \in Few + 1 .. cur' /\ (i \in Promising)')
    BY <1>1 DEF Passed, Few
  <2>2. i \notin Few + 1 .. cur' BY <1>1, <1>2, <1>3
  <2>3. CASE i \in 1 .. Few BY <1>2, <1>3, <1>9, <2>1, <2>2, <2>3
  <2>4. CASE i \notin 1 .. Few
    <3>1. i \in Few + 1 .. All /\ i \notin endBadCaptures + 1 .. Few BY <1>2, <1>3, <1>7, <2>4
    <3>2. moves'[i].move \in ToSet(Quiets) BY <1>9, <3>1
    <3>3. moves'[i].move \notin ToSet(Captures) BY <3>2, MovesAssumption
    <3>4. moves'[i].move \notin ToSet(emitted) BY <1>2, <3>3
    <3> QED BY <2>1, <2>2, <3>1, <3>4
  <2> QED BY <2>3, <2>4
<1>16. Drained' BY <1>1 DEF Inv, Drained
<1>17. IsInjective(emitted)' BY <1>1 DEF Inv, IsInjective
<1> QED BY <1>10, <1>11, <1>12, <1>13, <1>14, <1>15, <1>16, <1>17 DEF Inv


-----------------------------------------------------------------------------
(* The order: sorting.                                                     *)

\* A set of the first n numbers that leaves none out is told by its size.
LEMMA FirstOnes ==
  ASSUME NEW n \in Nat, NEW R, R \subseteq 1 .. n, \A i \in R : \A j \in 1 .. n : j <= i => j \in R
  PROVE  Cardinality(R) \in Nat /\ \A i \in 1 .. n : i \in R <=> i < 1 + Cardinality(R)
<1>1. CASE R = {}
  <2>1. R = 1 .. 0 BY <1>1
  <2>2. Cardinality(R) = 0 BY <2>1, UpTo
  <2>3. \A i \in 1 .. n : i \notin R /\ ~ (i < 1) BY <1>1
  <2> QED BY <2>2, <2>3
<1>2. CASE R # {}
  <2>1. Max(R) \in R /\ \A y \in R : Max(R) >= y BY <1>2, MaxUpTo
  <2>2. PICK m : m = Max(R) OBVIOUS
  <2>3. m \in 1 .. n /\ m \in R /\ \A y \in R : m >= y BY <2>1, <2>2
  <2>4. R = 1 .. m
    <3>1. ASSUME NEW j \in 1 .. m PROVE j \in R
      <4>1. j \in 1 .. n /\ j <= m BY <2>3
      <4> QED BY <2>3, <4>1
    <3>2. \A j \in R : j \in 1 .. m BY <2>3
    <3> QED BY <3>1, <3>2
  <2>5. Cardinality(R) = m BY <2>3, <2>4, UpTo
  <2> QED BY <2>3, <2>4, <2>5
<1> QED BY <1>1, <1>2

\* Place keeps the first ones in order.
LEMMA PlaceOrders ==
  ASSUME NEW list \in Seq(Entry), NEW p \in 1 .. Len(list), NEW e \in 2 .. p,
         Descending(list, 0, e - 1), NEW z, z = Place(list, p, e)
  PROVE  /\ Descending(z, 0, e)
         /\ \A j \in e + 1 .. Len(list) : z[j] = IF j = p THEN list[e] ELSE list[j]
<1> DEFINE R == {i \in 1 .. e - 1 : list[i].value >= list[p].value}
           n == Len(list)
<1>0. n \in Nat /\ p \in 1 .. n /\ e \in 1 .. p /\ e - 1 \in Nat /\ e \in Nat /\ p \in Nat OBVIOUS
<1>1. \A i \in 1 .. n : list[i].value \in Int
  <2> TAKE i \in 1 .. n
  <2>1. list[i] \in Entry OBVIOUS
  <2> QED BY <2>1 DEF Entry
<1>2. PICK rank : rank = RankOf(list, p, e) OBVIOUS
<1>3. rank \in 1 .. e /\ \A i \in 1 .. n : z[i] = list[Origin(p, e, rank, i)]
  BY <1>0, <1>2, PlaceShuffles
<1>4. \A i \in 1 .. e - 1 : i < rank <=> list[i].value >= list[p].value
  <2>1. R \subseteq 1 .. e - 1 OBVIOUS
  <2>2. ASSUME NEW i \in R, NEW j \in 1 .. e - 1, j <= i PROVE j \in R
    <3>1. i \in 1 .. e - 1 /\ list[i].value >= list[p].value OBVIOUS
    <3>2. CASE j = i BY <3>2
    <3>3. CASE j < i
      <4>1. i \in 0 + 1 .. e - 1 /\ j \in 0 + 1 .. e - 1 BY <1>0
      <4>2. list[j].value >= list[i].value BY <3>3, <4>1 DEF Descending
      <4>3. i \in 1 .. n /\ j \in 1 .. n BY <1>0
      <4>4. list[i].value \in Int /\ list[j].value \in Int /\ list[p].value \in Int
        BY <1>0, <1>1, <4>3
      <4>5. list[j].value >= list[p].value BY <3>1, <4>2, <4>4
      <4> QED BY <4>5
    <3> QED BY <1>0, <2>2, <3>2, <3>3
  <2>3. rank = 1 + Cardinality(R) BY <1>2 DEF RankOf
  <2>4. \A i \in 1 .. e - 1 : i \in R <=> list[i].value >= list[p].value OBVIOUS
  <2> HIDE DEF R
  <2>5. \A i \in 1 .. e - 1 : i \in R <=> i < 1 + Cardinality(R) BY <1>0, <2>1, <2>2, FirstOnes
  <2> QED BY <2>3, <2>4, <2>5
<1>5. /\ \A i \in 1 .. e : i < rank => z[i] = list[i]
      /\ z[rank] = list[p]
      /\ \A i \in 1 .. e : i > rank => z[i] = list[i - 1]
  <2>1. ASSUME NEW i \in 1 .. e PROVE i \in 1 .. n /\ (i < rank => Origin(p, e, rank, i) = i)
                                      /\ (i > rank => Origin(p, e, rank, i) = i - 1)
    BY <1>0, <1>3 DEF Origin
  <2>2. Origin(p, e, rank, rank) = p /\ rank \in 1 .. n BY <1>0, <1>3 DEF Origin
  <2> QED BY <1>3, <2>1, <2>2
<1>6. ASSUME NEW i \in 0 + 1 .. e, NEW j \in 0 + 1 .. e, i < j PROVE z[i].value >= z[j].value
  <2>0. i \in 1 .. e /\ j \in 1 .. e BY <1>6
  <2>1. CASE j < rank
    <3>1. i < rank /\ i \in 0 + 1 .. e - 1 /\ j \in 0 + 1 .. e - 1 BY <1>3, <1>6, <2>1
    <3>2. list[i].value >= list[j].value BY <1>6, <3>1 DEF Descending
    <3> QED BY <1>5, <2>0, <2>1, <3>1, <3>2
  <2>2. CASE j = rank
    <3>1. i < rank /\ i \in 1 .. e - 1 BY <1>6, <2>2
    <3> QED BY <1>4, <1>5, <2>0, <2>2, <3>1
  <2>3. CASE j > rank /\ i = rank
    <3>1. j - 1 \in 1 .. e - 1 /\ ~ (j - 1 < rank) /\ j - 1 \in 1 .. n /\ p \in 1 .. n
      BY <1>0, <1>3, <2>0, <2>3
    <3>2. list[j - 1].value \in Int /\ list[p].value \in Int BY <1>1, <3>1
    <3>3. ~ (list[j - 1].value >= list[p].value) BY <1>4, <3>1
    <3>4. list[p].value >= list[j - 1].value BY <3>2, <3>3
    <3> QED BY <1>5, <2>0, <2>3, <3>4
  <2>4. CASE j > rank /\ i > rank
    <3>1. j - 1 \in 0 + 1 .. e - 1 /\ i - 1 \in 0 + 1 .. e - 1 /\ i - 1 < j - 1
      BY <1>0, <1>3, <1>6, <2>4
    <3>2. list[i - 1].value >= list[j - 1].value BY <3>1 DEF Descending
    <3> QED BY <1>5, <2>0, <2>4, <3>2
  <2>5. CASE j > rank /\ i < rank
    <3>1. i \in 0 + 1 .. e - 1 /\ j - 1 \in 0 + 1 .. e - 1 /\ i <= j - 1
      BY <1>0, <1>3, <1>6, <2>5
    <3>2. list[i].value >= list[j - 1].value
      <4>1. CASE i = j - 1
        <5>1. i \in 1 .. n BY <1>0, <3>1
        <5>2. list[i].value \in Int BY <1>1, <5>1
        <5> QED BY <4>1, <5>2
      <4>2. CASE i # j - 1
        <5>1. i < j - 1 BY <1>0, <2>0, <3>1, <4>2
        <5> QED BY <3>1, <5>1 DEF Descending
      <4> QED BY <4>1, <4>2
    <3> QED BY <1>5, <2>0, <2>5, <3>2
  <2> QED BY <1>3, <2>0, <2>1, <2>2, <2>3, <2>4, <2>5
<1>7. ASSUME NEW j \in e + 1 .. n PROVE z[j] = IF j = p THEN list[e] ELSE list[j]
  <2>1. j \in 1 .. n /\ j # rank /\ j \notin rank + 1 .. e BY <1>0, <1>3
  <2>2. Origin(p, e, rank, j) = IF j = p THEN e ELSE j BY <2>1 DEF Origin
  <2> QED BY <1>3, <2>1, <2>2
<1> QED BY <1>6, <1>7 DEF Descending

\* The first p places have been gone through.
SortedTo(y, p, limit, n) ==
  /\ y.list \in Seq(Entry) /\ Len(y.list) = n
  /\ y.sorted \in 1 .. p
  /\ Descending(y.list, 0, y.sorted)
  /\ \A j \in y.sorted + 1 .. p : j <= n => y.list[j].value < limit

LEMMA SortStepOrders ==
  ASSUME NEW n \in Nat, NEW limit \in Int, NEW p \in 2 .. n, NEW y, SortedTo(y, p - 1, limit, n)
  PROVE  SortedTo(SortStep(limit, y, p), p, limit, n)
<1>0. /\ y.list \in Seq(Entry) /\ Len(y.list) = n /\ y.sorted \in 1 .. p - 1
      /\ Descending(y.list, 0, y.sorted)
      /\ \A j \in y.sorted + 1 .. p - 1 : j <= n => y.list[j].value < limit
  BY DEF SortedTo
<1>1. CASE y.list[p].value < limit
  <2>1. SortStep(limit, y, p) = y BY <1>1 DEF SortStep
  <2>2. y.sorted \in 1 .. p BY <1>0
  <2>3. \A j \in y.sorted + 1 .. p : j \in y.sorted + 1 .. p - 1 \/ j = p BY <1>0
  <2>4. \A j \in y.sorted + 1 .. p : j <= n => y.list[j].value < limit BY <1>0, <1>1, <2>3
  <2> QED BY <1>0, <2>1, <2>2, <2>4 DEF SortedTo
<1>2. CASE ~ (y.list[p].value < limit)
  <2>1. PICK e, z, list : e = y.sorted + 1 /\ list = y.list /\ z = Place(list, p, e) OBVIOUS
  <2>2. SortStep(limit, y, p) = [sorted |-> e, list |-> z] BY <1>2, <2>1 DEF SortStep
  <2>3. PICK w : w = SortStep(limit, y, p) OBVIOUS
  <2>4. w.sorted = e /\ w.list = z BY <2>2, <2>3
  <2>5. /\ e \in 2 .. p /\ e \in 1 .. p /\ list \in Seq(Entry) /\ Len(list) = n
        /\ p \in 1 .. Len(list) /\ e - 1 = y.sorted /\ p \in Nat
    BY <1>0, <2>1
  <2>6. Descending(list, 0, e - 1) BY <1>0, <2>1, <2>5
  <2>7. /\ Descending(z, 0, e)
        /\ \A j \in e + 1 .. n : z[j] = IF j = p THEN list[e] ELSE list[j]
    <3>1. z = Place(list, p, e) BY <2>1
    <3>2. /\ Descending(z, 0, e)
          /\ \A j \in e + 1 .. Len(list) : z[j] = IF j = p THEN list[e] ELSE list[j]
      BY ONLY <2>5, <2>6, <3>1, PlaceOrders
    <3> QED BY <2>5, <3>2
  <2>8. z \in Seq(Entry) /\ Len(z) = n
    <3>1. z \in Seq(Entry) /\ Shuffled(list, z) BY <2>1, <2>5, PlaceShuffles
    <3> QED BY <2>5, <3>1 DEF Shuffled
  <2>9. ASSUME NEW j \in e + 1 .. p, j <= n PROVE z[j].value < limit
    <3>1. j \in e + 1 .. n BY <2>5, <2>9
    <3>2. CASE j = p
      <4>1. e \in y.sorted + 1 .. p - 1 /\ e <= n BY <1>0, <2>5, <3>2
      <4>2. list[e].value < limit BY <1>0, <2>1, <4>1
      <4> QED BY <2>7, <3>1, <3>2, <4>2
    <3>3. CASE j # p
      <4>1. j \in y.sorted + 1 .. p - 1 BY <1>0, <2>5, <3>3
      <4>2. list[j].value < limit BY <1>0, <2>1, <2>9, <4>1
      <4> QED BY <2>7, <3>1, <3>3, <4>2
    <3> QED BY <3>2, <3>3
  <2>10. SortedTo(w, p, limit, n) BY <2>4, <2>5, <2>7, <2>8, <2>9 DEF SortedTo
  <2> QED BY <2>3, <2>10
<1> QED BY <1>1, <1>2

LEMMA SortOrders ==
  ASSUME NEW list \in Seq(Entry), NEW limit \in Int
  PROVE  Sorted(PartialInsertionSort(list, limit), 0, Len(list), limit)
<1> DEFINE n == Steps(list)
           m == Len(list)
<1>0. m \in Nat /\ n \in Nat /\ (m = 0 => n = 0) /\ (m # 0 => m = n + 1)
  BY DEF Steps
<1>1. PICK r : /\ IsSortRun(r, n, SortBase(list), limit)
               /\ PartialInsertionSort(list, limit) = r[n].list
  BY <1>0, SortWalk
<1> HIDE DEF n, m
<1> DEFINE Z == {i \in 0 .. n : ~ SortedTo(r[i], i + 1, limit, m)}
<1>2. 0 \notin Z
  <2>1. r[0] = SortBase(list) BY <1>1 DEF IsSortRun
  <2>2. r[0].sorted = 1 /\ r[0].list = list BY <2>1 DEF SortBase
  <2>3. Descending(list, 0, 1) BY DEF Descending
  <2>4. \A j \in 1 + 1 .. 1 : FALSE OBVIOUS
  <2>5. 1 \in 1 .. 1 OBVIOUS
  <2>6. SortedTo(r[0], 1, limit, m) BY <2>2, <2>3, <2>4, <2>5 DEF SortedTo, m
  <2>7. PICK x : x = r[0] OBVIOUS
  <2>8. SortedTo(x, 0 + 1, limit, m)
    <3>1. 0 + 1 = 1 OBVIOUS
    <3> QED BY <2>6, <2>7, <3>1
  <2> QED BY <2>7, <2>8
<1>3. ASSUME NEW i \in 1 .. n, SortedTo(r[i - 1], (i - 1) + 1, limit, m)
      PROVE  SortedTo(r[i], i + 1, limit, m)
  <2>1. PICK p, y : p = i + 1 /\ y = r[i - 1] OBVIOUS
  <2>2. p \in 2 .. m /\ p - 1 = (i - 1) + 1 BY <1>0, <2>1
  <2>3. r[i] = SortStep(limit, y, p) BY <1>1, <2>1 DEF IsSortRun
  <2>4. SortedTo(y, p - 1, limit, m) BY <1>3, <2>1, <2>2
  <2>5. SortedTo(SortStep(limit, y, p), p, limit, m) BY <1>0, <2>2, <2>4, SortStepOrders
  <2> QED BY <2>1, <2>3, <2>5
<1>4. Z = {}
  <2> SUFFICES ASSUME Z # {} PROVE FALSE OBVIOUS
  <2>1. PICK i \in Z : \A j \in Z : i <= j
    <3>1. Z \subseteq Nat BY <1>0
    <3> HIDE DEF Z
    <3> QED BY <3>1, NatMin
  <2>2. i # 0 BY <1>2
  <2>3. i \in 1 .. n /\ i - 1 \in 0 .. n /\ ~ (i <= i - 1) BY <1>0, <2>2
  <2>4. SortedTo(r[i - 1], (i - 1) + 1, limit, m) BY <2>1, <2>3
  <2> QED BY <1>3, <2>3, <2>4
<1>5. n \in 0 .. n BY <1>0
<1>6. SortedTo(r[n], n + 1, limit, m) BY <1>4, <1>5
<1>7. PICK b, s : b = r[n].list /\ s = r[n].sorted OBVIOUS
<1>8. /\ b \in Seq(Entry) /\ Len(b) = m /\ s \in 1 .. n + 1 /\ Descending(b, 0, s)
      /\ \A j \in s + 1 .. n + 1 : j <= m => b[j].value < limit
  BY <1>6, <1>7 DEF SortedTo
<1>9. ASSUME NEW i \in 0 + 1 .. m, NEW j \in 0 + 1 .. m, i < j
      PROVE  b[j].value < limit \/ b[i].value >= b[j].value
  <2>0. m = n + 1 BY <1>0, <1>9
  <2>1. CASE j <= s
    <3>1. i \in 0 + 1 .. s /\ j \in 0 + 1 .. s BY <1>0, <1>8, <1>9, <2>1
    <3> QED BY <1>8, <1>9, <3>1 DEF Descending
  <2>2. CASE ~ (j <= s)
    <3>1. j \in s + 1 .. n + 1 /\ j <= m BY <1>0, <1>8, <2>0, <2>2
    <3> QED BY <1>8, <3>1
  <2> QED BY <2>1, <2>2
<1> QED BY <1>1, <1>7, <1>9 DEF Sorted, m


-----------------------------------------------------------------------------
(* The order: captures set aside.                                          *)

LEMMA SwapShuffles ==
  ASSUME NEW list \in Seq(Entry), NEW a \in 1 .. Len(list), NEW b \in 1 .. Len(list)
  PROVE  Shuffled(list, Swap(list, a, b))
<1>1. PICK z, n : z = Swap(list, a, b) /\ n = Len(list) OBVIOUS
<1>2. /\ z \in Seq(Entry) /\ Len(z) = n /\ n \in Nat /\ a \in 1 .. n /\ b \in 1 .. n
      /\ DOMAIN z = 1 .. n /\ DOMAIN list = 1 .. n
  BY <1>1, SwapAt
<1>3. \A j \in 1 .. n : z[j] = IF j = b THEN list[a] ELSE IF j = a THEN list[b] ELSE list[j]
  <2>1. Exchanged(list, z, a, b) BY <1>1, SwapAt
  <2> QED BY <1>1, <2>1 DEF Exchanged
<1>4. \A i \in 1 .. n : \E j \in 1 .. n : z[i] = list[j] BY <1>2, <1>3
<1>5. ASSUME NEW j \in 1 .. n PROVE \E i \in 1 .. n : z[i] = list[j]
  <2>1. CASE j = a BY <1>2, <1>3, <2>1
  <2>2. CASE j # a /\ j = b BY <1>2, <1>3, <2>2
  <2>3. CASE j # a /\ j # b BY <1>3, <2>3
  <2> QED BY <2>1, <2>2, <2>3
<1>6. DistinctMoves(list) => DistinctMoves(z) BY <1>2, <1>3 DEF DistinctMoves
<1> QED BY <1>1, <1>2, <1>4, <1>5, <1>6 DEF Shuffled

\* The first k places have been visited.
FrontTo(y, k) ==
  /\ y.list \in Seq(Entry) /\ Len(y.list) = Few /\ Shuffled(moves, y.list)
  /\ y.bad \in 0 .. k
  /\ \A j \in k + 1 .. Few : y.list[j] = moves[j]
  /\ \A j \in 1 .. y.bad : y.list[j].move \notin winning
  /\ Descending(y.list, 0, y.bad)
  /\ \A i \in 1 .. y.bad, j \in k + 1 .. Few : y.list[i].value >= moves[j].value

LEMMA VisitOrders ==
  ASSUME NEW k \in Nat, k < Few, Few \in Nat, moves \in Seq(Entry), Len(moves) = Few,
         \A j \in k + 2 .. Few : moves[k + 1].value >= moves[j].value,
         NEW y, FrontTo(y, k),
         NEW C, k + 1 \in C => moves[k + 1].move \notin winning
  PROVE  FrontTo(Visit(C, y, k + 1), k + 1)
<1>1. PICK i, l : i = k + 1 /\ l = y.list OBVIOUS
<1>2. /\ l \in Seq(Entry) /\ Len(l) = Few /\ Shuffled(moves, l) /\ y.bad \in 0 .. k
      /\ \A j \in i .. Few : l[j] = moves[j]
      /\ \A j \in 1 .. y.bad : l[j].move \notin winning
      /\ Descending(l, 0, y.bad)
      /\ \A n \in 1 .. y.bad, j \in i .. Few : l[n].value >= moves[j].value
  BY <1>1 DEF FrontTo
<1>3. i \in 1 .. Few /\ i \in Nat /\ i + 1 = k + 2 /\ i - 1 = k /\ i \in i .. Few
      /\ \A j \in i + 1 .. Few : j \in i .. Few
  BY <1>1
<1>4. CASE i \notin C
  <2>1. Visit(C, y, i) = y BY <1>4 DEF Visit
  <2>2. y.bad \in 0 .. i BY <1>2, <1>3
  <2>3. \A j \in i + 1 .. Few : l[j] = moves[j] BY <1>2, <1>3
  <2>4. \A n \in 1 .. y.bad, j \in i + 1 .. Few : l[n].value >= moves[j].value BY <1>2, <1>3
  <2>5. FrontTo(y, i) BY <1>1, <1>2, <2>2, <2>3, <2>4 DEF FrontTo
  <2> QED BY <1>1, <2>1, <2>5
<1>5. CASE i \in C
  <2>1. PICK a, z, w : a = y.bad + 1 /\ z = Swap(l, a, i) /\ w = Visit(C, y, i) OBVIOUS
  <2>2. w = [list |-> z, bad |-> a] BY <1>1, <1>5, <2>1 DEF Visit, Swap
  <2>3. w.list = z /\ w.bad = a BY <2>2
  <2>4. a \in 1 .. i /\ a \in 1 .. Few /\ a - 1 = y.bad /\ a \in Nat BY <1>2, <1>3, <2>1
  <2>5. z \in Seq(Entry) /\ Len(z) = Few /\ Shuffled(l, z)
        /\ \A j \in 1 .. Few : z[j] = IF j = i THEN l[a] ELSE IF j = a THEN l[i] ELSE l[j]
    <3>1. a \in 1 .. Len(l) /\ i \in 1 .. Len(l) BY <1>2, <1>3, <2>4
    <3>2. z \in Seq(Entry) /\ Len(z) = Len(l) /\ Exchanged(l, z, a, i)
      BY <1>2, <2>1, <3>1, SwapAt
    <3>3. Shuffled(l, z) BY <1>2, <2>1, <3>1, SwapShuffles
    <3> QED BY <1>2, <3>2, <3>3 DEF Exchanged
  <2>6. Shuffled(moves, z) BY <1>2, <2>5, ShuffledTwice
  <2>7. l[i] = moves[i] BY <1>2, <1>3
  <2>8. z[a] = moves[i] BY <2>4, <2>5, <2>7
  <2>9. \A j \in 1 .. a - 1 : z[j] = l[j] BY <2>4, <2>5
  <2>10. ASSUME NEW j \in i + 1 .. Few PROVE z[j] = moves[j]
    <3>1. j # i /\ j # a /\ j \in 1 .. Few BY <1>3, <2>4
    <3> QED BY <1>2, <1>3, <2>5, <3>1
  <2>11. ASSUME NEW j \in 1 .. a PROVE z[j].move \notin winning
    <3>1. CASE j = a BY <1>1, <1>5, <2>8, <3>1
    <3>2. CASE j # a
      <4>1. j \in 1 .. a - 1 BY <2>4, <3>2
      <4> QED BY <1>2, <2>4, <2>9, <4>1
    <3> QED BY <3>1, <3>2
  <2>12. ASSUME NEW m \in 0 + 1 .. a, NEW j \in 0 + 1 .. a, m < j
         PROVE  z[m].value >= z[j].value
    <3>1. m \in 1 .. a - 1 /\ m \in 1 .. y.bad /\ m \in 0 + 1 .. y.bad BY <2>4, <2>12
    <3>2. CASE j = a
      <4>1. l[m].value >= moves[i].value BY <1>2, <1>3, <3>1
      <4> QED BY <2>8, <2>9, <3>1, <3>2, <4>1
    <3>3. CASE j # a
      <4>1. j \in 1 .. a - 1 /\ j \in 0 + 1 .. y.bad BY <2>4, <3>3
      <4>2. l[m].value >= l[j].value BY <1>2, <2>12, <3>1, <4>1 DEF Descending
      <4> QED BY <2>9, <3>1, <4>1, <4>2
    <3> QED BY <3>2, <3>3
  <2>13. ASSUME NEW m \in 1 .. a, NEW j \in i + 1 .. Few PROVE z[m].value >= moves[j].value
    <3>1. CASE m = a
      <4>1. j \in k + 2 .. Few BY <1>3
      <4> QED BY <1>1, <2>8, <3>1, <4>1
    <3>2. CASE m # a
      <4>1. m \in 1 .. a - 1 /\ m \in 1 .. y.bad /\ j \in i .. Few BY <1>3, <2>4, <3>2
      <4> QED BY <1>2, <2>9, <4>1
    <3> QED BY <3>1, <3>2
  <2>14. a \in 0 .. i BY <2>4
  <2>15. Descending(z, 0, a) BY <2>12 DEF Descending
  <2>16. FrontTo(w, i) BY <2>3, <2>5, <2>6, <2>10, <2>11, <2>13, <2>14, <2>15 DEF FrontTo
  <2> QED BY <1>1, <2>1, <2>16
<1> QED BY <1>4, <1>5

\* The array and the pointers before a part of it is gone through.
Ahead(upto) ==
  /\ moves \in Seq(Entry) /\ Len(moves) = Few /\ Few \in Nat
  /\ cur \in 0 .. upto /\ upto \in 0 .. Few /\ endBadCaptures \in 0 .. cur
  /\ \A j \in 1 .. endBadCaptures : moves[j].move \notin winning
  /\ Descending(moves, 0, endBadCaptures)
  /\ Descending(moves, cur, Few)
  /\ \A i \in 1 .. endBadCaptures, j \in cur + 1 .. Few : moves[i].value >= moves[j].value

LEMMA SetAsideOrders ==
  ASSUME NEW upto, Ahead(upto) PROVE FrontTo(SetAside(upto), upto)
<1> DEFINE n == upto - cur
           C == Candidates(Loses)
<1>0. /\ Few \in Nat /\ upto \in Int /\ cur \in Int /\ cur <= upto /\ n \in Nat /\ cur >= 0
      /\ upto <= Few /\ moves \in Seq(Entry) /\ Len(moves) = Few /\ cur \in Nat
      /\ DOMAIN moves = 1 .. Few
  BY DEF Ahead
<1>1. PICK r : IsPassRun(r, n, PassBase, C, cur) /\ SetAside(upto) = r[n]
  BY <1>0, PassWalk
<1>2. \A j \in C : moves[j].move \notin winning BY DEF Candidates, Loses, Wins
<1> HIDE DEF C
<1> DEFINE Z == {i \in 0 .. n : ~ FrontTo(r[i], cur + i)}
<1>3. 0 \notin Z
  <2>1. r[0] = PassBase BY <1>1 DEF IsPassRun
  <2>2. PICK x : x = r[0] OBVIOUS
  <2>3. x.list = moves /\ x.bad = endBadCaptures BY <2>1, <2>2 DEF PassBase
  <2>4. Shuffled(moves, moves) BY DEF Shuffled
  <2>5. FrontTo(x, cur) BY <2>3, <2>4 DEF FrontTo, Ahead
  <2>6. cur + 0 = cur BY <1>0
  <2> QED BY <2>2, <2>5, <2>6
<1>4. ASSUME NEW i \in 1 .. n, FrontTo(r[i - 1], cur + (i - 1)) PROVE FrontTo(r[i], cur + i)
  <2>1. PICK k : k = cur + (i - 1) OBVIOUS
  <2>2. k \in Nat /\ k < Few /\ cur + i = k + 1 /\ k + 1 \in cur + 1 .. Few
        /\ \A j \in k + 2 .. Few : j \in cur + 1 .. Few /\ k + 1 < j
    BY <1>0, <2>1
  <2>3. \A j \in k + 2 .. Few : moves[k + 1].value >= moves[j].value
    BY <2>2 DEF Ahead, Descending
  <2>4. r[i] = Visit(C, r[i - 1], k + 1) BY <1>1, <2>2 DEF IsPassRun
  <2>5. FrontTo(r[i - 1], k) BY <1>4, <2>1
  <2>6. k + 1 \in C => moves[k + 1].move \notin winning BY <1>2
  <2>7. FrontTo(Visit(C, r[i - 1], k + 1), k + 1)
    BY <1>0, <2>2, <2>3, <2>5, <2>6, VisitOrders
  <2> QED BY <2>2, <2>4, <2>7
<1>5. Z = {}
  <2> SUFFICES ASSUME Z # {} PROVE FALSE OBVIOUS
  <2>1. PICK i \in Z : \A j \in Z : i <= j
    <3>1. Z \subseteq Nat BY <1>0
    <3> HIDE DEF Z
    <3> QED BY <3>1, NatMin
  <2>2. i # 0 BY <1>3
  <2>3. i \in 1 .. n /\ i - 1 \in 0 .. n /\ ~ (i <= i - 1) BY <1>0, <2>2
  <2>4. FrontTo(r[i - 1], cur + (i - 1)) BY <2>1, <2>3
  <2> QED BY <1>4, <2>3, <2>4
<1>6. n \in 0 .. n /\ cur + n = upto BY <1>0
<1>7. FrontTo(r[n], cur + n) BY <1>5, <1>6
<1> QED BY <1>1, <1>6, <1>7


-----------------------------------------------------------------------------
(* The order: what was emitted and what may still be.                      *)

ValueIn(list, m) == (CHOOSE e \in ToSet(list) : e.move = m).value

Has(list, e) == \E j \in 1 .. Len(list) : list[j] = e

LEMMA ValueAt ==
  ASSUME NEW list \in Seq(Entry), DistinctMoves(list), NEW i \in 1 .. Len(list)
  PROVE  ValueIn(list, list[i].move) = list[i].value
<1>1. DOMAIN list = 1 .. Len(list) OBVIOUS
<1>2. PICK m, v, x : m = list[i].move /\ v = list[i].value /\ x = list[i] OBVIOUS
<1>3. x \in ToSet(list) /\ x.move = m BY <1>1, <1>2 DEF ToSet
<1>4. ASSUME NEW e \in ToSet(list), e.move = m PROVE e = x
  <2>1. PICK j \in 1 .. Len(list) : e = list[j] BY <1>1 DEF ToSet
  <2>2. j = i BY <1>1, <1>2, <1>4, <2>1 DEF DistinctMoves
  <2> QED BY <1>2, <2>1, <2>2
<1>5. (CHOOSE e \in ToSet(list) : e.move = m) = x BY <1>3, <1>4
<1> QED BY <1>2, <1>5 DEF ValueIn

\* A move that is still in the list has the value it had.
LEMMA ValueKept ==
  ASSUME NEW a \in Seq(Entry), NEW b \in Seq(Entry), DistinctMoves(a), DistinctMoves(b),
         \A i \in 1 .. Len(a) : Has(b, a[i]),
         NEW m \in MovesFrom(a, 0, Len(a))
  PROVE  ValueIn(b, m) = ValueIn(a, m)
<1>1. PICK i \in 0 + 1 .. Len(a) : m = a[i].move BY DEF MovesFrom
<1>2. i \in 1 .. Len(a) OBVIOUS
<1>3. PICK j \in 1 .. Len(b) : b[j] = a[i] BY <1>2 DEF Has
<1>4. ValueIn(a, m) = a[i].value BY <1>1, <1>2, ValueAt
<1>5. ValueIn(b, b[j].move) = b[j].value BY <1>3, ValueAt
<1> QED BY <1>1, <1>3, <1>4, <1>5

\* What the order depends on.
SameKind ==
  ttMove' = ttMove /\ winning' = winning /\ depth' = depth /\ (InMain' <=> InMain)

ClassIn(table, win, main, list, m) ==
  IF m = table THEN 0
  ELSE IF m \in ToSet(Captures) THEN IF main /\ m \notin win THEN 3 ELSE 1
  ELSE IF main /\ ValueIn(list, m) <= GoodQuietThreshold THEN 4 ELSE 2

BeforeIn(table, win, main, d, list, m, k) ==
  \/ ClassIn(table, win, main, list, m) < ClassIn(table, win, main, list, k)
  \/ /\ ClassIn(table, win, main, list, m) = ClassIn(table, win, main, list, k)
     /\ \/ ValueIn(list, k) < (IF main /\ k \in ToSet(Quiets) THEN -3560 * d ELSE Lowest)
        \/ ValueIn(list, m) >= ValueIn(list, k)

\* The order after a step, of moves chosen before it.
BeforeNext(m, k) == BeforeIn(ttMove', winning', InMain', depth', moves', m, k)

LEMMA NextBestFirst ==
  ASSUME \A i, j \in DOMAIN emitted' : i < j => BeforeNext(emitted'[i], emitted'[j])
  PROVE  BestFirst'
BY DEF BestFirst, Before, Class, SortedFrom, ValueOf, BeforeNext, BeforeIn, ClassIn, ValueIn

LEMMA NextWaitingLast ==
  ASSUME \A n \in DOMAIN emitted' : \A k \in Waiting' : BeforeNext(emitted'[n], k)
  PROVE  WaitingLast'
BY DEF WaitingLast, Before, Class, SortedFrom, ValueOf, BeforeNext, BeforeIn, ClassIn, ValueIn

ValuesStay == \A m \in Moves : ValueIn(moves', m) = ValueIn(moves, m)

Generated == stage \notin TTStages \cup InitStages

LEMMA Classes ==
  ASSUME NEW m
  PROVE  Class(m) \in 0 .. 4 /\ (Class(m) = 0 <=> m = ttMove)
BY DEF Class

LEMMA BeforeStays ==
  ASSUME SameKind, NEW m, NEW k, k # ttMove, ValueIn(moves', k) = ValueIn(moves, k),
         m = ttMove \/ ValueIn(moves', m) = ValueIn(moves, m), Before(m, k)
  PROVE  BeforeNext(m, k)
<1> DEFINE C(x) == ClassIn(ttMove, winning, InMain, moves, x)
           D(x) == ClassIn(ttMove', winning', InMain', moves', x)
<1>0. BeforeIn(ttMove, winning, InMain, depth, moves, m, k)
  BY DEF Before, Class, SortedFrom, ValueOf, BeforeIn, ClassIn, ValueIn
<1>1. D(k) = C(k) BY DEF SameKind, ClassIn
<1>2. C(k) \in 1 .. 4 BY DEF ClassIn
<1>3. CASE m = ttMove
  <2>1. D(m) = 0 BY <1>3 DEF SameKind, ClassIn
  <2>2. D(m) < D(k) BY <1>1, <1>2, <2>1
  <2> QED BY <2>2 DEF BeforeNext, BeforeIn
<1>4. CASE ValueIn(moves', m) = ValueIn(moves, m)
  <2>1. D(m) = C(m) BY <1>4 DEF SameKind, ClassIn
  <2> HIDE DEF C, D
  <2>2. \/ C(m) < C(k)
        \/ /\ C(m) = C(k)
           /\ \/ ValueIn(moves, k) < (IF InMain /\ k \in ToSet(Quiets) THEN -3560 * depth ELSE Lowest)
              \/ ValueIn(moves, m) >= ValueIn(moves, k)
    BY <1>0 DEF BeforeIn, C
  <2>3. \/ D(m) < D(k)
        \/ /\ D(m) = D(k)
           /\ \/ ValueIn(moves', k) < (IF InMain' /\ k \in ToSet(Quiets) THEN -3560 * depth' ELSE Lowest)
              \/ ValueIn(moves', m) >= ValueIn(moves', k)
    BY <1>1, <1>4, <2>1, <2>2 DEF SameKind
  <2> QED BY <2>3 DEF BeforeNext, BeforeIn, D
<1> QED BY <1>3, <1>4

\* Every stage but the last of a picker has its captures or quiets in the array.
LEMMA EmittedAt ==
  ASSUME Inv, OrderInv, Generated, NEW n \in DOMAIN emitted
  PROVE  emitted[n] \in Moves \/ emitted[n] = ttMove
<1>1. emitted[n] \in ToSet(emitted) BY DEF ToSet
<1> QED BY <1>1 DEF OrderInv, EmittedFromArray, Generated

\* Only the first move can be that of the table.
LEMMA TableMoveOnlyFirst ==
  ASSUME Inv, BestFirst, NEW i \in DOMAIN emitted, NEW j \in DOMAIN emitted, i < j
  PROVE  emitted[j] # ttMove
<1> SUFFICES ASSUME emitted[j] = ttMove PROVE FALSE OBVIOUS
<1>1. PICK m, k : m = emitted[i] /\ k = emitted[j] OBVIOUS
<1>2. Before(m, k) BY <1>1 DEF BestFirst
<1>3. Class(k) = 0 /\ Class(m) \in 0 .. 4 /\ (Class(m) = 0 <=> m = ttMove) BY <1>1, Classes
<1>4. m = ttMove BY <1>2, <1>3 DEF Before
<1>5. i = j BY <1>1, <1>4 DEF Inv, IsInjective
<1>6. i \in Nat /\ j \in Nat BY DEF Inv, TypeOK
<1> QED BY <1>5, <1>6

LEMMA BestStays ==
  ASSUME Inv, OrderInv, Generated, SameKind, ValuesStay, emitted' = emitted
  PROVE  BestFirst'
<1>1. BestFirst BY DEF OrderInv
<1> SUFFICES ASSUME NEW i \in DOMAIN emitted, NEW j \in DOMAIN emitted, i < j
             PROVE  BeforeNext(emitted'[i], emitted'[j])
  BY NextBestFirst
<1>2. PICK m, k : m = emitted[i] /\ k = emitted[j] OBVIOUS
<1>3. Before(m, k) /\ k # ttMove BY <1>1, <1>2, TableMoveOnlyFirst DEF BestFirst
<1>4. (m \in Moves \/ m = ttMove) /\ k \in Moves BY <1>2, <1>3, EmittedAt
<1>5. BeforeNext(m, k) BY <1>3, <1>4, BeforeStays DEF ValuesStay
<1>6. emitted'[i] = m /\ emitted'[j] = k BY <1>2
<1> QED BY <1>5, <1>6

LEMMA WaitingStays ==
  ASSUME Inv, OrderInv, Generated, SameKind, ValuesStay, emitted' = emitted,
         \A k : k \in Waiting' => k \in Waiting
  PROVE  WaitingLast'
<1> SUFFICES ASSUME NEW n \in DOMAIN emitted, NEW k, k \in Waiting'
             PROVE  BeforeNext(emitted'[n], k)
  BY NextWaitingLast
<1>1. PICK m : m = emitted[n] OBVIOUS
<1>2. k \in Waiting /\ k \in Moves /\ k # ttMove BY DEF Waiting
<1>3. Before(m, k) BY <1>1, <1>2 DEF OrderInv, WaitingLast, Generated
<1>4. m \in Moves \/ m = ttMove BY <1>1, EmittedAt
<1>5. BeforeNext(m, k) BY <1>2, <1>3, <1>4, BeforeStays DEF ValuesStay
<1>6. emitted'[n] = m BY <1>1
<1> QED BY <1>5, <1>6

\* t is s and one element more.
Extends(t, s, m) ==
  \A n \in DOMAIN t :
    \/ n \in DOMAIN s /\ t[n] = s[n]
    \/ t[n] = m /\ \A i \in DOMAIN t : ~ (n < i)

LEMMA Appended ==
  ASSUME NEW S, NEW s \in Seq(S), NEW m, NEW t, t = Append(s, m), IsInjective(t)
  PROVE  m \notin ToSet(s) /\ ToSet(t) = ToSet(s) \cup {m} /\ Extends(t, s, m)
<1>1. PICK n : n = Len(s) OBVIOUS
<1>2. /\ n \in Nat /\ DOMAIN s = 1 .. n /\ DOMAIN t = 1 .. n + 1 /\ t[n + 1] = m
      /\ \A i \in 1 .. n : t[i] = s[i]
  <2>1. t = Append(s, m) /\ s \in Seq(S) /\ n = Len(s) BY <1>1
  <2> QED BY ONLY <2>1
<1>3. ASSUME NEW i \in 1 .. n PROVE s[i] # m
  <2>1. i \in DOMAIN t /\ n + 1 \in DOMAIN t /\ i # n + 1 BY <1>2
  <2>2. t[i] # t[n + 1] BY <2>1 DEF IsInjective
  <2> QED BY <1>2, <2>2
<1>4. m \notin ToSet(s) BY <1>2, <1>3 DEF ToSet
<1>5. ASSUME NEW x PROVE x \in ToSet(t) <=> x \in ToSet(s) \cup {m}
  <2>1. \A i : i \in 1 .. n + 1 <=> i \in 1 .. n \/ i = n + 1 BY <1>2
  <2>2. x \in ToSet(t) <=> \E i \in 1 .. n + 1 : t[i] = x BY <1>2 DEF ToSet
  <2>3. x \in ToSet(s) <=> \E i \in 1 .. n : s[i] = x BY <1>2 DEF ToSet
  <2> QED BY <1>2, <2>1, <2>2, <2>3
<1>6. Extends(t, s, m)
  <2> SUFFICES ASSUME NEW i \in 1 .. n + 1
               PROVE  (i \in 1 .. n /\ t[i] = s[i]) \/ (t[i] = m /\ \A j \in 1 .. n + 1 : ~ (i < j))
    BY <1>2 DEF Extends
  <2>1. i \in 1 .. n \/ (i = n + 1 /\ \A j \in 1 .. n + 1 : ~ (i < j)) BY <1>2
  <2> QED BY <1>2, <2>1
<1>7. ToSet(t) = ToSet(s) \cup {m} BY <1>5
<1> QED BY <1>4, <1>6, <1>7

\* The best of those waiting is emitted.
LEMMA EmitBest ==
  ASSUME Inv, Inv', OrderInv, Generated, SameKind, ValuesStay, stage' = stage, Moves' = Moves,
         NEW m \in Moves, m # ttMove, stage = "PROBCUT" => m \in winning,
         m \in ToSet(Quiets) => ~skipQuiets, Emit(m),
         \A k \in Waiting : k # m => Before(m, k)
  PROVE  EmittedFromArray' /\ WaitingLast' /\ BestFirst'
<1>1. PICK s, t : s = emitted /\ t = emitted' OBVIOUS
<1>2. s \in Seq(GeneratedMoves) /\ t = Append(s, m) /\ IsInjective(t)
  BY <1>1 DEF Inv, TypeOK, Emit, IsInjective
<1>3. m \notin ToSet(s) /\ ToSet(t) = ToSet(s) \cup {m} /\ Extends(t, s, m)
  BY <1>2, Appended
<1>4. ToSet(emitted)' = ToSet(t) /\ ToSet(emitted) = ToSet(s) BY <1>1 DEF ToSet
<1>5. EmittedFromArray'
  BY <1>3, <1>4 DEF OrderInv, EmittedFromArray, SameKind, Generated
<1>6. m \in Waiting BY <1>3, <1>4 DEF Waiting
<1>7. \A n \in DOMAIN t : (n \in DOMAIN s /\ t[n] = s[n]) \/ t[n] = m BY <1>3 DEF Extends
<1>8. WaitingLast'
  <2> SUFFICES ASSUME NEW n \in DOMAIN t, NEW k, k \in Waiting' PROVE BeforeNext(t[n], k)
    BY <1>1, NextWaitingLast
  <2>1. k \in Waiting /\ k # m /\ k \in Moves /\ k # ttMove
    BY <1>3, <1>4 DEF Waiting, SameKind, Emit, Inv, TypeOK
  <2>2. CASE t[n] = m
    <3>1. Before(m, k) BY <2>1
    <3>2. BeforeNext(m, k) BY <2>1, <3>1, BeforeStays DEF ValuesStay
    <3> QED BY <2>2, <3>2
  <2>3. CASE n \in DOMAIN s /\ t[n] = s[n]
    <3>1. PICK e : e = s[n] OBVIOUS
    <3>2. Before(e, k) BY <1>1, <2>1, <2>3, <3>1 DEF OrderInv, WaitingLast, Generated
    <3>3. e \in Moves \/ e = ttMove BY <1>1, <2>3, <3>1, EmittedAt
    <3>4. BeforeNext(e, k) BY <2>1, <3>2, <3>3, BeforeStays DEF ValuesStay
    <3> QED BY <2>3, <3>1, <3>4
  <2> QED BY <1>7, <2>2, <2>3
<1>9. BestFirst'
  <2> SUFFICES ASSUME NEW i \in DOMAIN t, NEW j \in DOMAIN t, i < j PROVE BeforeNext(t[i], t[j])
    BY <1>1, NextBestFirst
  <2>1. PICK e, k : e = t[i] /\ k = t[j] OBVIOUS
  <2>2. i \in DOMAIN s /\ e = s[i] /\ ((j \in DOMAIN s /\ k = s[j]) \/ k = m)
    BY <1>3, <2>1 DEF Extends
  <2>3. e \in Moves \/ e = ttMove BY <1>1, <2>2, EmittedAt
  <2>4. CASE k = m
    <3>1. Before(e, m) BY <1>1, <1>6, <2>2 DEF OrderInv, WaitingLast, Generated
    <3>2. BeforeNext(e, m) BY <2>3, <3>1, BeforeStays DEF ValuesStay
    <3> QED BY <2>1, <2>4, <3>2
  <2>5. CASE j \in DOMAIN s /\ k = s[j]
    <3>1. Before(e, k) /\ k # ttMove
      BY <1>1, <2>2, <2>5, TableMoveOnlyFirst DEF OrderInv, BestFirst
    <3>2. k \in Moves BY <1>1, <2>5, <3>1, EmittedAt
    <3>3. BeforeNext(e, k) BY <2>3, <3>1, <3>2, BeforeStays DEF ValuesStay
    <3> QED BY <2>1, <3>3
  <2> QED BY <2>2, <2>4, <2>5
<1> QED BY <1>5, <1>8, <1>9


-----------------------------------------------------------------------------
(* The order: the stages.                                                  *)

\* Nothing but the move of the table has been emitted.
LEMMA FreshOrder ==
  ASSUME Inv', ToSet(emitted') \subseteq {ttMove'}
  PROVE  EmittedFromArray' /\ WaitingLast' /\ BestFirst'
<1>1. \A n \in DOMAIN emitted' : emitted'[n] = ttMove' BY DEF ToSet
<1>2. EmittedFromArray' BY DEF EmittedFromArray, ToSet
<1>3. WaitingLast'
  <2> SUFFICES ASSUME NEW n \in DOMAIN emitted', NEW k, k \in Waiting'
               PROVE  BeforeNext(emitted'[n], k)
    BY NextWaitingLast
  <2>1. PICK m : m = emitted'[n] OBVIOUS
  <2>2. m = ttMove' /\ k # ttMove' BY <1>1, <2>1 DEF Waiting
  <2>3. /\ ClassIn(ttMove', winning', InMain', moves', m) = 0
        /\ ClassIn(ttMove', winning', InMain', moves', k) \in 1 .. 4
    BY <2>2 DEF ClassIn
  <2>4. ClassIn(ttMove', winning', InMain', moves', m)
          < ClassIn(ttMove', winning', InMain', moves', k)
    BY <2>3
  <2>5. BeforeNext(m, k) BY <2>4 DEF BeforeNext, BeforeIn
  <2> QED BY <2>1, <2>5
<1>4. BestFirst'
  <2> SUFFICES ASSUME NEW i \in DOMAIN emitted', NEW j \in DOMAIN emitted', i < j
               PROVE  FALSE
    BY NextBestFirst
  <2>1. emitted'[i] = emitted'[j] BY <1>1
  <2>2. i = j BY <2>1 DEF Inv, IsInjective
  <2>3. i \in Nat BY DEF Inv, TypeOK
  <2> QED BY <2>2, <2>3
<1> QED BY <1>2, <1>3, <1>4

LEMMA InitOrder == ASSUME Init PROVE OrderInv
<1>1. stage \in TTStages \cup InitStages
  BY DEF Init, FirstStage, After
<1>2. EmittedFromArray /\ WaitingLast BY <1>1 DEF EmittedFromArray, WaitingLast
<1>3. ArrayOrdered BY <1>1 DEF ArrayOrdered
<1>4. DOMAIN emitted = {} BY DEF Init
<1>5. BestFirst BY <1>4 DEF BestFirst
<1> QED BY <1>2, <1>3, <1>5 DEF OrderInv

LEMMA EmitTTOrder == ASSUME Inv, Inv', OrderInv, EmitTT PROVE OrderInv'
<1>1. stage \in TTStages /\ stage' = After(stage) /\ Emit(ttMove) /\ ttMove' = ttMove
  BY DEF EmitTT, given
<1>2. stage' \in InitStages BY <1>1 DEF After
<1>3. ToSet(emitted)' \subseteq {ttMove'} BY <1>2 DEF Inv, TableMoveFirst
<1>4. ToSet(emitted') \subseteq {ttMove'} BY <1>3 DEF ToSet
<1>5. EmittedFromArray' /\ WaitingLast' /\ BestFirst' BY <1>4, FreshOrder
<1>6. ArrayOrdered' BY <1>2 DEF ArrayOrdered
<1> QED BY <1>5, <1>6 DEF OrderInv

LEMMA ScoreValues ==
  ASSUME NEW T, NEW l \in Seq(T), NEW values, NEW list \in Score(l, values),
         NEW i \in 1 .. Len(l)
  PROVE  list[i].value \in values
<1>1. PICK v \in [DOMAIN l -> values] : list = [n \in DOMAIN l |-> [move |-> l[n], value |-> v[n]]]
  BY DEF Score
<1>2. i \in DOMAIN l OBVIOUS
<1>3. list[i] = [move |-> l[i], value |-> v[i]] BY <1>1, <1>2
<1>4. v[i] \in values BY <1>2
<1> QED BY <1>3, <1>4

LEMMA AllInOrder ==
  ASSUME NEW list \in Seq(Entry), \A i \in 1 .. Len(list) : Lowest <= list[i].value
  PROVE  Descending(PartialInsertionSort(list, Lowest), 0, Len(list))
<1>1. PICK b, n : b = PartialInsertionSort(list, Lowest) /\ n = Len(list) OBVIOUS
<1>2. Lowest \in Int BY DEF Lowest
<1>3. b \in Seq(Entry) /\ Shuffled(list, b) /\ Sorted(b, 0, n, Lowest)
  BY <1>1, <1>2, SortShuffles, SortOrders
<1>4. ASSUME NEW j \in 0 + 1 .. n PROVE ~ (b[j].value < Lowest)
  <2>1. j \in 1 .. Len(list) BY <1>1
  <2>2. PICK i \in 1 .. Len(list) : b[j] = list[i] BY <1>3, <2>1 DEF Shuffled
  <2>3. list[i] \in Entry /\ Lowest <= list[i].value OBVIOUS
  <2>4. list[i].value \in Int BY <2>3 DEF Entry
  <2> QED BY <1>2, <2>2, <2>3, <2>4
<1> QED BY <1>1, <1>3, <1>4 DEF Sorted, Descending

LEMMA InitCapturesOrder == ASSUME Inv, Inv', OrderInv, InitCaptures PROVE OrderInv'
<1>1. /\ stage \in {"CAPTURE_INIT", "PROBCUT_INIT", "QCAPTURE_INIT"} /\ stage' = After(stage)
      /\ cur' = 0 /\ endBadCaptures' = 0
      /\ UNCHANGED <<emitted, ttMove, winning>>
  BY DEF InitCaptures, Keep, given
<1>2. \/ stage' = "GOOD_CAPTURE" \/ stage' = "PROBCUT" \/ stage' = "QCAPTURE" BY <1>1 DEF After
<1>3. PICK scored \in Score(Captures, CaptureValues) :
        moves' = PartialInsertionSort(scored, Lowest)
  BY DEF InitCaptures
<1>4. Descending(moves', 0, Few) /\ Len(moves') = Few
  <2>1. PICK T : T = ToSet(Captures) OBVIOUS
  <2>2. Captures \in Seq(T) /\ T \subseteq GeneratedMoves /\ CaptureValues \subseteq Int
    BY <2>1, MovesAssumption, Sizes
  <2>3. scored \in Seq(Entry) /\ Len(scored) = Few BY <2>2, ScoreIs DEF Few
  <2>4. \A i \in 1 .. Len(scored) : Lowest <= scored[i].value
    <3> TAKE i \in 1 .. Len(scored)
    <3>1. i \in 1 .. Len(Captures) BY <2>3 DEF Few
    <3>2. scored[i].value \in CaptureValues BY <2>2, <3>1, ScoreValues
    <3> QED BY <3>2, MovesAssumption
  <2>5. Descending(moves', 0, Few) BY <1>3, <2>3, <2>4, AllInOrder
  <2> QED BY <1>3, <2>5, CapturesScored
<1>5. ToSet(emitted) \subseteq {ttMove} BY <1>1 DEF Inv, TableMoveFirst
<1>6. ToSet(emitted') \subseteq {ttMove'} BY <1>1, <1>5
<1>7. EmittedFromArray' /\ WaitingLast' /\ BestFirst' BY <1>6, FreshOrder
<1>8. \A i \in 1 .. 0 : FALSE OBVIOUS
<1>9. Descending(moves', 0, 0) BY DEF Descending
<1>10. ArrayOrdered' 
  BY <1>1, <1>2, <1>4, <1>6, <1>8, <1>9 DEF ArrayOrdered, Descending, Few, ToSet
<1> QED BY <1>7, <1>10 DEF OrderInv

LEMMA InitEvasionsOrder == ASSUME Inv, Inv', OrderInv, InitEvasions PROVE OrderInv'
<1>1. /\ stage = "EVASION_INIT" /\ stage' = "EVASION" /\ UNCHANGED <<emitted, ttMove, winning>>
  BY DEF InitEvasions, Keep, given, After
<1>2. PICK list \in EvasionScores : moves' = PartialInsertionSort(list, Lowest)
  BY DEF InitEvasions
<1>3. PICK c \in Score(Captures, CaptureValues), q \in Score(Quiets, QuietValues) :
        list = CapturesFirst(c, q)
  BY DEF EvasionScores
<1>4. /\ Captures \in Seq(GeneratedMoves) /\ Quiets \in Seq(GeneratedMoves)
      /\ CaptureValues \subseteq Int /\ QuietValues \subseteq Int
      /\ DOMAIN Captures = 1 .. Len(Captures) /\ DOMAIN Quiets = 1 .. Len(Quiets)
  <2>1. Captures \in Seq(ToSet(Captures)) /\ Quiets \in Seq(ToSet(Quiets)) BY MovesAssumption
  <2>2. ToSet(Captures) \subseteq GeneratedMoves /\ ToSet(Quiets) \subseteq GeneratedMoves BY Sizes
  <2>3. Captures \in Seq(GeneratedMoves) BY <2>1, <2>2
  <2>4. Quiets \in Seq(GeneratedMoves) BY <2>1, <2>2
  <2> QED BY <2>3, <2>4, MovesAssumption
<1>5. /\ c \in Seq(Entry) /\ Len(c) = Few /\ q \in Seq(Entry) /\ Len(q) = Len(Quiets)
      /\ \A i \in 1 .. Few : c[i].move \in ToSet(Captures) /\ c[i].value \in CaptureValues
      /\ \A i \in 1 .. Len(Quiets) : q[i].move \in ToSet(Quiets) /\ q[i].value \in QuietValues
  <2>1. /\ c \in Seq(Entry) /\ Len(c) = Len(Captures)
        /\ \A i \in 1 .. Len(Captures) : c[i].move = Captures[i]
    BY <1>4, ScoreIs
  <2>2. /\ q \in Seq(Entry) /\ Len(q) = Len(Quiets)
        /\ \A i \in 1 .. Len(Quiets) : q[i].move = Quiets[i]
    BY <1>4, ScoreIs
  <2>3. \A i \in 1 .. Len(Captures) : c[i].value \in CaptureValues BY <1>4, ScoreValues
  <2>4. \A i \in 1 .. Len(Quiets) : q[i].value \in QuietValues BY <1>4, ScoreValues
  <2> QED BY <1>4, <2>1, <2>2, <2>3, <2>4 DEF Few, ToSet
<1>6. PICK d : d = [i \in DOMAIN c |-> [c[i] EXCEPT !.value = @ + PastHistories]] OBVIOUS
<1>7. Few \in Nat /\ All = Few + Len(Quiets) /\ Len(Quiets) \in Nat /\ All \in Nat BY Sizes
<1>8. ASSUME NEW i \in 1 .. Few
      PROVE  /\ d[i] \in Entry /\ d[i].move \in ToSet(Captures)
             /\ Lowest <= d[i].value /\ \A v \in QuietValues : v < d[i].value
  <2>1. PICK e, k : e = c[i] /\ k = PastHistories OBVIOUS
  <2>2. d[i] = [e EXCEPT !.value = @ + k] BY <1>5, <1>6, <2>1
  <2>3. e \in Entry /\ e.move \in ToSet(Captures) /\ e.value \in CaptureValues BY <1>5, <2>1
  <2>4. k \in Int /\ k >= 0 /\ Lowest \in Int BY <2>1 DEF PastHistories, Lowest
  <2>5. Lowest <= e.value /\ \A v \in QuietValues : v < e.value + k
    BY <2>1, <2>3, MovesAssumption
  <2>6. e.value \in Int BY <1>4, <2>3
  <2>7. d[i] \in Entry /\ d[i].move = e.move /\ d[i].value = e.value + k
    BY ONLY <2>2, <2>3, <2>4 DEF Entry
  <2>8. Lowest <= e.value + k BY <2>4, <2>5, <2>6
  <2> QED BY <2>3, <2>5, <2>7, <2>8
<1>9. d \in Seq(Entry) /\ Len(d) = Few
  <2>1. DOMAIN d = 1 .. Few BY <1>5, <1>6
  <2>2. d \in [1 .. Few -> Entry] BY <1>5, <1>6, <1>8, <2>1
  <2> QED BY <1>7, <2>2
<1>10. /\ list \in Seq(Entry) /\ Len(list) = All
       /\ \A i \in 1 .. Few : list[i] = d[i]
       /\ \A i \in Few + 1 .. All : list[i] = q[i - Few] /\ i - Few \in 1 .. Len(Quiets)
  <2>1. list = d \o q BY <1>3, <1>6 DEF CapturesFirst
  <2>0. d \in Seq(Entry) /\ q \in Seq(Entry) BY <1>5, <1>9
  <2>2. Len(list) = Len(d) + Len(q) /\ list \in Seq(Entry) BY ONLY <2>0, <2>1
  <2>3. \A i \in 1 .. Len(d) + Len(q) : list[i] = IF i <= Len(d) THEN d[i] ELSE q[i - Len(d)]
    BY <1>5, <1>9, <2>1
  <2> QED BY <1>5, <1>7, <1>9, <2>2, <2>3
<1>11. ASSUME NEW i \in 1 .. All
       PROVE  /\ Lowest <= list[i].value
              /\ (list[i].move \in ToSet(Captures) => \A v \in QuietValues : v < list[i].value)
              /\ (list[i].move \in ToSet(Quiets) => list[i].value \in QuietValues)
  <2>1. CASE i \in 1 .. Few
    <3>1. list[i].move \notin ToSet(Quiets) BY <1>8, <1>10, <2>1, MovesAssumption
    <3> QED BY <1>8, <1>10, <2>1, <3>1
  <2>2. CASE i \in Few + 1 .. All
    <3>1. list[i].move \in ToSet(Quiets) /\ list[i].value \in QuietValues BY <1>5, <1>10, <2>2
    <3>2. list[i].move \notin ToSet(Captures) BY <3>1, MovesAssumption
    <3>3. Lowest <= list[i].value BY <3>1, MovesAssumption
    <3> QED BY <3>1, <3>2, <3>3
  <2> QED BY <1>7, <2>1, <2>2
<1>12. PICK b : b = moves' OBVIOUS
<1>13. b \in Seq(Entry) /\ Len(b) = All /\ DOMAIN b = 1 .. All /\ Shuffled(list, b)
  <2>1. b \in Seq(Entry) /\ Shuffled(list, b) BY <1>2, <1>10, <1>12, SortShuffles
  <2>2. Len(b) = Len(list) BY <2>1 DEF Shuffled
  <2> QED BY <1>7, <1>10, <2>1, <2>2
<1>14. Descending(b, 0, All) BY <1>2, <1>10, <1>11, <1>12, AllInOrder
<1>15. ASSUME NEW i \in 1 .. All, NEW j \in 1 .. All,
              b[i].move \in ToSet(Captures), b[j].move \in ToSet(Quiets)
       PROVE  b[i].value > b[j].value
  <2>1. PICK k \in 1 .. All : b[i] = list[k] BY <1>10, <1>13 DEF Shuffled
  <2>2. PICK l \in 1 .. All : b[j] = list[l] BY <1>10, <1>13 DEF Shuffled
  <2>3. list[l].value \in QuietValues BY <1>11, <1>15, <2>2
  <2>4. list[l].value < list[k].value BY <1>11, <1>15, <2>1, <2>3
  <2>5. list[k] \in Entry /\ list[l] \in Entry BY <1>10
  <2>6. list[k].value \in Int /\ list[l].value \in Int BY <2>5 DEF Entry
  <2> QED BY <2>1, <2>2, <2>4, <2>6
<1>16. ToSet(emitted') \subseteq {ttMove'} BY <1>1 DEF Inv, TableMoveFirst
<1>17. EmittedFromArray' /\ WaitingLast' /\ BestFirst' BY <1>16, FreshOrder
<1>18. ArrayOrdered' BY <1>1, <1>12, <1>13, <1>14, <1>15 DEF ArrayOrdered, Descending
<1> QED BY <1>17, <1>18 DEF OrderInv


\* A move of the array that is no better placed than one of its class.
LEMMA PlaceBefore ==
  ASSUME moves \in Seq(Entry), DistinctMoves(moves),
         NEW i \in 1 .. Len(moves), NEW j \in 1 .. Len(moves),
         Class(moves[i].move) = Class(moves[j].move),
         \/ moves[j].value < SortedFrom(moves[j].move)
         \/ moves[i].value >= moves[j].value
  PROVE  Before(moves[i].move, moves[j].move)
<1>1. PICK m, k : m = moves[i].move /\ k = moves[j].move OBVIOUS
<1>2. ValueOf(m) = moves[i].value /\ ValueOf(k) = moves[j].value
  BY <1>1, ValueAt DEF ValueOf, ValueIn
<1>3. Before(m, k) BY <1>1, <1>2 DEF Before
<1> QED BY <1>1, <1>3

\* After a pass the array is in order again.
LEMMA PassOrder ==
  ASSUME Inv, Inv', OrderInv, stage = "GOOD_CAPTURE", NEW upto \in cur .. Few, Pass(upto),
         \/ stage' = "GOOD_CAPTURE"
         \/ stage' = "QUIET_INIT",
         ToSet(emitted)' \subseteq winning \cup {ttMove}
  PROVE  SameKind /\ ValuesStay /\ Moves' = Moves /\ ArrayOrdered'
<1>1. /\ CapturesIn(moves) /\ cur \in 0 .. Few /\ endCur = Few /\ endBadCaptures \in 0 .. cur
      /\ Few \in Nat /\ DOMAIN moves = 1 .. Few
  BY CapturesAt
<1>2. moves \in Seq(Entry) /\ Len(moves) = Few /\ DistinctMoves(moves) BY <1>1 DEF CapturesIn
<1>3. Ahead(upto)
  <2>1. cur \in 0 .. upto /\ upto \in 0 .. Few BY <1>1
  <2> QED BY <1>1, <1>2, <2>1 DEF Ahead, OrderInv, ArrayOrdered
<1>4. PICK y : y = SetAside(upto) OBVIOUS
<1>5. FrontTo(y, upto) BY <1>3, <1>4, SetAsideOrders
<1>6. /\ moves' = y.list /\ cur' = upto /\ endBadCaptures' = y.bad
      /\ UNCHANGED <<ttMove, depth, winning>>
  BY <1>4 DEF Pass, given
<1>7. SameKind BY <1>6 DEF SameKind, InMain
<1>8. PICK b : b = moves' OBVIOUS
<1>9. b \in Seq(Entry) /\ Len(b) = Few /\ DistinctMoves(b)
      /\ Moves' = ToSet(Captures) /\ Moves = ToSet(Captures)
  <2>1. DistinctMoves(moves)' BY DEF Inv, ArrayHolds
  <2>2. DistinctMoves(b) BY <1>8, <2>1 DEF DistinctMoves
  <2>3. b \in Seq(Entry) /\ Len(b) = Few BY <1>5, <1>6, <1>8 DEF FrontTo
  <2>4. Len(moves)' = Few BY <1>8, <2>3
  <2>5. MovesFrom(moves, 0, Few)' = ToSet(Captures) BY DEF Inv, ArrayHolds, Few
  <2>6. Moves' = ToSet(Captures) BY <2>4, <2>5 DEF Moves, MovesFrom, Few
  <2>7. Moves = ToSet(Captures) BY <1>1, <1>2 DEF Moves, CapturesIn
  <2> QED BY <2>2, <2>3, <2>6, <2>7
<1>10. ValuesStay
  <2>1. Shuffled(moves, b) BY <1>5, <1>6, <1>8 DEF FrontTo
  <2>2. \A i \in 1 .. Len(moves) : Has(b, moves[i]) BY <1>2, <1>9, <2>1 DEF Shuffled, Has
  <2> SUFFICES ASSUME NEW m \in Moves PROVE ValueIn(b, m) = ValueIn(moves, m)
    BY <1>8 DEF ValuesStay
  <2>3. m \in MovesFrom(moves, 0, Len(moves)) BY DEF Moves
  <2> QED BY <1>2, <1>9, <2>2, <2>3, ValueKept
<1>11. /\ \A j \in upto + 1 .. Few : b[j] = moves[j]
       /\ \A i \in 1 .. y.bad, j \in upto + 1 .. Few : b[i].value >= moves[j].value
       /\ \A j \in 1 .. y.bad : b[j].move \notin winning
       /\ Descending(b, 0, y.bad)
  BY <1>5, <1>6, <1>8 DEF FrontTo
<1>12. Descending(b, upto, Few)
  <2>1. Descending(moves, cur, Few) BY DEF OrderInv, ArrayOrdered
  <2>2. \A j \in upto + 1 .. Few : j \in cur + 1 .. Few BY <1>1
  <2> QED BY <1>11, <2>1, <2>2 DEF Descending
<1>13. \A i \in 1 .. y.bad, j \in upto + 1 .. Few : b[i].value >= b[j].value BY <1>11
<1>14. ArrayOrdered'
  BY <1>6, <1>8, <1>11, <1>12, <1>13 DEF ArrayOrdered, Descending, Few
<1> QED BY <1>7, <1>9, <1>10, <1>14

LEMMA ToSetNext == ToSet(emitted)' = ToSet(emitted') BY DEF ToSet

LEMMA GoodCaptureOrder == ASSUME Inv, Inv', OrderInv, GoodCapture PROVE OrderInv'
<1> DEFINE C == Candidates(Wins)
<1>0. stage = "GOOD_CAPTURE" /\ stage' = "GOOD_CAPTURE" BY DEF GoodCapture
<1>1. /\ CapturesIn(moves) /\ cur \in 0 .. Few /\ endCur = Few /\ endBadCaptures \in 0 .. cur
      /\ Few \in Nat /\ DOMAIN moves = 1 .. Few
      /\ \A j \in 1 .. Few : moves[j] \in Entry /\ moves[j].move \in ToSet(Captures)
      /\ \A j \in 1 .. Few :
           moves[j].move # ttMove =>
             (moves[j].move \in ToSet(emitted) <=> j \in endBadCaptures + 1 .. cur)
  BY <1>0, CapturesAt
<1>2. \A j : j \in C <=> j \in cur + 1 .. Few /\ moves[j].move # ttMove /\ moves[j].move \in winning
  BY <1>1 DEF Candidates, Wins
<1>3. C \subseteq Nat /\ C # {} BY <1>1, <1>2 DEF GoodCapture
<1> HIDE DEF C
<1>4. PICK i : i = First(C) /\ i \in C /\ \A j \in C : i <= j
  <2>1. First(C) \in C /\ \A j \in C : First(C) <= j BY <1>3, FirstIs
  <2> QED BY <2>1
<1>5. PICK m : m = moves[i].move OBVIOUS
<1>6. Pass(i) /\ Emit(m) BY <1>4, <1>5 DEF GoodCapture, C
<1>7. i \in cur + 1 .. Few /\ m # ttMove /\ m \in winning /\ i \in 1 .. Few /\ i \in cur .. Few
  BY <1>1, <1>2, <1>4, <1>5
<1>8. /\ moves \in Seq(Entry) /\ Len(moves) = Few /\ DistinctMoves(moves)
      /\ Moves = {moves[j].move : j \in 1 .. Few}
  <2>1. moves \in Seq(Entry) /\ Len(moves) = Few /\ DistinctMoves(moves) BY <1>1 DEF CapturesIn
  <2>2. 0 + 1 = 1 OBVIOUS
  <2> QED BY <2>1, <2>2 DEF Moves, MovesFrom
<1>9. ToSet(emitted)' \subseteq winning \cup {ttMove}
  <2>1. PICK s, t : s = emitted /\ t = emitted' OBVIOUS
  <2>2. s \in Seq(GeneratedMoves) /\ t = Append(s, m) /\ IsInjective(t)
    BY <1>6, <2>1 DEF Inv, TypeOK, Emit, IsInjective
  <2>3. ToSet(t) = ToSet(s) \cup {m} BY <2>2, Appended
  <2>4. ToSet(s) \subseteq winning \cup {ttMove} BY <1>0, <2>1 DEF OrderInv, ArrayOrdered
  <2> QED BY <1>7, <2>1, <2>3, <2>4, ToSetNext
<1>10. SameKind /\ ValuesStay /\ Moves' = Moves /\ ArrayOrdered'
  BY <1>0, <1>6, <1>7, <1>9, PassOrder
<1>11. InMain /\ Class(m) = 1
  <2>1. m \in ToSet(Captures) BY <1>7 DEF Inv, TypeOK
  <2> QED BY <1>0, <1>7, <2>1 DEF InMain, Class
<1>12. ASSUME NEW k \in Waiting, k # m PROVE Before(m, k)
  <2>1. k \in Moves /\ k # ttMove /\ k \notin ToSet(emitted) BY DEF Waiting
  <2>2. PICK j \in 1 .. Few : k = moves[j].move BY <1>8, <2>1
  <2>3. k \in ToSet(Captures) /\ j \notin endBadCaptures + 1 .. cur BY <1>1, <2>1, <2>2
  <2>4. CASE k \notin winning
    <3>1. Class(k) = 3 BY <1>11, <2>1, <2>3, <2>4 DEF Class
    <3>2. Class(m) < Class(k) BY <1>11, <3>1
    <3> QED BY <3>2 DEF Before
  <2>5. CASE k \in winning
    <3>1. ~ (j \in 1 .. endBadCaptures)
      BY <1>0, <2>2, <2>5 DEF OrderInv, ArrayOrdered
    <3>2. j \in cur + 1 .. Few BY <1>1, <2>3, <3>1
    <3>3. j \in C /\ j # i BY <1>2, <1>5, <1>12, <2>1, <2>2, <2>5, <3>2
    <3>4. i < j BY <1>4, <1>7, <3>2, <3>3
    <3>5. moves[i].value >= moves[j].value
      BY <1>0, <1>7, <3>2, <3>4 DEF OrderInv, ArrayOrdered, Descending
    <3>6. Class(k) = 1 BY <2>1, <2>3, <2>5 DEF Class
    <3>7. Class(moves[i].move) = Class(moves[j].move) BY <1>5, <1>11, <2>2, <3>6
    <3>8. i \in 1 .. Len(moves) /\ j \in 1 .. Len(moves) BY <1>7, <1>8
    <3>9. Before(moves[i].move, moves[j].move) BY <1>8, <3>5, <3>7, <3>8, PlaceBefore
    <3> QED BY <1>5, <2>2, <3>9
  <2> QED BY <2>4, <2>5
<1>13. m \in Moves /\ m \notin ToSet(Quiets)
  <2>1. m \in ToSet(Captures) BY <1>7 DEF Inv, TypeOK
  <2> QED BY <1>5, <1>7, <1>8, <2>1, MovesAssumption
<1>14. Generated BY <1>0 DEF Generated
<1>15. EmittedFromArray' /\ WaitingLast' /\ BestFirst'
  BY <1>0, <1>6, <1>7, <1>10, <1>12, <1>13, <1>14, EmitBest
<1> QED BY <1>10, <1>15 DEF OrderInv

LEMMA NoGoodCaptureOrder == ASSUME Inv, Inv', OrderInv, NoGoodCapture PROVE OrderInv'
<1>0. /\ stage = "GOOD_CAPTURE" /\ stage' = "QUIET_INIT" /\ Pass(endCur)
      /\ UNCHANGED <<emitted, skipQuiets>>
  BY DEF NoGoodCapture, Keep
<1>1. cur \in 0 .. Few /\ endCur = Few /\ Few \in Nat BY <1>0, CapturesAt
<1>2. Few \in cur .. Few /\ Pass(Few) BY <1>0, <1>1
<1>3. ToSet(emitted)' \subseteq winning \cup {ttMove}
  BY <1>0, ToSetNext DEF OrderInv, ArrayOrdered
<1>4. SameKind /\ ValuesStay /\ Moves' = Moves /\ ArrayOrdered' BY <1>0, <1>2, <1>3, PassOrder
<1>5. Generated BY <1>0 DEF Generated
<1>6. \A k : k \in Waiting' => k \in Waiting
  BY <1>0, <1>4, ToSetNext DEF Waiting, SameKind
<1>7. BestFirst' /\ WaitingLast'
  BY <1>0, <1>4, <1>5, <1>6, BestStays, WaitingStays
<1>8. EmittedFromArray'
  BY <1>0, <1>4, <1>5, ToSetNext DEF OrderInv, EmittedFromArray, Generated, SameKind
<1> QED BY <1>4, <1>7, <1>8 DEF OrderInv


\* The place select stops at.
Chosen(F, i) ==
  /\ i \in cur + 1 .. endCur /\ i \in 1 .. Len(moves) /\ i \in F /\ moves[i].move # ttMove
  /\ \A j \in cur + 1 .. endCur : j \in F /\ moves[j].move # ttMove => i <= j
  /\ Emit(moves[i].move)

LEMMA SelectChooses ==
  ASSUME Inv, stage \in LateMainStages \cup ShortStages, NEW F, Select(F),
         cur \in 0 .. Len(moves), endCur \in 0 .. Len(moves)
  PROVE  \E i : Chosen(F, i)
<1> DEFINE C == Candidates(F)
<1>1. \A j : j \in C <=> j \in cur + 1 .. endCur /\ moves[j].move # ttMove /\ j \in F
  BY DEF Candidates
<1>2. C # {} /\ Emit(moves[First(C)].move) BY DEF Select
<1> HIDE DEF C
<1>3. Len(moves) \in Nat BY ArrayAt
<1>4. C \subseteq Nat BY <1>1, <1>3
<1>5. PICK i : i = First(C) /\ i \in C /\ \A j \in C : i <= j
  <2>1. First(C) \in C /\ \A j \in C : First(C) <= j BY <1>2, <1>4, FirstIs
  <2> QED BY <2>1
<1>6. i \in 1 .. Len(moves) BY <1>1, <1>3, <1>5
<1>7. Chosen(F, i) BY <1>1, <1>2, <1>5, <1>6 DEF Chosen
<1> QED BY <1>7

LEMMA SelectOrder ==
  ASSUME Inv, Inv', OrderInv, stage \in LateMainStages \cup ShortStages, NEW F, Select(F),
         NEW i, Chosen(F, i), stage = "PROBCUT" => moves[i].move \in winning,
         moves[i].move \in ToSet(Quiets) => ~skipQuiets,
         \A j \in 1 .. Len(moves) :
            moves[j].move \in Waiting /\ j # i => Before(moves[i].move, moves[j].move)
  PROVE  OrderInv'
<1>1. UNCHANGED <<stage, ttMove, depth, winning, moves, endBadCaptures>> BY DEF Select, given
<1>2. /\ SameKind /\ ValuesStay /\ Moves' = Moves
  BY <1>1 DEF SameKind, ValuesStay, Moves, MovesFrom, InMain
<1>3. Generated BY FirstStages DEF Generated
<1>4. ArrayOrdered' BY <1>1, FirstStages DEF OrderInv, ArrayOrdered, Descending, Sorted
<1>5. PICK m : m = moves[i].move OBVIOUS
<1>6. i \in 1 .. Len(moves) /\ m # ttMove /\ Emit(m) BY <1>5 DEF Chosen
<1>7. m \in Moves
  <2>1. i \in 0 + 1 .. Len(moves) BY <1>6
  <2> QED BY <1>5, <2>1 DEF Moves, MovesFrom
<1>8. ASSUME NEW k \in Waiting, k # m PROVE Before(m, k)
  <2>1. k \in Moves BY DEF Waiting
  <2>2. PICK j \in 0 + 1 .. Len(moves) : k = moves[j].move BY <2>1 DEF Moves, MovesFrom
  <2>3. j \in 1 .. Len(moves) /\ j # i BY <1>5, <1>8, <2>2
  <2>4. Before(moves[i].move, moves[j].move) BY <2>2, <2>3
  <2> QED BY <1>5, <2>2, <2>4
<1>9. EmittedFromArray' /\ WaitingLast' /\ BestFirst'
  BY <1>1, <1>2, <1>3, <1>5, <1>6, <1>7, <1>8, EmitBest
<1> QED BY <1>4, <1>9 DEF OrderInv

\* A place that waits has not been left behind.
LEMMA WaitingAt ==
  ASSUME Inv, stage \in LateMainStages \cup ShortStages, NEW j \in 1 .. Len(moves),
         moves[j].move \in Waiting
  PROVE  moves[j].move # ttMove /\ (j <= Few \/ ~skipQuiets => ~ Passed(j))
<1>1. moves[j].move \notin ToSet(emitted) /\ moves[j].move # ttMove BY DEF Waiting
<1>2. j <= Few \/ ~skipQuiets => (moves[j].move \in ToSet(emitted) <=> Passed(j))
  BY <1>1, ArrayAt
<1> QED BY <1>1, <1>2

\* Captures first, quiets behind them.
LEMMA LateKinds ==
  ASSUME Inv, stage \in LateMainStages, NEW j \in 1 .. Len(moves), moves[j].move # ttMove
  PROVE  /\ InMain
         /\ j <= Few => /\ moves[j].move \notin ToSet(Quiets)
                        /\ SortedFrom(moves[j].move) = Lowest
                        /\ Class(moves[j].move) = IF moves[j].move \in winning THEN 1 ELSE 3
         /\ ~ (j <= Few) => /\ moves[j].move \in ToSet(Quiets)
                            /\ SortedFrom(moves[j].move) = -3560 * depth
                            /\ Class(moves[j].move) = IF j \in Promising THEN 2 ELSE 4
<1>1. /\ moves \in Seq(Entry) /\ Len(moves) \in Nat /\ DOMAIN moves = 1 .. Len(moves)
      /\ Few \in Nat /\ DistinctMoves(moves)
  BY ArrayAt
<1>2. PICK m : m = moves[j].move OBVIOUS
<1>3. InMain BY DEF InMain
<1>4. /\ MovesFrom(moves, 0, Few) = ToSet(Captures)
      /\ Len(moves) = Few \/ (Len(moves) = All /\ MovesFrom(moves, Few, All) = ToSet(Quiets))
  BY DEF Inv, ArrayHolds
<1>5. CASE j <= Few
  <2>1. j \in 0 + 1 .. Few BY <1>1, <1>5
  <2>2. m \in ToSet(Captures) BY <1>2, <1>4, <2>1 DEF MovesFrom
  <2>3. m \notin ToSet(Quiets) BY <2>2, MovesAssumption
  <2>4. SortedFrom(m) = Lowest BY <2>3 DEF SortedFrom
  <2>5. Class(m) = IF m \in winning THEN 1 ELSE 3 BY <1>2, <1>3, <2>2 DEF Class
  <2> QED BY <1>2, <1>3, <1>5, <2>3, <2>4, <2>5
<1>6. CASE ~ (j <= Few)
  <2>0. Len(moves) # Few
    <3>1. PICK n, f : n = Len(moves) /\ f = Few OBVIOUS
    <3>2. n \in Nat /\ f \in Nat /\ j \in 1 .. n /\ ~ (j <= f)
      <4>1. n \in Nat /\ f \in Nat BY <1>1, <3>1
      <4>2. j \in 1 .. n BY <3>1
      <4>3. ~ (j <= f) BY <1>6, <3>1
      <4> QED BY <4>1, <4>2, <4>3
    <3>3. n # f BY ONLY <3>2
    <3> QED BY <3>1, <3>3
  <2>1. j \in Few + 1 .. All /\ MovesFrom(moves, Few, All) = ToSet(Quiets)
    <3>1. PICK n : n = All OBVIOUS
    <3>2. Len(moves) = n /\ MovesFrom(moves, Few, n) = ToSet(Quiets) BY <1>4, <2>0, <3>1
    <3>3. j \in Few + 1 .. n BY <1>1, <1>6, <3>2
    <3> QED BY <3>1, <3>2, <3>3
  <2>2. m \in ToSet(Quiets) BY <1>2, <2>1 DEF MovesFrom
  <2>3. m \notin ToSet(Captures) BY <2>2, MovesAssumption
  <2>4. SortedFrom(m) = -3560 * depth BY <1>3, <2>2 DEF SortedFrom
  <2>5. ValueOf(m) = moves[j].value BY <1>1, <1>2, ValueAt DEF ValueOf, ValueIn
  <2>6. moves[j] \in Entry BY <1>1
  <2>7. moves[j].value \in Int /\ GoodQuietThreshold \in Int
    BY <2>6 DEF Entry, GoodQuietThreshold
  <2>8. j \in Promising <=> ~ (moves[j].value <= GoodQuietThreshold)
    BY <1>1, <2>7 DEF Promising
  <2>9. Class(m) = IF j \in Promising THEN 2 ELSE 4 BY <1>2, <1>3, <2>3, <2>5, <2>8 DEF Class
  <2> QED BY <1>2, <1>3, <1>6, <2>2, <2>4, <2>9
<1> QED BY <1>5, <1>6

\* Two quiets of a class, in the order of the array.
LEMMA QuietsBefore ==
  ASSUME Inv, OrderInv, stage \in LateMainStages,
         NEW i \in 1 .. Len(moves), NEW j \in 1 .. Len(moves), ~ (i <= Few), i < j,
         Class(moves[i].move) = Class(moves[j].move),
         moves[j].move # ttMove
  PROVE  Before(moves[i].move, moves[j].move)
<1>1. moves \in Seq(Entry) /\ DistinctMoves(moves) /\ Few \in Nat BY ArrayAt
<1>2. i \in Few + 1 .. Len(moves) /\ j \in Few + 1 .. Len(moves) /\ ~ (j <= Few) BY <1>1
<1>3. SortedFrom(moves[j].move) = -3560 * depth BY <1>2, LateKinds
<1>4. moves[j].value < -3560 * depth \/ moves[i].value >= moves[j].value
  BY <1>2 DEF OrderInv, ArrayOrdered, Sorted
<1> QED BY <1>1, <1>3, <1>4, PlaceBefore

LEMMA GoodQuietOrder == ASSUME Inv, Inv', OrderInv, GoodQuiet PROVE OrderInv'
<1>1. stage = "GOOD_QUIET" /\ ~skipQuiets /\ Select(Promising) BY DEF GoodQuiet
<1>2. /\ Len(moves) \in Nat /\ Few \in Nat /\ Few <= Len(moves) /\ DOMAIN moves = 1 .. Len(moves)
  BY <1>1, ArrayAt
<1>3. cur \in Few .. Len(moves) /\ endCur = Len(moves) /\ endBadCaptures \in 0 .. Few
  BY <1>1 DEF Inv, PointersFit
<1>4. cur \in 0 .. Len(moves) /\ endCur \in 0 .. Len(moves) BY <1>2, <1>3
<1>5. PICK i : Chosen(Promising, i) BY <1>1, <1>4, SelectChooses
<1>6. /\ i \in 1 .. Len(moves) /\ i \in cur + 1 .. Len(moves) /\ i \in Promising
      /\ moves[i].move # ttMove /\ ~ (i <= Few)
      /\ \A j \in cur + 1 .. Len(moves) : j \in Promising /\ moves[j].move # ttMove => i <= j
  BY <1>2, <1>3, <1>5 DEF Chosen
<1>7. Class(moves[i].move) = 2 BY <1>1, <1>6, LateKinds
<1>8. ASSUME NEW j \in 1 .. Len(moves), moves[j].move \in Waiting, j # i
      PROVE  Before(moves[i].move, moves[j].move)
  <2>1. moves[j].move # ttMove /\ ~ Passed(j) BY <1>1, <1>8, WaitingAt
  <2>2. j \notin endBadCaptures + 1 .. Few /\ ~ (j \in Few + 1 .. cur /\ j \in Promising)
    BY <1>1, <2>1 DEF Passed
  <2>3. CASE j <= Few
    <3>1. j \in 1 .. endBadCaptures BY <1>2, <1>3, <2>2, <2>3
    <3>2. moves[j].move \notin winning BY <1>1, <3>1 DEF OrderInv, ArrayOrdered
    <3>3. Class(moves[j].move) = 3 BY <1>1, <2>1, <2>3, <3>2, LateKinds
    <3>4. Class(moves[i].move) < Class(moves[j].move) BY <1>7, <3>3
    <3> QED BY <3>4 DEF Before
  <2>4. CASE ~ (j <= Few) /\ j \notin Promising
    <3>1. Class(moves[j].move) = 4 BY <1>1, <2>1, <2>4, LateKinds
    <3>2. Class(moves[i].move) < Class(moves[j].move) BY <1>7, <3>1
    <3> QED BY <3>2 DEF Before
  <2>5. CASE ~ (j <= Few) /\ j \in Promising
    <3>1. j \in cur + 1 .. Len(moves) BY <1>2, <1>3, <2>2, <2>5
    <3>2. i < j BY <1>6, <1>8, <2>1, <2>5, <3>1
    <3>3. Class(moves[j].move) = 2 BY <1>1, <2>1, <2>5, LateKinds
    <3> QED BY <1>1, <1>6, <1>7, <2>1, <3>2, <3>3, QuietsBefore
  <2> QED BY <2>3, <2>4, <2>5
<1> QED BY <1>1, <1>5, <1>8, SelectOrder

LEMMA BadCaptureOrder == ASSUME Inv, Inv', OrderInv, BadCapture PROVE OrderInv'
<1>1. stage = "BAD_CAPTURE" /\ Select(Every) BY DEF BadCapture
<1>2. /\ Len(moves) \in Nat /\ Few \in Nat /\ Few <= Len(moves) /\ DOMAIN moves = 1 .. Len(moves)
      /\ moves \in Seq(Entry) /\ DistinctMoves(moves)
  BY <1>1, ArrayAt
<1>3. cur \in 0 .. endBadCaptures /\ endCur = endBadCaptures /\ endBadCaptures \in 0 .. Few
  BY <1>1 DEF Inv, PointersFit
<1>4. cur \in 0 .. Len(moves) /\ endCur \in 0 .. Len(moves) BY <1>2, <1>3
<1>5. PICK i : Chosen(Every, i) BY <1>1, <1>4, SelectChooses
<1>6. /\ i \in 1 .. Len(moves) /\ i \in cur + 1 .. endBadCaptures /\ i \in 1 .. endBadCaptures
      /\ moves[i].move # ttMove /\ i <= Few
      /\ \A j \in cur + 1 .. endBadCaptures : moves[j].move # ttMove => i <= j
  <2>1. \A j \in cur + 1 .. endBadCaptures : j \in Every BY <1>2, <1>3 DEF Every
  <2> QED BY <1>2, <1>3, <1>5, <2>1 DEF Chosen
<1>7. moves[i].move \notin winning BY <1>1, <1>6 DEF OrderInv, ArrayOrdered
<1>8. Class(moves[i].move) = 3 /\ moves[i].move \notin ToSet(Quiets)
  BY <1>1, <1>6, <1>7, LateKinds
<1>9. ASSUME NEW j \in 1 .. Len(moves), moves[j].move \in Waiting, j # i
      PROVE  Before(moves[i].move, moves[j].move)
  <2>1. CASE j <= Few
    <3>1. moves[j].move # ttMove /\ ~ Passed(j) BY <1>1, <1>9, <2>1, WaitingAt
    <3>2. ~ (j <= cur) /\ j \notin endBadCaptures + 1 .. Few BY <1>1, <3>1 DEF Passed
    <3>3. j \in cur + 1 .. endBadCaptures /\ j \in 1 .. endBadCaptures
      BY <1>2, <1>3, <2>1, <3>2
    <3>4. moves[j].move \notin winning BY <1>1, <3>3 DEF OrderInv, ArrayOrdered
    <3>5. Class(moves[j].move) = 3 BY <1>1, <2>1, <3>1, <3>4, LateKinds
    <3>6. i < j BY <1>6, <1>9, <3>1, <3>3
    <3>7. moves[i].value >= moves[j].value
      <4>1. i \in 0 + 1 .. endBadCaptures /\ j \in 0 + 1 .. endBadCaptures BY <1>6, <3>3
      <4> QED BY <1>1, <3>6, <4>1 DEF OrderInv, ArrayOrdered, Descending
    <3> QED BY <1>2, <1>6, <1>8, <3>5, <3>7, PlaceBefore
  <2>2. CASE ~ (j <= Few)
    <3>1. moves[j].move # ttMove BY <1>1, <1>9, WaitingAt
    <3>2. moves[j].move \in ToSet(Quiets) /\ Class(moves[j].move) = IF j \in Promising THEN 2 ELSE 4
      BY <1>1, <2>2, <3>1, LateKinds
    <3>3. ~skipQuiets BY <1>9, <3>2 DEF Waiting
    <3>4. ~ Passed(j) BY <1>1, <1>9, <3>3, WaitingAt
    <3>5. j \notin Promising
      <4>1. j > Few BY <1>2, <2>2
      <4> QED BY <1>1, <3>4, <4>1 DEF Passed
    <3>6. Class(moves[i].move) < Class(moves[j].move) BY <1>8, <3>2, <3>5
    <3> QED BY <3>6 DEF Before
  <2> QED BY <2>1, <2>2
<1> QED BY <1>1, <1>5, <1>8, <1>9, SelectOrder

LEMMA BadQuietOrder == ASSUME Inv, Inv', OrderInv, BadQuiet PROVE OrderInv'
<1>1. stage = "BAD_QUIET" /\ ~skipQuiets /\ Select(Hopeless) BY DEF BadQuiet
<1>2. /\ Len(moves) \in Nat /\ Few \in Nat /\ Few <= Len(moves) /\ DOMAIN moves = 1 .. Len(moves)
  BY <1>1, ArrayAt
<1>3. cur \in Few .. Len(moves) /\ endCur = Len(moves) BY <1>1 DEF Inv, PointersFit
<1>4. cur \in 0 .. Len(moves) /\ endCur \in 0 .. Len(moves) BY <1>2, <1>3
<1>5. PICK i : Chosen(Hopeless, i) BY <1>1, <1>4, SelectChooses
<1>6. /\ i \in 1 .. Len(moves) /\ i \notin Promising
      /\ moves[i].move # ttMove /\ ~ (i <= Few)
      /\ \A j \in cur + 1 .. Len(moves) : j \in Hopeless /\ moves[j].move # ttMove => i <= j
  BY <1>2, <1>3, <1>5 DEF Chosen, Hopeless
<1>7. Class(moves[i].move) = 4 BY <1>1, <1>6, LateKinds
<1>8. ASSUME NEW j \in 1 .. Len(moves), moves[j].move \in Waiting, j # i
      PROVE  Before(moves[i].move, moves[j].move)
  <2>1. moves[j].move # ttMove /\ ~ Passed(j) BY <1>1, <1>8, WaitingAt
  <2>2. ~ (j <= cur) /\ j \notin Promising BY <1>1, <2>1 DEF Passed
  <2>3. j \in cur + 1 .. Len(moves) /\ j \in Hopeless /\ ~ (j <= Few)
    BY <1>2, <1>3, <2>2 DEF Hopeless
  <2>4. i < j BY <1>6, <1>8, <2>1, <2>3
  <2>5. Class(moves[j].move) = 4 BY <1>1, <2>1, <2>2, <2>3, LateKinds
  <2> QED BY <1>1, <1>6, <1>7, <2>1, <2>4, <2>5, QuietsBefore
<1> QED BY <1>1, <1>5, <1>8, SelectOrder


LEMMA RemainingOrder == ASSUME Inv, Inv', OrderInv, Remaining PROVE OrderInv'
<1>1. stage \in ShortStages /\ \E F : /\ F = IF stage = "PROBCUT" THEN Wins ELSE Every
                                      /\ Select(F)
  BY DEF Remaining
<1>2. PICK F : Select(F) /\ F = IF stage = "PROBCUT" THEN Wins ELSE Every BY <1>1
<1>3. /\ Len(moves) \in Nat /\ DOMAIN moves = 1 .. Len(moves) /\ moves \in Seq(Entry)
      /\ DistinctMoves(moves) /\ Few \in Nat
      /\ \A i \in 1 .. Len(moves) : moves[i].move \in GeneratedMoves
  BY <1>1, ArrayAt
<1>4. cur \in 0 .. Len(moves) /\ endCur = Len(moves) /\ ~skipQuiets /\ ~InMain
  BY <1>1 DEF Inv, PointersFit, DepthFits, InMain
<1>5. endCur \in 0 .. Len(moves) BY <1>3, <1>4
<1>6. PICK i : Chosen(F, i) BY <1>1, <1>2, <1>4, <1>5, SelectChooses
<1>7. /\ i \in 1 .. Len(moves) /\ i \in F /\ moves[i].move # ttMove
      /\ \A j \in cur + 1 .. Len(moves) : j \in F /\ moves[j].move # ttMove => i <= j
  BY <1>4, <1>6 DEF Chosen
<1>8. Descending(moves, 0, Len(moves)) BY <1>1 DEF OrderInv, ArrayOrdered
<1>9. stage # "EVASION" => \A j \in 1 .. Len(moves) : moves[j].move \in ToSet(Captures)
  <2> SUFFICES ASSUME stage # "EVASION", NEW j \in 1 .. Len(moves)
               PROVE  moves[j].move \in ToSet(Captures)
    OBVIOUS
  <2>1. Len(moves) = Few /\ MovesFrom(moves, 0, Few) = ToSet(Captures)
    BY <1>1 DEF Inv, ArrayHolds
  <2>2. j \in 0 + 1 .. Few BY <2>1
  <2> QED BY <2>1, <2>2 DEF MovesFrom
<1>10. ASSUME NEW j \in 1 .. Len(moves), moves[j].move \in Waiting, j # i
       PROVE  Before(moves[i].move, moves[j].move)
  <2>1. moves[j].move # ttMove /\ ~ Passed(j) BY <1>1, <1>4, <1>10, WaitingAt
  <2>2. stage = "PROBCUT" => j \in Wins BY <1>3, <1>10 DEF Waiting, Wins
  <2>3. ~ (j <= cur) BY <1>1, <2>1, <2>2 DEF Passed
  <2>4. j \in cur + 1 .. Len(moves) /\ j \in F BY <1>2, <1>3, <1>4, <2>2, <2>3 DEF Every
  <2>5. i < j BY <1>3, <1>7, <1>10, <2>1, <2>4
  <2>6. i \in 0 + 1 .. Len(moves) /\ j \in 0 + 1 .. Len(moves) BY <1>3, <1>7
  <2>7. moves[i].value >= moves[j].value BY <1>8, <2>5, <2>6 DEF Descending
  <2>8. PICK m, k : m = moves[i].move /\ k = moves[j].move OBVIOUS
  <2>9. /\ Class(m) = IF m \in ToSet(Captures) THEN 1 ELSE 2
        /\ Class(k) = IF k \in ToSet(Captures) THEN 1 ELSE 2
    BY <1>4, <1>7, <2>1, <2>8 DEF Class
  <2>10. k \in ToSet(Captures) => m \in ToSet(Captures)
    <3> SUFFICES ASSUME k \in ToSet(Captures), m \notin ToSet(Captures) PROVE FALSE OBVIOUS
    <3>1. stage = "EVASION" BY <1>7, <1>9, <2>8
    <3>2. m \in ToSet(Quiets) BY <1>3, <1>7, <2>8 DEF GeneratedMoves
    <3>3. moves[j].value > moves[i].value
      BY <1>3, <1>7, <2>8, <3>1, <3>2 DEF OrderInv, ArrayOrdered
    <3>4. moves[i] \in Entry /\ moves[j] \in Entry BY <1>3, <1>7
    <3>5. moves[i].value \in Int /\ moves[j].value \in Int BY <3>4 DEF Entry
    <3> QED BY <2>7, <3>3, <3>5
  <2>11. Class(m) < Class(k) \/ Class(m) = Class(k) BY <2>9, <2>10
  <2>12. CASE Class(m) < Class(k) BY <2>8, <2>12 DEF Before
  <2>13. CASE Class(m) = Class(k)
    <3>1. Class(moves[i].move) = Class(moves[j].move) BY <2>8, <2>13
    <3> QED BY <1>3, <1>7, <2>7, <3>1, PlaceBefore
  <2> QED BY <2>11, <2>12, <2>13
<1>11. stage = "PROBCUT" => moves[i].move \in winning BY <1>2, <1>7 DEF Wins
<1> QED BY <1>1, <1>2, <1>4, <1>6, <1>10, <1>11, SelectOrder

\* A step that emits nothing and leaves the array alone.
LEMMA ArrayStays ==
  ASSUME Inv, OrderInv, Generated, stage' \notin TTStages \cup InitStages,
         UNCHANGED <<emitted, moves, ttMove, winning, depth, skipQuiets>>, InMain' <=> InMain,
         stage' = "PROBCUT" <=> stage = "PROBCUT"
  PROVE  EmittedFromArray' /\ WaitingLast' /\ BestFirst'
<1>1. SameKind /\ ValuesStay /\ Moves' = Moves
  BY DEF SameKind, ValuesStay, Moves, MovesFrom
<1>2. \A k : k \in Waiting' => k \in Waiting
  BY <1>1, ToSetNext DEF Waiting, SameKind
<1>3. BestFirst' /\ WaitingLast' BY <1>1, <1>2, BestStays, WaitingStays
<1>4. EmittedFromArray' BY <1>1, ToSetNext DEF OrderInv, EmittedFromArray, Generated, SameKind
<1> QED BY <1>3, <1>4

LEMMA InitNoQuietsOrder == ASSUME Inv, Inv', OrderInv, InitNoQuiets PROVE OrderInv'
<1>1. /\ stage = "QUIET_INIT" /\ stage' = "GOOD_QUIET"
      /\ UNCHANGED <<emitted, skipQuiets, ttMove, depth, winning, moves, endBadCaptures>>
  BY DEF InitNoQuiets, Keep, given
<1>2. EmittedFromArray' /\ WaitingLast' /\ BestFirst'
  BY <1>1, ArrayStays DEF Generated, InMain
<1>3. Len(moves) = Few /\ Few \in Nat BY <1>1, Sizes DEF Inv, ArrayHolds
<1>4. \A i \in Few + 1 .. Few : FALSE BY <1>3
<1>5. Descending(moves, 0, endBadCaptures) /\ \A i \in 1 .. endBadCaptures : moves[i].move \notin winning
  BY <1>1 DEF OrderInv, ArrayOrdered
<1>6. ArrayOrdered' BY <1>1, <1>3, <1>4, <1>5 DEF ArrayOrdered, Descending, Sorted, Few
<1> QED BY <1>2, <1>6 DEF OrderInv

LEMMA LateOrder ==
  ASSUME Inv, OrderInv, stage \in LateMainStages, stage' \in LateMainStages,
         UNCHANGED <<emitted, moves, ttMove, winning, depth, skipQuiets, endBadCaptures>>
  PROVE  OrderInv'
<1>1. EmittedFromArray' /\ WaitingLast' /\ BestFirst' BY ArrayStays DEF Generated, InMain
<1>2. ArrayOrdered' BY DEF OrderInv, ArrayOrdered, Descending, Sorted, Few
<1> QED BY <1>1, <1>2 DEF OrderInv

LEMMA NoGoodQuietOrder == ASSUME Inv, OrderInv, NoGoodQuiet PROVE OrderInv'
BY LateOrder DEF NoGoodQuiet, Keep, given

LEMMA NoBadCaptureOrder == ASSUME Inv, OrderInv, NoBadCapture PROVE OrderInv'
BY LateOrder DEF NoBadCapture, Keep, given

LEMMA StutterOrder ==
  ASSUME Inv, OrderInv,
         UNCHANGED <<stage, ttMove, depth, winning, moves, cur, endBadCaptures, skipQuiets, emitted>>
  PROVE  OrderInv'
<1>1. CASE stage \in TTStages \cup InitStages
  <2>1. EmittedFromArray' /\ WaitingLast' BY <1>1 DEF EmittedFromArray, WaitingLast
  <2>2. ArrayOrdered' BY <1>1 DEF ArrayOrdered
  <2>4. \A i, j \in DOMAIN emitted' : ~ (i < j)
    <3> SUFFICES ASSUME NEW i \in DOMAIN emitted, NEW j \in DOMAIN emitted, i < j PROVE FALSE
      OBVIOUS
    <3>1. ToSet(emitted) \subseteq {ttMove} BY <1>1 DEF Inv, TableMoveFirst, ToSet
    <3>2. emitted[i] = emitted[j] BY <3>1 DEF ToSet
    <3>3. i = j BY <3>2 DEF Inv, IsInjective
    <3>4. i \in Nat BY DEF Inv, TypeOK
    <3> QED BY <3>3, <3>4
  <2>5. BestFirst' BY <2>4 DEF BestFirst
  <2> QED BY <2>1, <2>2, <2>5 DEF OrderInv
<1>2. CASE stage \notin TTStages \cup InitStages
  <2>1. EmittedFromArray' /\ WaitingLast' /\ BestFirst' BY <1>2, ArrayStays DEF Generated, InMain
  <2>2. ArrayOrdered' BY DEF OrderInv, ArrayOrdered, Descending, Sorted, Few, ToSet
  <2> QED BY <2>1, <2>2 DEF OrderInv
<1> QED BY <1>1, <1>2

LEMMA InitQuietsOrder == ASSUME Inv, Inv', OrderInv, InitQuiets PROVE OrderInv'
<1> DEFINE limit == -3560 * depth
<1>0. PICK scored \in Score(Quiets, QuietValues) :
        /\ moves' = SubSeq(moves, 1, cur) \o PartialInsertionSort(scored, limit)
        /\ endCur' = cur + Len(scored) /\ endGenerated' = cur + Len(scored)
  BY DEF InitQuiets
<1>8. limit \in Int BY DEF Inv, TypeOK
<1> HIDE DEF limit
<1>1. /\ stage = "QUIET_INIT" /\ stage' = "GOOD_QUIET" /\ ~skipQuiets
      /\ UNCHANGED <<emitted, skipQuiets, ttMove, depth, winning, endBadCaptures>>
  BY DEF InitQuiets, Keep, given
<1>2. /\ CapturesIn(moves) /\ Few \in Nat /\ endBadCaptures \in 0 .. cur
      /\ \A i \in 1 .. Few : moves[i].move \in ToSet(Captures)
  BY <1>1, CapturesAt
<1>3. cur = Few BY <1>1 DEF Inv, PointersFit
<1>4. moves \in Seq(Entry) /\ Len(moves) = Few /\ DistinctMoves(moves)
      /\ Moves = ToSet(Captures)
  BY <1>2 DEF CapturesIn, Moves
<1>5. PICK front, b : /\ front = SubSeq(moves, 1, cur)
                      /\ b = PartialInsertionSort(scored, limit)
                      /\ moves' = front \o b
  BY <1>0
<1>6. front = moves BY <1>3, <1>4, <1>5
<1>7. scored \in Seq(Entry) /\ Len(scored) = Len(Quiets)
  <2>1. PICK T : T = ToSet(Quiets) OBVIOUS
  <2>2. Quiets \in Seq(T) /\ T \subseteq GeneratedMoves /\ QuietValues \subseteq Int
    BY <2>1, MovesAssumption, Sizes
  <2> QED BY <2>2, ScoreIs
<1>9. b \in Seq(Entry) /\ Len(b) = Len(Quiets) /\ Sorted(b, 0, Len(Quiets), limit)
  <2>1. b \in Seq(Entry) /\ Shuffled(scored, b) BY <1>5, <1>7, SortShuffles
  <2>2. Sorted(b, 0, Len(scored), limit) BY <1>5, <1>7, <1>8, SortOrders
  <2> QED BY <1>7, <2>1, <2>2 DEF Shuffled
<1>10. PICK c : c = moves' OBVIOUS
<1>11. All \in Nat /\ All = Few + Len(Quiets) /\ Len(Quiets) \in Nat BY Sizes
<1>12. /\ c \in Seq(Entry) /\ Len(c) = All
       /\ \A i \in 1 .. Few : c[i] = moves[i]
       /\ \A i \in Few + 1 .. All : c[i] = b[i - Few]
  <2>0. moves \in Seq(Entry) /\ b \in Seq(Entry) BY <1>4, <1>9
  <2>1. c = moves \o b BY <1>5, <1>6, <1>10
  <2>2. Len(c) = Len(moves) + Len(b) /\ c \in Seq(Entry) BY ONLY <2>0, <2>1
  <2>3. \A i \in 1 .. Len(moves) + Len(b) : c[i] = IF i <= Len(moves) THEN moves[i] ELSE b[i - Len(moves)]
    BY <1>4, <1>9, <2>1
  <2>4. PICK f, q : f = Few /\ q = Len(Quiets) OBVIOUS
  <2>5. f \in Nat /\ q \in Nat /\ Len(moves) = f /\ Len(b) = q /\ All = f + q
    <3>1. f \in Nat BY <1>2, <2>4
    <3>2. Len(moves) = f BY <1>4, <2>4
    <3>3. Len(b) = q BY <1>9, <2>4
    <3> QED BY <1>11, <2>4, <3>1, <3>2, <3>3
  <2>6. \A i \in 1 .. f + q : c[i] = IF i <= f THEN moves[i] ELSE b[i - f]
    BY <2>3, <2>5
  <2>7. /\ \A i \in 1 .. f : c[i] = moves[i]
        /\ \A i \in f + 1 .. f + q : c[i] = b[i - f]
    <3>1. ASSUME NEW i \in 1 .. f PROVE c[i] = moves[i]
      <4>1. i \in 1 .. f + q /\ i <= f BY <2>5
      <4> QED BY <2>6, <4>1
    <3>2. ASSUME NEW i \in f + 1 .. f + q PROVE c[i] = b[i - f]
      <4>1. i \in 1 .. f + q /\ ~ (i <= f) BY <2>5
      <4> QED BY <2>6, <4>1
    <3> QED BY <3>1, <3>2
  <2> QED BY <2>2, <2>4, <2>5, <2>7
<1>13. DistinctMoves(c) /\ Len(moves)' = All
       /\ MovesFrom(c, 0, Few) = ToSet(Captures) /\ MovesFrom(c, Few, All) = ToSet(Quiets)
  <2>1. /\ DistinctMoves(moves)' /\ MovesFrom(moves, 0, Few)' = ToSet(Captures)
        /\ \/ Len(moves)' = Few /\ endGenerated' = Unset /\ skipQuiets'
           \/ Len(moves)' = All /\ MovesFrom(moves, Few, All)' = ToSet(Quiets)
    BY <1>1 DEF Inv, ArrayHolds, Few, All
  <2>2. ~skipQuiets' BY <1>1
  <2>3. DistinctMoves(c) BY <1>10, <2>1 DEF DistinctMoves
  <2>4. MovesFrom(c, 0, Few) = ToSet(Captures) /\ MovesFrom(c, Few, All) = ToSet(Quiets)
    BY <1>10, <2>1, <2>2 DEF MovesFrom, Few, All
  <2> QED BY <1>10, <1>12, <2>3, <2>4
<1>14. \A k : k \in Moves' <=> k \in ToSet(Captures) \/ k \in ToSet(Quiets)
  <2>1. Moves' = MovesFrom(c, 0, All) BY <1>10, <1>12 DEF Moves, MovesFrom
  <2>2. \A i : i \in 0 + 1 .. All <=> i \in 0 + 1 .. Few \/ i \in Few + 1 .. All
    BY <1>2, <1>11
  <2>3. \A k : k \in MovesFrom(c, 0, All) <=> k \in MovesFrom(c, 0, Few) \/ k \in MovesFrom(c, Few, All)
    BY <2>2 DEF MovesFrom
  <2> QED BY <1>13, <2>1, <2>3
<1>15. SameKind BY <1>1 DEF SameKind, InMain
<1>16. ValuesStay
  <2>1. \A i \in 1 .. Len(moves) : Has(c, moves[i])
    <3> TAKE i \in 1 .. Len(moves)
    <3>1. i \in 1 .. Len(c) /\ c[i] = moves[i] BY <1>2, <1>4, <1>11, <1>12
    <3> QED BY <3>1 DEF Has
  <2> SUFFICES ASSUME NEW m \in Moves PROVE ValueIn(c, m) = ValueIn(moves, m)
    BY <1>10 DEF ValuesStay
  <2>2. m \in MovesFrom(moves, 0, Len(moves)) BY DEF Moves
  <2> QED BY <1>4, <1>12, <1>13, <2>1, <2>2, ValueKept
<1>17. Generated BY <1>1 DEF Generated
<1>18. BestFirst' BY <1>1, <1>15, <1>16, <1>17, BestStays
<1>19. EmittedFromArray'
  BY <1>1, <1>4, <1>14, ToSetNext DEF OrderInv, EmittedFromArray, SameKind
<1>20. WaitingLast'
  <2> SUFFICES ASSUME NEW n \in DOMAIN emitted, NEW k, k \in Waiting'
               PROVE  BeforeNext(emitted'[n], k)
    BY <1>1, NextWaitingLast
  <2>1. PICK m : m = emitted[n] OBVIOUS
  <2>2. k \in Moves' /\ k \notin ToSet(emitted) /\ k # ttMove
    BY <1>1, ToSetNext DEF Waiting
  <2>3. m \in Moves \/ m = ttMove BY <1>17, <2>1, EmittedAt
  <2>4. CASE k \in ToSet(Captures)
    <3>1. k \in Waiting
      <4>1. k \notin ToSet(Quiets) BY <2>4, MovesAssumption
      <4> QED BY <1>1, <1>4, <2>2, <2>4, <4>1 DEF Waiting
    <3>2. Before(m, k) BY <1>17, <2>1, <3>1 DEF OrderInv, WaitingLast, Generated
    <3>3. BeforeNext(m, k)
      BY <1>4, <1>15, <1>16, <2>2, <2>3, <2>4, <3>2, BeforeStays DEF ValuesStay
    <3> QED BY <1>1, <2>1, <3>3
  <2>5. CASE k \notin ToSet(Captures)
    <3>1. m \in winning \cup {ttMove}
      <4>1. m \in ToSet(emitted) BY <2>1 DEF ToSet
      <4> QED BY <1>1, <4>1 DEF OrderInv, ArrayOrdered
    <3>2. InMain' BY <1>1 DEF InMain
    <3>3. ClassIn(ttMove', winning', InMain', moves', k) \in {2, 4}
      BY <1>1, <2>2, <2>5 DEF ClassIn
    <3>4. m \in winning => m \in ToSet(Captures) BY DEF Inv, TypeOK
    <3>5. ClassIn(ttMove', winning', InMain', moves', m) \in {0, 1}
      BY <1>1, <3>1, <3>4 DEF ClassIn
    <3>6. ClassIn(ttMove', winning', InMain', moves', m)
            < ClassIn(ttMove', winning', InMain', moves', k)
      BY <3>3, <3>5
    <3>7. BeforeNext(m, k) BY <3>6 DEF BeforeNext, BeforeIn
    <3> QED BY <1>1, <2>1, <3>7
  <2> QED BY <2>4, <2>5
<1>21. Sorted(c, Few, All, limit)
  <2> SUFFICES ASSUME NEW i \in Few + 1 .. All, NEW j \in Few + 1 .. All, i < j
               PROVE  c[j].value < limit \/ c[i].value >= c[j].value
    BY DEF Sorted
  <2>1. /\ i - Few \in 0 + 1 .. Len(Quiets) /\ j - Few \in 0 + 1 .. Len(Quiets)
        /\ i - Few < j - Few
    BY <1>2, <1>11
  <2>2. b[j - Few].value < limit \/ b[i - Few].value >= b[j - Few].value
    BY <1>9, <2>1 DEF Sorted
  <2> QED BY <1>12, <2>2
<1>22. /\ \A i \in 1 .. endBadCaptures : c[i] = moves[i]
       /\ \A i \in 0 + 1 .. endBadCaptures : c[i] = moves[i]
  BY <1>2, <1>3, <1>12
<1>23. /\ Descending(c, 0, endBadCaptures)
       /\ \A i \in 1 .. endBadCaptures : c[i].move \notin winning
  <2>1. /\ Descending(moves, 0, endBadCaptures)
        /\ \A i \in 1 .. endBadCaptures : moves[i].move \notin winning
    BY <1>1 DEF OrderInv, ArrayOrdered
  <2> QED BY <1>22, <2>1 DEF Descending
<1>24. ArrayOrdered'
  <2>1. Sorted(moves, Few, Len(moves), limit)'
    <3>1. limit' = limit BY <1>1 DEF limit
    <3>2. Few' = Few BY DEF Few
    <3>3. Len(moves)' = All BY <1>13
    <3> QED BY <1>10, <1>21, <3>1, <3>2, <3>3 DEF Sorted
  <2>2. Descending(moves, 0, endBadCaptures)' /\ \A i \in 1 .. endBadCaptures' : moves'[i].move \notin winning'
    BY <1>1, <1>10, <1>23 DEF Descending
  <2>3. stage' \notin ShortStages \cup {"EVASION"} \cup FirstMainStages BY <1>1
  <2> QED BY <2>1, <2>2, <2>3 DEF ArrayOrdered, limit
<1> QED BY <1>18, <1>19, <1>20, <1>24 DEF OrderInv

(* The array stays in the order in which its moves are due, and each move  *)
(* emitted comes before all that wait.                                     *)
LEMMA StepKeepsOrder ==
  ASSUME Inv, Inv', OrderInv, [NextMove]_vars PROVE OrderInv'
<1>1. CASE Exhausted BY <1>1, StutterOrder DEF Exhausted, given
<1>2. CASE UNCHANGED vars BY <1>2, StutterOrder DEF vars
<1>3. CASE NextMove /\ ~Exhausted
  BY <1>3, EmitTTOrder, InitCapturesOrder, InitEvasionsOrder, GoodCaptureOrder, NoGoodCaptureOrder,
     InitQuietsOrder, InitNoQuietsOrder, GoodQuietOrder, NoGoodQuietOrder, BadCaptureOrder,
     NoBadCaptureOrder, BadQuietOrder, RemainingOrder
  DEF NextMove
<1> QED BY <1>1, <1>2, <1>3


-----------------------------------------------------------------------------
(***************************************************************************)
(* The theorems                                                            *)
(***************************************************************************)

LEMMA StutterStep == ASSUME Inv, UNCHANGED vars PROVE Inv'
<1>1. UNCHANGED <<stage, ttMove, depth, winning, moves, cur, endCur, endBadCaptures, endCaptures,
                  endGenerated, skipQuiets, emitted, over>>
  BY DEF vars
<1>2. TypeOK' /\ DepthFits' BY <1>1 DEF Inv, TypeOK, DepthFits, InMain
<1>3. TableMoveFirst' BY <1>1 DEF Inv, TableMoveFirst, Usable, ToSet
<1>4. ArrayHolds' BY <1>1 DEF Inv, ArrayHolds, DistinctMoves, MovesFrom
<1>5. PointersFit' BY <1>1 DEF Inv, PointersFit
<1>6. Tracked' BY <1>1 DEF Inv, Tracked, Passed, Promising, Wins, ToSet
<1>7. Drained' BY <1>1 DEF Inv, Drained, Candidates, Hopeless, Promising, Every, Wins
<1>8. IsInjective(emitted)' BY <1>1 DEF Inv, IsInjective
<1> QED BY <1>2, <1>3, <1>4, <1>5, <1>6, <1>7, <1>8 DEF Inv

\* A move that is in the part of the array a stage has gone through was emitted.
LEMMA EmittedWhenDue ==
  ASSUME Inv, stage \in LateMainStages \cup ShortStages,
         NEW m, m = ttMove => m \in Usable, NEW i \in 1 .. Len(moves), moves[i].move = m,
         i <= Few \/ ~skipQuiets, m # ttMove => Passed(i)
  PROVE  m \in ToSet(emitted)
<1>1. CASE m = ttMove BY <1>1, FirstStages DEF Inv, TableMoveFirst
<1>2. CASE m # ttMove
  <2>1. m \in ToSet(emitted) <=> Passed(i) BY <1>2, ArrayAt
  <2> QED BY <1>2, <2>1
<1> QED BY <1>1, <1>2

LEMMA InvForgetsNothing == ASSUME Inv PROVE NothingForgotten
<1> SUFFICES ASSUME over
             PROVE  CASE stage = "PROBCUT" -> winning \subseteq ToSet(emitted)
                      [] stage = "QCAPTURE" -> ToSet(Captures) \subseteq ToSet(emitted)
                      [] stage = "EVASION" ->
                            GeneratedMoves \ ToSet(emitted) \subseteq Refused \cap {ttMove}
                      [] InMain -> GeneratedMoves \ ToSet(emitted)
                                      \subseteq (IF skipQuiets THEN ToSet(Quiets) ELSE {})
  BY DEF NothingForgotten
<1>1. \/ stage = "BAD_QUIET" /\ (~skipQuiets => Candidates(Hopeless) = {})
      \/ stage \in {"EVASION", "QCAPTURE"} /\ Candidates(Every) = {}
      \/ stage = "PROBCUT" /\ Candidates(Wins) = {}
  BY DEF Inv, Drained
<1>2. stage \in LateMainStages \cup ShortStages BY <1>1
<1>3. Len(moves) \in Nat /\ DOMAIN moves = 1 .. Len(moves) /\ Few \in Nat /\ Few <= Len(moves)
  BY <1>2, ArrayAt
<1>4. Few \in Nat /\ All \in Nat /\ ToSet(Captures) \subseteq GeneratedMoves /\ 0 \in Nat
      /\ GeneratedMoves = ToSet(Captures) \cup ToSet(Quiets)
  BY Sizes DEF GeneratedMoves
<1>5. CASE stage \in ShortStages
  <2>1. cur \in 0 .. Len(moves) /\ endCur = Len(moves) /\ ~skipQuiets
    BY <1>5 DEF Inv, PointersFit, DepthFits, InMain
  <2>2. ASSUME stage # "PROBCUT", NEW i \in 1 .. Len(moves), moves[i].move # ttMove
        PROVE  Passed(i)
    <3>1. i \in DOMAIN moves BY <1>3
    <3>2. i \notin cur + 1 .. endCur BY <1>1, <1>5, <2>2, <3>1 DEF Candidates, Every
    <3>3. i <= cur BY <1>3, <2>1, <3>2
    <3> QED BY <1>5, <2>2, <3>3 DEF Passed
  <2>3. CASE stage = "EVASION"
    <3>1. Usable = GeneratedMoves \ Refused BY <2>3 DEF Usable, PseudoLegal
    <3>2. Len(moves) = All /\ MovesFrom(moves, 0, All) = GeneratedMoves
      BY <2>3 DEF Inv, ArrayHolds
    <3>3. ASSUME NEW m \in GeneratedMoves, m \notin Refused \cap {ttMove}
          PROVE  m \in ToSet(emitted)
      <4>1. PICK i \in 0 + 1 .. All : moves[i].move = m BY <3>2 DEF MovesFrom
      <4>2. i \in 1 .. Len(moves) BY <1>3, <1>4, <3>2
      <4> QED BY <1>2, <2>1, <2>2, <2>3, <3>1, <3>3, <4>1, <4>2, EmittedWhenDue
    <3>4. /\ GeneratedMoves \ ToSet(emitted) \subseteq Refused \cap {ttMove}
          /\ ~InMain
      BY <2>3, <3>3 DEF InMain
    <3> QED BY <2>3, <3>4
  <2>4. CASE stage = "QCAPTURE"
    <3>1. Usable = GeneratedMoves BY <2>4 DEF Usable, PseudoLegal
    <3>2. Len(moves) = Few /\ MovesFrom(moves, 0, Few) = ToSet(Captures)
      BY <2>4 DEF Inv, ArrayHolds
    <3>3. ASSUME NEW m \in ToSet(Captures) PROVE m \in ToSet(emitted)
      <4>1. PICK i \in 0 + 1 .. Few : moves[i].move = m BY <3>2 DEF MovesFrom
      <4>2. i \in 1 .. Len(moves) /\ m \in Usable BY <1>3, <1>4, <3>1, <3>2
      <4> QED BY <1>2, <2>1, <2>2, <2>4, <4>1, <4>2, EmittedWhenDue
    <3>4. ToSet(Captures) \subseteq ToSet(emitted) /\ ~InMain BY <2>4, <3>3 DEF InMain
    <3> QED BY <2>4, <3>4
  <2>5. CASE stage = "PROBCUT"
    <3>1. Usable = ToSet(Captures) BY <2>5 DEF Usable
    <3>2. Len(moves) = Few /\ MovesFrom(moves, 0, Few) = ToSet(Captures)
      BY <2>5 DEF Inv, ArrayHolds
    <3>3. ASSUME NEW m \in winning PROVE m \in ToSet(emitted)
      <4>1. m \in ToSet(Captures) BY DEF Inv, TypeOK
      <4>2. PICK i \in 0 + 1 .. Few : moves[i].move = m BY <3>2, <4>1 DEF MovesFrom
      <4>3. i \in 1 .. Len(moves) BY <1>3, <3>2
      <4>4. ASSUME m # ttMove PROVE Passed(i)
        <5>1. i \in Wins BY <1>3, <4>2, <4>3 DEF Wins
        <5>2. i \notin cur + 1 .. endCur BY <1>1, <2>5, <4>2, <4>4, <5>1 DEF Candidates
        <5>3. i <= cur BY <1>3, <2>1, <4>3, <5>2
        <5> QED BY <2>5, <5>1, <5>3 DEF Passed
      <4> QED BY <1>2, <2>1, <3>1, <4>1, <4>2, <4>3, <4>4, EmittedWhenDue
    <3>4. winning \subseteq ToSet(emitted) /\ ~InMain BY <2>5, <3>3 DEF InMain
    <3> QED BY <2>5, <3>4
  <2> QED BY <1>5, <2>3, <2>4, <2>5
<1>6. CASE stage = "BAD_QUIET"
  <2>1. cur \in Few .. Len(moves) /\ (~skipQuiets => endCur = Len(moves))
    BY <1>6 DEF Inv, PointersFit
  <2>2. /\ MovesFrom(moves, 0, Few) = ToSet(Captures)
        /\ ~skipQuiets => Len(moves) = All /\ MovesFrom(moves, Few, All) = ToSet(Quiets)
    BY <1>6 DEF Inv, ArrayHolds
  <2>3. Usable = GeneratedMoves BY <1>6 DEF Usable, PseudoLegal
  <2>4. ASSUME NEW m \in ToSet(Captures) PROVE m \in ToSet(emitted)
    <3>1. PICK i \in 0 + 1 .. Few : moves[i].move = m BY <2>2 DEF MovesFrom
    <3>2. i \in 1 .. Len(moves) /\ i <= cur /\ i <= Few BY <1>3, <2>1
    <3>3. Passed(i) BY <1>6, <3>2 DEF Passed
    <3>4. m \in Usable BY <1>4, <2>3
    <3> QED BY <1>2, <3>1, <3>2, <3>3, <3>4, EmittedWhenDue
  <2>5. ASSUME ~skipQuiets, NEW m \in ToSet(Quiets) PROVE m \in ToSet(emitted)
    <3>1. PICK i \in Few + 1 .. All : moves[i].move = m BY <2>2, <2>5 DEF MovesFrom
    <3>2. i \in 1 .. Len(moves) /\ (i \in cur + 1 .. endCur \/ i <= cur)
      BY <1>3, <1>4, <2>1, <2>2, <2>5
    <3>3. ASSUME m # ttMove PROVE Passed(i)
      <4>1. CASE i <= cur BY <1>6, <4>1 DEF Passed
      <4>2. CASE i \in cur + 1 .. endCur
        <5>1. i \notin Hopeless BY <1>1, <1>6, <2>5, <3>1, <3>3, <4>2 DEF Candidates
        <5>2. i \in Promising BY <1>3, <3>2, <5>1 DEF Hopeless
        <5> QED BY <1>6, <5>2 DEF Passed
      <4> QED BY <3>2, <4>1, <4>2
    <3>4. m \in Usable BY <1>4, <2>3, <2>5
    <3> QED BY <1>2, <2>5, <3>1, <3>2, <3>3, <3>4, EmittedWhenDue
  <2>6. GeneratedMoves \ ToSet(emitted) \subseteq (IF skipQuiets THEN ToSet(Quiets) ELSE {})
    BY <1>4, <2>4, <2>5
  <2>7. InMain BY <1>6 DEF InMain
  <2> QED BY <1>6, <2>6, <2>7
<1> QED BY <1>1, <1>5, <1>6

LEMMA InvImpliesEachMoveOnce == ASSUME Inv PROVE EachMoveOnce
<1>1. NothingForgotten BY InvForgetsNothing
<1>2. EmittedOnce BY DEF EmittedOnce, Inv, TypeOK, ToSet
<1> QED BY <1>1, <1>2 DEF EachMoveOnce

(* One step per stage of next_move: each keeps the account of which places *)
(* of the array have been left behind.                                     *)
LEMMA StepKeepsInv == ASSUME Inv, [NextMove]_vars PROVE Inv'
<1>1. CASE NextMove
  BY <1>1, EmitTTStep, InitCapturesStep, InitEvasionsStep, GoodCaptureStep, NoGoodCaptureStep,
     InitQuietsStep, InitNoQuietsStep, GoodQuietStep, NoGoodQuietStep, BadCaptureStep,
     NoBadCaptureStep, BadQuietStep, RemainingStep, ExhaustedStep
  DEF NextMove
<1>2. CASE UNCHANGED vars BY <1>2, StutterStep
<1> QED BY <1>1, <1>2

(* Captures first, quiets behind them, and of the places a stage has left  *)
(* behind exactly those moves were emitted (MovePicker::next_move).        *)
THEOREM MovePickInvariant == Spec => []Inv
<1>1. Init => Inv BY InitInv
<1>2. Inv /\ [NextMove]_vars => Inv' BY StepKeepsInv
<1> QED BY <1>1, <1>2, PTL DEF Spec

(* Whatever the position, the move of the table, the values and the result *)
(* of SEE, and whenever quiets are skipped, next_move returns no move      *)
(* twice and none that was not generated, and ends with none left out but  *)
(* an evasion of the table that pseudo_legal refuses.                      *)
THEOREM EveryMoveOnce == Spec => []EachMoveOnce
<1>1. Inv => EachMoveOnce BY InvImpliesEachMoveOnce
<1> QED BY <1>1, MovePickInvariant, PTL

(* The array stays in the order in which its moves are due, and each move  *)
(* emitted comes before all that may still be (MovePicker::next_move).     *)
THEOREM OrderInvariant == Spec => [](Inv /\ OrderInv)
<1>1. Init => Inv /\ OrderInv BY InitInv, InitOrder
<1>2. Inv /\ OrderInv /\ [NextMove]_vars => (Inv /\ OrderInv)'
  <2> SUFFICES ASSUME Inv, OrderInv, [NextMove]_vars PROVE Inv' /\ OrderInv' OBVIOUS
  <2>1. Inv' BY StepKeepsInv
  <2> QED BY <2>1, StepKeepsOrder
<1> QED BY <1>1, <1>2, PTL DEF Spec

(* Whatever the values, the result of SEE, the depth and the move of the   *)
(* table, and whenever quiets are skipped, next_move returns the move of   *)
(* the table, the captures that win, the good quiets, the captures set     *)
(* aside and the other quiets in that order, and in each of these classes  *)
(* the best first, as far down as the array is sorted.                     *)
THEOREM BestMovesFirst == Spec => []BestFirst
<1>1. OrderInv => BestFirst BY DEF OrderInv
<1> QED BY <1>1, OrderInvariant, PTL
=============================================================================
