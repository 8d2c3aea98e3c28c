-------------------------- MODULE LcMemCacheProof --------------------------
(***************************************************************************)
(* Proofs about LcMemCache. First the hash table: a probe finds what is    *)
(* there, and the removal of an entry leaves no gap. Then the operations   *)
(* on the whole cache, then the threads, and at last that it implements    *)
(* the bounded queue of LcFifoCache.                                       *)
(***************************************************************************)
EXTENDS LcMemCacheInv, FiniteSetTheorems, SequenceTheorems, WellFoundedInduction, TLAPS

-----------------------------------------------------------------------------
(***************************************************************************)
(* Numbers, and what a fold computes step by step                          *)
(***************************************************************************)

\* A set of numbers has a least element. What is shown of every number below is
\* shown by looking at the least one it would not hold for.
LEMMA NatMin ==
  ASSUME NEW T, T \subseteq Nat, T # {} PROVE \E x \in T : \A y \in T : x <= y
<1> DEFINE R == {ss \in Nat \X Nat : ss[1] < ss[2]}
<1>1. IsWellFoundedOn(R, Nat) BY NatLessThanWellFounded DEF OpToRel
<1> HIDE DEF R
<1>2. \E x \in T : \A y \in T : ~ (<<y, x>> \in R) BY <1>1, WFMin
<1>3. \A x, y \in Nat : x < y => <<x,y>> \in R BY DEF R
<1>4. PICK x \in T : \A y \in T : ~ (<<y, x>> \in R) BY <1>2
<1>5. x \in Nat OBVIOUS
<1>6. ASSUME NEW y \in T PROVE x <= y
  <2>1. y \in Nat OBVIOUS
  <2>2. ~ (y < x) BY <1>3, <1>4, <1>5, <2>1
  <2> QED BY <1>5, <2>1, <2>2
<1> QED BY <1>6

\* The numbers from 1 to n are n.
LEMMA UpTo ==
  ASSUME NEW n \in Nat PROVE IsFiniteSet(1 .. n) /\ Cardinality(1 .. n) = n
<1>1. 1 \in Int /\ n \in Int OBVIOUS
<1>2. IsFiniteSet(1 .. n) BY <1>1, FS_Interval
<1>3. Cardinality(1 .. n) = IF 1 > n THEN 0 ELSE n - 1 + 1 BY <1>1, FS_Interval
<1> QED BY <1>2, <1>3

\* Multiplication keeps the order.
LEMMA Times ==
  ASSUME NEW a \in Int, NEW b \in Int, NEW c \in Nat, a <= b PROVE c * a <= c * b
OBVIOUS

\* Quotient and remainder make up the number.
LEMMA DivRest ==
  ASSUME NEW n \in Int, NEW d \in Int, d > 0 PROVE n = d * (n \div d) + (n % d)
BY Z3

\* Quotient and remainder of a number that is not negative.
LEMMA DivMod ==
  ASSUME NEW n \in Nat, NEW d \in Nat, d > 0
  PROVE  n \div d \in Nat /\ n % d \in 0 .. d - 1 /\ n = d * (n \div d) + (n % d)
<1>1. n % d \in 0 .. d - 1 OBVIOUS
<1>2. n \div d \in Int OBVIOUS
<1>3. n = d * (n \div d) + (n % d) BY DivRest
<1> DEFINE q == n \div d
           r == n % d
<1> HIDE DEF q, r
<1>4. q >= 0
  <2> SUFFICES ASSUME q <= 0 - 1 PROVE FALSE BY <1>2 DEF q
  <2>1. d * q <= d * (0 - 1) BY <1>2, Times DEF q
  <2>2. q \in Int /\ r \in 0 .. d - 1 /\ n = d * q + r /\ d * q \in Int BY <1>1, <1>2, <1>3 DEF q, r
  <2> QED BY <2>1, <2>2
<1> QED BY <1>1, <1>2, <1>3, <1>4 DEF q

\* What is computed step by step: r[i] after the i-th of n steps, each of them a
\* function on X.
IsRun(r, n, base, step) ==
  r[0] = base /\ \A i \in 1 .. n : r[i] = step[i][r[i - 1]]

LEMMA RunExists ==
  ASSUME NEW n \in Nat, NEW X, NEW base \in X, NEW step \in [1 .. n -> [X -> X]]
  PROVE  \E r \in [0 .. n -> X] : IsRun(r, n, base, step)
<1> DEFINE T == {m \in 0 .. n : ~ \E r \in [0 .. m -> X] : IsRun(r, m, base, step)}
<1>1. T = {}
  <2> SUFFICES ASSUME T # {} PROVE FALSE OBVIOUS
  <2>1. PICK m \in T : \A l \in T : m <= l
    <3>1. T \subseteq Nat OBVIOUS
    <3> HIDE DEF T
    <3> QED BY <3>1, NatMin
  <2>2. m # 0
    <3> DEFINE r == [i \in 0 .. 0 |-> base]
    <3>1. r \in [0 .. 0 -> X] /\ IsRun(r, 0, base, step) BY DEF IsRun
    <3> QED BY <3>1
  <2>3. m - 1 \in 0 .. n /\ m \in 1 .. n /\ ~ (m <= m - 1) BY <2>2
  <2>4. PICK r \in [0 .. m - 1 -> X] : IsRun(r, m - 1, base, step) BY <2>1, <2>3
  <2> DEFINE q == [i \in 0 .. m |-> IF i = m THEN step[m][r[m - 1]] ELSE r[i]]
  <2>5. step[m] \in [X -> X] /\ r[m - 1] \in X BY <2>3
  <2>6. q \in [0 .. m -> X] BY <2>3, <2>5
  <2>7. q[0] = base BY <2>2, <2>4 DEF IsRun
  <2>8. ASSUME NEW i \in 1 .. m PROVE q[i] = step[i][q[i - 1]]
    <3>1. q[i - 1] = r[i - 1] BY <2>3
    <3>2. CASE i = m BY <3>1, <3>2
    <3>3. CASE i # m
      <4>1. i \in 1 .. m - 1 BY <2>3, <3>3
      <4> QED BY <2>4, <3>1, <3>3, <4>1 DEF IsRun
    <3> QED BY <3>2, <3>3
  <2> HIDE DEF q
  <2>9. IsRun(q, m, base, step) BY <2>7, <2>8 DEF IsRun
  <2> QED BY <2>6, <2>9
<1>2. n \in 0 .. n OBVIOUS
<1> HIDE DEF T
<1>3. n \notin T BY <1>1
<1> QED BY <1>2, <1>3 DEF T

\* The function by which the folds of the community modules are defined.
IsFold(f, n, base, step) ==
  f = [s \in SUBSET (1 .. n) |->
        IF s = {} THEN base ELSE step[Max(s)][f[s \ {Max(s)}]]]

\* The greatest of a set of numbers from 1 to n.
LEMMA MaxUpTo ==
  ASSUME NEW n \in Nat, NEW s \in SUBSET (1 .. n), s # {}
  PROVE  Max(s) \in s /\ \A y \in s : Max(s) >= y
<1>1. PICK x \in s : \A y \in s : x >= y
  <2> DEFINE U == {n - x : x \in s}
  <2>1. U \subseteq Nat /\ U # {}
    <3>1. \A y \in s : y \in 1 .. n /\ n - y \in Nat OBVIOUS
    <3> QED BY <3>1
  <2>2. PICK u \in U : \A v \in U : u <= v
    <3> HIDE DEF U
    <3> QED BY <2>1, NatMin
  <2>3. PICK x \in s : u = n - x OBVIOUS
  <2>4. ASSUME NEW y \in s PROVE x >= y
    <3>1. n - y \in U OBVIOUS
    <3>2. x \in 1 .. n /\ y \in 1 .. n OBVIOUS
    <3>3. n - x <= n - y BY <2>2, <2>3, <3>1
    <3> QED BY <3>2, <3>3
  <2> QED BY <2>4
<1> QED BY <1>1 DEF Max

\* There is such a function for any steps within X: each set of places has a run that
\* stands still at the others.
LEMMA FoldExists ==
  ASSUME NEW n \in Nat, NEW X, NEW base \in X, NEW step \in [1 .. n -> [X -> X]]
  PROVE  \E f \in [SUBSET (1 .. n) -> X] : IsFold(f, n, base, step)
<1> DEFINE S == SUBSET (1 .. n)
           on == [i \in 1 .. n |-> [h \in [S -> X] |->
                    [s \in S |-> IF i \in s THEN step[i][h[s]] ELSE h[s]]]]
<1>1. on \in [1 .. n -> [[S -> X] -> [S -> X]]]
  <2>1. ASSUME NEW i \in 1 .. n, NEW h \in [S -> X]
        PROVE  [s \in S |-> IF i \in s THEN step[i][h[s]] ELSE h[s]] \in [S -> X]
    <3>1. step[i] \in [X -> X] OBVIOUS
    <3> HIDE DEF S
    <3>2. \A s \in S : h[s] \in X /\ step[i][h[s]] \in X BY <3>1
    <3> QED BY <3>2
  <2> HIDE DEF S
  <2> QED BY <2>1
<1>2. [s \in S |-> base] \in [S -> X] OBVIOUS
<1> HIDE DEF S, on
<1>3. PICK r \in [0 .. n -> [S -> X]] : IsRun(r, n, [s \in S |-> base], on)
  BY <1>1, <1>2, RunExists
<1> USE DEF S
<1>4. ASSUME NEW s \in S PROVE r[0][s] = base BY <1>3 DEF IsRun
<1>5. ASSUME NEW s \in S, NEW i \in 1 .. n
      PROVE  r[i][s] = IF i \in s THEN step[i][r[i - 1][s]] ELSE r[i - 1][s]
  <2>1. r[i] = on[i][r[i - 1]] BY <1>3 DEF IsRun
  <2>2. i - 1 \in 0 .. n OBVIOUS
  <2>3. r[i - 1] \in [S -> X] BY <2>2
  <2> QED BY <2>1, <2>3 DEF on
\* Between two places that are in a set nothing changes.
<1> DEFINE Apart(s, l, m) == \A i \in s : i <= l \/ i > m
<1>6. ASSUME NEW s \in S, NEW l \in 0 .. n, NEW m \in 0 .. n, l <= m, Apart(s, l, m)
      PROVE  r[m][s] = r[l][s]
  <2> DEFINE T == {i \in l .. m : r[i][s] # r[l][s]}
  <2>1. T = {}
    <3> SUFFICES ASSUME T # {} PROVE FALSE OBVIOUS
    <3>1. PICK i \in T : \A j \in T : i <= j
      <4>1. T \subseteq Nat OBVIOUS
      <4> HIDE DEF T
      <4> QED BY <4>1, NatMin
    <3>2. i # l /\ i \in l .. m OBVIOUS
    <3>3. i - 1 \in l .. m /\ i \in 1 .. n /\ ~ (i <= i - 1) BY <3>2
    <3>4. r[i - 1][s] = r[l][s] BY <3>1, <3>3
    <3>5. i \notin s BY <1>6, <3>2
    <3> QED BY <1>5, <3>3, <3>4, <3>5
  <2>2. m \in l .. m BY <1>6
  <2> HIDE DEF T
  <2>3. m \notin T BY <2>1
  <2> QED BY <2>2, <2>3 DEF T
\* Two sets with the same places up to m have the same run up to there.
<1>7. ASSUME NEW s \in S, NEW t \in S, NEW m \in 0 .. n,
             \A i \in 1 .. m : i \in s <=> i \in t
      PROVE  r[m][s] = r[m][t]
  <2> DEFINE T == {i \in 0 .. m : r[i][s] # r[i][t]}
  <2>1. T = {}
    <3> SUFFICES ASSUME T # {} PROVE FALSE OBVIOUS
    <3>1. PICK i \in T : \A j \in T : i <= j
      <4>1. T \subseteq Nat OBVIOUS
      <4> HIDE DEF T
      <4> QED BY <4>1, NatMin
    <3>2. i # 0 BY <1>4
    <3>3. i - 1 \in 0 .. m /\ i \in 1 .. n /\ i \in 1 .. m /\ ~ (i <= i - 1) BY <3>2
    <3>4. r[i - 1][s] = r[i - 1][t] BY <3>1, <3>3
    <3> QED BY <1>5, <1>7, <3>3, <3>4
  <2> QED BY <2>1
<1> HIDE DEF Apart
<1> DEFINE f == [s \in S |-> r[n][s]]
<1>8. f \in [S -> X]
  <2>1. n \in 0 .. n OBVIOUS
  <2> QED BY <2>1
<1>9. ASSUME NEW s \in S, s # {} PROVE f[s] = step[Max(s)][f[s \ {Max(s)}]]
  <2> SUFFICES ASSUME NEW m, m = Max(s) PROVE f[s] = step[m][f[s \ {m}]] OBVIOUS
  <2>1. m \in s /\ \A y \in s : m >= y BY <1>9, MaxUpTo
  <2>2. m \in 1 .. n /\ m - 1 \in 0 .. n /\ n \in 0 .. n /\ m \in 0 .. n BY <2>1
  <2> DEFINE t == s \ {m}
  <2>3. t \in S OBVIOUS
  <2>4. Apart(s, m, n) BY <2>1 DEF Apart
  <2>5. r[n][s] = r[m][s]
    <3>1. m <= n BY <2>2
    <3> QED BY <1>6, <2>2, <2>4, <3>1
  <2>6. r[m][s] = step[m][r[m - 1][s]] BY <1>5, <2>1, <2>2
  <2>7. \A i \in 1 .. m - 1 : i \in s <=> i \in t BY <2>2
  <2>8. r[m - 1][s] = r[m - 1][t] BY <1>7, <2>2, <2>3, <2>7
  <2>9. Apart(t, m - 1, n)
    <3> SUFFICES ASSUME NEW y \in t PROVE y <= m - 1 \/ y > n BY DEF Apart
    <3>1. y \in Nat /\ m >= y /\ y # m BY <2>1
    <3> QED BY <2>2, <3>1
  <2>10. r[n][t] = r[m - 1][t]
    <3>1. m - 1 <= n BY <2>2
    <3> HIDE DEF t
    <3> QED BY <1>6, <2>2, <2>3, <2>9, <3>1
  <2> QED BY <2>3, <2>5, <2>6, <2>8, <2>10
<1>10. f[{}] = base
  <2>1. {} \in S /\ n \in 0 .. n /\ 0 \in 0 .. n OBVIOUS
  <2>2. Apart({}, 0, n) /\ 0 <= n BY DEF Apart
  <2>3. r[n][{}] = r[0][{}] BY <1>6, <2>1, <2>2
  <2> QED BY <1>4, <2>1, <2>3
<1>11. f = [s \in S |-> IF s = {} THEN base ELSE step[Max(s)][f[s \ {Max(s)}]]]
  <2>1. f = [s \in S |-> f[s]] OBVIOUS
  <2> HIDE DEF f
  <2>2. \A s \in S : f[s] = IF s = {} THEN base ELSE step[Max(s)][f[s \ {Max(s)}]]
    BY <1>9, <1>10
  <2> QED BY <2>1, <2>2
<1> QED BY <1>8, <1>11 DEF IsFold

\* A function on sets of places that takes each step of a run where the run takes it.
FoldsBy(f, n, r) ==
  /\ f[{}] = r[0]
  /\ \A s \in SUBSET (1 .. n), i \in 1 .. n :
       s # {} /\ i = Max(s) /\ f[s \ {i}] = r[i - 1] => f[s] = r[i]

\* Its value is where the run ends.
LEMMA FoldIsRun ==
  ASSUME NEW n \in Nat, NEW f, NEW r, FoldsBy(f, n, r)
  PROVE  f[1 .. n] = r[n]
<1> DEFINE T == {i \in 0 .. n : f[1 .. i] # r[i]}
<1>1. T = {}
  <2> SUFFICES ASSUME T # {} PROVE FALSE OBVIOUS
  <2>1. PICK i \in T : \A j \in T : i <= j
    <3>1. T \subseteq Nat OBVIOUS
    <3> HIDE DEF T
    <3> QED BY <3>1, NatMin
  <2>2. i # 0
    <3>1. 1 .. 0 = {} OBVIOUS
    <3>2. f[1 .. 0] = r[0] BY <3>1 DEF FoldsBy
    <3> QED BY <3>2
  <2>3. i - 1 \in 0 .. n /\ i \in 1 .. n /\ ~ (i <= i - 1) BY <2>2
  <2>4. f[1 .. i - 1] = r[i - 1] BY <2>1, <2>3
  <2>5. 1 .. i \in SUBSET (1 .. n) /\ 1 .. i # {} /\ i \in 1 .. i
    <3>1. i \in Nat /\ i >= 1 /\ i <= n BY <2>3
    <3>2. i \in 1 .. i /\ \A j \in 1 .. i : j \in 1 .. n BY <3>1
    <3> QED BY <3>2
  <2>6. Max(1 .. i) = i
    <3>1. Max(1 .. i) \in 1 .. i /\ \A y \in 1 .. i : Max(1 .. i) >= y
      BY <2>5, MaxUpTo
    <3>2. Max(1 .. i) >= i BY <2>5, <3>1
    <3> QED BY <2>3, <3>1, <3>2
  <2>7. (1 .. i) \ {i} = 1 .. i - 1 BY <2>3
  <2>8. f[1 .. i] = r[i] BY <2>3, <2>4, <2>5, <2>6, <2>7 DEF FoldsBy
  <2> QED BY <2>8
<1>2. n \in 0 .. n OBVIOUS
<1> HIDE DEF T
<1>3. n \notin T BY <1>1
<1> QED BY <1>2, <1>3 DEF T

-----------------------------------------------------------------------------

(***************************************************************************)
(* The hash table.                                                         *)
(***************************************************************************)
\* A table of n slots has homes among them.
LEMMA HomeIs ==
  ASSUME NEW n \in Nat \ {0}, NEW T, DOMAIN T = 0 .. n - 1, NEW key \in Keys
  PROVE  Home(T, key) = key % n /\ Home(T, key) \in 0 .. n - 1
<1>1. Cardinality(0 .. n - 1) = n
  <2>1. 0 \in Int /\ n - 1 \in Int /\ 0 <= n - 1 OBVIOUS
  <2>2. Cardinality(0 .. n - 1) = (n - 1) - 0 + 1 BY <2>1, FS_Interval
  <2> QED BY <2>2
<1>2. key \in Nat BY CacheAssumption
<1>3. Home(T, key) = key % n BY <1>1 DEF Home
<1>4. key % n \in 0 .. n - 1 BY <1>2, DivMod
<1> QED BY <1>3, <1>4

\* The slot d places after another one, around the end of a table of n slots.
Around(n, start, d) == IF start + d < n THEN start + d ELSE start + d - n

\* From visits every slot once, in the order in which they follow the first one.
LEMMA WalkIs ==
  ASSUME NEW n \in Nat \ {0}, NEW T, DOMAIN T = 0 .. n - 1, NEW start \in 0 .. n - 1
  PROVE  From(T, start) = [d \in 1 .. n |-> Around(n, start, d - 1)]
<1>1. Cardinality(DOMAIN T) = n
  <2>1. 0 \in Int /\ n - 1 \in Int /\ 0 <= n - 1 OBVIOUS
  <2>2. Cardinality(0 .. n - 1) = (n - 1) - 0 + 1 BY <2>1, FS_Interval
  <2> QED BY <2>2
<1>2. From(T, start) = [d \in 1 .. n |-> (start + d - 1) % n] BY <1>1 DEF From
<1>3. ASSUME NEW d \in 1 .. n PROVE (start + d - 1) % n = Around(n, start, d - 1)
  <2> DEFINE m == start + d - 1
  <2>1. m \in Nat /\ m < n + n OBVIOUS
  <2> HIDE DEF m
  <2>2. m % n = IF m < n THEN m ELSE m - n
    <3>1. m \div n \in Nat /\ m % n \in 0 .. n - 1 /\ m = n * (m \div n) + (m % n)
      BY <2>1, DivMod
    <3> DEFINE q == m \div n
               r == m % n
    <3> HIDE DEF q, r
    <3>2. q \in Nat /\ r \in 0 .. n - 1 /\ m = n * q + r BY <3>1 DEF q, r
    <3>3. q <= 1
      <4> SUFFICES ASSUME 2 <= q PROVE FALSE BY <3>2
      <4>1. n * 2 <= n * q BY <3>2, Times
      <4>2. n * q \in Nat BY <3>2
      <4> QED BY <2>1, <3>2, <4>1, <4>2
    <3>4. CASE q = 0
      <4>1. n * q = 0 BY <3>4
      <4> QED BY <3>2, <4>1 DEF r
    <3>5. CASE q = 1
      <4>1. n * q = n BY <3>5
      <4> QED BY <3>2, <4>1 DEF r
    <3> QED BY <3>2, <3>3, <3>4, <3>5
  <2>3. Around(n, start, d - 1) = IF m < n THEN m ELSE m - n BY DEF Around, m
  <2> QED BY <2>2, <2>3 DEF m
<1> QED BY <1>2, <1>3

\* Every slot has its place on a walk.
LEMMA PlaceOf ==
  ASSUME NEW n \in Nat \ {0}, NEW start \in 0 .. n - 1, NEW y \in 0 .. n - 1
  PROVE  \E d \in 0 .. n - 1 : Around(n, start, d) = y
<1>1. CASE y >= start
  <2>1. y - start \in 0 .. n - 1 /\ Around(n, start, y - start) = y BY <1>1 DEF Around
  <2> QED BY <2>1
<1>2. CASE y < start
  <2>1. y - start + n \in 0 .. n - 1 /\ Around(n, start, y - start + n) = y
    BY <1>2 DEF Around
  <2> QED BY <2>1
<1> QED BY <1>1, <1>2

\* On the walk from start to x, x is the first slot of S.
FirstOn(x, n, start, S) ==
  x \in S /\ \A y \in 0 .. n - 1 : InRange(y, start, x) /\ y # x => y \notin S

\* First stops at the first slot of S on a walk around the table.
LEMMA WalkFirst ==
  ASSUME NEW n \in Nat \ {0}, NEW T, DOMAIN T = 0 .. n - 1, NEW start \in 0 .. n - 1,
         NEW S, S \subseteq 0 .. n - 1, S # {}
  PROVE  FirstOn(First(From(T, start), S), n, start, S)
<1> DEFINE walk == From(T, start)
           I == {d \in 1 .. Len(walk) : walk[d] \in S}
<1>1. Len(walk) = n /\ \A d \in 1 .. n : walk[d] = Around(n, start, d - 1) BY WalkIs
<1> HIDE DEF walk
<1>2. ASSUME NEW y \in S PROVE \E d \in I : walk[d] = y
  <2>1. PICK d \in 0 .. n - 1 : Around(n, start, d) = y BY PlaceOf
  <2>2. d + 1 \in 1 .. n /\ (d + 1) - 1 = d OBVIOUS
  <2>3. walk[d + 1] = y BY <1>1, <2>1, <2>2
  <2> QED BY <1>1, <2>2, <2>3
<1>3. I # {} /\ I \subseteq Nat
  <2>1. PICK y \in S : TRUE OBVIOUS
  <2>2. I # {} BY <1>2, <2>1
  <2>3. \A d \in I : d \in 1 .. Len(walk) OBVIOUS
  <2> HIDE DEF I
  <2> QED BY <1>1, <2>2, <2>3
<1>4. PICK m \in I : \A d \in I : m <= d
  <2> HIDE DEF I
  <2> QED BY <1>3, NatMin
<1>5. First(walk, S) = walk[m]
  <2>1. \E x \in I : \A d \in I : x <= d BY <1>4
  <2>2. Min(I) \in I /\ \A d \in I : Min(I) <= d BY <2>1 DEF Min
  <2>3. Min(I) = m
    <3>1. Min(I) <= m /\ m <= Min(I) /\ m \in Nat /\ Min(I) \in Nat
      BY <1>3, <1>4, <2>2
    <3> QED BY <3>1
  <2>4. SelectInSeq(walk, LAMBDA i : i \in S) = Min(I) BY <1>3 DEF SelectInSeq
  <2> QED BY <2>3, <2>4 DEF First
<1>6. m \in 1 .. n /\ walk[m] = Around(n, start, m - 1) /\ walk[m] \in S BY <1>1, <1>4
<1>7. ASSUME NEW y \in 0 .. n - 1, InRange(y, start, walk[m]), y # walk[m], y \in S
      PROVE  FALSE
  <2>1. PICK d \in I : walk[d] = y BY <1>2, <1>7
  <2>2. d \in 1 .. n /\ m <= d /\ y = Around(n, start, d - 1) BY <1>1, <1>4, <2>1
  <2> HIDE DEF I
  <2>3. InRange(y, start, Around(n, start, m - 1)) /\ y # Around(n, start, m - 1)
    BY <1>6, <1>7
  <2> QED BY <1>6, <2>2, <2>3 DEF InRange, Around
<1> QED BY <1>5, <1>6, <1>7 DEF walk, FirstOn

\* All slots that a probe passes over on its way from start to at are in use.
Passable(T, n, start, at) ==
  \A y \in 0 .. n - 1 : InRange(y, start, at) /\ y # at => T[y] # NoEntry

\* The slot x is where a probe for key ends that looks for those wanted.
Ends(x, T, n, key, wanted) ==
  /\ x \in 0 .. n - 1 /\ (T[x] = NoEntry \/ x \in wanted)
  /\ Passable(T, n, Home(T, key), x)
  /\ \A y \in wanted : InRange(y, Home(T, key), x) => y = x

\* A probe ends at an unused slot or a wanted one, and passes over neither.
LEMMA ProbeEnds ==
  ASSUME NEW n \in Nat \ {0}, NEW T \in Tables(n), NEW key \in Keys,
         NEW wanted, wanted \subseteq 0 .. n - 1, NotInUse(T) \cup wanted # {}
  PROVE  Ends(Probe(T, key, wanted), T, n, key, wanted)
<1>1. DOMAIN T = 0 .. n - 1 BY DEF Tables
<1>2. Home(T, key) \in 0 .. n - 1 BY <1>1, HomeIs
<1> DEFINE S == NotInUse(T) \cup wanted
           x == First(From(T, Home(T, key)), S)
<1>3. S \subseteq 0 .. n - 1 BY <1>1 DEF NotInUse
<1>4. S # {} OBVIOUS
<1>5. Probe(T, key, wanted) = x BY DEF Probe
<1> HIDE DEF S
<1>6. FirstOn(x, n, Home(T, key), S)
  BY <1>1, <1>2, <1>3, <1>4, WalkFirst
<1> HIDE DEF x
<1>7. \A y \in 0 .. n - 1 : y \in S <=> T[y] = NoEntry \/ y \in wanted
  BY <1>1 DEF S, NotInUse
<1> QED BY <1>3, <1>5, <1>6, <1>7 DEF FirstOn, Passable, Ends

\* A probe finds the slot of a key.
LEMMA ProbeFinds ==
  ASSUME NEW n \in Nat \ {0}, NEW T, TableOK(T, n), NEW i \in Used(T)
  PROVE  /\ Holding(T, T[i].key) = {i}
         /\ Probe(T, T[i].key, {i}) = i
<1>1. T \in Tables(n) /\ i \in 0 .. n - 1 /\ DOMAIN T = 0 .. n - 1 /\ T[i] # NoEntry
  BY DEF TableOK, Tables, Used
<1>2. T[i] \in Entry BY <1>1 DEF Tables
<1>3. T[i].key \in Keys BY <1>2 DEF Entry
<1>4. Holding(T, T[i].key) = {i} BY <1>1 DEF TableOK, Distinct, Holding, Used
<1> DEFINE x == Probe(T, T[i].key, {i})
<1>5. /\ x \in 0 .. n - 1 /\ (T[x] = NoEntry \/ x \in {i})
      /\ Passable(T, n, Home(T, T[i].key), x)
      /\ \A y \in {i} : InRange(y, Home(T, T[i].key), x) => y = x
  <2> DEFINE key == T[i].key
             wanted == {i}
  <2>1. wanted \subseteq 0 .. n - 1 /\ NotInUse(T) \cup wanted # {} BY <1>1
  <2> HIDE DEF key, wanted
  <2>2. key \in Keys BY <1>3 DEF key
  <2>3. Ends(Probe(T, key, wanted), T, n, key, wanted) BY <1>1, <2>1, <2>2, ProbeEnds
  <2> QED BY <2>3 DEF key, wanted, Ends
<1> HIDE DEF x
<1>6. Home(T, T[i].key) \in 0 .. n - 1 BY <1>1, <1>3, HomeIs
<1>7. \A y \in 0 .. n - 1 : InRange(y, Home(T, T[i].key), i) => T[y] # NoEntry
  BY <1>1 DEF TableOK, NoGap
<1>8. x = i
  <2>1. ~ InRange(x, Home(T, T[i].key), i) \/ x = i BY <1>5, <1>7
  <2>2. ~ InRange(i, Home(T, T[i].key), x) \/ x = i BY <1>1, <1>5
  <2> QED BY <1>1, <1>5, <1>6, <2>1, <2>2 DEF InRange
<1> QED BY <1>4, <1>8 DEF x

\* No entry of the table has the key.
Absent(T, key) == \A i \in Used(T) : T[i].key # key

\* Where a probe for a key meets an unused slot, the key is not in the table.
LEMMA ProbeMisses ==
  ASSUME NEW n \in Nat \ {0}, NEW T, TableOK(T, n), NEW key \in Keys,
         T[Probe(T, key, Holding(T, key))] = NoEntry
  PROVE  Absent(T, key)
<1> SUFFICES ASSUME NEW i \in Used(T), T[i].key = key PROVE FALSE BY DEF Absent
<1>1. Probe(T, key, Holding(T, key)) = i BY ProbeFinds
<1> QED BY <1>1 DEF Used

\* An entry whose key is not there may be put where a probe for the key ends.
Fits(T, n, e, at) ==
  /\ Absent(T, e.key) /\ at \in 0 .. n - 1 /\ T[at] = NoEntry
  /\ Passable(T, n, Home(T, e.key), at)

Filled(T, at, e) == [T EXCEPT ![at] = e]

LEMMA FillSlot ==
  ASSUME NEW n \in Nat \ {0}, NEW T, TableOK(T, n), NEW e \in Entry,
         NEW at, Fits(T, n, e, at)
  PROVE  TableOK(Filled(T, at, e), n) /\ Entries(Filled(T, at, e)) = Entries(T) \cup {e}
<1> USE DEF Fits
<1> DEFINE R == Filled(T, at, e)
<1>1. T \in Tables(n) /\ DOMAIN T = 0 .. n - 1 BY DEF TableOK, Tables
<1>2. e # NoEntry BY CacheAssumption DEF Entry
<1>3. R \in Tables(n) /\ DOMAIN R = 0 .. n - 1 BY <1>1 DEF Tables, Filled
<1>4. R[at] = e /\ \A x \in 0 .. n - 1 : x # at => R[x] = T[x] BY <1>1 DEF Filled
<1> HIDE DEF R
<1>5. Used(R) = Used(T) \cup {at} /\ at \notin Used(T) BY <1>1, <1>2, <1>3, <1>4 DEF Used
<1>6. \A i \in Used(T) : i \in 0 .. n - 1 /\ i # at /\ R[i] = T[i] BY <1>1, <1>4, <1>5 DEF Used
<1>7. Distinct(R) BY <1>4, <1>5, <1>6 DEF Distinct, TableOK, Absent
<1>8. NoGap(R)
  <2> SUFFICES ASSUME NEW i \in Used(R), NEW x \in 0 .. n - 1,
                      InRange(x, Home(R, R[i].key), i)
               PROVE  R[x] # NoEntry
    BY <1>3 DEF NoGap
  <2>1. \A key \in Keys : Home(R, key) = Home(T, key) BY <1>1, <1>3, HomeIs
  <2>2. CASE i = at
    <3>1. e.key \in Keys BY DEF Entry
    <3>2. InRange(x, Home(T, e.key), at) BY <1>4, <2>1, <2>2, <3>1
    <3> QED BY <1>2, <1>4, <3>2 DEF Passable
  <2>3. CASE i # at
    <3>1. i \in Used(T) /\ R[i] = T[i] BY <1>5, <1>6, <2>3
    <3>2. T[i] \in Entry BY <1>1, <3>1 DEF Tables, Used
    <3>3. T[i].key \in Keys BY <3>2 DEF Entry
    <3>4. InRange(x, Home(T, T[i].key), i) BY <2>1, <3>1, <3>3
    <3>5. T[x] # NoEntry BY <1>1, <3>1, <3>4 DEF TableOK, NoGap
    <3> QED BY <1>2, <1>4, <3>5
  <2> QED BY <2>2, <2>3
<1>9. Entries(R) = Entries(T) \cup {e}
  <2>1. \A i \in Used(R) : \/ i = at /\ R[i] = e
                           \/ i \in Used(T) /\ R[i] = T[i]
    BY <1>4, <1>5, <1>6
  <2>2. at \in Used(R) /\ \A i \in Used(T) : i \in Used(R) /\ R[i] = T[i] BY <1>5, <1>6
  <2> QED BY <1>4, <2>1, <2>2 DEF Entries
<1>10. TableOK(R, n) BY <1>3, <1>7, <1>8 DEF TableOK
<1> QED BY <1>9, <1>10 DEF R

\* Put adds an entry whose key is not there.
LEMMA PutStep ==
  ASSUME NEW n \in Nat \ {0}, NEW T, TableOK(T, n), NEW e \in Entry,
         Absent(T, e.key), NotInUse(T) # {}
  PROVE  TableOK(Put(T, e), n) /\ Entries(Put(T, e)) = Entries(T) \cup {e}
<1>1. T \in Tables(n) /\ e.key \in Keys BY DEF TableOK, Entry
<1> DEFINE at == Probe(T, e.key, {})
<1> DEFINE wanted == {}
<1>2. wanted \subseteq 0 .. n - 1 /\ NotInUse(T) \cup wanted # {} OBVIOUS
<1> DEFINE key == e.key
<1>3. at = Probe(T, key, wanted) /\ key \in Keys BY <1>1
<1> HIDE DEF at, wanted, key
<1>4. Ends(at, T, n, key, wanted) BY <1>1, <1>2, <1>3, ProbeEnds
<1>5. Fits(T, n, e, at) BY <1>4 DEF wanted, Ends, key, Fits
<1>6. Put(T, e) = Filled(T, at, e) BY DEF Put, at, Filled
<1> QED BY <1>5, <1>6, FillSlot
\* CloseGap's step at the slot next of a walk that began with the table B, and the
\* states it steps through.
VisitSlot(B, s, next) ==
  IF s.done \/ s.table[next] = NoEntry
  THEN [s EXCEPT !.done = TRUE]
  ELSE IF InRange(Home(B, s.table[next].key), s.hole + 1, next)
  THEN s
  ELSE [s EXCEPT !.table[s.hole] = s.table[next], !.table[next] = NoEntry, !.hole = next]

HoleStates(n) == [table : Tables(n), hole : 0 .. n - 1, done : BOOLEAN]

Moved(T, hole, next) == [T EXCEPT ![hole] = T[next], ![next] = NoEntry]

\* An entry that moves into an unused slot takes nothing away and adds nothing.
LEMMA MoveEntry ==
  ASSUME NEW n \in Nat \ {0}, NEW T \in Tables(n), Distinct(T),
         NEW hole \in 0 .. n - 1, NEW next \in 0 .. n - 1,
         T[hole] = NoEntry, T[next] # NoEntry
  PROVE  LET R == Moved(T, hole, next)
         IN  /\ R \in Tables(n) /\ Distinct(R) /\ Entries(R) = Entries(T)
             /\ R[hole] = T[next] /\ R[next] = NoEntry
             /\ \A x \in 0 .. n - 1 : x # hole /\ x # next => R[x] = T[x]
<1> DEFINE R == Moved(T, hole, next)
<1>1. DOMAIN T = 0 .. n - 1 /\ hole # next /\ T[next] \in Entry BY DEF Tables
<1>2. R \in Tables(n) /\ DOMAIN R = 0 .. n - 1 BY <1>1 DEF Tables, Moved
<1>3. R[hole] = T[next] /\ R[next] = NoEntry BY <1>1 DEF Moved, Tables
<1>4. \A x \in 0 .. n - 1 : x # hole /\ x # next => R[x] = T[x] BY <1>1 DEF Moved
<1> HIDE DEF R
<1>5. ASSUME NEW i \in Used(R)
      PROVE  \/ i = hole /\ R[i] = T[next] /\ next \in Used(T)
             \/ i # hole /\ i # next /\ R[i] = T[i] /\ i \in Used(T)
  BY <1>1, <1>2, <1>3, <1>4 DEF Used
<1>6. Distinct(R) BY <1>5 DEF Distinct
<1>7. ASSUME NEW i \in Used(T) PROVE \E j \in Used(R) : R[j] = T[i]
  <2>1. CASE i = next
    <3>1. hole \in Used(R) BY <1>1, <1>2, <1>3 DEF Used
    <3> QED BY <1>3, <2>1, <3>1
  <2>2. CASE i # next
    <3>1. i # hole /\ i \in 0 .. n - 1 BY <1>1 DEF Used
    <3>2. R[i] = T[i] /\ i \in Used(R) BY <1>2, <1>4, <2>2, <3>1 DEF Used
    <3> QED BY <3>2
  <2> QED BY <2>1, <2>2
<1>8. Entries(R) = Entries(T) BY <1>5, <1>7 DEF Entries
<1> QED BY <1>2, <1>3, <1>4, <1>6, <1>8 DEF R

\* The only slot that may be missing between the home of an entry and the entry.
Bridged(s, n, idx, cur) ==
  \A i \in Used(s.table), x \in 0 .. n - 1 :
    InRange(x, Home(s.table, s.table[i].key), i) =>
      s.table[x] # NoEntry \/ (x = s.hole /\ ~ InRange(i, idx, cur))

\* Slots idx to cur are visited, and the walk is not over: the hole is one of them,
\* and in the way only of entries further on. E are the entries that remain.
Closing(s, n, idx, cur, E) ==
  /\ s \in HoleStates(n) /\ ~ s.done /\ s.table[s.hole] = NoEntry
  /\ InRange(s.hole, idx, cur)
  /\ Distinct(s.table) /\ Entries(s.table) = E
  /\ \E u \in 0 .. n - 1 : ~ InRange(u, idx, cur) /\ s.table[u] = NoEntry
  /\ Bridged(s, n, idx, cur)

\* The walk is over, and no entry is missed.
Closed(s, n, E) ==
  s \in HoleStates(n) /\ s.done /\ TableOK(s.table, n) /\ Entries(s.table) = E

\* What a visit does that moves an entry.
LEMMA VisitMoves ==
  ASSUME NEW B, NEW s, s = [table |-> s.table, hole |-> s.hole, done |-> s.done], NEW next,
         ~ (s.done \/ s.table[next] = NoEntry),
         ~ InRange(Home(B, s.table[next].key), s.hole + 1, next)
  PROVE  VisitSlot(B, s, next) =
           [table |-> Moved(s.table, s.hole, next), hole |-> next, done |-> s.done]
<1> SUFFICES ASSUME NEW T, NEW h, NEW d, s = [table |-> T, hole |-> h, done |-> d]
             PROVE  [s EXCEPT !.table[s.hole] = s.table[next], !.table[next] = NoEntry,
                              !.hole = next]
                      = [table |-> Moved(T, h, next), hole |-> next, done |-> d]
  BY DEF VisitSlot
<1> DEFINE A == [T EXCEPT ![h] = T[next]]
<1>1. s.table = T /\ s.hole = h /\ s.done = d OBVIOUS
<1>2. [s EXCEPT !.table = A] = [table |-> A, hole |-> h, done |-> d]
  <2> HIDE DEF A
  <2> QED OBVIOUS
<1>3. [s EXCEPT !.table[s.hole] = s.table[next]] = [table |-> A, hole |-> h, done |-> d]
  BY <1>1, <1>2
<1> DEFINE C == [A EXCEPT ![next] = NoEntry]
           z == [table |-> A, hole |-> h, done |-> d]
<1>4. Moved(T, h, next) = C BY DEF Moved
<1>5. [z EXCEPT !.table[next] = NoEntry, !.hole = next]
        = [table |-> C, hole |-> next, done |-> d]
  <2> HIDE DEF A
  <2>1. z.table = A OBVIOUS
  <2>2. [z.table EXCEPT ![next] = NoEntry] = C BY <2>1
  <2>3. [z EXCEPT !.table = C] = [table |-> C, hole |-> h, done |-> d]
    <3> HIDE DEF C
    <3> QED OBVIOUS
  <2>4. [z EXCEPT !.table[next] = NoEntry] = [table |-> C, hole |-> h, done |-> d]
    <3> HIDE DEF C, z
    <3> QED BY <2>2, <2>3
  <2>5. [[table |-> C, hole |-> h, done |-> d] EXCEPT !.hole = next]
          = [table |-> C, hole |-> next, done |-> d]
    <3> HIDE DEF C
    <3> QED OBVIOUS
  <2> HIDE DEF C, z
  <2> QED BY <2>4, <2>5
<1>6. [s EXCEPT !.table[s.hole] = s.table[next], !.table[next] = NoEntry, !.hole = next]
        = [z EXCEPT !.table[next] = NoEntry, !.hole = next]
  BY <1>3
<1> QED BY <1>4, <1>5, <1>6

\* The walk is declared over.
LEMMA DoneState ==
  ASSUME NEW n, NEW s \in HoleStates(n)
  PROVE  LET d == [s EXCEPT !.done = TRUE]
         IN  d \in HoleStates(n) /\ d.table = s.table /\ d.hole = s.hole
BY DEF HoleStates

\* A visit leads to a state of the walk.
LEMMA VisitType ==
  ASSUME NEW n \in Nat \ {0}, NEW B, NEW s \in HoleStates(n), NEW next \in 0 .. n - 1
  PROVE  VisitSlot(B, s, next) \in HoleStates(n)
<1>1. /\ s.table \in Tables(n) /\ s.hole \in 0 .. n - 1 /\ s.done \in BOOLEAN
      /\ s = [table |-> s.table, hole |-> s.hole, done |-> s.done]
  BY DEF HoleStates
<1>2. CASE s.done \/ s.table[next] = NoEntry
  <2>1. [s EXCEPT !.done = TRUE] \in HoleStates(n) BY DEF HoleStates
  <2> QED BY <1>2, <2>1 DEF VisitSlot
<1>3. CASE ~ (s.done \/ s.table[next] = NoEntry)
  <2>1. s.table[next] \in Entry BY <1>1, <1>3 DEF Tables
  <2>2. Moved(s.table, s.hole, next) \in Tables(n) BY <1>1, <2>1 DEF Tables, Moved
  <2>3. [table |-> Moved(s.table, s.hole, next), hole |-> next, done |-> s.done]
          \in HoleStates(n)
    BY <1>1, <2>2 DEF HoleStates
  <2> QED BY <1>1, <1>3, <2>3, VisitMoves DEF VisitSlot
<1> QED BY <1>2, <1>3

\* On the walk that begins at idx, the slot next comes after cur.
Follows(n, idx, cur, next) ==
  /\ cur \in 0 .. n - 1 /\ next \in 0 .. n - 1 /\ ~ InRange(next, idx, cur)
  /\ \A x \in 0 .. n - 1 : InRange(x, idx, next) <=> InRange(x, idx, cur) \/ x = next

LEMMA NextSlot ==
  ASSUME NEW n \in Nat \ {0}, NEW idx \in 0 .. n - 1, NEW k \in Nat, k + 1 < n
  PROVE  Follows(n, idx, Around(n, idx, k), Around(n, idx, k + 1))
<1> SUFFICES ASSUME NEW cur, cur = Around(n, idx, k),
                    NEW next, next = Around(n, idx, k + 1)
             PROVE  Follows(n, idx, cur, next)
  OBVIOUS
<1> QED BY DEF Around, InRange, Follows

\* What there is to know of the slots on the way: the hole and cur, next and u follow
\* one another from idx on, and h is the home of the entry at i.
LEMMA WayPastHole ==
  ASSUME NEW n \in Nat \ {0}, NEW idx \in 0 .. n - 1, NEW cur, NEW next,
         Follows(n, idx, cur, next), NEW hole \in 0 .. n - 1, NEW h \in 0 .. n - 1,
         InRange(hole, idx, cur)
  PROVE  /\ \A i \in 0 .. n - 1 :
              InRange(hole, h, i) /\ ~ InRange(i, idx, next) => InRange(next, h, i)
         /\ InRange(h, hole + 1, next) => ~ InRange(hole, h, next)
         /\ ~ InRange(h, hole + 1, next) =>
              \A x \in 0 .. n - 1 :
                InRange(x, h, hole) => InRange(x, h, next) /\ x # next
         /\ \A i, u \in 0 .. n - 1 :
              InRange(next, h, i) /\ InRange(i, idx, cur) /\ ~ InRange(u, idx, next)
                => InRange(u, h, i)
BY DEF InRange, Follows

\* The step keeps what holds while the walk goes on, or ends it without a gap.
LEMMA VisitStep ==
  ASSUME NEW n \in Nat \ {0}, NEW idx \in 0 .. n - 1, NEW cur, NEW next,
         Follows(n, idx, cur, next), NEW E, NEW s, Closing(s, n, idx, cur, E),
         NEW B \in Tables(n)
  PROVE  \/ Closing(VisitSlot(B, s, next), n, idx, next, E)
         \/ Closed(VisitSlot(B, s, next), n, E)
<1> SUFFICES ASSUME NEW T, T = s.table, NEW hole, hole = s.hole,
                    NEW t, t = VisitSlot(B, s, next)
             PROVE  Closing(t, n, idx, next, E) \/ Closed(t, n, E)
  OBVIOUS
<1>1. /\ T \in Tables(n) /\ hole \in 0 .. n - 1 /\ ~ s.done /\ T[hole] = NoEntry
      /\ InRange(hole, idx, cur) /\ Distinct(T) /\ Entries(T) = E
      /\ s = [table |-> T, hole |-> hole, done |-> FALSE] /\ s \in HoleStates(n)
  BY DEF Closing, HoleStates
<1>2. PICK u \in 0 .. n - 1 : ~ InRange(u, idx, cur) /\ T[u] = NoEntry BY DEF Closing
<1>3. next \in 0 .. n - 1 /\ hole # next
  BY <1>1 DEF Follows
<1>4. DOMAIN T = 0 .. n - 1 /\ t \in HoleStates(n) BY <1>1, <1>3, VisitType DEF Tables
<1>5. \A key \in Keys : Home(T, key) \in 0 .. n - 1 /\ Home(B, key) = Home(T, key)
  <2>1. DOMAIN B = 0 .. n - 1 BY DEF Tables
  <2> QED BY <1>4, <2>1, HomeIs
<1>6. ASSUME NEW i \in Used(T)
      PROVE  /\ i \in 0 .. n - 1 /\ T[i].key \in Keys /\ Home(T, T[i].key) \in 0 .. n - 1
             /\ Home(B, T[i].key) = Home(T, T[i].key)
  BY <1>1, <1>4, <1>5 DEF Used, Tables, Entry
<1>7. ASSUME NEW i \in Used(T), NEW x \in 0 .. n - 1, InRange(x, Home(T, T[i].key), i)
      PROVE  T[x] # NoEntry \/ (x = hole /\ ~ InRange(i, idx, cur))
  BY <1>7 DEF Closing, Bridged
<1>11. T[next] # NoEntry => next \in Used(T) BY <1>3, <1>4 DEF Used
\* At an unused slot the walk is over.
<1>8. CASE T[next] = NoEntry
  <2>1. t = [s EXCEPT !.done = TRUE] BY <1>8 DEF VisitSlot
  <2>2. t.done /\ t.table = T BY <1>1, <2>1
  <2>3. ASSUME NEW i \in Used(T), NEW x \in DOMAIN T, InRange(x, Home(T, T[i].key), i),
               T[x] = NoEntry
        PROVE  FALSE
    <3>1. x = hole /\ ~ InRange(i, idx, cur) BY <1>4, <1>7, <2>3
    <3>2. i # next /\ i \in 0 .. n - 1 BY <1>6, <1>8 DEF Used
    <3>3. ~ InRange(i, idx, next) BY <3>1, <3>2 DEF Follows
    <3>4. InRange(next, Home(T, T[i].key), i)
      BY <1>1, <1>6, <2>3, <3>1, <3>2, <3>3, WayPastHole
    <3>5. next = hole BY <1>3, <1>7, <1>8, <3>4
    <3> QED BY <1>3, <3>5
  <2>4. NoGap(T) BY <2>3 DEF NoGap
  <2> QED BY <1>1, <1>4, <2>2, <2>4 DEF Closed, TableOK
\* An entry whose home is after the hole stays.
<1>9. CASE T[next] # NoEntry /\ InRange(Home(T, T[next].key), hole + 1, next)
  <2>1. t = s BY <1>1, <1>6, <1>9, <1>11 DEF VisitSlot
  <2>2. InRange(hole, idx, next) BY <1>1 DEF Follows
  <2>3. ~ InRange(u, idx, next) BY <1>2, <1>9 DEF Follows
  <2>4. ASSUME NEW i \in Used(T), NEW x \in 0 .. n - 1, InRange(x, Home(T, T[i].key), i)
        PROVE  T[x] # NoEntry \/ (x = hole /\ ~ InRange(i, idx, next))
    <3>1. CASE i = next
      <4>0. Home(T, T[next].key) \in 0 .. n - 1 BY <1>6, <3>1
      <4>1. ~ InRange(hole, Home(T, T[next].key), next) BY <1>1, <1>9, <4>0, WayPastHole
      <4> QED BY <1>7, <2>4, <3>1, <4>1
    <3>2. CASE i # next
      <4>1. InRange(i, idx, next) <=> InRange(i, idx, cur) BY <1>6, <3>2 DEF Follows
      <4> QED BY <1>7, <2>4, <4>1
    <3> QED BY <3>1, <3>2
  <2>5. Bridged(t, n, idx, next) BY <1>1, <2>1, <2>4 DEF Bridged
  <2>6. Closing(t, n, idx, next, E) BY <1>1, <1>2, <1>4, <2>1, <2>2, <2>3, <2>5 DEF Closing
  <2> QED BY <2>6
\* Another one moves into the hole.
<1>10. CASE T[next] # NoEntry /\ ~ InRange(Home(T, T[next].key), hole + 1, next)
  <2> DEFINE R == Moved(T, hole, next)
  <2>1. t = [table |-> R, hole |-> next, done |-> FALSE]
    <3>1. /\ s = [table |-> s.table, hole |-> s.hole, done |-> s.done]
          /\ ~ (s.done \/ s.table[next] = NoEntry)
          /\ ~ InRange(Home(B, s.table[next].key), s.hole + 1, next)
      BY <1>1, <1>6, <1>10, <1>11
    <3>2. t = [table |-> Moved(s.table, s.hole, next), hole |-> next, done |-> s.done]
      BY ONLY t = VisitSlot(B, s, next), <3>1, VisitMoves
    <3>3. s.table = T /\ s.hole = hole /\ s.done = FALSE BY <1>1
    <3> HIDE DEF R
    <3>4. R = Moved(T, hole, next) BY DEF R
    <3> QED BY ONLY <3>2, <3>3, <3>4
  <2>2. /\ R \in Tables(n) /\ Distinct(R) /\ Entries(R) = Entries(T)
        /\ R[hole] = T[next] /\ R[next] = NoEntry
        /\ \A x \in 0 .. n - 1 : x # hole /\ x # next => R[x] = T[x]
    <3>1. /\ T \in Tables(n) /\ Distinct(T) /\ hole \in 0 .. n - 1 /\ next \in 0 .. n - 1
          /\ T[hole] = NoEntry /\ T[next] # NoEntry
      BY <1>1, <1>3, <1>10
    <3> HIDE DEF R
    <3>2. n \in Nat \ {0} OBVIOUS
    <3> QED BY ONLY <3>1, <3>2, MoveEntry DEF R
  <2> HIDE DEF R
  <2>3. DOMAIN R = 0 .. n - 1 BY <2>2 DEF Tables
  <2>4. \A key \in Keys : Home(R, key) = Home(T, key) BY <1>4, <2>3, HomeIs
  <2>5. u # next /\ u # hole BY <1>1, <1>2, <1>10
  <2>6. ~ InRange(u, idx, next) /\ R[u] = NoEntry BY <1>2, <2>2, <2>5 DEF Follows
  <2>7. ASSUME NEW i \in Used(R), NEW x \in 0 .. n - 1, InRange(x, Home(R, R[i].key), i),
               R[x] = NoEntry
        PROVE  x = next /\ ~ InRange(i, idx, next)
    <3>1. i \in 0 .. n - 1 /\ i # next BY <2>2, <2>3 DEF Used
    <3>2. x # hole BY <1>10, <2>2, <2>7
    <3>3. next \in Used(T) BY <1>3, <1>4, <1>10 DEF Used
    <3>4. CASE i = hole
      <4>1. InRange(x, Home(T, T[next].key), hole) BY <1>6, <2>2, <2>4, <2>7, <3>3, <3>4
      <4>2. InRange(x, Home(T, T[next].key), next) /\ x # next
        <5> SUFFICES ASSUME NEW h, h = Home(T, T[next].key)
                     PROVE  InRange(x, h, next) /\ x # next
          OBVIOUS
        <5>1. h \in 0 .. n - 1 /\ ~ InRange(h, hole + 1, next) /\ InRange(x, h, hole)
          BY <1>6, <1>10, <3>3, <4>1
        <5> QED BY <1>1, <5>1, WayPastHole
      <4>3. T[x] # NoEntry BY <1>7, <3>2, <3>3, <4>2
      <4> QED BY <2>2, <2>7, <3>2, <4>2, <4>3
    <3>5. CASE i # hole
      <4>1. R[i] = T[i] /\ i \in Used(T) BY <1>4, <2>2, <2>7, <3>1, <3>5 DEF Used
      <4>2. InRange(x, Home(T, T[i].key), i) BY <1>6, <2>4, <2>7, <4>1
      <4>3. x = next BY <1>7, <2>2, <2>7, <3>2, <4>1, <4>2
      <4>4. ASSUME InRange(i, idx, cur) PROVE FALSE
        <5>1. InRange(u, Home(T, T[i].key), i)
          BY <1>1, <1>6, <2>6, <3>1, <4>1, <4>2, <4>3, <4>4, WayPastHole
        <5> QED BY <1>2, <1>7, <2>5, <4>1, <5>1
      <4> QED BY <3>1, <4>3, <4>4 DEF Follows
    <3> QED BY <3>4, <3>5
  <2>8. Bridged(t, n, idx, next) BY <2>1, <2>7 DEF Bridged
  <2>9. InRange(next, idx, next) BY <1>3 DEF Follows
  <2>10. t.table = R /\ t.hole = next /\ t.done = FALSE BY <2>1
  <2>11. \E v \in 0 .. n - 1 : ~ InRange(v, idx, next) /\ t.table[v] = NoEntry
    BY <2>6, <2>10
  <2>12. Closing(t, n, idx, next, E)
    BY ONLY <1>1, <1>4, <2>2, <2>8, <2>9, <2>10, <2>11 DEF Closing
  <2> QED BY <2>12
<1> QED BY <1>8, <1>9, <1>10

\* The slots that CloseGap visits: once around the table, and once more.
GapSlot(n, idx, i) == IF i < n THEN Around(n, idx, i) ELSE Around(n, idx, i - n)

\* A walk of CloseGap from a table whose slot idx has been emptied.
IsGapWalk(r, n, T, idx) ==
  /\ r \in [0 .. n + n - 1 -> HoleStates(n)]
  /\ r[0] = [table |-> T, hole |-> idx, done |-> FALSE]
  /\ \A i \in 1 .. n + n - 1 : r[i] = VisitSlot(T, r[i - 1], GapSlot(n, idx, i))

LEMMA GapWalk ==
  ASSUME NEW n \in Nat \ {0}, NEW T \in Tables(n), NEW idx \in 0 .. n - 1
  PROVE  \E r : IsGapWalk(r, n, T, idx) /\ CloseGap(T, idx) = r[n + n - 1].table
<1> DEFINE round == From(T, idx)
           Q == Tail(round) \o round
           m == n + n - 1
           base == [table |-> T, hole |-> idx, done |-> FALSE]
           X == HoleStates(n)
           H == [i \in 1 .. m |-> [y \in X |-> VisitSlot(T, y, GapSlot(n, idx, i))]]
           W == CHOOSE it : it = [s \in SUBSET DOMAIN Q |->
                  IF s = {} THEN base ELSE VisitSlot(T, it[s \ {Max(s)}], Q[Max(s)])]
<1>1. CloseGap(T, idx) = W[DOMAIN Q].table
  BY DEF CloseGap, FoldLeft, MapThenFoldSet, VisitSlot
<1>2. m \in Nat /\ Len(Q) = m /\ \A i \in 1 .. m : Q[i] = GapSlot(n, idx, i)
  <2>1. DOMAIN T = 0 .. n - 1 BY DEF Tables
  <2>2. round = [d \in 1 .. n |-> Around(n, idx, d - 1)] BY <2>1, WalkIs
  <2> HIDE DEF round
  <2>3. round \in Seq(Int) /\ Len(round) = n BY <2>2 DEF Around
  <2>4. Tail(round) \in Seq(Int) /\ Len(Tail(round)) = n - 1
        /\ \A i \in 1 .. n - 1 : Tail(round)[i] = round[i + 1]
    BY <2>3
  <2>6. m \in Nat /\ Len(Q) = m
    <3>1. Len(Q) = Len(Tail(round)) + Len(round) BY <2>3, <2>4
    <3> QED BY <2>3, <2>4, <3>1
  <2>5. ASSUME NEW i \in 1 .. m PROVE Q[i] = GapSlot(n, idx, i)
    <3>1. CASE i < n
      <4>1. Q[i] = round[i + 1] BY <2>3, <2>4, <3>1
      <4> QED BY <2>2, <3>1, <4>1 DEF GapSlot
    <3>2. CASE i >= n
      <4>1. Q[i] = round[i - (n - 1)] BY <2>3, <2>4, <3>2
      <4>2. PICK d \in 1 .. n : d = i - (n - 1) /\ d - 1 = i - n BY <3>2
      <4>3. round[d] = Around(n, idx, d - 1) BY <2>2
      <4>4. ~ (i < n) BY <3>2
      <4> QED BY <4>1, <4>2, <4>3, <4>4 DEF GapSlot
    <3> HIDE DEF Q
    <3> QED BY <2>6, <3>1, <3>2
  <2> HIDE DEF m, Q
  <2> QED BY <2>5, <2>6
<1>3. \A i \in 1 .. m : GapSlot(n, idx, i) \in 0 .. n - 1 BY DEF GapSlot, Around
<1>4. base \in X BY DEF HoleStates, Tables
<1>5. DOMAIN Q = 1 .. m BY <1>2
<1> HIDE DEF m, Q, base, X
<1>6. H \in [1 .. m -> [X -> X]] BY <1>3, VisitType DEF X
<1>7. PICK f \in [SUBSET (1 .. m) -> X] : IsFold(f, m, base, H)
  <2> HIDE DEF H
  <2> QED BY <1>2, <1>4, <1>6, FoldExists
<1>8. f = [s \in SUBSET DOMAIN Q |->
             IF s = {} THEN base ELSE VisitSlot(T, f[s \ {Max(s)}], Q[Max(s)])]
  <2> DEFINE e == [s \in SUBSET (1 .. m) |->
                     IF s = {} THEN base ELSE H[Max(s)][f[s \ {Max(s)}]]]
  <2>1. f = e BY <1>7 DEF IsFold
  <2>2. ASSUME NEW s \in SUBSET (1 .. m), s # {}
        PROVE  H[Max(s)][f[s \ {Max(s)}]] = VisitSlot(T, f[s \ {Max(s)}], Q[Max(s)])
    <3>1. Max(s) \in 1 .. m BY <1>2, <2>2, MaxUpTo
    <3>2. f[s \ {Max(s)}] \in X OBVIOUS
    <3> QED BY <1>2, <3>1, <3>2
  <2> HIDE DEF H
  <2>3. e = [s \in SUBSET (1 .. m) |->
               IF s = {} THEN base ELSE VisitSlot(T, f[s \ {Max(s)}], Q[Max(s)])]
    BY <2>2
  <2> QED BY <1>5, <2>1, <2>3
<1>9. W = [s \in SUBSET DOMAIN Q |->
             IF s = {} THEN base ELSE VisitSlot(T, W[s \ {Max(s)}], Q[Max(s)])]
  BY <1>8
<1>11. PICK r \in [0 .. m -> X] : IsRun(r, m, base, H)
  <2> HIDE DEF H
  <2> QED BY <1>2, <1>4, <1>6, RunExists
<1>13. \A i \in 1 .. m : r[i] = VisitSlot(T, r[i - 1], GapSlot(n, idx, i))
  <2> TAKE i \in 1 .. m
  <2>1. i - 1 \in 0 .. m BY <1>2
  <2>2. r[i - 1] \in X /\ r[i] = H[i][r[i - 1]] BY <1>11, <2>1 DEF IsRun
  <2> QED BY <2>2
<1>14. r[0] = base BY <1>11 DEF IsRun
<1>10. FoldsBy(W, m, r)
  <2> HIDE DEF W
  <2> DEFINE e == [s \in SUBSET (1 .. m) |->
                     IF s = {} THEN base ELSE VisitSlot(T, W[s \ {Max(s)}], Q[Max(s)])]
  <2>1. W = e BY <1>5, <1>9
  <2>2. e[{}] = base OBVIOUS
  <2>3. ASSUME NEW s \in SUBSET (1 .. m), NEW i \in 1 .. m, s # {}, i = Max(s),
               W[s \ {i}] = r[i - 1]
        PROVE  W[s] = r[i]
    <3>1. e[s] = VisitSlot(T, W[s \ {i}], Q[i]) BY <2>3
    <3> HIDE DEF e
    <3> QED BY <1>2, <1>13, <2>1, <2>3, <3>1
  <2> HIDE DEF e, H
  <2> QED BY <1>14, <2>1, <2>2, <2>3 DEF FoldsBy
<1>12. W[1 .. m] = r[m]
  <2> HIDE DEF H, W
  <2> QED BY <1>2, <1>10, FoldIsRun
<1>15. IsGapWalk(r, n, T, idx) BY <1>11, <1>13, <1>14 DEF IsGapWalk, m, X, base
<1> HIDE DEF W
<1> QED BY <1>1, <1>5, <1>12, <1>15 DEF m

Emptied(T, idx) == [T EXCEPT ![idx] = NoEntry]

Opened(T, idx) == [table |-> Emptied(T, idx), hole |-> idx, done |-> FALSE]

\* An entry of the table is taken out of it.
LEMMA EmptySlot ==
  ASSUME NEW n \in Nat \ {0}, NEW T, TableOK(T, n), NEW idx \in Used(T)
  PROVE  /\ Emptied(T, idx) \in Tables(n) /\ Distinct(Emptied(T, idx))
         /\ Emptied(T, idx)[idx] = NoEntry /\ idx \in 0 .. n - 1
         /\ \A x \in 0 .. n - 1 : x # idx => Emptied(T, idx)[x] = T[x]
         /\ Used(Emptied(T, idx)) = Used(T) \ {idx}
         /\ Entries(Emptied(T, idx)) = Entries(T) \ {T[idx]}
         /\ Opened(T, idx) \in HoleStates(n)
<1> DEFINE R == Emptied(T, idx)
<1>1. T \in Tables(n) /\ DOMAIN T = 0 .. n - 1 /\ idx \in 0 .. n - 1
  BY DEF TableOK, Tables, Used
<1>2. R \in Tables(n) /\ DOMAIN R = 0 .. n - 1 BY <1>1 DEF Tables, Emptied
<1>3. R[idx] = NoEntry /\ \A x \in 0 .. n - 1 : x # idx => R[x] = T[x]
  BY <1>1 DEF Emptied
<1> HIDE DEF R
<1>4. Used(R) = Used(T) \ {idx} BY <1>1, <1>2, <1>3 DEF Used
<1>5. \A i \in Used(R) : R[i] = T[i] BY <1>1, <1>3, <1>4 DEF Used
<1>6. Distinct(R) BY <1>4, <1>5 DEF Distinct, TableOK
<1>7. Entries(R) = Entries(T) \ {T[idx]}
  <2>1. \A i \in Used(R) : i \in Used(T) /\ R[i] = T[i] /\ T[i] # T[idx]
    BY <1>4, <1>5 DEF TableOK, Distinct
  <2>2. \A i \in Used(T) : T[i] # T[idx] => i \in Used(R) /\ R[i] = T[i]
    BY <1>4, <1>5
  <2> QED BY <2>1, <2>2 DEF Entries
<1>8. Opened(T, idx) \in HoleStates(n)
  BY <1>1, <1>2 DEF HoleStates, Opened, R
<1> QED BY <1>1, <1>2, <1>3, <1>4, <1>6, <1>7, <1>8 DEF R

\* Before the first visit the emptied slot is the only one that may be missing.
LEMMA WalkStarts ==
  ASSUME NEW n \in Nat \ {0}, NEW T, TableOK(T, n), NEW idx \in Used(T),
         NEW u \in 0 .. n - 1, T[u] = NoEntry
  PROVE  Closing(Opened(T, idx), n, idx, Around(n, idx, 0), Entries(T) \ {T[idx]})
<1> SUFFICES ASSUME NEW R, R = Emptied(T, idx), NEW s, s = Opened(T, idx)
             PROVE  Closing(s, n, idx, idx, Entries(T) \ {T[idx]})
  <2>1. idx \in 0 .. n - 1 BY DEF TableOK, Tables, Used
  <2>2. Around(n, idx, 0) = idx BY <2>1 DEF Around
  <2> QED BY <2>2
<1>1. /\ T \in Tables(n) /\ DOMAIN T = 0 .. n - 1 /\ NoGap(T) /\ T[idx] # NoEntry
  BY DEF TableOK, Tables, Used
<1>2. /\ R \in Tables(n) /\ Distinct(R) /\ R[idx] = NoEntry /\ idx \in 0 .. n - 1
      /\ \A x \in 0 .. n - 1 : x # idx => R[x] = T[x]
      /\ Used(R) = Used(T) \ {idx} /\ Entries(R) = Entries(T) \ {T[idx]}
      /\ s \in HoleStates(n)
  BY EmptySlot
<1>3. s.table = R /\ s.hole = idx /\ s.done = FALSE BY DEF Opened
<1>4. ASSUME NEW i \in Used(R), NEW x \in 0 .. n - 1, InRange(x, Home(R, R[i].key), i)
      PROVE  R[x] # NoEntry \/ (x = idx /\ ~ InRange(i, idx, idx))
  <2>1. i \in Used(T) /\ i # idx /\ i \in 0 .. n - 1 BY <1>1, <1>2 DEF Used
  <2>2. R[i] = T[i] BY <1>2, <2>1
  <2>3. T[i] \in Entry BY <1>1, <2>1 DEF Used, Tables
  <2>4. T[i].key \in Keys BY <2>3 DEF Entry
  <2>5. DOMAIN R = 0 .. n - 1 BY <1>2 DEF Tables
  <2>6. Home(R, R[i].key) = Home(T, T[i].key) BY <1>1, <2>2, <2>4, <2>5, HomeIs
  <2>7. T[x] # NoEntry BY <1>1, <1>4, <2>1, <2>6 DEF NoGap
  <2>8. ~ InRange(i, idx, idx) BY <1>2, <2>1 DEF InRange
  <2> QED BY <1>2, <2>7, <2>8
<1>5. Bridged(s, n, idx, idx) BY <1>3, <1>4 DEF Bridged
<1>6. InRange(idx, idx, idx) BY <1>2 DEF InRange
<1>7. ~ InRange(u, idx, idx) /\ R[u] = NoEntry
  <2>1. u # idx BY <1>1
  <2> QED BY <1>2, <2>1 DEF InRange
<1> QED BY <1>2, <1>3, <1>5, <1>6, <1>7 DEF Closing

\* A walk that is over stays so.
LEMMA ClosedStays ==
  ASSUME NEW n, NEW E, NEW s, Closed(s, n, E), NEW B, NEW next
  PROVE  VisitSlot(B, s, next) = s
<1>1. s.done = TRUE /\ s \in HoleStates(n) BY DEF Closed, HoleStates
<1>2. [s EXCEPT !.done = TRUE] = s BY <1>1 DEF HoleStates
<1> QED BY <1>1, <1>2 DEF VisitSlot

\* Once around the table the walk has met the unused slot.
LEMMA WalkCloses ==
  ASSUME NEW n \in Nat \ {0}, NEW T, TableOK(T, n), NEW idx \in Used(T),
         NEW u \in 0 .. n - 1, T[u] = NoEntry,
         NEW r, IsGapWalk(r, n, Emptied(T, idx), idx)
  PROVE  Closed(r[n + n - 1], n, Entries(T) \ {T[idx]})
<1> DEFINE E == Entries(T) \ {T[idx]}
           B == Emptied(T, idx)
           m == n + n - 1
           A(i) == Closed(r[i], n, E) \/ (i < n /\ Closing(r[i], n, idx, Around(n, idx, i), E))
           Z == {i \in 0 .. m : ~ A(i)}
<1>0. idx \in 0 .. n - 1 /\ m \in Nat /\ n <= m /\ B \in Tables(n)
  <2>1. B \in Tables(n) /\ idx \in 0 .. n - 1 BY EmptySlot
  <2> HIDE DEF B
  <2> QED BY <2>1
<1>1. r[0] = Opened(T, idx) BY DEF IsGapWalk, Opened
<1>2. ASSUME NEW i \in 1 .. m PROVE r[i] = VisitSlot(B, r[i - 1], GapSlot(n, idx, i))
  BY DEF IsGapWalk
<1>3. Closing(r[0], n, idx, Around(n, idx, 0), E) BY <1>1, WalkStarts
<1> HIDE DEF E, B, m
\* The last slot of a round leaves none that is not visited.
<1>4. ASSUME NEW s, Closing(s, n, idx, Around(n, idx, n - 1), E) PROVE FALSE
  <2>1. PICK v \in 0 .. n - 1 : ~ InRange(v, idx, Around(n, idx, n - 1))
    BY <1>4 DEF Closing
  <2> QED BY <1>0, <2>1 DEF InRange, Around
<1>5. Z = {}
  <2> SUFFICES ASSUME Z # {} PROVE FALSE OBVIOUS
  <2>1. PICK i \in Z : \A j \in Z : i <= j
    <3>1. Z \subseteq Nat BY <1>0
    <3> HIDE DEF Z
    <3> QED BY <3>1, NatMin
  <2>2. i \in 0 .. m /\ ~ A(i) OBVIOUS
  <2>3. i # 0
    <3>1. 0 < n /\ Closing(r[0], n, idx, Around(n, idx, 0), E) BY <1>3
    <3>2. A(0) BY <3>1
    <3> HIDE DEF A
    <3> QED BY <2>2, <3>2
  <2>4. i \in 1 .. m /\ i - 1 \in 0 .. m /\ ~ (i <= i - 1) BY <1>0, <2>2, <2>3
  <2>5. A(i - 1)
    <3> HIDE DEF A
    <3> QED BY <2>1, <2>4
  <2>6. r[i] = VisitSlot(B, r[i - 1], GapSlot(n, idx, i)) BY <1>2, <2>4
  <2>7. CASE Closed(r[i - 1], n, E)
    <3>1. r[i] = r[i - 1] BY <2>6, <2>7, ClosedStays
    <3> QED BY <2>2, <2>7, <3>1
  <2>8. CASE i - 1 < n /\ Closing(r[i - 1], n, idx, Around(n, idx, i - 1), E)
    <3>1. CASE i - 1 = n - 1 BY <1>4, <2>8, <3>1
    <3>2. CASE i - 1 # n - 1
      <4> DEFINE k == i - 1
      <4>1. k \in Nat /\ k + 1 < n /\ i = k + 1 BY <1>0, <2>4, <2>8, <3>2
      <4> HIDE DEF k
      <4>2. Follows(n, idx, Around(n, idx, k), Around(n, idx, k + 1))
        BY <1>0, <4>1, NextSlot
      <4>3. GapSlot(n, idx, i) = Around(n, idx, k + 1) BY <4>1 DEF GapSlot
      <4>4. r[i] = VisitSlot(B, r[k], Around(n, idx, k + 1)) BY <2>6, <4>3 DEF k
      <4>5. Closing(r[k], n, idx, Around(n, idx, k), E) BY <2>8 DEF k
      <4>6. Closing(r[i], n, idx, Around(n, idx, k + 1), E) \/ Closed(r[i], n, E)
        BY <1>0, <4>2, <4>4, <4>5, VisitStep
      <4> QED BY <2>2, <4>1, <4>6
    <3> QED BY <3>1, <3>2
  <2> QED BY <2>5, <2>7, <2>8
<1>7. A(m)
  <2> HIDE DEF A
  <2>1. m \in 0 .. m BY <1>0
  <2> QED BY <1>5, <2>1
<1>8. CASE Closed(r[m], n, E) BY <1>8 DEF m, E
<1>9. CASE m < n /\ Closing(r[m], n, idx, Around(n, idx, m), E)
  <2>1. m = n - 1 BY <1>0, <1>9 DEF m
  <2> QED BY <1>4, <1>9, <2>1
<1> QED BY <1>7, <1>8, <1>9

\* A table of two slots, one of them unused, whose entry is at its home.
Settled(s, E) ==
  /\ s \in HoleStates(2) /\ s.table[s.hole] = NoEntry /\ Entries(s.table) = E
  /\ \A i \in Used(s.table) : Home(s.table, s.table[i].key) = i

\* A visit leaves it as it is.
LEMMA SettledStays ==
  ASSUME NEW E, NEW s, Settled(s, E), NEW B \in Tables(2), NEW next \in 0 .. 1
  PROVE  Settled(VisitSlot(B, s, next), E)
<1>1. /\ s.table \in Tables(2) /\ s.hole \in 0 .. 1 /\ s.done \in BOOLEAN
      /\ s = [table |-> s.table, hole |-> s.hole, done |-> s.done]
      /\ DOMAIN s.table = 0 .. 1 /\ DOMAIN B = 0 .. 1
  BY DEF Settled, HoleStates, Tables
<1>2. CASE s.done \/ s.table[next] = NoEntry
  <2>1. VisitSlot(B, s, next) = [s EXCEPT !.done = TRUE] BY <1>2 DEF VisitSlot
  <2>2. /\ VisitSlot(B, s, next) \in HoleStates(2)
        /\ VisitSlot(B, s, next).table = s.table /\ VisitSlot(B, s, next).hole = s.hole
    BY <2>1, DoneState DEF Settled
  <2> QED BY <2>2 DEF Settled
<1>3. CASE ~ (s.done \/ s.table[next] = NoEntry)
  <2>1. s.table[next] \in Entry /\ next \in Used(s.table) BY <1>1, <1>3 DEF Tables, Used
  <2>2. s.table[next].key \in Keys BY <2>1 DEF Entry
  <2>3. Home(B, s.table[next].key) = next
    <3> DEFINE n == 2
    <3>1. n \in Nat \ {0} /\ n - 1 = 1 OBVIOUS
    <3> HIDE DEF n
    <3>2. Home(B, s.table[next].key) = Home(s.table, s.table[next].key)
      BY <1>1, <2>2, <3>1, HomeIs
    <3> QED BY <2>1, <3>2 DEF Settled
  <2>4. next # s.hole BY <1>3 DEF Settled
  <2>5. InRange(next, s.hole + 1, next) BY <1>1, <2>4 DEF InRange
  <2>6. VisitSlot(B, s, next) = s BY <1>3, <2>3, <2>5 DEF VisitSlot
  <2> QED BY <2>6
<1> QED BY <1>2, <1>3

\* Such a table has no gap.
LEMMA SettledOK ==
  ASSUME NEW E, NEW s, Settled(s, E)
  PROVE  TableOK(s.table, 2) /\ Entries(s.table) = E
<1>1. /\ s.table \in Tables(2) /\ s.hole \in 0 .. 1 /\ DOMAIN s.table = 0 .. 1
      /\ s.table[s.hole] = NoEntry
  BY DEF Settled, HoleStates, Tables
<1>2. \A i \in Used(s.table) : i \in 0 .. 1 /\ i # s.hole BY <1>1 DEF Used
<1>3. Distinct(s.table) BY <1>1, <1>2 DEF Distinct
<1>4. ASSUME NEW i \in Used(s.table), NEW x \in DOMAIN s.table,
             InRange(x, Home(s.table, s.table[i].key), i)
      PROVE  s.table[x] # NoEntry
  <2>1. InRange(x, i, i) BY <1>4 DEF Settled
  <2>2. x = i BY <1>1, <1>2, <2>1 DEF InRange
  <2> QED BY <2>2 DEF Used
<1> QED BY <1>1, <1>3, <1>4 DEF TableOK, NoGap, Settled

\* In a cache of capacity 1 the table is full when the older of two entries is evicted.
LEMMA TwoSlots ==
  ASSUME NEW T, TableOK(T, 2), NEW idx \in Used(T), NEW o \in 0 .. 1, o # idx,
         T[o] # NoEntry, NEW r, IsGapWalk(r, 2, Emptied(T, idx), idx)
  PROVE  TableOK(r[3].table, 2) /\ Entries(r[3].table) = Entries(T) \ {T[idx]}
<1> SUFFICES ASSUME NEW n, n = 2, NEW B, B = Emptied(T, idx),
                    NEW E, E = Entries(T) \ {T[idx]}
             PROVE  Settled(r[3], E)
  BY SettledOK
<1>1. /\ B \in Tables(2) /\ B[idx] = NoEntry /\ idx \in 0 .. 1 /\ Entries(B) = E
      /\ \A x \in 0 .. 1 : x # idx => B[x] = T[x]
      /\ Used(B) = Used(T) \ {idx} /\ Opened(T, idx) \in HoleStates(2) /\ Distinct(B)
  <2>1. n \in Nat \ {0} /\ n - 1 = 1 /\ TableOK(T, n) OBVIOUS
  <2> QED BY <2>1, EmptySlot
<1>2. PICK s, s1, s2 :
        /\ s = [table |-> B, hole |-> idx, done |-> FALSE] /\ s \in HoleStates(2)
        /\ s1 = VisitSlot(B, s, GapSlot(2, idx, 1))
        /\ s2 = VisitSlot(B, s1, GapSlot(2, idx, 2))
        /\ r[3] = VisitSlot(B, s2, GapSlot(2, idx, 3))
  <2>1. /\ r[0] = [table |-> B, hole |-> idx, done |-> FALSE] /\ r[0] \in HoleStates(2)
    BY <1>1 DEF IsGapWalk, Opened
  <2>2. \A i \in 1 .. 3 : r[i] = VisitSlot(B, r[i - 1], GapSlot(2, idx, i))
    BY <1>1 DEF IsGapWalk
  <2>3. 1 \in 1 .. 3 /\ 2 \in 1 .. 3 /\ 3 \in 1 .. 3 /\ 1 - 1 = 0 /\ 2 - 1 = 1 /\ 3 - 1 = 2
    OBVIOUS
  <2>4. /\ r[1] = VisitSlot(B, r[0], GapSlot(2, idx, 1))
        /\ r[2] = VisitSlot(B, r[1], GapSlot(2, idx, 2))
        /\ r[3] = VisitSlot(B, r[2], GapSlot(2, idx, 3))
    BY ONLY <2>2, <2>3, Zenon
  <2> QED BY <2>1, <2>4, Zenon
<1>3. GapSlot(2, idx, 1) = o /\ GapSlot(2, idx, 2) \in 0 .. 1 /\ GapSlot(2, idx, 3) \in 0 .. 1
  BY <1>1 DEF GapSlot, Around
<1>4. DOMAIN B = 0 .. 1 /\ B[o] = T[o] /\ Used(B) = {o}
  BY <1>1 DEF Tables, Used
<1>5. B[o] \in Entry /\ B[o].key \in Keys
  <2>1. B[o] \in Entry BY <1>1, <1>4 DEF Tables
  <2> QED BY <2>1 DEF Entry
<1>6. /\ \A R : DOMAIN R = 0 .. 1 => Home(R, B[o].key) = Home(B, B[o].key)
      /\ Home(B, B[o].key) \in 0 .. 1
  <2>1. n \in Nat \ {0} /\ n - 1 = 1 OBVIOUS
  <2> QED BY <1>4, <1>5, <2>1, HomeIs
<1>9. s.table = B /\ s.hole = idx /\ s.done = FALSE BY <1>2
<1>7. Settled(s1, E)
  <2>1. CASE InRange(Home(B, B[o].key), idx + 1, o)
    <3>1. s1 = s
      <4>1. ~ s.done /\ s.table[o] # NoEntry /\ InRange(Home(B, s.table[o].key), s.hole + 1, o)
        BY <1>4, <1>9, <2>1
      <4>2. VisitSlot(B, s, o) = s BY ONLY <4>1 DEF VisitSlot
      <4> QED BY <1>2, <1>3, <4>2
    <3>2. Home(B, B[o].key) = o BY <1>1, <1>6, <2>1 DEF InRange
    <3>3. s1.table = B /\ s1.hole = idx /\ s1 \in HoleStates(2) BY ONLY <1>2, <1>9, <3>1
    <3> QED BY ONLY <1>1, <1>4, <3>2, <3>3 DEF Settled
  <2>2. CASE ~ InRange(Home(B, B[o].key), idx + 1, o)
    <3> DEFINE R == Moved(B, idx, o)
    <3>1. s1 = [table |-> R, hole |-> o, done |-> FALSE]
      <4>1. /\ s = [table |-> s.table, hole |-> s.hole, done |-> s.done]
            /\ ~ (s.done \/ s.table[o] = NoEntry)
            /\ ~ InRange(Home(B, s.table[o].key), s.hole + 1, o)
        BY <1>2, <1>4, <2>2
      <4>2. VisitSlot(B, s, o) =
              [table |-> Moved(s.table, s.hole, o), hole |-> o, done |-> s.done]
        BY ONLY <4>1, VisitMoves
      <4>3. s.table = B /\ s.hole = idx /\ s.done = FALSE BY <1>2
      <4> QED BY ONLY <1>2, <1>3, <4>2, <4>3
    <3>2. /\ R \in Tables(2) /\ Entries(R) = Entries(B) /\ R[idx] = B[o] /\ R[o] = NoEntry
      <4>1. n \in Nat \ {0} /\ n - 1 = 1 /\ B \in Tables(n) BY <1>1
      <4>2. idx \in 0 .. n - 1 /\ o \in 0 .. n - 1 /\ B[o] # NoEntry BY <1>1, <1>4, <4>1
      <4> HIDE DEF R
      <4> QED BY ONLY <1>1, <4>1, <4>2, n = 2, MoveEntry DEF R
    <3> HIDE DEF R
    <3>3. DOMAIN R = 0 .. 1 BY <3>2 DEF Tables
    <3>4. Home(B, B[o].key) = idx BY <1>1, <1>6, <2>2 DEF InRange
    <3>5. Home(R, R[idx].key) = idx BY <1>6, <3>2, <3>3, <3>4
    <3>6. \A i \in Used(R) : i = idx BY <1>1, <3>2, <3>3 DEF Used
    <3>7. /\ s1.table = R /\ s1.hole = o /\ s1 \in HoleStates(2)
      BY <3>1, <3>2 DEF HoleStates
    <3> QED BY <1>1, <3>2, <3>5, <3>6, <3>7 DEF Settled
  <2> QED BY <2>1, <2>2
<1>8. Settled(s2, E) BY <1>1, <1>2, <1>3, <1>7, SettledStays
<1> QED BY <1>1, <1>2, <1>3, <1>8, SettledStays

\* EvictItem takes an entry out of the table and leaves no gap: another slot is unused,
\* or the table has two.
LEMMA RemoveStep ==
  ASSUME NEW n \in Nat \ {0}, NEW T, TableOK(T, n), NEW idx \in Used(T),
         NotInUse(T) # {} \/ n = 2
  PROVE  /\ TableOK(CloseGap(Emptied(T, idx), idx), n)
         /\ Entries(CloseGap(Emptied(T, idx), idx)) = Entries(T) \ {T[idx]}
<1>1. Emptied(T, idx) \in Tables(n) /\ idx \in 0 .. n - 1 BY EmptySlot
<1>2. PICK r : /\ IsGapWalk(r, n, Emptied(T, idx), idx)
               /\ CloseGap(Emptied(T, idx), idx) = r[n + n - 1].table
  BY <1>1, GapWalk
<1>3. CASE NotInUse(T) # {}
  <2>1. PICK u \in 0 .. n - 1 : T[u] = NoEntry
    <3>1. DOMAIN T = 0 .. n - 1 BY DEF TableOK, Tables
    <3> QED BY <1>3, <3>1 DEF NotInUse
  <2>2. Closed(r[n + n - 1], n, Entries(T) \ {T[idx]}) BY <1>2, <2>1, WalkCloses
  <2> QED BY <1>2, <2>2 DEF Closed
<1>4. CASE NotInUse(T) = {} /\ n = 2
  <2>1. PICK o \in 0 .. 1 : o # idx BY <1>1, <1>4
  <2>2. T[o] # NoEntry
    <3>1. DOMAIN T = 0 .. 1 BY <1>4 DEF TableOK, Tables
    <3> QED BY <1>4, <3>1 DEF NotInUse
  <2>3. TableOK(T, 2) /\ IsGapWalk(r, 2, Emptied(T, idx), idx) BY <1>2, <1>4
  <2>4. TableOK(r[3].table, 2) /\ Entries(r[3].table) = Entries(T) \ {T[idx]}
    BY <2>1, <2>2, <2>3, TwoSlots
  <2>5. n + n - 1 = 3 BY <1>4
  <2> QED BY <1>2, <1>4, <2>4, <2>5
<1> QED BY <1>3, <1>4

(***************************************************************************)
(* The operations on the fields of the cache.                              *)
(***************************************************************************)
\* The table has more slots than the capacity, and one more again or two in all while
\* an entry too many is in it.
LEMMA TableSizeIs ==
  ASSUME NEW c \in Nat
  PROVE  /\ TableSize(c) \in Nat \ {0} /\ c < TableSize(c)
         /\ c # 0 => c + 1 < TableSize(c) \/ TableSize(c) = 2
<1> DEFINE m == 19 * c
           q == m \div 10
           r == m % 10
<1>1. q \in Nat /\ r \in 0 .. 9 /\ m = 10 * q + r /\ m \in Nat
  <2>1. m \in Nat OBVIOUS
  <2> HIDE DEF m
  <2>2. m \div 10 \in Nat /\ m % 10 \in 0 .. 10 - 1 /\ m = 10 * (m \div 10) + (m % 10)
    BY <2>1, DivMod
  <2> QED BY <2>1, <2>2
<1>2. TableSize(c) = q + 1 BY DEF TableSize
<1>3. m = 19 * c OBVIOUS
<1> HIDE DEF m, q, r
<1> QED BY <1>1, <1>2, <1>3

\* A table with fewer keys than slots has an unused slot.
LEMMA NotFull ==
  ASSUME NEW n \in Nat \ {0}, NEW T, TableOK(T, n), NEW q \in Seq(Keys), Len(q) < n,
         \A e \in Entries(T) : e.key \in ToSet(q)
  PROVE  NotInUse(T) # {}
<1> SUFFICES ASSUME NotInUse(T) = {} PROVE FALSE OBVIOUS
<1>1. DOMAIN T = 0 .. n - 1 BY DEF TableOK, Tables
<1>2. \A i \in 0 .. n - 1 : i \in Used(T) BY <1>1 DEF NotInUse, Used
<1> DEFINE f == [i \in 0 .. n - 1 |-> CHOOSE k \in 1 .. Len(q) : q[k] = T[i].key]
<1>3. ASSUME NEW i \in 0 .. n - 1 PROVE f[i] \in 1 .. Len(q) /\ q[f[i]] = T[i].key
  <2>1. T[i].key \in ToSet(q) BY <1>2 DEF Entries
  <2>2. \E k \in 1 .. Len(q) : q[k] = T[i].key BY <2>1 DEF ToSet
  <2> QED BY <2>2
<1>4. f \in [0 .. n - 1 -> 1 .. Len(q)] BY <1>3
<1>5. \A i, j \in 0 .. n - 1 : f[i] = f[j] => i = j
  <2> HIDE DEF f
  <2> QED BY <1>2, <1>3 DEF TableOK, Distinct
<1> HIDE DEF f
<1>6. f \in Injection(0 .. n - 1, 1 .. Len(q)) BY <1>4, <1>5 DEF Injection, IsInjective
<1>7. Len(q) \in Nat /\ IsFiniteSet(1 .. Len(q)) /\ Cardinality(1 .. Len(q)) = Len(q)
  <2>1. Len(q) \in Nat OBVIOUS
  <2> QED BY <2>1, UpTo
<1>8. Cardinality(0 .. n - 1) = n
  <2>1. 0 \in Int /\ n - 1 \in Int /\ 0 <= n - 1 OBVIOUS
  <2>2. Cardinality(0 .. n - 1) = (n - 1) - 0 + 1 BY <2>1, FS_Interval
  <2> QED BY <2>2
<1>9. Cardinality(0 .. n - 1) <= Cardinality(1 .. Len(q)) BY <1>6, <1>7, FS_Injection
<1> QED BY <1>7, <1>8, <1>9

\* The slot at which a probe for a key ends: the key's, or one where it may be put.
LookupEnds(x, T, n, key) ==
  /\ x \in 0 .. n - 1
  /\ T[x] = NoEntry => Absent(T, key) /\ Passable(T, n, Home(T, key), x)
  /\ T[x] # NoEntry => x \in Used(T) /\ T[x] \in Entry /\ T[x].key = key

LEMMA Lookup ==
  ASSUME NEW n \in Nat \ {0}, NEW T, TableOK(T, n), NotInUse(T) # {}, NEW key \in Keys
  PROVE  LookupEnds(Probe(T, key, Holding(T, key)), T, n, key)
<1> SUFFICES ASSUME NEW x, x = Probe(T, key, Holding(T, key))
             PROVE  LookupEnds(x, T, n, key)
  OBVIOUS
<1>1. T \in Tables(n) /\ DOMAIN T = 0 .. n - 1 BY DEF TableOK, Tables
<1>2. Holding(T, key) \subseteq 0 .. n - 1 BY <1>1 DEF Holding
<1>3. Ends(x, T, n, key, Holding(T, key)) BY <1>1, <1>2, ProbeEnds
<1>4. x \in 0 .. n - 1 /\ Passable(T, n, Home(T, key), x)
      /\ (T[x] = NoEntry \/ x \in Holding(T, key))
  BY <1>3 DEF Ends
<1>5. T[x] = NoEntry => Absent(T, key) BY ProbeMisses
<1>6. T[x] # NoEntry => x \in Used(T) /\ T[x] \in Entry /\ T[x].key = key
  BY <1>1, <1>4 DEF Holding, Used, Tables
<1> QED BY <1>4, <1>5, <1>6 DEF LookupEnds

\* The fields of a cache.
LEMMA Fields ==
  ASSUME NEW c, Good(c)
  PROVE  /\ c.capacity \in Nat /\ c.capacity \in Capacities
         /\ TableSize(c.capacity) \in Nat \ {0}
         /\ c.hash \in Tables(TableSize(c.capacity))
         /\ DOMAIN c.hash = 0 .. TableSize(c.capacity) - 1
         /\ c.insertion_order \in Seq(Keys) /\ c.evicted \in Seq(Entry)
         /\ c.size = Len(c.insertion_order)
         /\ c.allocated = Len(c.insertion_order) + Len(c.evicted)
         /\ c.size \in Nat /\ c.allocated \in Nat
         /\ c = [capacity |-> c.capacity, size |-> c.size, allocated |-> c.allocated,
                 insertion_order |-> c.insertion_order, evicted |-> c.evicted,
                 hash |-> c.hash]
<1>1. c \in CacheStates BY DEF Good
<1>2. /\ c.capacity \in Capacities /\ c.insertion_order \in Seq(Keys)
      /\ c.evicted \in Seq(Entry) /\ c.size \in Nat /\ c.allocated \in Nat
      /\ c = [capacity |-> c.capacity, size |-> c.size, allocated |-> c.allocated,
              insertion_order |-> c.insertion_order, evicted |-> c.evicted,
              hash |-> c.hash]
  BY <1>1 DEF CacheStates
<1>3. c.capacity \in Nat BY <1>2, CacheAssumption
<1>4. TableSize(c.capacity) \in Nat \ {0} BY <1>3, TableSizeIs
<1>5. c.hash \in Tables(TableSize(c.capacity))
      /\ DOMAIN c.hash = 0 .. TableSize(c.capacity) - 1
  BY DEF Good, TableOK, Tables
<1> QED BY <1>2, <1>3, <1>4, <1>5 DEF Good, Counted

\* The table is not full, or has two slots.
Roomy(c) == Len(c.insertion_order) < TableSize(c.capacity) \/ TableSize(c.capacity) = 2

\* d is c without its k oldest entries: of those in the table, none that is pinned is
\* deleted.
Dropped(c, d, k) ==
  /\ Good(d) /\ d.capacity = c.capacity
  /\ k \in 0 .. Len(c.insertion_order)
  /\ Len(d.insertion_order) = Len(c.insertion_order) - k
  /\ \A i \in 1 .. Len(d.insertion_order) : d.insertion_order[i] = c.insertion_order[i + k]
  /\ Entries(d.hash) \subseteq Entries(c.hash)
  /\ All(d) \subseteq All(c)
  /\ \A e \in All(c) : e \in All(d) \/ e.pins = 0

\* The oldest entry's slot.
LEMMA OldestAt ==
  ASSUME NEW c, Good(c), Len(c.insertion_order) # 0
  PROVE  LET key == Head(c.insertion_order)
             idx == First(From(c.hash, Home(c.hash, key)), Holding(c.hash, key))
         IN  /\ idx \in Used(c.hash) /\ c.hash[idx] \in Entry /\ c.hash[idx].key = key
             /\ key \in Keys
<1> DEFINE n == TableSize(c.capacity)
           T == c.hash
           key == Head(c.insertion_order)
<1>1. /\ n \in Nat \ {0} /\ T \in Tables(n) /\ DOMAIN T = 0 .. n - 1 /\ TableOK(T, n)
      /\ c.insertion_order \in Seq(Keys)
  BY Fields DEF Good
<1>2. key \in ToSet(c.insertion_order) /\ key \in Keys
  BY <1>1 DEF ToSet
<1>3. PICK i \in Used(T) : T[i].key = key
  <2>1. \E e \in Entries(T) : e.key = key BY <1>2 DEF Good, KeysAgree
  <2> QED BY <2>1 DEF Entries
<1> HIDE DEF n, T, key
<1>4. Holding(T, key) = {i} BY <1>1, <1>3, ProbeFinds
<1>5. Home(T, key) \in 0 .. n - 1 BY <1>1, <1>2, HomeIs
<1>6. i \in 0 .. n - 1 /\ T[i] \in Entry BY <1>1, <1>3 DEF Used, Tables
<1>7. FirstOn(First(From(T, Home(T, key)), {i}), n, Home(T, key), {i})
  <2> DEFINE S == {i}
  <2>1. S \subseteq 0 .. n - 1 /\ S # {} BY <1>6
  <2> HIDE DEF S
  <2>2. FirstOn(First(From(T, Home(T, key)), S), n, Home(T, key), S)
    BY <1>1, <1>5, <2>1, WalkFirst
  <2> QED BY <2>2 DEF S
<1>8. First(From(T, Home(T, key)), Holding(T, key)) = i BY <1>4, <1>7 DEF FirstOn
<1> QED BY <1>2, <1>3, <1>6, <1>8 DEF T, key

\* What EvictItem makes of the fields.
LEMMA EvictFields ==
  ASSUME NEW c, Good(c), Len(c.insertion_order) # 0
  PROVE  \E idx \in Used(c.hash) :
           /\ c.hash[idx] \in Entry /\ c.hash[idx].key = Head(c.insertion_order)
           /\ EvictItem(c) =
                [capacity |-> c.capacity, size |-> c.size - 1,
                 allocated |-> IF c.hash[idx].pins = 0 THEN c.allocated - 1 ELSE c.allocated,
                 insertion_order |-> Tail(c.insertion_order),
                 evicted |-> IF c.hash[idx].pins = 0 THEN c.evicted
                             ELSE Append(c.evicted, c.hash[idx]),
                 hash |-> CloseGap(Emptied(c.hash, idx), idx)]
<1> DEFINE key == Head(c.insertion_order)
           idx == First(From(c.hash, Home(c.hash, key)), Holding(c.hash, key))
<1>1. idx \in Used(c.hash) /\ c.hash[idx] \in Entry /\ c.hash[idx].key = key
  BY OldestAt
<1> DEFINE entry == c.hash[idx]
           al == IF entry.pins = 0 THEN c.allocated - 1 ELSE c.allocated
           ev == IF entry.pins = 0 THEN c.evicted ELSE Append(c.evicted, entry)
           ha == CloseGap(Emptied(c.hash, idx), idx)
           qu == Tail(c.insertion_order)
           sz == c.size - 1
<1>2. EvictItem(c) = [c EXCEPT !.size = sz, !.insertion_order = qu, !.allocated = al,
                               !.evicted = ev, !.hash = ha]
  BY Fields DEF EvictItem, Emptied
<1> HIDE DEF al, ev, ha, qu, sz
<1>3. EvictItem(c) = [capacity |-> c.capacity, size |-> sz, allocated |-> al,
                      insertion_order |-> qu, evicted |-> ev, hash |-> ha]
  BY <1>2, Fields
<1> HIDE DEF idx
<1>4. EvictItem(c) = 
        [capacity |-> c.capacity, size |-> c.size - 1,
         allocated |-> IF c.hash[idx].pins = 0 THEN c.allocated - 1 ELSE c.allocated,
         insertion_order |-> Tail(c.insertion_order),
         evicted |-> IF c.hash[idx].pins = 0 THEN c.evicted
                     ELSE Append(c.evicted, c.hash[idx]),
         hash |-> CloseGap(Emptied(c.hash, idx), idx)]
  BY <1>3 DEF al, ev, ha, qu, sz
<1> QED BY <1>1, <1>4

\* A queue of which each element is there once, without its first.
LEMMA TailOnce ==
  ASSUME NEW S, NEW q \in Seq(S), Len(q) # 0, OneSlotEach(q)
  PROVE  /\ Tail(q) \in Seq(S) /\ Len(Tail(q)) = Len(q) - 1
         /\ \A i \in 1 .. Len(q) - 1 : Tail(q)[i] = q[i + 1]
         /\ OneSlotEach(Tail(q)) /\ ToSet(Tail(q)) = ToSet(q) \ {Head(q)}
<1>1. /\ Tail(q) \in Seq(S) /\ Len(Tail(q)) = Len(q) - 1
      /\ \A i \in 1 .. Len(q) - 1 : Tail(q)[i] = q[i + 1]
      /\ Head(q) = q[1] /\ Len(q) \in Nat /\ DOMAIN q = 1 .. Len(q)
      /\ DOMAIN Tail(q) = 1 .. Len(q) - 1
  OBVIOUS
<1> SUFFICES ASSUME NEW p, p = Tail(q)
             PROVE  OneSlotEach(p) /\ ToSet(p) = ToSet(q) \ {q[1]}
  BY <1>1
<1>2. OneSlotEach(p) BY <1>1 DEF OneSlotEach
<1>3. \A i \in 1 .. Len(q) - 1 : p[i] \in ToSet(q) /\ p[i] # q[1]
  <2> TAKE i \in 1 .. Len(q) - 1
  <2>1. i + 1 \in 1 .. Len(q) /\ 1 \in 1 .. Len(q) /\ i + 1 # 1 BY <1>1
  <2> QED BY <1>1, <2>1 DEF OneSlotEach, ToSet
<1>4. \A i \in 1 .. Len(q) : q[i] # q[1] => q[i] \in ToSet(p)
  <2> TAKE i \in 1 .. Len(q)
  <2> HAVE q[i] # q[1]
  <2>1. i - 1 \in 1 .. Len(q) - 1 /\ (i - 1) + 1 = i BY <1>1
  <2>2. p[i - 1] = q[i] BY <1>1, <2>1
  <2> QED BY <1>1, <2>1, <2>2 DEF ToSet
<1> QED BY <1>1, <1>2, <1>3, <1>4 DEF ToSet

\* The elements of a sequence and one more.
LEMMA AppendSet ==
  ASSUME NEW S, NEW q \in Seq(S), NEW x \in S
  PROVE  /\ Append(q, x) \in Seq(S) /\ Len(Append(q, x)) = Len(q) + 1
         /\ \A i \in 1 .. Len(q) : Append(q, x)[i] = q[i]
         /\ Append(q, x)[Len(q) + 1] = x
         /\ ToSet(Append(q, x)) = ToSet(q) \cup {x}
<1>1. /\ Append(q, x) \in Seq(S) /\ Len(Append(q, x)) = Len(q) + 1 /\ Len(q) \in Nat
      /\ \A i \in 1 .. Len(q) : Append(q, x)[i] = q[i]
      /\ Append(q, x)[Len(q) + 1] = x /\ DOMAIN q = 1 .. Len(q)
      /\ DOMAIN Append(q, x) = 1 .. Len(q) + 1
  OBVIOUS
<1> SUFFICES ASSUME NEW p, p = Append(q, x) PROVE ToSet(p) = ToSet(q) \cup {x} BY <1>1
<1>2. \A i \in 1 .. Len(q) + 1 : i \in 1 .. Len(q) \/ i = Len(q) + 1 BY <1>1
<1>3. \A i \in 1 .. Len(q) : i \in 1 .. Len(q) + 1 BY <1>1
<1>4. Len(q) + 1 \in 1 .. Len(q) + 1 BY <1>1
<1> QED BY <1>1, <1>2, <1>3, <1>4 DEF ToSet

\* A new element at the end is there once, too.
LEMMA AppendOnce ==
  ASSUME NEW S, NEW q \in Seq(S), OneSlotEach(q), NEW x \in S, x \notin ToSet(q)
  PROVE  OneSlotEach(Append(q, x))
<1>1. /\ Len(q) \in Nat /\ DOMAIN q = 1 .. Len(q) /\ DOMAIN Append(q, x) = 1 .. Len(q) + 1
      /\ \A i \in 1 .. Len(q) : Append(q, x)[i] = q[i]
      /\ Append(q, x)[Len(q) + 1] = x
  OBVIOUS
<1>2. \A i \in 1 .. Len(q) : q[i] # x BY <1>1 DEF ToSet
<1>3. \A i, j \in 1 .. Len(q) : q[i] = q[j] => i = j BY <1>1 DEF OneSlotEach
<1> SUFFICES ASSUME NEW p, p = Append(q, x), NEW n, n = Len(q)
             PROVE  \A i, j \in 1 .. n + 1 : p[i] = p[j] => i = j
  BY <1>1 DEF OneSlotEach
<1>4. \A i \in 1 .. n + 1 : i \in 1 .. n \/ i = n + 1 BY <1>1
<1> QED BY <1>1, <1>2, <1>3, <1>4

\* EvictItem drops the oldest entry.
LEMMA EvictOne ==
  ASSUME NEW c, Good(c), Len(c.insertion_order) # 0, Roomy(c)
  PROVE  Dropped(c, EvictItem(c), 1) /\ Roomy(EvictItem(c))
<1> SUFFICES ASSUME NEW d, d = EvictItem(c) PROVE Dropped(c, d, 1) /\ Roomy(d) OBVIOUS
<1> DEFINE n == TableSize(c.capacity)
           T == c.hash
           q == c.insertion_order
<1>1. /\ n \in Nat \ {0} /\ T \in Tables(n) /\ DOMAIN T = 0 .. n - 1 /\ TableOK(T, n)
      /\ q \in Seq(Keys) /\ c.evicted \in Seq(Entry) /\ c.capacity \in Capacities
      /\ c.size = Len(q) /\ c.allocated = Len(q) + Len(c.evicted)
  BY Fields DEF Good
<1>2. PICK idx \in Used(T) :
        /\ T[idx] \in Entry /\ T[idx].key = Head(q)
        /\ d = [capacity |-> c.capacity, size |-> c.size - 1,
                allocated |-> IF T[idx].pins = 0 THEN c.allocated - 1 ELSE c.allocated,
                insertion_order |-> Tail(q),
                evicted |-> IF T[idx].pins = 0 THEN c.evicted ELSE Append(c.evicted, T[idx]),
                hash |-> CloseGap(Emptied(T, idx), idx)]
  BY EvictFields
<1>3. NotInUse(T) # {} \/ n = 2
  <2>1. CASE n = 2 BY <2>1
  <2>2. CASE Len(q) < n
    <3>1. \A e \in Entries(T) : e.key \in ToSet(q) BY DEF Good, KeysAgree
    <3> HIDE DEF n, T, q
    <3> QED BY <1>1, <2>2, <3>1, NotFull
  <2> QED BY <2>1, <2>2 DEF Roomy
<1> SUFFICES ASSUME NEW e, e = T[idx], NEW R, R = CloseGap(Emptied(T, idx), idx)
             PROVE  Dropped(c, d, 1) /\ Roomy(d)
  OBVIOUS
<1>4. TableOK(R, n) /\ Entries(R) = Entries(T) \ {e}
  <2> HIDE DEF n, T, q
  <2> QED BY <1>1, <1>3, RemoveStep
<1>5. e \in Entry /\ e.key = Head(q) /\ e \in Entries(T) BY <1>2 DEF Entries
<1>6. /\ Tail(q) \in Seq(Keys) /\ Len(Tail(q)) = Len(q) - 1 /\ Len(q) \in Nat
      /\ \A i \in 1 .. Len(q) - 1 : Tail(q)[i] = q[i + 1]
      /\ OneSlotEach(Tail(q)) /\ ToSet(Tail(q)) = ToSet(q) \ {Head(q)}
  BY <1>1, TailOnce DEF Good, KeysAgree
<1>7. /\ Append(c.evicted, e) \in Seq(Entry) /\ Len(c.evicted) \in Nat
      /\ Len(Append(c.evicted, e)) = Len(c.evicted) + 1
      /\ \A i \in 1 .. Len(c.evicted) : Append(c.evicted, e)[i] = c.evicted[i]
      /\ Append(c.evicted, e)[Len(c.evicted) + 1] = e
      /\ ToSet(Append(c.evicted, e)) = ToSet(c.evicted) \cup {e}
  BY <1>1, <1>5, AppendSet
<1>8. /\ d.capacity = c.capacity /\ d.size = c.size - 1 /\ d.insertion_order = Tail(q)
      /\ d.hash = R
      /\ d.allocated = IF e.pins = 0 THEN c.allocated - 1 ELSE c.allocated
      /\ d.evicted = IF e.pins = 0 THEN c.evicted ELSE Append(c.evicted, e)
  BY <1>2
<1> HIDE DEF n, T, q
<1>9. d \in CacheStates
  <2>1. c.size - 1 \in Nat BY <1>1, <1>6, Len(q) # 0 DEF q
  <2>2. d.allocated \in Nat /\ d.evicted \in Seq(Entry) /\ d.size \in Nat
    <3>1. c.allocated \in Nat /\ c.allocated - 1 \in Nat
      <4> DEFINE a == Len(q)
                 b == Len(c.evicted)
      <4>1. a \in Nat /\ a # 0 /\ b \in Nat /\ c.allocated = a + b
        BY <1>1, <1>6, <1>7, Len(q) # 0 DEF q
      <4> HIDE DEF a, b
      <4> QED BY ONLY <4>1
    <3>2. d.allocated \in Nat BY <1>8, <3>1
    <3>3. d.evicted \in Seq(Entry) BY <1>1, <1>7, <1>8
    <3> QED BY <1>8, <2>1, <3>2, <3>3
  <2>3. R \in UNION {Tables(m) : m \in Nat \ {0}} BY <1>1, <1>4 DEF TableOK
  <2>4. d = [capacity |-> d.capacity, size |-> d.size, allocated |-> d.allocated,
             insertion_order |-> d.insertion_order, evicted |-> d.evicted, hash |-> d.hash]
    BY <1>2
  <2> QED BY ONLY <1>1, <1>6, <1>8, <2>2, <2>3, <2>4 DEF CacheStates
<1>10. KeysAgree(d)
  <2>1. \A f \in Entries(T) : f # e => f.key # e.key
    BY <1>1, <1>2 DEF TableOK, Distinct, Entries
  <2>2. \A f \in Entries(R) : f.key \in ToSet(Tail(q))
    BY <1>4, <1>5, <1>6, <2>1 DEF Good, KeysAgree, T, q
  <2>3. \A key \in ToSet(Tail(q)) : \E f \in Entries(R) : f.key = key
    BY <1>4, <1>5, <1>6 DEF Good, KeysAgree, T, q
  <2> QED BY <1>6, <1>8, <2>2, <2>3 DEF KeysAgree
<1>11. Counted(d)
  <2>1. \A f \in ToSet(d.evicted) : f.pins # 0 BY <1>7, <1>8 DEF Good, Counted
  <2> QED BY <1>1, <1>6, <1>7, <1>8, <2>1 DEF Counted
<1>12. OneOwner(d)
  <2>1. \A f, g \in Entries(R) : f.value = g.value => f = g BY <1>4 DEF Good, OneOwner, T
  <2>2. \A f \in Entries(T), g \in ToSet(c.evicted) : f.value # g.value
    BY DEF Good, OneOwner, T
  <2>3. \A f \in Entries(R), g \in ToSet(d.evicted) : f.value # g.value
    BY <1>4, <1>5, <1>7, <1>8, <2>2 DEF Good, OneOwner, T
  <2>4. \A i \in 1 .. Len(c.evicted) : c.evicted[i].value # e.value
    BY <1>1, <1>5, <2>2 DEF ToSet
  <2>5. \A i, j \in 1 .. Len(c.evicted) : c.evicted[i].value = c.evicted[j].value => i = j
    BY <1>1 DEF Good, OneOwner
  <2>6. \A i, j \in DOMAIN d.evicted : d.evicted[i].value = d.evicted[j].value => i = j
    <3>1. CASE e.pins = 0
      <4>1. d.evicted = c.evicted BY <1>8, <3>1
      <4> QED BY <4>1 DEF Good, OneOwner
    <3>2. CASE e.pins # 0
      <4>1. \A i \in DOMAIN d.evicted : i \in 1 .. Len(c.evicted) \/ i = Len(c.evicted) + 1
        BY <1>7, <1>8, <3>2
      <4> QED BY <1>7, <1>8, <2>4, <2>5, <3>2, <4>1
    <3> QED BY <3>1, <3>2
  <2> QED BY <1>8, <2>1, <2>3, <2>6 DEF OneOwner
<1>13. Good(d) BY <1>4, <1>8, <1>9, <1>10, <1>11, <1>12 DEF Good, n
<1>14. All(d) \subseteq All(c) /\ \A f \in All(c) : f \in All(d) \/ f.pins = 0
  BY <1>4, <1>5, <1>7, <1>8 DEF All, T
<1>15. Dropped(c, d, 1)
  BY <1>4, <1>6, <1>8, <1>13, <1>14, Len(q) # 0 DEF Dropped, T, q
<1>16. Roomy(d) BY <1>1, <1>6, <1>8 DEF Roomy, n, q
<1> QED BY <1>15, <1>16

\* Dropping nothing, and dropping one more.
LEMMA DropNone == ASSUME NEW c, Good(c) PROVE Dropped(c, c, 0)
BY Fields DEF Dropped

LEMMA DropMore ==
  ASSUME NEW c, Good(c), NEW d, NEW k, Dropped(c, d, k), NEW e, Dropped(d, e, 1)
  PROVE  Dropped(c, e, k + 1)
<1> SUFFICES ASSUME NEW p, p = c.insertion_order, NEW q, q = d.insertion_order,
                    NEW r, r = e.insertion_order
             PROVE  Dropped(c, e, k + 1)
  OBVIOUS
<1>1. /\ Len(p) \in Nat /\ k \in 0 .. Len(p) /\ 1 \in 0 .. Len(q)
      /\ Len(q) = Len(p) - k /\ Len(r) = Len(q) - 1
      /\ \A i \in 1 .. Len(q) : q[i] = p[i + k]
      /\ \A i \in 1 .. Len(r) : r[i] = q[i + 1]
  BY Fields DEF Dropped
<1>2. k + 1 \in 0 .. Len(p) /\ Len(r) = Len(p) - (k + 1) BY <1>1
<1>3. \A i \in 1 .. Len(r) : r[i] = p[i + (k + 1)]
  <2> TAKE i \in 1 .. Len(r)
  <2>1. i + 1 \in 1 .. Len(q) /\ (i + 1) + k = i + (k + 1) BY <1>1
  <2> QED BY <1>1, <2>1
<1>4. /\ Good(e) /\ e.capacity = c.capacity
      /\ Entries(e.hash) \subseteq Entries(c.hash) /\ All(e) \subseteq All(c)
      /\ \A f \in All(c) : f \in All(e) \/ f.pins = 0
  BY DEF Dropped
<1> QED BY <1>2, <1>3, <1>4 DEF Dropped

\* How many entries do not fit.
Excess(size, capacity) == IF size > capacity THEN size - capacity ELSE 0

\* EvictToCapacity drops as many entries as do not fit.
LEMMA EvictAll ==
  ASSUME NEW c, Good(c), Roomy(c), NEW capacity \in Nat
  PROVE  Dropped(c, EvictToCapacity(c, capacity), Excess(c.size, capacity))
<1> DEFINE m == Excess(c.size, capacity)
           Q == [i \in 1 .. c.size - capacity |-> i]
           X == CacheStates
           H == [i \in 1 .. m |-> [y \in X |->
                   IF EvictItem(y) \in X THEN EvictItem(y) ELSE y]]
           W == CHOOSE it : it = [s \in SUBSET DOMAIN Q |->
                  IF s = {} THEN c ELSE EvictItem(it[s \ {Max(s)}])]
<1>1. EvictToCapacity(c, capacity) = W[DOMAIN Q]
  BY DEF EvictToCapacity, FoldLeft, MapThenFoldSet
<1>2. /\ c.size \in Nat /\ c.size = Len(c.insertion_order) /\ c \in X
      /\ m \in Nat /\ m <= c.size /\ DOMAIN Q = 1 .. m
  <2>1. c.size \in Nat /\ c.size = Len(c.insertion_order) /\ c \in X BY Fields DEF Good
  <2>2. m \in Nat /\ m <= c.size BY <2>1 DEF Excess
  <2>3. 1 .. c.size - capacity = 1 .. m BY <2>1 DEF Excess
  <2> HIDE DEF m, X
  <2> QED BY <2>1, <2>2, <2>3
<1> HIDE DEF m, Q, X
<1>3. H \in [1 .. m -> [X -> X]] OBVIOUS
<1>4. PICK r \in [0 .. m -> X] : IsRun(r, m, c, H)
  <2> HIDE DEF H
  <2> QED BY <1>2, <1>3, RunExists
<1> DEFINE B(i) == Dropped(c, r[i], i) /\ Roomy(r[i])
           Z == {i \in 0 .. m : ~ B(i)}
<1>5. ASSUME NEW i \in 1 .. m, B(i - 1) PROVE B(i) /\ r[i] = EvictItem(r[i - 1])
  <2> SUFFICES ASSUME NEW y, y = r[i - 1], NEW z, z = EvictItem(y), NEW k, k = i - 1,
                      Dropped(c, y, k), Roomy(y)
               PROVE  Dropped(c, r[i], i) /\ Roomy(r[i]) /\ r[i] = z
    BY <1>5
  <2>1. Good(y) /\ Len(y.insertion_order) # 0
    <3>1. Len(y.insertion_order) = c.size - (i - 1) BY <1>2 DEF Dropped
    <3> QED BY <1>2, <3>1 DEF Dropped
  <2>2. Dropped(y, z, 1) /\ Roomy(z) BY <2>1, EvictOne
  <2>3. z \in X BY <2>2 DEF Dropped, Good, X
  <2>4. y \in X BY <2>1 DEF Good, X
  <2>5. r[i] = H[i][y] BY <1>4 DEF IsRun
  <2>6. r[i] = z BY <2>3, <2>4, <2>5
  <2>7. Dropped(c, z, k + 1) BY <2>2, DropMore
  <2>8. k + 1 = i BY <1>2
  <2> QED BY <2>2, <2>6, <2>7, <2>8
<1>6. r[0] = c /\ B(0)
  <2>1. r[0] = c BY <1>4 DEF IsRun
  <2> QED BY <2>1, DropNone
<1> HIDE DEF B, H
<1>7. Z = {}
  <2> SUFFICES ASSUME Z # {} PROVE FALSE OBVIOUS
  <2>1. PICK i \in Z : \A j \in Z : i <= j
    <3>1. Z \subseteq Nat BY <1>2
    <3> HIDE DEF Z
    <3> QED BY <3>1, NatMin
  <2>2. i # 0 BY <1>6
  <2>3. i \in 1 .. m /\ i - 1 \in 0 .. m /\ ~ (i <= i - 1) BY <1>2, <2>2
  <2>4. B(i - 1) BY <2>1, <2>3
  <2> QED BY <1>5, <2>3, <2>4
<1>8. \A i \in 1 .. m : r[i] = EvictItem(r[i - 1])
  <2> TAKE i \in 1 .. m
  <2>1. i - 1 \in 0 .. m BY <1>2
  <2>2. B(i - 1) BY <1>7, <2>1
  <2> QED BY <1>5, <2>2
<1>9. ASSUME NEW s \in SUBSET (1 .. m), s # {}
      PROVE  /\ Max(s) \in 1 .. m /\ Cardinality(s) \in 1 .. m
             /\ Cardinality(s \ {Max(s)}) = Cardinality(s) - 1
  <2>1. Max(s) \in s BY <1>2, <1>9, MaxUpTo
  <2>2. IsFiniteSet(1 .. m) /\ Cardinality(1 .. m) = m BY <1>2, UpTo
  <2>3. IsFiniteSet(s) /\ Cardinality(s) <= m BY <2>2, FS_Subset
  <2>4. Cardinality(s) \in Nat /\ Cardinality(s) # 0 BY <1>9, <2>3, FS_CardinalityType, FS_EmptySet
  <2>5. Cardinality(s \ {Max(s)}) = Cardinality(s) - 1 BY <2>1, <2>3, FS_RemoveElement
  <2>6. Cardinality(s) \in 1 .. m BY <1>2, <2>3, <2>4
  <2>7. Max(s) \in 1 .. m BY <2>1
  <2> QED BY <2>5, <2>6, <2>7
<1> DEFINE f == [s \in SUBSET (1 .. m) |-> r[Cardinality(s)]]
<1>10. f = [s \in SUBSET DOMAIN Q |-> IF s = {} THEN c ELSE EvictItem(f[s \ {Max(s)}])]
  <2>1. ASSUME NEW s \in SUBSET (1 .. m)
        PROVE  r[Cardinality(s)] = IF s = {} THEN c ELSE EvictItem(f[s \ {Max(s)}])
    <3>1. CASE s = {} BY <1>6, <3>1, FS_EmptySet
    <3>2. CASE s # {}
      <4>1. f[s \ {Max(s)}] = r[Cardinality(s \ {Max(s)})] OBVIOUS
      <4> HIDE DEF f
      <4>2. r[Cardinality(s)] = EvictItem(r[Cardinality(s) - 1]) BY <1>8, <1>9, <3>2
      <4>3. f[s \ {Max(s)}] = r[Cardinality(s) - 1] BY <1>9, <3>2, <4>1
      <4> QED BY <3>2, <4>2, <4>3
    <3> QED BY <3>1, <3>2
  <2>2. f = [s \in SUBSET (1 .. m) |-> f[s]] OBVIOUS
  <2>3. \A s \in SUBSET (1 .. m) : f[s] = r[Cardinality(s)] OBVIOUS
  <2> HIDE DEF f
  <2> QED BY <1>2, <2>1, <2>2, <2>3
<1> HIDE DEF f
<1>11. W = [s \in SUBSET DOMAIN Q |-> IF s = {} THEN c ELSE EvictItem(W[s \ {Max(s)}])]
  BY <1>10
<1> HIDE DEF W
<1>12. FoldsBy(W, m, r)
  <2> DEFINE e == [s \in SUBSET (1 .. m) |-> IF s = {} THEN c ELSE EvictItem(W[s \ {Max(s)}])]
  <2>1. W = e BY <1>2, <1>11
  <2>2. e[{}] = c OBVIOUS
  <2>3. ASSUME NEW s \in SUBSET (1 .. m), NEW i \in 1 .. m, s # {}, i = Max(s),
               W[s \ {i}] = r[i - 1]
        PROVE  W[s] = r[i]
    <3>1. e[s] = EvictItem(W[s \ {i}]) BY <2>3
    <3> HIDE DEF e
    <3> QED BY <1>8, <2>1, <2>3, <3>1
  <2> HIDE DEF e
  <2> QED BY <1>6, <2>1, <2>2, <2>3 DEF FoldsBy
<1>13. W[1 .. m] = r[m] BY <1>2, <1>12, FoldIsRun
<1>14. m \in 0 .. m BY <1>2
<1>15. B(m) BY <1>7, <1>14
<1>16. Dropped(c, r[m], m) BY <1>15 DEF B
<1> QED BY <1>1, <1>2, <1>13, <1>16 DEF m

NewEntry(key, value) == [key |-> key, value |-> value, pins |-> 0]

\* The cache with a new entry, before what does not fit is evicted.
Added(c, key, value) ==
  [c EXCEPT !.hash[Probe(c.hash, key, Holding(c.hash, key))] = NewEntry(key, value),
            !.insertion_order = Append(@, key), !.size = @ + 1, !.allocated = @ + 1]

\* a is c with a new entry.
Joined(c, a, key, value) ==
  /\ Good(a) /\ Roomy(a) /\ a.capacity = c.capacity /\ Absent(c.hash, key)
  /\ a.insertion_order = Append(c.insertion_order, key)
  /\ Entries(a.hash) = Entries(c.hash) \cup {NewEntry(key, value)}
  /\ All(a) = All(c) \cup {NewEntry(key, value)}

LEMMA AddEntry ==
  ASSUME NEW c, Good(c), c.capacity # 0, c.size <= c.capacity,
         NEW key \in Keys, NEW value \in Values, \A e \in All(c) : e.value # value,
         c.hash[Probe(c.hash, key, Holding(c.hash, key))] = NoEntry
  PROVE  Joined(c, Added(c, key, value), key, value)
<1> DEFINE n == TableSize(c.capacity)
           T == c.hash
           q == c.insertion_order
           at == Probe(T, key, Holding(T, key))
           e == NewEntry(key, value)
           R == Filled(T, at, e)
           a == Added(c, key, value)
<1>1. /\ n \in Nat \ {0} /\ T \in Tables(n) /\ DOMAIN T = 0 .. n - 1 /\ TableOK(T, n)
      /\ q \in Seq(Keys) /\ c.evicted \in Seq(Entry) /\ c.capacity \in Capacities
      /\ c.size = Len(q) /\ c.allocated = Len(q) + Len(c.evicted)
      /\ c.capacity \in Nat /\ c.size \in Nat /\ c.allocated \in Nat
  BY Fields DEF Good
<1>2. c.size + 1 < n \/ n = 2
  <2>1. c.capacity + 1 < n \/ n = 2 BY <1>1, TableSizeIs
  <2> HIDE DEF n
  <2> QED BY <1>1, <2>1
<1>3. NotInUse(T) # {}
  <2>1. c.capacity < n BY <1>1, TableSizeIs
  <2>2. \A f \in Entries(T) : f.key \in ToSet(q) BY DEF Good, KeysAgree
  <2>3. Len(q) < n
    <3> HIDE DEF n, q
    <3> QED BY <1>1, <2>1
  <2> HIDE DEF n, T, q
  <2> QED BY <1>1, <2>2, <2>3, NotFull
<1>4. at \in 0 .. n - 1 /\ Absent(T, key) /\ Passable(T, n, Home(T, key), at) /\ T[at] = NoEntry
  <2>1. T[at] = NoEntry OBVIOUS
  <2> HIDE DEF n, T, at
  <2>2. LookupEnds(Probe(T, key, Holding(T, key)), T, n, key) BY <1>1, <1>3, Lookup
  <2> QED BY <2>1, <2>2 DEF LookupEnds, at
<1>5. e \in Entry /\ e.key = key /\ e.value = value /\ e.pins = 0 BY DEF Entry, NewEntry
<1>6. a = [capacity |-> c.capacity, size |-> c.size + 1, allocated |-> c.allocated + 1,
           insertion_order |-> Append(q, key), evicted |-> c.evicted, hash |-> R]
  <2> DEFINE nq == Append(q, key)
  <2>1. a = [c EXCEPT !.hash = R, !.insertion_order = nq, !.size = c.size + 1,
                      !.allocated = c.allocated + 1]
    BY Fields DEF Added, Filled
  <2> HIDE DEF nq, R, a
  <2>2. a = [capacity |-> c.capacity, size |-> c.size + 1, allocated |-> c.allocated + 1,
             insertion_order |-> nq, evicted |-> c.evicted, hash |-> R]
    <3>1. PICK k1, k2, k3, k4, k5, k6 :
            c = [capacity |-> k1, size |-> k2, allocated |-> k3,
                 insertion_order |-> k4, evicted |-> k5, hash |-> k6]
      <4>1. c = [capacity |-> c.capacity, size |-> c.size, allocated |-> c.allocated,
                 insertion_order |-> c.insertion_order, evicted |-> c.evicted,
                 hash |-> c.hash]
        BY Fields
      <4> QED BY ONLY <4>1, Zenon
    <3>2. c.capacity = k1 /\ c.evicted = k5 BY ONLY <3>1
    <3>3. PICK m2, m3 : m2 = c.size + 1 /\ m3 = c.allocated + 1 OBVIOUS
    <3>4. a = [c EXCEPT !.hash = R, !.insertion_order = nq, !.size = m2, !.allocated = m3]
      BY ONLY <2>1, <3>3
    <3>5. a = [capacity |-> k1, size |-> m2, allocated |-> m3, insertion_order |-> nq,
               evicted |-> k5, hash |-> R]
      BY ONLY <3>1, <3>4
    <3> QED BY ONLY <3>2, <3>3, <3>5
  <2> QED BY <2>2 DEF nq
<1> HIDE DEF n, T, at, e, R, a
<1>7. TableOK(R, n) /\ Entries(R) = Entries(T) \cup {e}
  <2>1. Fits(T, n, e, at) BY <1>4, <1>5 DEF Fits
  <2> QED BY <1>1, <1>5, <2>1, FillSlot DEF R
<1>8. /\ Append(q, key) \in Seq(Keys) /\ Len(Append(q, key)) = Len(q) + 1
      /\ \A i \in 1 .. Len(q) : Append(q, key)[i] = q[i]
      /\ Append(q, key)[Len(q) + 1] = key
      /\ ToSet(Append(q, key)) = ToSet(q) \cup {key}
  <2> HIDE DEF q
  <2> QED BY <1>1, AppendSet
<1>9. /\ a.capacity = c.capacity /\ a.size = c.size + 1 /\ a.allocated = c.allocated + 1
      /\ a.insertion_order = Append(q, key) /\ a.evicted = c.evicted /\ a.hash = R
  BY <1>6
<1>10. key \notin ToSet(q)
  <2>1. \A f \in Entries(T) : f.key # key BY <1>4 DEF Absent, Entries
  <2> QED BY <2>1 DEF Good, KeysAgree, T, q
<1>11. KeysAgree(a)
  <2>1. OneSlotEach(Append(q, key))
    <3>1. OneSlotEach(q) BY DEF Good, KeysAgree
    <3> HIDE DEF q
    <3> QED BY <1>1, <1>10, <3>1, AppendOnce
  <2>2. \A f \in Entries(R) : f.key \in ToSet(Append(q, key))
    BY <1>5, <1>7, <1>8 DEF Good, KeysAgree, T, q
  <2>3. \A k \in ToSet(Append(q, key)) : \E f \in Entries(R) : f.key = k
    BY <1>5, <1>7, <1>8 DEF Good, KeysAgree, T, q
  <2> QED BY <1>9, <2>1, <2>2, <2>3 DEF KeysAgree
<1>12. Counted(a)
  <2>1. Len(c.evicted) \in Nat /\ Len(q) \in Nat
    <3> HIDE DEF q
    <3> QED BY <1>1
  <2>2. \A f \in ToSet(a.evicted) : f.pins # 0 BY <1>9 DEF Good, Counted
  <2>3. Len(q) + Len(c.evicted) + 1 = Len(q) + 1 + Len(c.evicted)
    <3> DEFINE a0 == Len(q)
               b0 == Len(c.evicted)
    <3>1. a0 \in Nat /\ b0 \in Nat BY <2>1
    <3> HIDE DEF a0, b0
    <3>2. a0 + b0 + 1 = a0 + 1 + b0 BY ONLY <3>1
    <3> QED BY <3>2 DEF a0, b0
  <2> HIDE DEF q
  <2> QED BY ONLY <1>1, <1>8, <1>9, <2>2, <2>3 DEF Counted
<1>13. OneOwner(a)
  <2>1. \A f \in Entries(T) : f.value # value BY DEF All, T
  <2>2. \A f \in ToSet(c.evicted) : f.value # value BY DEF All
  <2> QED BY <1>5, <1>7, <1>9, <2>1, <2>2 DEF Good, OneOwner, T
<1>14. a \in CacheStates
  <2>1. c.size + 1 \in Nat /\ c.allocated + 1 \in Nat
    <3>1. c.size \in Nat /\ c.allocated \in Nat BY <1>1
    <3> QED BY ONLY <3>1
  <2>2. R \in UNION {Tables(m) : m \in Nat \ {0}} BY <1>1, <1>7 DEF TableOK
  <2> QED BY <1>1, <1>6, <1>8, <2>1, <2>2 DEF CacheStates
<1>15. Good(a) BY <1>7, <1>9, <1>11, <1>12, <1>13, <1>14 DEF Good, n
<1>16. Roomy(a) BY <1>1, <1>2, <1>8, <1>9 DEF Roomy, n
<1>17. All(a) = All(c) \cup {e} BY <1>7, <1>9 DEF All, T
<1>18. Joined(c, a, key, value)
  BY <1>4, <1>7, <1>9, <1>15, <1>16, <1>17 DEF Joined, T, q, e
<1> QED BY <1>18 DEF a

\* What Insert makes of the cache.
Inserted(c, key, value) ==
  IF c.capacity = 0 \/ c.hash[Probe(c.hash, key, Holding(c.hash, key))] # NoEntry
  THEN c
  ELSE EvictToCapacity(Added(c, key, value), c.capacity)

LEMMA InsertResult ==
  ASSUME NEW c, Good(c), c.size <= c.capacity, NEW key \in Keys, NEW value \in Values,
         \A e \in All(c) : e.value # value, NEW d, d = Inserted(c, key, value)
  PROVE  \/ d = c
         \/ \E a : /\ Joined(c, a, key, value)
                   /\ Dropped(a, d, Excess(c.size + 1, c.capacity))
<1> SUFFICES ASSUME d # c
             PROVE  /\ Joined(c, Added(c, key, value), key, value)
                    /\ Dropped(Added(c, key, value), d, Excess(c.size + 1, c.capacity))
  BY Zenon
<1>1. /\ c.capacity # 0 /\ c.hash[Probe(c.hash, key, Holding(c.hash, key))] = NoEntry
      /\ d = EvictToCapacity(Added(c, key, value), c.capacity)
  BY DEF Inserted
<1> DEFINE a == Added(c, key, value)
<1>2. Joined(c, a, key, value) BY <1>1, AddEntry
<1> HIDE DEF a
<1>3. Good(a) /\ Roomy(a) /\ c.capacity \in Nat BY <1>2, Fields DEF Joined
<1>4. a.size = c.size + 1
  <2>1. a.size = Len(a.insertion_order) /\ c.size = Len(c.insertion_order)
        /\ c.insertion_order \in Seq(Keys)
    BY <1>3, Fields
  <2> QED BY <1>2, <2>1, AppendSet DEF Joined
<1>5. Dropped(a, EvictToCapacity(a, c.capacity), Excess(a.size, c.capacity))
  BY <1>3, EvictAll
<1> QED BY <1>1, <1>2, <1>4, <1>5 DEF a

\* What SetCapacity does with one slot of the old table T, and with all of them.
PutSlot(T, R, i) == IF T[i] = NoEntry THEN R ELSE Put(R, T[i])

NoEntries(n) == [i \in 0 .. n - 1 |-> NoEntry]

Rehashed(T, n) ==
  FoldLeft(LAMBDA R, i : PutSlot(T, R, i), NoEntries(n),
           [i \in 1 .. Cardinality(DOMAIN T) |-> i - 1])

\* A table is filled with the entries of T, the first slots first.
IsRehash(r, m, n, T) ==
  /\ r \in [0 .. m -> Tables(n)] /\ r[0] = NoEntries(n)
  /\ \A i \in 1 .. m : r[i] = PutSlot(T, r[i - 1], i - 1)

LEMMA RehashWalk ==
  ASSUME NEW m \in Nat \ {0}, NEW n \in Nat \ {0}, NEW T \in Tables(m)
  PROVE  \E r : IsRehash(r, m, n, T) /\ Rehashed(T, n) = r[m]
<1> DEFINE Q == [i \in 1 .. Cardinality(DOMAIN T) |-> i - 1]
           base == NoEntries(n)
           X == Tables(n)
           H == [i \in 1 .. m |-> [R \in X |-> PutSlot(T, R, i - 1)]]
           W == CHOOSE it : it = [s \in SUBSET DOMAIN Q |->
                  IF s = {} THEN base ELSE PutSlot(T, it[s \ {Max(s)}], Q[Max(s)])]
<1>1. Rehashed(T, n) = W[DOMAIN Q]
  BY DEF Rehashed, FoldLeft, MapThenFoldSet
<1>2. m \in Nat /\ DOMAIN Q = 1 .. m /\ \A i \in 1 .. m : Q[i] = i - 1
  <2>1. DOMAIN T = 0 .. m - 1 BY DEF Tables
  <2>2. Cardinality(0 .. m - 1) = m BY FS_Interval
  <2> QED BY <2>1, <2>2
<1>3. base \in X BY DEF NoEntries, Tables
<1>4. H \in [1 .. m -> [X -> X]]
  <2> SUFFICES ASSUME NEW i \in 1 .. m, NEW R \in X PROVE PutSlot(T, R, i - 1) \in X
    OBVIOUS
  <2>1. i - 1 \in 0 .. m - 1 OBVIOUS
  <2>2. T[i - 1] \in Entry \cup {NoEntry} BY <2>1 DEF Tables
  <2>3. Put(R, T[i - 1]) \in X BY <2>2 DEF Put, Tables
  <2> QED BY <2>3 DEF PutSlot
<1> HIDE DEF Q, base, X
<1>5. PICK f \in [SUBSET (1 .. m) -> X] : IsFold(f, m, base, H)
  <2> HIDE DEF H
  <2> QED BY <1>2, <1>3, <1>4, FoldExists
<1>6. f = [s \in SUBSET DOMAIN Q |->
             IF s = {} THEN base ELSE PutSlot(T, f[s \ {Max(s)}], Q[Max(s)])]
  <2> DEFINE e == [s \in SUBSET (1 .. m) |->
                     IF s = {} THEN base ELSE H[Max(s)][f[s \ {Max(s)}]]]
  <2>1. f = e BY <1>5 DEF IsFold
  <2>2. ASSUME NEW s \in SUBSET (1 .. m), s # {}
        PROVE  H[Max(s)][f[s \ {Max(s)}]] = PutSlot(T, f[s \ {Max(s)}], Q[Max(s)])
    <3>1. Max(s) \in 1 .. m BY <1>2, <2>2, MaxUpTo
    <3>2. f[s \ {Max(s)}] \in X OBVIOUS
    <3> QED BY <1>2, <3>1, <3>2
  <2> HIDE DEF H
  <2>3. e = [s \in SUBSET (1 .. m) |->
               IF s = {} THEN base ELSE PutSlot(T, f[s \ {Max(s)}], Q[Max(s)])]
    BY <2>2
  <2> QED BY <1>2, <2>1, <2>3
<1>7. W = [s \in SUBSET DOMAIN Q |->
             IF s = {} THEN base ELSE PutSlot(T, W[s \ {Max(s)}], Q[Max(s)])]
  BY <1>6
<1>8. PICK r \in [0 .. m -> X] : IsRun(r, m, base, H)
  <2> HIDE DEF H
  <2> QED BY <1>2, <1>3, <1>4, RunExists
<1>9. \A i \in 1 .. m : r[i] = PutSlot(T, r[i - 1], i - 1)
  <2> TAKE i \in 1 .. m
  <2>1. i - 1 \in 0 .. m BY <1>2
  <2>2. r[i - 1] \in X /\ r[i] = H[i][r[i - 1]] BY <1>8, <2>1 DEF IsRun
  <2> QED BY <2>2
<1>10. r[0] = base BY <1>8 DEF IsRun
<1>11. FoldsBy(W, m, r)
  <2> HIDE DEF W
  <2> DEFINE e == [s \in SUBSET (1 .. m) |->
                     IF s = {} THEN base ELSE PutSlot(T, W[s \ {Max(s)}], Q[Max(s)])]
  <2>1. W = e BY <1>2, <1>7
  <2>2. e[{}] = base OBVIOUS
  <2>3. ASSUME NEW s \in SUBSET (1 .. m), NEW i \in 1 .. m, s # {}, i = Max(s),
               W[s \ {i}] = r[i - 1]
        PROVE  W[s] = r[i]
    <3>1. e[s] = PutSlot(T, W[s \ {i}], Q[i]) BY <2>3
    <3> HIDE DEF e
    <3> QED BY <1>2, <1>9, <2>1, <2>3, <3>1
  <2> HIDE DEF e, H
  <2> QED BY <1>10, <2>1, <2>2, <2>3 DEF FoldsBy
<1>12. W[1 .. m] = r[m]
  <2> HIDE DEF H, W
  <2> QED BY <1>2, <1>11, FoldIsRun
<1>13. IsRehash(r, m, n, T) BY <1>8, <1>9, <1>10 DEF IsRehash, X, base
<1> HIDE DEF W
<1> QED BY <1>1, <1>2, <1>12, <1>13

\* The new table has the entries of the old one, each where a probe finds it.
LEMMA RehashKeeps ==
  ASSUME NEW m \in Nat \ {0}, NEW n \in Nat \ {0}, NEW T, TableOK(T, m),
         NEW q \in Seq(Keys), Len(q) < n, \A e \in Entries(T) : e.key \in ToSet(q)
  PROVE  TableOK(Rehashed(T, n), n) /\ Entries(Rehashed(T, n)) = Entries(T)
<1>1. T \in Tables(m) /\ DOMAIN T = 0 .. m - 1 BY DEF TableOK, Tables
<1>2. PICK r : IsRehash(r, m, n, T) /\ Rehashed(T, n) = r[m] BY <1>1, RehashWalk
<1> DEFINE Before(i) == {T[j] : j \in {k \in Used(T) : k < i}}
           B(i) == TableOK(r[i], n) /\ Entries(r[i]) = Before(i)
           Z == {i \in 0 .. m : ~ B(i)}
<1>3. B(0)
  <2>1. r[0] = NoEntries(n) BY <1>2 DEF IsRehash
  <2>2. NoEntries(n) \in Tables(n) /\ Used(NoEntries(n)) = {}
    BY DEF NoEntries, Tables, Used
  <2>3. TableOK(NoEntries(n), n) BY <2>2 DEF TableOK, Distinct, NoGap
  <2>4. Entries(NoEntries(n)) = {} BY <2>2 DEF Entries
  <2>5. Before(0) = {} BY <1>1 DEF Used
  <2> QED BY <2>1, <2>3, <2>4, <2>5
<1>4. ASSUME NEW i \in 1 .. m, B(i - 1) PROVE B(i)
  <2> SUFFICES ASSUME NEW j \in 0 .. m - 1, j = i - 1, NEW R, R = r[j], NEW S, S = r[i],
                      TableOK(R, n), Entries(R) = Before(j)
               PROVE  TableOK(S, n) /\ Entries(S) = Before(i)
    <3>1. i - 1 \in 0 .. m - 1 OBVIOUS
    <3> QED BY <1>4, <3>1
  <2>1. S = PutSlot(T, R, j) BY <1>2 DEF IsRehash
  <2>2. \A k \in 0 .. m - 1 : k < i <=> k < j \/ k = j OBVIOUS
  <2>3. CASE T[j] = NoEntry
    <3>1. S = R BY <2>1, <2>3 DEF PutSlot
    <3>2. {k \in Used(T) : k < i} = {k \in Used(T) : k < j} BY <1>1, <2>2, <2>3 DEF Used
    <3> QED BY <3>1, <3>2
  <2>4. CASE T[j] # NoEntry
    <3>1. S = Put(R, T[j]) BY <2>1, <2>4 DEF PutSlot
    <3>2. j \in Used(T) /\ T[j] \in Entry BY <1>1, <2>4 DEF Used, Tables
    <3>3. Absent(R, T[j].key)
      <4> SUFFICES ASSUME NEW x \in Used(R), R[x].key = T[j].key PROVE FALSE BY DEF Absent
      <4>1. R[x] \in Before(j) BY DEF Entries
      <4>2. PICK k \in Used(T) : k < j /\ R[x] = T[k] BY <4>1
      <4>3. k = j BY <3>2, <4>2 DEF TableOK, Distinct
      <4> QED BY <4>2, <4>3
    <3>4. NotInUse(R) # {}
      <4>1. \A e \in Entries(R) : e.key \in ToSet(q) BY DEF Entries
      <4> QED BY <4>1, NotFull
    <3>5. TableOK(S, n) /\ Entries(S) = Entries(R) \cup {T[j]} BY <3>1, <3>2, <3>3, <3>4, PutStep
    <3>6. {k \in Used(T) : k < i} = {k \in Used(T) : k < j} \cup {j}
      BY <1>1, <2>2, <3>2 DEF Used
    <3>7. Before(i) = Before(j) \cup {T[j]} BY <3>6
    <3> QED BY <3>5, <3>7
  <2> QED BY <2>3, <2>4
<1>5. Before(m) = Entries(T)
  <2>1. {k \in Used(T) : k < m} = Used(T) BY <1>1 DEF Used
  <2> QED BY <2>1 DEF Entries
<1> HIDE DEF B
<1>6. Z = {}
  <2> SUFFICES ASSUME Z # {} PROVE FALSE OBVIOUS
  <2>1. PICK i \in Z : \A j \in Z : i <= j
    <3>1. Z \subseteq Nat OBVIOUS
    <3> HIDE DEF Z
    <3> QED BY <3>1, NatMin
  <2>2. i # 0 BY <1>3
  <2>3. i \in 1 .. m /\ i - 1 \in 0 .. m /\ ~ (i <= i - 1) BY <2>2
  <2>4. B(i - 1) BY <2>1, <2>3
  <2> QED BY <1>4, <2>3, <2>4
<1>7. B(m) BY <1>6
<1> QED BY <1>2, <1>5, <1>7 DEF B


\* What SetCapacity makes of the cache.
Resized(c, n) ==
  LET kept == EvictToCapacity(c, n)
  IN  [kept EXCEPT !.capacity = n, !.hash = Rehashed(kept.hash, TableSize(n))]

\* d has the entries of c at the capacity n.
Refit(c, d, n) ==
  /\ Good(d) /\ d.capacity = n /\ d.insertion_order = c.insertion_order
  /\ Entries(d.hash) = Entries(c.hash) /\ All(d) = All(c)

LEMMA ResizeResult ==
  ASSUME NEW c, Good(c), c.size <= c.capacity, NEW n \in Capacities
  PROVE  \E k : Dropped(c, k, Excess(c.size, n)) /\ Refit(k, Resized(c, n), n)
<1> DEFINE k == EvictToCapacity(c, n)
           N == TableSize(n)
           R == Rehashed(k.hash, N)
           d == Resized(c, n)
<1>1. n \in Nat /\ N \in Nat \ {0} /\ n < N BY CacheAssumption, TableSizeIs
<1>2. Roomy(c)
  <2>1. /\ c.size = Len(c.insertion_order) /\ c.size \in Nat /\ c.capacity \in Nat
        /\ c.capacity < TableSize(c.capacity) /\ TableSize(c.capacity) \in Nat
    BY Fields, TableSizeIs
  <2> QED BY <2>1 DEF Roomy
<1>3. Dropped(c, k, Excess(c.size, n)) BY <1>1, <1>2, EvictAll
<1> HIDE DEF k, N
<1>4. Good(k) BY <1>3 DEF Dropped
<1>5. Len(k.insertion_order) < N
  <2>1. /\ c.size = Len(c.insertion_order) /\ c.size \in Nat
        /\ Len(k.insertion_order) = c.size - Excess(c.size, n)
    BY <1>3, Fields DEF Dropped
  <2>2. c.size - Excess(c.size, n) <= n BY <1>1, <2>1 DEF Excess
  <2>3. c.size - Excess(c.size, n) \in Int BY <1>1, <2>1 DEF Excess
  <2> QED BY <1>1, <2>1, <2>2, <2>3
<1>6. TableOK(R, N) /\ Entries(R) = Entries(k.hash)
  <2>1. TableOK(k.hash, TableSize(k.capacity)) /\ TableSize(k.capacity) \in Nat \ {0}
        /\ k.insertion_order \in Seq(Keys)
    BY <1>4, Fields DEF Good
  <2>2. \A e \in Entries(k.hash) : e.key \in ToSet(k.insertion_order)
    BY <1>4 DEF Good, KeysAgree
  <2> QED BY <1>1, <1>5, <2>1, <2>2, RehashKeeps
<1>7. d = [k EXCEPT !.capacity = n, !.hash = R] BY DEF Resized, k, N
<1> HIDE DEF R, d
<1>8. d = [capacity |-> n, size |-> k.size, allocated |-> k.allocated,
           insertion_order |-> k.insertion_order, evicted |-> k.evicted, hash |-> R]
  <2>1. k = [capacity |-> k.capacity, size |-> k.size, allocated |-> k.allocated,
             insertion_order |-> k.insertion_order, evicted |-> k.evicted,
             hash |-> k.hash]
    BY <1>4, Fields
  <2> QED BY ONLY <1>7, <2>1
<1>9. /\ d.capacity = n /\ d.size = k.size /\ d.allocated = k.allocated
      /\ d.insertion_order = k.insertion_order /\ d.evicted = k.evicted /\ d.hash = R
  BY <1>8
<1>10. d \in CacheStates
  <2>1. R \in UNION {Tables(i) : i \in Nat \ {0}} BY <1>1, <1>6 DEF TableOK
  <2>2. /\ k.size \in Nat /\ k.allocated \in Nat /\ k.insertion_order \in Seq(Keys)
        /\ k.evicted \in Seq(Entry)
    BY <1>4, Fields
  <2> QED BY ONLY <1>8, <2>1, <2>2, n \in Capacities DEF CacheStates
<1>11. Good(d)
  <2>1. KeysAgree(d) BY <1>4, <1>6, <1>9 DEF Good, KeysAgree
  <2>2. Counted(d) BY <1>4, <1>9 DEF Good, Counted
  <2>3. OneOwner(d) BY <1>4, <1>6, <1>9 DEF Good, OneOwner
  <2> QED BY <1>6, <1>9, <1>10, <2>1, <2>2, <2>3 DEF Good, N
<1>12. Refit(k, d, n) BY <1>6, <1>9, <1>11 DEF Refit, All
<1> QED BY <1>3, <1>12 DEF d

\* Between c and d, f took the place of e: the same key and value, other pins.
Repinned(c, d, e, f) ==
  /\ Good(d) /\ d.capacity = c.capacity /\ d.insertion_order = c.insertion_order
  /\ e \in All(c) /\ All(d) = (All(c) \ {e}) \cup {f}
  /\ LockOf(f) = LockOf(e) /\ f.key = e.key /\ f.value = e.value
  /\ \A p : (\E x \in Entries(c.hash) : p = LockOf(x)) <=>
            (\E x \in Entries(d.hash) : p = LockOf(x))

\* A value has one entry.
LEMMA OneEntry ==
  ASSUME NEW c, Good(c), NEW e \in All(c), NEW f \in All(c), e.value = f.value
  PROVE  e = f
<1>1. CASE e \in Entries(c.hash) /\ f \in Entries(c.hash) BY <1>1 DEF Good, OneOwner
<1>2. CASE e \in Entries(c.hash) /\ f \in ToSet(c.evicted) BY <1>2 DEF Good, OneOwner
<1>3. CASE e \in ToSet(c.evicted) /\ f \in Entries(c.hash) BY <1>3 DEF Good, OneOwner
<1>4. CASE e \in ToSet(c.evicted) /\ f \in ToSet(c.evicted)
  <2>1. PICK i, j \in DOMAIN c.evicted : e = c.evicted[i] /\ f = c.evicted[j]
    BY <1>4 DEF ToSet
  <2>2. i = j BY <2>1 DEF Good, OneOwner
  <2> QED BY <2>1, <2>2
<1> QED BY <1>1, <1>2, <1>3, <1>4 DEF All

\* An entry of the table with other pins.
LEMMA RepinSlot ==
  ASSUME NEW c, Good(c), NEW at \in Used(c.hash), NEW f \in Entry,
         f.key = c.hash[at].key, f.value = c.hash[at].value,
         NEW d, d = [c EXCEPT !.hash = Filled(c.hash, at, f)]
  PROVE  Repinned(c, d, c.hash[at], f)
<1> DEFINE n == TableSize(c.capacity)
           T == c.hash
           e == T[at]
           R == Filled(T, at, f)
<1>1. /\ n \in Nat \ {0} /\ T \in Tables(n) /\ DOMAIN T = 0 .. n - 1 /\ TableOK(T, n)
      /\ at \in 0 .. n - 1 /\ at \in Used(T) /\ e \in Entries(T)
  BY Fields DEF Good, Used, Entries
<1>2. d = [capacity |-> c.capacity, size |-> c.size, allocated |-> c.allocated,
           insertion_order |-> c.insertion_order, evicted |-> c.evicted, hash |-> R]
  <2>1. c = [capacity |-> c.capacity, size |-> c.size, allocated |-> c.allocated,
             insertion_order |-> c.insertion_order, evicted |-> c.evicted,
             hash |-> c.hash]
    BY Fields
  <2>2. d = [c EXCEPT !.hash = R] OBVIOUS
  <2> HIDE DEF R
  <2> QED BY ONLY <2>1, <2>2
<1>3. /\ d.capacity = c.capacity /\ d.size = c.size /\ d.allocated = c.allocated
      /\ d.insertion_order = c.insertion_order /\ d.evicted = c.evicted /\ d.hash = R
  BY <1>2
<1>4. /\ DOMAIN R = 0 .. n - 1 /\ R[at] = f /\ R \in Tables(n)
      /\ \A x \in 0 .. n - 1 : x # at => R[x] = T[x]
  BY <1>1 DEF Filled, Tables
<1>5. f # NoEntry BY CacheAssumption DEF Entry
<1> HIDE DEF n, T, e, R
<1>6. f.key = e.key /\ f.value = e.value BY DEF e, T
<1>7. /\ Used(R) = Used(T) /\ \A x \in Used(T) : R[x].key = T[x].key /\ x \in 0 .. n - 1
      /\ \A x \in 0 .. n - 1 : R[x] # NoEntry <=> T[x] # NoEntry
  BY <1>1, <1>4, <1>5, <1>6 DEF Used, e
<1>8. TableOK(R, n)
  <2>1. Distinct(R) BY <1>1, <1>7 DEF TableOK, Distinct
  <2>2. \A x \in Used(T) : R[x].key \in Keys BY <1>1, <1>4, <1>7 DEF Used, Tables, Entry
  <2>3. \A x \in Used(T) : Home(R, R[x].key) = Home(T, T[x].key)
    BY <1>1, <1>4, <1>7 DEF Home
  <2>4. NoGap(R) BY <1>1, <1>4, <1>7, <2>3 DEF TableOK, NoGap
  <2> QED BY <1>4, <2>1, <2>4 DEF TableOK
<1>9. \A x, y \in Used(T) : T[x] = T[y] => x = y BY <1>1 DEF TableOK, Distinct
<1>10. Entries(R) = (Entries(T) \ {e}) \cup {f}
  BY <1>1, <1>4, <1>7, <1>9 DEF Entries, e
<1>11. KeysAgree(d)
  <2>1. KeysAgree(c) BY DEF Good
  <2> QED BY <1>1, <1>3, <1>6, <1>10, <2>1 DEF KeysAgree, T
<1>12. Counted(d) BY <1>3 DEF Good, Counted
<1>13. OneOwner(d)
  <2>1. OneOwner(c) BY DEF Good
  <2> QED BY <1>1, <1>3, <1>6, <1>10, <2>1 DEF OneOwner, T
<1>14. d \in CacheStates
  <2>1. R \in UNION {Tables(i) : i \in Nat \ {0}} BY <1>1, <1>4
  <2>2. /\ c.size \in Nat /\ c.allocated \in Nat /\ c.insertion_order \in Seq(Keys)
        /\ c.evicted \in Seq(Entry) /\ c.capacity \in Capacities
    BY Fields
  <2> QED BY ONLY <1>2, <2>1, <2>2 DEF CacheStates
<1>15. Good(d) BY <1>3, <1>8, <1>11, <1>12, <1>13, <1>14 DEF Good, n
<1>16. LockOf(f) = LockOf(e) BY <1>6 DEF LockOf
<1>17. All(d) = (All(c) \ {e}) \cup {f} /\ e \in All(c)
  <2>1. e \notin ToSet(c.evicted) BY <1>1 DEF Good, OneOwner, T
  <2> QED BY <1>1, <1>3, <1>10, <2>1 DEF All, T
<1>18. \A p : (\E x \in Entries(T) : p = LockOf(x)) <=> (\E x \in Entries(R) : p = LockOf(x))
  BY <1>1, <1>10, <1>16
<1> QED BY <1>3, <1>6, <1>15, <1>16, <1>17, <1>18 DEF Repinned, T, e


\* A sequence without one of its elements.
LEMMA RemoveOne ==
  ASSUME NEW S, NEW q \in Seq(S), NEW k \in 1 .. Len(q)
  PROVE  /\ RemoveAt(q, k) \in Seq(S) /\ Len(RemoveAt(q, k)) = Len(q) - 1
         /\ \A i \in 1 .. Len(q) - 1 : RemoveAt(q, k)[i] = q[IF i < k THEN i ELSE i + 1]
<1> DEFINE n == Len(q)
           a == SubSeq(q, 1, k - 1)
           b == SubSeq(q, k + 1, n)
<1>0. n \in Nat /\ k \in 1 .. n /\ (\A i \in 1 .. n : q[i] \in S) /\ RemoveAt(q, k) = a \o b
  BY DEF RemoveAt
<1> HIDE DEF n, a, b
<1>1. a \in Seq(S) /\ Len(a) = k - 1 /\ \A i \in 1 .. k - 1 : a[i] = q[i]
  <2>1. k - 1 \in Int /\ \A i \in 1 .. k - 1 : q[i] \in S BY <1>0
  <2>2. /\ a \in Seq(S) /\ Len(a) = IF 1 <= k - 1 THEN k - 1 - 1 + 1 ELSE 0
        /\ \A i \in 1 .. k - 1 - 1 + 1 : a[i] = q[1 + i - 1]
    BY <1>0, <2>1, SubSeqProperties DEF a, b
  <2> QED BY <1>0, <2>2
<1>2. b \in Seq(S) /\ Len(b) = n - k /\ \A i \in 1 .. n - k : b[i] = q[k + i]
  <2>1. k + 1 \in Int /\ \A i \in k + 1 .. n : q[i] \in S BY <1>0
  <2>2. /\ b \in Seq(S) /\ Len(b) = IF k + 1 <= n THEN n - (k + 1) + 1 ELSE 0
        /\ \A i \in 1 .. n - (k + 1) + 1 : b[i] = q[(k + 1) + i - 1]
    BY <1>0, <2>1, SubSeqProperties DEF a, b
  <2>3. Len(b) = n - k BY ONLY <1>0, <2>2
  <2>4. ASSUME NEW i \in 1 .. n - k PROVE b[i] = q[k + i]
    <3>1. i \in 1 .. n - (k + 1) + 1 /\ (k + 1) + i - 1 = k + i BY ONLY <1>0, <2>4
    <3> QED BY ONLY <2>2, <3>1
  <2> QED BY <2>2, <2>3, <2>4
<1>3. a \o b \in Seq(S) /\ Len(a \o b) = n - 1
  <2>1. a \o b \in Seq(S) /\ Len(a \o b) = Len(a) + Len(b)
    BY ONLY <1>1, <1>2, ConcatProperties
  <2> QED BY ONLY <1>0, <1>1, <1>2, <2>1
<1>5. \A i \in 1 .. n - 1 : (a \o b)[i] = IF i <= k - 1 THEN a[i] ELSE b[i - (k - 1)]
  <2>1. \A i \in 1 .. Len(a) + Len(b) :
          (a \o b)[i] = IF i <= Len(a) THEN a[i] ELSE b[i - Len(a)]
    BY ONLY <1>1, <1>2, ConcatProperties
  <2>2. 1 .. Len(a) + Len(b) = 1 .. n - 1 BY ONLY <1>0, <1>1, <1>2
  <2> QED BY ONLY <1>1, <2>1, <2>2
<1>4. ASSUME NEW i \in 1 .. n - 1
      PROVE  (a \o b)[i] = q[IF i < k THEN i ELSE i + 1]
  <2>1. PICK x : x = (a \o b)[i] OBVIOUS
  <2>2. x = IF i <= k - 1 THEN a[i] ELSE b[i - (k - 1)] BY <1>5, <2>1
  <2>3. CASE i < k
    <3>1. i \in 1 .. k - 1 BY <1>0, <2>3
    <3>2. i <= k - 1 BY <1>0, <2>3
    <3>3. x = q[i] BY ONLY <1>1, <2>2, <3>1, <3>2
    <3> QED BY ONLY <2>1, <2>3, <3>3
  <2>4. CASE ~ (i < k)
    <3> DEFINE j == i - (k - 1)
    <3>1. ~ (i <= k - 1) /\ j \in 1 .. n - k /\ k + j = i + 1 BY <1>0, <2>4
    <3>2. x = b[j] BY ONLY <2>2, <3>1
    <3> HIDE DEF j
    <3>3. x = q[i + 1] BY ONLY <1>2, <3>1, <3>2
    <3> QED BY ONLY <2>1, <2>4, <3>3
  <2> QED BY <2>3, <2>4
<1> QED BY <1>0, <1>3, <1>4 DEF n

\* An entry that is set aside, with other pins.
LEMMA RepinAside ==
  ASSUME NEW c, Good(c), NEW k \in DOMAIN c.evicted, NEW f \in Entry, f.pins # 0,
         f.key = c.evicted[k].key, f.value = c.evicted[k].value,
         NEW d, d = [c EXCEPT !.evicted = [@ EXCEPT ![k] = f]]
  PROVE  Repinned(c, d, c.evicted[k], f)
<1> DEFINE q == c.evicted
           e == q[k]
           p == [q EXCEPT ![k] = f]
<1>1. q \in Seq(Entry) /\ DOMAIN q = 1 .. Len(q) /\ e \in ToSet(q) /\ k \in 1 .. Len(q)
  <2>1. q \in Seq(Entry) /\ k \in DOMAIN q BY Fields
  <2> HIDE DEF q
  <2> QED BY <2>1 DEF ToSet
<1>2. d = [capacity |-> c.capacity, size |-> c.size, allocated |-> c.allocated,
           insertion_order |-> c.insertion_order, evicted |-> p, hash |-> c.hash]
  <2>1. c = [capacity |-> c.capacity, size |-> c.size, allocated |-> c.allocated,
             insertion_order |-> c.insertion_order, evicted |-> c.evicted,
             hash |-> c.hash]
    BY Fields
  <2>2. d = [c EXCEPT !.evicted = p] OBVIOUS
  <2> HIDE DEF p
  <2> QED BY ONLY <2>1, <2>2
<1>3. /\ d.capacity = c.capacity /\ d.size = c.size /\ d.allocated = c.allocated
      /\ d.insertion_order = c.insertion_order /\ d.evicted = p /\ d.hash = c.hash
  BY <1>2
<1>4. /\ p \in Seq(Entry) /\ Len(p) = Len(q) /\ DOMAIN p = 1 .. Len(q) /\ p[k] = f
      /\ \A i \in 1 .. Len(q) : i # k => p[i] = q[i]
  BY <1>1
<1> HIDE DEF q, e, p
<1>5. f.key = e.key /\ f.value = e.value BY DEF e, q
<1>6. \A i, j \in 1 .. Len(q) : q[i].value = q[j].value => i = j
  BY <1>1 DEF Good, OneOwner, q
<1>7. \A i, j \in 1 .. Len(q) : p[i].value = p[j].value => i = j BY <1>4, <1>5, <1>6 DEF e
<1>8. ToSet(p) = (ToSet(q) \ {e}) \cup {f} BY <1>1, <1>4, <1>6 DEF ToSet, e
<1>9. KeysAgree(d) BY <1>3 DEF Good, KeysAgree
<1>10. Counted(d)
  <2>1. Counted(c) BY DEF Good
  <2> QED BY <1>3, <1>4, <1>8, <2>1 DEF Counted, q
<1>11. OneOwner(d)
  <2>1. OneOwner(c) BY DEF Good
  <2> QED BY <1>1, <1>3, <1>4, <1>5, <1>7, <1>8, <2>1 DEF OneOwner, q
<1>12. d \in CacheStates
  <2>1. /\ c.size \in Nat /\ c.allocated \in Nat /\ c.insertion_order \in Seq(Keys)
        /\ c.capacity \in Capacities
    BY Fields
  <2>2. c.hash \in UNION {Tables(i) : i \in Nat \ {0}} BY Fields
  <2> QED BY ONLY <1>2, <1>4, <2>1, <2>2 DEF CacheStates
<1>13. Good(d) BY <1>3, <1>9, <1>10, <1>11, <1>12 DEF Good
<1>14. LockOf(f) = LockOf(e) BY <1>5 DEF LockOf
<1>15. All(d) = (All(c) \ {e}) \cup {f} /\ e \in All(c)
  <2>1. e \notin Entries(c.hash) BY <1>1 DEF Good, OneOwner, q
  <2> QED BY <1>1, <1>3, <1>8, <2>1 DEF All, q
<1> QED BY <1>3, <1>5, <1>13, <1>14, <1>15 DEF Repinned, e, q

\* Between c and d the entry e, which was set aside, is deleted.
Deleted(c, d, e) ==
  /\ Good(d) /\ d.capacity = c.capacity /\ d.insertion_order = c.insertion_order
  /\ e \in All(c) /\ All(d) = All(c) \ {e} /\ d.hash = c.hash

LEMMA DeleteAside ==
  ASSUME NEW c, Good(c), NEW k \in DOMAIN c.evicted,
         NEW d, d = [c EXCEPT !.evicted = RemoveAt(@, k), !.allocated = @ - 1]
  PROVE  Deleted(c, d, c.evicted[k])
<1> DEFINE q == c.evicted
           e == q[k]
           p == RemoveAt(q, k)
           o == c.insertion_order
<1>1. /\ q \in Seq(Entry) /\ DOMAIN q = 1 .. Len(q) /\ e \in ToSet(q) /\ k \in 1 .. Len(q)
      /\ o \in Seq(Keys) /\ c.allocated = Len(o) + Len(q)
  <2>1. q \in Seq(Entry) /\ k \in DOMAIN q /\ o \in Seq(Keys)
        /\ c.allocated = Len(o) + Len(q)
    BY Fields
  <2> HIDE DEF q
  <2> QED BY <2>1 DEF ToSet
<1>2. d = [capacity |-> c.capacity, size |-> c.size, allocated |-> c.allocated - 1,
           insertion_order |-> o, evicted |-> p, hash |-> c.hash]
  <2>1. c = [capacity |-> c.capacity, size |-> c.size, allocated |-> c.allocated,
             insertion_order |-> c.insertion_order, evicted |-> c.evicted,
             hash |-> c.hash]
    BY Fields
  <2>2. PICK al : al = c.allocated - 1 OBVIOUS
  <2>3. d = [c EXCEPT !.evicted = p, !.allocated = al] BY <2>2, Fields
  <2> HIDE DEF p
  <2>4. d = [capacity |-> c.capacity, size |-> c.size, allocated |-> al,
             insertion_order |-> o, evicted |-> p, hash |-> c.hash]
    BY ONLY <2>1, <2>3
  <2> QED BY <2>2, <2>4
<1>3. /\ d.capacity = c.capacity /\ d.size = c.size /\ d.allocated = c.allocated - 1
      /\ d.insertion_order = o /\ d.evicted = p /\ d.hash = c.hash
  BY <1>2
<1> HIDE DEF p, q, o
<1>4. /\ p \in Seq(Entry) /\ Len(p) = Len(q) - 1 /\ DOMAIN p = 1 .. Len(q) - 1
      /\ \A i \in 1 .. Len(q) - 1 : p[i] = q[IF i < k THEN i ELSE i + 1]
  <2>1. /\ p \in Seq(Entry) /\ Len(p) = Len(q) - 1
        /\ \A i \in 1 .. Len(q) - 1 : p[i] = q[IF i < k THEN i ELSE i + 1]
    BY <1>1, RemoveOne DEF p
  <2> QED BY <2>1
<1>5. \A i, j \in 1 .. Len(q) : q[i].value = q[j].value => i = j
  BY <1>1 DEF Good, OneOwner, q
<1> DEFINE F(i) == IF i < k THEN i ELSE i + 1
<1>6. /\ \A i \in 1 .. Len(q) - 1 : F(i) \in 1 .. Len(q) /\ F(i) # k
      /\ \A i, j \in 1 .. Len(q) - 1 : F(i) = F(j) => i = j
      /\ \A j \in 1 .. Len(q) : j # k => \E i \in 1 .. Len(q) - 1 : F(i) = j
  <2>1. PICK n \in Nat : n = Len(q) BY <1>1
  <2>2. ASSUME NEW j \in 1 .. n, j # k PROVE \E i \in 1 .. n - 1 : F(i) = j
    <3>1. CASE j < k BY <1>1, <2>1, <3>1
    <3>2. CASE j > k
      <4>1. j - 1 \in 1 .. n - 1 /\ F(j - 1) = j BY <1>1, <2>1, <3>2
      <4> QED BY <4>1
    <3> QED BY <1>1, <2>1, <2>2, <3>1, <3>2
  <2> QED BY <1>1, <2>1, <2>2
<1>7. \A i \in 1 .. Len(q) - 1 : p[i] = q[F(i)] BY <1>4
<1> HIDE DEF F
<1>8. \A i, j \in DOMAIN p : p[i].value = p[j].value => i = j BY <1>4, <1>5, <1>6, <1>7
<1>9. ToSet(p) = ToSet(q) \ {e}
  <2>1. \A x \in ToSet(p) : x \in ToSet(q) /\ x # e
    BY <1>1, <1>4, <1>5, <1>6, <1>7 DEF ToSet
  <2>2. \A j \in 1 .. Len(q) : j # k => q[j] \in ToSet(p)
    BY <1>4, <1>6, <1>7 DEF ToSet
  <2>3. \A x \in ToSet(q) : x # e => x \in ToSet(p) BY <1>1, <2>2 DEF ToSet
  <2> QED BY <2>1, <2>3
<1>10. KeysAgree(d) BY <1>3 DEF Good, KeysAgree, o
<1>11. Counted(d)
  <2>1. Counted(c) BY DEF Good
  <2>2. Len(o) \in Nat /\ Len(q) \in Nat /\ c.size = Len(o) BY <1>1, <2>1 DEF Counted, o
  <2>3. c.allocated - 1 = Len(o) + (Len(q) - 1)
    <3> DEFINE a0 == Len(o)
               b0 == Len(q)
    <3>1. a0 \in Nat /\ b0 \in Nat /\ c.allocated = a0 + b0 BY <1>1, <2>2
    <3> HIDE DEF a0, b0
    <3>2. c.allocated - 1 = a0 + (b0 - 1) BY ONLY <3>1
    <3> QED BY <3>2 DEF a0, b0
  <2>4. \A f \in ToSet(p) : f.pins # 0 BY <1>9, <2>1 DEF Counted, q
  <2>5. /\ d.size = Len(d.insertion_order)
        /\ d.allocated = Len(d.insertion_order) + Len(d.evicted)
    BY ONLY <1>3, <1>4, <2>2, <2>3
  <2> QED BY ONLY <1>3, <2>4, <2>5 DEF Counted
<1>12. OneOwner(d)
  <2>1. OneOwner(c) BY DEF Good
  <2> QED BY <1>3, <1>8, <1>9, <2>1 DEF OneOwner, q
<1>13. d \in CacheStates
  <2>1. c.size \in Nat /\ c.capacity \in Capacities BY Fields
  <2>2. c.hash \in UNION {Tables(i) : i \in Nat \ {0}} BY Fields
  <2>3. c.allocated - 1 \in Nat
    <3> DEFINE a0 == Len(o)
               b0 == Len(q)
    <3>1. a0 \in Nat /\ b0 \in Nat /\ b0 # 0 /\ c.allocated = a0 + b0 BY <1>1
    <3> HIDE DEF a0, b0
    <3> QED BY ONLY <3>1
  <2> QED BY ONLY <1>1, <1>2, <1>4, <2>1, <2>2, <2>3 DEF CacheStates
<1>14. Good(d) BY <1>3, <1>10, <1>11, <1>12, <1>13 DEF Good
<1>15. All(d) = All(c) \ {e} /\ e \in All(c)
  <2>1. e \notin Entries(c.hash) BY <1>1 DEF Good, OneOwner, q
  <2> QED BY <1>1, <1>3, <1>9, <2>1 DEF All, q
<1> QED BY <1>3, <1>14, <1>15 DEF Deleted, q, o


\* What LookupAndPin makes of a cache that has the key in the slot at.
Pinned(c, at) == [c EXCEPT !.hash[at].pins = @ + 1]

LEMMA PinResult ==
  ASSUME NEW c, Good(c), NEW at \in Used(c.hash)
  PROVE  \E f : Repinned(c, Pinned(c, at), c.hash[at], f) /\ f.pins = c.hash[at].pins + 1
<1> DEFINE e == c.hash[at]
           f == [e EXCEPT !.pins = @ + 1]
           d == Pinned(c, at)
<1>1. c.hash \in Tables(TableSize(c.capacity)) /\ at \in DOMAIN c.hash BY Fields DEF Used
<1>2. e \in Entry BY <1>1 DEF Used, Tables
<1>3. f \in Entry /\ f.key = e.key /\ f.value = e.value /\ f.pins = e.pins + 1
  <2> HIDE DEF e
  <2> QED BY <1>2 DEF Entry
<1>4. d = [c EXCEPT !.hash = Filled(c.hash, at, f)] BY DEF Pinned, Filled
<1> HIDE DEF f, d
<1>5. Repinned(c, d, e, f) BY <1>3, <1>4, RepinSlot
<1> QED BY <1>3, <1>5 DEF d

\* Where Unpin finds an entry that is set aside.
LEMMA AsideAt ==
  ASSUME NEW q \in Seq(Entry), NEW l
  PROVE  LET k == SelectInSeq(q, LAMBDA e : e.key = l.key /\ e.value = l.value)
         IN  \/ k \in DOMAIN q /\ q[k].key = l.key /\ q[k].value = l.value
             \/ k = 0 /\ \A e \in ToSet(q) : ~ (e.key = l.key /\ e.value = l.value)
<1> DEFINE Q == {i \in 1 .. Len(q) : q[i].key = l.key /\ q[i].value = l.value}
<1>1. SelectInSeq(q, LAMBDA e : e.key = l.key /\ e.value = l.value) =
        IF Q # {} THEN Min(Q) ELSE 0
  BY DEF SelectInSeq
<1>2. DOMAIN q = 1 .. Len(q) OBVIOUS
<1>3. CASE Q # {}
  <2>1. \E x \in Q : \A y \in Q : x <= y
    <3>1. Q \subseteq Nat OBVIOUS
    <3> HIDE DEF Q
    <3> QED BY <1>3, <3>1, NatMin
  <2>2. Min(Q) \in Q
    <3> HIDE DEF Q
    <3> QED BY <2>1 DEF Min
  <2>3. Min(Q) \in DOMAIN q /\ q[Min(Q)].key = l.key /\ q[Min(Q)].value = l.value
    BY <1>2, <2>2
  <2> HIDE DEF Q
  <2> QED BY <1>1, <1>3, <2>3
<1>4. CASE Q = {}
  <2>1. \A e \in ToSet(q) : ~ (e.key = l.key /\ e.value = l.value) BY <1>2, <1>4 DEF ToSet
  <2> HIDE DEF Q
  <2> QED BY <1>1, <1>4, <2>1
<1> QED BY <1>3, <1>4

\* What Unpin makes of the cache.
Unpinned(c, l) ==
  LET aside == SelectInSeq(c.evicted, LAMBDA e : e.key = l.key /\ e.value = l.value)
      at == Probe(c.hash, l.key,
                  {i \in Holding(c.hash, l.key) : c.hash[i].value = l.value})
  IN  IF aside = 0
      THEN [c EXCEPT !.hash[at].pins = @ - 1]
      ELSE IF c.evicted[aside].pins = 1
      THEN [c EXCEPT !.evicted = RemoveAt(@, aside), !.allocated = @ - 1]
      ELSE [c EXCEPT !.evicted[aside].pins = @ - 1]

LEMMA UnpinResult ==
  ASSUME NEW c, Good(c), NEW e \in All(c), e.pins # 0, NEW l, l = LockOf(e),
         NEW d, d = Unpinned(c, l)
  PROVE  \/ \E f : Repinned(c, d, e, f) /\ f.pins = e.pins - 1
         \/ e.pins = 1 /\ Deleted(c, d, e)
<1> DEFINE q == c.evicted
           T == c.hash
           n == TableSize(c.capacity)
           aside == SelectInSeq(q, LAMBDA x : x.key = l.key /\ x.value = l.value)
           at == Probe(T, l.key, {i \in Holding(T, l.key) : T[i].value = l.value})
<1>1. l.key = e.key /\ l.value = e.value BY DEF LockOf, Pair
<1>2. d = IF aside = 0
          THEN [c EXCEPT !.hash[at].pins = @ - 1]
          ELSE IF q[aside].pins = 1
          THEN [c EXCEPT !.evicted = RemoveAt(@, aside), !.allocated = @ - 1]
          ELSE [c EXCEPT !.evicted[aside].pins = @ - 1]
  BY DEF Unpinned
<1> HIDE DEF aside, at
<1>3. q \in Seq(Entry) /\ TableOK(T, n) /\ T \in Tables(n) /\ n \in Nat \ {0}
      /\ DOMAIN T = 0 .. n - 1
  BY Fields DEF Good
<1>4. \/ aside \in DOMAIN q /\ q[aside].key = l.key /\ q[aside].value = l.value
      \/ aside = 0 /\ \A x \in ToSet(q) : ~ (x.key = l.key /\ x.value = l.value)
  <2> HIDE DEF q
  <2> QED BY <1>3, AsideAt DEF aside
<1>5. e \in Entry
  <2>1. \A i \in DOMAIN q : q[i] \in Entry
    <3> HIDE DEF q
    <3> QED BY <1>3
  <2>2. \A x \in ToSet(q) : x \in Entry BY <2>1 DEF ToSet
  <2>3. \A x \in Entries(T) : x \in Entry BY <1>3 DEF Entries, Used, Tables
  <2> QED BY <2>2, <2>3 DEF All
<1> DEFINE f == [e EXCEPT !.pins = @ - 1]
<1>6. f \in Entry /\ f.key = e.key /\ f.value = e.value /\ f.pins = e.pins - 1
  BY <1>5 DEF Entry
<1>7. CASE aside = 0 /\ \A x \in ToSet(q) : ~ (x.key = l.key /\ x.value = l.value)
  <2>1. e \in Entries(T) BY <1>1, <1>7 DEF All
  <2>2. PICK i \in Used(T) : T[i] = e BY <2>1 DEF Entries
  <2>3. Holding(T, l.key) = {i} /\ Probe(T, l.key, {i}) = i
    <3> HIDE DEF n, T
    <3>1. Holding(T, T[i].key) = {i} /\ Probe(T, T[i].key, {i}) = i
      BY <1>3, ProbeFinds
    <3>2. T[i].key = l.key BY <1>1, <2>2
    <3> QED BY <3>1, <3>2
  <2>4. {x \in Holding(T, l.key) : T[x].value = l.value} = {i} BY <1>1, <2>2, <2>3
  <2>5. at = i BY <2>3, <2>4 DEF at
  <2>6. d = [c EXCEPT !.hash[i].pins = @ - 1] BY <1>2, <1>7, <2>5
  <2>7. d = [c EXCEPT !.hash = Filled(T, i, f)] BY <2>2, <2>6 DEF Filled
  <2> HIDE DEF f
  <2>8. Repinned(c, d, e, f) BY <1>6, <2>2, <2>7, RepinSlot
  <2> QED BY <1>6, <2>8
<1>8. CASE aside \in DOMAIN q /\ q[aside].key = l.key /\ q[aside].value = l.value
  <2>1. q[aside] = e
    <3>1. q[aside] \in All(c) BY <1>8 DEF All, ToSet
    <3> QED BY <1>1, <1>8, <3>1, OneEntry
  <2>2. aside # 0
    <3>1. DOMAIN q = 1 .. Len(q)
      <4> HIDE DEF q
      <4> QED BY <1>3
    <3> QED BY <1>8, <3>1
  <2>3. CASE e.pins = 1
    <3>1. d = [c EXCEPT !.evicted = RemoveAt(@, aside), !.allocated = @ - 1]
      BY <1>2, <2>1, <2>2, <2>3
    <3>2. Deleted(c, d, q[aside]) BY <1>8, <3>1, DeleteAside
    <3> QED BY <2>1, <2>3, <3>2
  <2>4. CASE e.pins # 1
    <3>1. d = [c EXCEPT !.evicted[aside].pins = @ - 1] BY <1>2, <2>1, <2>2, <2>4
    <3>2. d = [c EXCEPT !.evicted = [@ EXCEPT ![aside] = f]] BY <2>1, <3>1
    <3>3. f.pins # 0 BY <1>5, <1>6, <2>4 DEF Entry
    <3> HIDE DEF f
    <3>4. Repinned(c, d, q[aside], f) BY <1>6, <1>8, <2>1, <3>2, <3>3, RepinAside
    <3> QED BY <1>6, <2>1, <3>4
  <2> QED BY <2>3, <2>4
<1> QED BY <1>4, <1>7, <1>8


(***************************************************************************)
(* The locks, the owners of values and their contents, from one state of   *)
(* the cache to the next.                                                  *)
(***************************************************************************)
\* The threads that hold a lock on an entry.
LockedBy(l, e) == {t \in Threads : l[t] = LockOf(e)}

\* Entries and their locks have the same value and key.
LEMMA LockFields ==
  ASSUME NEW e, NEW f, LockOf(e) = LockOf(f)
  PROVE  e.key = f.key /\ e.value = f.value
<1>1. LockOf(e).key = e.key /\ LockOf(e).value = e.value BY DEF LockOf, Pair
<1>2. LockOf(f).key = f.key /\ LockOf(f).value = f.value BY DEF LockOf, Pair
<1> QED BY <1>1, <1>2

\* Entries are of their type, and no lock on one is NoLock.
LEMMA EntryType ==
  ASSUME NEW c, Good(c), NEW e \in All(c)
  PROVE  /\ e \in Entry /\ e.pins \in Nat /\ e.key \in Keys /\ e.value \in Values
         /\ LockOf(e) # NoLock /\ LockOf(e) \in [key : Keys, value : Values]
<1>1. e \in Entry
  <2> DEFINE q == c.evicted
             T == c.hash
  <2>1. q \in Seq(Entry) /\ T \in Tables(TableSize(c.capacity)) BY Fields
  <2>2. \A i \in DOMAIN q : q[i] \in Entry
    <3> HIDE DEF q
    <3> QED BY <2>1
  <2>3. \A x \in ToSet(q) : x \in Entry BY <2>2 DEF ToSet
  <2>4. \A x \in Entries(T) : x \in Entry BY <2>1 DEF Entries, Used, Tables
  <2> QED BY <2>3, <2>4 DEF All
<1>2. e.pins \in Nat /\ e.key \in Keys /\ e.value \in Values BY <1>1 DEF Entry
<1>3. LockOf(e) \in [key : Keys, value : Values] BY <1>2 DEF LockOf, Pair
<1> QED BY <1>1, <1>2, <1>3, CacheAssumption

\* What an eviction leaves is locked as before: a locked entry is pinned, and stays.
LEMMA PinsDropped ==
  ASSUME NEW c, Good(c), NEW l, PinsOK(c, l), NEW d, NEW k, Dropped(c, d, k)
  PROVE  PinsOK(d, l)
<1>1. ASSUME NEW t \in Threads, l[t] # NoLock PROVE \E e \in All(d) : l[t] = LockOf(e)
  <2>1. PICK e \in All(c) : l[t] = LockOf(e) BY <1>1 DEF PinsOK
  <2>2. e.pins # 0
    <3>1. e.pins = Cardinality(LockedBy(l, e)) BY DEF PinsOK, LockedBy
    <3>2. t \in LockedBy(l, e) BY <2>1 DEF LockedBy
    <3>3. IsFiniteSet(LockedBy(l, e))
      BY MemCacheAssumption, FS_Subset DEF LockedBy
    <3> QED BY <3>1, <3>2, <3>3, FS_EmptySet
  <2>3. e \in All(d) BY <2>2 DEF Dropped
  <2> QED BY <2>1, <2>3
<1>2. All(d) \subseteq All(c) BY DEF Dropped
<1> QED BY <1>1, <1>2 DEF PinsOK

\* A new entry is not locked.
LEMMA PinsJoined ==
  ASSUME NEW c, Good(c), NEW l, PinsOK(c, l), NEW a, NEW key \in Keys,
         NEW value \in Values, Joined(c, a, key, value), \A e \in All(c) : e.value # value
  PROVE  PinsOK(a, l)
<1> DEFINE n == NewEntry(key, value)
<1>1. All(a) = All(c) \cup {n} /\ n.pins = 0 /\ n.value = value /\ n \in All(a)
  BY DEF Joined, NewEntry
<1>2. LockedBy(l, n) = {}
  <2> SUFFICES ASSUME NEW t \in Threads, l[t] = LockOf(n) PROVE FALSE BY DEF LockedBy
  <2>1. Good(a) BY DEF Joined
  <2>2. l[t] # NoLock BY <1>1, <2>1, EntryType
  <2>3. PICK e \in All(c) : l[t] = LockOf(e) BY <2>2 DEF PinsOK
  <2> QED BY <1>1, <2>3, LockFields
<1> HIDE DEF n
<1>3. \A e \in All(a) : e.pins = Cardinality(LockedBy(l, e))
  BY <1>1, <1>2, FS_EmptySet DEF PinsOK, LockedBy
<1>4. \A t \in Threads : l[t] # NoLock => \E e \in All(a) : l[t] = LockOf(e)
  BY <1>1 DEF PinsOK
<1> QED BY <1>3, <1>4 DEF PinsOK, LockedBy

\* Between c and d other entries keep their locks.
LEMMA OthersApart ==
  ASSUME NEW c, Good(c), NEW e \in All(c), NEW x \in All(c), x # e
  PROVE  LockOf(x) # LockOf(e)
<1> SUFFICES ASSUME LockOf(x) = LockOf(e) PROVE FALSE OBVIOUS
<1>1. x.value = e.value BY LockFields
<1> QED BY <1>1, OneEntry

\* One more thread holds a lock.
LEMMA PinsAcquired ==
  ASSUME NEW c, Good(c), NEW l, PinsOK(c, l), NEW d, NEW e, NEW f, Repinned(c, d, e, f),
         f.pins = e.pins + 1, NEW t \in Threads, l[t] = NoLock, DOMAIN l = Threads,
         NEW m, m = [l EXCEPT ![t] = LockOf(e)]
  PROVE  PinsOK(d, m)
<1>1. /\ e \in All(c) /\ LockOf(f) = LockOf(e) /\ All(d) = (All(c) \ {e}) \cup {f}
  BY DEF Repinned
<1>2. m[t] = LockOf(e) /\ \A u \in Threads : u # t => m[u] = l[u] OBVIOUS
<1>3. LockOf(e) # NoLock BY <1>1, EntryType
<1>4. ASSUME NEW u \in Threads, m[u] # NoLock PROVE \E x \in All(d) : m[u] = LockOf(x)
  <2>1. PICK x \in All(c) : m[u] = LockOf(x) BY <1>1, <1>2, <1>4 DEF PinsOK
  <2> QED BY <1>1, <2>1
<1>5. f.pins = Cardinality(LockedBy(m, f))
  <2>1. LockedBy(m, f) = LockedBy(l, e) \cup {t} BY <1>1, <1>2 DEF LockedBy
  <2>2. t \notin LockedBy(l, e) BY <1>3 DEF LockedBy
  <2>3. IsFiniteSet(LockedBy(l, e)) BY MemCacheAssumption, FS_Subset DEF LockedBy
  <2>4. e.pins = Cardinality(LockedBy(l, e)) BY <1>1 DEF PinsOK, LockedBy
  <2> QED BY <2>1, <2>2, <2>3, <2>4, FS_AddElement
<1>6. ASSUME NEW x \in All(c), x # e PROVE x.pins = Cardinality(LockedBy(m, x))
  <2>1. LockOf(x) # LockOf(e) /\ LockOf(x) # NoLock
    BY <1>1, <1>6, OthersApart, EntryType
  <2>2. LockedBy(m, x) = LockedBy(l, x) BY <1>2, <2>1 DEF LockedBy
  <2> QED BY <2>2 DEF PinsOK, LockedBy
<1>7. \A x \in All(d) : x.pins = Cardinality(LockedBy(m, x)) BY <1>1, <1>5, <1>6
<1> QED BY <1>4, <1>7 DEF PinsOK, LockedBy

\* A thread gives its lock up, and the entry is deleted with its last lock if it is in
\* the table no more.
LEMMA PinsReleased ==
  ASSUME NEW c, Good(c), NEW l, PinsOK(c, l), NEW d, NEW e,
         \/ \E f : Repinned(c, d, e, f) /\ f.pins = e.pins - 1
         \/ e.pins = 1 /\ Deleted(c, d, e),
         NEW t \in Threads, l[t] = LockOf(e), DOMAIN l = Threads,
         NEW m, m = [l EXCEPT ![t] = NoLock]
  PROVE  PinsOK(d, m)
<1>1. e \in All(c) BY DEF Repinned, Deleted
<1>2. m[t] = NoLock /\ \A u \in Threads : u # t => m[u] = l[u] OBVIOUS
<1>3. LockOf(e) # NoLock BY <1>1, EntryType
<1>4. e.pins = Cardinality(LockedBy(l, e)) /\ t \in LockedBy(l, e)
  BY <1>1 DEF PinsOK, LockedBy
<1>5. IsFiniteSet(LockedBy(l, e)) BY MemCacheAssumption, FS_Subset DEF LockedBy
<1>6. Cardinality(LockedBy(l, e) \ {t}) = e.pins - 1 BY <1>4, <1>5, FS_RemoveElement
<1>7. LockedBy(m, e) = LockedBy(l, e) \ {t} BY <1>2, <1>3 DEF LockedBy
<1>8. ASSUME NEW x \in All(c), x # e PROVE x.pins = Cardinality(LockedBy(m, x))
  <2>1. LockOf(x) # LockOf(e) /\ LockOf(x) # NoLock
    BY <1>1, <1>8, OthersApart, EntryType
  <2>2. LockedBy(m, x) = LockedBy(l, x) BY <1>2, <2>1 DEF LockedBy
  <2> QED BY <2>2 DEF PinsOK, LockedBy
<1>9. CASE \E f : Repinned(c, d, e, f) /\ f.pins = e.pins - 1
  <2>1. PICK f : Repinned(c, d, e, f) /\ f.pins = e.pins - 1 BY <1>9
  <2>2. LockOf(f) = LockOf(e) /\ All(d) = (All(c) \ {e}) \cup {f} BY <2>1 DEF Repinned
  <2>3. LockedBy(m, f) = LockedBy(m, e) BY <2>2 DEF LockedBy
  <2>4. \A x \in All(d) : x.pins = Cardinality(LockedBy(m, x))
    BY <1>6, <1>7, <1>8, <2>1, <2>2, <2>3
  <2>5. ASSUME NEW u \in Threads, m[u] # NoLock PROVE \E x \in All(d) : m[u] = LockOf(x)
    <3>1. PICK x \in All(c) : m[u] = LockOf(x) BY <1>2, <2>5 DEF PinsOK
    <3> QED BY <2>2, <3>1
  <2> QED BY <2>4, <2>5 DEF PinsOK, LockedBy
<1>10. CASE e.pins = 1 /\ Deleted(c, d, e)
  <2>1. All(d) = All(c) \ {e} BY <1>10 DEF Deleted
  <2>2. LockedBy(m, e) = {}
    <3>1. IsFiniteSet(LockedBy(m, e)) BY <1>5, <1>7, FS_Subset
    <3>2. e.pins = 1 BY <1>10
    <3>3. 1 - 1 = 0 OBVIOUS
    <3>4. Cardinality(LockedBy(m, e)) = 0 BY ONLY <1>6, <1>7, <3>2, <3>3
    <3> QED BY <3>1, <3>4, FS_EmptySet
  <2>3. \A x \in All(d) : x.pins = Cardinality(LockedBy(m, x)) BY <1>8, <2>1
  <2>4. ASSUME NEW u \in Threads, m[u] # NoLock PROVE \E x \in All(d) : m[u] = LockOf(x)
    <3>1. PICK x \in All(c) : m[u] = LockOf(x) BY <1>2, <2>4 DEF PinsOK
    <3>2. x # e BY <2>2, <3>1 DEF LockedBy
    <3> QED BY <2>1, <3>1, <3>2
  <2> QED BY <2>3, <2>4 DEF PinsOK, LockedBy
<1> QED BY <1>9, <1>10


\* Each entry of d is one of c, but for its pins.
Inherits(c, d) ==
  \A f \in All(d) : \E e \in All(c) : e.key = f.key /\ e.value = f.value

LEMMA Inherited ==
  ASSUME NEW c, NEW d,
         \/ \E k : Dropped(c, d, k)
         \/ \E e, f : Repinned(c, d, e, f)
         \/ \E e : Deleted(c, d, e)
         \/ \E k, n, x : Dropped(c, x, k) /\ Refit(x, d, n)
         \/ d = c
  PROVE  Inherits(c, d) /\ Living(d) \subseteq Living(c)
<1>1. Inherits(c, d)
  <2>1. CASE \E k : Dropped(c, d, k) BY <2>1 DEF Inherits, Dropped
  <2>2. CASE \E e, f : Repinned(c, d, e, f) BY <2>2 DEF Inherits, Repinned
  <2>3. CASE \E e : Deleted(c, d, e) BY <2>3 DEF Inherits, Deleted
  <2>4. CASE \E k, n, x : Dropped(c, x, k) /\ Refit(x, d, n)
    BY <2>4 DEF Inherits, Dropped, Refit
  <2>5. CASE d = c BY <2>5 DEF Inherits
  <2> QED BY <2>1, <2>2, <2>3, <2>4, <2>5
<1> QED BY <1>1 DEF Inherits, Living

\* Nobody else comes to own a value while the computations keep theirs.
LEMMA OwnersKeep ==
  ASSUME NEW c, NEW m, OwnersOK(c, m), NEW d, Living(d) \subseteq Living(c),
         NEW w, \A t \in Threads : w[t].entries = m[t].entries
  PROVE  OwnersOK(d, w)
<1>1. \A t \in Threads : Pending(w, t) = Pending(m, t) BY DEF Pending
<1> QED BY <1>1 DEF OwnersOK

\* A computation takes a value that is not in use.
LEMMA OwnersAdd ==
  ASSUME NEW c, NEW m, OwnersOK(c, m), NEW d, Living(d) \subseteq Living(c),
         NEW w, NEW t \in Threads, NEW S, m[t].entries \in Seq(S),
         NEW x \in S, w[t].entries = Append(m[t].entries, x),
         \A u \in Threads : u # t => w[u].entries = m[u].entries,
         x.value \notin Living(c), \A u \in Threads : x.value \notin Pending(m, u)
  PROVE  OwnersOK(d, w)
<1> SUFFICES ASSUME NEW q \in Seq(S), q = m[t].entries, NEW r, r = w[t].entries,
                    r = Append(q, x)
             PROVE  OwnersOK(d, w)
  OBVIOUS
<1>1. /\ \A u \in Threads : u # t => Pending(w, u) = Pending(m, u)
      /\ Pending(w, t) = Pending(m, t) \cup {x.value}
  <2>1. ToSet(r) = ToSet(q) \cup {x} BY AppendSet
  <2> QED BY <2>1 DEF Pending
<1>2. ASSUME NEW i \in DOMAIN r, NEW j \in DOMAIN r, r[i].value = r[j].value PROVE i = j
  <2>1. /\ DOMAIN r = 1 .. Len(q) + 1 /\ DOMAIN q = 1 .. Len(q) /\ Len(q) \in Nat
        /\ \A k \in 1 .. Len(q) : r[k] = q[k]
        /\ r[Len(q) + 1] = x
    OBVIOUS
  <2>2. \A k \in 1 .. Len(q) : q[k].value # x.value BY <2>1 DEF Pending, ToSet
  <2>3. \A k, n \in 1 .. Len(q) : q[k].value = q[n].value => k = n
    BY <2>1 DEF OwnersOK
  <2>4. \A k \in DOMAIN r : k \in 1 .. Len(q) \/ k = Len(q) + 1 BY <2>1
  <2> QED BY <1>2, <2>1, <2>2, <2>3, <2>4
<1>3. \A u \in Threads : \A i, j \in DOMAIN w[u].entries :
        w[u].entries[i].value = w[u].entries[j].value => i = j
  BY <1>2 DEF OwnersOK
<1>4. \A u \in Threads : Pending(w, u) \cap Living(d) = {} BY <1>1 DEF OwnersOK
<1>5. \A u, v \in Threads : u # v => Pending(w, u) \cap Pending(w, v) = {}
  BY <1>1 DEF OwnersOK
<1> QED BY <1>3, <1>4, <1>5 DEF OwnersOK

\* The first value of a computation is moved into the cache.
LEMMA OwnersMove ==
  ASSUME NEW c, NEW m, OwnersOK(c, m), NEW w, NEW t \in Threads, NEW S,
         m[t].entries \in Seq(S), m[t].entries # <<>>, NEW x, x = Head(m[t].entries),
         w[t].entries = Tail(m[t].entries),
         \A u \in Threads : u # t => w[u].entries = m[u].entries,
         NEW d, Living(d) \subseteq Living(c) \cup {x.value}
  PROVE  OwnersOK(d, w) /\ x.value \notin Living(c)
<1> SUFFICES ASSUME NEW q \in Seq(S), q = m[t].entries, q # <<>>,
                    NEW r, r = w[t].entries, r = Tail(q), x = Head(q)
             PROVE  OwnersOK(d, w) /\ x.value \notin Living(c)
  OBVIOUS
<1>1. /\ DOMAIN r = 1 .. Len(q) - 1 /\ DOMAIN q = 1 .. Len(q) /\ Len(q) \in Nat
      /\ \A k \in 1 .. Len(q) - 1 : r[k] = q[k + 1]
      /\ q[1] = x /\ 1 \in 1 .. Len(q)
  OBVIOUS
<1>2. \A k, n \in 1 .. Len(q) : q[k].value = q[n].value => k = n BY <1>1 DEF OwnersOK
<1>3. \A k \in 1 .. Len(q) - 1 : k + 1 \in 1 .. Len(q) /\ k + 1 # 1 BY <1>1
<1>12. \A k \in 1 .. Len(q) - 1 : r[k] \in ToSet(q) /\ r[k].value # x.value
  <2> TAKE k \in 1 .. Len(q) - 1
  <2>1. k + 1 \in 1 .. Len(q) /\ k + 1 # 1 BY <1>3
  <2>2. q[k + 1].value # q[1].value BY ONLY <1>1, <1>2, <2>1
  <2>3. q[k + 1] \in ToSet(q) BY <1>1, <2>1 DEF ToSet
  <2> QED BY ONLY <1>1, <2>2, <2>3
<1>4. \A y \in ToSet(r) : y \in ToSet(q) /\ y.value # x.value
  BY ONLY <1>1, <1>12 DEF ToSet
<1>5. x \in ToSet(q) BY <1>1 DEF ToSet
<1>6. /\ \A u \in Threads : u # t => Pending(w, u) = Pending(m, u)
      /\ Pending(w, t) \subseteq Pending(m, t) /\ x.value \notin Pending(w, t)
      /\ x.value \in Pending(m, t)
  BY <1>4, <1>5 DEF Pending
<1>7. \A i, j \in DOMAIN r : r[i].value = r[j].value => i = j
  <2> SUFFICES ASSUME NEW i \in 1 .. Len(q) - 1, NEW j \in 1 .. Len(q) - 1,
                      r[i].value = r[j].value
               PROVE  i = j
    BY <1>1
  <2>1. i + 1 = j + 1 BY ONLY <1>1, <1>2, <1>3, r[i].value = r[j].value
  <2> QED BY <1>1, <2>1
<1>8. \A u \in Threads : \A i, j \in DOMAIN w[u].entries :
        w[u].entries[i].value = w[u].entries[j].value => i = j
  BY <1>7 DEF OwnersOK
<1>9. \A u \in Threads : Pending(w, u) \cap Living(d) = {} BY <1>6 DEF OwnersOK
<1>10. \A u, v \in Threads : u # v => Pending(w, u) \cap Pending(w, v) = {}
  BY <1>6 DEF OwnersOK
<1>11. x.value \notin Living(c) BY <1>6 DEF OwnersOK
<1> QED BY <1>8, <1>9, <1>10, <1>11 DEF OwnersOK

\* What an entry holds is left alone as long as it lives.
LEMMA ContentKeep ==
  ASSUME NEW c, NEW v, ContentOK(c, v), NEW d, Inherits(c, d), NEW w,
         \A e \in All(d) : w[e.value] = v[e.value]
  PROVE  ContentOK(d, w)
BY DEF ContentOK, Inherits


(***************************************************************************)
(* The operations: what each does to the cache and to the locks.           *)
(***************************************************************************)
Sound(c) == Good(c) /\ c.size <= c.capacity

\* A cache that is sound has room, and a slot that is not in use.
LEMMA SoundRoom ==
  ASSUME NEW c, Sound(c)
  PROVE  NotInUse(c.hash) # {}
<1> DEFINE n == TableSize(c.capacity)
           q == c.insertion_order
<1>1. /\ n \in Nat \ {0} /\ c.capacity < n /\ c.capacity \in Nat /\ q \in Seq(Keys)
      /\ c.size = Len(q) /\ c.size <= c.capacity /\ c.size \in Nat /\ TableOK(c.hash, n)
  BY Fields, TableSizeIs DEF Sound, Good
<1>2. \A e \in Entries(c.hash) : e.key \in ToSet(q) BY DEF Sound, Good, KeysAgree
<1> HIDE DEF n, q
<1>3. Len(q) < n BY <1>1
<1> QED BY <1>1, <1>2, <1>3, NotFull

\* A cache with the queue and the capacity of a sound one is sound.
LEMMA SoundSame ==
  ASSUME NEW c, Sound(c), NEW d, Good(d), d.capacity = c.capacity,
         d.insertion_order = c.insertion_order
  PROVE  Sound(d)
<1>1. c.size = Len(c.insertion_order) /\ d.size = Len(d.insertion_order)
  BY Fields DEF Sound
<1> QED BY <1>1 DEF Sound

\* An insertion leaves the cache sound, the locks valid, and adds one entry at most.
LEMMA InsertKeeps ==
  ASSUME NEW c, Sound(c), NEW key \in Keys, NEW value \in Values,
         \A e \in All(c) : e.value # value, NEW d, d = Inserted(c, key, value)
  PROVE  /\ Sound(d) /\ \A f \in All(d) : f \in All(c) \/ f = NewEntry(key, value)
         /\ \A l : PinsOK(c, l) => PinsOK(d, l)
<1>1. CASE d = c BY <1>1
<1>2. ASSUME NEW a, Joined(c, a, key, value), Dropped(a, d, Excess(c.size + 1, c.capacity))
      PROVE  /\ Sound(d) /\ \A f \in All(d) : f \in All(c) \/ f = NewEntry(key, value)
             /\ \A l : PinsOK(c, l) => PinsOK(d, l)
  <2>1. \A l : PinsOK(c, l) => PinsOK(d, l)
    <3> TAKE l
    <3> HAVE PinsOK(c, l)
    <3>1. PinsOK(a, l) BY <1>2, PinsJoined DEF Sound
    <3>2. Good(a) BY <1>2 DEF Joined
    <3> QED BY <1>2, <3>1, <3>2, PinsDropped
  <2>2. \A f \in All(d) : f \in All(c) \/ f = NewEntry(key, value)
    BY <1>2 DEF Dropped, Joined
  <2>3. Good(d) /\ d.capacity = c.capacity BY <1>2 DEF Dropped, Joined
  <2>4. d.size <= d.capacity
    <3> DEFINE s == c.size
               cap == c.capacity
               p == a.insertion_order
    <3>1. s \in Nat /\ cap \in Nat /\ s <= cap /\ s = Len(c.insertion_order)
          /\ c.insertion_order \in Seq(Keys)
      BY Fields DEF Sound
    <3>2. Len(p) = s + 1
      <4>1. p = Append(c.insertion_order, key) BY <1>2 DEF Joined
      <4> QED BY <3>1, <4>1, AppendSet
    <3>3. d.size = Len(d.insertion_order) BY <2>3, Fields
    <3>4. Len(d.insertion_order) = Len(p) - Excess(s + 1, cap) BY <1>2 DEF Dropped
    <3> HIDE DEF s, cap, p
    <3>5. d.size = (s + 1) - Excess(s + 1, cap) BY <3>2, <3>3, <3>4
    <3>6. d.size <= cap BY ONLY <3>1, <3>5 DEF Excess
    <3> QED BY <2>3, <3>6 DEF cap
  <2> QED BY <2>1, <2>2, <2>3, <2>4 DEF Sound
<1> QED BY <1>1, <1>2, InsertResult DEF Sound

\* A new capacity and clearing keep the cache sound and the locks valid, and add nothing.
LEMMA ResizeKeeps ==
  ASSUME NEW c, Sound(c), NEW n \in Capacities, NEW d, d = Resized(c, n)
  PROVE  Sound(d) /\ Inherits(c, d) /\ \A l : PinsOK(c, l) => PinsOK(d, l)
<1>1. PICK k : Dropped(c, k, Excess(c.size, n)) /\ Refit(k, d, n)
  BY ResizeResult DEF Sound
<1>2. \A l : PinsOK(c, l) => PinsOK(d, l)
  <2> TAKE l
  <2> HAVE PinsOK(c, l)
  <2>1. PinsOK(k, l) BY <1>1, PinsDropped DEF Sound
  <2>2. All(d) = All(k) BY <1>1 DEF Refit
  <2> QED BY <2>1, <2>2 DEF PinsOK
<1>3. Inherits(c, d) BY <1>1, Inherited
<1>4. Good(d) /\ d.capacity = n /\ d.insertion_order = k.insertion_order BY <1>1 DEF Refit
<1>5. d.size <= n
  <2>1. c.size \in Nat /\ n \in Nat /\ c.size = Len(c.insertion_order)
    BY Fields, CacheAssumption DEF Sound
  <2>2. d.size = Len(k.insertion_order) BY <1>4, Fields
  <2>3. d.size = c.size - Excess(c.size, n) BY <1>1, <2>1, <2>2 DEF Dropped
  <2> QED BY ONLY <2>1, <2>3 DEF Excess
<1> QED BY <1>2, <1>3, <1>4, <1>5 DEF Sound

LEMMA ClearKeeps ==
  ASSUME NEW c, Sound(c), NEW d, d = EvictToCapacity(c, 0)
  PROVE  /\ Dropped(c, d, c.size)
         /\ Sound(d) /\ Inherits(c, d) /\ \A l : PinsOK(c, l) => PinsOK(d, l)
<1>1. c.size \in Nat /\ c.capacity \in Nat /\ c.size <= c.capacity
      /\ c.size = Len(c.insertion_order)
  BY Fields DEF Sound
<1>2. Roomy(c)
  <2>1. c.capacity < TableSize(c.capacity) /\ TableSize(c.capacity) \in Nat
    BY <1>1, TableSizeIs
  <2> QED BY <1>1, <2>1 DEF Roomy
<1>3. Excess(c.size, 0) = c.size BY <1>1 DEF Excess
<1>4. Dropped(c, d, c.size)
  <2>1. 0 \in Nat OBVIOUS
  <2>2. Dropped(c, EvictToCapacity(c, 0), Excess(c.size, 0)) BY <1>2, <2>1, EvictAll DEF Sound
  <2> QED BY <1>3, <2>2
<1>5. Inherits(c, d) BY <1>4, Inherited
<1>6. \A l : PinsOK(c, l) => PinsOK(d, l) BY <1>4, PinsDropped DEF Sound
<1>7. Good(d) /\ d.capacity = c.capacity BY <1>4 DEF Dropped
<1>8. d.size <= d.capacity
  <2>1. d.size = Len(d.insertion_order) BY <1>7, Fields
  <2>2. d.size = c.size - c.size BY <1>1, <1>4, <2>1 DEF Dropped
  <2> QED BY <1>1, <1>7, <2>2
<1> QED BY <1>4, <1>5, <1>6, <1>7, <1>8 DEF Sound


\* A thread gets a lock on the entry of a key, whose pins count one more.
Acquired(t, key, e, f) ==
  /\ e \in Entries(cache.hash) /\ e.key = key
  /\ Repinned(cache, cache', e, f) /\ f.pins = e.pins + 1
  /\ lock' = [lock EXCEPT ![t] = LockOf(e)]

LEMMA LookupStep ==
  ASSUME Sound(cache), NEW t \in Threads, NEW key \in Keys, LookupAndPin(t, key)
  PROVE  /\ lock[t] = NoLock
         /\ UNCHANGED <<cache, lock>> \/ \E e, f : Acquired(t, key, e, f)
<1> DEFINE at == Probe(cache.hash, key, Holding(cache.hash, key))
           n == TableSize(cache.capacity)
<1>1. lock[t] = NoLock BY DEF LookupAndPin
<1>2. CASE cache.capacity = 0 \/ cache.hash[at] = NoEntry
  <2>1. UNCHANGED <<cache, lock>> BY <1>2 DEF LookupAndPin, cacheVars
  <2> QED BY <1>1, <2>1
<1>3. CASE ~ (cache.capacity = 0 \/ cache.hash[at] = NoEntry)
  <2>1. /\ cache' = Pinned(cache, at)
        /\ lock' = [lock EXCEPT ![t] = Pair(key, cache.hash[at].value)]
    BY <1>3 DEF LookupAndPin, Pinned
  <2>2. at \in Used(cache.hash) /\ cache.hash[at].key = key
    <3>1. NotInUse(cache.hash) # {} BY SoundRoom
    <3>2. n \in Nat \ {0} /\ TableOK(cache.hash, n) BY Fields DEF Sound, Good
    <3> HIDE DEF n
    <3>3. LookupEnds(at, cache.hash, n, key) BY <3>1, <3>2, Lookup
    <3> QED BY <1>3, <3>3 DEF LookupEnds
  <2> HIDE DEF at
  <2>3. PICK f : /\ Repinned(cache, cache', cache.hash[at], f)
                 /\ f.pins = cache.hash[at].pins + 1
    BY <2>1, <2>2, PinResult DEF Sound
  <2>4. cache.hash[at] \in Entries(cache.hash) BY <2>2 DEF Entries
  <2>5. Pair(key, cache.hash[at].value) = LockOf(cache.hash[at]) BY <2>2 DEF LockOf
  <2>6. Acquired(t, key, cache.hash[at], f) BY <2>1, <2>2, <2>3, <2>4, <2>5 DEF Acquired
  <2> QED BY <1>1, <2>6
<1> QED BY <1>2, <1>3

\* The cache after a lookup.
LEMMA LookupKeeps ==
  ASSUME Sound(cache), PinsOK(cache, lock), DOMAIN lock = Threads,
         NEW t \in Threads, NEW key \in Keys, LookupAndPin(t, key)
  PROVE  /\ Sound(cache') /\ PinsOK(cache', lock') /\ Inherits(cache, cache')
         /\ Living(cache') \subseteq Living(cache)
<1>1. CASE UNCHANGED <<cache, lock>>
  <2>1. cache' = cache /\ lock' = lock BY <1>1
  <2> QED BY ONLY <2>1, Sound(cache), PinsOK(cache, lock), Inherited
<1>2. ASSUME NEW e, NEW f, Acquired(t, key, e, f)
      PROVE  /\ Sound(cache') /\ PinsOK(cache', lock') /\ Inherits(cache, cache')
             /\ Living(cache') \subseteq Living(cache)
  <2>1. /\ Repinned(cache, cache', e, f) /\ f.pins = e.pins + 1
        /\ lock' = [lock EXCEPT ![t] = LockOf(e)]
    BY <1>2 DEF Acquired
  <2>2. lock[t] = NoLock BY LookupStep
  <2>3. PinsOK(cache', lock') BY <2>1, <2>2, PinsAcquired DEF Sound
  <2>4. Sound(cache') BY <2>1, SoundSame DEF Repinned
  <2>5. Inherits(cache, cache') /\ Living(cache') \subseteq Living(cache)
    BY <2>1, Inherited
  <2> QED BY <2>3, <2>4, <2>5
<1> QED BY <1>1, <1>2, LookupStep

\* A thread gives up its lock on e.
Released(t, e) ==
  /\ e \in All(cache) /\ lock[t] = LockOf(e) /\ lock' = [lock EXCEPT ![t] = NoLock]
  /\ \/ \E f : Repinned(cache, cache', e, f) /\ f.pins = e.pins - 1
     \/ e.pins = 1 /\ Deleted(cache, cache', e)

LEMMA UnpinStep ==
  ASSUME Sound(cache), PinsOK(cache, lock), NEW t \in Threads, Unpin(t)
  PROVE  \E e : Released(t, e)
<1>1. lock[t] # NoLock /\ lock' = [lock EXCEPT ![t] = NoLock] BY DEF Unpin
<1>2. cache' = Unpinned(cache, lock[t]) BY DEF Unpin, Unpinned
<1>3. PICK e \in All(cache) : lock[t] = LockOf(e) BY <1>1 DEF PinsOK
<1>4. e.pins # 0
  <2>1. e.pins = Cardinality(LockedBy(lock, e)) BY DEF PinsOK, LockedBy
  <2>2. t \in LockedBy(lock, e) BY <1>3 DEF LockedBy
  <2>3. IsFiniteSet(LockedBy(lock, e)) BY MemCacheAssumption, FS_Subset DEF LockedBy
  <2> QED BY <2>1, <2>2, <2>3, FS_EmptySet
<1>5. \/ \E f : Repinned(cache, cache', e, f) /\ f.pins = e.pins - 1
      \/ e.pins = 1 /\ Deleted(cache, cache', e)
  BY <1>2, <1>3, <1>4, UnpinResult DEF Sound
<1> QED BY <1>1, <1>3, <1>5 DEF Released

\* The cache after a lock is given up.
LEMMA UnpinKeeps ==
  ASSUME Sound(cache), PinsOK(cache, lock), DOMAIN lock = Threads,
         NEW t \in Threads, Unpin(t)
  PROVE  /\ Sound(cache') /\ PinsOK(cache', lock') /\ Inherits(cache, cache')
         /\ Living(cache') \subseteq Living(cache)
<1>1. PICK e : Released(t, e) BY UnpinStep
<1>2. PinsOK(cache', lock') BY <1>1, PinsReleased DEF Sound, Released
<1>3. /\ Good(cache') /\ cache'.capacity = cache.capacity
      /\ cache'.insertion_order = cache.insertion_order
      /\ (\E f : Repinned(cache, cache', e, f)) \/ Deleted(cache, cache', e)
  BY <1>1 DEF Released, Repinned, Deleted
<1>4. Sound(cache') BY <1>3, SoundSame
<1>5. Inherits(cache, cache') /\ Living(cache') \subseteq Living(cache) BY <1>3, Inherited
<1> QED BY <1>2, <1>4, <1>5

\* Insert, SetCapacity and Clear are what the lemmas above are about.
LEMMA InsertIs ==
  ASSUME NEW key, NEW value, Insert(key, value)
  PROVE  cache' = Inserted(cache, key, value) /\ lock' = lock
BY DEF Insert, Inserted, Added, NewEntry

LEMMA ResizeIs ==
  ASSUME NEW n, SetCapacity(n), n # cache.capacity
  PROVE  cache' = Resized(cache, n) /\ lock' = lock
<1>1. EmptyTable(n) = NoEntries(TableSize(n)) BY DEF EmptyTable, NoEntries
<1>2. lock' = lock BY DEF SetCapacity
<1>3. cache' = Resized(cache, n)
  BY <1>1 DEF SetCapacity, Resized, Rehashed, PutSlot, FoldLeft, MapThenFoldSet
<1> QED BY <1>2, <1>3


(***************************************************************************)
(* The inductive invariant.                                                *)
(***************************************************************************)

\* The values in use, in the terms of the lemmas above.
LEMMA InUseIs ==
  /\ Allocated = Living(cache)
  /\ \A t : Owned(t) = Pending(comp, t)
  /\ Unused = Values \ (Living(cache) \cup UNION {Pending(comp, t) : t \in Threads})
<1>1. Allocated = Living(cache) BY DEF Allocated, InUse, Living, All, Entries, Used
<1>2. \A t : Owned(t) = Pending(comp, t) BY DEF Owned, Pending
<1> QED BY <1>1, <1>2 DEF Unused

\* A new value is one that is not in use, at the address of its key.
LEMMA NewValueIs ==
  ASSUME NEW key, \E v \in Unused : v[1] = key
  PROVE  NewValue(key) \in Unused /\ NewValue(key)[1] = key
<1> DEFINE S == {v \in Unused : v[1] = key}
           N == {v[2] : v \in S}
<1>1. \A v \in S : v[2] \in Nat
  <2>1. \A v \in S : v \in Keys \X Nat BY MemCacheAssumption, InUseIs
  <2> QED BY <2>1
<1>2. N \subseteq Nat /\ N # {} BY <1>1
<1>3. PICK x \in N : \A y \in N : x <= y
  <2> HIDE DEF N
  <2> QED BY <1>2, NatMin
<1>4. PICK v \in S : v[2] = x BY <1>3
<1>5. \A u \in Unused : u[1] = key => v[2] <= u[2] BY <1>3, <1>4
<1> QED BY <1>4, <1>5 DEF NewValue

\* What entries of the next state hold is not reclaimed.
LEMMA ReclaimKeeps ==
  ASSUME Good(cache'), TypeInv, content' = Reclaim
  PROVE  /\ content' \in [Values -> Positions \cup {NoResult}]
         /\ \A e \in All(cache') : content'[e.value] = content[e.value]
<1>1. content' = [v \in Values |-> IF v \in Unused' THEN NoResult ELSE content[v]]
  BY DEF Reclaim
<1>2. content' \in [Values -> Positions \cup {NoResult}]
  <2>1. content \in [Values -> Positions \cup {NoResult}] BY DEF TypeInv
  <2> QED BY <1>1, <2>1
<1>3. ASSUME NEW e \in All(cache') PROVE content'[e.value] = content[e.value]
  <2>1. e.value \in Values BY <1>3, EntryType
  <2>2. e.value \in Allocated' BY DEF Allocated, InUse, All, Entries, Used
  <2>3. e.value \notin Unused' BY <2>2 DEF Unused
  <2> QED BY <1>1, <2>1, <2>3
<1> QED BY <1>2, <1>3

\* The parts of the invariant.
LEMMA InvParts ==
  MemCacheInv <=>
    /\ TypeInv /\ Sound(cache) /\ PinsOK(cache, lock) /\ OwnersOK(cache, comp)
    /\ ContentOK(cache, content)
    /\ \A t \in Threads :
        /\ lock[t] # NoLock <=> comp[t].at = "held"
        /\ lock[t] # NoLock =>
            lock[t].key = comp[t].pos.key /\ comp[t].pos \in Positions
BY DEF MemCacheInv, CacheInv, LockInv, OwnerInv, ContentInv, Sound

\* The cache is empty, and nothing is locked or computed.
LEMMA EmptyGood ==
  ASSUME NEW n \in Capacities,
         NEW c, c = [capacity |-> n, size |-> 0, allocated |-> 0,
                     insertion_order |-> <<>>, evicted |-> <<>>, hash |-> EmptyTable(n)]
  PROVE  Sound(c) /\ All(c) = {}
<1> DEFINE N == TableSize(n)
           T == EmptyTable(n)
<1>1. n \in Nat /\ N \in Nat \ {0} BY CacheAssumption, TableSizeIs
<1>2. /\ c.capacity = n /\ c.size = 0 /\ c.allocated = 0 /\ c.insertion_order = <<>>
      /\ c.evicted = <<>> /\ c.hash = T
  OBVIOUS
<1>3. T = [i \in 0 .. N - 1 |-> NoEntry] BY DEF EmptyTable
<1> HIDE DEF T, N
<1>4. T \in Tables(N) /\ Used(T) = {} /\ DOMAIN T = 0 .. N - 1 BY <1>3 DEF Tables, Used
<1>5. TableOK(T, N) /\ Entries(T) = {} BY <1>4 DEF TableOK, Distinct, NoGap, Entries
<1>6. ToSet(<<>>) = {} BY DEF ToSet
<1>7. All(c) = {} BY <1>2, <1>5, <1>6 DEF All
<1>8. KeysAgree(c) BY <1>2, <1>5, <1>6 DEF KeysAgree, OneSlotEach
<1>9. Counted(c)
  <2>1. Len(<<>>) = 0 OBVIOUS
  <2> QED BY <1>2, <1>6, <2>1 DEF Counted
<1>10. OneOwner(c) BY <1>2, <1>5, <1>6 DEF OneOwner
<1>11. c \in CacheStates
  <2>1. T \in UNION {Tables(i) : i \in Nat \ {0}} BY <1>1, <1>4
  <2>2. <<>> \in Seq(Keys) /\ <<>> \in Seq(Entry) /\ 0 \in Nat OBVIOUS
  <2>3. c = [capacity |-> n, size |-> 0, allocated |-> 0, insertion_order |-> <<>>,
             evicted |-> <<>>, hash |-> T]
    BY DEF T
  <2> QED BY ONLY <2>1, <2>2, <2>3, n \in Capacities DEF CacheStates
<1>12. Good(c) BY <1>2, <1>5, <1>8, <1>9, <1>10, <1>11 DEF Good, N
<1>13. c.size <= c.capacity BY <1>1, <1>2
<1> QED BY <1>7, <1>12, <1>13 DEF Sound

LEMMA InitInv == Init => MemCacheInv
<1> SUFFICES ASSUME Init PROVE MemCacheInv OBVIOUS
<1>1. /\ \A t \in Threads : comp[t] =
           [at |-> "open", pos |-> NoPosition, entries |-> <<>>]
      /\ comp \in [Threads -> CompType]
  <2>1. comp = [t \in Threads |->
                 [at |-> "open", pos |-> NoPosition, entries |-> <<>>]]
    BY DEF Init
  <2>2. [at |-> "open", pos |-> NoPosition, entries |-> <<>>] \in CompType
    <3>1. <<>> \in Seq([pos : Positions, value : Values]) OBVIOUS
    <3> QED BY <3>1 DEF CompType
  <2> QED BY <2>1, <2>2
<1>2. lock = [t \in Threads |-> NoLock] BY MemCacheAssumption DEF Init, CacheInit
<1>3. PICK n \in Capacities :
        cache = [capacity |-> n, size |-> 0, allocated |-> 0,
                 insertion_order |-> <<>>, evicted |-> <<>>, hash |-> EmptyTable(n)]
  BY DEF Init, CacheInit
<1>4. Sound(cache) /\ All(cache) = {} BY <1>3, EmptyGood
<1>5. TypeInv BY <1>1, <1>2 DEF TypeInv, Init
<1>6. PinsOK(cache, lock) BY <1>2, <1>4 DEF PinsOK
<1>7. OwnersOK(cache, comp)
  <2>1. \A t \in Threads : comp[t].entries = <<>> BY <1>1
  <2>2. ToSet(<<>>) = {} BY DEF ToSet
  <2>3. \A t \in Threads : Pending(comp, t) = {} BY <2>1, <2>2 DEF Pending
  <2> QED BY <2>1, <2>3 DEF OwnersOK
<1>8. ContentOK(cache, content) BY <1>4 DEF ContentOK
<1>9. \A t \in Threads : lock[t] = NoLock /\ comp[t].at # "held" BY <1>1, <1>2
<1> QED BY <1>4, <1>5, <1>6, <1>7, <1>8, <1>9, InvParts


\* What the threads know of their locks.
LocksKnown(l, m) ==
  \A t \in Threads :
    /\ l[t] # NoLock <=> m[t].at = "held"
    /\ l[t] # NoLock => l[t].key = m[t].pos.key /\ m[t].pos \in Positions

\* The parts of the invariant of the next state.
LEMMA InvNext ==
  ASSUME TypeInv', Sound(cache'), PinsOK(cache', lock'), OwnersOK(cache', comp'),
         ContentOK(cache', content'), LocksKnown(lock', comp')
  PROVE  MemCacheInv'
BY DEF MemCacheInv, CacheInv, LockInv, OwnerInv, ContentInv, Sound, LocksKnown

\* What a step of the cache leaves to a thread: nothing new is in it.
CacheKept ==
  /\ Sound(cache') /\ PinsOK(cache', lock') /\ Inherits(cache, cache')
  /\ Living(cache') \subseteq Living(cache)
  /\ lock' \in [Threads -> [key : Keys, value : Values] \cup {NoLock}]
  /\ workload' = workload

Queries == [pos : Positions, value : Values]

\* From m to w only the computation of t changed.
Became(m, w, t, at, pos, entries) ==
  /\ w \in [Threads -> CompType]
  /\ w[t].at = at /\ w[t].pos = pos /\ w[t].entries = entries
  /\ \A u \in Threads : u # t => w[u] = m[u]

\* What ComputeBlocking makes of the computation of t.
Advanced(m, t, at, q) == [m EXCEPT ![t].entries = q, ![t].at = at]

Changes(m, t, at, pos, q) ==
  /\ m[t].entries \in Seq(Queries) /\ m[t].pos \in Positions \cup {NoPosition}
  /\ Became(m, [m EXCEPT ![t].at = at, ![t].pos = pos, ![t].entries = q],
            t, at, pos, q)
  /\ Became(m, [m EXCEPT ![t].at = at, ![t].pos = pos], t, at, pos, m[t].entries)
  /\ Became(m, Advanced(m, t, at, q), t, at, m[t].pos, q)

LEMMA CompChanges ==
  ASSUME NEW m \in [Threads -> CompType], NEW t \in Threads,
         NEW at \in {"open", "held", "compute"}, NEW pos \in Positions \cup {NoPosition},
         NEW q \in Seq(Queries)
  PROVE  Changes(m, t, at, pos, q)
<1> DEFINE x == m[t].entries
           y == m[t].pos
           Q == Seq(Queries)
<1>1. x \in Q /\ y \in Positions \cup {NoPosition} /\ m[t] \in CompType
      /\ m[t] = [at |-> m[t].at, pos |-> y, entries |-> x]
  BY DEF CompType, Queries
<1>2. CompType = [at : {"open", "held", "compute"}, pos : Positions \cup {NoPosition},
                  entries : Q]
  BY DEF CompType, Queries
<1> HIDE DEF Q, x, y
<1>3. ASSUME NEW r, r \in CompType, NEW w, w = [m EXCEPT ![t] = r]
      PROVE  w \in [Threads -> CompType] /\ w[t] = r /\ \A u \in Threads : u # t => w[u] = m[u]
  BY <1>3
<1> DEFINE R(a, b, c) == [at |-> a, pos |-> b, entries |-> c]
<1>4. /\ R(at, pos, q) \in CompType /\ R(at, pos, x) \in CompType /\ R(at, y, q) \in CompType
  <2>1. q \in Q BY DEF Q
  <2> QED BY <1>1, <1>2, <2>1
<1>5. ASSUME NEW a, NEW b, NEW c, R(a, b, c) \in CompType
      PROVE  Became(m, [m EXCEPT ![t] = R(a, b, c)], t, a, b, c)
  <2> DEFINE w == [m EXCEPT ![t] = R(a, b, c)]
  <2>1. /\ w \in [Threads -> CompType] /\ w[t] = R(a, b, c)
        /\ \A u \in Threads : u # t => w[u] = m[u]
    BY <1>3, <1>5
  <2>2. R(a, b, c).at = a /\ R(a, b, c).pos = b /\ R(a, b, c).entries = c OBVIOUS
  <2> HIDE DEF R, w
  <2>3. Became(m, w, t, a, b, c) BY <2>1, <2>2 DEF Became
  <2> QED BY <2>3 DEF w
<1>6. /\ [m EXCEPT ![t].at = at, ![t].pos = pos, ![t].entries = q]
           = [m EXCEPT ![t] = R(at, pos, q)]
      /\ [m EXCEPT ![t].at = at, ![t].pos = pos] = [m EXCEPT ![t] = R(at, pos, x)]
      /\ [m EXCEPT ![t].entries = q, ![t].at = at] = [m EXCEPT ![t] = R(at, y, q)]
  <2>1. PICK a, b, c : m[t] = [at |-> a, pos |-> b, entries |-> c] /\ b = y /\ c = x
    BY <1>1
  <2>2. /\ [m[t] EXCEPT !.at = at, !.pos = pos, !.entries = q] = R(at, pos, q)
        /\ [m[t] EXCEPT !.at = at, !.pos = pos] = R(at, pos, x)
        /\ [m[t] EXCEPT !.entries = q, !.at = at] = R(at, y, q)
    <3>1. PICK z : z = m[t] OBVIOUS
    <3>2. z = [at |-> a, pos |-> b, entries |-> c] BY ONLY <2>1, <3>1
    <3>6. [[at |-> a, pos |-> b, entries |-> c] EXCEPT !.at = at] = R(at, b, c) OBVIOUS
    <3>7. [[at |-> a, pos |-> b, entries |-> c] EXCEPT !.entries = q] = R(a, b, q) OBVIOUS
    <3>8. [R(at, b, c) EXCEPT !.pos = pos] = R(at, pos, c) OBVIOUS
    <3>9. [R(a, b, q) EXCEPT !.at = at] = R(at, b, q) OBVIOUS
    <3>3. [z EXCEPT !.at = at, !.pos = pos] = R(at, pos, c)
      <4> HIDE DEF R
      <4> QED BY ONLY <3>2, <3>6, <3>8
    <3>4. [z EXCEPT !.entries = q, !.at = at] = R(at, b, q)
      <4> HIDE DEF R
      <4> QED BY ONLY <3>2, <3>7, <3>9
    <3>5. [z EXCEPT !.at = at, !.pos = pos, !.entries = q] = R(at, pos, q)
      <4>1. [R(at, pos, c) EXCEPT !.entries = q] = R(at, pos, q) OBVIOUS
      <4> HIDE DEF R
      <4> QED BY ONLY <3>3, <4>1
    <3> HIDE DEF R
    <3> QED BY ONLY <2>1, <3>1, <3>3, <3>4, <3>5
  <2> HIDE DEF R
  <2>3. [m EXCEPT ![t].at = at, ![t].pos = pos, ![t].entries = q]
          = [m EXCEPT ![t] = [m[t] EXCEPT !.at = at, !.pos = pos, !.entries = q]]
    OBVIOUS
  <2>4. [m EXCEPT ![t].at = at, ![t].pos = pos]
          = [m EXCEPT ![t] = [m[t] EXCEPT !.at = at, !.pos = pos]]
    OBVIOUS
  <2>5. [m EXCEPT ![t].entries = q, ![t].at = at]
          = [m EXCEPT ![t] = [m[t] EXCEPT !.entries = q, !.at = at]]
    OBVIOUS
  <2> QED BY ONLY <2>2, <2>3, <2>4, <2>5
<1> HIDE DEF R
<1>7. /\ Became(m, [m EXCEPT ![t].at = at, ![t].pos = pos, ![t].entries = q],
                t, at, pos, q)
      /\ Became(m, [m EXCEPT ![t].at = at, ![t].pos = pos], t, at, pos, x)
      /\ Became(m, [m EXCEPT ![t].entries = q, ![t].at = at], t, at, y, q)
  BY <1>4, <1>5, <1>6
<1> QED BY <1>1, <1>7 DEF x, y, Q, Advanced, Changes

LEMMA AdvanceIs ==
  ASSUME NEW m \in [Threads -> CompType], NEW t \in Threads,
         NEW at \in {"open", "held", "compute"}, NEW q \in Seq(Queries)
  PROVE  Became(m, Advanced(m, t, at, q), t, at, m[t].pos, q)
<1>1. NoPosition \in Positions \cup {NoPosition} OBVIOUS
<1>2. Changes(m, t, at, NoPosition, q) BY <1>1, CompChanges
<1> QED BY <1>2 DEF Changes

\* A thread without a lock puts a position into its batch, or does not.
LEMMA OpenKeeps ==
  ASSUME MemCacheInv, CacheKept, NEW t \in Threads, lock'[t] = NoLock,
         \A u \in Threads : u # t => lock'[u] = lock[u],
         \/ \E pos \in Positions : Enqueue(t, pos)
         \/ /\ comp' = [comp EXCEPT ![t].at = "open", ![t].pos = NoPosition]
            /\ content' = Reclaim
  PROVE  MemCacheInv'
<1>1. /\ TypeInv /\ Sound(cache) /\ OwnersOK(cache, comp) /\ ContentOK(cache, content)
      /\ LocksKnown(lock, comp)
  BY InvParts DEF LocksKnown
<1>2. content' = Reclaim BY DEF Enqueue
<1>3. /\ content' \in [Values -> Positions \cup {NoResult}]
      /\ ContentOK(cache', content')
  <2>1. /\ content' \in [Values -> Positions \cup {NoResult}]
        /\ \A e \in All(cache') : content'[e.value] = content[e.value]
    BY <1>1, <1>2, ReclaimKeeps DEF CacheKept, Sound
  <2> QED BY <1>1, <2>1, ContentKeep DEF CacheKept
<1>4. comp \in [Threads -> CompType] BY <1>1 DEF TypeInv
<1>5. NoPosition \in Positions \cup {NoPosition} /\ "open" \in {"open", "held", "compute"}
      /\ comp[t].entries \in Seq(Queries)
  <2>1. comp[t].entries \in Seq(Queries) BY <1>4 DEF CompType, Queries
  <2> QED BY <2>1
<1>6. ASSUME NEW q, Became(comp, comp', t, "open", NoPosition, q), OwnersOK(cache', comp')
      PROVE  MemCacheInv'
  <2>1. TypeInv' BY <1>1, <1>3, <1>6 DEF TypeInv, CacheKept, Became
  <2>2. LocksKnown(lock', comp') BY <1>1, <1>6 DEF LocksKnown, Became
  <2> QED BY <1>3, <1>6, <2>1, <2>2, InvNext DEF CacheKept
<1>7. CASE \E pos \in Positions : Enqueue(t, pos)
  <2>1. PICK pos \in Positions : Enqueue(t, pos) BY <1>7
  <2> DEFINE v == NewValue(pos.key)
             x == [pos |-> pos, value |-> v]
             q == comp[t].entries
             p == Append(q, x)
  <2>2. v \in Values /\ v \notin Living(cache) /\ \A u \in Threads : v \notin Pending(comp, u)
    BY <2>1, NewValueIs, InUseIs DEF Enqueue
  <2>3. comp' = [comp EXCEPT ![t].at = "open", ![t].pos = NoPosition, ![t].entries = p]
    BY <2>1 DEF Enqueue
  <2> HIDE DEF v
  <2>4. x \in Queries /\ x.value = v BY <2>2 DEF Queries
  <2> HIDE DEF x, q
  <2>5. p \in Seq(Queries) BY <1>5, <2>4 DEF q
  <2> HIDE DEF p
  <2>6. Became(comp, comp', t, "open", NoPosition, p)
    BY <1>4, <1>5, <2>3, <2>5, CompChanges DEF Changes
  <2>7. OwnersOK(cache', comp')
    <3>1. comp[t].entries \in Seq(Queries) /\ comp'[t].entries = Append(comp[t].entries, x)
      BY <1>5, <2>6 DEF p, q, Became
    <3>2. \A u \in Threads : u # t => comp'[u].entries = comp[u].entries
      BY <2>6 DEF Became
    <3>3. x.value \notin Living(cache) /\ \A u \in Threads : x.value \notin Pending(comp, u)
      BY <2>2, <2>4
    <3>4. Living(cache') \subseteq Living(cache) BY DEF CacheKept
    <3> QED BY ONLY <1>1, <2>4, <3>1, <3>2, <3>3, <3>4, OwnersAdd, t \in Threads
  <2> QED BY <1>6, <2>6, <2>7
<1>8. CASE comp' = [comp EXCEPT ![t].at = "open", ![t].pos = NoPosition]
  <2>1. Became(comp, comp', t, "open", NoPosition, comp[t].entries)
    BY <1>4, <1>5, <1>8, CompChanges DEF Changes
  <2>2. \A u \in Threads : comp'[u].entries = comp[u].entries BY <2>1 DEF Became
  <2>3. Living(cache') \subseteq Living(cache) BY DEF CacheKept
  <2>4. OwnersOK(cache', comp') BY ONLY <1>1, <2>2, <2>3, OwnersKeep
  <2> QED BY <1>6, <2>1, <2>4
<1> QED BY <1>7, <1>8

\* A thread that got a lock on the entry of its position.
LEMMA HeldKeeps ==
  ASSUME MemCacheInv, CacheKept, NEW t \in Threads, NEW pos \in Positions,
         lock'[t] # NoLock, lock'[t].key = pos.key,
         \A u \in Threads : u # t => lock'[u] = lock[u],
         comp' = [comp EXCEPT ![t].at = "held", ![t].pos = pos], UNCHANGED content
  PROVE  MemCacheInv'
<1>1. /\ TypeInv /\ Sound(cache) /\ OwnersOK(cache, comp) /\ ContentOK(cache, content)
      /\ LocksKnown(lock, comp)
  BY InvParts DEF LocksKnown
<1>2. ContentOK(cache', content') BY <1>1, ContentKeep DEF CacheKept
<1>3. Became(comp, comp', t, "held", pos, comp[t].entries)
  <2>1. comp \in [Threads -> CompType] BY <1>1 DEF TypeInv
  <2>2. "held" \in {"open", "held", "compute"} /\ pos \in Positions \cup {NoPosition}
    OBVIOUS
  <2>3. comp[t].entries \in Seq(Queries) BY <2>1 DEF CompType, Queries
  <2> QED BY <2>1, <2>2, <2>3, CompChanges DEF Changes
<1>4. TypeInv' BY <1>1, <1>3 DEF TypeInv, CacheKept, Became
<1>5. OwnersOK(cache', comp')
  <2>1. \A u \in Threads : comp'[u].entries = comp[u].entries BY <1>3 DEF Became
  <2>2. Living(cache') \subseteq Living(cache) BY DEF CacheKept
  <2> QED BY ONLY <1>1, <2>1, <2>2, OwnersKeep
<1>6. LocksKnown(lock', comp') BY <1>1, <1>3 DEF LocksKnown, Became
<1> QED BY <1>2, <1>4, <1>5, <1>6, InvNext DEF CacheKept

\* What the invariant says of the cache and the locks.
LEMMA InvCache ==
  ASSUME MemCacheInv
  PROVE  /\ Sound(cache) /\ PinsOK(cache, lock) /\ DOMAIN lock = Threads
         /\ lock \in [Threads -> [key : Keys, value : Values] \cup {NoLock}]
         /\ comp \in [Threads -> CompType] /\ LocksKnown(lock, comp) /\ TypeInv
         /\ OwnersOK(cache, comp) /\ ContentOK(cache, content)
BY InvParts DEF TypeInv, LocksKnown

\* A lookup, with or without success, leaves the cache and the locks in order.
LEMMA LookupInv ==
  ASSUME MemCacheInv, UNCHANGED workload, NEW t \in Threads, NEW key \in Keys,
         LookupAndPin(t, key)
  PROVE  /\ CacheKept /\ \A u \in Threads : u # t => lock'[u] = lock[u]
         /\ lock'[t] # NoLock => lock'[t].key = key
<1>1. /\ Sound(cache') /\ PinsOK(cache', lock') /\ Inherits(cache, cache')
      /\ Living(cache') \subseteq Living(cache)
  BY InvCache, LookupKeeps
<1>2. lock \in [Threads -> [key : Keys, value : Values] \cup {NoLock}] BY InvCache
<1>3. CASE UNCHANGED <<cache, lock>>
  <2>1. lock' = lock BY <1>3
  <2>2. lock[t] = NoLock BY InvCache, LookupStep
  <2> QED BY <1>1, <1>2, <2>1, <2>2 DEF CacheKept
<1>4. ASSUME NEW e, NEW f, Acquired(t, key, e, f)
      PROVE  /\ CacheKept /\ \A u \in Threads : u # t => lock'[u] = lock[u]
             /\ lock'[t] # NoLock => lock'[t].key = key
  <2>1. lock' = [lock EXCEPT ![t] = LockOf(e)] /\ e.key = key /\ e \in All(cache)
    BY <1>4 DEF Acquired, All
  <2>2. LockOf(e) \in [key : Keys, value : Values] BY <2>1, InvCache, EntryType DEF Sound
  <2>3. LockOf(e).key = key BY <2>1 DEF LockOf, Pair
  <2>4. lock' \in [Threads -> [key : Keys, value : Values] \cup {NoLock}]
    BY <1>2, <2>1, <2>2
  <2>5. lock'[t] = LockOf(e) /\ \A u \in Threads : u # t => lock'[u] = lock[u]
    BY <1>2, <2>1
  <2> QED BY <1>1, <2>3, <2>4, <2>5 DEF CacheKept
<1> QED BY <1>3, <1>4, LookupStep, InvCache

LEMMA AddInputInv ==
  ASSUME MemCacheInv, UNCHANGED workload, NEW t \in Threads, NEW pos \in workload,
         AddInput(t, pos)
  PROVE  MemCacheInv'
<1>1. pos \in Positions /\ pos.key \in Keys BY InvCache, MemCacheAssumption DEF TypeInv
<1>2. /\ CacheKept /\ \A u \in Threads : u # t => lock'[u] = lock[u]
      /\ lock'[t] # NoLock => lock'[t].key = pos.key
  BY <1>1, LookupInv DEF AddInput
<1>3. CASE lock'[t] = NoLock BY <1>1, <1>2, <1>3, OpenKeeps DEF AddInput
<1>4. CASE lock'[t] # NoLock BY <1>1, <1>2, <1>4, HeldKeeps DEF AddInput
<1> QED BY <1>3, <1>4

LEMMA GetCachedEvaluationInv ==
  ASSUME MemCacheInv, UNCHANGED workload, NEW t \in Threads, NEW pos \in workload,
         GetCachedEvaluation(t, pos)
  PROVE  MemCacheInv'
<1>1. pos \in Positions /\ pos.key \in Keys BY InvCache, MemCacheAssumption DEF TypeInv
<1>2. /\ CacheKept /\ \A u \in Threads : u # t => lock'[u] = lock[u]
      /\ lock'[t] # NoLock => lock'[t].key = pos.key
  BY <1>1, LookupInv DEF GetCachedEvaluation
<1> QED BY <1>1, <1>2, HeldKeeps DEF GetCachedEvaluation

\* Giving up a lock leaves the cache and the locks in order.
LEMMA UnpinInv ==
  ASSUME MemCacheInv, UNCHANGED workload, NEW t \in Threads, Unpin(t)
  PROVE  /\ CacheKept /\ \A u \in Threads : u # t => lock'[u] = lock[u]
         /\ lock'[t] = NoLock
<1>1. /\ Sound(cache') /\ PinsOK(cache', lock') /\ Inherits(cache, cache')
      /\ Living(cache') \subseteq Living(cache)
  BY InvCache, UnpinKeeps
<1>2. lock \in [Threads -> [key : Keys, value : Values] \cup {NoLock}] BY InvCache
<1>3. lock' = [lock EXCEPT ![t] = NoLock] BY DEF Unpin
<1>4. lock' \in [Threads -> [key : Keys, value : Values] \cup {NoLock}]
  BY <1>2, <1>3
<1>5. lock'[t] = NoLock /\ \A u \in Threads : u # t => lock'[u] = lock[u]
  BY <1>2, <1>3
<1> QED BY <1>1, <1>4, <1>5 DEF CacheKept

LEMMA FetchedImmediatelyInv ==
  ASSUME MemCacheInv, UNCHANGED workload, NEW t \in Threads, FetchedImmediately(t)
  PROVE  MemCacheInv'
<1>1. /\ CacheKept /\ \A u \in Threads : u # t => lock'[u] = lock[u]
      /\ lock'[t] = NoLock
  BY UnpinInv DEF FetchedImmediately
<1> QED BY <1>1, OpenKeeps DEF FetchedImmediately

LEMMA RefusedInv ==
  ASSUME MemCacheInv, UNCHANGED workload, NEW t \in Threads, Refused(t)
  PROVE  MemCacheInv'
<1>1. /\ CacheKept /\ \A u \in Threads : u # t => lock'[u] = lock[u]
      /\ lock'[t] = NoLock
  BY UnpinInv DEF Refused
<1>2. comp[t].pos \in Positions
  <2>1. lock[t] # NoLock BY DEF Refused, Unpin
  <2> QED BY <2>1, InvCache DEF LocksKnown
<1>3. \/ \E pos \in Positions : Enqueue(t, pos)
      \/ /\ comp' = [comp EXCEPT ![t].at = "open", ![t].pos = NoPosition]
         /\ content' = Reclaim
  BY <1>2 DEF Refused
<1> QED BY <1>1, <1>3, OpenKeeps

\* The value of the first entry of a batch moves into the cache, or is deleted.
LEMMA ComputeBlockingInv ==
  ASSUME MemCacheInv, UNCHANGED workload, NEW t \in Threads, ComputeBlocking(t)
  PROVE  MemCacheInv'
<1> DEFINE q == comp[t].entries
           x == Head(q)
           at == IF Tail(q) = <<>> THEN "open" ELSE "compute"
           n == NewEntry(x.pos.key, x.value)
<1>1. /\ Sound(cache) /\ PinsOK(cache, lock) /\ OwnersOK(cache, comp)
      /\ ContentOK(cache, content) /\ LocksKnown(lock, comp) /\ TypeInv
      /\ comp \in [Threads -> CompType]
  BY InvCache
<1>2. /\ q # <<>> /\ comp[t].at \in {"open", "compute"}
      /\ Insert(x.pos.key, x.value)
      /\ comp' = [comp EXCEPT ![t].entries = Tail(q), ![t].at = at]
      /\ content' = [Reclaim EXCEPT ![x.value] = IF x.value \in Unused' THEN NoResult
                                                 ELSE x.pos]
  BY DEF ComputeBlocking
<1>3. q \in Seq(Queries) BY <1>1 DEF CompType, Queries
<1> HIDE DEF q
<1>4. x \in Queries /\ Tail(q) \in Seq(Queries) BY <1>2, <1>3
<1>5. x.pos \in Positions /\ x.pos.key \in Keys /\ x.value \in Values
  BY <1>4, MemCacheAssumption DEF Queries
<1>6. at \in {"open", "held", "compute"} OBVIOUS
<1>7. Became(comp, comp', t, at, comp[t].pos, Tail(q))
  <2> HIDE DEF at
  <2> DEFINE r == Tail(q)
  <2>1. NoPosition \in Positions \cup {NoPosition} OBVIOUS
  <2>2. r \in Seq(Queries) /\ comp' = Advanced(comp, t, at, r) BY <1>2, <1>4 DEF Advanced
  <2> HIDE DEF r
  <2>3. Became(comp, Advanced(comp, t, at, r), t, at, comp[t].pos, r)
    <3>1. comp \in [Threads -> CompType] BY <1>1
    <3>2. r \in Seq(Queries) BY <2>2
    <3> QED BY <1>6, <3>1, <3>2, AdvanceIs
  <2> QED BY <2>2, <2>3 DEF r
<1>8. cache' = Inserted(cache, x.pos.key, x.value) /\ lock' = lock BY <1>2, InsertIs
<1>9. x.value \notin Living(cache)
  <2>1. x \in ToSet(q)
    <3>1. 1 \in DOMAIN q /\ x = q[1] BY <1>2, <1>3
    <3> QED BY <3>1 DEF ToSet
  <2>2. x.value \in Pending(comp, t) BY <2>1 DEF Pending, q
  <2> QED BY <1>1, <2>2 DEF OwnersOK
<1>10. /\ Sound(cache') /\ PinsOK(cache', lock')
       /\ \A f \in All(cache') : f \in All(cache) \/ f = n
  <2>1. \A e \in All(cache) : e.value # x.value BY <1>9 DEF Living
  <2> QED BY <1>1, <1>5, <1>8, <2>1, InsertKeeps
<1> HIDE DEF x
<1>11. n.key = x.pos.key /\ n.value = x.value BY DEF NewEntry
<1> HIDE DEF n
<1>12. OwnersOK(cache', comp')
  <2>1. Living(cache') \subseteq Living(cache) \cup {x.value} BY <1>10, <1>11 DEF Living
  <2>2. /\ comp[t].entries \in Seq(Queries) /\ comp[t].entries # <<>>
        /\ x = Head(comp[t].entries) /\ comp'[t].entries = Tail(comp[t].entries)
        /\ \A u \in Threads : u # t => comp'[u].entries = comp[u].entries
    BY <1>2, <1>3, <1>7 DEF Became, q, x
  <2> QED BY ONLY <1>1, <2>1, <2>2, OwnersMove, t \in Threads
<1>13. /\ content' \in [Values -> Positions \cup {NoResult}]
       /\ ContentOK(cache', content')
  <2>1. Reclaim \in [Values -> Positions \cup {NoResult}]
    BY <1>1 DEF TypeInv, Reclaim
  <2>2. content' \in [Values -> Positions \cup {NoResult}] BY <1>2, <1>5, <2>1
  <2>3. ASSUME NEW f \in All(cache')
        PROVE  content'[f.value] # NoResult /\ content'[f.value].key = f.key
    <3>1. f.value \in Values BY <1>10, EntryType DEF Sound
    <3>2. f.value \in Allocated' BY DEF Allocated, InUse, All, Entries, Used
    <3>3. f.value \notin Unused' BY <3>2 DEF Unused
    <3>4. CASE f = n
      <4>1. content'[f.value] = x.pos BY <1>2, <1>5, <1>11, <2>1, <3>3, <3>4
      <4>2. x.pos # NoResult BY <1>5, MemCacheAssumption
      <4> QED BY <1>11, <3>4, <4>1, <4>2
    <3>5. CASE f \in All(cache)
      <4>1. f.value # x.value BY <1>9, <3>5 DEF Living
      <4>2. content'[f.value] = Reclaim[f.value] BY <1>2, <2>1, <3>1, <4>1
      <4>3. Reclaim[f.value] = content[f.value] BY <3>1, <3>3 DEF Reclaim
      <4> QED BY <1>1, <3>5, <4>2, <4>3 DEF ContentOK
    <3> QED BY <1>10, <3>4, <3>5
  <2> QED BY <2>2, <2>3 DEF ContentOK
<1>14. TypeInv' BY <1>1, <1>7, <1>8, <1>13 DEF TypeInv, Became
<1>15. LocksKnown(lock', comp')
  <2>1. at # "held" /\ comp[t].at # "held" BY <1>2
  <2>2. lock[t] = NoLock BY <1>1, <2>1 DEF LocksKnown
  <2> HIDE DEF at
  <2> QED BY <1>1, <1>7, <1>8, <2>1, <2>2 DEF LocksKnown, Became
<1> QED BY <1>10, <1>12, <1>13, <1>14, <1>15, InvNext


\* Resizing and clearing concern the threads only through what is deleted.
LEMMA OutsideInv ==
  ASSUME MemCacheInv, CacheKept, lock' = lock, UNCHANGED comp, content' = Reclaim
  PROVE  MemCacheInv'
<1>1. /\ TypeInv /\ OwnersOK(cache, comp) /\ ContentOK(cache, content)
      /\ LocksKnown(lock, comp)
  BY InvCache
<1>2. comp' = comp OBVIOUS
<1>3. /\ content' \in [Values -> Positions \cup {NoResult}]
      /\ \A e \in All(cache') : content'[e.value] = content[e.value]
  BY <1>1, ReclaimKeeps DEF CacheKept, Sound
<1>4. ContentOK(cache', content') BY <1>1, <1>3, ContentKeep DEF CacheKept
<1>5. TypeInv' BY <1>1, <1>2, <1>3 DEF TypeInv, CacheKept
<1>6. OwnersOK(cache', comp')
  <2>1. \A u \in Threads : comp'[u].entries = comp[u].entries BY <1>2
  <2>2. Living(cache') \subseteq Living(cache) BY DEF CacheKept
  <2> QED BY ONLY <1>1, <2>1, <2>2, OwnersKeep
<1>7. LocksKnown(lock', comp') BY <1>1, <1>2
<1> QED BY <1>4, <1>5, <1>6, <1>7, InvNext DEF CacheKept

LEMMA SetCacheSizeInv ==
  ASSUME MemCacheInv, UNCHANGED workload, NEW n \in Capacities, SetCacheSize(n)
  PROVE  MemCacheInv'
<1>1. cache' = Resized(cache, n) /\ lock' = lock BY ResizeIs DEF SetCacheSize
<1>2. /\ Sound(cache') /\ Inherits(cache, cache') /\ PinsOK(cache', lock)
  BY <1>1, InvCache, ResizeKeeps
<1>3. Living(cache') \subseteq Living(cache) BY <1>2 DEF Inherits, Living
<1>4. CacheKept BY <1>1, <1>2, <1>3, InvCache DEF CacheKept
<1> QED BY <1>1, <1>4, OutsideInv DEF SetCacheSize

LEMMA ClearCacheInv ==
  ASSUME MemCacheInv, UNCHANGED workload, ClearCache
  PROVE  MemCacheInv'
<1>1. cache' = EvictToCapacity(cache, 0) /\ lock' = lock BY DEF ClearCache, Clear
<1>2. /\ Sound(cache') /\ Inherits(cache, cache') /\ PinsOK(cache', lock)
  BY <1>1, InvCache, ClearKeeps
<1>3. Living(cache') \subseteq Living(cache) BY <1>2 DEF Inherits, Living
<1>4. CacheKept BY <1>1, <1>2, <1>3, InvCache DEF CacheKept
<1> QED BY <1>1, <1>4, OutsideInv DEF ClearCache

\* The invariant is inductive.
LEMMA Inductive == MemCacheInv /\ [Next]_vars => MemCacheInv'
<1> SUFFICES ASSUME MemCacheInv, [Next]_vars PROVE MemCacheInv' OBVIOUS
<1>1. CASE UNCHANGED vars
  BY <1>1 DEF vars, MemCacheInv, TypeInv, CacheInv, LockInv, OwnerInv, ContentInv
<1>2. CASE Next
  <2>1. UNCHANGED workload BY <1>2 DEF Next
  <2>2. ASSUME NEW t \in Threads, SearchThread(t) PROVE MemCacheInv'
    <3>1. CASE \E pos \in workload : AddInput(t, pos) BY <2>1, <3>1, AddInputInv
    <3>2. CASE \E pos \in workload : GetCachedEvaluation(t, pos)
      BY <2>1, <3>2, GetCachedEvaluationInv
    <3>3. CASE FetchedImmediately(t) BY <2>1, <3>3, FetchedImmediatelyInv
    <3>4. CASE Refused(t) BY <2>1, <3>4, RefusedInv
    <3>5. CASE ComputeBlocking(t) BY <2>1, <3>5, ComputeBlockingInv
    <3> QED BY <2>2, <3>1, <3>2, <3>3, <3>4, <3>5 DEF SearchThread
  <2>3. CASE \E n \in Capacities : SetCacheSize(n) BY <2>1, <2>3, SetCacheSizeInv
  <2>4. CASE ClearCache BY <2>1, <2>4, ClearCacheInv
  <2> QED BY <1>2, <2>2, <2>3, <2>4 DEF Next
<1> QED BY <1>1, <1>2

\* The invariant holds in every state of the program.
THEOREM MemCacheInvariant == Spec => []MemCacheInv
BY InitInv, Inductive, PTL DEF Spec

\* The cache and the computations have the shape the code gives them.
THEOREM TypeCorrect == Spec => []TypeOK
<1>1. MemCacheInv => TypeOK
  <2> SUFFICES ASSUME MemCacheInv PROVE TypeOK OBVIOUS
  <2>1. /\ Sound(cache) /\ TypeInv BY InvCache
  <2>2. /\ cache.capacity \in Capacities /\ cache.insertion_order \in Seq(Keys)
        /\ DOMAIN cache.hash = 0 .. TableSize(cache.capacity) - 1
        /\ cache.hash \in Tables(TableSize(cache.capacity))
    BY <2>1, Fields DEF Sound
  <2>3. \A i \in InUse : cache.hash[i] \in Entry BY <2>2 DEF InUse, Tables
  <2>4. ASSUME NEW e \in ToSet(cache.evicted)
        PROVE  e \in [key : Keys, value : Values, pins : Nat \ {0}]
    <3>1. e \in Entry BY <2>1, EntryType DEF Sound, All
    <3>2. e.pins # 0 BY <2>1 DEF Sound, Good, Counted
    <3> QED BY <3>1, <3>2 DEF Entry
  <2>5. \A t \in Threads :
          /\ comp[t].at \in {"open", "held", "compute"}
          /\ comp[t].pos \in Positions \cup {NoPosition}
          /\ comp[t].entries \in Seq([pos : Positions, value : Values])
    BY <2>1 DEF TypeInv, CompType
  <2> QED BY <2>1, <2>2, <2>3, <2>4, <2>5 DEF TypeOK, TypeInv, Entry
<1> QED BY <1>1, MemCacheInvariant, PTL



(***************************************************************************)
(* The counters, and the values that locks hold.                           *)
(***************************************************************************)
\* A set whose members are numbered from 1 to n has n members.
LEMMA CountedBy ==
  ASSUME NEW n \in Nat, NEW S, NEW f \in [1 .. n -> S],
         \A i, j \in 1 .. n : f[i] = f[j] => i = j,
         \A x \in S : \E i \in 1 .. n : f[i] = x
  PROVE  IsFiniteSet(S) /\ Cardinality(S) = n
<1>1. f \in Bijection(1 .. n, S) BY DEF Bijection, Injection, Surjection, IsInjective
<1>2. ExistsBijection(1 .. n, S) BY <1>1 DEF ExistsBijection
<1>3. IsFiniteSet(1 .. n) /\ Cardinality(1 .. n) = n BY UpTo
<1> QED BY <1>2, <1>3, FS_Bijection

\* The slot of a key.
SlotOf(T, key) == CHOOSE i \in Used(T) : T[i].key = key

\* A key of the queue has its slot, and the table has its entry's value.
LEMMA SlotOfIs ==
  ASSUME NEW c, Good(c), NEW key \in ToSet(c.insertion_order)
  PROVE  /\ SlotOf(c.hash, key) \in Used(c.hash) /\ c.hash[SlotOf(c.hash, key)].key = key
         /\ c.hash[SlotOf(c.hash, key)] \in Entries(c.hash)
         /\ ValueOf(c.hash, key) = c.hash[SlotOf(c.hash, key)].value
<1>1. \E e \in Entries(c.hash) : e.key = key BY DEF Good, KeysAgree
<1>2. \E i \in Used(c.hash) : c.hash[i].key = key BY <1>1 DEF Entries
<1>3. SlotOf(c.hash, key) \in Used(c.hash) /\ c.hash[SlotOf(c.hash, key)].key = key
  BY <1>2 DEF SlotOf
<1>4. ValueOf(c.hash, key) = c.hash[SlotOf(c.hash, key)].value BY DEF ValueOf, SlotOf
<1> QED BY <1>3, <1>4 DEF Entries

\* The value the table has for the key of an entry is the entry's.
LEMMA ValueOfEntry ==
  ASSUME NEW c, Good(c), NEW e \in Entries(c.hash)
  PROVE  ValueOf(c.hash, e.key) = e.value
<1>1. e.key \in ToSet(c.insertion_order) BY DEF Good, KeysAgree
<1>2. PICK i \in Used(c.hash) : e = c.hash[i] BY DEF Entries
<1>3. /\ SlotOf(c.hash, e.key) \in Used(c.hash)
      /\ c.hash[SlotOf(c.hash, e.key)].key = e.key
      /\ ValueOf(c.hash, e.key) = c.hash[SlotOf(c.hash, e.key)].value
  BY <1>1, SlotOfIs
<1>4. SlotOf(c.hash, e.key) = i BY <1>2, <1>3 DEF Good, TableOK, Distinct
<1> QED BY <1>2, <1>3, <1>4

\* As many slots are in use as the queue has keys.
LEMMA UsedCount ==
  ASSUME NEW c, Good(c)
  PROVE  Cardinality(Used(c.hash)) = Len(c.insertion_order)
<1> DEFINE q == c.insertion_order
           T == c.hash
           f == [i \in 1 .. Len(q) |-> SlotOf(T, q[i])]
<1>1. q \in Seq(Keys) BY Fields
<1>2. \A i \in 1 .. Len(q) : q[i] \in ToSet(q)
  <2> HIDE DEF q
  <2> QED BY <1>1 DEF ToSet
<1>3. \A i \in 1 .. Len(q) : SlotOf(T, q[i]) \in Used(T) /\ T[SlotOf(T, q[i])].key = q[i]
  <2> TAKE i \in 1 .. Len(q)
  <2>1. q[i] \in ToSet(c.insertion_order) BY <1>2
  <2> QED BY <2>1, SlotOfIs
<1>4. OneSlotEach(q) /\ Distinct(T) /\ \A e \in Entries(T) : e.key \in ToSet(q)
  BY DEF Good, KeysAgree, TableOK
<1> HIDE DEF q, T
<1>5. \A i, j \in 1 .. Len(q) : f[i] = f[j] => i = j BY <1>1, <1>3, <1>4 DEF OneSlotEach
<1>6. ASSUME NEW x \in Used(T) PROVE \E i \in 1 .. Len(q) : f[i] = x
  <2>1. T[x].key \in ToSet(q) BY <1>4, <1>6 DEF Entries
  <2>2. PICK i \in 1 .. Len(q) : q[i] = T[x].key BY <1>1, <2>1 DEF ToSet
  <2>3. SlotOf(T, q[i]) = x BY <1>3, <1>4, <1>6, <2>2 DEF Distinct
  <2> QED BY <2>3
<1>7. f \in [1 .. Len(q) -> Used(T)] BY <1>3
<1>8. Len(q) \in Nat BY <1>1
<1> HIDE DEF f
<1>9. Cardinality(Used(T)) = Len(q) BY ONLY <1>5, <1>6, <1>7, <1>8, CountedBy
<1> QED BY <1>9 DEF q, T

\* As many values are allocated as the queue has keys and the list entries.
LEMMA LivingCount ==
  ASSUME NEW c, Good(c)
  PROVE  Cardinality(Living(c)) = Len(c.insertion_order) + Len(c.evicted)
<1> DEFINE q == c.insertion_order
           p == c.evicted
           T == c.hash
           V == {e.value : e \in Entries(T)}
           W == {e.value : e \in ToSet(p)}
           f == [i \in 1 .. Len(q) |-> ValueOf(T, q[i])]
           g == [i \in 1 .. Len(p) |-> p[i].value]
<1>1. q \in Seq(Keys) /\ p \in Seq(Entry) BY Fields
<1>2. Living(c) = V \cup W BY DEF Living, All
<1>3. V \cap W = {} BY DEF Good, OneOwner
<1>4. /\ \A e, d \in Entries(T) : e.value = d.value => e = d
      /\ \A i, j \in DOMAIN p : p[i].value = p[j].value => i = j
      /\ OneSlotEach(q) /\ \A e \in Entries(T) : e.key \in ToSet(q)
  BY DEF Good, OneOwner, KeysAgree
<1>5. \A key \in ToSet(q) : \E e \in Entries(T) : e.key = key /\ ValueOf(T, key) = e.value
  BY SlotOfIs
<1>6. \A e \in Entries(T) : ValueOf(T, e.key) = e.value BY ValueOfEntry
<1> HIDE DEF q, p, T
<1>7. \A i \in 1 .. Len(q) : q[i] \in ToSet(q) BY <1>1 DEF ToSet
<1>8. Cardinality(V) = Len(q) /\ IsFiniteSet(V)
  <2>1. f \in [1 .. Len(q) -> V] BY <1>5, <1>7
  <2>2. ASSUME NEW i \in 1 .. Len(q), NEW j \in 1 .. Len(q), f[i] = f[j] PROVE i = j
    <3>1. PICK e \in Entries(T) : e.key = q[i] /\ f[i] = e.value BY <1>5, <1>7
    <3>2. PICK d \in Entries(T) : d.key = q[j] /\ f[j] = d.value BY <1>5, <1>7
    <3>3. q[i] = q[j] BY <1>4, <2>2, <3>1, <3>2
    <3> QED BY <1>1, <1>4, <3>3 DEF OneSlotEach
  <2>3. ASSUME NEW v \in V PROVE \E i \in 1 .. Len(q) : f[i] = v
    <3>1. PICK e \in Entries(T) : v = e.value OBVIOUS
    <3>2. PICK i \in 1 .. Len(q) : q[i] = e.key BY <1>1, <1>4 DEF ToSet
    <3> QED BY <1>6, <3>1, <3>2
  <2>4. Len(q) \in Nat BY <1>1
  <2> HIDE DEF f, V
  <2> QED BY ONLY <2>1, <2>2, <2>3, <2>4, CountedBy
<1>9. Cardinality(W) = Len(p) /\ IsFiniteSet(W)
  <2>1. g \in [1 .. Len(p) -> W] BY <1>1 DEF ToSet
  <2>2. \A i, j \in 1 .. Len(p) : g[i] = g[j] => i = j BY <1>1, <1>4
  <2>3. \A v \in W : \E i \in 1 .. Len(p) : g[i] = v BY <1>1 DEF ToSet
  <2>4. Len(p) \in Nat BY <1>1
  <2> HIDE DEF g, W
  <2> QED BY ONLY <2>1, <2>2, <2>3, <2>4, CountedBy
<1> HIDE DEF V, W
<1>10. Len(q) \in Nat /\ Len(p) \in Nat BY <1>1
<1>11. Cardinality(V \cup W) = Cardinality(V) + Cardinality(W) - Cardinality({})
  BY <1>3, <1>8, <1>9, FS_Union
<1>12. Cardinality(V \cup W) = Len(q) + Len(p)
  BY ONLY <1>8, <1>9, <1>10, <1>11, FS_EmptySet
<1> QED BY <1>2, <1>12 DEF q, p

\* The counters count, and a value has one owner.
LEMMA AccountedNow == ASSUME MemCacheInv PROVE Accounted
<1> DEFINE q == cache.insertion_order
           p == cache.evicted
           n == cache.size
           m == cache.allocated
<1>1. Sound(cache) /\ Good(cache) /\ OwnersOK(cache, comp) BY InvCache DEF Sound
<1>2. InUse = Used(cache.hash) BY DEF InUse, Used
<1>3. Cardinality(InUse) = Len(q) BY <1>1, <1>2, UsedCount
<1>4. Cardinality(Allocated) = Len(q) + Len(p) BY <1>1, LivingCount, InUseIs
<1>5. n = Len(q) /\ m = Len(q) + Len(p) BY <1>1 DEF Good, Counted
<1>6. n <= cache.capacity BY <1>1 DEF Sound
<1>7. InUse # DOMAIN cache.hash BY <1>1, SoundRoom DEF InUse, NotInUse
<1>8. \A t \in Threads : Owned(t) \cap Allocated = {} BY <1>1, InUseIs DEF OwnersOK
<1>9. \A t, u \in Threads : t # u => Owned(t) \cap Owned(u) = {}
  BY <1>1, InUseIs DEF OwnersOK
<1>10. n = Cardinality(InUse) /\ m = n + Len(p) /\ m = Cardinality(Allocated)
  BY ONLY <1>3, <1>4, <1>5
<1> QED BY <1>5, <1>6, <1>7, <1>8, <1>9, <1>10 DEF Accounted

\* A lock holds an evaluation of the position its thread asked for.
LEMMA HeldNow == ASSUME MemCacheInv PROVE HeldIntact
<1>1. /\ Good(cache) /\ PinsOK(cache, lock) /\ ContentOK(cache, content)
      /\ LocksKnown(lock, comp)
  BY InvCache DEF Sound
<1>2. ASSUME NEW t \in Threads, lock[t] # NoLock
      PROVE  /\ lock[t].value \in Allocated
             /\ content[lock[t].value] # NoResult
             /\ content[lock[t].value].key = comp[t].pos.key
  <2>1. PICK e \in All(cache) : lock[t] = LockOf(e) BY <1>1, <1>2 DEF PinsOK
  <2>2. lock[t].key = e.key /\ lock[t].value = e.value BY <2>1 DEF LockOf, Pair
  <2>3. lock[t].value \in Allocated BY <2>1, <2>2, InUseIs DEF Living
  <2>4. content[e.value] # NoResult /\ content[e.value].key = e.key
    BY <1>1, <2>1 DEF ContentOK
  <2>5. lock[t].key = comp[t].pos.key BY <1>1, <1>2 DEF LocksKnown
  <2> QED BY <2>2, <2>3, <2>4, <2>5
<1>3. ToSet(cache.evicted) \cup {cache.hash[i] : i \in InUse} = All(cache)
  BY DEF All, Entries, Used, InUse
<1>4. \A e \in All(cache) :
        e.pins = Cardinality({t \in Threads : lock[t] = Pair(e.key, e.value)})
  BY <1>1 DEF PinsOK, LockOf
<1> QED BY <1>2, <1>3, <1>4 DEF HeldIntact

\* Whatever the threads and the UCI thread do in whatever order, the counters
\* count, every value has one owner, and what a lock holds is neither deleted nor
\* the evaluation of another key (HashKeyedCache, MemCacheComputation).
THEOREM EveryValueOwned == Spec => []ValuesOwned
<1>1. MemCacheInv => ValuesOwned BY AccountedNow, HeldNow DEF ValuesOwned
<1> QED BY <1>1, MemCacheInvariant, PTL



(***************************************************************************)
(* The queue that the table implements.                                    *)
(***************************************************************************)
LEMMA QueueIs ==
  /\ Queue = QueueOf(cache)
  /\ Queue' = QueueOf(cache')
<1>1. Queue = QueueOf(cache) BY DEF Queue, QueueOf, EntryOf, InUse, ValueOf, Used
<1>2. Queue' = QueueOf(cache') BY DEF Queue, QueueOf, EntryOf, InUse, ValueOf, Used
<1> QED BY <1>1, <1>2

\* The length of the queue, and what is at its places.
LEMMA QueueAt ==
  ASSUME NEW c, Good(c)
  PROVE  /\ QueueOf(c) \in Seq([key : Keys, value : Values])
         /\ Len(QueueOf(c)) = Len(c.insertion_order)
         /\ Len(c.insertion_order) \in Nat
         /\ \A i \in 1 .. Len(c.insertion_order) :
             \E e \in Entries(c.hash) :
                 e.key = c.insertion_order[i] /\ QueueOf(c)[i] = LockOf(e)
<1> DEFINE q == c.insertion_order
           Q == QueueOf(c)
           R == [key : Keys, value : Values]
<1>1. q \in Seq(Keys) BY Fields
<1>2. Q = [i \in 1 .. Len(q) |-> Pair(q[i], ValueOf(c.hash, q[i]))] BY DEF QueueOf
<1>3. \A key \in ToSet(q) :
        \E e \in Entries(c.hash) : e.key = key /\ ValueOf(c.hash, key) = e.value
  BY SlotOfIs
<1>4. \A e \in Entries(c.hash) : LockOf(e) \in R BY EntryType DEF All
<1> HIDE DEF q, Q, R
<1>5. ASSUME NEW i \in 1 .. Len(q)
      PROVE  \E e \in Entries(c.hash) : e.key = q[i] /\ Q[i] = LockOf(e)
  <2>1. q[i] \in ToSet(q) BY <1>1 DEF ToSet
  <2>2. PICK e \in Entries(c.hash) : e.key = q[i] /\ ValueOf(c.hash, q[i]) = e.value
    BY <1>3, <2>1
  <2>3. Q[i] = LockOf(e) BY <1>2, <2>2 DEF LockOf
  <2> QED BY <2>2, <2>3
<1>6. Len(q) \in Nat BY <1>1
<1>7. Q \in [1 .. Len(q) -> R]
  <2>1. \A i \in 1 .. Len(q) : Q[i] \in R BY <1>4, <1>5
  <2> QED BY <1>2, <2>1
<1>8. Q \in Seq(R) /\ Len(Q) = Len(q) BY <1>6, <1>7
<1> QED BY <1>5, <1>6, <1>8 DEF q, Q, R

\* The pair of an entry is where its key is, and the queue has no other pairs.
LEMMA QueueHas ==
  ASSUME NEW c, Good(c)
  PROVE  /\ \A e \in Entries(c.hash) : \A i \in 1 .. Len(c.insertion_order) :
             c.insertion_order[i] = e.key => QueueOf(c)[i] = LockOf(e)
         /\ \A p : p \in ToSet(QueueOf(c)) <=> \E e \in Entries(c.hash) : p = LockOf(e)
<1> DEFINE q == c.insertion_order
           Q == QueueOf(c)
<1>1. q \in Seq(Keys) /\ Len(q) \in Nat BY Fields
<1>2. /\ Len(Q) = Len(q) /\ DOMAIN Q = 1 .. Len(q)
      /\ \A i \in 1 .. Len(q) : Q[i] = Pair(q[i], ValueOf(c.hash, q[i]))
  <2>1. Q = [i \in 1 .. Len(q) |-> Pair(q[i], ValueOf(c.hash, q[i]))] BY DEF QueueOf
  <2>2. Len(Q) = Len(q) BY QueueAt
  <2> HIDE DEF Q
  <2> QED BY <2>1, <2>2
<1>3. \A e \in Entries(c.hash) : ValueOf(c.hash, e.key) = e.value /\ e.key \in ToSet(q)
  BY ValueOfEntry DEF Good, KeysAgree
<1>4. \A i \in 1 .. Len(q) : \E e \in Entries(c.hash) : e.key = q[i] /\ Q[i] = LockOf(e)
  BY QueueAt
<1> HIDE DEF q, Q
<1>5. \A e \in Entries(c.hash) : \A i \in 1 .. Len(q) : q[i] = e.key => Q[i] = LockOf(e)
  BY <1>2, <1>3 DEF LockOf
<1>6. ASSUME NEW e \in Entries(c.hash) PROVE LockOf(e) \in ToSet(Q)
  <2>1. PICK i \in 1 .. Len(q) : q[i] = e.key BY <1>1, <1>3 DEF ToSet
  <2> QED BY <1>2, <1>5, <2>1 DEF ToSet
<1>7. ASSUME NEW p \in ToSet(Q) PROVE \E e \in Entries(c.hash) : p = LockOf(e)
  <2>1. PICK i \in 1 .. Len(q) : p = Q[i] BY <1>2 DEF ToSet
  <2> QED BY <1>4, <2>1
<1> QED BY <1>5, <1>6, <1>7 DEF q, Q

\* Equal queues.
LEMMA SameQueue ==
  ASSUME NEW c, Good(c), NEW d, Good(d), d.insertion_order = c.insertion_order,
         \A e \in Entries(d.hash) : \E f \in Entries(c.hash) : LockOf(e) = LockOf(f)
  PROVE  QueueOf(d) = QueueOf(c)
<1> DEFINE q == c.insertion_order
           P == QueueOf(c)
           Q == QueueOf(d)
<1>1. /\ P \in Seq([key : Keys, value : Values]) /\ Len(P) = Len(q)
      /\ Q \in Seq([key : Keys, value : Values]) /\ Len(Q) = Len(q)
  BY QueueAt
<1>2. ASSUME NEW i \in 1 .. Len(q) PROVE P[i] = Q[i]
  <2>1. PICK e \in Entries(d.hash) : e.key = q[i] /\ Q[i] = LockOf(e) BY QueueAt
  <2>2. PICK f \in Entries(c.hash) : LockOf(e) = LockOf(f) BY <2>1
  <2>3. f.key = q[i] BY <2>1, <2>2, LockFields
  <2> QED BY <2>1, <2>2, <2>3, QueueHas
<1> HIDE DEF P, Q, q
<1>3. P = Q BY <1>1, <1>2, SeqEqual
<1> QED BY <1>3 DEF P, Q

\* What a cache without its k oldest entries has for a queue.
LEMMA DroppedQueue ==
  ASSUME NEW c, Good(c), NEW d, NEW k, Dropped(c, d, k)
  PROVE  /\ k \in 0 .. Len(QueueOf(c))
         /\ Len(QueueOf(d)) = Len(QueueOf(c)) - k
         /\ \A i \in 1 .. Len(QueueOf(d)) : QueueOf(d)[i] = QueueOf(c)[i + k]
<1>1. Good(d) /\ k \in 0 .. Len(c.insertion_order)
      /\ Len(d.insertion_order) = Len(c.insertion_order) - k
  BY DEF Dropped
<1>2. /\ Len(QueueOf(c)) = Len(c.insertion_order)
      /\ Len(QueueOf(d)) = Len(d.insertion_order)
      /\ Len(c.insertion_order) \in Nat
  BY <1>1, QueueAt
<1>3. ASSUME NEW i \in 1 .. Len(d.insertion_order)
      PROVE  QueueOf(d)[i] = QueueOf(c)[i + k]
  <2>1. PICK e \in Entries(d.hash) : e.key = d.insertion_order[i] /\ QueueOf(d)[i] = LockOf(e)
    BY <1>1, QueueAt
  <2>2. e \in Entries(c.hash) /\ e.key = c.insertion_order[i + k] BY <2>1 DEF Dropped
  <2>3. i + k \in 1 .. Len(c.insertion_order)
    <3> DEFINE m == Len(c.insertion_order)
    <3>1. i \in 1 .. m - k /\ m \in Nat /\ k \in 0 .. m BY <1>1, <1>2
    <3> HIDE DEF m
    <3>2. i + k \in 1 .. m BY ONLY <3>1
    <3> QED BY <3>2 DEF m
  <2>4. QueueOf(c)[i + k] = LockOf(e) BY <2>2, <2>3, QueueHas
  <2> QED BY <2>1, <2>4
<1> QED BY <1>1, <1>2, <1>3

\* The newest n pairs of a queue are what is left when the others are dropped.
LEMMA NewestIs ==
  ASSUME NEW S, NEW p \in Seq(S), NEW q \in Seq(S), NEW n \in Nat, NEW k,
         k = Excess(Len(p), n), Len(q) = Len(p) - k,
         \A i \in 1 .. Len(q) : q[i] = p[i + k]
  PROVE  q = Fifo!Newest(n, p)
<1> SUFFICES ASSUME NEW m \in Nat, m = Len(p) PROVE q = Fifo!Newest(n, p) OBVIOUS
<1>1. Fifo!Newest(n, p) = IF m <= n THEN p ELSE SubSeq(p, m - n + 1, m)
  BY DEF Fifo!Newest
<1>2. CASE m <= n
  <2>1. k = 0 BY <1>2 DEF Excess
  <2>2. Len(q) = m BY <2>1
  <2>3. ASSUME NEW i \in 1 .. m PROVE q[i] = p[i]
    <3>1. i + 0 = i OBVIOUS
    <3> QED BY <2>1, <2>2, <3>1
  <2>4. q = p BY ONLY <2>2, <2>3, m = Len(p), p \in Seq(S), q \in Seq(S), SeqEqual
  <2> QED BY <1>1, <1>2, <2>4
<1>3. CASE ~ (m <= n)
  <2> DEFINE r == SubSeq(p, m - n + 1, m)
  <2>1. k = m - n BY <1>3 DEF Excess
  <2>2. Len(q) = n BY <2>1
  <2>3. r \in Seq(S) /\ Len(r) = n /\ \A i \in 1 .. n : r[i] = p[m - n + i]
    <3>1. m - n + 1 \in 1 .. m + 1 /\ m \in Nat BY <1>3
    <3>2. /\ r \in Seq(S)
          /\ Len(r) = IF m - n + 1 <= m THEN m - (m - n + 1) + 1 ELSE 0
          /\ \A i \in 1 .. m - (m - n + 1) + 1 : r[i] = p[m - n + 1 + i - 1]
      <4> HIDE DEF r
      <4> QED BY <1>3, <3>1, SubSeqProperties DEF r
    <3> HIDE DEF r
    <3>3. Len(r) = n BY <1>3, <3>2
    <3>4. ASSUME NEW i \in 1 .. n PROVE r[i] = p[m - n + i]
      <4>1. i \in 1 .. m - (m - n + 1) + 1 /\ m - n + 1 + i - 1 = m - n + i OBVIOUS
      <4> QED BY <3>2, <4>1
    <3> QED BY <3>2, <3>3, <3>4
  <2> HIDE DEF r
  <2>4. ASSUME NEW i \in 1 .. n PROVE q[i] = r[i]
    <3>1. i + k = m - n + i BY <2>1
    <3> QED BY <2>2, <2>3, <3>1
  <2>5. q = r BY ONLY <2>2, <2>3, <2>4, q \in Seq(S), SeqEqual
  <2> QED BY <1>1, <1>3, <2>5 DEF r
<1> QED BY <1>2, <1>3


\* A cache with a new entry has a pair more in its queue.
LEMMA JoinedQueue ==
  ASSUME NEW c, Good(c), NEW key \in Keys, NEW value \in Values, NEW a,
         Joined(c, a, key, value)
  PROVE  QueueOf(a) = Append(QueueOf(c), Pair(key, value))
<1> DEFINE q == c.insertion_order
           p == a.insertion_order
           P == QueueOf(c)
           Q == QueueOf(a)
           x == Pair(key, value)
           R == [key : Keys, value : Values]
           n == Len(q)
           e0 == NewEntry(key, value)
<1>1. Good(a) /\ p = Append(q, key) /\ Entries(a.hash) = Entries(c.hash) \cup {e0}
  BY DEF Joined
<1>2. q \in Seq(Keys) /\ n \in Nat /\ P \in Seq(R) /\ Len(P) = n BY Fields, QueueAt
<1>3. Q \in Seq(R) /\ Len(Q) = Len(p) BY <1>1, QueueAt
<1>4. e0.key = key /\ LockOf(e0) = x BY DEF NewEntry, LockOf
<1>5. x \in R BY DEF Pair
<1>6. \A i \in 1 .. n : \E e \in Entries(c.hash) : e.key = q[i] /\ P[i] = LockOf(e)
  BY QueueAt
<1>7. \A e \in Entries(a.hash) : \A i \in 1 .. Len(p) : p[i] = e.key => Q[i] = LockOf(e)
  BY <1>1, QueueHas
<1> HIDE DEF q, P, Q, x, R, e0
<1>8. Len(p) = n + 1 /\ p[n + 1] = key /\ \A i \in 1 .. n : p[i] = q[i]
  <2> HIDE DEF p
  <2> QED BY <1>1, <1>2, AppendProperties
<1> HIDE DEF p
<1>9. /\ Append(P, x) \in Seq(R) /\ Len(Append(P, x)) = n + 1
      /\ Append(P, x)[n + 1] = x /\ \A i \in 1 .. n : Append(P, x)[i] = P[i]
  BY <1>2, <1>5, AppendProperties
<1> HIDE DEF n
<1>10. ASSUME NEW i \in 1 .. n + 1 PROVE Q[i] = Append(P, x)[i]
  <2>1. CASE i \in 1 .. n
    <3>1. PICK e \in Entries(c.hash) : e.key = q[i] /\ P[i] = LockOf(e) BY <1>6, <2>1
    <3>2. Q[i] = LockOf(e) BY <1>1, <1>7, <1>8, <2>1, <3>1
    <3> QED BY <1>9, <2>1, <3>1, <3>2
  <2>2. CASE i = n + 1
    <3>1. i \in 1 .. Len(p) /\ p[i] = key BY <1>8, <2>2
    <3>2. Q[i] = x BY <1>1, <1>4, <1>7, <3>1
    <3> QED BY <1>9, <2>2, <3>2
  <2>3. i \in 1 .. n \/ i = n + 1 BY <1>2
  <2> QED BY <2>1, <2>2, <2>3
<1>11. Len(Q) = n + 1 BY <1>3, <1>8
<1>12. Q = Append(P, x) BY ONLY <1>3, <1>9, <1>10, <1>11, SeqEqual
<1> QED BY <1>12 DEF P, Q, x

\* Without change of the cache and the locks the queue stays as it is.
LEMMA QueueStutters ==
  ASSUME cache' = cache, lock' = lock
  PROVE  UNCHANGED Fifo!vars
<1>1. Queue' = Queue
  <2>1. QueueOf(cache') = QueueOf(cache) OBVIOUS
  <2> QED BY <2>1, QueueIs
<1> QED BY <1>1 DEF Fifo!vars

\* Insert adds its pair to the queue and drops what is too much, or does nothing.
LEMMA InsertMaps ==
  ASSUME MemCacheInv, NEW key \in Keys, NEW value \in Values, value \notin Living(cache),
         cache' = Inserted(cache, key, value), lock' = lock
  PROVE  [Fifo!Next]_(Fifo!vars)
<1>1. CASE cache' = cache BY <1>1, QueueStutters
<1>2. ASSUME NEW a, Joined(cache, a, key, value),
             Dropped(a, cache', Excess(cache.size + 1, cache.capacity))
      PROVE  Fifo!Insert(key, value)
  <2> DEFINE x == [key |-> key, value |-> value]
             Q == QueueOf(cache)
             P == QueueOf(a)
  <2>1. Good(cache) /\ PinsOK(cache, lock) BY InvCache DEF Sound
  <2>2. Good(a) /\ Good(cache') /\ cache'.capacity = cache.capacity
    BY <1>2 DEF Joined, Dropped
  <2>3. Queue = Q /\ Queue' = QueueOf(cache') BY QueueIs
  <2>4. P = Append(Q, x) BY <1>2, <2>1, JoinedQueue DEF Pair
  <2>5. \A p \in ToSet(Q) : \E e \in Entries(cache.hash) : p = LockOf(e) BY <2>1, QueueHas
  <2>6. Fifo!Cached(key) = {}
    <3>1. ASSUME NEW p \in ToSet(Q), p.key = key PROVE FALSE
      <4>1. PICK e \in Entries(cache.hash) : p = LockOf(e) BY <2>5, <3>1
      <4>2. e.key = key BY <3>1, <4>1 DEF LockOf, Pair
      <4>3. Absent(cache.hash, key) BY <1>2 DEF Joined
      <4> QED BY <4>1, <4>2, <4>3 DEF Absent, Entries
    <3>2. Fifo!ToSet(Queue) = ToSet(Q) BY <2>3 DEF Fifo!ToSet, ToSet
    <3> QED BY <3>1, <3>2 DEF Fifo!Cached
  <2>7. Fifo!Fresh(value)
    <3>1. ASSUME NEW p \in ToSet(Q) PROVE p.value # value
      <4>1. PICK e \in Entries(cache.hash) : p = LockOf(e) BY <2>5, <3>1
      <4>2. p.value = e.value BY <4>1 DEF LockOf, Pair
      <4> QED BY <4>1, <4>2 DEF Living, All
    <3>2. ASSUME NEW h \in Holders, lock[h] # NoLock PROVE lock[h].value # value
      <4>1. PICK e \in All(cache) : lock[h] = LockOf(e)
        BY <2>1, <3>2, MemCacheAssumption DEF PinsOK
      <4>2. lock[h].value = e.value BY <4>1 DEF LockOf, Pair
      <4> QED BY <4>1, <4>2 DEF Living
    <3>3. Fifo!ToSet(Queue) = ToSet(Q) BY <2>3 DEF Fifo!ToSet, ToSet
    <3> QED BY <3>1, <3>2, <3>3 DEF Fifo!Fresh
  <2>8. QueueOf(cache') = Fifo!Newest(cache.capacity, P)
    <3> DEFINE n == cache.size
               r == QueueOf(cache')
               cap == cache.capacity
               k == Excess(n + 1, cap)
               R == [key : Keys, value : Values]
    <3>1. Q \in Seq(R) /\ Len(Q) = n /\ n \in Nat /\ cap \in Nat
      BY <2>1, QueueAt, Fields DEF Good
    <3>2. P \in Seq(R) /\ r \in Seq(R) BY <2>2, QueueAt
    <3>3. /\ Len(r) = Len(P) - k
          /\ \A i \in 1 .. Len(r) : r[i] = P[i + k]
      BY <1>2, <2>2, DroppedQueue
    <3> HIDE DEF n, r, cap, P, Q
    <3>4. Len(P) = n + 1
      <4>1. x \in R OBVIOUS
      <4> QED BY <2>4, <3>1, <4>1, AppendProperties
    <3>5. k = Excess(Len(P), cap) BY <3>4
    <3> HIDE DEF k, R
    <3>6. r = Fifo!Newest(cap, P) BY ONLY <3>1, <3>2, <3>3, <3>5, NewestIs
    <3> QED BY <3>6 DEF r, cap
  <2>9. Queue' = Fifo!Newest(cache.capacity, Append(Queue, x)) BY <2>3, <2>4, <2>8
  <2> HIDE DEF Q, P
  <2> QED BY <2>2, <2>6, <2>7, <2>9 DEF Fifo!Insert
<1>3. \/ cache' = cache
      \/ \E a : /\ Joined(cache, a, key, value)
                /\ Dropped(a, cache', Excess(cache.size + 1, cache.capacity))
  <2>1. Good(cache) /\ cache.size <= cache.capacity BY InvCache DEF Sound
  <2>2. \A e \in All(cache) : e.value # value BY DEF Living
  <2> QED BY <2>1, <2>2, InsertResult
<1> QED BY <1>1, <1>2, <1>3 DEF Fifo!Next


\* Entries whose pins changed have the same pairs.
LEMMA RepinnedQueue ==
  ASSUME NEW c, Good(c), NEW d, NEW e, NEW f, Repinned(c, d, e, f) \/ Deleted(c, d, e)
  PROVE  QueueOf(d) = QueueOf(c) /\ d.capacity = c.capacity
<1>1. Good(d) /\ d.capacity = c.capacity /\ d.insertion_order = c.insertion_order
  BY DEF Repinned, Deleted
<1>2. \A x \in Entries(d.hash) : \E y \in Entries(c.hash) : LockOf(x) = LockOf(y)
  <2>1. CASE Repinned(c, d, e, f)
    <3>1. \A p : (\E x \in Entries(d.hash) : p = LockOf(x)) =>
                 \E y \in Entries(c.hash) : p = LockOf(y)
      BY <2>1 DEF Repinned
    <3> QED BY <3>1
  <2>2. CASE Deleted(c, d, e) BY <2>2 DEF Deleted
  <2> QED BY <2>1, <2>2
<1> QED BY <1>1, <1>2, SameQueue

\* A lookup acquires the pair the queue has for the key, if it has one.
LEMMA LookupMaps ==
  ASSUME MemCacheInv, NEW t \in Threads, NEW key \in Keys, LookupAndPin(t, key)
  PROVE  [Fifo!Next]_(Fifo!vars)
<1>1. Sound(cache) /\ Good(cache) BY InvCache DEF Sound
<1>2. CASE UNCHANGED <<cache, lock>> BY <1>2, QueueStutters
<1>3. ASSUME NEW e, NEW f, Acquired(t, key, e, f) PROVE Fifo!Acquire(t, key)
  <2>1. /\ e \in Entries(cache.hash) /\ e.key = key /\ Repinned(cache, cache', e, f)
        /\ lock' = [lock EXCEPT ![t] = LockOf(e)]
    BY <1>3 DEF Acquired
  <2>2. Queue' = Queue /\ cache'.capacity = cache.capacity
    BY <1>1, <2>1, RepinnedQueue, QueueIs
  <2>3. LockOf(e) \in ToSet(Queue) BY <1>1, <2>1, QueueHas, QueueIs
  <2>4. Fifo!ToSet(Queue) = ToSet(Queue) BY DEF Fifo!ToSet, ToSet
  <2>5. LockOf(e) \in Fifo!Cached(key)
    <3>1. LockOf(e).key = key BY <2>1 DEF LockOf, Pair
    <3> QED BY <2>3, <2>4, <3>1 DEF Fifo!Cached
  <2>6. lock[t] = NoLock BY <1>1, LookupStep
  <2> QED BY <2>1, <2>2, <2>5, <2>6 DEF Fifo!Acquire
<1>4. t \in Holders BY MemCacheAssumption
<1> QED BY <1>1, <1>2, <1>3, <1>4, LookupStep DEF Fifo!Next

\* Giving up a lock leaves the queue alone, whether the value is deleted or not.
LEMMA UnpinMaps ==
  ASSUME MemCacheInv, NEW t \in Threads, Unpin(t)
  PROVE  [Fifo!Next]_(Fifo!vars)
<1>1. Sound(cache) /\ Good(cache) /\ PinsOK(cache, lock) BY InvCache DEF Sound
<1>2. PICK e : Released(t, e) BY <1>1, UnpinStep
<1>3. \E f : Repinned(cache, cache', e, f) \/ Deleted(cache, cache', e)
  BY <1>2 DEF Released
<1>4. Queue' = Queue /\ cache'.capacity = cache.capacity
  BY <1>1, <1>3, RepinnedQueue, QueueIs
<1>5. lock[t] # NoLock /\ lock' = [lock EXCEPT ![t] = NoLock] BY DEF Unpin
<1>6. Fifo!Release(t) BY <1>4, <1>5 DEF Fifo!Release
<1>7. t \in Holders BY MemCacheAssumption
<1> QED BY <1>6, <1>7 DEF Fifo!Next

\* A new capacity keeps the newest pairs that fit.
LEMMA ResizeMaps ==
  ASSUME MemCacheInv, NEW n \in Capacities, cache' = Resized(cache, n), lock' = lock
  PROVE  [Fifo!Next]_(Fifo!vars)
<1>1. Good(cache) /\ cache.size <= cache.capacity BY InvCache DEF Sound
<1>2. PICK k : Dropped(cache, k, Excess(cache.size, n)) /\ Refit(k, cache', n)
  BY <1>1, ResizeResult
<1>3. Good(k) /\ Good(cache') /\ cache'.capacity = n BY <1>2 DEF Dropped, Refit
<1>4. QueueOf(cache') = QueueOf(k)
  <2>1. /\ cache'.insertion_order = k.insertion_order
        /\ Entries(cache'.hash) = Entries(k.hash)
    BY <1>2 DEF Refit
  <2> QED BY <1>3, <2>1, SameQueue
<1>5. QueueOf(k) = Fifo!Newest(n, QueueOf(cache))
  <2> DEFINE Q == QueueOf(cache)
             P == QueueOf(k)
             s == cache.size
             m == Excess(s, n)
             R == [key : Keys, value : Values]
  <2>1. Q \in Seq(R) /\ Len(Q) = s /\ P \in Seq(R) /\ n \in Nat
    BY <1>1, <1>3, QueueAt, Fields, CacheAssumption
  <2>2. Len(P) = Len(Q) - m /\ \A i \in 1 .. Len(P) : P[i] = Q[i + m]
    BY <1>1, <1>2, DroppedQueue
  <2> HIDE DEF Q, P, s, R
  <2>3. m = Excess(Len(Q), n) BY <2>1
  <2> HIDE DEF m
  <2>4. P = Fifo!Newest(n, Q) BY ONLY <2>1, <2>2, <2>3, NewestIs
  <2> QED BY <2>4 DEF P, Q
<1>6. Queue' = Fifo!Newest(n, Queue) BY <1>4, <1>5, QueueIs
<1>7. Fifo!Resize(n) BY <1>3, <1>6 DEF Fifo!Resize
<1> QED BY <1>7 DEF Fifo!Next

\* Clearing leaves no pair.
LEMMA ClearMaps ==
  ASSUME MemCacheInv, cache' = EvictToCapacity(cache, 0), lock' = lock
  PROVE  [Fifo!Next]_(Fifo!vars)
<1>1. Sound(cache) /\ Good(cache) BY InvCache DEF Sound
<1>2. Dropped(cache, cache', cache.size) BY <1>1, ClearKeeps
<1>3. Good(cache') /\ cache'.capacity = cache.capacity BY <1>2 DEF Dropped
<1>4. QueueOf(cache') = <<>>
  <2> DEFINE Q == QueueOf(cache)
             P == QueueOf(cache')
             s == cache.size
  <2>1. Len(Q) = s /\ s \in Nat /\ P \in Seq([key : Keys, value : Values])
    BY <1>1, <1>3, QueueAt, Fields
  <2>2. Len(P) = Len(Q) - s BY <1>1, <1>2, DroppedQueue
  <2> HIDE DEF P, Q, s
  <2>3. Len(P) = 0 BY <2>1, <2>2
  <2>4. P = <<>> BY <2>1, <2>3
  <2> QED BY <2>4 DEF P
<1>5. Queue' = <<>> BY <1>4, QueueIs
<1>6. Fifo!Clear BY <1>3, <1>5 DEF Fifo!Clear
<1> QED BY <1>6 DEF Fifo!Next

\* Every step of the threads and of the UCI thread is one of the queue, or leaves it
\* as it is.
LEMMA StepMaps ==
  ASSUME MemCacheInv, [Next]_vars
  PROVE  [Fifo!Next]_(Fifo!vars)
<1>1. CASE UNCHANGED vars BY <1>1, QueueStutters DEF vars
<1>2. ASSUME NEW t \in Threads, SearchThread(t) PROVE [Fifo!Next]_(Fifo!vars)
  <2>1. ASSUME NEW pos \in workload, AddInput(t, pos) \/ GetCachedEvaluation(t, pos)
        PROVE  [Fifo!Next]_(Fifo!vars)
    <3>1. pos.key \in Keys BY InvCache, MemCacheAssumption DEF TypeInv
    <3>2. LookupAndPin(t, pos.key) BY <2>1 DEF AddInput, GetCachedEvaluation
    <3> QED BY <3>1, <3>2, LookupMaps
  <2>2. CASE FetchedImmediately(t) BY <2>2, UnpinMaps DEF FetchedImmediately
  <2>3. CASE Refused(t) BY <2>3, UnpinMaps DEF Refused
  <2>4. CASE ComputeBlocking(t)
    <3> DEFINE q == comp[t].entries
               x == Head(q)
    <3>1. q # <<>> /\ Insert(x.pos.key, x.value) BY <2>4 DEF ComputeBlocking
    <3>2. q \in Seq(Queries)
      <4>1. comp \in [Threads -> CompType] BY InvCache
      <4> QED BY <4>1 DEF CompType, Queries
    <3>3. OwnersOK(cache, comp) BY InvCache
    <3>4. x \in ToSet(q) /\ x \in Queries
      <4> HIDE DEF q
      <4>1. 1 \in DOMAIN q /\ x = q[1] BY <3>1, <3>2
      <4> QED BY <3>2, <4>1 DEF ToSet
    <3>5. x.pos.key \in Keys /\ x.value \in Values
      <4> HIDE DEF x
      <4> QED BY <3>4, MemCacheAssumption DEF Queries
    <3>6. x.value \notin Living(cache)
      <4>1. x.value \in Pending(comp, t) BY <3>4 DEF Pending
      <4> HIDE DEF x
      <4> QED BY <3>3, <4>1 DEF OwnersOK
    <3> HIDE DEF x
    <3>7. cache' = Inserted(cache, x.pos.key, x.value) /\ lock' = lock BY <3>1, InsertIs
    <3> QED BY <3>5, <3>6, <3>7, InsertMaps
  <2> QED BY <1>2, <2>1, <2>2, <2>3, <2>4 DEF SearchThread
<1>3. ASSUME NEW n \in Capacities, SetCacheSize(n) PROVE [Fifo!Next]_(Fifo!vars)
  <2>1. cache' = Resized(cache, n) /\ lock' = lock BY <1>3, ResizeIs DEF SetCacheSize
  <2> QED BY <2>1, ResizeMaps
<1>4. CASE ClearCache
  <2>1. cache' = EvictToCapacity(cache, 0) /\ lock' = lock BY <1>4 DEF ClearCache, Clear
  <2> QED BY <2>1, ClearMaps
<1> QED BY <1>1, <1>2, <1>3, <1>4 DEF Next

LEMMA InitMaps == Init => Fifo!Init
<1> SUFFICES ASSUME Init PROVE Fifo!Init OBVIOUS
<1>1. PICK n \in Capacities :
        cache = [capacity |-> n, size |-> 0, allocated |-> 0,
                 insertion_order |-> <<>>, evicted |-> <<>>, hash |-> EmptyTable(n)]
  BY DEF Init, CacheInit
<1>2. cache.capacity = n /\ cache.insertion_order = <<>> BY <1>1
<1>3. Good(cache) BY <1>1, EmptyGood DEF Sound
<1>4. QueueOf(cache) = <<>>
  <2> DEFINE P == QueueOf(cache)
  <2>1. P \in Seq([key : Keys, value : Values]) /\ Len(P) = Len(cache.insertion_order)
    BY <1>3, QueueAt
  <2>2. Len(<<>>) = 0 OBVIOUS
  <2> HIDE DEF P
  <2>3. P = <<>> BY <1>2, <2>1, <2>2
  <2> QED BY <2>3 DEF P
<1>5. lock = [h \in Holders |-> NoLock] BY DEF Init, CacheInit
<1> QED BY <1>2, <1>4, <1>5, QueueIs DEF Fifo!Init

\* The hash table, its probes, pins and evicted entries implement the bounded queue:
\* what a lookup returns and what an insertion, a smaller size or a clearing drops is
\* what the queue of LcFifoCache returns and drops, in whatever order the threads
\* reach the mutex (HashKeyedCache).
THEOREM QueueImplemented == Spec => ImplementsFifo
<1>1. Init => Fifo!Init BY InitMaps
<1>2. MemCacheInv /\ [Next]_vars => [Fifo!Next]_(Fifo!vars) BY StepMaps
<1> QED BY <1>1, <1>2, MemCacheInvariant, PTL DEF Spec, ImplementsFifo, Fifo!Spec

=============================================================================
