----------------------------- MODULE LcMuxProof -----------------------------
(***************************************************************************)
(* What is proved of LcMux: the invariant of LcMuxInv is inductive, and so *)
(* every client reads the evaluation of its own inputs, for any numbers of *)
(* threads, clients, computations and inputs.                              *)
(***************************************************************************)
EXTENDS LcMuxInv, FiniteSetTheorems, SequenceTheorems, WellFoundedInduction, TLAPS

-----------------------------------------------------------------------------
(***************************************************************************)
(* Sequences of sequences, greatest and least elements, division           *)
(***************************************************************************)

\* A set of numbers has a least element. What is shown of every number below is
\* shown by looking at the least one it would not hold for.
LEMMA NatMin ==
  ASSUME NEW T, T \subseteq Nat, T # {} PROVE \E x \in T : \A y \in T : x <= y
<1> DEFINE R == {ss \in Nat \X Nat : ss[1] < ss[2]}
<1>1. IsWellFoundedOn(R, Nat) BY NatLessThanWellFounded DEF OpToRel
<1> HIDE DEF R
<1>2. \E x \in T : \A y \in T : ~ (<<y, x>> \in R) BY <1>1, WFMin
<1>3. \A x, y \in Nat : x < y => <<x,y>> \in R BY DEF R
<1>4. PICK x \in T : \A y \in T : ~ (<<y, x>> \in R) BY <1>2
<1>5. x \in Nat OBVIOUS
<1>6. ASSUME NEW y \in T PROVE x <= y
  <2>1. y \in Nat OBVIOUS
  <2>2. ~ (y < x) BY <1>3, <1>4, <1>5, <2>1
  <2> QED BY <1>5, <2>1, <2>2
<1> QED BY <1>6

\* The function by which FlattenSeq is defined.
IsFlattening(f, ss, n) ==
  f = [i \in 1..n |-> IF i = 1 THEN ss[i] ELSE f[i-1] \o ss[i]]

\* FlattenSeq is the last value of such a function, if there is one.
LEMMA FlattenChosen ==
  ASSUME NEW ss, Len(ss) # 0, \E f : IsFlattening(f, ss, Len(ss))
  PROVE  \E f : IsFlattening(f, ss, Len(ss)) /\ FlattenSeq(ss) = f[Len(ss)]
BY DEF FlattenSeq, IsFlattening

\* Its value at a place.
LEMMA FlatteningAt ==
  ASSUME NEW ss, NEW n \in Nat, NEW f, IsFlattening(f, ss, n), NEW i \in 1 .. n
  PROVE  f[i] = IF i = 1 THEN ss[i] ELSE f[i - 1] \o ss[i]
<1> DEFINE e == [j \in 1 .. n |-> IF j = 1 THEN ss[j] ELSE f[j - 1] \o ss[j]]
<1>1. f = e BY DEF IsFlattening
<1>2. e[i] = IF i = 1 THEN ss[i] ELSE f[i - 1] \o ss[i] OBVIOUS
<1> HIDE DEF e
<1> QED BY <1>1, <1>2

\* Every prefix of a sequence of sequences has the function FlattenSeq is defined by.
LEMMA FlattenExists ==
  ASSUME NEW ss, NEW N \in Nat
  PROVE  \E f : IsFlattening(f, ss, N)
<1> DEFINE T == {n \in Nat : ~ \E f : IsFlattening(f, ss, n)}
<1> SUFFICES ASSUME T # {} PROVE FALSE OBVIOUS
<1>1. PICK n \in T : \A m \in T : n <= m
  <2>1. T \subseteq Nat OBVIOUS
  <2> QED BY <2>1, NatMin
<1>2. n # 0
  <2>1. IsFlattening([i \in 1 .. 0 |-> ss], ss, 0) BY DEF IsFlattening
  <2> QED BY <2>1
<1>3. n - 1 \in Nat /\ n - 1 \notin T BY <1>1, <1>2
<1>4. PICK f : IsFlattening(f, ss, n - 1) BY <1>3
<1> DEFINE g == [i \in 1 .. n |-> IF i = n THEN IF i = 1 THEN ss[i] ELSE f[i - 1] \o ss[i] ELSE f[i]]
<1>5. \A i \in 1 .. n : g[i] = IF i = 1 THEN ss[i] ELSE g[i - 1] \o ss[i]
  <2> TAKE i \in 1 .. n
  <2>0. i # 1 => g[i - 1] = f[i - 1] BY <1>2
  <2>1. CASE i = n BY <2>0, <2>1
  <2>2. CASE i # n
    <3>1. i \in 1 .. n - 1 BY <1>2, <2>2
    <3>2. f[i] = IF i = 1 THEN ss[i] ELSE f[i - 1] \o ss[i]
      BY <1>3, <1>4, <3>1, FlatteningAt
    <3>3. g[i] = f[i] BY <2>2
    <3> QED BY <2>0, <3>2, <3>3
  <2> QED BY <2>1, <2>2
<1>6. g = [i \in 1 .. n |-> g[i]] OBVIOUS
<1> HIDE DEF g
<1>7. IsFlattening(g, ss, n) BY <1>5, <1>6 DEF IsFlattening
<1> QED BY <1>7

\* Two sequences agree up to the n-th element.
SamePrefix(ss, ts, n) == \A i \in 1 .. n : ss[i] = ts[i]

\* It depends on the elements up to there only.
LEMMA FlattenUnique ==
  ASSUME NEW ss, NEW ts, NEW m \in Nat, NEW n \in 0 .. m, NEW f, NEW g,
         SamePrefix(ss, ts, n), IsFlattening(f, ss, n), IsFlattening(g, ts, m)
  PROVE  SamePrefix(f, g, n)
<1> DEFINE T == {i \in 1 .. n : f[i] # g[i]}
<1> SUFFICES ASSUME T # {} PROVE FALSE BY DEF SamePrefix
<1>1. PICK i \in T : \A j \in T : i <= j
  <2>1. T \subseteq Nat OBVIOUS
  <2> QED BY <2>1, NatMin
<1>2. ASSUME i # 1 PROVE i - 1 \in 1 .. n /\ f[i - 1] = g[i - 1]
  <2>1. i - 1 \in 1 .. n /\ ~ (i <= i - 1) BY <1>2
  <2>2. i - 1 \notin T BY <1>1, <2>1
  <2> QED BY <2>1, <2>2
<1>3. f[i] = IF i = 1 THEN ss[i] ELSE f[i - 1] \o ss[i] BY FlatteningAt
<1>4. i \in 1 .. m OBVIOUS
<1>5. g[i] = IF i = 1 THEN ts[i] ELSE g[i - 1] \o ts[i] BY <1>4, FlatteningAt
<1>6. ss[i] = ts[i] BY DEF SamePrefix
<1> QED BY <1>2, <1>3, <1>5, <1>6

\* The flattening of a prefix with one more element.
LEMMA FlattenOneMore ==
  ASSUME NEW S, NEW ss \in Seq(Seq(S)), NEW n \in 1 .. Len(ss)
  PROVE  FlattenSeq(SubSeq(ss, 1, n)) = FlattenSeq(SubSeq(ss, 1, n - 1)) \o ss[n]
<1> DEFINE st == SubSeq(ss, 1, n)
           su == SubSeq(ss, 1, n - 1)
<1>1. /\ st \in Seq(Seq(S)) /\ Len(st) = n /\ (\A i \in 1 .. n : st[i] = ss[i])
      /\ su \in Seq(Seq(S)) /\ Len(su) = n - 1 /\ (\A i \in 1 .. n - 1 : su[i] = ss[i])
  <2>1. /\ st \in Seq(Seq(S)) /\ Len(st) = n /\ \A i \in 1 .. n : st[i] = ss[i]
    BY SubSeqProperties
  <2>2. /\ su \in Seq(Seq(S)) /\ Len(su) = n - 1 /\ \A i \in 1 .. n - 1 : su[i] = ss[i]
    BY SubSeqProperties
  <2> QED BY <2>1, <2>2
<1> HIDE DEF st, su
<1>0. n \in Nat /\ n \in 1 .. n /\ ss[n] \in Seq(S) OBVIOUS
<1>2. PICK f : IsFlattening(f, st, n) /\ FlattenSeq(st) = f[n]
  <2>1. \E f : IsFlattening(f, st, n) BY <1>0, FlattenExists
  <2>2. Len(st) # 0 BY <1>1
  <2>3. \E f : IsFlattening(f, st, Len(st)) BY <1>1, <2>1
  <2> QED BY <1>1, <2>2, <2>3, FlattenChosen
<1>3. f[n] = IF n = 1 THEN ss[n] ELSE f[n - 1] \o ss[n]
  <2>1. f[n] = IF n = 1 THEN st[n] ELSE f[n - 1] \o st[n] BY <1>0, <1>2, FlatteningAt
  <2>2. st[n] = ss[n] BY <1>0, <1>1
  <2> QED BY <2>1, <2>2
<1>4. CASE n = 1
  <2>1. FlattenSeq(su) = su /\ Len(su) = 0 BY <1>1, <1>4 DEF FlattenSeq
  <2>2. FlattenSeq(su) = << >> BY <1>1, <2>1
  <2>3. << >> \o ss[n] = ss[n] BY <1>0
  <2>4. FlattenSeq(st) = FlattenSeq(su) \o ss[n]
    BY <1>2, <1>3, <1>4, <2>2, <2>3
  <2> QED BY <2>4 DEF st, su
<1>5. CASE n # 1
  <2>0. n - 1 \in Nat /\ n - 1 <= n BY <1>0
  <2>1. PICK g : IsFlattening(g, su, n - 1) /\ FlattenSeq(su) = g[n - 1]
    <3>1. \E g : IsFlattening(g, su, n - 1) BY <2>0, FlattenExists
    <3>2. Len(su) # 0 BY <1>1, <1>5
    <3>3. \E g : IsFlattening(g, su, Len(su)) BY <1>1, <3>1
    <3> QED BY <1>1, <3>2, <3>3, FlattenChosen
  <2>2. \A i \in 1 .. n - 1 : g[i] = f[i]
    <3>1. ASSUME NEW i \in 1 .. n - 1 PROVE su[i] = st[i]
      <4>1. i \in 1 .. n BY <1>0
      <4> QED BY <1>1, <4>1
    <3>2. IsFlattening(f, st, n) /\ IsFlattening(g, su, n - 1) BY <1>2, <2>1
    <3> DEFINE k == n - 1
    <3>3. n \in Nat /\ k \in 0 .. n BY <1>0, <2>0
    <3>4. SamePrefix(su, st, k) BY <3>1 DEF SamePrefix
    <3> HIDE DEF k
    <3>5. IsFlattening(f, st, n) /\ IsFlattening(g, su, k) BY <3>2 DEF k
    <3>6. SamePrefix(g, f, k) BY <3>3, <3>4, <3>5, FlattenUnique
    <3> QED BY <3>6 DEF k, SamePrefix
  <2>3. FlattenSeq(st) = FlattenSeq(su) \o ss[n]
    <3>1. n - 1 \in 1 .. n - 1 BY <1>5, <2>0
    <3> QED BY <1>2, <1>3, <1>5, <2>1, <2>2, <3>1
  <2> QED BY <2>3 DEF st, su
<1> QED BY <1>4, <1>5

\* What FlattenSeq makes of a sequence of sequences over S is one over S.
LEMMA FlattenType ==
  ASSUME NEW S, NEW ss \in Seq(Seq(S)) PROVE FlattenSeq(ss) \in Seq(S)
<1> DEFINE T == {n \in 0 .. Len(ss) : FlattenSeq(SubSeq(ss, 1, n)) \notin Seq(S)}
<1>1. T = {}
  <2> SUFFICES ASSUME T # {} PROVE FALSE OBVIOUS
  <2>1. PICK n \in T : \A m \in T : n <= m
    <3>1. T \subseteq Nat OBVIOUS
    <3> QED BY <3>1, NatMin
  <2>2. n # 0
    <3>1. SubSeq(ss, 1, 0) = << >> OBVIOUS
    <3>2. FlattenSeq(<< >>) = << >> BY DEF FlattenSeq
    <3>3. FlattenSeq(SubSeq(ss, 1, 0)) \in Seq(S)
      <4>1. << >> \in Seq(S) OBVIOUS
      <4> QED BY <3>1, <3>2, <4>1, Zenon
    <3>4. 0 \notin T BY <3>3
    <3> QED BY <3>4
  <2>3. n - 1 \in 0 .. Len(ss) /\ n \in 1 .. Len(ss) /\ ~ (n <= n - 1) BY <2>2
  <2>4. FlattenSeq(SubSeq(ss, 1, n - 1)) \in Seq(S) BY <2>1, <2>3
  <2>5. ss[n] \in Seq(S) BY <2>3
  <2>6. FlattenSeq(SubSeq(ss, 1, n)) = FlattenSeq(SubSeq(ss, 1, n - 1)) \o ss[n]
    BY <2>3, FlattenOneMore
  <2>7. FlattenSeq(SubSeq(ss, 1, n)) \in Seq(S) BY <2>4, <2>5, <2>6, ConcatProperties
  <2> QED BY <2>7
<1>2. Len(ss) \in 0 .. Len(ss) /\ SubSeq(ss, 1, Len(ss)) = ss OBVIOUS
<1> HIDE DEF T
<1>3. Len(ss) \notin T BY <1>1
<1> QED BY <1>2, <1>3 DEF T

\* The elements of two sequences, in the one made of both.
LEMMA ConcatAt ==
  ASSUME NEW S, NEW a \in Seq(S), NEW b \in Seq(S), NEW c, c = a \o b
  PROVE  /\ \A y \in 1 .. Len(a) : y \in 1 .. Len(c) /\ c[y] = a[y]
         /\ \A y \in 1 .. Len(b) : Len(a) + y \in 1 .. Len(c) /\ c[Len(a) + y] = b[y]
<1>1. /\ \A y \in 1 .. Len(a) : y \in 1 .. Len(c)
      /\ \A y \in 1 .. Len(b) : Len(a) + y \in 1 .. Len(c)
  OBVIOUS
<1>2. \A y \in 1 .. Len(a) : c[y] = a[y] OBVIOUS
<1>3. \A y \in 1 .. Len(b) : c[Len(a) + y] = b[y] OBVIOUS
<1> QED BY <1>1, <1>2, <1>3

\* The elements of the i-th sequence follow, in order, those of the sequences before it.
LEMMA FlattenOffset ==
  ASSUME NEW S, NEW ss \in Seq(Seq(S)), NEW i \in 1 .. Len(ss), NEW x \in 1 .. Len(ss[i])
  PROVE  LET at == Len(FlattenSeq(SubSeq(ss, 1, i - 1))) + x
         IN  at \in 1 .. Len(FlattenSeq(ss)) /\ FlattenSeq(ss)[at] = ss[i][x]
<1> DEFINE fl == [n \in 0 .. Len(ss) |-> FlattenSeq(SubSeq(ss, 1, n))]
           at == Len(fl[i - 1]) + x
           T == {n \in i .. Len(ss) : ~ (at \in 1 .. Len(fl[n]) /\ fl[n][at] = ss[i][x])}
<1>0. \A n \in 0 .. Len(ss) : fl[n] \in Seq(S)
  <2> TAKE n \in 0 .. Len(ss)
  <2>1. SubSeq(ss, 1, n) \in Seq(Seq(S)) BY SubSeqProperties
  <2> QED BY <2>1, FlattenType
<1>1. ss[i] \in Seq(S) /\ i \in Nat /\ x \in Nat /\ i - 1 \in 0 .. Len(ss) OBVIOUS
<1>2. ASSUME NEW n \in 1 .. Len(ss) PROVE fl[n] = fl[n - 1] \o ss[n]
  <2>1. n \in 0 .. Len(ss) /\ n - 1 \in 0 .. Len(ss) OBVIOUS
  <2>2. fl[n] = FlattenSeq(SubSeq(ss, 1, n)) /\ fl[n - 1] = FlattenSeq(SubSeq(ss, 1, n - 1))
    BY <2>1, Zenon
  <2> QED BY <2>2, FlattenOneMore
<1>5. /\ Len(ss) \in i .. Len(ss) /\ fl[Len(ss)] = FlattenSeq(ss)
      /\ fl[i - 1] = FlattenSeq(SubSeq(ss, 1, i - 1))
  <2>1. Len(ss) \in 0 .. Len(ss) /\ SubSeq(ss, 1, Len(ss)) = ss OBVIOUS
  <2>2. fl[Len(ss)] = FlattenSeq(SubSeq(ss, 1, Len(ss))) BY <2>1, Zenon
  <2>3. fl[i - 1] = FlattenSeq(SubSeq(ss, 1, i - 1)) BY <1>1, Zenon
  <2>4. Len(ss) \in i .. Len(ss) BY <1>1
  <2>5. fl[Len(ss)] = FlattenSeq(ss) BY <2>1, <2>2
  <2> QED BY <2>3, <2>4, <2>5
<1> HIDE DEF fl
<1>4. T = {}
  <2> SUFFICES ASSUME T # {} PROVE FALSE OBVIOUS
  <2>1. PICK n \in T : \A m \in T : n <= m
    <3>1. T \subseteq Nat OBVIOUS
    <3> QED BY <3>1, NatMin
  <2>2. n \in 1 .. Len(ss) /\ n - 1 \in 0 .. Len(ss) /\ ~ (n <= n - 1) /\ i <= n OBVIOUS
  <2>3. /\ fl[n] = fl[n - 1] \o ss[n] /\ fl[n - 1] \in Seq(S) /\ ss[n] \in Seq(S)
    <3>1. fl[n] = fl[n - 1] \o ss[n] BY <1>2, <2>2
    <3>2. fl[n - 1] \in Seq(S) BY <1>0, <2>2
    <3> QED BY <2>2, <3>1, <3>2
  <2>4. /\ \A y \in 1 .. Len(fl[n - 1]) : y \in 1 .. Len(fl[n]) /\ fl[n][y] = fl[n - 1][y]
        /\ \A y \in 1 .. Len(ss[n]) : /\ Len(fl[n - 1]) + y \in 1 .. Len(fl[n])
                                      /\ fl[n][Len(fl[n - 1]) + y] = ss[n][y]
    <3>1. PICK a, b, c : a = fl[n - 1] /\ b = ss[n] /\ c = fl[n] OBVIOUS
    <3>2. a \in Seq(S) /\ b \in Seq(S) /\ c = a \o b BY <2>3, <3>1
    <3>3. /\ \A y \in 1 .. Len(a) : y \in 1 .. Len(c) /\ c[y] = a[y]
          /\ \A y \in 1 .. Len(b) : Len(a) + y \in 1 .. Len(c) /\ c[Len(a) + y] = b[y]
      BY ONLY <3>2, ConcatAt
    <3> QED BY <3>1, <3>3
  <2>6. CASE n = i BY <2>4, <2>6
  <2>7. CASE n # i
    <3>1. n - 1 \in i .. Len(ss) BY <2>2, <2>7
    <3>2. at \in 1 .. Len(fl[n - 1]) /\ fl[n - 1][at] = ss[i][x] BY <2>1, <2>2, <3>1
    <3> QED BY <2>4, <3>2
  <2> QED BY <2>6, <2>7
<1>6. at \in 1 .. Len(fl[Len(ss)]) /\ fl[Len(ss)][at] = ss[i][x] BY <1>4, <1>5
<1> QED BY <1>5, <1>6

\* A bounded set of numbers has a greatest element, and that is its Max.
LEMMA MaxIn ==
  ASSUME NEW N \in Nat, NEW T, T \subseteq 0 .. N, T # {}
  PROVE  Max(T) \in T
<1> DEFINE U == {N - x : x \in T}
<1>1. U \subseteq Nat
  <2>1. \A x \in T : N - x \in Nat OBVIOUS
  <2> QED BY <2>1
<1>2. PICK u \in U : \A v \in U : u <= v
  <2>1. U # {} OBVIOUS
  <2> HIDE DEF U
  <2> QED BY <1>1, <2>1, NatMin
<1>3. PICK x \in T : u = N - x OBVIOUS
<1>4. \A y \in T : x >= y
  <2> TAKE y \in T
  <2>1. N - y \in U OBVIOUS
  <2>2. x \in Nat /\ y \in Nat OBVIOUS
  <2> QED BY <1>2, <1>3, <2>1, <2>2
<1> QED BY <1>4 DEF Max

\* The lesser of two numbers.
LEMMA MinOfTwo ==
  ASSUME NEW a \in Int, NEW b \in Int
  PROVE  Min({a, b}) = IF a <= b THEN a ELSE b
<1>1. \E x \in {a, b} : \A y \in {a, b} : x <= y OBVIOUS
<1>2. Min({a, b}) \in {a, b} /\ \A y \in {a, b} : Min({a, b}) <= y BY <1>1 DEF Min
<1> QED BY <1>2

\* Multiplication keeps the order.
LEMMA Times ==
  ASSUME NEW a \in Int, NEW b \in Int, NEW c \in Nat, a <= b PROVE c * a <= c * b
OBVIOUS

\* Quotient and remainder make up the number.
LEMMA DivRest ==
  ASSUME NEW n \in Int, NEW d \in Int, d > 0 PROVE n = d * (n \div d) + (n % d)
BY Z3

\* Quotient and remainder of a number that is not negative.
LEMMA DivMod ==
  ASSUME NEW n \in Nat, NEW d \in Nat, d > 0
  PROVE  n \div d \in Nat /\ n % d \in 0 .. d - 1 /\ n = d * (n \div d) + (n % d)
<1>1. n % d \in 0 .. d - 1 OBVIOUS
<1>2. n \div d \in Int OBVIOUS
<1>3. n = d * (n \div d) + (n % d) BY DivRest
<1> DEFINE q == n \div d
           r == n % d
<1> HIDE DEF q, r
<1>4. q >= 0
  <2> SUFFICES ASSUME q <= 0 - 1 PROVE FALSE BY <1>2 DEF q
  <2>1. d * q <= d * (0 - 1) BY <1>2, Times DEF q
  <2>2. q \in Int /\ r \in 0 .. d - 1 /\ n = d * q + r /\ d * q \in Int BY <1>1, <1>2, <1>3 DEF q, r
  <2> QED BY <2>1, <2>2
<1> QED BY <1>1, <1>2, <1>3, <1>4 DEF q

-----------------------------------------------------------------------------

(***************************************************************************)
(* The parts of a batch.                                                   *)
(***************************************************************************)
\* A batch has a part, and every sample lies in one of its parts.
LEMMA LastPart ==
  ASSUME NEW n \in Nat \ {0}, NEW p \in Nat \ {0}
  PROVE  CeilDiv(n, p) \in Nat \ {0} /\ \A s \in 0 .. n - 1 : s \div p + 1 <= CeilDiv(n, p)
<1> DEFINE q == CeilDiv(n, p)
           r == (n + p - 1) % p
<1>1. q \in Nat /\ r \in 0 .. p - 1 /\ n + p - 1 = p * q + r
  <2>1. n + p - 1 \in Nat OBVIOUS
  <2> QED BY <2>1, DivMod DEF CeilDiv
<1> HIDE DEF q, r
<1>2. ASSUME NEW s \in 0 .. n - 1 PROVE s \div p + 1 <= q
  <2> DEFINE a == s \div p
             m == s % p
  <2>1. a \in Nat /\ m \in 0 .. p - 1 /\ s = p * a + m BY DivMod
  <2> HIDE DEF a, m
  <2>2. SUFFICES ASSUME q <= a PROVE FALSE BY <1>1, <2>1 DEF a
  <2>3. p * q <= p * a BY <1>1, <2>1, <2>2, Times
  <2>4. p * q \in Int /\ p * a \in Int BY <1>1, <2>1
  <2> HIDE <2>2
  <2> QED BY <1>1, <2>1, <2>3, <2>4
<1>3. q # 0
  <2>1. 0 \in 0 .. n - 1 /\ 0 \div p \in Nat BY DivMod
  <2> QED BY <1>1, <1>2, <2>1
<1> QED BY <1>1, <1>2, <1>3 DEF q

\* No part of a batch is empty.
LEMMA PartialPositive ==
  ASSUME NEW n \in Nat \ {0}
  PROVE  PartialSize(n) \in Nat \ {0}
<1> DEFINE even == CeilDiv(n, Cardinality(Threads))
<1>1. even \in Nat \ {0}
  <2>1. Cardinality(Threads) \in Nat /\ Cardinality(Threads) # 0
    BY FS_CardinalityType, FS_EmptySet, DemuxAssumption
  <2> QED BY <2>1, LastPart
<1>2. PartialSize(n) = IF even < MinimumSplitSize THEN Min({n, MinimumSplitSize}) ELSE even
  BY DEF PartialSize
<1>3. MinimumSplitSize \in Nat BY DemuxAssumption
<1>4. Min({n, MinimumSplitSize}) = IF n <= MinimumSplitSize THEN n ELSE MinimumSplitSize
  BY <1>3, MinOfTwo
<1> HIDE DEF even
<1> QED BY <1>1, <1>2, <1>3, <1>4

\* How a computation begins.
LEMMA Started ==
  ASSUME NEW planes \in Seq(Samples)
  PROVE  LET c == StartCompute(planes)
         IN  /\ c \in Computation /\ c.planes = planes /\ c.parents = << >>
             /\ c.dataready = c.toQueue /\ c.toQueue = Parts(c)
             /\ planes = << >> => c.at = "done" /\ c.toQueue = 0
             /\ planes # << >> => c.at = "enqueue" /\ c.toQueue > 0 /\ c.partial > 0
<1>1. << >> \in Seq(Part) /\ << >> \in Seq(Samples) OBVIOUS
<1>2. Len(planes) \in Nat /\ (Len(planes) = 0 <=> planes = << >>) OBVIOUS
<1> DEFINE c == StartCompute(planes)
<1>3. CASE planes = << >>
  <2>1. c = [at |-> "done", planes |-> << >>, partial |-> 0, toQueue |-> 0,
             dataready |-> 0, notified |-> FALSE, parents |-> << >>]
    BY <1>2, <1>3 DEF StartCompute, NewComputation
  <2> HIDE DEF c
  <2>2. c \in Computation BY <1>1, <2>1 DEF Computation
  <2>3. Parts(c) = 0 BY <2>1 DEF Parts
  <2> QED BY <1>3, <2>1, <2>2, <2>3 DEF c
<1>4. CASE planes # << >>
  <2> DEFINE p == PartialSize(Len(planes))
             n == CeilDiv(Len(planes), p)
  <2>1. p \in Nat \ {0} BY <1>2, <1>4, PartialPositive
  <2>2. n \in Nat \ {0} BY <1>2, <1>4, <2>1, LastPart
  <2>3. c = [at |-> "enqueue", planes |-> planes, partial |-> p, toQueue |-> n,
             dataready |-> n, notified |-> FALSE, parents |-> << >>]
    BY <1>2, <1>4 DEF StartCompute, NewComputation
  <2>4. n = CeilDiv(Len(planes), p) OBVIOUS
  <2> HIDE DEF c, p, n
  <2>5. c \in Computation BY <1>1, <2>1, <2>2, <2>3 DEF Computation
  <2>6. Parts(c) = n BY <1>4, <2>3, <2>4 DEF Parts
  <2> QED BY <1>4, <2>1, <2>2, <2>3, <2>5, <2>6 DEF c
<1> QED BY <1>3, <1>4

(***************************************************************************)
(* Counting.                                                               *)
(***************************************************************************)
\* How often something occurs in a sequence.
LEMMA OccursType ==
  ASSUME NEW S, NEW q \in Seq(S), NEW k
  PROVE  /\ IsFiniteSet({i \in 1 .. Len(q) : q[i] = k}) /\ Occurs(q, k) \in Nat
         /\ Occurs(q, k) = 0 => \A i \in 1 .. Len(q) : q[i] # k
<1>1. IsFiniteSet(1 .. Len(q)) BY FS_Interval
<1>2. IsFiniteSet({i \in 1 .. Len(q) : q[i] = k}) BY <1>1, FS_Subset
<1> DEFINE I == {i \in 1 .. Len(q) : q[i] = k}
<1>3. Occurs(q, k) \in Nat /\ (Occurs(q, k) = 0 => I = {})
  <2> HIDE DEF I
  <2>1. Cardinality(I) \in Nat /\ (Cardinality(I) = 0 => I = {})
    BY <1>2, FS_CardinalityType, FS_EmptySet DEF I
  <2> QED BY <2>1 DEF Occurs, I
<1>4. I = {} => \A i \in 1 .. Len(q) : q[i] # k OBVIOUS
<1> QED BY <1>2, <1>3, <1>4

\* One more at the end.
LEMMA OccursAppend ==
  ASSUME NEW S, NEW q \in Seq(S), NEW e \in S, NEW k
  PROVE  Occurs(Append(q, e), k) = Occurs(q, k) + IF e = k THEN 1 ELSE 0
<1> DEFINE I == {i \in 1 .. Len(q) : q[i] = k}
           J == {i \in 1 .. Len(Append(q, e)) : Append(q, e)[i] = k}
<1>1. IsFiniteSet(I) BY OccursType
<1>2. J = IF e = k THEN I \cup {Len(q) + 1} ELSE I OBVIOUS
<1>3. Len(q) + 1 \notin I OBVIOUS
<1>4. Occurs(q, k) = Cardinality(I) /\ Occurs(Append(q, e), k) = Cardinality(J) BY DEF Occurs
<1> HIDE DEF I, J
<1>5. Cardinality(I) \in Nat /\ Cardinality(I \cup {Len(q) + 1}) = Cardinality(I) + 1
  BY <1>1, <1>3, FS_AddElement, FS_CardinalityType
<1> QED BY <1>2, <1>4, <1>5

\* One less at the front.
LEMMA OccursTail ==
  ASSUME NEW S, NEW q \in Seq(S), q # << >>, NEW k
  PROVE  Occurs(q, k) = Occurs(Tail(q), k) + IF Head(q) = k THEN 1 ELSE 0
<1> DEFINE I == {i \in 1 .. Len(q) : q[i] = k}
           J == {i \in 2 .. Len(q) : q[i] = k}
           K == {i \in 1 .. Len(Tail(q)) : Tail(q)[i] = k}
           f == [i \in K |-> i + 1]
<1>1. Tail(q) \in Seq(S) /\ Len(Tail(q)) = Len(q) - 1 /\ (\A i \in 1 .. Len(q) - 1 : Tail(q)[i] = q[i + 1])
  OBVIOUS
<1>2. IsFiniteSet(K)
  <2>1. IsFiniteSet(1 .. Len(Tail(q))) BY <1>1, FS_Interval
  <2> QED BY <2>1, FS_Subset
<1>3. ExistsBijection(K, J)
  <2>1. f \in [K -> J] BY <1>1
  <2>2. \A i, j \in K : f[i] = f[j] => i = j OBVIOUS
  <2>3. \A j \in J : \E i \in K : f[i] = j
    <3> TAKE j \in J
    <3>1. j - 1 \in K BY <1>1
    <3>2. f[j - 1] = j BY <3>1
    <3> QED BY <3>1, <3>2
  <2> HIDE DEF K, J, f
  <2> QED BY <2>1, <2>2, <2>3 DEF ExistsBijection, Bijection, Injection, Surjection, IsInjective
<1>7. Occurs(q, k) = Cardinality(I) /\ Occurs(Tail(q), k) = Cardinality(K) BY DEF Occurs
<1>5. I = IF Head(q) = k THEN J \cup {1} ELSE J OBVIOUS
<1>6. 1 \notin J OBVIOUS
<1> HIDE DEF I, J, K
<1>4. IsFiniteSet(J) /\ Cardinality(J) = Cardinality(K) BY <1>2, <1>3, FS_Bijection
<1>8. Cardinality(J) \in Nat /\ Cardinality(J \cup {1}) = Cardinality(J) + 1
  BY <1>4, <1>6, FS_AddElement, FS_CardinalityType
<1> QED BY <1>4, <1>5, <1>7, <1>8

\* The counts of CountInv are numbers.
LEMMA Counts ==
  ASSUME DemuxTypeOK, NEW k
  PROVE  /\ IsFiniteSet(Busy(k)) /\ Cardinality(Busy(k)) \in Nat
         /\ IsFiniteSet(Adding(k)) /\ Cardinality(Adding(k)) \in Nat
         /\ Cardinality(Busy(k)) = 0 => Busy(k) = {}
         /\ Cardinality(Adding(k)) <= Cardinality(Busy(k))
         /\ Occurs(queue, k) \in Nat
<1>1. Busy(k) \subseteq Threads /\ Adding(k) \subseteq Busy(k) BY DEF Busy, Adding
<1>2. IsFiniteSet(Busy(k)) BY <1>1, FS_Subset, DemuxAssumption
<1>3. IsFiniteSet(Adding(k)) /\ Cardinality(Adding(k)) <= Cardinality(Busy(k))
  BY <1>1, <1>2, FS_Subset
<1>4. Occurs(queue, k) \in Nat BY OccursType DEF DemuxTypeOK
<1> QED BY <1>2, <1>3, <1>4, FS_CardinalityType, FS_EmptySet

\* An idle computation has no part on the queue or with a worker.
LEMMA IdleUnused ==
  ASSUME DemuxTypeOK, DemuxInv, NEW k \in Computations, Idle(comp[k])
  PROVE  /\ comp[k].toQueue = 0 /\ Occurs(queue, k) = 0
         /\ Busy(k) = {} /\ Adding(k) = {}
         /\ \A i \in 1 .. Len(queue) : queue[i] # k
         /\ \A t \in Threads : worker[t].comp # k
<1>1. comp[k].toQueue \in Nat /\ comp[k].dataready = 0
  BY DEF DemuxTypeOK, Computation, Idle
<1>2. comp[k].dataready = comp[k].toQueue + Occurs(queue, k) + Cardinality(Busy(k))
  BY DEF DemuxInv, CountInv
<1>3. Occurs(queue, k) = 0 /\ comp[k].toQueue = 0 /\ Cardinality(Busy(k)) = 0
  BY <1>1, <1>2, Counts
<1>4. Busy(k) = {} BY <1>3, Counts
<1>5. \A i \in 1 .. Len(queue) : queue[i] # k BY <1>3, OccursType DEF DemuxTypeOK
<1>6. Adding(k) = {} /\ \A t \in Threads : worker[t].comp # k
  BY <1>4 DEF Busy, Adding
<1> QED BY <1>3, <1>4, <1>5, <1>6

(***************************************************************************)
(* What a step does to the parts of the computations.                      *)
(***************************************************************************)
\* The counts depend on the queue and the workers only.
LEMMA CountsStay ==
  ASSUME UNCHANGED <<queue, worker>>, NEW k
  PROVE  /\ Occurs(queue, k)' = Occurs(queue, k)
         /\ Busy(k)' = Busy(k) /\ Adding(k)' = Adding(k)
BY DEF Occurs, Busy, Adding

\* A computation nobody uses begins.
LEMMA DemuxStart ==
  ASSUME DemuxTypeOK, DemuxInv, NEW k0 \in Computations, comp[k0] = NewComputation,
         NEW planes \in Seq(Samples), comp' = [comp EXCEPT ![k0] = StartCompute(planes)],
         UNCHANGED <<queue, abort, worker, sleeping, owner>>
  PROVE  DemuxTypeOK' /\ DemuxInv'
<1> DEFINE c == StartCompute(planes)
<1>1. /\ c \in Computation /\ c.planes = planes /\ c.parents = << >>
      /\ c.dataready = c.toQueue /\ c.toQueue = Parts(c)
      /\ planes = << >> => c.at = "done" /\ c.toQueue = 0
      /\ planes # << >> => c.at = "enqueue" /\ c.toQueue > 0 /\ c.partial > 0
  BY Started
<1>2. comp' = [comp EXCEPT ![k0] = c] OBVIOUS
<1> HIDE DEF c
<1>3. comp'[k0] = c /\ \A k \in Computations : k # k0 => comp'[k] = comp[k]
  BY <1>2 DEF DemuxTypeOK
<1>4. DemuxTypeOK' BY <1>1, <1>2 DEF DemuxTypeOK
<1>5. /\ Occurs(queue, k0) = 0 /\ Busy(k0) = {} /\ Adding(k0) = {}
      /\ \A t \in Threads : worker[t].comp # k0
  <2>1. Idle(comp[k0]) BY DEF Idle, NewComputation
  <2> QED BY <2>1, IdleUnused
<1>6. ShapeInv'
  <2>1. Shaped(c) BY <1>1 DEF Shaped, Computation
  <2> QED BY <1>3, <2>1 DEF DemuxInv, ShapeInv
<1>7. CountInv'
  <2> SUFFICES ASSUME NEW k \in Computations
               PROVE  LET waiting == comp'[k].toQueue + Occurs(queue, k)
                          added == Cardinality(Adding(k)) + Len(comp'[k].parents)
                      IN  /\ comp'[k].dataready = waiting + Cardinality(Busy(k))
                          /\ waiting + added <= Parts(comp'[k])
                          /\ ~abort => waiting + added = Parts(comp'[k])
    BY CountsStay DEF CountInv
  <2>1. CASE k = k0
    <3>1. Cardinality(Busy(k0)) = 0 /\ Cardinality(Adding(k0)) = 0 BY <1>5, FS_EmptySet
    <3>2. Len(c.parents) = 0 /\ c.toQueue \in Nat BY <1>1 DEF Computation
    <3>3. /\ c.dataready = c.toQueue + 0 + 0 /\ c.toQueue + 0 + (0 + 0) = Parts(c)
          /\ c.toQueue + 0 + (0 + 0) <= Parts(c)
      BY <1>1, <3>2
    <3> QED BY <1>3, <1>5, <2>1, <3>1, <3>2, <3>3
  <2>2. CASE k # k0 BY <1>3, <2>2 DEF DemuxInv, CountInv
  <2> QED BY <2>1, <2>2
<1>8. PartInv'
  <2>1. HoldsPieces(c) BY <1>1 DEF HoldsPieces
  <2> QED BY <1>3, <2>1 DEF DemuxInv, PartInv
<1>9. WorkerInv' BY <1>1, <1>3, <1>5 DEF DemuxInv, WorkerInv, DemuxTypeOK, WorkerState
<1> QED BY <1>4, <1>6, <1>7, <1>8, <1>9 DEF DemuxInv

\* What an idle computation held is dropped.
LEMMA DemuxRelease ==
  ASSUME DemuxTypeOK, DemuxInv, comp' \in [Computations -> Computation],
         \A k \in Computations :
            comp'[k] = comp[k] \/ (Idle(comp[k]) /\ comp'[k] = NewComputation),
         UNCHANGED <<queue, abort, worker, sleeping, owner>>
  PROVE  DemuxTypeOK' /\ DemuxInv'
<1>1. DemuxTypeOK' BY DEF DemuxTypeOK
<1>2. ShapeInv'
  <2>1. Shaped(NewComputation) BY DEF Shaped, NewComputation
  <2> QED BY <2>1 DEF DemuxInv, ShapeInv
<1>3. \A k \in Computations : comp'[k] # comp[k] =>
         /\ Occurs(queue, k) = 0 /\ Busy(k) = {} /\ Adding(k) = {}
         /\ \A t \in Threads : worker[t].comp # k
  BY IdleUnused
<1>4. CountInv'
  <2> SUFFICES ASSUME NEW k \in Computations
               PROVE  LET waiting == comp'[k].toQueue + Occurs(queue, k)
                          added == Cardinality(Adding(k)) + Len(comp'[k].parents)
                      IN  /\ comp'[k].dataready = waiting + Cardinality(Busy(k))
                          /\ waiting + added <= Parts(comp'[k])
                          /\ ~abort => waiting + added = Parts(comp'[k])
    BY CountsStay DEF CountInv
  <2>1. CASE comp'[k] = comp[k] BY <2>1 DEF DemuxInv, CountInv
  <2>2. CASE comp'[k] # comp[k]
    <3>1. Cardinality(Busy(k)) = 0 /\ Cardinality(Adding(k)) = 0
      BY <1>3, <2>2, FS_EmptySet
    <3>2. Parts(NewComputation) = 0 BY DEF NewComputation, Parts
    <3>3. Len(NewComputation.parents) = 0 /\ NewComputation.toQueue = 0
          /\ NewComputation.dataready = 0
      BY DEF NewComputation
    <3> QED BY <1>3, <2>2, <3>1, <3>2, <3>3
  <2> QED BY <2>1, <2>2
<1>5. PartInv'
  <2>1. HoldsPieces(NewComputation) BY DEF HoldsPieces, NewComputation
  <2> QED BY <2>1 DEF DemuxInv, PartInv
<1>6. WorkerInv'
  <2>1. \A k \in Computations : comp'[k] # comp[k] => comp'[k].parents = << >>
    BY DEF NewComputation
  <2> QED BY <1>3, <2>1 DEF DemuxInv, WorkerInv, DemuxTypeOK, WorkerState
<1> QED BY <1>1, <1>2, <1>4, <1>5, <1>6 DEF DemuxInv

\* The steps of the network below keep the planes of every computation, and
\* do not touch an idle one.
Kept ==
    \A k \in Computations :
        comp'[k].planes = comp[k].planes /\ (Idle(comp[k]) => comp'[k] = comp[k])

\* A part is put on the queue.
LEMMA EnqueueStep ==
  ASSUME DemuxTypeOK, DemuxInv, NEW k0 \in Computations, Enqueue(k0)
  PROVE  DemuxTypeOK' /\ DemuxInv' /\ Kept
<1> DEFINE c == [comp[k0] EXCEPT !.toQueue = @ - 1,
                     !.at = IF comp[k0].toQueue = 1 THEN "wait" ELSE @]
<1>1. /\ queue' = Append(queue, k0) /\ comp' = [comp EXCEPT ![k0] = c]
      /\ UNCHANGED <<abort, worker, owner>> /\ sleeping' \subseteq sleeping
      /\ comp[k0].at = "enqueue"
  BY DEF Enqueue, NotifyOne, DemuxTypeOK
<1>2. /\ comp[k0] \in Computation /\ Shaped(comp[k0]) /\ HoldsPieces(comp[k0])
      /\ comp[k0].toQueue \in Nat /\ comp[k0].toQueue > 0
  BY <1>1 DEF DemuxTypeOK, DemuxInv, ShapeInv, PartInv, Shaped, Computation
<1>3. /\ c.at = IF comp[k0].toQueue = 1 THEN "wait" ELSE "enqueue"
      /\ c.planes = comp[k0].planes /\ c.partial = comp[k0].partial
      /\ c.toQueue = comp[k0].toQueue - 1 /\ c.dataready = comp[k0].dataready
      /\ c.parents = comp[k0].parents
  BY <1>1, <1>2 DEF Computation
<1>4. c \in Computation
  <2>1. comp[k0].toQueue - 1 \in Nat BY <1>2
  <2> QED BY <1>1, <1>2, <2>1 DEF Computation
<1> HIDE DEF c
<1>5. comp'[k0] = c /\ \A k \in Computations : k # k0 => comp'[k] = comp[k]
  BY <1>1 DEF DemuxTypeOK
<1>6. DemuxTypeOK' BY <1>1, <1>4 DEF DemuxTypeOK
<1>7. ShapeInv'
  <2>1. Shaped(c) BY <1>1, <1>2, <1>3 DEF Shaped
  <2> QED BY <1>5, <2>1 DEF DemuxInv, ShapeInv
<1>8. PartInv'
  <2>1. HoldsPieces(c) BY <1>2, <1>3 DEF HoldsPieces
  <2> QED BY <1>5, <2>1 DEF DemuxInv, PartInv
<1>9. CountInv'
  <2> SUFFICES ASSUME NEW k \in Computations
               PROVE  LET waiting == comp'[k].toQueue + Occurs(queue', k)
                          added == Cardinality(Adding(k)) + Len(comp'[k].parents)
                      IN  /\ comp'[k].dataready = waiting + Cardinality(Busy(k))
                          /\ waiting + added <= Parts(comp'[k])
                          /\ ~abort => waiting + added = Parts(comp'[k])
    <3>1. \A k \in Computations : Busy(k)' = Busy(k) /\ Adding(k)' = Adding(k)
          /\ Occurs(queue, k)' = Occurs(queue', k)
      BY <1>1 DEF Busy, Adding, Occurs
    <3> QED BY <1>1, <3>1 DEF CountInv
  <2>1. Occurs(queue', k) = Occurs(queue, k) + IF k0 = k THEN 1 ELSE 0
    BY <1>1, OccursAppend DEF DemuxTypeOK
  <2>2. CASE k = k0
    <3>1. comp'[k].toQueue + Occurs(queue', k) = comp[k].toQueue + Occurs(queue, k)
      BY <1>2, <1>3, <1>5, <2>1, <2>2, Counts
    <3>2. Parts(comp'[k]) = Parts(comp[k]) BY <1>3, <1>5, <2>2 DEF Parts
    <3>3. comp'[k].parents = comp[k].parents /\ comp'[k].dataready = comp[k].dataready
      BY <1>3, <1>5, <2>2
    <3> QED BY <3>1, <3>2, <3>3 DEF DemuxInv, CountInv
  <2>3. CASE k # k0
    <3>1. Occurs(queue', k) = Occurs(queue, k) BY <2>1, <2>3, Counts
    <3> QED BY <1>5, <2>3, <3>1 DEF DemuxInv, CountInv
  <2> QED BY <2>2, <2>3
<1>10. WorkerInv'
  <2>1. \A k \in Computations : comp'[k].parents = comp[k].parents BY <1>3, <1>5
  <2> QED BY <1>1, <2>1 DEF DemuxInv, WorkerInv, DemuxTypeOK, WorkerState
<1>11. Kept BY <1>1, <1>3, <1>5 DEF Kept, Idle
<1> QED BY <1>6, <1>7, <1>8, <1>9, <1>10, <1>11 DEF DemuxInv

\* Only what one of the workers has at hand changes, and nothing it holds.
LEMMA PlaceStep ==
  ASSUME DemuxTypeOK, DemuxInv, NEW t \in Threads,
         NEW place \in {"lock", "asleep", "drain", "exited"}, Goto(t, place),
         worker[t].at \in {"lock", "asleep", "drain"},
         sleeping' \subseteq Threads, UNCHANGED <<comp, queue, abort, owner>>
  PROVE  DemuxTypeOK' /\ DemuxInv' /\ Kept
<1>1. /\ worker'[t].at = place /\ worker'[t].comp = worker[t].comp
      /\ worker'[t].part = worker[t].part
      /\ \A u \in Threads : u # t => worker'[u] = worker[u]
  BY DEF Goto, DemuxTypeOK, WorkerState
<1>2. DemuxTypeOK'
  <2>1. [worker[t] EXCEPT !.at = place] \in WorkerState BY DEF DemuxTypeOK, WorkerState
  <2>2. worker' \in [Threads -> WorkerState] BY <2>1 DEF Goto, DemuxTypeOK
  <2> QED BY <2>2 DEF DemuxTypeOK
<1>3. \A k \in Computations : Busy(k)' = Busy(k) /\ Adding(k)' = Adding(k)
  BY <1>1 DEF Busy, Adding
<1>4. CountInv'
  <2>1. \A k \in Computations : Occurs(queue, k)' = Occurs(queue, k) BY DEF Occurs
  <2> QED BY <1>3, <2>1 DEF DemuxInv, CountInv
<1>5. ShapeInv' /\ PartInv' BY DEF DemuxInv, ShapeInv, PartInv
<1>6. WorkerInv'
  <2>1. \A u \in Threads :
           /\ worker'[u].at \in {"add", "compute"} <=> worker'[u].comp # NoComputation
           /\ worker'[u].at = "compute" => worker'[u] = worker[u]
    BY <1>1 DEF DemuxInv, WorkerInv
  <2>2. \A u \in Threads : worker[u].at = "compute" => worker'[u] = worker[u]
    BY <1>1
  <2> QED BY <2>1, <2>2 DEF DemuxInv, WorkerInv
<1> QED BY <1>2, <1>4, <1>5, <1>6 DEF DemuxInv, Kept

\* A worker takes a part from the queue.
LEMMA TakeStep ==
  ASSUME DemuxTypeOK, DemuxInv, NEW t \in Threads, TakePart(t)
  PROVE  DemuxTypeOK' /\ DemuxInv' /\ Kept
<1>1. CASE queue = << >>
  <2>1. Goto(t, "lock") /\ UNCHANGED queue BY <1>1 DEF TakePart
  <2> QED BY <2>1, PlaceStep DEF TakePart, DemuxTypeOK
<1>2. CASE queue # << >>
  <2> DEFINE k0 == Head(queue)
  <2>1. /\ worker[t].at = "drain"
        /\ worker' = [worker EXCEPT ![t].at = "add", ![t].comp = k0]
        /\ queue' = Tail(queue) /\ UNCHANGED <<comp, abort, sleeping, owner>>
    BY <1>2 DEF TakePart
  <2>2. k0 \in Computations /\ queue' \in Seq(Computations) BY <1>2, <2>1 DEF DemuxTypeOK
  <2>3. /\ worker'[t].at = "add" /\ worker'[t].comp = k0
        /\ \A u \in Threads : u # t => worker'[u] = worker[u]
    BY <2>1 DEF DemuxTypeOK, WorkerState
  <2>4. worker[t].comp = NoComputation BY <2>1 DEF DemuxInv, WorkerInv
  <2>5. k0 # NoComputation BY <2>2, DemuxAssumption
  <2>6. DemuxTypeOK'
    <3>1. [worker[t] EXCEPT !.at = "add", !.comp = k0] \in WorkerState
      BY <2>2 DEF DemuxTypeOK, WorkerState
    <3>2. worker' = [worker EXCEPT ![t] = [worker[t] EXCEPT !.at = "add", !.comp = k0]]
      BY <2>1 DEF DemuxTypeOK, WorkerState
    <3>3. worker' \in [Threads -> WorkerState] BY <3>1, <3>2 DEF DemuxTypeOK
    <3> QED BY <2>1, <2>2, <3>3 DEF DemuxTypeOK
  <2>7. ASSUME NEW k \in Computations
        PROVE  /\ Occurs(queue, k) = Occurs(queue', k) + IF k = k0 THEN 1 ELSE 0
               /\ Occurs(queue', k) \in Nat
               /\ Cardinality(Busy(k)') = Cardinality(Busy(k)) + IF k = k0 THEN 1 ELSE 0
               /\ Cardinality(Adding(k)') = Cardinality(Adding(k)) + IF k = k0 THEN 1 ELSE 0
    <3>1. Occurs(queue, k) = Occurs(queue', k) + IF k = k0 THEN 1 ELSE 0
      BY <1>2, <2>1, OccursTail DEF DemuxTypeOK
    <3>2. Occurs(queue', k) \in Nat BY <2>2, OccursType
    <3>3. t \notin Busy(k) /\ t \notin Adding(k) BY <2>4, DemuxAssumption DEF Busy, Adding
    <3> HIDE DEF k0
    <3>4. /\ Busy(k)' = IF k = k0 THEN Busy(k) \cup {t} ELSE Busy(k)
          /\ Adding(k)' = IF k = k0 THEN Adding(k) \cup {t} ELSE Adding(k)
      BY <2>3, <3>3 DEF Busy, Adding
    <3>5. /\ Cardinality(Busy(k) \cup {t}) = Cardinality(Busy(k)) + 1
          /\ Cardinality(Adding(k) \cup {t}) = Cardinality(Adding(k)) + 1
      BY <3>3, Counts, FS_AddElement
    <3>6. Cardinality(Busy(k)) \in Nat /\ Cardinality(Adding(k)) \in Nat BY Counts
    <3> QED BY <3>1, <3>2, <3>4, <3>5, <3>6
  <2> HIDE DEF k0
  <2>8. CountInv'
    <3> SUFFICES ASSUME NEW k \in Computations
                 PROVE  LET waiting == comp[k].toQueue + Occurs(queue', k)
                            added == Cardinality(Adding(k)') + Len(comp[k].parents)
                        IN  /\ comp[k].dataready = waiting + Cardinality(Busy(k)')
                            /\ waiting + added <= Parts(comp[k])
                            /\ ~abort => waiting + added = Parts(comp[k])
      <4>1. \A k \in Computations : Occurs(queue, k)' = Occurs(queue', k) BY DEF Occurs
      <4> QED BY <2>1, <4>1 DEF CountInv
    <3> DEFINE d == IF k = k0 THEN 1 ELSE 0
               x == comp[k].toQueue
               l == Len(comp[k].parents)
               o == Occurs(queue', k)
               b == Cardinality(Busy(k))
               a == Cardinality(Adding(k))
    <3>1. /\ Occurs(queue, k) = o + d /\ Cardinality(Busy(k)') = b + d
          /\ Cardinality(Adding(k)') = a + d /\ o \in Nat
      BY <2>7
    <3>2. x \in Nat /\ l \in Nat /\ d \in Nat /\ b \in Nat /\ a \in Nat
      BY Counts DEF DemuxTypeOK, Computation
    <3>3. /\ comp[k].dataready = x + Occurs(queue, k) + b
          /\ x + Occurs(queue, k) + (a + l) <= Parts(comp[k])
          /\ ~abort => x + Occurs(queue, k) + (a + l) = Parts(comp[k])
      BY DEF DemuxInv, CountInv
    <3> HIDE DEF d, x, l, o, b, a
    <3>4. x + (o + d) + b = x + o + (b + d) /\ x + (o + d) + (a + l) = x + o + ((a + d) + l)
      BY <3>1, <3>2
    <3>5. /\ comp[k].dataready = x + o + Cardinality(Busy(k)')
          /\ x + o + (Cardinality(Adding(k)') + l) <= Parts(comp[k])
          /\ ~abort => x + o + (Cardinality(Adding(k)') + l) = Parts(comp[k])
      BY <3>1, <3>3, <3>4, Zenon
    <3> QED BY <3>5 DEF x, l, o
  <2>9. ShapeInv' /\ PartInv' BY <2>1 DEF DemuxInv, ShapeInv, PartInv
  <2>10. WorkerInv'
    <3>1. \A u \in Threads : worker[u].at = "compute" => u # t BY <2>1
    <3>2. \A u \in Threads :
             /\ worker'[u].at \in {"add", "compute"} <=> worker'[u].comp # NoComputation
             /\ worker'[u].at = "compute" => worker'[u] = worker[u]
      BY <2>3, <2>5 DEF DemuxInv, WorkerInv
    <3>3. \A u \in Threads : worker[u].at = "compute" => worker'[u] = worker[u]
      BY <2>3, <3>1
    <3>4. comp' = comp BY <2>1
    <3> QED BY <3>2, <3>3, <3>4 DEF DemuxInv, WorkerInv
  <2> QED BY <2>1, <2>6, <2>8, <2>9, <2>10 DEF DemuxInv, Kept
<1> QED BY <1>1, <1>2

\* Who holds a part of a computation holds one of a computation that has begun
\* and is not idle.
LEMMA HeldPart ==
  ASSUME DemuxTypeOK, DemuxInv, NEW t \in Threads, worker[t].at \in {"add", "compute"}
  PROVE  LET k == worker[t].comp
         IN  /\ k \in Computations /\ t \in Busy(k) /\ comp[k].dataready > 0
             /\ comp[k].planes # << >> /\ comp[k].partial > 0 /\ ~Idle(comp[k])
<1> DEFINE k == worker[t].comp
<1>1. k \in Computations /\ t \in Busy(k)
  BY DEF DemuxInv, WorkerInv, DemuxTypeOK, WorkerState, Busy
<1> HIDE DEF k
<1>2. Cardinality(Busy(k)) \in Nat \ {0} BY <1>1, Counts
<1>3. comp[k].dataready > 0
  <2>1. comp[k].dataready = comp[k].toQueue + Occurs(queue, k) + Cardinality(Busy(k))
    BY <1>1 DEF DemuxInv, CountInv
  <2>2. comp[k].toQueue \in Nat /\ Occurs(queue, k) \in Nat
    BY <1>1, Counts DEF DemuxTypeOK, Computation
  <2> QED BY <1>2, <2>1, <2>2
<1>4. comp[k].planes # << >> /\ comp[k].partial > 0
  <2>1. comp[k] \in Computation BY <1>1 DEF DemuxTypeOK
  <2>2. Shaped(comp[k]) BY <1>1 DEF DemuxInv, ShapeInv
  <2>3. comp[k].at \in {"new", "enqueue", "wait", "done"} /\ comp[k].dataready # 0
    BY <1>3, <2>1 DEF Computation
  <2> QED BY <2>2, <2>3 DEF Shaped
<1> QED BY <1>1, <1>3, <1>4 DEF k, Idle

\* A worker takes the next piece of the planes of a computation.
LEMMA AddStep ==
  ASSUME DemuxTypeOK, DemuxInv, NEW t \in Threads, NEW k0, k0 = worker[t].comp, AddParent(t)
  PROVE  DemuxTypeOK' /\ DemuxInv' /\ Kept
<1> DEFINE n == Len(comp[k0].parents)
           p == comp[k0].partial
           first == n * p + 1
           last == Min({Len(comp[k0].planes), first + p - 1})
           part == [inputs |-> SubSeq(comp[k0].planes, first, last), computed |-> FALSE]
           c == [comp[k0] EXCEPT !.parents = Append(@, part)]
<1>1. /\ worker[t].at = "add" /\ comp' = [comp EXCEPT ![k0] = c]
      /\ worker' = [worker EXCEPT ![t].at = "compute", ![t].part = n + 1]
      /\ UNCHANGED <<queue, abort, sleeping, owner>>
  BY DEF AddParent
<1>2. /\ k0 \in Computations /\ t \in Busy(k0) /\ ~Idle(comp[k0])
      /\ comp[k0].planes # << >> /\ p > 0
  BY <1>1, HeldPart
<1>3. /\ comp[k0] \in Computation /\ comp[k0].planes \in Seq(Samples)
      /\ comp[k0].parents \in Seq(Part) /\ p \in Nat \ {0} /\ n \in Nat
  BY <1>2 DEF DemuxTypeOK, Computation
<1> HIDE DEF p, n
<1>4. n * p \in Nat BY <1>3
<1> DEFINE m == n * p
<1>5. first = m + 1 /\ m \in Nat BY <1>4
<1> HIDE DEF m, first
<1>6. /\ last = IF Len(comp[k0].planes) <= m + p THEN Len(comp[k0].planes) ELSE m + p
      /\ last \in 0 .. Len(comp[k0].planes)
  <2>1. Len(comp[k0].planes) \in Nat /\ first + p - 1 = m + p BY <1>3, <1>5
  <2>2. last = IF Len(comp[k0].planes) <= m + p THEN Len(comp[k0].planes) ELSE m + p
    <3> DEFINE a == Len(comp[k0].planes)
               b == first + p - 1
    <3>1. a \in Int /\ b \in Int /\ b = m + p BY <1>3, <1>5, <2>1
    <3>2. last = Min({a, b}) OBVIOUS
    <3> HIDE DEF a, b, last
    <3>3. last = IF a <= b THEN a ELSE b BY <3>1, <3>2, MinOfTwo
    <3> QED BY <3>1, <3>3 DEF a
  <2> HIDE DEF last
  <2> QED BY <1>3, <1>5, <2>1, <2>2
<1> HIDE DEF last
<1>7. /\ SubSeq(comp[k0].planes, first, last) \in Seq(Samples)
      /\ \A x \in 1 .. p : m + x <= Len(comp[k0].planes) =>
            /\ x <= Len(SubSeq(comp[k0].planes, first, last))
            /\ SubSeq(comp[k0].planes, first, last)[x] = comp[k0].planes[m + x]
  <2> DEFINE q == comp[k0].planes
  <2>1. q \in Seq(Samples) /\ m \in Nat /\ p \in Nat BY <1>3, <1>5
  <2>2. last = (IF Len(q) <= m + p THEN Len(q) ELSE m + p) /\ first = m + 1 BY <1>5, <1>6
  <2> HIDE DEF q
  <2>3. Len(q) \in Nat BY <2>1
  <2>4. SubSeq(q, first, last) \in Seq(Samples) BY <2>1, <2>2, <2>3
  <2>5. ASSUME NEW x \in 1 .. p, m + x <= Len(q)
        PROVE  x <= Len(SubSeq(q, first, last)) /\ SubSeq(q, first, last)[x] = q[m + x]
    <3>1. first \in Int /\ last \in Int /\ \A i \in first .. last : q[i] \in Samples
      BY <2>1, <2>2, <2>3
    <3>2. /\ Len(SubSeq(q, first, last)) = IF first <= last THEN last - first + 1 ELSE 0
          /\ \A i \in 1 .. last - first + 1 : SubSeq(q, first, last)[i] = q[first + i - 1]
      BY <3>1, SubSeqProperties
    <3>3. first <= last /\ x \in 1 .. last - first + 1 /\ first + x - 1 = m + x
      BY <2>1, <2>2, <2>3, <2>5
    <3>4. x <= last - first + 1 BY <3>3
    <3> QED BY <3>2, <3>3, <3>4
  <2> QED BY <2>4, <2>5 DEF q
<1>8. part \in Part /\ part.inputs = SubSeq(comp[k0].planes, first, last)
  BY <1>7 DEF Part
<1> HIDE DEF part
<1>9. /\ c \in Computation /\ c.at = comp[k0].at /\ c.planes = comp[k0].planes
      /\ c.partial = p /\ c.toQueue = comp[k0].toQueue /\ c.dataready = comp[k0].dataready
      /\ c.parents = Append(comp[k0].parents, part)
  <2>1. Append(comp[k0].parents, part) \in Seq(Part) BY <1>3, <1>8
  <2> QED BY <1>3, <2>1 DEF Computation, p
<1> HIDE DEF c
<1>10. comp'[k0] = c /\ \A k \in Computations : k # k0 => comp'[k] = comp[k]
  BY <1>1, <1>2 DEF DemuxTypeOK
<1>11. /\ Len(c.parents) = n + 1 /\ c.parents[n + 1] = part
       /\ \A j \in 1 .. n : c.parents[j] = comp[k0].parents[j]
  <2>1. \A q \in Seq(Part) :
           /\ Len(Append(q, part)) = Len(q) + 1
           /\ Append(q, part)[Len(q) + 1] = part
           /\ \A j \in 1 .. Len(q) : Append(q, part)[j] = q[j]
    BY <1>8
  <2>2. n = Len(comp[k0].parents) BY DEF n
  <2> QED BY <1>3, <1>9, <2>1, <2>2
<1>12. /\ worker'[t].at = "compute" /\ worker'[t].comp = k0 /\ worker'[t].part = n + 1
       /\ \A u \in Threads : u # t => worker'[u] = worker[u]
  BY <1>1 DEF DemuxTypeOK, WorkerState
<1>13. DemuxTypeOK'
  <2>1. [worker[t] EXCEPT !.at = "compute", !.part = n + 1] \in WorkerState
    <3>1. worker[t] \in WorkerState BY DEF DemuxTypeOK
    <3>2. n + 1 \in Nat BY <1>3
    <3> QED BY <3>1, <3>2 DEF WorkerState
  <2>2. worker' = [worker EXCEPT ![t] = [worker[t] EXCEPT !.at = "compute", !.part = n + 1]]
    BY <1>1 DEF DemuxTypeOK, WorkerState
  <2>3. worker' \in [Threads -> WorkerState] BY <2>1, <2>2 DEF DemuxTypeOK
  <2>4. comp' \in [Computations -> Computation] BY <1>1, <1>9 DEF DemuxTypeOK
  <2> QED BY <1>1, <2>3, <2>4 DEF DemuxTypeOK
<1>14. ShapeInv'
  <2>1. Shaped(comp[k0]) /\ comp[k0].at \notin {"new", "done"}
    BY <1>2, <1>3 DEF DemuxInv, ShapeInv, Shaped, Computation
  <2>2. Shaped(c) BY <1>9, <2>1 DEF Shaped, p
  <2> QED BY <1>10, <2>2 DEF DemuxInv, ShapeInv
<1>15. PartInv'
  <2>1. HoldsPieces(c)
    <3> SUFFICES ASSUME NEW j \in 1 .. n + 1, NEW x \in 1 .. p,
                        (j - 1) * p + x <= Len(comp[k0].planes)
                 PROVE  /\ x <= Len(c.parents[j].inputs)
                        /\ c.parents[j].inputs[x] = comp[k0].planes[(j - 1) * p + x]
      BY <1>9, <1>11 DEF HoldsPieces
    <3>1. CASE j = n + 1
      <4>1. j - 1 = n BY <1>3, <3>1
      <4>2. (j - 1) * p = m BY <4>1 DEF m
      <4> QED BY <1>7, <1>8, <1>11, <3>1, <4>2
    <3>2. CASE j # n + 1
      <4>1. j \in 1 .. n BY <1>3, <3>2
      <4>2. HoldsPieces(comp[k0]) BY <1>2 DEF DemuxInv, PartInv
      <4>3. c.parents[j] = comp[k0].parents[j] BY <1>11, <4>1
      <4> QED BY <4>1, <4>2, <4>3 DEF HoldsPieces, n, p
    <3> QED BY <3>1, <3>2
  <2> QED BY <1>10, <2>1 DEF DemuxInv, PartInv
<1>16. WorkerInv'
  <2>1. \A u \in Threads :
           /\ worker'[u].at \in {"add", "compute"} <=> worker'[u].comp # NoComputation
           /\ u # t => worker'[u] = worker[u]
    BY <1>2, <1>12, DemuxAssumption DEF DemuxInv, WorkerInv
  <2>2. \A k \in Computations : Len(comp[k].parents) \in Nat BY DEF DemuxTypeOK, Computation
  <2>3. \A k \in Computations : 1 .. Len(comp[k].parents) \subseteq 1 .. Len(comp'[k].parents)
    BY <1>3, <1>10, <1>11, <2>2 DEF n
  <2>4. \A u \in Threads : worker'[u].at = "compute" =>
           worker'[u].part \in 1 .. Len(comp'[worker'[u].comp].parents)
    <3> SUFFICES ASSUME NEW u \in Threads, worker'[u].at = "compute"
                 PROVE  worker'[u].part \in 1 .. Len(comp'[worker'[u].comp].parents)
      OBVIOUS
    <3>1. CASE u = t BY <1>3, <1>10, <1>11, <1>12, <3>1
    <3>2. CASE u # t
      <4>1. worker'[u] = worker[u] BY <2>1, <3>2
      <4>2. /\ worker[u].comp \in Computations
            /\ worker[u].part \in 1 .. Len(comp[worker[u].comp].parents)
        BY <4>1 DEF DemuxInv, WorkerInv, DemuxTypeOK, WorkerState
      <4> QED BY <2>3, <4>1, <4>2
    <3> QED BY <3>1, <3>2
  <2>5. ASSUME NEW k \in Computations, NEW j \in 1 .. Len(comp'[k].parents),
               ~comp'[k].parents[j].computed
        PROVE  \E u \in Threads : /\ worker'[u].at = "compute"
                                  /\ worker'[u].comp = k /\ worker'[u].part = j
    <3>1. CASE k = k0 /\ j = n + 1 BY <1>12, <3>1
    <3>2. CASE ~(k = k0 /\ j = n + 1)
      <4>1. j \in 1 .. Len(comp[k].parents) /\ comp'[k].parents[j] = comp[k].parents[j]
        <5>1. CASE k = k0
          <6>1. Len(comp'[k].parents) = n + 1 /\ j # n + 1 BY <1>10, <1>11, <3>2, <5>1
          <6>2. j \in 1 .. n BY <1>3, <6>1
          <6> QED BY <1>10, <1>11, <5>1, <6>2 DEF n
        <5>2. CASE k # k0 BY <1>10, <5>2
        <5> QED BY <5>1, <5>2
      <4>2. PICK u \in Threads : /\ worker[u].at = "compute"
                                 /\ worker[u].comp = k /\ worker[u].part = j
        BY <2>5, <4>1 DEF DemuxInv, WorkerInv
      <4>3. worker'[u] = worker[u] BY <1>1, <2>1, <4>2
      <4> QED BY <4>2, <4>3
    <3> QED BY <3>1, <3>2
  <2> QED BY <2>1, <2>4, <2>5 DEF WorkerInv
<1>17. CountInv'
  <2>1. ASSUME NEW k \in Computations PROVE Busy(k)' = Busy(k)
    BY <1>12 DEF Busy
  <2>2. ASSUME NEW k \in Computations, k # k0 PROVE Adding(k)' = Adding(k)
    BY <1>12, <2>2 DEF Adding
  <2>3. Cardinality(Adding(k0)') = Cardinality(Adding(k0)) - 1
    <3>1. t \in Adding(k0) BY <1>1 DEF Adding
    <3>2. Adding(k0)' = Adding(k0) \ {t} BY <1>12 DEF Adding
    <3> QED BY <3>1, <3>2, Counts, FS_RemoveElement
  <2>4. \A k : Occurs(queue, k)' = Occurs(queue, k) BY <1>1 DEF Occurs
  <2> SUFFICES ASSUME NEW k \in Computations
               PROVE  LET waiting == comp'[k].toQueue + Occurs(queue, k)
                          added == Cardinality(Adding(k)') + Len(comp'[k].parents)
                      IN  /\ comp'[k].dataready = waiting + Cardinality(Busy(k))
                          /\ waiting + added <= Parts(comp'[k])
                          /\ ~abort => waiting + added = Parts(comp'[k])
    BY <1>1, <2>1, <2>4 DEF CountInv
  <2>5. CASE k = k0
    <3>1. Cardinality(Adding(k)') + Len(comp'[k].parents)
             = Cardinality(Adding(k)) + Len(comp[k].parents)
      <4>1. Cardinality(Adding(k0)) \in Nat BY Counts
      <4>2. Len(comp'[k0].parents) = n + 1 BY <1>10, <1>11
      <4>3. Cardinality(Adding(k0)') + Len(comp'[k0].parents) = Cardinality(Adding(k0)) + n
        BY <1>3, <2>3, <4>1, <4>2
      <4> QED BY <2>5, <4>3 DEF n
    <3>2. /\ comp'[k].toQueue = comp[k].toQueue /\ comp'[k].dataready = comp[k].dataready
          /\ Parts(comp'[k]) = Parts(comp[k])
      BY <1>9, <1>10, <2>5 DEF Parts, p
    <3> QED BY <3>1, <3>2 DEF DemuxInv, CountInv
  <2>6. CASE k # k0 BY <1>10, <2>2, <2>6 DEF DemuxInv, CountInv
  <2> QED BY <2>5, <2>6
<1>18. Kept BY <1>2, <1>9, <1>10 DEF Kept
<1> QED BY <1>13, <1>14, <1>15, <1>16, <1>17, <1>18 DEF DemuxInv

\* One part less to be done.
LEMMA CompletedOne ==
  ASSUME NEW c \in Computation, c.dataready > 0
  PROVE  /\ Completed(c) \in Computation /\ Completed(c).dataready = c.dataready - 1
         /\ Completed(c).at = c.at /\ Completed(c).planes = c.planes
         /\ Completed(c).partial = c.partial /\ Completed(c).toQueue = c.toQueue
         /\ Completed(c).parents = c.parents
<1> DEFINE b == c.notified \/ c.dataready = 1
<1>1. Completed(c) = [c EXCEPT !.dataready = @ - 1, !.notified = b]
  BY DEF Completed, Computation
<1>2. b \in BOOLEAN BY DEF Computation
<1> HIDE DEF b
<1>3. c.dataready - 1 \in Nat BY DEF Computation
<1> QED BY <1>1, <1>2, <1>3 DEF Computation

\* A worker has computed its part.
LEMMA ComputeStep ==
  ASSUME DemuxTypeOK, DemuxInv, NEW t \in Threads, NEW k0, k0 = worker[t].comp, Compute(t)
  PROVE  DemuxTypeOK' /\ DemuxInv' /\ Kept
<1> DEFINE j0 == worker[t].part
           d == [comp[k0] EXCEPT !.parents[j0].computed = TRUE]
           c == Completed(d)
           n == Len(comp[k0].parents)
<1>1. /\ worker[t].at = "compute" /\ comp' = [comp EXCEPT ![k0] = c]
      /\ worker' = [worker EXCEPT
                       ![t] = [at |-> "drain", comp |-> NoComputation, part |-> 0]]
      /\ UNCHANGED <<queue, abort, sleeping, owner>>
  BY DEF Compute
<1>2. /\ k0 \in Computations /\ t \in Busy(k0) /\ ~Idle(comp[k0])
      /\ comp[k0].planes # << >> /\ comp[k0].dataready > 0
  BY <1>1, HeldPart
<1>3. comp[k0] \in Computation /\ j0 \in 1 .. n /\ n \in Nat
  BY <1>1, <1>2 DEF DemuxTypeOK, Computation, DemuxInv, WorkerInv
<1>4. /\ d \in Computation /\ d.at = comp[k0].at /\ d.planes = comp[k0].planes
      /\ d.partial = comp[k0].partial /\ d.toQueue = comp[k0].toQueue
      /\ d.dataready = comp[k0].dataready /\ Len(d.parents) = n
      /\ \A j \in 1 .. n : d.parents[j].inputs = comp[k0].parents[j].inputs
      /\ \A j \in 1 .. n : j # j0 => d.parents[j] = comp[k0].parents[j]
      /\ d.parents[j0].computed
  <2> DEFINE q == comp[k0].parents
             r == [q EXCEPT ![j0] = [q[j0] EXCEPT !.computed = TRUE]]
  <2>1. q \in Seq(Part) /\ n = Len(q) BY <1>3 DEF Computation
  <2>2. d = [comp[k0] EXCEPT !.parents = r] BY <1>3 DEF Computation
  <2> HIDE DEF q, n, d, j0
  <2>3. q[j0] \in Part BY <1>3, <2>1
  <2>4. /\ [q[j0] EXCEPT !.computed = TRUE] \in Part
        /\ [q[j0] EXCEPT !.computed = TRUE].inputs = q[j0].inputs
        /\ [q[j0] EXCEPT !.computed = TRUE].computed
    BY <2>3 DEF Part
  <2>5. /\ r \in Seq(Part) /\ Len(r) = n
        /\ \A j \in 1 .. n : r[j] = IF j = j0 THEN [q[j0] EXCEPT !.computed = TRUE] ELSE q[j]
    BY <1>3, <2>1, <2>4
  <2> HIDE DEF r
  <2>6. /\ d \in Computation /\ d.at = comp[k0].at /\ d.planes = comp[k0].planes
        /\ d.partial = comp[k0].partial /\ d.toQueue = comp[k0].toQueue
        /\ d.dataready = comp[k0].dataready /\ d.parents = r
    BY <1>3, <2>2, <2>5 DEF Computation
  <2> QED BY <1>3, <2>4, <2>5, <2>6 DEF q
<1> HIDE DEF d
<1>5. /\ c \in Computation /\ c.at = comp[k0].at /\ c.planes = comp[k0].planes
      /\ c.partial = comp[k0].partial /\ c.toQueue = comp[k0].toQueue
      /\ c.dataready = comp[k0].dataready - 1 /\ c.parents = d.parents
  BY <1>2, <1>4, CompletedOne
<1> HIDE DEF c, j0
<1>6. comp'[k0] = c /\ \A k \in Computations : k # k0 => comp'[k] = comp[k]
  BY <1>1, <1>2 DEF DemuxTypeOK
<1>7. /\ worker'[t] = [at |-> "drain", comp |-> NoComputation, part |-> 0]
      /\ \A u \in Threads : u # t => worker'[u] = worker[u]
  BY <1>1 DEF DemuxTypeOK
<1>8. DemuxTypeOK'
  <2>1. [at |-> "drain", comp |-> NoComputation, part |-> 0] \in WorkerState BY DEF WorkerState
  <2>2. worker' \in [Threads -> WorkerState] BY <1>1, <2>1 DEF DemuxTypeOK
  <2>3. comp' \in [Computations -> Computation] BY <1>1, <1>5 DEF DemuxTypeOK
  <2> QED BY <1>1, <2>2, <2>3 DEF DemuxTypeOK
<1>9. ShapeInv'
  <2>1. Shaped(comp[k0]) /\ comp[k0].at \notin {"new", "done"}
    BY <1>2, <1>3 DEF DemuxInv, ShapeInv, Shaped, Computation
  <2>2. Shaped(c) BY <1>5, <2>1 DEF Shaped
  <2> QED BY <1>6, <2>2 DEF DemuxInv, ShapeInv
<1>10. PartInv'
  <2>1. HoldsPieces(comp[k0]) BY <1>2 DEF DemuxInv, PartInv
  <2>2. HoldsPieces(c)
    <3> SUFFICES ASSUME NEW j \in 1 .. n, NEW x \in 1 .. comp[k0].partial,
                        (j - 1) * comp[k0].partial + x <= Len(comp[k0].planes)
                 PROVE  /\ x <= Len(d.parents[j].inputs)
                        /\ d.parents[j].inputs[x]
                             = comp[k0].planes[(j - 1) * comp[k0].partial + x]
      BY <1>4, <1>5 DEF HoldsPieces
    <3>1. d.parents[j].inputs = comp[k0].parents[j].inputs BY <1>4
    <3> QED BY <2>1, <3>1 DEF HoldsPieces
  <2> QED BY <1>6, <2>2 DEF DemuxInv, PartInv
<1>11. \A k \in Computations : Len(comp'[k].parents) = Len(comp[k].parents)
  BY <1>4, <1>5, <1>6
<1>12. WorkerInv'
  <2>1. \A u \in Threads :
           /\ worker'[u].at \in {"add", "compute"} <=> worker'[u].comp # NoComputation
           /\ worker'[u].at = "compute" => worker'[u] = worker[u]
    BY <1>7 DEF DemuxInv, WorkerInv
  <2>2. \A u \in Threads : worker'[u].at = "compute" =>
           worker'[u].part \in 1 .. Len(comp'[worker'[u].comp].parents)
    <3> SUFFICES ASSUME NEW u \in Threads, worker'[u].at = "compute"
                 PROVE  worker'[u].part \in 1 .. Len(comp'[worker'[u].comp].parents)
      OBVIOUS
    <3>1. worker'[u] = worker[u] BY <2>1
    <3>2. /\ worker[u].comp \in Computations
          /\ worker[u].part \in 1 .. Len(comp[worker[u].comp].parents)
      BY <3>1 DEF DemuxInv, WorkerInv, DemuxTypeOK, WorkerState
    <3> QED BY <1>11, <3>1, <3>2
  <2>3. ASSUME NEW k \in Computations, NEW j \in 1 .. Len(comp'[k].parents),
               ~comp'[k].parents[j].computed
        PROVE  \E u \in Threads : /\ worker'[u].at = "compute"
                                  /\ worker'[u].comp = k /\ worker'[u].part = j
    <3>1. ~(k = k0 /\ j = j0) BY <1>4, <1>5, <1>6, <2>3
    <3>2. comp'[k].parents[j] = comp[k].parents[j] /\ j \in 1 .. Len(comp[k].parents)
      <4>1. j \in 1 .. Len(comp[k].parents) BY <1>11
      <4>2. CASE k = k0 BY <1>4, <1>5, <1>6, <3>1, <4>1, <4>2
      <4>3. CASE k # k0 BY <1>6, <4>1, <4>3
      <4> QED BY <4>1, <4>2, <4>3
    <3>3. PICK u \in Threads : /\ worker[u].at = "compute"
                               /\ worker[u].comp = k /\ worker[u].part = j
      BY <2>3, <3>2 DEF DemuxInv, WorkerInv
    <3>4. u # t BY <3>1, <3>3 DEF j0
    <3>5. worker'[u] = worker[u] BY <1>7, <3>4
    <3> QED BY <3>3, <3>5
  <2> QED BY <2>1, <2>2, <2>3 DEF WorkerInv
<1>13. CountInv'
  <2>1. ASSUME NEW k \in Computations PROVE Adding(k)' = Adding(k)
    BY <1>1, <1>7 DEF Adding
  <2>2. ASSUME NEW k \in Computations, k # k0 PROVE Busy(k)' = Busy(k)
    BY <1>7, <2>2, DemuxAssumption DEF Busy
  <2>3. Cardinality(Busy(k0)') = Cardinality(Busy(k0)) - 1
    <3>1. Busy(k0)' = Busy(k0) \ {t} BY <1>2, <1>7, DemuxAssumption DEF Busy
    <3> QED BY <1>2, <3>1, Counts, FS_RemoveElement
  <2>4. \A k : Occurs(queue, k)' = Occurs(queue, k) BY <1>1 DEF Occurs
  <2> SUFFICES ASSUME NEW k \in Computations
               PROVE  LET waiting == comp'[k].toQueue + Occurs(queue, k)
                          added == Cardinality(Adding(k)) + Len(comp'[k].parents)
                      IN  /\ comp'[k].dataready = waiting + Cardinality(Busy(k)')
                          /\ waiting + added <= Parts(comp'[k])
                          /\ ~abort => waiting + added = Parts(comp'[k])
    BY <1>1, <2>1, <2>4 DEF CountInv
  <2>5. CASE k = k0
    <3>1. comp[k0].dataready = comp[k0].toQueue + Occurs(queue, k0) + Cardinality(Busy(k0))
      BY <1>2 DEF DemuxInv, CountInv
    <3>2. /\ comp[k0].toQueue \in Nat /\ Occurs(queue, k0) \in Nat
          /\ Cardinality(Busy(k0)) \in Nat
      BY <1>3, Counts DEF Computation
    <3>3. comp'[k0].dataready = comp'[k0].toQueue + Occurs(queue, k0) + Cardinality(Busy(k0)')
      BY <1>5, <1>6, <2>3, <3>1, <3>2
    <3>4. /\ comp'[k].toQueue = comp[k].toQueue /\ Len(comp'[k].parents) = Len(comp[k].parents)
          /\ Parts(comp'[k]) = Parts(comp[k])
      BY <1>5, <1>6, <1>11, <2>5 DEF Parts
    <3> QED BY <2>5, <3>3, <3>4 DEF DemuxInv, CountInv
  <2>6. CASE k # k0 BY <1>6, <2>2, <2>6 DEF DemuxInv, CountInv
  <2> QED BY <2>5, <2>6
<1>14. Kept BY <1>2, <1>5, <1>6 DEF Kept
<1> QED BY <1>8, <1>9, <1>10, <1>12, <1>13, <1>14 DEF DemuxInv

\* A part nobody has taken is given up.
LEMMA UnstuckStep ==
  ASSUME DemuxTypeOK, DemuxInv, abort, DemuxUnstuck
  PROVE  DemuxTypeOK' /\ DemuxInv' /\ Kept
<1>1. CASE queue = << >>
  <2>1. UNCHANGED <<comp, queue, abort, worker, sleeping>>
        /\ owner' \in {"alive", "joining", "unstuck", "gone"}
    BY <1>1 DEF DemuxUnstuck
  <2>2. CountInv'
    <3>1. \A k : Occurs(queue, k)' = Occurs(queue, k) /\ Busy(k)' = Busy(k) /\ Adding(k)' = Adding(k)
      BY <2>1 DEF Occurs, Busy, Adding
    <3> QED BY <2>1, <3>1 DEF DemuxInv, CountInv
  <2>3. DemuxTypeOK' BY <2>1 DEF DemuxTypeOK
  <2>4. ShapeInv' /\ PartInv' BY <2>1 DEF DemuxInv, ShapeInv, PartInv
  <2>5. WorkerInv' BY <2>1 DEF DemuxInv, WorkerInv
  <2> QED BY <2>1, <2>2, <2>3, <2>4, <2>5 DEF DemuxInv, Kept
<1>2. CASE queue # << >>
  <2> SUFFICES ASSUME NEW k0, k0 = Head(queue) PROVE DemuxTypeOK' /\ DemuxInv' /\ Kept
    OBVIOUS
  <2> DEFINE c == Completed(comp[k0])
  <2>1. /\ comp' = [comp EXCEPT ![k0] = c]
        /\ queue' = Tail(queue) /\ UNCHANGED <<abort, worker, sleeping, owner>>
    BY <1>2 DEF DemuxUnstuck
  <2>2. k0 \in Computations /\ queue' \in Seq(Computations) BY <1>2, <2>1 DEF DemuxTypeOK
  <2>3. ASSUME NEW k \in Computations
        PROVE  /\ Occurs(queue, k) = Occurs(queue', k) + IF k = k0 THEN 1 ELSE 0
               /\ Occurs(queue', k) \in Nat
    <3>1. Occurs(queue, k) = Occurs(queue', k) + IF k0 = k THEN 1 ELSE 0
      BY <1>2, <2>1, OccursTail DEF DemuxTypeOK
    <3> QED BY <2>2, <3>1, OccursType
  <2>4. /\ comp[k0].dataready = comp[k0].toQueue + Occurs(queue, k0) + Cardinality(Busy(k0))
        /\ comp[k0].toQueue \in Nat /\ Cardinality(Busy(k0)) \in Nat
        /\ comp[k0] \in Computation
    BY <2>2, Counts DEF DemuxInv, CountInv, DemuxTypeOK, Computation
  <2>5. comp[k0].dataready > 0 /\ ~Idle(comp[k0]) BY <2>2, <2>3, <2>4 DEF Idle
  <2>6. /\ c \in Computation /\ c.at = comp[k0].at /\ c.planes = comp[k0].planes
        /\ c.partial = comp[k0].partial /\ c.toQueue = comp[k0].toQueue
        /\ c.dataready = comp[k0].dataready - 1 /\ c.parents = comp[k0].parents
    BY <2>4, <2>5, CompletedOne
  <2> HIDE DEF c
  <2>7. comp'[k0] = c /\ \A k \in Computations : k # k0 => comp'[k] = comp[k]
    BY <2>1, <2>2 DEF DemuxTypeOK
  <2>8. DemuxTypeOK' BY <2>1, <2>2, <2>6 DEF DemuxTypeOK
  <2>9. ShapeInv'
    <3>1. Shaped(comp[k0]) /\ comp[k0].at \notin {"new", "done"}
      BY <2>2, <2>4, <2>5 DEF DemuxInv, ShapeInv, Shaped, Computation
    <3>2. Shaped(c) BY <2>6, <3>1 DEF Shaped
    <3> QED BY <2>7, <3>2 DEF DemuxInv, ShapeInv
  <2>10. PartInv'
    <3>1. HoldsPieces(comp[k0]) BY <2>2 DEF DemuxInv, PartInv
    <3>2. HoldsPieces(c) BY <2>6, <3>1 DEF HoldsPieces
    <3> QED BY <2>7, <3>2 DEF DemuxInv, PartInv
  <2>11. WorkerInv'
    <3>1. \A k \in Computations : comp'[k].parents = comp[k].parents BY <2>6, <2>7
    <3> QED BY <2>1, <3>1 DEF DemuxInv, WorkerInv, DemuxTypeOK, WorkerState
  <2>12. CountInv'
    <3>1. \A k : Busy(k)' = Busy(k) /\ Adding(k)' = Adding(k)
                 /\ Occurs(queue, k)' = Occurs(queue', k)
      BY <2>1 DEF Busy, Adding, Occurs
    <3> SUFFICES ASSUME NEW k \in Computations
                 PROVE  LET waiting == comp'[k].toQueue + Occurs(queue', k)
                            added == Cardinality(Adding(k)) + Len(comp'[k].parents)
                        IN  /\ comp'[k].dataready = waiting + Cardinality(Busy(k))
                            /\ waiting + added <= Parts(comp'[k])
      BY <2>1, <3>1 DEF CountInv
    <3>2. CASE k = k0
      <4>1. Parts(c) = Parts(comp[k0]) BY <2>6 DEF Parts
      <4>2. /\ Cardinality(Adding(k0)) \in Nat /\ Len(comp[k0].parents) \in Nat
            /\ Parts(comp[k0]) \in Nat
        <5>1. /\ comp[k0].planes # << >> => Len(comp[k0].planes) \in Nat \ {0}
                                            /\ comp[k0].partial \in Nat \ {0}
          BY <2>2, <2>4, <2>5 DEF DemuxInv, ShapeInv, Shaped, Computation
        <5>2. Parts(comp[k0]) \in Nat BY <5>1, LastPart DEF Parts
        <5> QED BY <2>4, <5>2, Counts DEF Computation
      <4>3. comp[k0].toQueue + Occurs(queue, k0) + (Cardinality(Adding(k0)) + Len(comp[k0].parents))
              <= Parts(comp[k0])
        BY <2>2 DEF DemuxInv, CountInv
      <4>4. Occurs(queue, k0) = Occurs(queue', k0) + 1 /\ Occurs(queue', k0) \in Nat
        BY <2>2, <2>3
      <4>5. comp'[k0].dataready = comp'[k0].toQueue + Occurs(queue', k0) + Cardinality(Busy(k0))
        BY <2>4, <2>6, <2>7, <4>4
      <4>6. comp'[k0].toQueue + Occurs(queue', k0) + (Cardinality(Adding(k0)) + Len(comp'[k0].parents))
              <= Parts(comp'[k0])
        <5> DEFINE add == Cardinality(Adding(k0)) + Len(comp[k0].parents)
                   all == Parts(comp[k0])
        <5>1. add \in Nat /\ all \in Nat BY <4>2
        <5>2. comp[k0].toQueue + Occurs(queue, k0) + add <= all BY <4>3
        <5> HIDE DEF add, all
        <5>3. comp[k0].toQueue + Occurs(queue', k0) + add <= all BY <2>4, <4>4, <5>1, <5>2
        <5> QED BY <2>6, <2>7, <4>1, <5>3 DEF add, all
      <4> QED BY <3>2, <4>5, <4>6
    <3>3. CASE k # k0
      <4>1. Occurs(queue', k) = Occurs(queue, k) BY <2>3, <3>3
      <4> QED BY <2>7, <3>3, <4>1 DEF DemuxInv, CountInv
    <3> QED BY <3>2, <3>3
  <2>13. Kept BY <2>5, <2>6, <2>7 DEF Kept
  <2> QED BY <2>8, <2>9, <2>10, <2>11, <2>12, <2>13 DEF DemuxInv
<1> QED BY <1>1, <1>2

\* Every step of the network below keeps its invariant and the planes.
LEMMA BelowStep ==
  ASSUME DemuxTypeOK, DemuxInv, abort <=> owner # "alive",
         \/ \E k \in Computations : Enqueue(k)
         \/ \E t \in Threads : DemuxWorker(t)
         \/ Destructor
  PROVE  DemuxTypeOK' /\ DemuxInv' /\ Kept /\ (abort <=> owner # "alive")'
         /\ (abort => abort')
<1>1. ASSUME NEW k \in Computations, Enqueue(k)
      PROVE  DemuxTypeOK' /\ DemuxInv' /\ Kept /\ (abort <=> owner # "alive")'
             /\ (abort => abort')
  <2>1. abort' = abort /\ owner' = owner BY <1>1 DEF Enqueue
  <2> QED BY <1>1, <2>1, EnqueueStep
<1>2. ASSUME NEW t \in Threads, DemuxWorker(t)
      PROVE  DemuxTypeOK' /\ DemuxInv' /\ Kept /\ (abort <=> owner # "alive")'
             /\ (abort => abort')
  <2>1. abort' = abort /\ owner' = owner
    BY <1>2 DEF DemuxWorker, Wait, TakePart, AddParent, Compute
  <2>2. CASE Wait(t)
    <3>1. PICK place \in {"lock", "asleep", "drain", "exited"} : Goto(t, place)
      BY <2>2 DEF Wait
    <3>2. /\ worker[t].at \in {"lock", "asleep", "drain"} /\ sleeping' \subseteq Threads
          /\ UNCHANGED <<comp, queue, abort, owner>>
      BY <2>2 DEF Wait, DemuxTypeOK
    <3> QED BY <2>1, <3>1, <3>2, PlaceStep
  <2>3. CASE TakePart(t) BY <2>1, <2>3, TakeStep
  <2>4. CASE AddParent(t) BY <2>1, <2>4, AddStep
  <2>5. CASE Compute(t) BY <2>1, <2>5, ComputeStep
  <2> QED BY <1>2, <2>2, <2>3, <2>4, <2>5 DEF DemuxWorker
<1>3. CASE DemuxUnstuck
  <2>1. abort /\ abort' = abort /\ owner' \in {"unstuck", "gone"}
    BY <1>3 DEF DemuxUnstuck
  <2> QED BY <1>3, <2>1, UnstuckStep
<1>4. CASE DemuxAbort \/ DemuxJoined
  <2>1. /\ UNCHANGED <<comp, queue, worker>> /\ sleeping' \subseteq Threads
        /\ owner' \in {"joining", "unstuck"} /\ abort' = TRUE
    <3>1. CASE DemuxAbort BY <3>1 DEF DemuxAbort
    <3>2. CASE DemuxJoined
      <4>1. /\ UNCHANGED <<comp, queue, abort, worker, sleeping>> /\ owner' = "unstuck"
            /\ owner = "joining"
        BY <3>2 DEF DemuxJoined
      <4>2. abort' = TRUE BY <4>1 DEF DemuxTypeOK
      <4> QED BY <4>1, <4>2 DEF DemuxTypeOK
    <3> QED BY <1>4, <3>1, <3>2
  <2>2. CountInv'
    <3>1. \A k : Occurs(queue, k)' = Occurs(queue, k) /\ Busy(k)' = Busy(k) /\ Adding(k)' = Adding(k)
      BY <2>1 DEF Occurs, Busy, Adding
    <3> QED BY <2>1, <3>1 DEF DemuxInv, CountInv
  <2>3. DemuxTypeOK' BY <2>1 DEF DemuxTypeOK
  <2>4. ShapeInv' /\ PartInv' BY <2>1 DEF DemuxInv, ShapeInv, PartInv
  <2>5. WorkerInv' BY <2>1 DEF DemuxInv, WorkerInv
  <2> QED BY <2>1, <2>2, <2>3, <2>4, <2>5 DEF DemuxInv, Kept
<1> QED BY <1>1, <1>2, <1>3, <1>4 DEF Destructor

(***************************************************************************)
(* Batches and what is gathered of them.                                   *)
(***************************************************************************)
\* The batch of a client.
LEMMA BatchIs ==
  ASSUME MuxTypeOK, NEW c \in Clients
  PROVE  /\ client[c].size \in Nat /\ Batch(c) \in Seq(Samples)
         /\ Len(Batch(c)) = client[c].size
         /\ \A i \in 1 .. client[c].size : Batch(c)[i] = <<c, i>>
<1>1. client[c].size \in Nat BY DEF MuxTypeOK, ClientState
<1> DEFINE n == client[c].size
           b == [i \in 1 .. n |-> <<c, i>>]
<1> HIDE DEF n
<1>2. n \in Nat BY <1>1 DEF n
<1>3. b \in Seq(Samples) /\ Len(b) = n /\ \A i \in 1 .. n : b[i] = <<c, i>>
  <2>1. \A i \in 1 .. n : <<c, i>> \in Samples BY <1>2 DEF Samples
  <2> QED BY <1>2, <2>1
<1>4. Batch(c) = b BY DEF Batch, n
<1> HIDE DEF b
<1> QED BY <1>1, <1>3, <1>4 DEF n

\* What some clients have put into a computation.
LEMMA InputsType ==
  ASSUME MuxTypeOK, NEW cs \in Seq(Clients)
  PROVE  /\ [i \in 1 .. Len(cs) |-> Batch(cs[i])] \in Seq(Seq(Samples))
         /\ Inputs(cs) \in Seq(Samples)
<1> DEFINE n == Len(cs)
           ss == [i \in 1 .. n |-> Batch(cs[i])]
<1>1. \A i \in 1 .. n : Batch(cs[i]) \in Seq(Samples) BY BatchIs
<1>2. n \in Nat OBVIOUS
<1> HIDE DEF n
<1>3. ss \in Seq(Seq(Samples)) BY <1>1, <1>2
<1>4. Inputs(cs) = FlattenSeq(ss) BY DEF Inputs, n
<1> HIDE DEF ss
<1>5. Inputs(cs) \in Seq(Samples) BY <1>3, <1>4, FlattenType
<1> QED BY <1>3, <1>5 DEF ss, n

\* The inputs of each follow those of the clients before it, in their order.
LEMMA InputsAt ==
  ASSUME MuxTypeOK, NEW cs \in Seq(Clients), NEW i \in 1 .. Len(cs),
         NEW x \in 1 .. client[cs[i]].size
  PROVE  LET at == Len(Inputs(SubSeq(cs, 1, i - 1))) + x
         IN  at <= Len(Inputs(cs)) /\ Inputs(cs)[at] = <<cs[i], x>>
<1> DEFINE ss == [j \in 1 .. Len(cs) |-> Batch(cs[j])]
           pre == SubSeq(cs, 1, i - 1)
<1>1. ss \in Seq(Seq(Samples)) BY InputsType
<1>2. i \in 1 .. Len(ss) /\ ss[i] = Batch(cs[i]) OBVIOUS
<1>3. Inputs(cs) = FlattenSeq(ss) BY DEF Inputs
<1>4. /\ Len(pre) = i - 1 /\ \A j \in 1 .. i - 1 : pre[j] = cs[j]
  BY SubSeqProperties
<1>5. SubSeq(ss, 1, i - 1) = [j \in 1 .. i - 1 |-> ss[j]]
  <2>1. /\ SubSeq(ss, 1, i - 1) \in Seq(Seq(Samples)) /\ Len(SubSeq(ss, 1, i - 1)) = i - 1
        /\ \A j \in 1 .. i - 1 : SubSeq(ss, 1, i - 1)[j] = ss[j]
    <3> HIDE DEF ss
    <3> QED BY <1>1, <1>2, SubSeqProperties
  <2> DEFINE s == SubSeq(ss, 1, i - 1)
  <2> HIDE DEF s
  <2>2. s = [j \in 1 .. i - 1 |-> s[j]] BY <2>1 DEF s
  <2> QED BY <2>1, <2>2 DEF s
<1>6. Inputs(pre) = FlattenSeq([j \in 1 .. i - 1 |-> Batch(pre[j])])
  BY <1>4 DEF Inputs
<1>7. [j \in 1 .. i - 1 |-> Batch(pre[j])] = [j \in 1 .. i - 1 |-> ss[j]]
  <2>1. \A j \in 1 .. i - 1 : ss[j] = Batch(pre[j])
    <3> TAKE j \in 1 .. i - 1
    <3>1. j \in 1 .. Len(cs) OBVIOUS
    <3> HIDE DEF pre
    <3> QED BY <1>4, <3>1
  <2> HIDE DEF ss, pre
  <2> QED BY <2>1
<1>8. Inputs(pre) = FlattenSeq(SubSeq(ss, 1, i - 1)) BY <1>5, <1>6, <1>7
<1>9. cs[i] \in Clients OBVIOUS
<1>10. x \in 1 .. Len(ss[i]) /\ ss[i][x] = <<cs[i], x>> BY <1>2, <1>9, BatchIs
<1> HIDE DEF ss
<1>11. LET at == Len(FlattenSeq(SubSeq(ss, 1, i - 1))) + x
       IN  at \in 1 .. Len(FlattenSeq(ss)) /\ FlattenSeq(ss)[at] = ss[i][x]
  BY <1>1, <1>2, <1>10, FlattenOffset
<1> QED BY <1>3, <1>8, <1>10, <1>11

\* What is gathered is a part of the queue.
LEMMA GatheredIs ==
  ASSUME MuxTypeOK PROVE Gathered \in 0 .. Len(muxQueue)
<1> DEFINE fits(n) == \A i \in 1 .. n :
                          \/ Inputs(SubSeq(muxQueue, 1, i - 1)) = << >>
                          \/ Len(Inputs(SubSeq(muxQueue, 1, i))) <= MaxBatch
           T == {n \in 0 .. Len(muxQueue) : fits(n)}
<1>1. Gathered = Max(T) BY DEF Gathered
<1>2. Len(muxQueue) \in Nat BY DEF MuxTypeOK
<1>3. 0 \in T BY <1>2
<1>4. T \subseteq 0 .. Len(muxQueue) OBVIOUS
<1> HIDE DEF T
<1>5. Max(T) \in T BY <1>2, <1>3, <1>4, MaxIn
<1> QED BY <1>1, <1>4, <1>5

\* There is a computation nobody refers to whenever one is asked for.
LEMMA FreshIs ==
  ASSUME MuxTypeOK,
         \/ \E c \in Clients : client[c].parent = NoComputation
         \/ \E w \in MuxThreads : mux[w].parent = NoComputation
  PROVE  Fresh \in Computations /\ Fresh \notin Parents(client, mux)
<1> DEFINE A == {c \in Clients : client[c].parent # NoComputation}
           B == {w \in MuxThreads : mux[w].parent # NoComputation}
           P == {client[c].parent : c \in A}
           Q == {mux[w].parent : w \in B}
<1>1. IsFiniteSet(P) /\ Cardinality(P) <= Cardinality(A) /\ IsFiniteSet(A)
      /\ Cardinality(A) <= Cardinality(Clients)
      /\ (A # Clients => Cardinality(A) # Cardinality(Clients))
  <2>1. A \subseteq Clients OBVIOUS
  <2>2. IsFiniteSet(A) /\ Cardinality(A) <= Cardinality(Clients)
        /\ (A # Clients => Cardinality(A) # Cardinality(Clients))
    <3> HIDE DEF A
    <3> QED BY <2>1, FS_Subset, ObjectsAssumption
  <2>3. [c \in A |-> client[c].parent] \in Surjection(A, P) BY DEF Surjection
  <2> HIDE DEF A, P
  <2> QED BY <2>2, <2>3, FS_Surjection
<1>2. IsFiniteSet(Q) /\ Cardinality(Q) <= Cardinality(B) /\ IsFiniteSet(B)
      /\ Cardinality(B) <= Cardinality(MuxThreads)
      /\ (B # MuxThreads => Cardinality(B) # Cardinality(MuxThreads))
  <2>1. B \subseteq MuxThreads OBVIOUS
  <2>2. IsFiniteSet(B) /\ Cardinality(B) <= Cardinality(MuxThreads)
        /\ (B # MuxThreads => Cardinality(B) # Cardinality(MuxThreads))
    <3> HIDE DEF B
    <3> QED BY <2>1, FS_Subset, ObjectsAssumption
  <2>3. [w \in B |-> mux[w].parent] \in Surjection(B, Q) BY DEF Surjection
  <2> HIDE DEF B, Q
  <2> QED BY <2>2, <2>3, FS_Surjection
<1>3. A # Clients \/ B # MuxThreads OBVIOUS
<1>4. Parents(client, mux) \subseteq P \cup Q \cup {NoComputation} BY DEF Parents
<1>5. P \cup Q \subseteq Parents(client, mux) BY DEF Parents
<1> HIDE DEF A, B, P, Q
<1>6. /\ Cardinality(P) \in Nat /\ Cardinality(Q) \in Nat /\ Cardinality(P \cap Q) \in Nat
      /\ Cardinality(A) \in Nat /\ Cardinality(B) \in Nat
      /\ Cardinality(Clients) \in Nat /\ Cardinality(MuxThreads) \in Nat
      /\ Cardinality(Computations) \in Nat
      /\ IsFiniteSet(P \cup Q)
      /\ Cardinality(P \cup Q) = Cardinality(P) + Cardinality(Q) - Cardinality(P \cap Q)
  <2>1. IsFiniteSet(P \cap Q) BY <1>1, FS_Intersection
  <2>2. IsFiniteSet(P \cup Q)
        /\ Cardinality(P \cup Q) = Cardinality(P) + Cardinality(Q) - Cardinality(P \cap Q)
    BY <1>1, <1>2, FS_Union
  <2> QED BY <1>1, <1>2, <2>1, <2>2, FS_CardinalityType, ObjectsAssumption
<1>7. Cardinality(P \cup Q) < Cardinality(Computations)
  <2>1. Cardinality(Clients) + Cardinality(MuxThreads) <= Cardinality(Computations)
    BY ObjectsAssumption
  <2> DEFINE p == Cardinality(P)
             q == Cardinality(Q)
             a == Cardinality(A)
             b == Cardinality(B)
             u == Cardinality(Clients)
             v == Cardinality(MuxThreads)
             n == Cardinality(Computations)
             i == Cardinality(P \cap Q)
  <2>2. /\ p \in Nat /\ q \in Nat /\ a \in Nat /\ b \in Nat /\ u \in Nat /\ v \in Nat
        /\ n \in Nat /\ i \in Nat /\ Cardinality(P \cup Q) = p + q - i
        /\ p <= a /\ q <= b /\ a <= u /\ b <= v /\ u + v <= n
    BY <1>1, <1>2, <1>6, <2>1
  <2>3. a # u \/ b # v BY <1>1, <1>2, <1>3
  <2> HIDE DEF p, q, a, b, u, v, n, i
  <2>4. p + q - i < n BY <2>2, <2>3
  <2> QED BY <2>2, <2>4 DEF n
<1>8. ~ (Computations \subseteq P \cup Q)
  <2> SUFFICES ASSUME Computations \subseteq P \cup Q PROVE FALSE OBVIOUS
  <2>1. Cardinality(Computations) <= Cardinality(P \cup Q) BY <1>6, FS_Subset
  <2> QED BY <1>6, <1>7, <2>1
<1>9. \E k \in Computations : k \notin Parents(client, mux)
  BY <1>4, <1>8, DemuxAssumption
<1> QED BY <1>9 DEF Fresh

(***************************************************************************)
(* What is read.                                                           *)
(***************************************************************************)
\* Sample i of a client is read from the computation that holds its batch, and
\* every one is there unless the network below has been destroyed.
LEMMA ReadIs ==
  ASSUME IInv, NEW c \in Clients, NEW i \in 1 .. client[c].size,
         client[c].parent = NoComputation \/ Idle(comp[client[c].parent])
  PROVE  /\ Read(c, i - 1) \in {<<c, i>>, NoResult}
         /\ client[c].parent # NoComputation /\ ~abort => Read(c, i - 1) = <<c, i>>
<1>1. CASE client[c].parent = NoComputation BY <1>1 DEF Read
<1>2. CASE client[c].parent # NoComputation
  <2> DEFINE k == client[c].parent
             s == (i - 1) + client[c].idx
             p == comp[k].partial
             planes == comp[k].planes
             j == s \div p
             r == s % p
             n == Len(comp[k].parents)
  <2>1. k \in Computations /\ client[c].idx \in Nat /\ i \in Nat \ {0} /\ Idle(comp[k])
    BY <1>2 DEF IInv, TypeOK, MuxTypeOK, ClientState
  <2>2. client[c].idx + i <= Len(planes) /\ planes[client[c].idx + i] = <<c, i>>
    BY <1>2 DEF IInv, ClientInv, ClientOK, HoldsBatch
  <2>3. Read(c, i - 1) = IF HasResult(k, s) THEN Result(k, s) ELSE NoResult
    BY <1>2 DEF Read
  <2> HIDE DEF k
  <2>4. comp[k] \in Computation /\ Shaped(comp[k]) /\ HoldsPieces(comp[k])
    BY <2>1 DEF IInv, TypeOK, DemuxTypeOK, DemuxInv, ShapeInv, PartInv
  <2>5. Len(planes) \in Nat /\ n \in Nat /\ DOMAIN comp[k].parents = 1 .. n
    BY <2>4 DEF Computation
  <2>6. planes # << >> /\ p \in Nat \ {0}
    <3>1. Len(planes) # 0 BY <2>1, <2>2, <2>5
    <3>2. planes # << >> BY <3>1
    <3>3. comp[k].at = "wait" BY <2>1, <2>4, <3>2 DEF Shaped, Computation, Idle
    <3> QED BY <2>4, <3>2, <3>3 DEF Shaped, Computation
  <2>7. s \in 0 .. Len(planes) - 1 /\ s + 1 = client[c].idx + i
    BY <2>1, <2>2, <2>5
  <2> HIDE DEF s, p
  <2>8. j \in Nat /\ r \in 0 .. p - 1 /\ s = p * j + r BY <2>6, <2>7, DivMod
  <2>9. PartOf(k, s) = j + 1 BY DEF PartOf, p
  <2>10. Result(k, s) = comp[k].parents[j + 1].inputs[r + 1] BY <2>9 DEF Result, p
  <2> HIDE DEF j, r
  <2>11. ASSUME j + 1 \in 1 .. n PROVE Result(k, s) = <<c, i>>
    <3>1. r + 1 \in 1 .. p BY <2>6, <2>8
    <3>2. (j + 1) - 1 = j /\ j * p = p * j BY <2>6, <2>8
    <3>3. ((j + 1) - 1) * p + (r + 1) = s + 1
      <4>1. p * j \in Nat BY <2>6, <2>8
      <4>2. ((j + 1) - 1) * p = p * j BY <3>2
      <4> QED BY <2>6, <2>8, <4>1, <4>2
    <3>4. s + 1 <= Len(planes) BY <2>5, <2>7
    <3>5. comp[k].parents[j + 1].inputs[r + 1] = planes[((j + 1) - 1) * p + (r + 1)]
      BY <2>4, <2>11, <3>1, <3>3, <3>4 DEF HoldsPieces, p
    <3> QED BY <2>2, <2>7, <2>10, <3>3, <3>5
  <2>12. Read(c, i - 1) \in {<<c, i>>, NoResult}
    BY <2>3, <2>5, <2>9, <2>11 DEF HasResult
  <2>13. ASSUME ~abort PROVE HasResult(k, s)
    <3>1. /\ comp[k].toQueue = 0 /\ Occurs(queue, k) = 0 /\ Adding(k) = {}
          /\ \A t \in Threads : worker[t].comp # k
      BY <2>1, IdleUnused DEF IInv, TypeOK
    <3>2. Cardinality(Adding(k)) = 0 BY <3>1, FS_EmptySet
    <3>3. 0 + 0 + (0 + n) = Parts(comp[k])
      BY <2>1, <2>13, <3>1, <3>2 DEF IInv, DemuxInv, CountInv
    <3>4. Parts(comp[k]) = CeilDiv(Len(planes), p) BY <2>6 DEF Parts, p
    <3>5. j + 1 <= CeilDiv(Len(planes), p)
      <4>1. Len(planes) \in Nat \ {0} BY <2>5, <2>7
      <4> QED BY <2>6, <2>7, <4>1, LastPart DEF j
    <3>6. j + 1 \in 1 .. n BY <2>5, <2>8, <3>3, <3>4, <3>5
    <3>7. comp[k].parents[j + 1].computed
      BY <2>1, <3>1, <3>6 DEF IInv, DemuxInv, WorkerInv
    <3> QED BY <2>5, <2>9, <3>6, <3>7 DEF HasResult
  <2>14. ~abort => Read(c, i - 1) = <<c, i>>
    BY <2>3, <2>5, <2>9, <2>11, <2>13 DEF HasResult
  <2> QED BY <2>12, <2>14
<1> QED BY <1>1, <1>2

\* The results of a client that has read: all, or some are missing because a
\* network was destroyed.
RightResults(c) ==
    \/ client[c].results = Batch(c)
    \/ /\ abort \/ muxAbort
       /\ NoResult \in ToSet(client[c].results)
       /\ \A i \in 1..client[c].size : client[c].results[i] \in {<<c, i>>, NoResult}

LEMMA ReadsRight ==
  ASSUME IInv, NEW c \in Clients, client[c].at = "wait", ReadResults(c),
         client[c].parent = NoComputation => client[c].dataready,
         client[c].parent # NoComputation => Idle(comp[client[c].parent]),
         UNCHANGED <<abort, muxAbort>>
  PROVE  /\ RightResults(c)'
         /\ client' \in [Clients -> ClientState]
         /\ client'[c].at = "done" /\ client'[c].parent = NoComputation
         /\ \A d \in Clients : d # c => client'[d] = client[d]
<1> DEFINE n == client[c].size
           r == [i \in 1 .. n |-> Read(c, i - 1)]
<1>1. /\ client \in [Clients -> ClientState] /\ n \in Nat
  BY DEF IInv, TypeOK, MuxTypeOK, ClientState
<1>2. client' = [client EXCEPT ![c].at = "done", ![c].parent = NoComputation,
                               ![c].idx = 0, ![c].results = r]
  BY DEF ReadResults
<1>3. \A i \in 1 .. n :
         /\ r[i] \in {<<c, i>>, NoResult}
         /\ client[c].parent # NoComputation /\ ~abort => r[i] = <<c, i>>
  BY ReadIs
<1>4. r \in Seq(Samples \cup {NoResult}) /\ DOMAIN r = 1 .. n /\ Len(r) = n
      /\ r = [i \in 1 .. n |-> r[i]]
  <2>1. \A i \in 1 .. n : r[i] \in Samples \cup {NoResult}
    <3> TAKE i \in 1 .. n
    <3>1. <<c, i>> \in Samples BY <1>1 DEF Samples
    <3> HIDE DEF r
    <3> QED BY <1>3, <3>1
  <2>2. r = [i \in 1 .. n |-> r[i]] /\ DOMAIN r = 1 .. n OBVIOUS
  <2> HIDE DEF r, n
  <2> QED BY <1>1, <2>1, <2>2
<1> HIDE DEF r
<1>5. /\ client'[c].at = "done" /\ client'[c].parent = NoComputation
      /\ client'[c].size = n /\ client'[c].results = r
      /\ \A d \in Clients : d # c => client'[d] = client[d]
  BY <1>1, <1>2 DEF ClientState
<1>6. client' \in [Clients -> ClientState]
  <2> DEFINE e == [client[c] EXCEPT !.at = "done", !.parent = NoComputation,
                                    !.idx = 0, !.results = r]
  <2>1. client' = [client EXCEPT ![c] = e] BY <1>1, <1>2 DEF ClientState
  <2>2. e \in ClientState
    <3>1. client[c] \in ClientState BY <1>1
    <3> QED BY <1>4, <3>1 DEF ClientState
  <2> HIDE DEF e
  <2> QED BY <1>1, <2>1, <2>2
<1> DEFINE b == [i \in 1 .. n |-> <<c, i>>]
<1>7. Batch(c)' = b BY <1>5 DEF Batch
<1>8. CASE r = b
  <2>1. client'[c].results = Batch(c)' BY <1>5, <1>7, <1>8
  <2>2. RightResults(c)' BY <2>1 DEF RightResults
  <2> QED BY <1>5, <1>6, <2>2
<1>9. CASE r # b
  <2>1. PICK i \in 1 .. n : r[i] # <<c, i>> BY <1>4, <1>9
  <2>2. NoResult \in ToSet(r) BY <1>3, <1>4, <2>1 DEF ToSet
  <2>3. abort \/ muxAbort
    <3>1. CASE client[c].parent = NoComputation BY <3>1 DEF IInv, ClientInv, ClientOK
    <3>2. CASE client[c].parent # NoComputation BY <1>3, <2>1, <3>2
    <3> QED BY <3>1, <3>2
  <2>4. RightResults(c)' BY <1>3, <1>5, <2>2, <2>3 DEF RightResults
  <2> QED BY <1>5, <1>6, <2>4
<1> QED BY <1>8, <1>9

(***************************************************************************)
(* The steps of the clients and of the multiplexing network.               *)
(***************************************************************************)
\* Nothing happens to the computations.
LEMMA DemuxStays ==
  ASSUME DemuxTypeOK, DemuxInv, UNCHANGED demuxVars
  PROVE  DemuxTypeOK' /\ DemuxInv'
<1>1. \A k : Occurs(queue, k)' = Occurs(queue, k) /\ Busy(k)' = Busy(k) /\ Adding(k)' = Adding(k)
  BY CountsStay DEF demuxVars
<1>2. CountInv' BY <1>1 DEF DemuxInv, CountInv, demuxVars
<1>3. ShapeInv' /\ PartInv' BY DEF DemuxInv, ShapeInv, PartInv, demuxVars
<1>4. WorkerInv' BY DEF DemuxInv, WorkerInv, demuxVars
<1> QED BY <1>2, <1>3, <1>4 DEF DemuxInv, DemuxTypeOK, demuxVars

\* What a client has read stays right.
LEMMA ResultsStay ==
  ASSUME ResultsMatch, abort => abort', muxAbort => muxAbort',
         \A d \in Clients : client'[d].at = "done" =>
            client'[d] = client[d] \/ RightResults(d)'
  PROVE  ResultsMatch'
<1> SUFFICES ASSUME NEW d \in Clients, client'[d].at = "done" PROVE RightResults(d)'
  BY DEF ResultsMatch, RightResults
<1>1. CASE client'[d] = client[d]
  <2>1. RightResults(d) BY <1>1 DEF ResultsMatch, RightResults
  <2>2. Batch(d)' = Batch(d) BY <1>1 DEF Batch
  <2> QED BY <1>1, <2>1, <2>2 DEF RightResults
<1> QED BY <1>1

\* A client stays in order while its planes stay and its results, if it has been
\* notified, are not touched.
LEMMA ClientStays ==
  ASSUME ClientInv, NEW d \in Clients, client'[d] = client[d], layout' = layout,
         muxAbort => muxAbort', NEW k, k = client[d].parent,
         k # NoComputation => /\ comp'[k].planes = comp[k].planes
                              /\ Idle(comp[k]) => Idle(comp'[k])
  PROVE  ClientOK(d)'
<1>1. ClientOK(d) BY DEF ClientInv
<1>2. k # NoComputation /\ HoldsBatch(client[d].parent, d) => HoldsBatch(client[d].parent, d)'
  BY DEF HoldsBatch
<1> QED BY <1>1, <1>2 DEF ClientOK

\* What is queued stays queued while those in the queue do not change.
LEMMA QueueStays ==
  ASSUME MuxTypeOK, QueueInv, muxQueue' = muxQueue,
         \A d \in Clients : client'[d] = client[d] \/ \A i \in 1 .. Len(muxQueue) : muxQueue[i] # d
  PROVE  QueueInv'
<1>1. \A i \in 1 .. Len(muxQueue) : muxQueue[i] \in Clients BY DEF MuxTypeOK
<1>2. \A i \in 1 .. Len(muxQueue) : client'[muxQueue[i]] = client[muxQueue[i]] BY <1>1
<1> QED BY <1>2 DEF QueueInv

\* The mux threads have the same children while those do not change.
LEMMA MuxStays ==
  ASSUME MuxTypeOK, MuxInv, mux' = mux,
         \A d \in Clients : \/ client'[d] = client[d]
                           \/ \A w \in MuxThreads : \A i \in 1 .. Len(mux[w].children) :
                                  mux[w].children[i] # d
  PROVE  MuxInv'
<1>1. \A w \in MuxThreads : \A i \in 1 .. Len(mux[w].children) : mux[w].children[i] \in Clients
  BY DEF MuxTypeOK, MuxState
<1>2. \A w \in MuxThreads : \A i \in 1 .. Len(mux[w].children) :
         client'[mux[w].children[i]] = client[mux[w].children[i]]
  BY <1>1
<1> QED BY <1>2 DEF MuxInv, MuxOK

\* The computation of a client that has not begun.
LEMMA NewIs == NewComputation \in Computation /\ Idle(NewComputation)
<1>1. << >> \in Seq(Part) /\ << >> \in Seq(Samples) OBVIOUS
<1> QED BY <1>1 DEF NewComputation, Computation, Idle

\* A client of the demultiplexing network calls.
LEMMA ComputeDirectlyStep ==
  ASSUME IInv, NEW c \in Clients, ComputeDirectly(c)
  PROVE  IInv'
<1> SUFFICES ASSUME NEW k0, k0 = Fresh PROVE IInv'
  OBVIOUS
<1> USE DEF IInv, TypeOK
<1>1. /\ layout = "demux" /\ client[c].at = "new"
      /\ client' = [client EXCEPT ![c].at = "wait", ![c].parent = k0]
      /\ comp' = [comp EXCEPT ![k0] = StartCompute(Batch(c))]
      /\ UNCHANGED <<queue, abort, worker, sleeping, owner, layout, muxQueue,
                     muxAbort, mux, muxSleeping, muxOwner>>
  BY DEF ComputeDirectly
<1>2. client[c].parent = NoComputation /\ ~client[c].dataready /\ client[c].idx = 0
  BY <1>1 DEF ClientInv, ClientOK
<1>3. k0 \in Computations /\ k0 \notin Parents(client, mux) BY <1>2, FreshIs
<1>4. comp[k0] = NewComputation BY <1>3 DEF FreeInv
<1>5. Batch(c) \in Seq(Samples) /\ Len(Batch(c)) = client[c].size /\ client[c].size \in Nat
      /\ \A i \in 1 .. client[c].size : Batch(c)[i] = <<c, i>>
  BY BatchIs
<1>6. DemuxTypeOK' /\ DemuxInv' BY <1>1, <1>3, <1>4, <1>5, DemuxStart
<1>7. /\ comp'[k0].planes = Batch(c)
      /\ \A k \in Computations : k # k0 => comp'[k] = comp[k]
  BY <1>1, <1>3, <1>5, Started DEF DemuxTypeOK
<1>8. /\ client'[c].at = "wait" /\ client'[c].parent = k0 /\ ~client'[c].dataready
      /\ client'[c].idx = 0 /\ client'[c].size = client[c].size
      /\ \A d \in Clients : d # c => client'[d] = client[d]
  BY <1>1, <1>2 DEF MuxTypeOK, ClientState
<1>9. MuxTypeOK'
  <2>1. [client[c] EXCEPT !.at = "wait", !.parent = k0] \in ClientState
    BY <1>3 DEF MuxTypeOK, ClientState
  <2>2. client' = [client EXCEPT ![c] = [client[c] EXCEPT !.at = "wait", !.parent = k0]]
    BY <1>1 DEF MuxTypeOK, ClientState
  <2>3. client' \in [Clients -> ClientState] BY <2>1, <2>2 DEF MuxTypeOK
  <2> QED BY <1>1, <2>3 DEF MuxTypeOK
<1>10. OwnerInv' BY <1>1 DEF OwnerInv
<1>11. FreeInv'
  <2> SUFFICES ASSUME NEW k \in Computations, k \notin Parents(client', mux')
               PROVE  comp'[k] = NewComputation
    BY DEF FreeInv
  <2>1. k # k0 BY <1>8 DEF Parents
  <2>2. k \notin Parents(client, mux)
    <3>1. mux' = mux /\ k # NoComputation BY <1>1, DemuxAssumption
    <3>2. \A d \in Clients : client[d].parent # k BY <1>2, <1>8, <3>1 DEF Parents
    <3>3. \A w \in MuxThreads : mux[w].parent # k BY <3>1 DEF Parents
    <3> QED BY <3>2, <3>3 DEF Parents
  <2> QED BY <1>7, <2>1, <2>2 DEF FreeInv
<1>12. MuxInv'
  <2>1. \A w \in MuxThreads : \A i \in 1 .. Len(mux[w].children) : mux[w].children[i] # c
    BY <1>1 DEF MuxInv, MuxOK
  <2>2. mux' = mux BY <1>1
  <2> QED BY <1>8, <2>1, <2>2, MuxStays
<1>13. QueueInv'
  <2>1. \A i \in 1 .. Len(muxQueue) : muxQueue[i] # c BY <1>1 DEF QueueInv
  <2>2. muxQueue' = muxQueue BY <1>1
  <2> QED BY <1>8, <2>1, <2>2, QueueStays
<1>14. ClientInv'
  <2>1. ASSUME NEW d \in Clients, d # c PROVE ClientOK(d)'
    <3>1. client[d].parent # k0 BY <1>3 DEF Parents
    <3>2. client[d].parent # NoComputation => client[d].parent \in Computations
      BY DEF MuxTypeOK, ClientState
    <3>3. client[d].parent # NoComputation => comp'[client[d].parent] = comp[client[d].parent]
      BY <1>7, <3>1, <3>2
    <3> QED BY <1>1, <1>8, <2>1, <3>3, ClientStays
  <2>2. HoldsBatch(k0, c)'
    <3> SUFFICES ASSUME NEW i \in 1 .. client[c].size
                 PROVE  0 + i <= Len(comp'[k0].planes) /\ comp'[k0].planes[0 + i] = <<c, i>>
      BY <1>8 DEF HoldsBatch
    <3> QED BY <1>5, <1>7
  <2>3. ClientOK(c)'
    <3>1. HoldsBatch(client[c].parent, c)' BY <1>8, <2>2 DEF HoldsBatch
    <3>2. k0 # NoComputation BY <1>3, DemuxAssumption
    <3> QED BY <1>8, <3>1, <3>2 DEF ClientOK
  <2> QED BY <2>1, <2>3 DEF ClientInv
<1>15. ResultsMatch' BY <1>1, <1>8, ResultsStay
<1> QED BY <1>6, <1>9, <1>10, <1>11, <1>12, <1>13, <1>14, <1>15

\* When nobody refers to an idle computation any more it is dropped, and the
\* others stay as they are.
LEMMA ReleaseIs ==
  ASSUME IInv, Release,
         \A k \in Computations : k \in Parents(client, mux) \ Parents(client', mux') =>
            Idle(comp[k])
  PROVE  /\ comp' \in [Computations -> Computation]
         /\ \A k \in Computations :
               comp'[k] = comp[k] \/ (Idle(comp[k]) /\ comp'[k] = NewComputation)
         /\ FreeInv'
         /\ \A k \in Computations : k \in Parents(client', mux') => comp'[k] = comp[k]
<1>1. comp \in [Computations -> Computation] BY DEF IInv, TypeOK, DemuxTypeOK
<1>2. \A k \in Computations :
         comp'[k] = IF k \in Parents(client', mux') THEN comp[k] ELSE NewComputation
  BY DEF Release
<1>3. comp' \in [Computations -> Computation] BY <1>1, NewIs DEF Release
<1>4. FreeInv' BY <1>2 DEF FreeInv
<1>5. ASSUME NEW k \in Computations
      PROVE  comp'[k] = comp[k] \/ (Idle(comp[k]) /\ comp'[k] = NewComputation)
  <2>1. CASE k \in Parents(client', mux') BY <1>2, <2>1
  <2>2. CASE k \notin Parents(client', mux') /\ k \notin Parents(client, mux)
    BY <1>2, <2>2 DEF IInv, FreeInv
  <2>3. CASE k \notin Parents(client', mux') /\ k \in Parents(client, mux)
    BY <1>2, <2>3
  <2> QED BY <2>1, <2>2, <2>3
<1> QED BY <1>2, <1>3, <1>4, <1>5

\* A client has its results, and nothing refers to the client any more.
LEMMA ReturnStep ==
  ASSUME IInv, NEW c \in Clients, client[c].at = "wait", ReadResults(c), Release,
         client[c].parent = NoComputation => client[c].dataready,
         client[c].parent # NoComputation => Idle(comp[client[c].parent]),
         \A i \in 1 .. Len(muxQueue) : muxQueue[i] # c,
         \A w \in MuxThreads : \A i \in 1 .. Len(mux[w].children) : mux[w].children[i] # c,
         UNCHANGED mux,
         UNCHANGED <<queue, abort, worker, sleeping, owner, layout, muxQueue,
                     muxAbort, muxSleeping, muxOwner>>
  PROVE  IInv'
<1> USE DEF IInv, TypeOK
<1>1. /\ RightResults(c)' /\ client' \in [Clients -> ClientState]
      /\ client'[c].at = "done" /\ client'[c].parent = NoComputation
      /\ \A d \in Clients : d # c => client'[d] = client[d]
  BY ReadsRight
<1>2. \A k \in Computations : k \in Parents(client, mux) \ Parents(client', mux') =>
         Idle(comp[k])
  <2> SUFFICES ASSUME NEW k \in Computations, k \in Parents(client, mux),
                      k \notin Parents(client', mux')
               PROVE  Idle(comp[k])
    OBVIOUS
  <2>1. \A w \in MuxThreads : mux[w].parent # k BY DEF Parents
  <2>2. \A d \in Clients : d # c => client[d].parent # k BY <1>1 DEF Parents
  <2>3. client[c].parent = k BY <2>1, <2>2 DEF Parents
  <2> QED BY <2>3, DemuxAssumption
<1>3. /\ comp' \in [Computations -> Computation] /\ FreeInv'
      /\ \A k \in Computations :
            comp'[k] = comp[k] \/ (Idle(comp[k]) /\ comp'[k] = NewComputation)
      /\ \A k \in Computations : k \in Parents(client', mux') => comp'[k] = comp[k]
  BY <1>2, ReleaseIs
<1>4. DemuxTypeOK' /\ DemuxInv' BY <1>3, DemuxRelease
<1>5. MuxTypeOK' BY <1>1 DEF MuxTypeOK
<1>6. OwnerInv' BY DEF OwnerInv
<1>7. MuxInv' BY <1>1, MuxStays
<1>8. QueueInv' BY <1>1, QueueStays
<1>9. ClientInv'
  <2>1. ASSUME NEW d \in Clients, d # c PROVE ClientOK(d)'
    <3>1. client'[d] = client[d] BY <1>1, <2>1
    <3>2. client[d].parent # NoComputation => client[d].parent \in Computations
      BY DEF MuxTypeOK, ClientState
    <3>3. client[d].parent \in Parents(client', mux') BY <3>1 DEF Parents
    <3>4. client[d].parent # NoComputation => comp'[client[d].parent] = comp[client[d].parent]
      BY <1>3, <3>2, <3>3
    <3> QED BY <3>1, <3>4, ClientStays
  <2>2. ClientOK(c)' BY <1>1 DEF ClientOK
  <2> QED BY <2>1, <2>2 DEF ClientInv
<1>10. ResultsMatch' BY <1>1, ResultsStay
<1> QED BY <1>3, <1>4, <1>5, <1>6, <1>7, <1>8, <1>9, <1>10

\* Whom its computation has let go finds that computation idle.
LEMMA ReturnedIdle ==
  ASSUME DemuxInv, NEW k \in Computations, Returned(k) PROVE Idle(comp[k])
BY DEF DemuxInv, ShapeInv, Shaped, Returned, Idle

LEMMA ReturnDirectlyStep ==
  ASSUME IInv, NEW c \in Clients, ReturnDirectly(c) PROVE IInv'
<1>1. /\ layout = "demux" /\ client[c].at = "wait" /\ Returned(client[c].parent)
      /\ ReadResults(c) /\ UNCHANGED mux /\ Release
      /\ UNCHANGED <<queue, abort, worker, sleeping, owner, layout, muxQueue,
                     muxAbort, muxSleeping, muxOwner>>
  BY DEF ReturnDirectly
<1>2. client[c].parent # NoComputation BY <1>1 DEF IInv, ClientInv, ClientOK
<1>3. Idle(comp[client[c].parent])
  <2>1. client[c].parent \in Computations
    BY <1>2 DEF IInv, TypeOK, MuxTypeOK, ClientState
  <2> QED BY <1>1, <2>1, ReturnedIdle DEF IInv
<1>4. muxQueue = << >> /\ \A w \in MuxThreads : mux[w].children = << >>
  BY <1>1 DEF IInv, OwnerInv, MuxInv, MuxOK
<1>5. /\ \A i \in 1 .. Len(muxQueue) : muxQueue[i] # c
      /\ \A w \in MuxThreads : \A i \in 1 .. Len(mux[w].children) : mux[w].children[i] # c
  BY <1>4
<1> QED BY <1>1, <1>2, <1>3, <1>5, ReturnStep

LEMMA MuxReturnStep ==
  ASSUME IInv, NEW c \in Clients, MuxReturn(c) PROVE IInv'
<1>1. /\ client[c].at = "wait" /\ client[c].dataready
      /\ ReadResults(c) /\ UNCHANGED mux /\ Release
      /\ UNCHANGED <<queue, abort, worker, sleeping, owner, layout, muxQueue,
                     muxAbort, muxSleeping, muxOwner>>
  BY DEF MuxReturn
<1>2. client[c].parent # NoComputation => Idle(comp[client[c].parent])
  BY <1>1 DEF IInv, ClientInv, ClientOK
<1>3. \A i \in 1 .. Len(muxQueue) : muxQueue[i] # c BY <1>1 DEF IInv, QueueInv
<1>4. \A w \in MuxThreads : \A i \in 1 .. Len(mux[w].children) : mux[w].children[i] # c
  BY <1>1 DEF IInv, MuxInv, MuxOK
<1> QED BY <1>1, <1>2, <1>3, <1>4, ReturnStep

\* A client of the multiplexing network calls.
LEMMA MuxEnqueueStep ==
  ASSUME IInv, NEW c \in Clients, MuxEnqueue(c) PROVE IInv'
<1> USE DEF IInv, TypeOK
<1>1. /\ layout = "multiplexing" /\ client[c].at = "new"
      /\ muxQueue' = Append(muxQueue, c)
      /\ client' = [client EXCEPT ![c].at = "wait"] /\ muxSleeping' \subseteq muxSleeping
      /\ UNCHANGED <<demuxVars, layout, muxAbort, mux, muxOwner>>
  BY DEF MuxEnqueue, MuxNotifyOne, MuxTypeOK
<1>2. client[c].parent = NoComputation /\ ~client[c].dataready
  BY <1>1 DEF ClientInv, ClientOK
<1>3. /\ client'[c].at = "wait" /\ client'[c].parent = NoComputation /\ ~client'[c].dataready
      /\ \A d \in Clients : d # c => client'[d] = client[d]
  BY <1>1, <1>2 DEF MuxTypeOK, ClientState
<1>4. muxQueue \in Seq(Clients) /\ comp' = comp /\ mux' = mux BY <1>1 DEF MuxTypeOK, demuxVars
<1>5. DemuxTypeOK' /\ DemuxInv' BY <1>1, DemuxStays
<1>6. MuxTypeOK'
  <2>1. [client[c] EXCEPT !.at = "wait"] \in ClientState
    <3>1. client[c] \in ClientState BY DEF MuxTypeOK
    <3> QED BY <3>1 DEF ClientState
  <2>2. client' \in [Clients -> ClientState] BY <1>1, <2>1 DEF MuxTypeOK
  <2> QED BY <1>1, <2>2 DEF MuxTypeOK
<1>7. OwnerInv' BY <1>1 DEF OwnerInv, demuxVars
<1>8. FreeInv'
  <2>1. Parents(client', mux') = Parents(client, mux)
    <3>1. \A d \in Clients : client'[d].parent = client[d].parent BY <1>2, <1>3
    <3> QED BY <1>4, <3>1 DEF Parents
  <2> QED BY <1>4, <2>1 DEF FreeInv
<1>9. MuxInv'
  <2>1. \A w \in MuxThreads : \A i \in 1 .. Len(mux[w].children) : mux[w].children[i] # c
    BY <1>1 DEF MuxInv, MuxOK
  <2> QED BY <1>3, <1>4, <2>1, MuxStays
<1>10. QueueInv'
  <2>1. \A i \in 1 .. Len(muxQueue) : muxQueue[i] # c BY <1>1 DEF QueueInv
  <2>2. /\ Len(muxQueue') = Len(muxQueue) + 1 /\ muxQueue'[Len(muxQueue) + 1] = c
        /\ \A i \in 1 .. Len(muxQueue) : muxQueue'[i] = muxQueue[i] /\ muxQueue[i] \in Clients
        /\ Len(muxQueue) \in Nat
    BY <1>1, <1>4
  <2>3. \A i \in 1 .. Len(muxQueue') : i \in 1 .. Len(muxQueue) \/ i = Len(muxQueue) + 1
    BY <2>2
  <2>4. ASSUME NEW i \in 1 .. Len(muxQueue')
        PROVE  /\ client'[muxQueue'[i]].at = "wait" /\ ~client'[muxQueue'[i]].dataready
               /\ client'[muxQueue'[i]].parent = NoComputation
    <3>1. CASE i \in 1 .. Len(muxQueue)
      <4>1. client'[muxQueue'[i]] = client[muxQueue[i]] BY <1>3, <2>1, <2>2, <3>1
      <4> QED BY <3>1, <4>1 DEF QueueInv
    <3>2. CASE i = Len(muxQueue) + 1 BY <1>3, <2>2, <3>2
    <3> QED BY <2>3, <3>1, <3>2
  <2>5. ASSUME NEW i \in 1 .. Len(muxQueue'), NEW j \in 1 .. Len(muxQueue'),
               muxQueue'[i] = muxQueue'[j]
        PROVE  i = j
    BY <2>1, <2>2, <2>3, <2>5 DEF QueueInv
  <2> QED BY <2>4, <2>5 DEF QueueInv
<1>11. ClientInv'
  <2>1. ASSUME NEW d \in Clients, d # c PROVE ClientOK(d)'
    BY <1>1, <1>3, <1>4, <2>1, ClientStays
  <2>2. ClientOK(c)' BY <1>1, <1>3 DEF ClientOK
  <2> QED BY <2>1, <2>2 DEF ClientInv
<1>12. ResultsMatch' BY <1>1, <1>3, ResultsStay DEF demuxVars
<1> QED BY <1>5, <1>6, <1>7, <1>8, <1>9, <1>10, <1>11, <1>12

\* A child of a mux thread refers to the computation of that thread.
LEMMA ChildIs ==
  ASSUME MuxTypeOK, MuxInv, NEW w \in MuxThreads, NEW i \in 1 .. Len(mux[w].children)
  PROVE  LET c == mux[w].children[i]
         IN  /\ c \in Clients /\ client[c].at = "wait" /\ ~client[c].dataready
             /\ client[c].parent = mux[w].parent /\ mux[w].parent \in Computations
<1>1. mux[w].children \in Seq(Clients) /\ mux[w].children # << >>
  BY DEF MuxTypeOK, MuxState
<1>2. mux[w].children[i] \in Clients BY <1>1
<1>3. mux[w].at = "compute" /\ mux[w].parent # NoComputation BY <1>1 DEF MuxInv, MuxOK
<1>4. mux[w].parent \in Computations BY <1>3 DEF MuxTypeOK, MuxState
<1> QED BY <1>2, <1>4 DEF MuxInv, MuxOK

\* A mux thread whose computation has returned notifies a child, or drops the
\* computation when all children have been notified.
LEMMA NotifyChildStep ==
  ASSUME IInv, NEW w \in MuxThreads, NotifyChild(w) PROVE IInv'
<1> USE DEF IInv, TypeOK
<1> SUFFICES ASSUME NEW k, k = mux[w].parent PROVE IInv'
  OBVIOUS
<1>1. /\ mux[w].at = "compute" /\ Returned(k)
      /\ UNCHANGED <<queue, abort, worker, sleeping, owner, layout, muxQueue,
                     muxAbort, muxSleeping, muxOwner>>
  BY DEF NotifyChild
<1>2. k \in Computations /\ k # NoComputation BY <1>1 DEF MuxInv, MuxOK, MuxTypeOK, MuxState
<1>3. Idle(comp[k]) BY <1>1, <1>2, ReturnedIdle
<1>4. layout = "multiplexing" BY <1>1 DEF OwnerInv, MuxTypeOK
<1>5. OwnerInv' BY <1>1, <1>4 DEF OwnerInv
<1>6. CASE mux[w].children = << >>
  <2> DEFINE e == [at |-> "lock", parent |-> NoComputation, children |-> << >>]
  <2>1. mux' = [mux EXCEPT ![w] = e] /\ client' = client /\ Release
    BY <1>6 DEF NotifyChild
  <2>2. e \in MuxState /\ e.at = "lock" /\ e.parent = NoComputation /\ e.children = << >>
    <3>1. << >> \in Seq(Clients) OBVIOUS
    <3> QED BY <3>1 DEF MuxState
  <2> HIDE DEF e
  <2>3. mux'[w] = e /\ \A v \in MuxThreads : v # w => mux'[v] = mux[v]
    BY <2>1 DEF MuxTypeOK
  <2>4. \A j \in Computations : j \in Parents(client, mux) \ Parents(client', mux') =>
           Idle(comp[j])
    <3> SUFFICES ASSUME NEW j \in Computations, j \in Parents(client, mux),
                        j \notin Parents(client', mux')
                 PROVE  Idle(comp[j])
      OBVIOUS
    <3>1. \A d \in Clients : client[d].parent # j BY <2>1 DEF Parents
    <3>2. \A v \in MuxThreads : v # w => mux[v].parent # j BY <2>3 DEF Parents
    <3>3. k = j BY <3>1, <3>2 DEF Parents
    <3> QED BY <1>3, <3>3
  <2>5. /\ comp' \in [Computations -> Computation] /\ FreeInv'
        /\ \A j \in Computations :
              comp'[j] = comp[j] \/ (Idle(comp[j]) /\ comp'[j] = NewComputation)
        /\ \A j \in Computations : j \in Parents(client', mux') => comp'[j] = comp[j]
    BY <2>1, <2>4, ReleaseIs
  <2>6. DemuxTypeOK' /\ DemuxInv' BY <1>1, <2>5, DemuxRelease
  <2>7. MuxTypeOK'
    <3>1. mux' \in [MuxThreads -> MuxState] BY <2>1, <2>2 DEF MuxTypeOK
    <3> QED BY <1>1, <2>1, <3>1 DEF MuxTypeOK
  <2>8. MuxInv'
    <3>1. ASSUME NEW v \in MuxThreads
          PROVE  /\ mux'[v].at = "compute" <=> mux'[v].parent # NoComputation
                 /\ mux'[v].at # "compute" => mux'[v].children = << >>
                 /\ mux'[v].parent # NoComputation => v # w
      BY <2>2, <2>3 DEF MuxInv, MuxOK
    <3>2. ASSUME NEW v \in MuxThreads, NEW i \in 1 .. Len(mux'[v].children)
          PROVE  v # w
      BY <2>2, <2>3
    <3> QED BY <2>1, <2>3, <3>1, <3>2 DEF MuxInv, MuxOK
  <2>9. QueueInv' BY <1>1, <2>1, QueueStays
  <2>10. ClientInv'
    <3> SUFFICES ASSUME NEW d \in Clients PROVE ClientOK(d)'
      BY DEF ClientInv
    <3>1. client'[d] = client[d] BY <2>1
    <3>2. client[d].parent # NoComputation => client[d].parent \in Computations
      BY DEF MuxTypeOK, ClientState
    <3>3. client[d].parent \in Parents(client', mux') BY <3>1 DEF Parents
    <3>4. client[d].parent # NoComputation => comp'[client[d].parent] = comp[client[d].parent]
      BY <2>5, <3>2, <3>3
    <3> QED BY <1>1, <3>1, <3>4, ClientStays
  <2>11. ResultsMatch' BY <1>1, <2>1, ResultsStay
  <2> QED BY <1>5, <2>5, <2>6, <2>7, <2>8, <2>9, <2>10, <2>11
<1>7. CASE mux[w].children # << >>
  <2> SUFFICES ASSUME NEW c, c = Head(mux[w].children) PROVE IInv'
    OBVIOUS
  <2>1. /\ client' = [client EXCEPT ![c].dataready = TRUE]
        /\ mux' = [mux EXCEPT ![w].children = Tail(@)] /\ comp' = comp
    BY <1>7 DEF NotifyChild
  <2>2. /\ mux[w].children \in Seq(Clients) /\ Len(mux[w].children) \in Nat \ {0}
        /\ c = mux[w].children[1]
    BY <1>7 DEF MuxTypeOK, MuxState
  <2>3. /\ c \in Clients /\ client[c].at = "wait" /\ client[c].parent = k
    <3>1. 1 \in 1 .. Len(mux[w].children) BY <2>2
    <3> QED BY <2>2, <3>1, ChildIs
  <2>4. /\ client'[c].at = "wait" /\ client'[c].parent = k /\ client'[c].dataready
        /\ client'[c].idx = client[c].idx /\ client'[c].size = client[c].size
        /\ \A d \in Clients : d # c => client'[d] = client[d]
    BY <2>1, <2>3 DEF MuxTypeOK, ClientState
  <2>5. /\ mux'[w].at = "compute" /\ mux'[w].parent = k
        /\ mux'[w].children = Tail(mux[w].children)
        /\ \A v \in MuxThreads : v # w => mux'[v] = mux[v]
    BY <1>1, <2>1 DEF MuxTypeOK, MuxState
  <2>6. /\ Tail(mux[w].children) \in Seq(Clients)
        /\ Len(Tail(mux[w].children)) = Len(mux[w].children) - 1
        /\ \A i \in 1 .. Len(mux[w].children) - 1 :
              /\ i + 1 \in 1 .. Len(mux[w].children) /\ i + 1 # 1
              /\ Tail(mux[w].children)[i] = mux[w].children[i + 1]
    BY <1>7, <2>2
  <2>7. DemuxTypeOK' /\ DemuxInv'
    <3>1. UNCHANGED demuxVars BY <1>1, <2>1 DEF demuxVars
    <3> QED BY <3>1, DemuxStays
  <2>8. MuxTypeOK'
    <3>1. client' \in [Clients -> ClientState]
      <4>1. client[c] \in ClientState BY <2>3 DEF MuxTypeOK
      <4>2. [client[c] EXCEPT !.dataready = TRUE] \in ClientState BY <4>1 DEF ClientState
      <4> QED BY <2>1, <4>2 DEF MuxTypeOK
    <3>2. mux' \in [MuxThreads -> MuxState]
      <4>1. mux[w] \in MuxState BY DEF MuxTypeOK
      <4>2. [mux[w] EXCEPT !.children = Tail(mux[w].children)] \in MuxState
        BY <2>6, <4>1 DEF MuxState
      <4>3. mux' = [mux EXCEPT ![w] = [mux[w] EXCEPT !.children = Tail(mux[w].children)]]
        BY <2>1 DEF MuxTypeOK, MuxState
      <4> QED BY <4>2, <4>3 DEF MuxTypeOK
    <3> QED BY <1>1, <3>1, <3>2 DEF MuxTypeOK
  <2>9. FreeInv'
    <3>1. \A d \in Clients : client'[d].parent = client[d].parent BY <2>3, <2>4
    <3>2. \A v \in MuxThreads : mux'[v].parent = mux[v].parent BY <2>5
    <3>3. Parents(client', mux') = Parents(client, mux) BY <3>1, <3>2 DEF Parents
    <3> QED BY <2>1, <3>3 DEF FreeInv
  <2>10. MuxInv'
    <3>1. ASSUME NEW v \in MuxThreads, v # w, NEW i \in 1 .. Len(mux[v].children)
          PROVE  client'[mux[v].children[i]] = client[mux[v].children[i]]
      <4>1. mux[v].children[i] \in Clients
            /\ client[mux[v].children[i]].parent = mux[v].parent
        BY ChildIs
      <4>2. mux[v].parent # k BY <1>2, <3>1 DEF MuxInv, MuxOK
      <4> QED BY <2>3, <2>4, <4>1, <4>2
    <3>2. ASSUME NEW i \in 1 .. Len(mux[w].children) - 1
          PROVE  LET d == Tail(mux[w].children)[i]
                 IN  client'[d] = client[d] /\ client[d].at = "wait"
                     /\ ~client[d].dataready /\ client[d].parent = k
      <4>1. Tail(mux[w].children)[i] = mux[w].children[i + 1]
            /\ i + 1 \in 1 .. Len(mux[w].children) /\ 1 \in 1 .. Len(mux[w].children)
            /\ i + 1 # 1
        BY <2>2, <2>6
      <4>2. mux[w].children[i + 1] # c BY <2>2, <4>1 DEF MuxInv, MuxOK
      <4> QED BY <2>4, <4>1, <4>2, ChildIs
    <3>3. ASSUME NEW i \in 1 .. Len(mux[w].children) - 1,
                 NEW j \in 1 .. Len(mux[w].children) - 1,
                 Tail(mux[w].children)[i] = Tail(mux[w].children)[j]
          PROVE  i = j
      <4>1. mux[w].children[i + 1] = mux[w].children[j + 1] BY <2>6, <3>3
      <4>2. i + 1 = j + 1 BY <2>6, <4>1 DEF MuxInv, MuxOK
      <4> QED BY <4>2
    <3>4. MuxOK(w)' BY <1>2, <2>5, <2>6, <3>2, <3>3 DEF MuxOK
    <3>5. ASSUME NEW v \in MuxThreads, v # w PROVE MuxOK(v)'
      <4>1. mux'[v] = mux[v] BY <2>5, <3>5
      <4> QED BY <3>1, <3>5, <4>1 DEF MuxInv, MuxOK
    <3>6. \A u, v \in MuxThreads :
             mux'[u].parent = mux'[v].parent /\ mux'[v].parent # NoComputation => u = v
      <4>1. \A v \in MuxThreads : mux'[v].parent = mux[v].parent BY <2>5
      <4> QED BY <4>1 DEF MuxInv, MuxOK
    <3>7. \A v \in MuxThreads : MuxOK(v)' BY <3>4, <3>5
    <3> QED BY <3>6, <3>7 DEF MuxInv
  <2>11. QueueInv'
    <3>1. \A i \in 1 .. Len(muxQueue) : muxQueue[i] # c BY <1>2, <2>3 DEF QueueInv
    <3> QED BY <1>1, <2>4, <3>1, QueueStays
  <2>12. ClientInv'
    <3>1. ASSUME NEW d \in Clients, d # c PROVE ClientOK(d)'
      BY <1>1, <2>1, <2>4, <3>1, ClientStays
    <3>2. HoldsBatch(client[c].parent, c)'
      <4>1. HoldsBatch(k, c) BY <1>2, <2>3 DEF ClientInv, ClientOK
      <4>2. HoldsBatch(k, c)' BY <2>1, <2>4, <4>1 DEF HoldsBatch
      <4> QED BY <2>4, <4>2 DEF HoldsBatch
    <3>3. ClientOK(c)' BY <1>2, <1>3, <2>1, <2>4, <3>2 DEF ClientOK
    <3> QED BY <3>1, <3>3 DEF ClientInv
  <2>13. ResultsMatch' BY <1>1, <2>4, ResultsStay
  <2> QED BY <1>5, <2>7, <2>8, <2>9, <2>10, <2>11, <2>12, <2>13
<1> QED BY <1>6, <1>7

\* A mux thread gathers the front of the queue into a new computation.
LEMMA GatherSome ==
  ASSUME IInv, NEW w \in MuxThreads, mux[w].at \in {"lock", "asleep"},
         NEW k0, k0 = Fresh, NEW g, g = Gathered,
         NEW cs, cs = SubSeq(muxQueue, 1, g), Populate(k0, cs),
         mux' = [mux EXCEPT ![w] = [at |-> "compute", parent |-> k0, children |-> cs]],
         muxQueue' = SubSeq(muxQueue, g + 1, Len(muxQueue)),
         UNCHANGED <<queue, abort, worker, sleeping, owner, layout, muxAbort,
                     muxSleeping, muxOwner>>
  PROVE  IInv'
<1> USE DEF IInv, TypeOK
<1>1. mux[w].parent = NoComputation BY DEF MuxInv, MuxOK
<1>2. k0 \in Computations /\ k0 \notin Parents(client, mux) /\ k0 # NoComputation
  BY <1>1, FreshIs, DemuxAssumption
<1>3. comp[k0] = NewComputation BY <1>2 DEF FreeInv
<1>4. /\ muxQueue \in Seq(Clients) /\ Len(muxQueue) \in Nat /\ g \in 0 .. Len(muxQueue)
  BY GatheredIs DEF MuxTypeOK
<1>5. /\ cs \in Seq(Clients) /\ Len(cs) = g /\ \A i \in 1 .. g : cs[i] = muxQueue[i]
  <2>1. \A i \in 1 .. g : muxQueue[i] \in Clients BY <1>4
  <2>2. /\ SubSeq(muxQueue, 1, g) \in Seq(Clients)
        /\ Len(SubSeq(muxQueue, 1, g)) = IF 1 <= g THEN g - 1 + 1 ELSE 0
        /\ \A i \in 1 .. g - 1 + 1 : SubSeq(muxQueue, 1, g)[i] = muxQueue[1 + i - 1]
    BY <1>4, <2>1, SubSeqProperties
  <2>3. g - 1 + 1 = g /\ (IF 1 <= g THEN g - 1 + 1 ELSE 0) = g
        /\ \A i \in 1 .. g : 1 + i - 1 = i
    BY <1>4
  <2> QED BY <2>2, <2>3
<1>6. /\ muxQueue' \in Seq(Clients) /\ Len(muxQueue') = Len(muxQueue) - g
      /\ \A i \in 1 .. Len(muxQueue) - g : muxQueue'[i] = muxQueue[g + i]
  <2>1. \A i \in g + 1 .. Len(muxQueue) : muxQueue[i] \in Clients BY <1>4
  <2>2. /\ muxQueue' \in Seq(Clients)
        /\ Len(muxQueue') = IF g + 1 <= Len(muxQueue) THEN Len(muxQueue) - (g + 1) + 1 ELSE 0
        /\ \A i \in 1 .. Len(muxQueue) - (g + 1) + 1 : muxQueue'[i] = muxQueue[g + 1 + i - 1]
    BY <1>4, <2>1, SubSeqProperties
  <2>3. /\ Len(muxQueue) - (g + 1) + 1 = Len(muxQueue) - g
        /\ (IF g + 1 <= Len(muxQueue) THEN Len(muxQueue) - (g + 1) + 1 ELSE 0) = Len(muxQueue) - g
        /\ \A i \in 1 .. Len(muxQueue) - g : g + 1 + i - 1 = g + i
    BY <1>4
  <2> QED BY <2>2, <2>3
<1>7. \A i \in 1 .. g : /\ cs[i] \in Clients /\ client[cs[i]].at = "wait"
                        /\ ~client[cs[i]].dataready /\ client[cs[i]].parent = NoComputation
  <2>1. \A i \in 1 .. g : i \in 1 .. Len(muxQueue) BY <1>4
  <2> QED BY <1>5, <2>1 DEF QueueInv
<1>8. \A i, j \in 1 .. g : cs[i] = cs[j] => i = j
  <2>1. \A i \in 1 .. g : i \in 1 .. Len(muxQueue) BY <1>4
  <2> QED BY <1>5, <2>1 DEF QueueInv
<1>9. ToSet(cs) = {cs[i] : i \in 1 .. g}
  <2>1. DOMAIN cs = 1 .. g BY <1>5
  <2> QED BY <2>1 DEF ToSet
<1> DEFINE Place(c) == CHOOSE j \in 1 .. Len(cs) : cs[j] = c
           Taken(c) == [client[c] EXCEPT !.parent = k0,
                            !.idx = Len(Inputs(SubSeq(cs, 1, Place(c) - 1)))]
<1>10. ASSUME NEW i \in 1 .. g
       PROVE  /\ client'[cs[i]] = [client[cs[i]] EXCEPT !.parent = k0,
                                      !.idx = Len(Inputs(SubSeq(cs, 1, i - 1)))]
              /\ Len(Inputs(SubSeq(cs, 1, i - 1))) \in Nat
  <2>1. cs[i] \in ToSet(cs) /\ cs[i] \in Clients BY <1>7, <1>9
  <2>2. Place(cs[i]) = i BY <1>5, <1>8
  <2>3. client'[cs[i]] = Taken(cs[i]) BY <2>1 DEF Populate
  <2>4. SubSeq(cs, 1, i - 1) \in Seq(Clients) BY <1>4, <1>5
  <2>5. Inputs(SubSeq(cs, 1, i - 1)) \in Seq(Samples) BY <2>4, InputsType
  <2>6. Len(Inputs(SubSeq(cs, 1, i - 1))) \in Nat BY <2>5
  <2>7. Taken(cs[i]) = [client[cs[i]] EXCEPT !.parent = k0,
                           !.idx = Len(Inputs(SubSeq(cs, 1, i - 1)))]
    <3> HIDE DEF Place
    <3> QED BY <2>2
  <2> HIDE DEF Place, Taken
  <2> QED BY <2>3, <2>6, <2>7
<1>11. \A c \in Clients : c \notin ToSet(cs) => client'[c] = client[c]
  BY DEF Populate
<1>12. ASSUME NEW i \in 1 .. g
       PROVE  LET c == cs[i]
              IN  /\ client'[c] \in ClientState /\ client'[c].at = "wait"
                  /\ ~client'[c].dataready /\ client'[c].parent = k0
                  /\ client'[c].size = client[c].size
                  /\ client'[c].idx = Len(Inputs(SubSeq(cs, 1, i - 1)))
  <2> DEFINE c == cs[i]
             n == Len(Inputs(SubSeq(cs, 1, i - 1)))
  <2>1. client'[c] = [client[c] EXCEPT !.parent = k0, !.idx = n] /\ n \in Nat BY <1>10
  <2>2. c \in Clients /\ client[c].at = "wait" /\ ~client[c].dataready BY <1>7
  <2> HIDE DEF c, n
  <2>3. client[c] \in ClientState BY <2>2 DEF MuxTypeOK
  <2>4. /\ client'[c] \in ClientState /\ client'[c].at = "wait"
        /\ ~client'[c].dataready /\ client'[c].parent = k0
        /\ client'[c].size = client[c].size /\ client'[c].idx = n
    BY <1>2, <2>1, <2>2, <2>3 DEF ClientState
  <2> QED BY <2>4 DEF c, n
<1> HIDE DEF Place, Taken
<1>13. Inputs(cs) \in Seq(Samples) BY <1>5, InputsType
<1>14. comp' = [comp EXCEPT ![k0] = StartCompute(Inputs(cs))] BY DEF Populate
<1>15. DemuxTypeOK' /\ DemuxInv' BY <1>2, <1>3, <1>13, <1>14, DemuxStart
<1>16. /\ comp'[k0].planes = Inputs(cs)
       /\ \A k \in Computations : k # k0 => comp'[k] = comp[k]
  BY <1>2, <1>13, <1>14, Started DEF DemuxTypeOK
<1>17. /\ mux'[w].at = "compute" /\ mux'[w].parent = k0 /\ mux'[w].children = cs
       /\ \A v \in MuxThreads : v # w => mux'[v] = mux[v]
  BY DEF MuxTypeOK
<1>18. MuxTypeOK'
  <2>1. [at |-> "compute", parent |-> k0, children |-> cs] \in MuxState
    BY <1>2, <1>5 DEF MuxState
  <2>2. mux' \in [MuxThreads -> MuxState] BY <2>1 DEF MuxTypeOK
  <2>3. client' \in [Clients -> ClientState]
    <3>1. \A c \in Clients : client'[c] \in ClientState
      BY <1>9, <1>11, <1>12 DEF MuxTypeOK
    <3>2. client' = [c \in Clients |-> client'[c]] 
      <4> DEFINE f == [c \in Clients |-> IF c \in ToSet(cs) THEN Taken(c) ELSE client[c]]
      <4>1. client' = f BY DEF Populate, Taken, Place
      <4>2. f = [c \in Clients |-> f[c]] OBVIOUS
      <4> HIDE DEF f
      <4> QED BY <4>1, <4>2
    <3> QED BY <3>1, <3>2
  <2> QED BY <1>6, <2>2, <2>3 DEF MuxTypeOK
<1>19. OwnerInv'
  <2>1. layout # "demux" BY DEF OwnerInv
  <2> QED BY <2>1 DEF OwnerInv
<1>20. FreeInv'
  <2> SUFFICES ASSUME NEW k \in Computations, k \notin Parents(client', mux')
               PROVE  comp'[k] = NewComputation
    BY DEF FreeInv
  <2>1. k # k0 BY <1>17 DEF Parents
  <2>2. \A d \in Clients : client[d].parent # k
    <3> TAKE d \in Clients
    <3>1. CASE d \in ToSet(cs) BY <1>7, <1>9, <3>1, DemuxAssumption
    <3>2. CASE d \notin ToSet(cs) BY <1>11, <3>2 DEF Parents
    <3> QED BY <3>1, <3>2
  <2>3. \A v \in MuxThreads : mux[v].parent # k
    <3> TAKE v \in MuxThreads
    <3>1. CASE v = w BY <1>1, <3>1, DemuxAssumption
    <3>2. CASE v # w BY <1>17, <3>2 DEF Parents
    <3> QED BY <3>1, <3>2
  <2>4. k \notin Parents(client, mux) BY <2>2, <2>3 DEF Parents
  <2> QED BY <1>16, <2>1, <2>4 DEF FreeInv
<1>21. MuxInv'
  <2>1. ASSUME NEW v \in MuxThreads, v # w, NEW i \in 1 .. Len(mux[v].children)
        PROVE  client'[mux[v].children[i]] = client[mux[v].children[i]]
    <3>1. /\ mux[v].children[i] \in Clients
          /\ client[mux[v].children[i]].parent # NoComputation
      BY ChildIs, DemuxAssumption
    <3>2. mux[v].children[i] \notin ToSet(cs) BY <1>7, <1>9, <3>1
    <3> QED BY <1>11, <3>1, <3>2
  <2>2. MuxOK(w)' BY <1>2, <1>5, <1>8, <1>12, <1>17 DEF MuxOK
  <2>3. ASSUME NEW v \in MuxThreads, v # w PROVE MuxOK(v)'
    <3>1. mux'[v] = mux[v] BY <1>17, <2>3
    <3> QED BY <2>1, <2>3, <3>1 DEF MuxInv, MuxOK
  <2>4. ASSUME NEW u \in MuxThreads, NEW v \in MuxThreads,
               mux'[u].parent = mux'[v].parent, mux'[v].parent # NoComputation
        PROVE  u = v
    <3>1. \A x \in MuxThreads : mux[x].parent # k0 BY <1>2 DEF Parents
    <3>2. CASE u = w \/ v = w BY <1>17, <2>4, <3>1, <3>2
    <3>3. CASE u # w /\ v # w BY <1>17, <2>4, <3>3 DEF MuxInv, MuxOK
    <3> QED BY <3>2, <3>3
  <2>5. \A v \in MuxThreads : MuxOK(v)' BY <2>2, <2>3
  <2> QED BY <2>4, <2>5 DEF MuxInv
<1>22. QueueInv'
  <2>1. ASSUME NEW i \in 1 .. Len(muxQueue) - g
        PROVE  /\ g + i \in 1 .. Len(muxQueue) /\ muxQueue'[i] = muxQueue[g + i]
               /\ client'[muxQueue'[i]] = client[muxQueue'[i]]
    <3>1. g + i \in 1 .. Len(muxQueue) /\ g + i \notin 1 .. g BY <1>4
    <3>2. muxQueue'[i] = muxQueue[g + i] /\ muxQueue[g + i] \in Clients BY <1>4, <1>6, <3>1
    <3>3. muxQueue[g + i] \notin ToSet(cs)
      <4>1. \A j \in 1 .. g : j \in 1 .. Len(muxQueue) /\ muxQueue[j] # muxQueue[g + i]
        BY <1>4, <3>1 DEF QueueInv
      <4> QED BY <1>5, <1>9, <4>1
    <3> QED BY <1>11, <3>1, <3>2, <3>3
  <2>2. \A i \in 1 .. Len(muxQueue') :
           /\ client'[muxQueue'[i]].at = "wait" /\ ~client'[muxQueue'[i]].dataready
           /\ client'[muxQueue'[i]].parent = NoComputation
    <3> TAKE i \in 1 .. Len(muxQueue')
    <3>1. i \in 1 .. Len(muxQueue) - g BY <1>6
    <3>2. /\ g + i \in 1 .. Len(muxQueue)
          /\ client'[muxQueue'[i]] = client[muxQueue[g + i]]
      BY <2>1, <3>1
    <3> QED BY <3>2 DEF QueueInv
  <2>3. ASSUME NEW i \in 1 .. Len(muxQueue'), NEW j \in 1 .. Len(muxQueue'),
               muxQueue'[i] = muxQueue'[j]
        PROVE  i = j
    <3>1. i \in 1 .. Len(muxQueue) - g /\ j \in 1 .. Len(muxQueue) - g BY <1>6
    <3>2. /\ g + i \in 1 .. Len(muxQueue) /\ g + j \in 1 .. Len(muxQueue)
          /\ muxQueue[g + i] = muxQueue[g + j]
      BY <2>1, <2>3, <3>1
    <3>3. g + i = g + j BY <3>2 DEF QueueInv
    <3> QED BY <1>4, <3>1, <3>3
  <2> QED BY <2>2, <2>3 DEF QueueInv
<1>23. ClientInv'
  <2>1. ASSUME NEW d \in Clients, d \notin ToSet(cs) PROVE ClientOK(d)'
    <3>1. client[d].parent # k0 BY <1>2 DEF Parents
    <3>2. client[d].parent # NoComputation => client[d].parent \in Computations
      BY DEF MuxTypeOK, ClientState
    <3>3. client[d].parent # NoComputation => comp'[client[d].parent] = comp[client[d].parent]
      BY <1>16, <3>1, <3>2
    <3> QED BY <1>11, <2>1, <3>3, ClientStays
  <2>2. ASSUME NEW i \in 1 .. g PROVE ClientOK(cs[i])'
    <3> SUFFICES ASSUME NEW c, c = cs[i] PROVE ClientOK(c)'
      OBVIOUS
    <3>1. /\ client'[c].at = "wait" /\ ~client'[c].dataready /\ client'[c].parent = k0
          /\ client'[c].size = client[c].size
          /\ client'[c].idx = Len(Inputs(SubSeq(cs, 1, i - 1)))
      BY <1>12
    <3>2. i \in 1 .. Len(cs) BY <1>5
    <3>3. \A x \in 1 .. client[c].size :
             /\ client'[c].idx + x <= Len(comp'[k0].planes)
             /\ comp'[k0].planes[client'[c].idx + x] = <<c, x>>
      <4> TAKE x \in 1 .. client[c].size
      <4> DEFINE n == Len(Inputs(SubSeq(cs, 1, i - 1)))
      <4>1. x \in 1 .. client[cs[i]].size OBVIOUS
      <4>2. n + x <= Len(Inputs(cs)) /\ Inputs(cs)[n + x] = <<cs[i], x>>
        BY <1>5, <3>2, <4>1, InputsAt
      <4>3. client'[c].idx = n BY <3>1
      <4> HIDE DEF n
      <4> QED BY <1>16, <4>2, <4>3
    <3>4. HoldsBatch(client[c].parent, c)' BY <3>1, <3>3 DEF HoldsBatch
    <3> QED BY <1>2, <3>1, <3>4 DEF ClientOK
  <2> SUFFICES ASSUME NEW d \in Clients PROVE ClientOK(d)'
    BY DEF ClientInv
  <2>3. CASE d \in ToSet(cs)
    <3>1. PICK i \in 1 .. g : d = cs[i] BY <1>9, <2>3
    <3> QED BY <2>2, <3>1
  <2> QED BY <2>1, <2>3
<1>24. ResultsMatch'
  <2>1. \A d \in Clients : client'[d].at = "done" => client'[d] = client[d]
    BY <1>9, <1>11, <1>12
  <2> QED BY <2>1, ResultsStay
<1> QED BY <1>15, <1>18, <1>19, <1>20, <1>21, <1>22, <1>23, <1>24

\* A mux thread that has no children and no computation only changes its place.
LEMMA MuxPlace ==
  ASSUME IInv, NEW w \in MuxThreads, mux[w].at \in {"lock", "asleep"},
         NEW e \in MuxState, e.at \in {"asleep", "exited"}, e.parent = NoComputation,
         e.children = << >>, mux' = [mux EXCEPT ![w] = e],
         muxSleeping' \subseteq MuxThreads,
         UNCHANGED <<demuxVars, layout, client, muxQueue, muxAbort, muxOwner>>
  PROVE  IInv'
<1> USE DEF IInv, TypeOK
<1>1. /\ mux'[w] = e /\ \A v \in MuxThreads : v # w => mux'[v] = mux[v]
  BY DEF MuxTypeOK
<1>2. mux[w].parent = NoComputation BY DEF MuxInv, MuxOK
<1>3. DemuxTypeOK' /\ DemuxInv' BY DemuxStays
<1>4. comp' = comp /\ abort' = abort /\ owner' = owner BY DEF demuxVars
<1>5. MuxTypeOK' BY DEF MuxTypeOK
<1>6. OwnerInv' BY <1>1, <1>4 DEF OwnerInv
<1>7. FreeInv'
  <2>1. \A v \in MuxThreads : mux'[v].parent = mux[v].parent BY <1>1, <1>2
  <2>2. Parents(client', mux') = Parents(client, mux) BY <2>1 DEF Parents
  <2> QED BY <1>4, <2>2 DEF FreeInv
<1>8. MuxInv'
  <2>1. MuxOK(w)' BY <1>1 DEF MuxOK
  <2>2. ASSUME NEW v \in MuxThreads, v # w PROVE MuxOK(v)'
    <3>1. mux'[v] = mux[v] BY <1>1, <2>2
    <3> QED BY <3>1 DEF MuxInv, MuxOK
  <2>3. \A v \in MuxThreads : MuxOK(v)' BY <2>1, <2>2
  <2>4. \A u, v \in MuxThreads :
           mux'[u].parent = mux'[v].parent /\ mux'[v].parent # NoComputation => u = v
    BY <1>1 DEF MuxInv
  <2> QED BY <2>3, <2>4 DEF MuxInv
<1>9. QueueInv' BY QueueStays
<1>10. ClientInv'
  <2>1. ASSUME NEW d \in Clients PROVE ClientOK(d)' BY <1>4, ClientStays
  <2> QED BY <2>1 DEF ClientInv
<1>11. ResultsMatch' BY <1>4, ResultsStay
<1> QED BY <1>3, <1>5, <1>6, <1>7, <1>8, <1>9, <1>10, <1>11

\* The critical section of a mux thread.
LEMMA GatherStep ==
  ASSUME IInv, NEW w \in MuxThreads, Gather(w) PROVE IInv'
<1>1. /\ mux[w].at \in {"lock", "asleep"}
      /\ UNCHANGED <<queue, abort, worker, sleeping, owner, layout, muxAbort, muxOwner>>
  BY DEF Gather
<1>2. mux[w] \in MuxState /\ mux \in [MuxThreads -> MuxState] /\ muxSleeping \subseteq MuxThreads
  BY DEF IInv, TypeOK, MuxTypeOK
<1>3. << >> \in Seq(Clients) OBVIOUS
<1>4. CASE muxAbort
  <2> DEFINE e == [at |-> "exited", parent |-> NoComputation, children |-> << >>]
  <2>1. mux' = [mux EXCEPT ![w] = e] /\ UNCHANGED <<comp, client, muxQueue, muxSleeping>>
    BY <1>4 DEF Gather, Exit
  <2>2. e \in MuxState /\ e.at = "exited" /\ e.parent = NoComputation /\ e.children = << >>
    BY <1>3 DEF MuxState
  <2> HIDE DEF e
  <2>3. UNCHANGED <<demuxVars, layout, client, muxQueue, muxAbort, muxOwner>>
    BY <1>1, <2>1 DEF demuxVars
  <2> QED BY <1>1, <1>2, <2>1, <2>2, <2>3, MuxPlace
<1>5. CASE ~muxAbort /\ muxQueue = << >>
  <2> DEFINE e == [mux[w] EXCEPT !.at = "asleep"]
  <2>1. /\ mux' = [mux EXCEPT ![w] = e] /\ muxSleeping' = muxSleeping \cup {w}
        /\ UNCHANGED <<comp, client, muxQueue>>
    BY <1>5 DEF Gather
  <2>2. mux[w].parent = NoComputation /\ mux[w].children = << >>
    BY <1>1 DEF IInv, MuxInv, MuxOK
  <2>3. e \in MuxState /\ e.at = "asleep" /\ e.parent = NoComputation /\ e.children = << >>
    BY <1>2, <2>2 DEF MuxState
  <2> HIDE DEF e
  <2>4. UNCHANGED <<demuxVars, layout, client, muxQueue, muxAbort, muxOwner>>
    BY <1>1, <2>1 DEF demuxVars
  <2>5. muxSleeping' \subseteq MuxThreads BY <1>2, <2>1
  <2> QED BY <1>1, <2>1, <2>3, <2>4, <2>5, MuxPlace
<1>6. CASE ~muxAbort /\ muxQueue # << >>
  <2> SUFFICES ASSUME NEW k0, k0 = Fresh, NEW g, g = Gathered,
                      NEW cs, cs = SubSeq(muxQueue, 1, g)
               PROVE  IInv'
    OBVIOUS
  <2>1. /\ Populate(k0, cs)
        /\ mux' = [mux EXCEPT ![w] = [at |-> "compute", parent |-> k0, children |-> cs]]
        /\ muxQueue' = SubSeq(muxQueue, g + 1, Len(muxQueue))
        /\ UNCHANGED muxSleeping
    BY <1>6 DEF Gather
  <2> QED BY <1>1, <2>1, GatherSome
<1> QED BY <1>4, <1>5, <1>6

\* The destructor of the multiplexing network.
LEMMA MuxDestructorStep ==
  ASSUME IInv, MuxDestructor PROVE IInv'
<1> USE DEF IInv, TypeOK
<1>1. UNCHANGED <<demuxVars, layout, mux>> /\ (muxAbort => muxAbort')
      /\ comp' = comp /\ abort' = abort
  BY DEF MuxDestructor, MuxAbort, MuxJoined, MuxUnstuck, demuxVars
<1>2. DemuxTypeOK' /\ DemuxInv' BY <1>1, DemuxStays
<1>3. CASE MuxAbort \/ MuxJoined \/ (MuxUnstuck /\ muxQueue = << >>)
  <2>1. /\ client' = client /\ muxQueue' = muxQueue /\ muxSleeping' \subseteq muxSleeping
        /\ muxAbort' \in BOOLEAN /\ muxOwner' \in {"joining", "unstuck", "gone"}
        /\ muxOwner' \in {"joining", "unstuck"} => muxAbort'
    <3>1. CASE MuxAbort BY <3>1 DEF MuxAbort
    <3>2. CASE MuxJoined BY <3>2 DEF MuxJoined, MuxTypeOK, OwnerInv
    <3>3. CASE MuxUnstuck /\ muxQueue = << >> BY <3>3 DEF MuxUnstuck, MuxTypeOK
    <3> QED BY <1>3, <3>1, <3>2, <3>3
  <2>2. MuxTypeOK' BY <1>1, <2>1 DEF MuxTypeOK
  <2>3. OwnerInv' BY <1>1, <2>1 DEF OwnerInv, demuxVars
  <2>4. FreeInv' BY <1>1, <2>1 DEF FreeInv, Parents
  <2>5. MuxInv' BY <1>1, <2>1, MuxStays
  <2>6. QueueInv' BY <2>1, QueueStays
  <2>7. ClientInv'
    <3>1. ASSUME NEW d \in Clients PROVE ClientOK(d)' BY <1>1, <2>1, ClientStays
    <3> QED BY <3>1 DEF ClientInv
  <2>8. ResultsMatch' BY <1>1, <2>1, ResultsStay
  <2> QED BY <1>2, <2>2, <2>3, <2>4, <2>5, <2>6, <2>7, <2>8
<1>4. CASE MuxUnstuck /\ muxQueue # << >>
  <2> SUFFICES ASSUME NEW c, c = Head(muxQueue) PROVE IInv'
    OBVIOUS
  <2>1. /\ muxOwner = "unstuck" /\ client' = [client EXCEPT ![c].dataready = TRUE]
        /\ muxQueue' = Tail(muxQueue) /\ UNCHANGED <<muxOwner, muxAbort, muxSleeping>>
    BY <1>4 DEF MuxUnstuck
  <2>2. muxAbort BY <2>1 DEF OwnerInv
  <2>3. muxQueue \in Seq(Clients) /\ Len(muxQueue) \in Nat \ {0} /\ c = muxQueue[1]
    BY <1>4 DEF MuxTypeOK
  <2>4. c \in Clients /\ client[c].at = "wait" /\ client[c].parent = NoComputation
    <3>1. 1 \in 1 .. Len(muxQueue) BY <2>3
    <3> QED BY <2>3, <3>1 DEF QueueInv
  <2>5. /\ client'[c].at = "wait" /\ client'[c].parent = NoComputation
        /\ \A d \in Clients : d # c => client'[d] = client[d]
    BY <2>1, <2>4 DEF MuxTypeOK, ClientState
  <2>6. /\ Tail(muxQueue) \in Seq(Clients) /\ Len(Tail(muxQueue)) = Len(muxQueue) - 1
        /\ \A i \in 1 .. Len(muxQueue) - 1 :
              /\ i + 1 \in 1 .. Len(muxQueue) /\ i + 1 # 1
              /\ Tail(muxQueue)[i] = muxQueue[i + 1]
    BY <1>4, <2>3
  <2>7. MuxTypeOK'
    <3>1. client[c] \in ClientState BY <2>4 DEF MuxTypeOK
    <3>2. [client[c] EXCEPT !.dataready = TRUE] \in ClientState BY <3>1 DEF ClientState
    <3>3. client' \in [Clients -> ClientState] BY <2>1, <3>2 DEF MuxTypeOK
    <3> QED BY <1>1, <2>1, <2>6, <3>3 DEF MuxTypeOK
  <2>8. OwnerInv' BY <1>1, <1>4, <2>1 DEF OwnerInv, demuxVars
  <2>9. FreeInv'
    <3>1. \A d \in Clients : client'[d].parent = client[d].parent BY <2>4, <2>5
    <3>2. Parents(client', mux') = Parents(client, mux) BY <1>1, <3>1 DEF Parents
    <3> QED BY <1>1, <3>2 DEF FreeInv
  <2>10. MuxInv'
    <3>1. \A w \in MuxThreads : \A i \in 1 .. Len(mux[w].children) : mux[w].children[i] # c
      BY <2>4, ChildIs, DemuxAssumption
    <3> QED BY <1>1, <2>5, <3>1, MuxStays
  <2>11. QueueInv'
    <3>1. ASSUME NEW i \in 1 .. Len(muxQueue) - 1
          PROVE  /\ i + 1 \in 1 .. Len(muxQueue) /\ muxQueue'[i] = muxQueue[i + 1]
                 /\ client'[muxQueue'[i]] = client[muxQueue[i + 1]]
      <4>1. /\ i + 1 \in 1 .. Len(muxQueue) /\ i + 1 # 1 /\ muxQueue'[i] = muxQueue[i + 1]
            /\ muxQueue[i + 1] \in Clients /\ 1 \in 1 .. Len(muxQueue)
        BY <2>1, <2>3, <2>6
      <4>2. muxQueue[i + 1] # c BY <2>3, <4>1 DEF QueueInv
      <4> QED BY <2>5, <4>1, <4>2
    <3>2. 1 .. Len(muxQueue') = 1 .. Len(muxQueue) - 1 BY <2>1, <2>6
    <3>3. ASSUME NEW i \in 1 .. Len(muxQueue')
          PROVE  /\ client'[muxQueue'[i]].at = "wait" /\ ~client'[muxQueue'[i]].dataready
                 /\ client'[muxQueue'[i]].parent = NoComputation
      BY <3>1, <3>2 DEF QueueInv
    <3>4. ASSUME NEW i \in 1 .. Len(muxQueue'), NEW j \in 1 .. Len(muxQueue'),
                 muxQueue'[i] = muxQueue'[j]
          PROVE  i = j
      <4>1. i \in 1 .. Len(muxQueue) - 1 /\ j \in 1 .. Len(muxQueue) - 1 BY <3>2
      <4>2. /\ i + 1 \in 1 .. Len(muxQueue) /\ j + 1 \in 1 .. Len(muxQueue)
            /\ muxQueue[i + 1] = muxQueue[j + 1]
        BY <3>1, <3>4, <4>1
      <4>3. i + 1 = j + 1 BY <4>2 DEF QueueInv
      <4> QED BY <4>1, <4>3
    <3> QED BY <3>3, <3>4 DEF QueueInv
  <2>12. ClientInv'
    <3>1. ASSUME NEW d \in Clients, d # c PROVE ClientOK(d)'
      BY <1>1, <2>5, <3>1, ClientStays
    <3>2. ClientOK(c)'
      <4>1. ClientOK(c) BY <2>4 DEF ClientInv
      <4>2. layout' = layout /\ muxAbort' BY <1>1, <2>2
      <4> QED BY <2>4, <2>5, <4>1, <4>2 DEF ClientOK
    <3> QED BY <3>1, <3>2 DEF ClientInv
  <2>13. ResultsMatch' BY <1>1, <2>5, ResultsStay
  <2> QED BY <1>2, <2>7, <2>8, <2>9, <2>10, <2>11, <2>12, <2>13
<1> QED BY <1>3, <1>4 DEF MuxDestructor

\* The network below does something.
LEMMA BelowMuxStep ==
  ASSUME IInv, Below PROVE IInv'
<1> USE DEF IInv, TypeOK
<1>1. UNCHANGED <<layout, client, muxQueue, muxAbort, mux, muxSleeping, muxOwner>>
  BY DEF Below, muxVars
<1>2. /\ DemuxTypeOK' /\ DemuxInv' /\ Kept /\ (abort <=> owner # "alive")'
      /\ abort => abort'
  <2>1. abort <=> owner # "alive" BY DEF OwnerInv
  <2> QED BY <2>1, BelowStep DEF Below
<1>3. MuxTypeOK' BY <1>1 DEF MuxTypeOK
<1>4. OwnerInv' BY <1>1, <1>2 DEF OwnerInv
<1>5. FreeInv' BY <1>1, <1>2, NewIs DEF FreeInv, Parents, Kept
<1>6. MuxInv' BY <1>1, MuxStays
<1>7. QueueInv' BY <1>1, QueueStays
<1>8. ClientInv'
  <2>1. ASSUME NEW d \in Clients PROVE ClientOK(d)'
    <3>1. client[d].parent # NoComputation => client[d].parent \in Computations
      BY DEF MuxTypeOK, ClientState
    <3>2. client[d].parent # NoComputation =>
             LET k == client[d].parent
             IN  /\ comp'[k].planes = comp[k].planes
                 /\ Idle(comp[k]) => Idle(comp'[k])
      BY <1>2, <3>1 DEF Kept
    <3> QED BY <1>1, <3>2, ClientStays
  <2> QED BY <2>1 DEF ClientInv
<1>9. ResultsMatch' BY <1>1, <1>2, ResultsStay
<1> QED BY <1>2, <1>3, <1>4, <1>5, <1>6, <1>7, <1>8, <1>9

\* Nothing happens at all.
LEMMA StutterStep ==
  ASSUME IInv, UNCHANGED vars PROVE IInv'
<1> USE DEF IInv, TypeOK
<1>1. UNCHANGED <<demuxVars, layout, client, muxQueue, muxAbort, mux, muxSleeping, muxOwner>>
      /\ comp' = comp /\ abort' = abort /\ owner' = owner
  BY DEF vars, muxVars, demuxVars
<1>2. DemuxTypeOK' /\ DemuxInv' BY <1>1, DemuxStays
<1>3. MuxTypeOK' /\ OwnerInv' /\ FreeInv' BY <1>1 DEF MuxTypeOK, OwnerInv, FreeInv, Parents
<1>4. MuxInv' BY <1>1, MuxStays
<1>5. QueueInv' BY <1>1, QueueStays
<1>6. ClientInv'
  <2>1. ASSUME NEW d \in Clients PROVE ClientOK(d)' BY <1>1, ClientStays
  <2> QED BY <2>1 DEF ClientInv
<1>7. ResultsMatch' BY <1>1, ResultsStay
<1> QED BY <1>2, <1>3, <1>4, <1>5, <1>6, <1>7

LEMMA InitInv == Init => IInv
<1> SUFFICES ASSUME Init PROVE IInv OBVIOUS
<1> USE DemuxAssumption, MuxAssumption
<1>1. /\ comp = [k \in Computations |-> NewComputation] /\ queue = <<>>
      /\ abort = FALSE /\ sleeping = {} /\ owner = "alive"
      /\ worker = [t \in Threads |-> [at |-> "lock", comp |-> NoComputation, part |-> 0]]
  BY DEF Init, DemuxInit
<1>2. /\ layout \in {"multiplexing", "demux"} /\ muxQueue = <<>>
      /\ muxAbort = FALSE /\ muxSleeping = {} /\ muxOwner \in {"alive", "gone"}
  BY DEF Init
<1>3. PICK size \in BatchSizes :
          client = [c \in Clients |->
            [at |-> "new", size |-> size[c], parent |-> NoComputation,
             idx |-> 0, dataready |-> FALSE, results |-> <<>>]]
  BY DEF Init
<1>4. PICK place \in {"lock", "exited"} :
          /\ mux = [w \in MuxThreads |->
                [at |-> place, parent |-> NoComputation, children |-> <<>>]]
          /\ layout = "demux" => place = "exited"
  BY <1>2 DEF Init
<1>5. \A k \in Computations : comp[k] = NewComputation BY <1>1
<1>6. \A t \in Threads : worker[t].at = "lock" /\ worker[t].comp = NoComputation
  BY <1>1
<1>7. \A c \in Clients : /\ client[c].at = "new" /\ client[c].parent = NoComputation
                         /\ client[c].idx = 0 /\ ~client[c].dataready
  BY <1>3
<1>8. \A w \in MuxThreads : /\ mux[w].at \in {"lock", "exited"}
                            /\ mux[w].parent = NoComputation
                            /\ mux[w].children = <<>>
  BY <1>4
<1>9. DemuxTypeOK
  <2>1. comp \in [Computations -> Computation] BY <1>1, NewIs
  <2>2. worker \in [Threads -> WorkerState] BY <1>1 DEF WorkerState
  <2>3. <<>> \in Seq(Computations) OBVIOUS
  <2> QED BY <1>1, <2>1, <2>2, <2>3 DEF DemuxTypeOK
<1>10. MuxTypeOK
  <2>1. \A c \in Clients : size[c] \in Nat BY <1>3
  <2>2. client \in [Clients -> ClientState] BY <1>3, <2>1 DEF ClientState
  <2>3. mux \in [MuxThreads -> MuxState] BY <1>4 DEF MuxState
  <2>4. <<>> \in Seq(Clients) OBVIOUS
  <2> QED BY <1>2, <2>2, <2>3, <2>4 DEF MuxTypeOK
<1>11. ShapeInv BY <1>5 DEF ShapeInv, Shaped, NewComputation
<1>12. CountInv
  <2>1. \A k \in Computations : Busy(k) = {} /\ Adding(k) = {}
    BY <1>6 DEF Busy, Adding
  <2>2. Cardinality({}) = 0 BY FS_EmptySet
  <2>3. \A k \in Computations : Occurs(queue, k) = 0
    <3>1. \A k \in Computations : {i \in 1..Len(queue) : queue[i] = k} = {} BY <1>1
    <3> QED BY <2>2, <3>1 DEF Occurs
  <2>4. \A k \in Computations :
           /\ comp[k].toQueue = 0 /\ comp[k].dataready = 0
           /\ Len(comp[k].parents) = 0
    BY <1>5 DEF NewComputation
  <2>5. \A k \in Computations : Parts(comp[k]) = 0
    BY <1>5 DEF NewComputation, Parts
  <2>6. ASSUME NEW k \in Computations
        PROVE  Cardinality(Busy(k)) = 0 /\ Cardinality(Adding(k)) = 0
    BY <2>1, <2>2
  <2> QED BY <2>3, <2>4, <2>5, <2>6 DEF CountInv
<1>13. PartInv BY <1>5 DEF PartInv, HoldsPieces, NewComputation
<1>14. WorkerInv
  <2>1. \A k \in Computations : Len(comp[k].parents) = 0 BY <1>5 DEF NewComputation
  <2> QED BY <1>6, <2>1 DEF WorkerInv
<1>15. OwnerInv
  <2>1. layout = "demux" => \A w \in MuxThreads : mux[w].at = "exited" BY <1>4
  <2> QED BY <1>1, <1>2, <2>1 DEF OwnerInv
<1>16. FreeInv BY <1>5 DEF FreeInv
<1>17. MuxInv BY <1>8 DEF MuxInv, MuxOK
<1>18. QueueInv BY <1>2 DEF QueueInv
<1>19. ClientInv BY <1>7 DEF ClientInv, ClientOK
<1>20. ResultsMatch BY <1>7 DEF ResultsMatch
<1> QED BY <1>9, <1>10, <1>11, <1>12, <1>13, <1>14, <1>15, <1>16, <1>17, <1>18,
           <1>19, <1>20 DEF IInv, TypeOK, DemuxInv

LEMMA Inductive == IInv /\ [Next]_vars => IInv'
<1> SUFFICES ASSUME IInv, [Next]_vars PROVE IInv' OBVIOUS
<1>1. ASSUME NEW c \in Clients, ComputeDirectly(c) PROVE IInv'
  BY <1>1, ComputeDirectlyStep
<1>2. ASSUME NEW c \in Clients, ReturnDirectly(c) PROVE IInv'
  BY <1>2, ReturnDirectlyStep
<1>3. ASSUME NEW c \in Clients, MuxEnqueue(c) PROVE IInv'
  BY <1>3, MuxEnqueueStep
<1>4. ASSUME NEW c \in Clients, MuxReturn(c) PROVE IInv'
  BY <1>4, MuxReturnStep
<1>5. ASSUME NEW w \in MuxThreads, Gather(w) PROVE IInv'
  BY <1>5, GatherStep
<1>6. ASSUME NEW w \in MuxThreads, NotifyChild(w) PROVE IInv'
  BY <1>6, NotifyChildStep
<1>7. CASE MuxDestructor BY <1>7, MuxDestructorStep
<1>8. CASE Below BY <1>8, BelowMuxStep
<1>9. CASE UNCHANGED vars BY <1>9, StutterStep
<1> QED BY <1>1, <1>2, <1>3, <1>4, <1>5, <1>6, <1>7, <1>8, <1>9
        DEF Next, MuxWorker, Terminated

(***************************************************************************)
(* The theorems.                                                           *)
(***************************************************************************)
\* In every reachable state the parts of each computation are accounted for,
\* from its caller through the queue and the workers to parents_, and whoever
\* refers to a computation finds in it what it put there.
THEOREM MuxInvariant == Spec => []IInv
<1>1. Init => IInv BY InitInv
<1>2. IInv /\ [Next]_vars => IInv' BY Inductive
<1> QED BY <1>1, <1>2, PTL DEF Spec

\* The variables keep their types; dataready_ never goes below zero.
THEOREM TypeCorrect == Spec => []TypeOK
<1>1. IInv => TypeOK BY DEF IInv
<1> QED BY <1>1, MuxInvariant, PTL

\* ComputeBlocking gives every client the evaluations of its own inputs, in
\* their order, for any number of clients and threads, any split and any limit of
\* a batch; only when the networks are destroyed may results be missing.
THEOREM ClientsReadTheirOwn == Spec => []ResultsMatch
<1>1. IInv => ResultsMatch BY DEF IInv
<1> QED BY <1>1, MuxInvariant, PTL

=============================================================================
