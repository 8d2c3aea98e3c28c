---------------------------- MODULE LcTreeProof ----------------------------
(***************************************************************************)
(* What lc0's search says of a node is true of its position, for any game, *)
(* any number of threads, and whatever they meet in the tree.              *)
(***************************************************************************)
EXTENDS LcTreeInv, FiniteSetTheorems, WellFoundedInduction, TLAPS

\* A set of numbers has a least element, a set of finite sets a minimal one. What is shown
\* of every number or set below is shown by looking at the least it would not hold for.
LEMMA NatMin ==
  ASSUME NEW T, T \subseteq Nat, T # {} PROVE \E x \in T : \A y \in T : x <= y
<1> DEFINE R == {ss \in Nat \X Nat : ss[1] < ss[2]}
<1>1. IsWellFoundedOn(R, Nat) BY NatLessThanWellFounded DEF OpToRel
<1> HIDE DEF R
<1>2. \E x \in T : \A y \in T : ~ (<<y, x>> \in R) BY <1>1, WFMin
<1>3. \A x, y \in Nat : x < y => <<x,y>> \in R BY DEF R
<1>4. PICK x \in T : \A y \in T : ~ (<<y, x>> \in R) BY <1>2
<1>5. x \in Nat OBVIOUS
<1>6. ASSUME NEW y \in T PROVE x <= y
  <2>1. y \in Nat OBVIOUS
  <2>2. ~ (y < x) BY <1>3, <1>4, <1>5, <2>1
  <2> QED BY <1>5, <2>1, <2>2
<1> QED BY <1>6

\* What holds of zero, and of every number up to k if of the one before, holds of k.
LEMMA UpTo ==
  ASSUME NEW k \in Nat, NEW T, 0 \in T, \A i \in 1 .. k : i - 1 \in T => i \in T PROVE k \in T
<1> SUFFICES ASSUME k \notin T PROVE FALSE OBVIOUS
<1>1. PICK U : U = {i \in 0 .. k : i \notin T} OBVIOUS
<1>2. k \in U /\ U \subseteq Nat BY <1>1
<1>3. PICK i \in U : \A j \in U : i <= j BY <1>2, NatMin
<1>4. i \in 1 .. k /\ i \notin T BY <1>1, <1>3
<1>5. i - 1 \in U BY <1>1, <1>4
<1> QED BY <1>3, <1>4, <1>5

\* A run of a loop may be one round longer.
Longer(h, g, j, z) ==
  h = [i \in 0 .. j |-> h[i]] /\ h[j] = z /\ \A i \in 0 .. j - 1 : h[i] = g[i]

LEMMA RunLonger == ASSUME NEW g, NEW j \in Int, j >= 1, NEW z PROVE \E h : Longer(h, g, j, z)
<1>1. PICK h : h = [i \in 0 .. j |-> IF i = j THEN z ELSE g[i]] OBVIOUS
<1> QED BY <1>1 DEF Longer

LEMMA SetMin ==
  ASSUME NEW S, IsFiniteSet(S), NEW T, T \subseteq SUBSET S, T # {}
  PROVE  \E s \in T : \A u \in SUBSET s : u # s => u \notin T
<1> DEFINE R == StrictSubsetOrdering(S)
<1>1. IsWellFoundedOn(R, SUBSET S)
  BY FS_StrictSubsetOrderingWellFounded, FS_FiniteSubsetsOfFinite
<1>2. \A s, u \in SUBSET S : u \subseteq s /\ u # s => <<u, s>> \in R
  BY DEF StrictSubsetOrdering
<1> HIDE DEF R
<1>3. PICK s \in T : \A u \in T : ~ (<<u, s>> \in R) BY <1>1, WFMin
<1> QED BY <1>2, <1>3

-----------------------------------------------------------------------------
(***************************************************************************)
(* Sums                                                                    *)
(***************************************************************************)

\* The function by which a sum is defined.
IsSum(g, f, S) ==
  g = [s \in SUBSET S |->
         IF s = {} THEN 0 ELSE f[CHOOSE x \in s : TRUE] + g[s \ {CHOOSE x \in s : TRUE}]]

LEMMA SumChosen ==
  ASSUME NEW f, NEW S, \E g : IsSum(g, f, S)
  PROVE  \E g : IsSum(g, f, S) /\ SumFunctionOnSet(f, S) = g[S]
BY DEF SumFunctionOnSet, FoldFunctionOnSet, MapThenFoldSet, IsSum

LEMMA SumStepAt ==
  ASSUME NEW f, NEW S, NEW g, IsSum(g, f, S), NEW s \in SUBSET S
  PROVE  g[s] = IF s = {} THEN 0
                ELSE f[CHOOSE x \in s : TRUE] + g[s \ {CHOOSE x \in s : TRUE}]
<1> DEFINE e == [u \in SUBSET S |->
         IF u = {} THEN 0 ELSE f[CHOOSE x \in u : TRUE] + g[u \ {CHOOSE x \in u : TRUE}]]
<1>1. g = e BY DEF IsSum
<1>2. e[s] = IF s = {} THEN 0
             ELSE f[CHOOSE x \in s : TRUE] + g[s \ {CHOOSE x \in s : TRUE}]
  OBVIOUS
<1> HIDE DEF e
<1> QED BY <1>1, <1>2

LEMMA SumUnique ==
  ASSUME NEW f, NEW e, NEW S, NEW T, NEW g, NEW h, IsSum(g, f, S), IsSum(h, e, T),
         NEW s, IsFiniteSet(s), s \subseteq S, s \subseteq T, \A x \in s : f[x] = e[x]
  PROVE  g[s] = h[s]
<1> DEFINE W == {u \in SUBSET s : g[u] # h[u]}
<1> SUFFICES ASSUME W # {} PROVE FALSE OBVIOUS
<1>0. W \subseteq SUBSET s OBVIOUS
<1> HIDE DEF W
<1>1. PICK u \in W : \A v \in SUBSET u : v # u => v \notin W
  BY <1>0, SetMin
<1>2. u \in SUBSET s /\ u \in SUBSET S /\ u \in SUBSET T BY <1>0
<1>3. CASE u = {} BY <1>1, <1>2, <1>3, SumStepAt DEF W
<1>4. CASE u # {}
  <2> DEFINE c == CHOOSE x \in u : TRUE
  <2>1. c \in u BY <1>4
  <2> HIDE DEF c
  <2>2. g[u \ {c}] = h[u \ {c}] BY <1>1, <1>2, <2>1 DEF W
  <2>3. f[c] = e[c] BY <1>2, <2>1
  <2>4. g[u] = f[c] + g[u \ {c}]
    <3>1. u \in SUBSET S /\ IsSum(g, f, S) BY <1>2
    <3>2. g[u] = IF u = {} THEN 0
                 ELSE f[CHOOSE x \in u : TRUE] + g[u \ {CHOOSE x \in u : TRUE}]
      BY ONLY <3>1, SumStepAt
    <3> QED BY <1>4, <3>2 DEF c
  <2>5. h[u] = e[c] + h[u \ {c}]
    <3>1. u \in SUBSET T /\ IsSum(h, e, T) BY <1>2
    <3>2. h[u] = IF u = {} THEN 0
                 ELSE e[CHOOSE x \in u : TRUE] + h[u \ {CHOOSE x \in u : TRUE}]
      BY ONLY <3>1, SumStepAt
    <3> QED BY <1>4, <3>2 DEF c
  <2> QED BY <1>1, <2>2, <2>3, <2>4, <2>5 DEF W
<1> QED BY <1>3, <1>4

LEMMA SumExists ==
  ASSUME NEW f, NEW S, IsFiniteSet(S)
  PROVE  \E g : IsSum(g, f, S)
<1> DEFINE W == {s \in SUBSET S : ~ \E g : IsSum(g, f, s)}
<1> SUFFICES ASSUME W # {} PROVE FALSE OBVIOUS
<1>0. W \subseteq SUBSET S OBVIOUS
<1> HIDE DEF W
<1>1. PICK s \in W : \A u \in SUBSET s : u # s => u \notin W BY <1>0, SetMin
<1>2. s \in SUBSET S BY <1>0
<1>3. \A u \in SUBSET s : u # s => \E g : IsSum(g, f, u) BY <1>1, <1>2 DEF W
<1> DEFINE of(u) == CHOOSE g : IsSum(g, f, u)
           c == CHOOSE x \in s : TRUE
           g == [u \in SUBSET s |-> IF u # s THEN of(u)[u]
                                    ELSE IF s = {} THEN 0 ELSE f[c] + of(s \ {c})[s \ {c}]]
<1>4. \A u \in SUBSET s : u # s => IsSum(of(u), f, u) BY <1>3
<1> HIDE DEF of
<1>5. ASSUME NEW u \in SUBSET s
      PROVE  g[u] = IF u = {} THEN 0
                    ELSE f[CHOOSE x \in u : TRUE] + g[u \ {CHOOSE x \in u : TRUE}]
  <2> DEFINE d == CHOOSE x \in u : TRUE
  <2>1. u # {} => d \in u OBVIOUS
  <2>2. CASE u = s
    <3>1. CASE u = {} BY <2>2, <3>1
    <3>2. CASE u # {}
      <4>1. u \ {d} # s /\ u \ {d} \in SUBSET s BY <2>1, <2>2, <3>2
      <4>2. g[u \ {d}] = of(u \ {d})[u \ {d}] BY <4>1
      <4>3. d = c BY <2>2
      <4>4. g[u] = f[c] + of(s \ {c})[s \ {c}] BY <2>2, <3>2
      <4> QED BY <2>2, <3>2, <4>2, <4>3, <4>4
    <3> QED BY <3>1, <3>2
  <2>3. CASE u # s
    <3>1. g[u] = of(u)[u] BY <2>3
    <3>2. IsSum(of(u), f, u) BY <1>4, <2>3
    <3>3. CASE u = {} BY <3>1, <3>2, <3>3, SumStepAt
    <3>4. CASE u # {}
      <4>1. u \ {d} # s /\ u \ {d} \in SUBSET s /\ u \ {d} \subseteq u BY <2>1, <2>3, <3>4
      <4>2. g[u \ {d}] = of(u \ {d})[u \ {d}] BY <4>1
      <4>3. IsSum(of(u \ {d}), f, u \ {d}) BY <1>4, <4>1
      <4>4. IsFiniteSet(u \ {d}) BY <1>2, <4>1, FS_Subset
      <4> DEFINE v == u \ {d}
      <4> HIDE DEF v
      <4>5. of(v)[v] = of(u)[v]
        <5>1. IsSum(of(v), f, v) /\ IsFiniteSet(v) /\ v \subseteq u BY <4>1, <4>3, <4>4 DEF v
        <5> QED BY <3>2, <5>1, SumUnique
      <4>6. of(u)[u] = f[d] + of(u)[v]
        <5>1. u \in SUBSET u OBVIOUS
        <5>2. PICK h : h = of(u) OBVIOUS
        <5>3. h[u] = IF u = {} THEN 0
                     ELSE f[CHOOSE x \in u : TRUE] + h[u \ {CHOOSE x \in u : TRUE}]
          BY <3>2, <5>1, <5>2, SumStepAt
        <5> QED BY <3>4, <5>2, <5>3 DEF v
      <4>7. g[v] = of(v)[v] BY <4>2 DEF v
      <4> QED BY <3>1, <3>4, <4>5, <4>6, <4>7 DEF v
    <3> QED BY <3>3, <3>4
  <2> QED BY <2>2, <2>3
<1>6. IsSum(g, f, s)
  <2> DEFINE e == [u \in SUBSET s |-> IF u = {} THEN 0
                    ELSE f[CHOOSE x \in u : TRUE] + g[u \ {CHOOSE x \in u : TRUE}]]
  <2>1. DOMAIN g = SUBSET s /\ DOMAIN e = SUBSET s OBVIOUS
  <2>2. \A u \in SUBSET s : g[u] = e[u] BY <1>5
  <2>3. g = [u \in SUBSET s |-> g[u]] /\ e = [u \in SUBSET s |-> e[u]] OBVIOUS
  <2> HIDE DEF g, e
  <2>4. g = e BY <2>1, <2>2, <2>3
  <2> QED BY <2>4 DEF IsSum, e
<1> QED BY <1>1, <1>6 DEF W

LEMMA SumAt ==
  ASSUME NEW f, NEW S, NEW g, IsSum(g, f, S), NEW s, IsFiniteSet(s), s \subseteq S
  PROVE  SumFunctionOnSet(f, s) = g[s]
<1>1. PICK h : IsSum(h, f, s) /\ SumFunctionOnSet(f, s) = h[s] BY SumExists, SumChosen
<1>2. s \subseteq s OBVIOUS
<1> QED BY <1>1, <1>2, SumUnique

\* A sum only looks at the values it adds.
LEMMA SumSame ==
  ASSUME NEW f, NEW e, NEW S, IsFiniteSet(S), \A x \in S : f[x] = e[x]
  PROVE  SumFunctionOnSet(f, S) = SumFunctionOnSet(e, S)
<1>1. PICK g : IsSum(g, f, S) /\ SumFunctionOnSet(f, S) = g[S] BY SumExists, SumChosen
<1>2. PICK h : IsSum(h, e, S) /\ SumFunctionOnSet(e, S) = h[S] BY SumExists, SumChosen
<1>3. S \subseteq S OBVIOUS
<1> QED BY <1>1, <1>2, <1>3, SumUnique

LEMMA SumNone == ASSUME NEW f PROVE SumFunctionOnSet(f, {}) = 0
<1>1. IsFiniteSet({}) BY FS_EmptySet
<1>2. PICK g : IsSum(g, f, {}) /\ SumFunctionOnSet(f, {}) = g[{}]
  BY <1>1, SumExists, SumChosen
<1>3. {} \in SUBSET {} OBVIOUS
<1>4. g[{}] = IF {} = {} THEN 0
              ELSE f[CHOOSE x \in {} : TRUE] + g[{} \ {CHOOSE x \in {} : TRUE}]
  BY <1>2, <1>3, SumStepAt
<1> QED BY <1>2, <1>4

\* Some element comes first.
LEMMA SumPeel ==
  ASSUME NEW f, NEW S, IsFiniteSet(S), S # {}
  PROVE  \E x \in S : SumFunctionOnSet(f, S) = f[x] + SumFunctionOnSet(f, S \ {x})
<1>1. PICK g : IsSum(g, f, S) /\ SumFunctionOnSet(f, S) = g[S] BY SumExists, SumChosen
<1>2. PICK c : c = CHOOSE x \in S : TRUE OBVIOUS
<1>3. c \in S BY <1>2
<1>4. PICK s : s = S \ {c} OBVIOUS
<1>5. IsFiniteSet(s) /\ s \subseteq S BY <1>4, FS_Subset
<1>6. SumFunctionOnSet(f, s) = g[s] BY <1>1, <1>5, SumAt
<1>7. S \in SUBSET S OBVIOUS
<1>8. g[S] = IF S = {} THEN 0
             ELSE f[CHOOSE x \in S : TRUE] + g[S \ {CHOOSE x \in S : TRUE}]
  BY <1>1, <1>7, SumStepAt
<1> QED BY <1>1, <1>2, <1>3, <1>4, <1>6, <1>8

\* A sum of numbers is a number.
LEMMA SumType ==
  ASSUME NEW f, NEW S, IsFiniteSet(S), \A x \in S : f[x] \in Int
  PROVE  SumFunctionOnSet(f, S) \in Int
<1> DEFINE W == {s \in SUBSET S : SumFunctionOnSet(f, s) \notin Int}
<1> SUFFICES ASSUME W # {} PROVE FALSE OBVIOUS
<1>0. W \subseteq SUBSET S OBVIOUS
<1> HIDE DEF W
<1>1. PICK s \in W : \A u \in SUBSET s : u # s => u \notin W BY <1>0, SetMin
<1>2. s \in SUBSET S /\ IsFiniteSet(s) BY <1>0, FS_Subset
<1>3. CASE s = {} BY <1>1, <1>3, SumNone DEF W
<1>4. CASE s # {}
  <2>1. PICK x \in s : SumFunctionOnSet(f, s) = f[x] + SumFunctionOnSet(f, s \ {x})
    BY <1>2, <1>4, SumPeel
  <2>2. s \ {x} \notin W /\ s \ {x} \in SUBSET S BY <1>1, <1>2
  <2>3. SumFunctionOnSet(f, s \ {x}) \in Int BY <2>2 DEF W
  <2>4. f[x] \in Int BY <1>2
  <2> QED BY <1>1, <2>1, <2>3, <2>4 DEF W
<1> QED BY <1>3, <1>4

-----------------------------------------------------------------------------
(***************************************************************************)
(* Positions                                                               *)
(***************************************************************************)

LEMMA Pos ==
  ASSUME NEW n \in Positions
  PROVE  n \in Seq(Nat) /\ Len(n) \in Nat /\ (n = << >> <=> Len(n) = 0)
<1>1. n \in Seq(Nat) BY GameAssumption
<1> QED BY <1>1

LEMMA SamePosition ==
  ASSUME NEW m \in Positions, NEW n \in Positions, Len(m) = Len(n), \A i \in 1 .. Len(m) : m[i] = n[i]
  PROVE  m = n
<1>1. m \in Seq(Nat) /\ n \in Seq(Nat) BY Pos
<1> QED BY <1>1

LEMMA IsBelow ==
  ASSUME NEW m \in Positions, NEW n \in Positions
  PROVE  Below(m, n) <=> Len(m) < Len(n) /\ \A i \in 1 .. Len(m) : m[i] = n[i]
<1>1. m \in Seq(Nat) /\ n \in Seq(Nat) /\ Len(m) \in Nat /\ Len(n) \in Nat BY Pos
<1>2. Below(m, n) <=> IsStrictPrefix(m, n) BY DEF Below, Ancestors
<1>3. ASSUME Len(m) <= Len(n)
      PROVE  SubSeq(m, 1, Len(m)) = SubSeq(n, 1, Len(m)) <=> \A i \in 1 .. Len(m) : m[i] = n[i]
  <2>1. PICK a, b : a = SubSeq(m, 1, Len(m)) /\ b = SubSeq(n, 1, Len(m)) OBVIOUS
  <2>2. /\ a \in Seq(Nat) /\ Len(a) = Len(m) /\ \A i \in 1 .. Len(m) : a[i] = m[i]
        /\ b \in Seq(Nat) /\ Len(b) = Len(m) /\ \A i \in 1 .. Len(m) : b[i] = n[i]
    BY <1>1, <1>3, <2>1
  <2>3. a = b <=> \A i \in 1 .. Len(m) : a[i] = b[i] BY <2>2
  <2> QED BY <2>1, <2>2, <2>3
<1>4. IsPrefix(m, n) <=> Len(m) <= Len(n) /\ \A i \in 1 .. Len(m) : m[i] = n[i]
  BY <1>3 DEF IsPrefix
<1>5. m # n /\ Len(m) <= Len(n) /\ (\A i \in 1 .. Len(m) : m[i] = n[i]) => Len(m) < Len(n)
  BY <1>1, SamePosition
<1>6. Len(m) < Len(n) => m # n BY <1>1
<1> QED BY <1>1, <1>2, <1>4, <1>5, <1>6 DEF IsStrictPrefix

LEMMA IsAtOrBelow ==
  ASSUME NEW m \in Positions, NEW n \in Positions
  PROVE  AtOrBelow(m, n) <=> Len(m) <= Len(n) /\ \A i \in 1 .. Len(m) : m[i] = n[i]
<1>1. Len(m) \in Nat /\ Len(n) \in Nat BY Pos
<1>2. CASE Len(m) = Len(n)
  <2>1. (\A i \in 1 .. Len(m) : m[i] = n[i]) => m = n BY <1>2, SamePosition
  <2> QED BY <1>1, <1>2, <2>1, IsBelow DEF AtOrBelow
<1>3. CASE Len(m) # Len(n) BY <1>1, <1>3, IsBelow DEF AtOrBelow
<1> QED BY <1>2, <1>3

LEMMA BelowBelow ==
  ASSUME NEW a \in Positions, NEW b \in Positions, NEW c \in Positions
  PROVE  /\ Below(a, b) /\ Below(b, c) => Below(a, c)
         /\ Below(a, c) /\ Below(b, c) => a = b \/ Below(a, b) \/ Below(b, a)
         /\ Below(a, b) => ~Below(b, a) /\ a # b
<1>1. Len(a) \in Nat /\ Len(b) \in Nat /\ Len(c) \in Nat BY Pos
<1>2. Below(a, b) /\ Below(b, c) => Below(a, c) BY <1>1, IsBelow
<1>3. ASSUME Below(a, c), Below(b, c) PROVE a = b \/ Below(a, b) \/ Below(b, a)
  <2>1. CASE Len(a) < Len(b) BY <1>1, <1>3, <2>1, IsBelow
  <2>2. CASE Len(b) < Len(a) BY <1>1, <1>3, <2>2, IsBelow
  <2>3. CASE Len(a) = Len(b)
    <3>1. \A i \in 1 .. Len(a) : a[i] = b[i] BY <1>3, <2>3, IsBelow
    <3> QED BY <2>3, <3>1, SamePosition
  <2> QED BY <1>1, <2>1, <2>2, <2>3
<1>4. Below(a, b) => ~Below(b, a) /\ a # b BY <1>1, IsBelow
<1> QED BY <1>2, <1>3, <1>4

LEMMA ParentOf ==
  ASSUME NEW n \in Positions, n # << >>
  PROVE  /\ Parent(n) \in Positions /\ Len(Parent(n)) = Len(n) - 1
         /\ \A i \in 1 .. Len(n) - 1 : Parent(n)[i] = n[i]
         /\ Below(Parent(n), n)
         /\ n \in Children(Parent(n))
         /\ \A m \in Positions : Below(m, n) => AtOrBelow(m, Parent(n))
<1>1. n \in Seq(Nat) /\ Len(n) \in Nat /\ Len(n) # 0 BY Pos
<1>2. PICK p : p = Parent(n) OBVIOUS
<1>3. p \in Positions BY <1>2, GameAssumption
<1>4. p = SubSeq(n, 1, Len(n) - 1) BY <1>2 DEF Parent, Front
<1>5. Len(p) = Len(n) - 1 /\ \A i \in 1 .. Len(n) - 1 : p[i] = n[i]
  <2>1. PICK l : l = Len(n) - 1 OBVIOUS
  <2>2. l \in Nat /\ l <= Len(n) BY <1>1, <2>1
  <2> QED BY <1>1, <1>4, <2>1, <2>2
<1>6. Below(p, n) BY <1>1, <1>3, <1>5, IsBelow
<1>7. n \in Children(p) BY <1>2 DEF Children
<1>8. ASSUME NEW m \in Positions, Below(m, n) PROVE AtOrBelow(m, p)
  <2>1. Len(m) < Len(n) /\ (\A i \in 1 .. Len(m) : m[i] = n[i]) /\ Len(m) \in Nat
    BY <1>8, IsBelow, Pos
  <2>2. CASE Len(m) = Len(p) BY <1>1, <1>3, <1>5, <2>1, <2>2, SamePosition DEF AtOrBelow
  <2>3. CASE Len(m) < Len(p) BY <1>1, <1>3, <1>5, <2>1, <2>3, IsBelow DEF AtOrBelow
  <2> QED BY <1>1, <1>5, <2>1, <2>2, <2>3
<1> QED BY <1>2, <1>3, <1>5, <1>6, <1>7, <1>8

LEMMA ChildOf ==
  ASSUME NEW n \in Positions, NEW c \in Children(n)
  PROVE  c \in Positions /\ c # << >> /\ Parent(c) = n /\ Below(n, c)
<1>1. c \in Positions /\ c # << >> /\ Parent(c) = n BY DEF Children
<1> QED BY <1>1, ParentOf

LEMMA RootAbove == ASSUME NEW n \in Positions PROVE AtOrBelow(<< >>, n)
<1>1. << >> \in Positions /\ Len(<< >>) = 0 BY GameAssumption
<1> QED BY <1>1, Pos, IsBelow DEF AtOrBelow

\* The first moves of a position lead to positions.
LEMMA Beginnings ==
  ASSUME NEW n \in Positions, NEW k \in 0 .. Len(n)
  PROVE  /\ SubSeq(n, 1, k) \in Positions /\ Len(SubSeq(n, 1, k)) = k
         /\ \A i \in 1 .. k : SubSeq(n, 1, k)[i] = n[i]
<1>0. n \in Seq(Nat) /\ Len(n) \in Nat BY Pos
<1> DEFINE T == {j \in 0 .. Len(n) : SubSeq(n, 1, Len(n) - j) \notin Positions}
<1>1. T = {}
  <2> SUFFICES ASSUME T # {} PROVE FALSE OBVIOUS
  <2>0. T \subseteq 0 .. Len(n) /\ T \subseteq Nat OBVIOUS
  <2> HIDE DEF T
  <2>1. PICK j \in T : \A i \in T : j <= i BY <2>0, NatMin
  <2>2. j \in 0 .. Len(n) BY <2>0
  <2>3. CASE j = 0
    <3>1. SubSeq(n, 1, Len(n)) = n BY <1>0
    <3>2. Len(n) - j = Len(n) BY <1>0, <2>3
    <3> QED BY <2>1, <3>1, <3>2 DEF T
  <2>4. CASE j # 0
    <3>1. j - 1 \in 0 .. Len(n) /\ ~ (j <= j - 1) BY <1>0, <2>2, <2>4
    <3>2. PICK a, b : a = SubSeq(n, 1, Len(n) - (j - 1)) /\ b = SubSeq(n, 1, Len(n) - j) OBVIOUS
    <3>3. a \in Positions BY <2>1, <3>1, <3>2 DEF T
    <3>4. Len(a) = Len(n) - (j - 1) /\ \A i \in 1 .. Len(n) - (j - 1) : a[i] = n[i]
      BY <1>0, <2>2, <2>4, <3>2
    <3>5. Len(b) = Len(n) - j /\ b \in Seq(Nat) /\ \A i \in 1 .. Len(n) - j : b[i] = n[i]
      BY <1>0, <2>2, <2>4, <3>2
    <3>6. a # << >> /\ Len(a) \in Nat BY <1>0, <2>2, <2>4, <3>3, <3>4, Pos
    <3>7. PICK p : p = Parent(a) OBVIOUS
    <3>8. p \in Positions /\ Len(p) = Len(a) - 1 /\ \A i \in 1 .. Len(a) - 1 : p[i] = a[i]
      BY <3>3, <3>6, <3>7, ParentOf
    <3>9. p \in Seq(Nat) BY <3>8, Pos
    <3>10. Len(p) = Len(b) /\ \A i \in 1 .. Len(b) : p[i] = b[i]
      <4>1. PICK l : l = Len(n) - j OBVIOUS
      <4>2. l \in Nat /\ Len(n) - (j - 1) = l + 1 BY <1>0, <2>2, <4>1
      <4>3. Len(a) = l + 1 /\ \A i \in 1 .. l + 1 : a[i] = n[i] BY <3>4, <4>2
      <4>4. Len(b) = l /\ \A i \in 1 .. l : b[i] = n[i] BY <3>5, <4>1
      <4>5. Len(p) = l /\ \A i \in 1 .. l : p[i] = a[i] BY <3>8, <4>2, <4>3
      <4> QED BY <4>2, <4>3, <4>4, <4>5
    <3>11. p = b BY ONLY <3>5, <3>9, <3>10
    <3> QED BY <2>1, <3>2, <3>8, <3>11 DEF T
  <2> QED BY <2>3, <2>4
<1>2. Len(n) - k \in 0 .. Len(n) /\ Len(n) - (Len(n) - k) = k BY <1>0
<1>3. SubSeq(n, 1, k) \in Positions BY <1>1, <1>2
<1>4. Len(SubSeq(n, 1, k)) = k /\ \A i \in 1 .. k : SubSeq(n, 1, k)[i] = n[i] BY <1>0
<1> QED BY <1>3, <1>4

-----------------------------------------------------------------------------
(***************************************************************************)
(* The value of the game                                                   *)
(***************************************************************************)

LEMMA MaxOf ==
  ASSUME NEW S, S \subseteq -1 .. 1, S # {}
  PROVE  Max(S) \in S /\ Max(S) \in -1 .. 1 /\ \A y \in S : Max(S) >= y
<1>1. \E x \in S : \A y \in S : x >= y
  <2>1. CASE 1 \in S BY <2>1
  <2>2. CASE 1 \notin S /\ 0 \in S BY <2>2
  <2>3. CASE 1 \notin S /\ 0 \notin S
    <3>1. ASSUME NEW y \in S PROVE y = -1
      <4>1. y \in -1 .. 1 OBVIOUS
      <4>2. y = -1 \/ y = 0 \/ y = 1 BY <4>1
      <4> QED BY <2>3, <4>2
    <3> QED BY <3>1, -1 >= -1
  <2> QED BY <2>1, <2>2, <2>3
<1> QED BY <1>1 DEF Max

LEMMA LengthBound == \E L \in Nat : \A n \in Positions : Len(n) <= L
<1> DEFINE W == {S \in SUBSET Positions : ~ \E L \in Nat : \A n \in S : Len(n) <= L}
<1> SUFFICES ASSUME W # {} PROVE FALSE OBVIOUS
<1>0. W \subseteq SUBSET Positions OBVIOUS
<1> HIDE DEF W
<1>1. PICK S \in W : \A u \in SUBSET S : u # S => u \notin W
  BY <1>0, SetMin, GameAssumption
<1>2. S \in SUBSET Positions BY <1>0
<1>3. S # {}
  <2>1. 0 \in Nat /\ \A n \in {} : Len(n) <= 0 OBVIOUS
  <2> QED BY <1>1, <2>1 DEF W
<1>4. PICK x \in S : TRUE BY <1>3
<1>5. S \ {x} \in SUBSET Positions /\ S \ {x} \notin W BY <1>1, <1>2
<1>6. PICK L \in Nat : \A n \in S \ {x} : Len(n) <= L BY <1>5 DEF W
<1>7. Len(x) \in Nat /\ \A n \in S : Len(n) \in Nat BY <1>2, Pos
<1>8. L + Len(x) \in Nat /\ \A n \in S : Len(n) <= L + Len(x) BY <1>6, <1>7
<1> QED BY <1>1, <1>8 DEF W

ValueBy(g, n) == IF n \in Over THEN Outcome[n] ELSE -Max({g[c] : c \in Children(n)})

LEMMA ValueBySame ==
  ASSUME NEW g, NEW h, NEW n, \A c \in Children(n) : g[c] = h[c]
  PROVE  ValueBy(g, n) = ValueBy(h, n)
<1>1. {g[c] : c \in Children(n)} = {h[c] : c \in Children(n)} OBVIOUS
<1> QED BY <1>1 DEF ValueBy

LEMMA GameValueExists == \E g : g = [n \in Positions |-> ValueBy(g, n)]
<1>1. PICK L \in Nat : \A n \in Positions : Len(n) <= L BY LengthBound
<1>2. \A n \in Positions : Len(n) \in Nat BY Pos
<1> DEFINE Deep(j) == {n \in Positions : Len(n) > L - j}
           T == {j \in Nat : ~ \E g : g = [n \in Deep(j) |-> ValueBy(g, n)]}
<1>3. T = {}
  <2> SUFFICES ASSUME T # {} PROVE FALSE OBVIOUS
  <2>0. T \subseteq Nat OBVIOUS
  <2> HIDE DEF T
  <2>1. PICK j \in T : \A i \in T : j <= i BY <2>0, NatMin
  <2>2. j \in Nat BY <2>0
  <2>3. CASE j = 0
    <3>1. Deep(j) = {} BY <1>1, <1>2, <2>3
    <3> DEFINE e == [n \in {} |-> 0]
    <3>2. e = [n \in {} |-> ValueBy(e, n)] OBVIOUS
    <3> QED BY <2>1, <3>1, <3>2 DEF T
  <2>4. CASE j # 0
    <3>1. j - 1 \in Nat /\ ~ (j <= j - 1) BY <2>2, <2>4
    <3>2. j - 1 \notin T BY <2>1, <3>1
    <3>3. PICK g : g = [n \in Deep(j - 1) |-> ValueBy(g, n)] BY <3>1, <3>2 DEF T
    <3> DEFINE h == [n \in Deep(j) |-> ValueBy(g, n)]
    <3>4. \A n \in Deep(j - 1) : n \in Deep(j) BY <1>2, <2>2
    <3>5. ASSUME NEW n \in Deep(j) PROVE h[n] = ValueBy(h, n)
      <4>1. ASSUME NEW c \in Children(n) PROVE g[c] = h[c]
        <5>1. c \in Positions /\ Len(c) = Len(n) + 1
          <6>1. n \in Positions OBVIOUS
          <6>2. c \in Positions /\ c # << >> /\ Parent(c) = n BY <6>1, ChildOf
          <6>3. Len(n) = Len(c) - 1 BY <6>2, ParentOf
          <6> QED BY <1>2, <6>1, <6>2, <6>3
        <5>2. c \in Deep(j - 1) BY <1>2, <2>2, <5>1
        <5>3. c \in Deep(j) BY <3>4, <5>2
        <5> HIDE DEF Deep
        <5>4. g[c] = ValueBy(g, c) BY <3>3, <5>2
        <5> QED BY <5>3, <5>4
      <4>2. h[n] = ValueBy(g, n) OBVIOUS
      <4> HIDE DEF h, Deep
      <4>3. ValueBy(g, n) = ValueBy(h, n) BY <4>1, ValueBySame
      <4> QED BY <4>2, <4>3
    <3>6. h = [n \in Deep(j) |-> ValueBy(h, n)]
      <4> DEFINE D == Deep(j)
      <4> HIDE DEF D
      <4>1. h = [n \in D |-> h[n]] BY DEF D
      <4>2. \A n \in D : h[n] = ValueBy(h, n) BY <3>5 DEF D
      <4> HIDE DEF h
      <4>3. [n \in D |-> h[n]] = [n \in D |-> ValueBy(h, n)] BY <4>2
      <4> QED BY <4>1, <4>3 DEF D
    <3> HIDE DEF h, Deep
    <3>7. \E e : e = [n \in Deep(j) |-> ValueBy(e, n)] BY <3>6
    <3> QED BY <2>1, <2>2, <3>7 DEF T
  <2> QED BY <2>3, <2>4
<1>4. \A n \in Positions : n \in Deep(L + 1) BY <1>1, <1>2
<1>5. Deep(L + 1) = Positions BY <1>4
<1> HIDE DEF Deep
<1>6. \E g : g = [n \in Deep(L + 1) |-> ValueBy(g, n)] BY <1>3
<1> QED BY <1>5, <1>6

LEMMA GameValueIs ==
  ASSUME NEW n \in Positions PROVE GameValue[n] = ValueBy(GameValue, n)
<1> DEFINE IsValue(g) == g = [m \in Positions |-> ValueBy(g, m)]
<1>1. GameValue = CHOOSE g : IsValue(g) BY DEF GameValue, ValueBy
<1>2. \E g : IsValue(g) BY GameValueExists
<1>3. IsValue(GameValue) BY <1>1, <1>2
<1>4. PICK g : g = GameValue OBVIOUS
<1>5. g = [m \in Positions |-> ValueBy(g, m)] BY <1>3, <1>4
<1>6. g[n] = ValueBy(g, n) BY <1>5
<1> QED BY <1>4, <1>6

LEMMA GameValueType == ASSUME NEW n \in Positions PROVE GameValue[n] \in -1 .. 1
<1>1. PICK L \in Nat : \A m \in Positions : Len(m) <= L BY LengthBound
<1>2. \A m \in Positions : Len(m) \in Nat BY Pos
<1> DEFINE T == {j \in Nat : \E m \in Positions : Len(m) = L - j /\ GameValue[m] \notin -1 .. 1}
<1> SUFFICES ASSUME GameValue[n] \notin -1 .. 1 PROVE FALSE OBVIOUS
<1>3. L - Len(n) \in T BY <1>1, <1>2
<1>4. T \subseteq Nat OBVIOUS
<1> HIDE DEF T
<1>5. PICK j \in T : \A i \in T : j <= i BY <1>3, <1>4, NatMin
<1>6. PICK m \in Positions : Len(m) = L - j /\ GameValue[m] \notin -1 .. 1 BY <1>5 DEF T
<1>7. ASSUME NEW c \in Children(m) PROVE GameValue[c] \in -1 .. 1
  <2>1. c \in Positions /\ c # << >> /\ Parent(c) = m BY ChildOf
  <2>2. Len(c) = L - (j - 1) /\ Len(c) <= L
    <3>1. Len(m) = Len(c) - 1 BY <2>1, ParentOf
    <3>2. Len(m) = L - j /\ Len(c) \in Nat /\ Len(c) <= L /\ j \in Nat
      BY <1>1, <1>2, <1>4, <1>6, <2>1
    <3> QED BY <3>1, <3>2
  <2>3. j - 1 \in Nat /\ ~ (j <= j - 1) BY <1>1, <1>2, <1>4, <1>5, <2>1, <2>2
  <2>4. j - 1 \notin T BY <1>5, <2>3
  <2> QED BY <2>1, <2>2, <2>3, <2>4 DEF T
<1>8. CASE m \in Over
  <2>1. m \in DOMAIN Outcome BY <1>8 DEF Over
  <2>2. Outcome[m] \in -1 .. 1 BY <2>1, GameAssumption
  <2> QED BY <1>6, <1>8, <2>2, GameValueIs DEF ValueBy
<1>9. CASE m \notin Over
  <2> DEFINE S == {GameValue[c] : c \in Children(m)}
  <2>1. S \subseteq -1 .. 1 /\ S # {} BY <1>7, <1>9, GameAssumption
  <2> HIDE DEF S
  <2>2. Max(S) \in -1 .. 1 BY <2>1, MaxOf
  <2>3. GameValue[m] = -Max(S) BY <1>9, GameValueIs DEF S, ValueBy
  <2>4. -Max(S) \in -1 .. 1 BY <2>2
  <2> QED BY <1>6, <2>3, <2>4
<1> QED BY <1>8, <1>9

\* What a position is worth by its children, unless the game is over there.
LEMMA GameValueByChildren ==
  ASSUME NEW n \in Positions, Children(n) # {}, n \notin Over
  PROVE  /\ \A c \in Children(n) : -GameValue[n] >= GameValue[c]
         /\ \E c \in Children(n) : -GameValue[n] = GameValue[c]
<1> DEFINE S == {GameValue[c] : c \in Children(n)}
<1>1. S \subseteq -1 .. 1 /\ S # {} BY GameValueType, ChildOf
<1> HIDE DEF S
<1>2. Max(S) \in S /\ Max(S) \in -1 .. 1 /\ \A y \in S : Max(S) >= y BY <1>1, MaxOf
<1>3. GameValue[n] = -Max(S) BY GameValueIs DEF S, ValueBy
<1>4. -GameValue[n] = Max(S) BY <1>2, <1>3
<1> QED BY <1>2, <1>4 DEF S

-----------------------------------------------------------------------------
(***************************************************************************)
(* One node                                                                *)
(***************************************************************************)

LEMMA NodeType ==
  ASSUME NEW x \in Node
  PROVE  /\ x.n \in Int /\ x.w \in Int /\ x.flight \in Int /\ x.own \in Int
         /\ x.low \in -1 .. 1 /\ x.up \in -1 .. 1 /\ x.edges \subseteq Positions
         /\ x.term \in {"NonTerminal", "TwoFold", "Tablebase", "EndOfGame"}
         /\ x.solid \in BOOLEAN
BY DEF Node

LEMMA FreshSound == ASSUME NEW n \in Positions PROVE FreshNode \in Node /\ Sound(FreshNode, n)
<1>1. FreshNode \in Node BY DEF FreshNode, Node
<1>2. GameValue[n] \in -1 .. 1 BY GameValueType
<1> QED BY <1>1, <1>2 DEF Sound, FreshNode, Terminal

LEMMA TerminalIs ==
  ASSUME NEW x \in Node, NEW r \in -1 .. 1, NEW ty \in {"TwoFold", "Tablebase", "EndOfGame"}
  PROVE  LET y == MakeTerminal(x, r, ty)
         IN  /\ y \in Node /\ y.term = ty /\ y.n = x.n /\ y.w = (x.n * Win) * r
             /\ y.flight = x.flight /\ y.edges = x.edges
             /\ y.low = (IF ty = "TwoFold" THEN x.low ELSE r)
             /\ y.up = (IF ty = "TwoFold" THEN x.up ELSE r)
<1>1. x.n \in Int /\ Win \in Int /\ r \in Int BY NodeType, SearchAssumption
<1>2. (x.n * Win) * r \in Int BY <1>1
<1> QED BY <1>2 DEF MakeTerminal, Node

LEMMA TerminalSound ==
  ASSUME NEW n \in Positions, NEW x \in Node, Sound(x, n),
         NEW r \in -1 .. 1, NEW ty \in {"TwoFold", "Tablebase", "EndOfGame"},
         ty # "TwoFold" => r = GameValue[n]
  PROVE  Sound(MakeTerminal(x, r, ty), n) /\ Terminal(MakeTerminal(x, r, ty))
<1>1. PICK y : y = MakeTerminal(x, r, ty) OBVIOUS
<1>2. /\ y \in Node /\ y.term = ty /\ y.n = x.n /\ y.w = (x.n * Win) * r
      /\ y.flight = x.flight /\ y.edges = x.edges
      /\ y.low = (IF ty = "TwoFold" THEN x.low ELSE r)
      /\ y.up = (IF ty = "TwoFold" THEN x.up ELSE r)
  BY <1>1, TerminalIs
<1>3. x.n \in Int /\ Win \in Int /\ r \in Int BY NodeType, SearchAssumption
<1>4. (x.n * Win) * r = x.n * (Win * r) BY <1>3
<1>5. Terminal(y) BY <1>2 DEF Terminal
<1>6. Sound(y, n) BY <1>2, <1>3, <1>4, <1>5 DEF Sound
<1> QED BY <1>1, <1>5, <1>6

LEMMA ExtendSound ==
  ASSUME NEW n \in Positions, root \in Positions, NEW x \in Node, Sound(x, n)
  PROVE  LET y == ExtendNode(x, n)
         IN  /\ y \in Node /\ Sound(y, n) /\ Extended(y)
             /\ n # root /\ GoesOn(x, n) => GoesOn(y, n)
             /\ y.flight = x.flight /\ y.n = x.n
             /\ x.edges # {} => y.edges # {}
             /\ ~Terminal(x) => ~(y.term = "TwoFold" /\ Depth(n) < Cycle[n])
             /\ Terminal(x) => Terminal(y)
<1> DEFINE over == n \in Over /\ (Children(n) = {} \/ n # root)
<1>1. CASE over
  <2>1. Outcome[n] = GameValue[n] /\ Outcome[n] \in -1 .. 1
    BY <1>1, GameValueIs, GameAssumption DEF ValueBy, Over
  <2>2. ExtendNode(x, n) = MakeTerminal(x, Outcome[n], "EndOfGame") BY <1>1 DEF ExtendNode
  <2>3. PICK y : y = MakeTerminal(x, Outcome[n], "EndOfGame") OBVIOUS
  <2>4. /\ y \in Node /\ y.term = "EndOfGame" /\ y.n = x.n /\ y.flight = x.flight
        /\ y.edges = x.edges
    BY <2>1, <2>3, TerminalIs
  <2>5. Sound(y, n) /\ Terminal(y) BY <2>1, <2>3, TerminalSound
  <2> QED BY <2>2, <2>3, <2>4, <2>5 DEF Extended, GoesOn
<1>2. CASE ~over /\ n # root /\ n \in DOMAIN Cycle /\ Depth(n) >= Cycle[n]
  <2>1. ExtendNode(x, n) = MakeTerminal(x, 0, "TwoFold") BY <1>2 DEF ExtendNode
  <2>2. Depth(n) \in Int /\ Cycle[n] \in Int
    <3>1. Len(n) \in Int /\ Len(root) \in Int BY Pos
    <3> QED BY <1>2, <3>1, SearchAssumption DEF Depth
  <2>3. ~ (Depth(n) < Cycle[n]) BY <1>2, <2>2
  <2>4. PICK y : y = MakeTerminal(x, 0, "TwoFold") OBVIOUS
  <2>5. /\ y \in Node /\ y.term = "TwoFold" /\ y.n = x.n /\ y.flight = x.flight
        /\ y.edges = x.edges
    BY <2>4, TerminalIs
  <2>6. Sound(y, n) /\ Terminal(y) BY <2>4, TerminalSound
  <2> QED BY <2>1, <2>3, <2>4, <2>5, <2>6 DEF Extended, GoesOn
<1>3. CASE /\ ~over
           /\ ~ (n # root /\ n \in DOMAIN Cycle /\ Depth(n) >= Cycle[n])
           /\ n # root /\ n \in Tablebase /\ root \notin Tablebase
  <2>1. Outcome[n] = GameValue[n] /\ Outcome[n] \in -1 .. 1 BY <1>3, GameAssumption
  <2>2. ExtendNode(x, n) = MakeTerminal(x, Outcome[n], "Tablebase") BY <1>3 DEF ExtendNode
  <2>3. PICK y : y = MakeTerminal(x, Outcome[n], "Tablebase") OBVIOUS
  <2>4. /\ y \in Node /\ y.term = "Tablebase" /\ y.n = x.n /\ y.flight = x.flight
        /\ y.edges = x.edges
    BY <2>1, <2>3, TerminalIs
  <2>5. Sound(y, n) /\ Terminal(y) BY <2>1, <2>3, TerminalSound
  <2> QED BY <2>2, <2>3, <2>4, <2>5 DEF Extended, GoesOn
<1>4. CASE /\ ~over
           /\ ~ (n # root /\ n \in DOMAIN Cycle /\ Depth(n) >= Cycle[n])
           /\ ~ (n # root /\ n \in Tablebase /\ root \notin Tablebase)
  <2>1. ExtendNode(x, n) = [x EXCEPT !.edges = Children(n)] BY <1>4 DEF ExtendNode
  <2>2. Children(n) # {} /\ Children(n) \subseteq Positions
    BY <1>4, GameAssumption DEF Children
  <2>3. PICK y : y = [x EXCEPT !.edges = Children(n)] OBVIOUS
  <2>4. /\ y \in Node /\ y.edges = Children(n) /\ y.term = x.term /\ y.n = x.n
        /\ y.flight = x.flight /\ y.low = x.low /\ y.up = x.up /\ y.w = x.w
    BY <2>2, <2>3 DEF Node
  <2>5. Sound(y, n) BY <2>2, <2>4 DEF Sound
  <2>6. Terminal(y) <=> Terminal(x) BY <2>4 DEF Terminal
  <2>7. ~Terminal(x) => y.term # "TwoFold" BY <2>4 DEF Terminal
  <2>8. n # root => n \notin Over BY <1>4
  <2> QED BY <2>1, <2>2, <2>3, <2>4, <2>5, <2>6, <2>7, <2>8 DEF Extended, GoesOn
<1> QED BY <1>1, <1>2, <1>3, <1>4

LEMMA TerminalValueType == ASSUME NEW x \in Node PROVE TerminalValue(x) \in Int
<1>1. x.low \in Int /\ Win \in Int BY NodeType, SearchAssumption
<1> QED BY <1>1 DEF TerminalValue

LEMMA ScoreSound ==
  ASSUME NEW n \in Positions, NEW x \in Node, NEW v \in Int, Extended(x),
         Terminal(x) => v = TerminalValue(x)
  PROVE  LET y == FinalizeScoreUpdate(x, v)
         IN  /\ y \in Node /\ y.flight = x.flight - 1 /\ y.edges = x.edges /\ y.term = x.term
             /\ y.n = x.n + 1 /\ y.low = x.low /\ y.up = x.up
             /\ Sound(x, n) => Sound(y, n)
<1>1. PICK y : y = FinalizeScoreUpdate(x, v) OBVIOUS
<1>2. x.n \in Int /\ x.w \in Int /\ x.flight \in Int /\ x.own \in Int BY NodeType
<1>3. /\ y \in Node /\ y.flight = x.flight - 1 /\ y.edges = x.edges /\ y.term = x.term
      /\ y.n = x.n + 1 /\ y.low = x.low /\ y.up = x.up /\ y.w = x.w + v
  <2>1. PICK a, b, c, d : a = x.n + 1 /\ b = x.w + v /\ c = x.flight - 1
                          /\ d = IF x.n = 0 THEN v ELSE x.own
    OBVIOUS
  <2>2. a \in Int /\ b \in Int /\ c \in Int /\ d \in Int BY <1>2, <2>1
  <2>3. y = [x EXCEPT !.n = a, !.w = b, !.flight = c, !.own = d]
    BY <1>1, <2>1 DEF FinalizeScoreUpdate
  <2>4. y \in Node BY <2>2, <2>3 DEF Node
  <2>5. /\ y.n = a /\ y.w = b /\ y.flight = c /\ y.edges = x.edges /\ y.term = x.term
        /\ y.low = x.low /\ y.up = x.up
    BY <2>3 DEF Node
  <2> QED BY <2>1, <2>4, <2>5
<1>4. ASSUME Sound(x, n) PROVE Sound(y, n)
  <2>1. Terminal(x) <=> Terminal(y) BY <1>3 DEF Terminal
  <2>2. ~Terminal(y) => y.edges # {} BY <1>3, <2>1 DEF Extended
  <2>3. ASSUME y.term \in {"EndOfGame", "Tablebase"} PROVE y.w = y.n * (Win * y.low)
    <3>1. v = Win * x.low BY <1>3, <2>3 DEF Terminal, TerminalValue
    <3>2. x.w = x.n * (Win * x.low) BY <1>3, <1>4, <2>3 DEF Sound
    <3>3. PICK q : q = Win * x.low OBVIOUS
    <3>4. q \in Int BY <3>3, NodeType, SearchAssumption
    <3>5. x.n * q + q = (x.n + 1) * q BY <1>2, <3>4
    <3> QED BY <1>3, <3>1, <3>2, <3>3, <3>5
  <2> QED BY <1>3, <1>4, <2>2, <2>3 DEF Sound
<1> QED BY <1>1, <1>3, <1>4

-----------------------------------------------------------------------------
(***************************************************************************)
(* Backing one visit up                                                    *)
(***************************************************************************)

\* The path of a visit goes from its node to the root, parent by parent.
LEMMA PathFacts ==
  ASSUME NEW n \in Positions, root \in Positions, AtOrBelow(root, n)
  PROVE  LET p == PathUp(n)
         IN  /\ p \in Seq(Positions) /\ Len(p) \in Nat /\ Len(p) # 0
             /\ p[1] = n /\ p[Len(p)] = root
             /\ \A i \in 1 .. Len(p) : /\ p[i] \in Positions
                                       /\ AtOrBelow(root, p[i]) /\ AtOrBelow(p[i], n)
                                       /\ Len(p[i]) = Len(n) + 1 - i
             /\ \A i \in 1 .. Len(p) - 1 : p[i] # root /\ p[i] # << >> /\ p[i + 1] = Parent(p[i])
             /\ \A m \in Positions : AtOrBelow(root, m) /\ AtOrBelow(m, n) =>
                   \E i \in 1 .. Len(p) : m = p[i]
<1>1. n \in Seq(Nat) /\ Len(n) \in Nat /\ Len(root) \in Nat BY Pos
<1>2. Len(root) <= Len(n) BY <1>1, IsBelow DEF AtOrBelow
<1> DEFINE k == Len(n) - Len(root) + 1
<1>3. k \in Nat /\ k # 0 BY <1>1, <1>2
<1>4. PICK p : p = PathUp(n) OBVIOUS
<1>5. p = [i \in 1 .. k |-> SubSeq(n, 1, Len(n) + 1 - i)] BY <1>4 DEF PathUp
<1>6. ASSUME NEW i \in 1 .. k
      PROVE  /\ p[i] \in Positions /\ Len(p[i]) = Len(n) + 1 - i
             /\ \A j \in 1 .. Len(n) + 1 - i : p[i][j] = n[j]
             /\ AtOrBelow(root, p[i]) /\ AtOrBelow(p[i], n)
  <2>1. PICK l : l = Len(n) + 1 - i OBVIOUS
  <2>2. l \in 0 .. Len(n) /\ Len(root) <= l BY <1>1, <1>2, <2>1
  <2>3. p[i] = SubSeq(n, 1, l) BY <1>5, <2>1
  <2>4. p[i] \in Positions /\ Len(p[i]) = l /\ \A j \in 1 .. l : p[i][j] = n[j]
    BY <2>2, <2>3, Beginnings
  <2>5. AtOrBelow(p[i], n)
    <3>1. PICK q : q = p[i] OBVIOUS
    <3>2. q \in Positions /\ Len(q) <= Len(n) /\ \A j \in 1 .. Len(q) : q[j] = n[j]
      BY <1>1, <2>2, <2>4, <3>1
    <3> QED BY <3>1, <3>2, IsAtOrBelow
  <2>6. \A j \in 1 .. Len(root) : root[j] = n[j] BY IsBelow DEF AtOrBelow
  <2>7. \A j \in 1 .. Len(root) : root[j] = p[i][j] BY <1>1, <2>2, <2>4, <2>6
  <2>8. AtOrBelow(root, p[i])
    <3>1. PICK q : q = p[i] OBVIOUS
    <3>2. q \in Positions /\ Len(root) <= Len(q) /\ \A j \in 1 .. Len(root) : root[j] = q[j]
      BY <2>2, <2>4, <2>7, <3>1
    <3> QED BY <3>1, <3>2, IsAtOrBelow
  <2> QED BY <2>1, <2>4, <2>5, <2>8
<1>7. p \in Seq(Positions) /\ Len(p) = k
  <2>1. p \in [1 .. k -> Positions] BY <1>5, <1>6
  <2> HIDE DEF k
  <2> QED BY <1>3, <2>1
<1>8. p[1] = n
  <2>1. 1 \in 1 .. k BY <1>3
  <2>2. p[1] \in Positions /\ Len(p[1]) = Len(n) /\ \A j \in 1 .. Len(n) : p[1][j] = n[j]
    <3>1. Len(n) + 1 - 1 = Len(n) BY <1>1
    <3> QED BY <1>6, <2>1, <3>1
  <2> QED BY <2>2, SamePosition
<1>9. ASSUME NEW m \in Positions, AtOrBelow(root, m), AtOrBelow(m, n)
      PROVE  \E i \in 1 .. k : m = p[i]
  <2>1. PICK i : i = Len(n) + 1 - Len(m) OBVIOUS
  <2>2. Len(m) \in Nat /\ Len(root) <= Len(m) /\ Len(m) <= Len(n)
    BY <1>1, <1>9, Pos, IsBelow DEF AtOrBelow
  <2>3. i \in 1 .. k /\ Len(n) + 1 - i = Len(m) BY <1>1, <2>1, <2>2
  <2>4. p[i] \in Positions /\ Len(p[i]) = Len(m) /\ \A j \in 1 .. Len(m) : p[i][j] = n[j]
    BY <1>6, <2>3
  <2>5. \A j \in 1 .. Len(m) : m[j] = n[j] BY <1>9, IsBelow DEF AtOrBelow
  <2>6. p[i] = m BY <2>4, <2>5, SamePosition
  <2> QED BY <2>3, <2>6
<1>10. p[k] = root
  <2>1. AtOrBelow(root, root) BY DEF AtOrBelow
  <2>2. PICK i \in 1 .. k : root = p[i] BY <1>9, <2>1
  <2>3. Len(root) = Len(n) + 1 - i BY <1>6, <2>2
  <2>4. i = k BY <1>1, <2>3
  <2> QED BY <2>2, <2>4
<1>11. ASSUME NEW i \in 1 .. k - 1
       PROVE  p[i] # root /\ p[i] # << >> /\ p[i + 1] = Parent(p[i])
  <2>1. i \in 1 .. k /\ i + 1 \in 1 .. k BY <1>3
  <2>2. PICK a, b : a = p[i] /\ b = p[i + 1] OBVIOUS
  <2>3. /\ a \in Positions /\ Len(a) = Len(n) + 1 - i /\ Len(a) > Len(root)
        /\ \A j \in 1 .. Len(a) : a[j] = n[j]
    BY <1>1, <1>6, <2>1, <2>2
  <2>4. /\ b \in Positions /\ Len(b) = Len(a) - 1 /\ \A j \in 1 .. Len(a) - 1 : b[j] = n[j]
    <3>1. Len(n) + 1 - (i + 1) = Len(a) - 1 BY <1>1, <2>3
    <3> QED BY <1>6, <2>1, <2>2, <3>1
  <2>5. a # root /\ a # << >>
    <3>1. Len(a) # 0 BY <1>1, <2>3
    <3> QED BY <1>1, <2>3, <3>1, Pos
  <2>6. /\ Parent(a) \in Positions /\ Len(Parent(a)) = Len(a) - 1
        /\ \A j \in 1 .. Len(a) - 1 : Parent(a)[j] = a[j]
    BY <2>3, <2>5, ParentOf
  <2>7. Len(a) \in Nat BY <2>3, Pos
  <2>8. \A j \in 1 .. Len(a) - 1 : b[j] = Parent(a)[j] BY <2>3, <2>4, <2>6, <2>7
  <2>9. b = Parent(a) BY <2>4, <2>6, <2>8, SamePosition
  <2> QED BY <2>2, <2>5, <2>9
<1> QED BY <1>3, <1>4, <1>6, <1>7, <1>8, <1>9, <1>10, <1>11

\* What the children promise is the best of what they promise one by one.
LEMMA ChildBoundsType ==
  ASSUME NEW t \in [Positions -> Node], NEW p \in Positions, t[p].edges # {}
  PROVE  LET b == ChildBounds(t, p)
         IN  /\ b.low \in -1 .. 1 /\ b.up \in -1 .. 1 /\ b.type \in {"Tablebase", "EndOfGame"}
             /\ \A c \in t[p].edges : t[c].low <= b.low /\ t[c].up <= b.up
             /\ \E c \in t[p].edges : t[c].low = b.low
             /\ \E c \in t[p].edges : t[c].up = b.up
<1> DEFINE kids == {t[c] : c \in t[p].edges}
           lows == {k.low : k \in kids}
           ups == {k.up : k \in kids}
<1>1. t[p] \in Node OBVIOUS
<1>2. t[p].edges \subseteq Positions BY <1>1, NodeType
<1>3. \A k \in kids : k \in Node BY <1>2
<1>4. lows \subseteq -1 .. 1 /\ ups \subseteq -1 .. 1 BY <1>3, NodeType
<1>5. kids # {} OBVIOUS
<1>6. lows # {} /\ ups # {} BY <1>5
<1>7. ChildBounds(t, p).low = Max(lows) /\ ChildBounds(t, p).up = Max(ups)
      /\ ChildBounds(t, p).type \in {"Tablebase", "EndOfGame"}
  BY DEF ChildBounds
<1>8. \A c \in t[p].edges : t[c].low \in lows /\ t[c].up \in ups OBVIOUS
<1>9. (\A a \in lows : \E c \in t[p].edges : t[c].low = a)
      /\ \A a \in ups : \E c \in t[p].edges : t[c].up = a
  OBVIOUS
<1> HIDE DEF lows, ups, kids
<1>10. Max(lows) \in lows /\ Max(lows) \in -1 .. 1 /\ \A y \in lows : Max(lows) >= y
  BY <1>4, <1>6, MaxOf
<1>11. Max(ups) \in ups /\ Max(ups) \in -1 .. 1 /\ \A y \in ups : Max(ups) >= y
  BY <1>4, <1>6, MaxOf
<1>12. \A c \in t[p].edges : t[c].low <= Max(lows) /\ t[c].up <= Max(ups)
  <2>1. \A y \in lows : y <= Max(lows) BY <1>4, <1>10
  <2>2. \A y \in ups : y <= Max(ups) BY <1>4, <1>11
  <2> QED BY <1>8, <2>1, <2>2
<1> QED BY <1>7, <1>9, <1>10, <1>11, <1>12

\* Those bounds are true of the parent, when it has all its children.
LEMMA ChildBoundsTrue ==
  ASSUME NEW t \in [Positions -> Node], NEW p \in Positions,
         t[p].edges = Children(p), Children(p) # {}, p \notin Over,
         \A c \in Children(p) : Sound(t[c], c)
  PROVE  LET b == ChildBounds(t, p)
         IN  -b.up <= GameValue[p] /\ GameValue[p] <= -b.low
<1>1. PICK b : b = ChildBounds(t, p) OBVIOUS
<1>2. /\ b.low \in -1 .. 1 /\ b.up \in -1 .. 1
      /\ \A c \in Children(p) : t[c].low <= b.low /\ t[c].up <= b.up
      /\ \E c \in Children(p) : t[c].low = b.low
  BY <1>1, ChildBoundsType
<1>3. PICK v : v = GameValue[p] OBVIOUS
<1>4. v \in -1 .. 1 BY <1>3, GameValueType
<1>5. (\A c \in Children(p) : -v >= GameValue[c]) /\ \E c \in Children(p) : -v = GameValue[c]
  BY <1>3, GameValueByChildren
<1>6. \A c \in Children(p) : t[c].low <= GameValue[c] /\ GameValue[c] <= t[c].up BY DEF Sound
<1>7. \A c \in Children(p) : t[c].low \in -1 .. 1 /\ t[c].up \in -1 .. 1 /\ GameValue[c] \in -1 .. 1
  <2>1. \A c \in Children(p) : c \in Positions /\ t[c] \in Node BY ChildOf
  <2> QED BY <2>1, NodeType, GameValueType
<1>8. -v <= b.up
  <2>1. PICK c \in Children(p) : -v = GameValue[c] BY <1>5
  <2> QED BY <1>2, <1>4, <1>6, <1>7, <2>1
<1>9. b.low <= -v
  <2>1. PICK c \in Children(p) : t[c].low = b.low BY <1>2
  <2>2. t[c].low <= GameValue[c] /\ -v >= GameValue[c] BY <1>5, <1>6
  <2> QED BY <1>2, <1>4, <1>7, <2>1, <2>2
<1>10. -b.up <= v /\ v <= -b.low BY <1>2, <1>4, <1>8, <1>9
<1> QED BY <1>1, <1>3, <1>10

LEMMA SetBoundsType ==
  ASSUME NEW x \in Node, NEW b, b.low \in -1 .. 1, b.up \in -1 .. 1,
         b.type \in {"Tablebase", "EndOfGame"}
  PROVE  LET y == MaybeSetBounds(x, b)
         IN  /\ y \in Node /\ y.edges = x.edges /\ y.flight = x.flight /\ y.n = x.n
             /\ Terminal(x) => Terminal(y)
             /\ y.term = "TwoFold" => x.term = "TwoFold"
<1>1. -b.up \in -1 .. 1 /\ -b.low \in -1 .. 1 OBVIOUS
<1>2. CASE b.low = b.up
  <2>1. PICK y : y = MakeTerminal(x, -b.up, b.type) OBVIOUS
  <2>2. /\ y \in Node /\ y.edges = x.edges /\ y.flight = x.flight /\ y.n = x.n
        /\ y.term = b.type
    BY <1>1, <2>1, TerminalIs
  <2>3. y.term # "TwoFold" /\ Terminal(y) BY <2>2 DEF Terminal
  <2>4. MaybeSetBounds(x, b) = y BY <1>2, <2>1 DEF MaybeSetBounds
  <2> QED BY <2>2, <2>3, <2>4
<1>3. CASE b.low # b.up
  <2>1. PICK l, u : l = -b.up /\ u = -b.low OBVIOUS
  <2>2. PICK y : y = [x EXCEPT !.low = l, !.up = u] OBVIOUS
  <2>3. /\ y \in Node /\ y.edges = x.edges /\ y.flight = x.flight /\ y.n = x.n
        /\ y.term = x.term
    BY <1>1, <2>1, <2>2 DEF Node
  <2>4. MaybeSetBounds(x, b) = y BY <1>3, <2>1, <2>2 DEF MaybeSetBounds
  <2> QED BY <2>3, <2>4 DEF Terminal
<1> QED BY <1>2, <1>3

LEMMA SetBoundsSound ==
  ASSUME NEW n \in Positions, NEW x \in Node, Sound(x, n), ~Terminal(x),
         NEW b, b.low \in -1 .. 1, b.up \in -1 .. 1, b.type \in {"Tablebase", "EndOfGame"},
         -b.up <= GameValue[n], GameValue[n] <= -b.low
  PROVE  Sound(MaybeSetBounds(x, b), n)
<1>1. -b.up \in -1 .. 1 /\ -b.low \in -1 .. 1 OBVIOUS
<1>2. CASE b.low = b.up
  <2>1. GameValue[n] \in -1 .. 1 BY GameValueType
  <2>2. -b.up = GameValue[n] BY <1>2, <2>1
  <2>3. Sound(MakeTerminal(x, -b.up, b.type), n) BY <1>1, <2>2, TerminalSound
  <2> QED BY <1>2, <2>3 DEF MaybeSetBounds
<1>3. CASE b.low # b.up
  <2>1. PICK l, u : l = -b.up /\ u = -b.low OBVIOUS
  <2>2. PICK y : y = [x EXCEPT !.low = l, !.up = u] OBVIOUS
  <2>3. /\ y.edges = x.edges /\ y.n = x.n /\ y.term = x.term /\ y.low = l /\ y.up = u
    BY <2>2 DEF Node
  <2>4. MaybeSetBounds(x, b) = y BY <1>3, <2>1, <2>2 DEF MaybeSetBounds
  <2>5. Sound(y, n) BY <2>1, <2>3 DEF Sound, Terminal
  <2> QED BY <2>4, <2>5
<1> QED BY <1>2, <1>3

\* What backing up does to other nodes: no edge goes, and what is over stays over.
Grown(x, y) ==
  /\ y.edges = x.edges
  /\ Terminal(x) => Terminal(y)
  /\ y.term = "TwoFold" => x.term = "TwoFold"

Backed(x, y, k) == Grown(x, y) /\ y.flight = x.flight - k /\ y.n = x.n + k

BackupState ==
  [t : [Positions -> Node], v : Int, fix : BOOLEAN, delta : Int, moved : SUBSET Positions,
   known : BOOLEAN]

\* What lets MakeSolid move the children of a node.
Movable(t, n) ==
  /\ ~Terminal(t[n])
  /\ \A c \in t[n].edges : t[c].flight > 0 => t[c].n > 1 /\ ~Terminal(t[c])
  /\ SumFunction([c \in t[n].edges |-> t[c].flight]) = t[n].flight - 1

\* One round keeps every bound true, and takes one visit out of flight at its node only.
LEMMA Round ==
  ASSUME NEW s \in BackupState, NEW n \in Positions, root \in Positions, AtOrBelow(root, n),
         AllSound(s.t, root), HeadLinked(s.t, root), Extended(s.t[n]),
         n # root => Extended(s.t[Parent(n)])
  PROVE  LET u == BackupRound(s, n)
         IN  /\ u \in BackupState /\ AllSound(u.t, root)
             /\ \A m \in Positions : Backed(s.t[m], u.t[m], IF m = n THEN 1 ELSE 0)
             /\ u.moved = s.moved \/ (u.moved = s.moved \cup s.t[n].edges /\ Movable(s.t, n))
<1>0. /\ s.t \in [Positions -> Node] /\ s.v \in Int /\ s.fix \in BOOLEAN /\ s.delta \in Int
      /\ s.moved \subseteq Positions /\ s.known \in BOOLEAN
  BY DEF BackupState
<1> DEFINE x == s.t[n]
           v == IF Terminal(x) THEN TerminalValue(x) ELSE s.v
           scored == FinalizeScoreUpdate(x, v)
           e == IF s.fix /\ ~Terminal(scored) THEN s.delta ELSE 0
           fixed == [scored EXCEPT !.w = @ + e]
           t == [s.t EXCEPT ![n] = fixed]
           solid == fixed.n >= SolidTreeThreshold /\ CanMakeSolid(t, n)
           solved == [t EXCEPT ![n].solid = @ \/ solid]
           next == [s EXCEPT !.t = solved, !.moved = @ \cup (IF solid THEN fixed.edges ELSE {})]
           p == Parent(n)
           b == ChildBounds(solved, p)
           known == /\ s.known /\ p # root /\ ~Terminal(solved[p])
                    /\ ~(b.low = -1 /\ b.up = 1)
           bounded == [solved EXCEPT ![p] = IF known THEN MaybeSetBounds(@, b) ELSE @]
           decided == known /\ Terminal(bounded[p])
           delta == IF decided THEN bounded[p].w - solved[p].w ELSE -next.delta
           nowSolid == fixed.solid \/ solid
           y == [fixed EXCEPT !.solid = nowSolid]
<1>1. BackupRound(s, n) =
        IF n = << >> THEN next
        ELSE [next EXCEPT !.t = bounded, !.v = -v, !.known = known,
                          !.fix = ToFix(s, solved[p], decided), !.delta = delta]
  BY DEF BackupRound
<1>2. x \in Node /\ v \in Int /\ e \in Int /\ solid \in BOOLEAN
  <2>1. x \in Node BY <1>0
  <2>2. solid \in BOOLEAN BY DEF CanMakeSolid
  <2> QED BY <1>0, <2>1, <2>2, TerminalValueType
<1>3. Terminal(x) => v = TerminalValue(x) OBVIOUS
<1>4. scored.term = x.term BY DEF FinalizeScoreUpdate, Node
<1>5. Terminal(x) => e = 0 BY <1>4 DEF Terminal
<1>6. /\ y \in Node /\ Backed(x, y, 1)
      /\ fixed \in Node /\ fixed.edges = x.edges /\ fixed.flight = x.flight - 1
      /\ fixed.term = x.term
      /\ Sound(x, n) => Sound(y, n)
  <2> HIDE DEF v, e, solid, x
  <2>1. /\ scored \in Node /\ scored.flight = x.flight - 1 /\ scored.edges = x.edges
        /\ scored.low = x.low /\ scored.up = x.up /\ scored.n = x.n + 1
        /\ Sound(x, n) => Sound(scored, n)
    <3>1. Extended(x) BY DEF x
    <3> QED BY <1>2, <1>3, <3>1, ScoreSound
  <2> HIDE DEF scored
  <2>2. PICK w : w = scored.w + e OBVIOUS
  <2>3. scored.w \in Int /\ w \in Int /\ (Terminal(x) => w = scored.w)
    <3>1. scored.w \in Int BY <2>1, NodeType
    <3> QED BY <1>2, <1>5, <2>2, <3>1
  <2>4. fixed = [scored EXCEPT !.w = w] BY <2>2
  <2> HIDE DEF fixed
  <2>5. /\ fixed \in Node /\ fixed.edges = scored.edges /\ fixed.flight = scored.flight
        /\ fixed.term = scored.term /\ fixed.low = scored.low /\ fixed.up = scored.up
        /\ fixed.n = scored.n /\ fixed.w = w
    BY <2>1, <2>3, <2>4 DEF Node
  <2>6. nowSolid \in BOOLEAN OBVIOUS
  <2> HIDE DEF nowSolid
  <2>7. /\ y \in Node /\ y.edges = fixed.edges /\ y.flight = fixed.flight
        /\ y.term = fixed.term /\ y.low = fixed.low /\ y.up = fixed.up
        /\ y.n = fixed.n /\ y.w = fixed.w
    BY <2>5, <2>6 DEF Node
  <2> HIDE DEF y
  <2>8. Backed(x, y, 1) BY <1>4, <2>1, <2>5, <2>7 DEF Backed, Grown, Terminal
  <2>9. ASSUME Sound(x, n) PROVE Sound(y, n)
    <3>1. y.term \in {"EndOfGame", "Tablebase"} => y.w = scored.w
      BY <1>4, <2>3, <2>5, <2>7 DEF Terminal
    <3>2. Sound(scored, n) BY <2>1, <2>9
    <3> QED BY <2>5, <2>7, <3>1, <3>2 DEF Sound, Terminal
  <2> QED BY <1>4, <2>1, <2>5, <2>7, <2>8, <2>9
<1>7. solved = [s.t EXCEPT ![n] = y]
  <2>1. t[n] = fixed BY <1>0
  <2> HIDE DEF fixed, solid
  <2> QED BY <1>0, <2>1
<1>8. solid => Movable(s.t, n) /\ fixed.edges = s.t[n].edges
  <2> SUFFICES ASSUME solid PROVE Movable(s.t, n) BY <1>6
  <2>1. t[n] = fixed BY <1>0
  <2>2. CanMakeSolid(t, n) OBVIOUS
  <2>3. x.edges \subseteq Positions /\ ~Terminal(x) /\ x.edges # {}
    BY <1>2, <1>6, <2>1, <2>2, NodeType DEF CanMakeSolid, Terminal
  <2> HIDE DEF fixed, scored, solid
  <2>4. CASE n \in x.edges
    \* A node is not its own child.
    <3>1. x.edges \in {{}, Children(n)} BY DEF AllSound, Sound
    <3>2. n \in Children(n) BY <2>4, <3>1
    <3>3. Below(n, n) BY <3>2, ChildOf
    <3> QED BY <3>3, BelowBelow
  <2>5. CASE n \notin x.edges
    <3>1. \A c \in x.edges : t[c] = s.t[c] BY <1>0, <2>3, <2>5
    <3>2. [c \in t[n].edges |-> t[c].flight] = [c \in x.edges |-> s.t[c].flight]
      BY <1>6, <2>1, <3>1
    <3>3. ~Terminal(x) /\ \A c \in x.edges : s.t[c].flight > 0 => s.t[c].n > 1 /\ ~Terminal(s.t[c])
      BY <1>6, <2>1, <2>2, <2>3, <3>1 DEF CanMakeSolid
    <3>4. SumFunction([c \in t[n].edges |-> t[c].flight]) = t[n].flight
      BY <2>2 DEF CanMakeSolid
    <3>5. t[n].flight = x.flight - 1 BY <1>6, <2>1
    <3>6. SumFunction([c \in x.edges |-> s.t[c].flight]) = x.flight - 1
      BY <3>2, <3>4, <3>5
    <3> QED BY <3>3, <3>6 DEF Movable
  <2> QED BY <2>4, <2>5
<1> HIDE DEF y, v, e, fixed, scored, t, solid, solved
<1>9. /\ solved \in [Positions -> Node] /\ AllSound(solved, root)
      /\ \A m \in Positions : Backed(s.t[m], solved[m], IF m = n THEN 1 ELSE 0)
  <2>1. solved \in [Positions -> Node] BY <1>0, <1>6, <1>7
  <2>2. \A m \in Positions : solved[m] = IF m = n THEN y ELSE s.t[m] BY <1>0, <1>7
  <2>3. AllSound(solved, root) BY <1>6, <2>2 DEF AllSound, GoesOn, Backed, Grown
  <2>4. ASSUME NEW z \in Node PROVE Backed(z, z, 0) BY NodeType DEF Backed, Grown
  <2>5. ASSUME NEW m \in Positions PROVE Backed(s.t[m], solved[m], IF m = n THEN 1 ELSE 0)
    <3>1. Backed(s.t[m], s.t[m], 0) BY <1>0, <2>4
    <3> QED BY <1>6, <2>2, <3>1
  <2> QED BY <2>1, <2>3, <2>5
<1>10. /\ next.moved \subseteq Positions
       /\ next.moved = s.moved \/ (next.moved = s.moved \cup s.t[n].edges /\ Movable(s.t, n))
       /\ next \in BackupState /\ next.t = solved
  <2>1. fixed.edges \subseteq Positions BY <1>6, NodeType
  <2>2. PICK a : a = s.moved \cup (IF solid THEN fixed.edges ELSE {}) OBVIOUS
  <2>3. a \subseteq Positions /\ (a = s.moved \/ (a = s.moved \cup s.t[n].edges /\ Movable(s.t, n)))
    BY <1>0, <1>8, <2>1, <2>2
  <2>4. next = [s EXCEPT !.t = solved, !.moved = a] BY <2>2
  <2>5. next \in BackupState /\ next.t = solved /\ next.moved = a
    BY <1>9, <2>3, <2>4 DEF BackupState
  <2> QED BY <2>3, <2>5
<1> HIDE DEF next
<1>11. CASE n = << >> BY <1>1, <1>9, <1>10, <1>11
<1>12. CASE n # << >>
  <2>1. p \in Positions /\ n \in Children(p) /\ Below(p, n) BY <1>12, ParentOf
  <2>2. solved[p] \in Node /\ bounded = [solved EXCEPT ![p] = bounded[p]] /\ bounded[p] =
          IF known THEN MaybeSetBounds(solved[p], b) ELSE solved[p]
    <3> HIDE DEF known, b, p
    <3> QED BY <1>9, <2>1
  <2>3. known => /\ s.t[p].edges # {} /\ solved[p].edges # {} /\ ~Terminal(solved[p])
    <3>1. solved[p].edges = s.t[p].edges /\ (Terminal(s.t[p]) => Terminal(solved[p]))
      BY <1>9, <2>1 DEF Backed, Grown
    <3>2. CASE n = root BY <1>12, <3>1, <3>2 DEF HeadLinked
    <3>3. CASE n # root BY <3>1, <3>3 DEF Extended
    <3> QED BY <3>2, <3>3
  <2> HIDE DEF p
  <2>4. known => b.low \in -1 .. 1 /\ b.up \in -1 .. 1 /\ b.type \in {"Tablebase", "EndOfGame"}
    BY <1>9, <2>1, <2>3, ChildBoundsType
  <2>5. /\ bounded[p] \in Node /\ Grown(solved[p], bounded[p])
        /\ bounded[p].flight = solved[p].flight /\ bounded[p].n = solved[p].n
    <3>1. CASE ~known BY <2>2, <3>1 DEF Grown
    <3>2. CASE known
      <4> HIDE DEF known, b, bounded
      <4>1. PICK z : z = MaybeSetBounds(solved[p], b) OBVIOUS
      <4>2. /\ z \in Node /\ z.edges = solved[p].edges
            /\ z.flight = solved[p].flight /\ z.n = solved[p].n
            /\ Terminal(solved[p]) => Terminal(z)
            /\ z.term = "TwoFold" => solved[p].term = "TwoFold"
        BY <2>2, <2>4, <3>2, <4>1, SetBoundsType
      <4>3. bounded[p] = z BY <2>2, <3>2, <4>1
      <4> QED BY <4>2, <4>3 DEF Grown
    <3> QED BY <3>1, <3>2
  <2>6. AtOrBelow(root, p) => Sound(bounded[p], p)
    <3> SUFFICES ASSUME AtOrBelow(root, p) PROVE Sound(bounded[p], p) OBVIOUS
    <3>1. Sound(solved[p], p) BY <1>9, <2>1 DEF AllSound
    <3>2. CASE ~known BY <2>2, <3>1, <3>2
    <3>3. CASE known
      <4>1. solved[p].edges = Children(p) /\ Children(p) # {} BY <2>3, <3>1, <3>3 DEF Sound
      <4>6. p \notin Over BY <1>9, <2>1, <2>3, <3>3 DEF AllSound, GoesOn
      <4>2. ASSUME NEW c \in Children(p) PROVE Sound(solved[c], c)
        <5>1. c \in Positions /\ Below(p, c) BY <2>1, ChildOf
        <5>2. AtOrBelow(root, c) BY <2>1, <5>1, BelowBelow DEF AtOrBelow
        <5> QED BY <1>9, <5>1, <5>2 DEF AllSound
      <4>3. -b.up <= GameValue[p] /\ GameValue[p] <= -b.low
        BY <1>9, <2>1, <4>1, <4>2, <4>6, ChildBoundsTrue
      <4>4. ~Terminal(solved[p]) BY <2>3, <3>3
      <4> HIDE DEF known, b, bounded
      <4>5. Sound(MaybeSetBounds(solved[p], b), p)
        BY <2>1, <2>2, <2>4, <3>1, <3>3, <4>3, <4>4, SetBoundsSound
      <4> QED BY <2>2, <3>3, <4>5
    <3> QED BY <3>2, <3>3
  <2>7. known \in BOOLEAN /\ decided \in BOOLEAN BY DEF Terminal
  <2> HIDE DEF known, b, bounded, decided
  <2>8. bounded \in [Positions -> Node]
        /\ \A m \in Positions : bounded[m] = IF m = p THEN bounded[p] ELSE solved[m]
    BY <1>9, <2>1, <2>2, <2>5
  <2>9. AllSound(bounded, root) BY <1>9, <2>5, <2>6, <2>8 DEF AllSound, GoesOn, Grown
  <2>10. ASSUME NEW m \in Positions PROVE Backed(s.t[m], bounded[m], IF m = n THEN 1 ELSE 0)
    <3>1. Backed(s.t[m], solved[m], IF m = n THEN 1 ELSE 0) BY <1>9
    <3>2. CASE m = p BY <2>5, <3>1, <3>2 DEF Backed, Grown
    <3>3. CASE m # p BY <2>8, <3>1, <3>3
    <3> QED BY <3>2, <3>3
  <2>11. delta \in Int /\ -v \in Int
    <3>1. bounded[p].w \in Int /\ solved[p].w \in Int BY <2>2, <2>5, NodeType
    <3>2. next.delta \in Int BY <1>10 DEF BackupState
    <3> QED BY <1>2, <3>1, <3>2
  <2> HIDE DEF delta
  <2>12. ToFix(s, solved[p], decided) \in BOOLEAN BY <1>0, <2>7 DEF ToFix, Terminal
  <2>13. PICK f, nv : f = ToFix(s, solved[p], decided) /\ nv = -v OBVIOUS
  <2>14. PICK u : u = [next EXCEPT !.t = bounded, !.v = nv, !.known = known, !.fix = f, !.delta = delta]
    OBVIOUS
  <2>15. u \in BackupState /\ u.t = bounded /\ u.moved = next.moved
    BY <1>10, <2>7, <2>8, <2>11, <2>12, <2>13, <2>14 DEF BackupState
  <2>16. BackupRound(s, n) = u BY <1>1, <1>12, <2>13, <2>14
  <2> QED BY <1>10, <2>9, <2>10, <2>15, <2>16
<1> QED BY <1>11, <1>12

\* Where backing up begins.
BackupStart(t, n) ==
  [t |-> t, v |-> Eval[n], fix |-> FALSE, delta |-> 0, moved |-> {},
   known |-> StickyEndgames /\ Terminal(t[n]) /\ t[n].n = 0]

\* What backing up a leaf does, round by round.
IsBackupRun(g, a, n, held, k) ==
  g = [i \in 0 .. k |-> IF i = 0 THEN BackupStart(a.t, n) ELSE BackupRound(g[i - 1], PathUp(n)[i])]

LEMMA BackupRun ==
  ASSUME NEW a, NEW n, NEW held, Len(PathUp(n)) \in Nat
  PROVE  \E g : /\ BackupOne(a, n, held) = [t |-> g[Len(PathUp(n))].t, lost |-> a.lost \cup (g[Len(PathUp(n))].moved \cap held)]
               /\ g[0] = BackupStart(a.t, n)
               /\ \A i \in 1 .. Len(PathUp(n)) : g[i] = BackupRound(g[i - 1], PathUp(n)[i])
<1> DEFINE T == {j \in 0 .. Len(PathUp(n)) : \E g : IsBackupRun(g, a, n, held, j)}
<1>1. 0 \in T
  <2> DEFINE e == [i \in 0 .. 0 |-> BackupStart(a.t, n)]
  <2>1. e = [i \in 0 .. 0 |-> IF i = 0 THEN BackupStart(a.t, n) ELSE BackupRound(e[i - 1], PathUp(n)[i])]
    OBVIOUS
  <2> HIDE DEF e
  <2> QED BY <2>1 DEF IsBackupRun
<1>2. ASSUME NEW j \in 1 .. Len(PathUp(n)), j - 1 \in T PROVE j \in T
  <2>1. PICK g : g = [i \in 0 .. j - 1 |-> IF i = 0 THEN BackupStart(a.t, n) ELSE BackupRound(g[i - 1], PathUp(n)[i])]
    BY <1>2 DEF IsBackupRun
  <2>2. PICK z : z = BackupRound(g[j - 1], PathUp(n)[j]) OBVIOUS
  <2>3. j \in Int /\ j >= 1 /\ z = z OBVIOUS
  <2>4. PICK h : Longer(h, g, j, z) BY <2>3, RunLonger
  <2>5. ASSUME NEW i \in 0 .. j
        PROVE  h[i] = IF i = 0 THEN BackupStart(a.t, n) ELSE BackupRound(h[i - 1], PathUp(n)[i])
    <3>1. CASE i = j BY <2>2, <2>4, <3>1 DEF Longer
    <3>2. CASE i # j
      <4>1. i \in 0 .. j - 1 /\ (i # 0 => i - 1 \in 0 .. j - 1) BY <3>2
      <4>2. g[i] = IF i = 0 THEN BackupStart(a.t, n) ELSE BackupRound(g[i - 1], PathUp(n)[i]) BY <2>1, <4>1
      <4> QED BY <2>4, <4>1, <4>2 DEF Longer
    <3> QED BY <3>1, <3>2
  <2>6. h = [i \in 0 .. j |-> IF i = 0 THEN BackupStart(a.t, n) ELSE BackupRound(h[i - 1], PathUp(n)[i])]
    BY <2>4, <2>5 DEF Longer
  <2>7. IsBackupRun(h, a, n, held, j) BY <2>6 DEF IsBackupRun
  <2> QED BY <2>7
<1> HIDE DEF T
<1>3. \E g : IsBackupRun(g, a, n, held, Len(PathUp(n)))
  <2>1. Len(PathUp(n)) \in T BY <1>1, <1>2, UpTo
  <2> QED BY <2>1 DEF T
<1>4. PICK g : IsBackupRun(g, a, n, held, Len(PathUp(n))) /\ BackupOne(a, n, held) = [t |-> g[Len(PathUp(n))].t, lost |-> a.lost \cup (g[Len(PathUp(n))].moved \cap held)]
  <2>1. PICK g : g = CHOOSE f : IsBackupRun(f, a, n, held, Len(PathUp(n))) OBVIOUS
  <2>2. IsBackupRun(g, a, n, held, Len(PathUp(n))) BY <1>3, <2>1
  <2>3. BackupOne(a, n, held) = [t |-> g[Len(PathUp(n))].t, lost |-> a.lost \cup (g[Len(PathUp(n))].moved \cap held)] BY <2>1 DEF BackupOne, BackupStart, IsBackupRun
  <2> QED BY <2>2, <2>3
<1>5. g = [i \in 0 .. Len(PathUp(n)) |-> IF i = 0 THEN BackupStart(a.t, n) ELSE BackupRound(g[i - 1], PathUp(n)[i])]
  BY <1>4 DEF IsBackupRun
<1>6. g[0] = BackupStart(a.t, n) BY <1>2, <1>5
<1>7. ASSUME NEW i \in 1 .. Len(PathUp(n)) PROVE g[i] = BackupRound(g[i - 1], PathUp(n)[i])
  <2>1. i \in 0 .. Len(PathUp(n)) /\ i # 0 BY <1>2
  <2> QED BY <1>5, <2>1
<1> QED BY <1>4, <1>6, <1>7

OnPath(n, m) == AtOrBelow(root, m) /\ AtOrBelow(m, n)

\* A child that has been moved while a leaf was backed up.
Shifted(t, n, c) ==
  \E p \in Positions, u \in [Positions -> Node] :
     /\ OnPath(n, p) /\ c \in t[p].edges /\ Movable(u, p)
     /\ \A m \in Positions : Backed(t[m], u[m], IF Below(p, m) /\ AtOrBelow(m, n) THEN 1 ELSE 0)

LEMMA BackedTwice ==
  ASSUME NEW x \in Node, NEW y \in Node, NEW z \in Node, NEW a \in Int, NEW b \in Int,
         Backed(x, y, a), Backed(y, z, b)
  PROVE  Backed(x, z, a + b)
<1>1. x.n \in Int /\ x.flight \in Int /\ y.n \in Int /\ y.flight \in Int BY NodeType
<1>2. Grown(x, z) BY DEF Backed, Grown
<1> QED BY <1>1, <1>2 DEF Backed

LEMMA BackedExtended ==
  ASSUME NEW x, NEW y, Grown(x, y), Extended(x) PROVE Extended(y)
BY DEF Extended, Grown

LEMMA BackedNone == ASSUME NEW x \in Node PROVE Backed(x, x, 0)
BY NodeType DEF Backed, Grown

\* Where a leaf may be backed up.
Rising(t, n) ==
  /\ AtOrBelow(root, n) /\ Extended(t[n])
  /\ \A m \in Positions : AtOrBelow(root, m) /\ Below(m, n) => Extended(t[m])

BackedUp(t, lo, n, held, u) ==
  /\ u.t \in [Positions -> Node] /\ AllSound(u.t, root)
  /\ \A m \in Positions : Backed(t[m], u.t[m], IF OnPath(n, m) THEN 1 ELSE 0)
  /\ \E moved : /\ u.lost = lo \cup (moved \cap held)
                /\ \A c \in moved : Shifted(t, n, c)
  /\ u = [t |-> u.t, lost |-> u.lost]

\* Backing up a leaf keeps every bound true, whatever becomes terminal on the way, and takes
\* one visit out of flight at every node of its path.
LEMMA BackupOneSound ==
  ASSUME NEW t \in [Positions -> Node], NEW lo, NEW a, a = [t |-> t, lost |-> lo], NEW held,
         NEW n \in Positions, root \in Positions,
         AllSound(t, root), HeadLinked(t, root), Rising(t, n)
  PROVE  BackedUp(t, lo, n, held, BackupOne(a, n, held))
<1>1. PICK path : path = PathUp(n) OBVIOUS
<1>2. PICK k : k = Len(path) OBVIOUS
<1>3. AtOrBelow(root, n) BY DEF Rising
<1>4. /\ k \in Nat /\ k # 0 /\ path[1] = n /\ path[k] = root
      /\ \A i \in 1 .. k : path[i] \in Positions /\ OnPath(n, path[i]) /\ Len(path[i]) = Len(n) + 1 - i
      /\ \A i \in 1 .. k - 1 : path[i] # root /\ path[i] # << >> /\ path[i + 1] = Parent(path[i])
      /\ \A m \in Positions : OnPath(n, m) => \E i \in 1 .. k : m = path[i]
  <2>1. LET p == PathUp(n)
        IN  /\ p \in Seq(Positions) /\ Len(p) \in Nat /\ Len(p) # 0
            /\ p[1] = n /\ p[Len(p)] = root
            /\ \A i \in 1 .. Len(p) : /\ p[i] \in Positions
                                      /\ AtOrBelow(root, p[i]) /\ AtOrBelow(p[i], n)
                                      /\ Len(p[i]) = Len(n) + 1 - i
            /\ \A i \in 1 .. Len(p) - 1 : p[i] # root /\ p[i] # << >> /\ p[i + 1] = Parent(p[i])
            /\ \A m \in Positions : AtOrBelow(root, m) /\ AtOrBelow(m, n) =>
                  \E i \in 1 .. Len(p) : m = p[i]
    BY <1>3, PathFacts
  <2> QED BY ONLY <1>1, <1>2, <2>1 DEF OnPath
<1>5. PICK g : /\ BackupOne(a, n, held) = [t |-> g[k].t, lost |-> lo \cup (g[k].moved \cap held)]
               /\ g[0] = BackupStart(t, n)
               /\ \A i \in 1 .. k : g[i] = BackupRound(g[i - 1], path[i])
  <2>1. a.t = t /\ a.lost = lo OBVIOUS
  <2>2. Len(PathUp(n)) \in Nat BY <1>1, <1>2, <1>4
  <2>3. PICK g : /\ BackupOne(a, n, held) = [t |-> g[Len(PathUp(n))].t,
                                             lost |-> a.lost \cup (g[Len(PathUp(n))].moved \cap held)]
                 /\ g[0] = BackupStart(a.t, n)
                 /\ \A i \in 1 .. Len(PathUp(n)) : g[i] = BackupRound(g[i - 1], PathUp(n)[i])
    BY ONLY <2>2, BackupRun
  <2> QED BY <1>1, <1>2, <2>1, <2>3
<1> DEFINE Up(i, m) == IF OnPath(n, m) /\ Len(m) > Len(n) - i THEN 1 ELSE 0
           P(i) == /\ g[i] \in BackupState /\ AllSound(g[i].t, root)
                   /\ \A m \in Positions : Backed(t[m], g[i].t[m], Up(i, m))
                   /\ \A c \in g[i].moved : Shifted(t, n, c)
           T == {i \in 0 .. k : P(i)}
<1>6. Len(n) \in Nat /\ \A m \in Positions : Len(m) \in Nat BY Pos
<1>7. \A m \in Positions : OnPath(n, m) => Len(m) <= Len(n)
  <2>1. ASSUME NEW m \in Positions, AtOrBelow(m, n) PROVE Len(m) <= Len(n)
    BY <1>6, <2>1, IsBelow DEF AtOrBelow
  <2> QED BY <2>1 DEF OnPath
<1>8. P(0)
  <2>1. Eval[n] \in Int BY SearchAssumption
  <2>2. g[0] \in BackupState /\ g[0].t = t /\ g[0].moved = {}
    <3>1. PICK v, b : v = Eval[n] /\ b = (StickyEndgames /\ Terminal(t[n]) /\ t[n].n = 0) OBVIOUS
    <3>2. g[0] = [t |-> t, v |-> v, fix |-> FALSE, delta |-> 0, moved |-> {}, known |-> b]
      BY <1>5, <3>1 DEF BackupStart
    <3>3. b \in BOOLEAN BY <3>1 DEF Terminal
    <3>4. {} \in SUBSET Positions /\ 0 \in Int OBVIOUS
    <3>5. v \in Int BY <2>1, <3>1
    <3> QED BY <3>2, <3>3, <3>4, <3>5 DEF BackupState
  <2>3. ASSUME NEW m \in Positions PROVE Backed(t[m], t[m], Up(0, m))
    <3>1. Up(0, m) = 0 BY <1>6, <1>7
    <3>2. Backed(t[m], t[m], 0) BY BackedNone
    <3> HIDE DEF Up
    <3> QED BY <3>1, <3>2
  <2> HIDE DEF Up
  <2> QED BY <2>2, <2>3
<1>9. ASSUME NEW i \in 1 .. k, P(i - 1) PROVE P(i)
  <2>1. PICK p : p = path[i] OBVIOUS
  <2>2. p \in Positions /\ OnPath(n, p) /\ Len(p) = Len(n) + 1 - i BY <1>4, <2>1
  <2>3. PICK s : s = g[i - 1] OBVIOUS
  <2>4. /\ s \in BackupState /\ AllSound(s.t, root) /\ s.t \in [Positions -> Node]
        /\ \A m \in Positions : Backed(t[m], s.t[m], Up(i - 1, m))
        /\ \A c \in s.moved : Shifted(t, n, c)
    <3> HIDE DEF Up
    <3> QED BY <1>9, <2>3 DEF BackupState
  <2>5. \A m \in Positions : s.t[m].edges = t[m].edges /\ (Extended(t[m]) => Extended(s.t[m]))
    BY <2>4, BackedExtended DEF Backed, Grown
  <2>6. HeadLinked(s.t, root)
    <3>1. root # << >> => Parent(root) \in Positions BY ParentOf
    <3> QED BY <2>5, <3>1 DEF HeadLinked
  <2>7. Extended(s.t[p])
    <3>1. CASE p = n BY <2>2, <2>5, <3>1 DEF Rising
    <3>2. CASE p # n BY <2>2, <2>5, <3>2 DEF Rising, OnPath, AtOrBelow, Extended
    <3> QED BY <3>1, <3>2
  <2>8. p # root => Extended(s.t[Parent(p)])
    <3> SUFFICES ASSUME p # root PROVE Extended(s.t[Parent(p)]) OBVIOUS
    <3>1. i \in 1 .. k - 1 BY <1>4, <2>1
    <3>2. Parent(p) = path[i + 1] /\ i + 1 \in 1 .. k /\ p # << >> BY <1>4, <2>1, <3>1
    <3>3. Parent(p) \in Positions /\ OnPath(n, Parent(p)) /\ Below(Parent(p), p)
      BY <1>4, <2>2, <3>2, ParentOf
    <3>4. Below(Parent(p), n) BY <2>2, <3>3, BelowBelow DEF OnPath, AtOrBelow
    <3> QED BY <2>5, <3>3, <3>4 DEF Rising, OnPath, Extended
  <2>9. PICK u : u = BackupRound(s, p) OBVIOUS
  <2>10. /\ u \in BackupState /\ AllSound(u.t, root)
         /\ \A m \in Positions : Backed(s.t[m], u.t[m], IF m = p THEN 1 ELSE 0)
         /\ u.moved = s.moved \/ (u.moved = s.moved \cup s.t[p].edges /\ Movable(s.t, p))
    <3>1. AtOrBelow(root, p) BY <2>2 DEF OnPath
    <3> HIDE DEF Up
    <3> QED BY <2>2, <2>4, <2>6, <2>7, <2>8, <2>9, <3>1, Round
  <2>11. g[i] = u BY <1>5, <2>1, <2>3, <2>9
  <2>12. ASSUME NEW m \in Positions PROVE Up(i - 1, m) + (IF m = p THEN 1 ELSE 0) = Up(i, m)
    <3>1. i \in Int /\ k \in Int BY <1>4
    <3>2. CASE m = p BY <1>6, <2>2, <3>1, <3>2
    <3>3. CASE m # p
      <4>1. OnPath(n, m) => Len(m) # Len(n) + 1 - i
        <5> SUFFICES ASSUME OnPath(n, m), Len(m) = Len(n) + 1 - i PROVE FALSE OBVIOUS
        <5>1. PICK j \in 1 .. k : m = path[j] BY <1>4
        <5>2. Len(m) = Len(n) + 1 - j BY <1>4, <5>1
        <5>3. i = j BY <1>6, <5>2
        <5> QED BY <2>1, <3>3, <5>1, <5>3
      <4>2. Len(m) \in Int /\ Len(n) \in Int BY <1>6
      <4>3. OnPath(n, m) => (Len(m) > Len(n) - i <=> Len(m) > Len(n) - (i - 1))
        BY <3>1, <4>1, <4>2
      <4> QED BY <3>3, <4>3
    <3> QED BY <3>2, <3>3
  <2>13. ASSUME NEW m \in Positions PROVE Backed(t[m], u.t[m], Up(i, m))
    <3>1. Up(i - 1, m) \in Int OBVIOUS
    <3> HIDE DEF Up
    <3>2. PICK x, y, z : x = t[m] /\ y = s.t[m] /\ z = u.t[m] OBVIOUS
    <3>3. x \in Node /\ y \in Node /\ z \in Node BY <2>4, <2>10, <3>2 DEF BackupState
    <3>4. PICK e, f : e = Up(i - 1, m) /\ f = IF m = p THEN 1 ELSE 0 OBVIOUS
    <3>5. Backed(x, y, e) /\ Backed(y, z, f) /\ e \in Int /\ f \in Int
      BY <2>4, <2>10, <3>1, <3>2, <3>4
    <3>6. Backed(x, z, e + f) BY <3>3, <3>5, BackedTwice
    <3> QED BY <2>12, <3>2, <3>4, <3>6
  <2>14. ASSUME Movable(s.t, p), NEW c \in s.t[p].edges PROVE Shifted(t, n, c)
    <3>1. c \in t[p].edges BY <2>2, <2>5
    <3>2. ASSUME NEW m \in Positions
          PROVE  Up(i - 1, m) = IF Below(p, m) /\ AtOrBelow(m, n) THEN 1 ELSE 0
      <4>1. Len(m) \in Int /\ Len(n) \in Int /\ i \in Int BY <1>6
      <4>2. CASE Below(p, m) /\ AtOrBelow(m, n)
        <5>1. OnPath(n, m) BY <2>2, <4>2, BelowBelow DEF OnPath, AtOrBelow
        <5>2. Len(p) < Len(m) BY <2>2, <4>2, IsBelow
        <5> QED BY <2>2, <4>1, <4>2, <5>1, <5>2
      <4>3. CASE OnPath(n, m) /\ Len(m) > Len(n) - (i - 1)
        <5>1. Len(p) < Len(m) BY <2>2, <4>1, <4>3
        <5>2. ~Below(m, p) /\ m # p BY <1>6, <2>2, <5>1, IsBelow
        <5>3. AtOrBelow(m, n) /\ AtOrBelow(p, n) BY <2>2, <4>3 DEF OnPath
        <5>4. Below(p, m)
          <6>1. CASE m = n BY <2>2, <5>2, <5>3, <6>1 DEF AtOrBelow
          <6>2. CASE p = n BY <1>6, <1>7, <2>2, <4>3, <5>1, <6>2
          <6>3. CASE m # n /\ p # n BY <2>2, <5>2, <5>3, <6>3, BelowBelow DEF AtOrBelow
          <6> QED BY <6>1, <6>2, <6>3
        <5> QED BY <4>3, <5>3, <5>4
      <4> QED BY <4>2, <4>3
    <3> HIDE DEF Up
    <3>3. \A m \in Positions :
             Backed(t[m], s.t[m], IF Below(p, m) /\ AtOrBelow(m, n) THEN 1 ELSE 0)
      BY <2>4, <3>2
    <3> QED BY <2>2, <2>4, <2>14, <3>1, <3>3 DEF Shifted
  <2>15. \A c \in u.moved : Shifted(t, n, c) BY <2>4, <2>10, <2>14
  <2> HIDE DEF Up
  <2> QED BY <2>10, <2>11, <2>13, <2>15
<1> HIDE DEF P
<1>10. P(k)
  <2>1. 0 \in T /\ \A i \in 1 .. k : i - 1 \in T => i \in T BY <1>4, <1>8, <1>9
  <2> HIDE DEF T
  <2> QED BY <1>4, <2>1, UpTo DEF T
<1>11. ASSUME NEW m \in Positions PROVE Up(k, m) = IF OnPath(n, m) THEN 1 ELSE 0
  <2>1. OnPath(n, m) => Len(root) <= Len(m)
    <3>1. ASSUME AtOrBelow(root, m) PROVE Len(root) <= Len(m) BY <1>6, <3>1, IsBelow DEF AtOrBelow
    <3> QED BY <3>1 DEF OnPath
  <2>2. k \in 1 .. k BY <1>4
  <2>3. Len(root) = Len(n) + 1 - k BY <1>4, <2>2
  <2>4. Len(root) \in Int /\ Len(m) \in Int /\ Len(n) \in Int /\ k \in Int BY <1>4, <1>6
  <2> QED BY <2>1, <2>3, <2>4
<1> HIDE DEF Up
<1>12. PICK s : s = g[k] OBVIOUS
<1>13. /\ s \in BackupState /\ AllSound(s.t, root)
       /\ \A m \in Positions : Backed(t[m], s.t[m], IF OnPath(n, m) THEN 1 ELSE 0)
       /\ \A c \in s.moved : Shifted(t, n, c)
  BY <1>10, <1>11, <1>12 DEF P
<1>14. s.t \in [Positions -> Node] BY <1>13 DEF BackupState
<1>15. BackupOne(a, n, held) = [t |-> s.t, lost |-> lo \cup (s.moved \cap held)] BY <1>5, <1>12
<1>16. PICK u : u = [t |-> s.t, lost |-> lo \cup (s.moved \cap held)] OBVIOUS
<1>17. BackedUp(t, lo, n, held, u) BY <1>13, <1>14, <1>16 DEF BackedUp
<1> QED BY <1>15, <1>16, <1>17

\* What is held at the turn of each leaf.
StillHeld(leaves, held, i) == held \cup {leaves[j] : j \in i + 1 .. Len(leaves)}

\* What backing leaves up does, one by one.
IsBackupAllRun(g, t, leaves, held, k) ==
  g = [i \in 0 .. k |-> IF i = 0 THEN [t |-> t, lost |-> lost] ELSE BackupOne(g[i - 1], leaves[i], StillHeld(leaves, held, i))]

LEMMA BackupAllRun ==
  ASSUME NEW t, NEW leaves, NEW held, Len(leaves) \in Nat
  PROVE  \E g : /\ BackupAll(t, leaves, held) = g[Len(leaves)]
               /\ g[0] = [t |-> t, lost |-> lost]
               /\ \A i \in 1 .. Len(leaves) : g[i] = BackupOne(g[i - 1], leaves[i], StillHeld(leaves, held, i))
<1> DEFINE T == {j \in 0 .. Len(leaves) : \E g : IsBackupAllRun(g, t, leaves, held, j)}
<1>1. 0 \in T
  <2> DEFINE e == [i \in 0 .. 0 |-> [t |-> t, lost |-> lost]]
  <2>1. e = [i \in 0 .. 0 |-> IF i = 0 THEN [t |-> t, lost |-> lost] ELSE BackupOne(e[i - 1], leaves[i], StillHeld(leaves, held, i))]
    OBVIOUS
  <2> HIDE DEF e
  <2> QED BY <2>1 DEF IsBackupAllRun
<1>2. ASSUME NEW j \in 1 .. Len(leaves), j - 1 \in T PROVE j \in T
  <2>1. PICK g : g = [i \in 0 .. j - 1 |-> IF i = 0 THEN [t |-> t, lost |-> lost] ELSE BackupOne(g[i - 1], leaves[i], StillHeld(leaves, held, i))]
    BY <1>2 DEF IsBackupAllRun
  <2>2. PICK z : z = BackupOne(g[j - 1], leaves[j], StillHeld(leaves, held, j)) OBVIOUS
  <2>3. j \in Int /\ j >= 1 /\ z = z OBVIOUS
  <2>4. PICK h : Longer(h, g, j, z) BY <2>3, RunLonger
  <2>5. ASSUME NEW i \in 0 .. j
        PROVE  h[i] = IF i = 0 THEN [t |-> t, lost |-> lost] ELSE BackupOne(h[i - 1], leaves[i], StillHeld(leaves, held, i))
    <3>1. CASE i = j
      <4>1. i # 0 /\ i - 1 \in 0 .. j - 1 BY <3>1
      <4>2. h[i - 1] = g[i - 1] /\ h[i] = z BY <2>4, <3>1, <4>1 DEF Longer
      <4> QED BY <2>2, <3>1, <4>1, <4>2
    <3>2. CASE i # j
      <4>1. i \in 0 .. j - 1 /\ (i # 0 => i - 1 \in 0 .. j - 1) BY <3>2
      <4>2. g[i] = IF i = 0 THEN [t |-> t, lost |-> lost] ELSE BackupOne(g[i - 1], leaves[i], StillHeld(leaves, held, i)) BY <2>1, <4>1
      <4> QED BY <2>4, <4>1, <4>2 DEF Longer
    <3> QED BY <3>1, <3>2
  <2>6. h = [i \in 0 .. j |-> IF i = 0 THEN [t |-> t, lost |-> lost] ELSE BackupOne(h[i - 1], leaves[i], StillHeld(leaves, held, i))]
    BY <2>4, <2>5 DEF Longer
  <2>7. IsBackupAllRun(h, t, leaves, held, j) BY <2>6 DEF IsBackupAllRun
  <2> QED BY <2>7
<1> HIDE DEF T
<1>3. \E g : IsBackupAllRun(g, t, leaves, held, Len(leaves))
  <2>1. Len(leaves) \in T BY <1>1, <1>2, UpTo
  <2> QED BY <2>1 DEF T
<1>4. PICK g : IsBackupAllRun(g, t, leaves, held, Len(leaves)) /\ BackupAll(t, leaves, held) = g[Len(leaves)]
  <2>1. PICK g : g = CHOOSE f : IsBackupAllRun(f, t, leaves, held, Len(leaves)) OBVIOUS
  <2>2. IsBackupAllRun(g, t, leaves, held, Len(leaves)) BY <1>3, <2>1
  <2>3. BackupAll(t, leaves, held) = g[Len(leaves)] BY <2>1 DEF BackupAll, StillHeld, IsBackupAllRun
  <2> QED BY <2>2, <2>3
<1>5. g = [i \in 0 .. Len(leaves) |-> IF i = 0 THEN [t |-> t, lost |-> lost] ELSE BackupOne(g[i - 1], leaves[i], StillHeld(leaves, held, i))]
  BY <1>4 DEF IsBackupAllRun
<1>6. g[0] = [t |-> t, lost |-> lost] BY <1>2, <1>5
<1>7. ASSUME NEW i \in 1 .. Len(leaves) PROVE g[i] = BackupOne(g[i - 1], leaves[i], StillHeld(leaves, held, i))
  <2>1. i \in 0 .. Len(leaves) /\ i # 0 BY <1>2
  <2> QED BY <1>5, <2>1
<1> QED BY <1>4, <1>6, <1>7

\* How many of the first leaves were backed up through a node.
Upto(leaves, i, m) == Cardinality({j \in 1 .. i : OnPath(leaves[j], m)})

LEMMA UptoStep ==
  ASSUME NEW leaves, NEW m
  PROVE  /\ Upto(leaves, 0, m) = 0
         /\ \A i \in Nat : Upto(leaves, i, m) \in Nat
         /\ \A i \in Nat \ {0} : Upto(leaves, i, m) =
               Upto(leaves, i - 1, m) + (IF OnPath(leaves[i], m) THEN 1 ELSE 0)
<1> DEFINE S(i) == {j \in 1 .. i : OnPath(leaves[j], m)}
<1>1. Upto(leaves, 0, m) = 0
  <2>1. S(0) = {} OBVIOUS
  <2> QED BY <2>1, FS_EmptySet DEF Upto
<1>2. ASSUME NEW i \in Nat PROVE IsFiniteSet(S(i)) /\ Cardinality(S(i)) \in Nat
  <2>1. IsFiniteSet(1 .. i) BY FS_Interval
  <2>2. S(i) \subseteq 1 .. i OBVIOUS
  <2> HIDE DEF S
  <2>3. IsFiniteSet(S(i)) BY <2>1, <2>2, FS_Subset
  <2> QED BY <2>3, FS_CardinalityType
<1>3. ASSUME NEW i \in Nat \ {0}
      PROVE  Cardinality(S(i)) = Cardinality(S(i - 1)) + (IF OnPath(leaves[i], m) THEN 1 ELSE 0)
  <2>1. i - 1 \in Nat /\ i \notin 1 .. i - 1 OBVIOUS
  <2>2. i \notin S(i - 1) BY <2>1
  <2>3. CASE OnPath(leaves[i], m)
    <3>1. S(i) = S(i - 1) \cup {i} BY <2>1, <2>3
    <3> HIDE DEF S
    <3>2. Cardinality(S(i - 1) \cup {i}) = Cardinality(S(i - 1)) + 1
      BY <1>2, <2>1, <2>2, FS_AddElement
    <3> QED BY <2>3, <3>1, <3>2
  <2>4. CASE ~OnPath(leaves[i], m)
    <3>1. S(i) = S(i - 1)
      <4>1. ASSUME NEW j \in 1 .. i, j # i PROVE j \in 1 .. i - 1 BY <4>1
      <4> QED BY <2>4, <4>1
    <3> HIDE DEF S
    <3>2. Cardinality(S(i - 1)) \in Nat BY <1>2, <2>1
    <3> QED BY <2>4, <3>1, <3>2
  <2> QED BY <2>3, <2>4
<1> QED BY <1>1, <1>2, <1>3 DEF Upto

\* A node that is moved while it is held, at the turn of some leaf.
LostAt(t, leaves, held, i, c) ==
  \E v \in [Positions -> Node] :
     /\ \A m \in Positions : Backed(t[m], v[m], Upto(leaves, i - 1, m))
     /\ Shifted(v, leaves[i], c)
     /\ c \in StillHeld(leaves, held, i)

LEMMA RisingBacked ==
  ASSUME NEW t \in [Positions -> Node], NEW u, NEW n \in Positions, Rising(t, n),
         \A m \in Positions : Grown(t[m], u[m])
  PROVE  Rising(u, n)
<1>1. \A m \in Positions : Extended(t[m]) => Extended(u[m]) BY BackedExtended
<1> QED BY <1>1 DEF Rising

\* So does backing up a list of them.
LEMMA BackupAllSound ==
  ASSUME NEW t \in [Positions -> Node], NEW leaves \in Seq(Positions), NEW held,
         root \in Positions, AllSound(t, root), HeadLinked(t, root),
         \A i \in 1 .. Len(leaves) : Rising(t, leaves[i])
  PROVE  LET u == BackupAll(t, leaves, held)
         IN  /\ u.t \in [Positions -> Node] /\ AllSound(u.t, root)
             /\ \A m \in Positions : Backed(t[m], u.t[m], Upto(leaves, Len(leaves), m))
             /\ \A c \in u.lost \ lost : \E i \in 1 .. Len(leaves) : LostAt(t, leaves, held, i, c)
             /\ lost \subseteq u.lost
<1>1. PICK k : k = Len(leaves) OBVIOUS
<1>2. k \in Nat /\ \A i \in 1 .. k : leaves[i] \in Positions BY <1>1
<1>3. PICK g : /\ BackupAll(t, leaves, held) = g[k]
               /\ g[0] = [t |-> t, lost |-> lost]
               /\ \A i \in 1 .. k : g[i] = BackupOne(g[i - 1], leaves[i], StillHeld(leaves, held, i))
  <2>1. Len(leaves) \in Nat OBVIOUS
  <2>2. \E g : /\ BackupAll(t, leaves, held) = g[Len(leaves)]
               /\ g[0] = [t |-> t, lost |-> lost]
               /\ \A i \in 1 .. Len(leaves) :
                     g[i] = BackupOne(g[i - 1], leaves[i], StillHeld(leaves, held, i))
    BY ONLY <2>1, BackupAllRun
  <2> QED BY <1>1, <2>2
<1> DEFINE P(i) == /\ g[i].t \in [Positions -> Node] /\ AllSound(g[i].t, root)
                   /\ \A m \in Positions : Backed(t[m], g[i].t[m], Upto(leaves, i, m))
                   /\ \A c \in g[i].lost \ lost : \E j \in 1 .. i : LostAt(t, leaves, held, j, c)
                   /\ lost \subseteq g[i].lost
                   /\ g[i] = [t |-> g[i].t, lost |-> g[i].lost]
           T == {i \in 0 .. k : P(i)}
<1>4. P(0)
  <2>1. \A m \in Positions : Backed(t[m], t[m], Upto(leaves, 0, m)) BY BackedNone, UptoStep
  <2> QED BY <1>3, <2>1
<1>5. ASSUME NEW i \in 1 .. k, P(i - 1) PROVE P(i)
  <2>1. PICK n, s, b : n = leaves[i] /\ s = g[i - 1].t /\ b = g[i - 1].lost OBVIOUS
  <2>2. i - 1 \in Nat /\ i \in Nat \ {0} /\ n \in Positions BY <1>2, <2>1
  <2>3. /\ s \in [Positions -> Node] /\ AllSound(s, root)
        /\ \A m \in Positions : Backed(t[m], s[m], Upto(leaves, i - 1, m))
        /\ g[i - 1] = [t |-> s, lost |-> b]
    BY <1>5, <2>1
  <2>4. Rising(s, n)
    <3>1. Rising(t, n) BY <1>1, <2>1
    <3> QED BY <2>2, <2>3, <3>1, RisingBacked DEF Backed
  <2>5. HeadLinked(s, root)
    <3>1. root # << >> => Parent(root) \in Positions BY ParentOf
    <3> QED BY <2>3, <3>1 DEF HeadLinked, Backed, Grown
  <2>6. PICK a, h : a = g[i - 1] /\ h = StillHeld(leaves, held, i) OBVIOUS
  <2>7. PICK u : u = BackupOne(a, n, h) OBVIOUS
  <2>8. BackedUp(s, b, n, h, u)
    <3>1. a = [t |-> s, lost |-> b] BY <2>3, <2>6
    <3>2. AtOrBelow(root, n) BY <2>4 DEF Rising
    <3> QED BY <2>2, <2>3, <2>4, <2>5, <2>7, <3>1, BackupOneSound
  <2>9. g[i] = u BY <1>3, <2>1, <2>6, <2>7
  <2>10. ASSUME NEW m \in Positions PROVE Backed(t[m], u.t[m], Upto(leaves, i, m))
    <3>1. PICK e, f : e = Upto(leaves, i - 1, m) /\ f = IF OnPath(n, m) THEN 1 ELSE 0 OBVIOUS
    <3>2. e \in Int /\ f \in Int /\ Upto(leaves, i, m) = e + f
      <4>1. e \in Nat BY <2>2, <3>1, UptoStep
      <4>2. Upto(leaves, i, m) = e + f BY <2>1, <2>2, <3>1, UptoStep
      <4> QED BY <3>1, <4>1, <4>2
    <3>3. PICK x, y, z : x = t[m] /\ y = s[m] /\ z = u.t[m] OBVIOUS
    <3>4. x \in Node /\ y \in Node /\ z \in Node BY <2>3, <2>8, <3>3 DEF BackedUp
    <3>5. Backed(x, y, e) /\ Backed(y, z, f) BY <2>3, <2>8, <3>1, <3>3 DEF BackedUp
    <3>6. Backed(x, z, e + f) BY <3>2, <3>4, <3>5, BackedTwice
    <3> QED BY <3>2, <3>3, <3>6
  <2>11. PICK moved : u.lost = b \cup (moved \cap h) /\ \A c \in moved : Shifted(s, n, c)
    BY <2>8 DEF BackedUp
  <2>12. ASSUME NEW c \in u.lost \ lost PROVE \E j \in 1 .. i : LostAt(t, leaves, held, j, c)
    <3>1. CASE c \in b
      <4>1. \E j \in 1 .. i - 1 : LostAt(t, leaves, held, j, c) BY <1>5, <2>1, <3>1
      <4> QED BY <2>2, <4>1
    <3>2. CASE c \in moved \cap h
      <4>1. Shifted(s, leaves[i], c) BY <2>1, <2>11, <3>2
      <4>2. c \in StillHeld(leaves, held, i) BY <2>6, <3>2
      <4>3. LostAt(t, leaves, held, i, c) BY <2>3, <4>1, <4>2 DEF LostAt
      <4>4. i \in 1 .. i BY <2>2
      <4> QED BY <4>3, <4>4
    <3> QED BY <2>11, <3>1, <3>2
  <2>13. lost \subseteq u.lost BY <1>5, <2>1, <2>11
  <2> QED BY <2>8, <2>9, <2>10, <2>12, <2>13 DEF BackedUp
<1> HIDE DEF P
<1>6. P(k)
  <2>1. 0 \in T /\ \A i \in 1 .. k : i - 1 \in T => i \in T BY <1>2, <1>4, <1>5
  <2> HIDE DEF T
  <2> QED BY <1>2, <2>1, UpTo DEF T
<1> QED BY <1>1, <1>3, <1>6 DEF P

-----------------------------------------------------------------------------
(***************************************************************************)
(* What is in flight                                                       *)
(***************************************************************************)

\* A tree that differs in what is in flight only.
FlightOnly(t, u) ==
  /\ u \in [Positions -> Node]
  /\ \A m \in Positions : u[m] = [t[m] EXCEPT !.flight = u[m].flight]

Counts(count) == DOMAIN count \subseteq Positions /\ \A m \in DOMAIN count : count[m] \in Int

LEMMA FlightNode ==
  ASSUME NEW x \in Node, NEW y \in Node, y = [x EXCEPT !.flight = y.flight]
  PROVE  /\ y.n = x.n /\ y.w = x.w /\ y.term = x.term /\ y.low = x.low /\ y.up = x.up
         /\ y.edges = x.edges /\ y.solid = x.solid /\ y.own = x.own
         /\ Terminal(y) <=> Terminal(x)
         /\ Extended(y) <=> Extended(x)
         /\ \A n : Sound(y, n) <=> Sound(x, n)
<1>1. PICK f : f = y.flight OBVIOUS
<1>2. y = [x EXCEPT !.flight = f] BY <1>1
<1>3. /\ y.n = x.n /\ y.w = x.w /\ y.term = x.term /\ y.low = x.low /\ y.up = x.up
      /\ y.edges = x.edges /\ y.solid = x.solid /\ y.own = x.own
  BY <1>2 DEF Node
<1>4. Terminal(y) <=> Terminal(x) BY <1>3 DEF Terminal
<1>5. Extended(y) <=> Extended(x) BY <1>3, <1>4 DEF Extended
<1>6. \A n : Sound(y, n) <=> Sound(x, n) BY <1>3, <1>4 DEF Sound
<1> QED BY <1>3, <1>4, <1>5, <1>6

LEMMA NodeWithFlight ==
  ASSUME NEW x \in Node, NEW f \in Int
  PROVE  LET y == [x EXCEPT !.flight = f]
         IN  y \in Node /\ y.flight = f /\ y = [x EXCEPT !.flight = y.flight]
<1>1. PICK y : y = [x EXCEPT !.flight = f] OBVIOUS
<1>2. y \in Node /\ y.flight = f BY <1>1 DEF Node
<1> QED BY <1>1, <1>2

LEMMA SomeFinite ==
  ASSUME NEW count, Counts(count), NEW S, S \subseteq Some(count)
  PROVE  IsFiniteSet(S) /\ SumFunctionOnSet(count, S) \in Int
<1>1. S \subseteq Positions /\ \A m \in S : count[m] \in Int BY DEF Counts, Some
<1>2. IsFiniteSet(S) BY <1>1, FS_Subset, GameAssumption
<1> QED BY <1>1, <1>2, SumType

LEMMA CountBelowType ==
  ASSUME NEW count, Counts(count), NEW n PROVE CountBelow(count, n) \in Int
<1>1. {m \in Some(count) : Below(n, m)} \subseteq Some(count) OBVIOUS
<1> QED BY <1>1, SomeFinite DEF CountBelow

\* Collisions change what is in flight and nothing else.
LEMMA AddInFlightIs ==
  ASSUME NEW t \in [Positions -> Node], NEW count, Counts(count)
  PROVE  LET u == AddInFlight(t, count)
         IN  /\ FlightOnly(t, u)
             /\ \A m \in Positions : u[m].flight =
                   t[m].flight + (IF AtOrBelow(root, m) THEN CountBelow(count, m) ELSE 0)
<1>1. PICK u : u = AddInFlight(t, count) OBVIOUS
<1>2. u = [n \in Positions |->
             IF AtOrBelow(root, n) THEN [t[n] EXCEPT !.flight = @ + CountBelow(count, n)] ELSE t[n]]
  BY <1>1 DEF AddInFlight
<1>3. ASSUME NEW m \in Positions
      PROVE  /\ u[m] \in Node /\ u[m] = [t[m] EXCEPT !.flight = u[m].flight]
             /\ u[m].flight = t[m].flight + (IF AtOrBelow(root, m) THEN CountBelow(count, m) ELSE 0)
  <2>1. PICK x, y, c : x = t[m] /\ y = u[m] /\ c = CountBelow(count, m) OBVIOUS
  <2>2. x \in Node /\ c \in Int /\ x.flight \in Int BY <2>1, CountBelowType, NodeType
  <2>3. CASE AtOrBelow(root, m)
    <3>1. PICK f : f = x.flight + c OBVIOUS
    <3>2. f \in Int BY <2>2, <3>1
    <3>3. y = [x EXCEPT !.flight = f] BY <1>2, <2>1, <2>3, <3>1
    <3>4. y \in Node /\ y.flight = f /\ y = [x EXCEPT !.flight = y.flight]
      BY <2>2, <3>2, <3>3, NodeWithFlight
    <3> QED BY <2>1, <2>3, <3>1, <3>4
  <2>4. CASE ~AtOrBelow(root, m)
    <3>1. y = x BY <1>2, <2>1, <2>4
    <3>2. y \in Node /\ y = [x EXCEPT !.flight = y.flight] BY <2>2, <3>1 DEF Node
    <3>3. x.flight = x.flight + 0 BY <2>2
    <3> QED BY <2>1, <2>4, <3>1, <3>2, <3>3
  <2> QED BY <2>3, <2>4
<1>4. u \in [Positions -> Node]
  <2>1. u = [n \in Positions |-> u[n]] BY <1>2
  <2> QED BY <1>3, <2>1
<1>5. FlightOnly(t, u) BY <1>3, <1>4 DEF FlightOnly
<1> QED BY <1>1, <1>3, <1>5

Negated(count) == [m \in DOMAIN count |-> -count[m]]

LEMMA CancelIs ==
  ASSUME NEW t \in [Positions -> Node], NEW count, Counts(count)
  PROVE  LET u == Cancel(t, count)
         IN  /\ FlightOnly(t, u)
             /\ \A m \in Positions : u[m].flight =
                   t[m].flight + (IF AtOrBelow(root, m) THEN CountBelow(Negated(count), m) ELSE 0)
<1>1. Counts(Negated(count))
  <2>1. ASSUME NEW m \in DOMAIN count PROVE -count[m] \in Int
    <3>1. PICK c : c = count[m] OBVIOUS
    <3>2. c \in Int BY <3>1 DEF Counts
    <3> QED BY <3>1, <3>2
  <2> QED BY <2>1 DEF Counts, Negated
<1>2. Cancel(t, count) = AddInFlight(t, Negated(count)) BY DEF Cancel, Negated
<1> QED BY <1>1, <1>2, AddInFlightIs

LEMMA FlightSound ==
  ASSUME NEW t \in [Positions -> Node], NEW u, FlightOnly(t, u), NEW h \in Positions
  PROVE  /\ u \in [Positions -> Node]
         /\ AllSound(t, h) => AllSound(u, h)
         /\ HeadLinked(t, h) => HeadLinked(u, h)
         /\ \A x \in Minibatch : BatchSound(t, x) => BatchSound(u, x)
         /\ \A n \in Positions : Rising(t, n) => Rising(u, n)
         /\ \A m \in Positions : /\ u[m].n = t[m].n /\ u[m].term = t[m].term /\ u[m].edges = t[m].edges
                                 /\ Terminal(u[m]) <=> Terminal(t[m])
<1>1. u \in [Positions -> Node] BY DEF FlightOnly
<1>2. ASSUME NEW m \in Positions
      PROVE  /\ u[m].n = t[m].n /\ u[m].term = t[m].term /\ u[m].edges = t[m].edges
             /\ Terminal(u[m]) <=> Terminal(t[m])
             /\ Extended(u[m]) <=> Extended(t[m])
             /\ \A n : Sound(u[m], n) <=> Sound(t[m], n)
  <2>1. PICK x, y : x = t[m] /\ y = u[m] OBVIOUS
  <2>2. x \in Node /\ y \in Node BY <1>1, <2>1
  <2>3. y = [x EXCEPT !.flight = y.flight] BY <2>1 DEF FlightOnly
  <2> QED BY <2>1, <2>2, <2>3, FlightNode
<1>3. AllSound(t, h) => AllSound(u, h) BY <1>2 DEF AllSound, GoesOn
<1>4. HeadLinked(t, h) => HeadLinked(u, h)
  <2>1. h # << >> => Parent(h) \in Positions BY ParentOf
  <2> QED BY <1>2, <2>1 DEF HeadLinked
<1>5. \A n \in Positions : Rising(t, n) => Rising(u, n) BY <1>2 DEF Rising
<1>6. ASSUME NEW x \in Minibatch, BatchSound(t, x) PROVE BatchSound(u, x)
  <2>1. LeavesOf(x) \subseteq Positions BY DEF Minibatch, LeavesOf, ToSet
  <2>2. ASSUME NEW n \in Positions, Reached(t, n) PROVE Reached(u, n)
    <3>1. \A m \in Ancestors[n] : m \in Positions BY DEF Ancestors
    <3> QED BY <1>2, <2>2, <3>1 DEF Reached
  <2>3. \A n \in Positions : Extended(t[n]) => Extended(u[n]) BY <1>2
  <2> QED BY <1>6, <2>1, <2>2, <2>3 DEF BatchSound, LeavesOf
<1> QED BY <1>1, <1>2, <1>3, <1>4, <1>5, <1>6

-----------------------------------------------------------------------------
(***************************************************************************)
(* Repetitions that are none any more                                      *)
(***************************************************************************)

LEMMA ChildSums ==
  ASSUME NEW t \in [Positions -> Node], NEW n \in Positions
  PROVE  ChildVisits(t, n) \in Int /\ ChildValues(t, n) \in Int
<1>1. t[n].edges \subseteq Positions BY NodeType
<1>2. IsFiniteSet(t[n].edges) BY <1>1, FS_Subset, GameAssumption
<1>3. PICK f, g : f = [c \in t[n].edges |-> t[c].n] /\ g = [c \in t[n].edges |-> t[c].w] OBVIOUS
<1>4. /\ DOMAIN f = t[n].edges /\ \A c \in t[n].edges : f[c] \in Int
      /\ DOMAIN g = t[n].edges /\ \A c \in t[n].edges : g[c] \in Int
  BY <1>1, <1>3, NodeType
<1>5. SumFunctionOnSet(f, t[n].edges) \in Int /\ SumFunctionOnSet(g, t[n].edges) \in Int
  BY <1>2, <1>4, SumType
<1> QED BY <1>3, <1>4, <1>5 DEF ChildVisits, ChildValues, SumFunction

\* A node that is no longer over keeps its bounds and its edges, and no visit if it has none.
LEMMA NotTerminalIs ==
  ASSUME NEW t \in [Positions -> Node], NEW n \in Positions
  PROVE  LET u == MakeNotTerminal(t, n)
         IN  /\ u \in [Positions -> Node]
             /\ \A m \in Positions : m # n => u[m] = t[m]
             /\ u[n].term = "NonTerminal" /\ u[n].edges = t[n].edges /\ u[n].flight = t[n].flight
             /\ u[n].low = t[n].low /\ u[n].up = t[n].up
             /\ t[n].edges = {} => u[n].n = 0
             /\ Sound(t[n], n) => Sound(u[n], n)
<1>1. PICK v, a, b : v = TerminalValue(t[n]) /\ a = 1 + ChildVisits(t, n) /\ b = v - ChildValues(t, n)
  OBVIOUS
<1>2. t[n] \in Node OBVIOUS
<1>3. v \in Int /\ a \in Int /\ b \in Int
  <2>1. v \in Int BY <1>1, <1>2, TerminalValueType
  <2>2. PICK c, d : c = ChildVisits(t, n) /\ d = ChildValues(t, n) OBVIOUS
  <2>3. c \in Int /\ d \in Int BY <2>2, ChildSums
  <2> QED BY <1>1, <2>1, <2>2, <2>3
<1>4. PICK x : x = [t[n] EXCEPT !.term = "NonTerminal"] OBVIOUS
<1>5. /\ x \in Node /\ x.term = "NonTerminal" /\ x.edges = t[n].edges /\ x.flight = t[n].flight
      /\ x.low = t[n].low /\ x.up = t[n].up
  BY <1>2, <1>4 DEF Node
<1>6. PICK y : y = IF x.edges = {} THEN [x EXCEPT !.n = 0, !.w = 0]
                   ELSE [x EXCEPT !.n = a, !.own = v, !.w = b]
  OBVIOUS
<1>7. /\ y \in Node /\ y.term = "NonTerminal" /\ y.edges = x.edges /\ y.flight = x.flight
      /\ y.low = x.low /\ y.up = x.up
      /\ x.edges = {} => y.n = 0
  <2>1. CASE x.edges = {}
    <3>1. PICK z : z = 0 OBVIOUS
    <3>2. z \in Int BY <3>1
    <3>3. y = [x EXCEPT !.n = z, !.w = z] BY <1>6, <2>1, <3>1
    <3>4. /\ y \in Node /\ y.term = x.term /\ y.edges = x.edges /\ y.flight = x.flight
          /\ y.low = x.low /\ y.up = x.up /\ y.n = z
      BY <1>5, <3>2, <3>3 DEF Node
    <3> QED BY <1>5, <3>1, <3>4
  <2>2. CASE x.edges # {}
    <3>1. y = [x EXCEPT !.n = a, !.own = v, !.w = b] BY <1>6, <2>2
    <3> QED BY <1>3, <1>5, <2>2, <3>1 DEF Node
  <2> QED BY <2>1, <2>2
<1>8. MakeNotTerminal(t, n) = [t EXCEPT ![n] = y]
  BY <1>1, <1>4, <1>6 DEF MakeNotTerminal
<1>9. Sound(t[n], n) => Sound(y, n) BY <1>5, <1>7 DEF Sound, Terminal
<1>10. PICK u : u = [t EXCEPT ![n] = y] OBVIOUS
<1>11. u \in [Positions -> Node] /\ u[n] = y /\ \A m \in Positions : m # n => u[m] = t[m]
  BY <1>7, <1>10
<1> QED BY <1>5, <1>7, <1>8, <1>9, <1>10, <1>11

LEMMA RevertIs ==
  ASSUME NEW t \in [Positions -> Node], NEW n \in Positions
  PROVE  LET u == RevertTerminalVisits(t, n)
         IN  /\ u \in [Positions -> Node]
             /\ \A m \in Positions :
                   /\ u[m].edges = t[m].edges /\ u[m].term = t[m].term
                   /\ u[m].flight = t[m].flight /\ u[m].low = t[m].low /\ u[m].up = t[m].up
                   /\ ~OnPath(n, m) => u[m] = t[m]
<1>1. PICK u : u = RevertTerminalVisits(t, n) OBVIOUS
<1>2. PICK a, v : a = t[n].n /\ v = TerminalValue(t[n]) OBVIOUS
<1>3. a \in Int /\ v \in Int BY <1>2, NodeType, TerminalValueType
<1>4. u = [m \in Positions |->
             IF ~(AtOrBelow(root, m) /\ AtOrBelow(m, n)) THEN t[m]
             ELSE IF t[m].n <= a THEN [t[m] EXCEPT !.n = 0, !.w = 0]
             ELSE [t[m] EXCEPT !.n = @ - a, !.w = @ - a * v]]
  BY <1>1, <1>2 DEF RevertTerminalVisits
<1>5. ASSUME NEW m \in Positions
      PROVE  /\ u[m] \in Node /\ u[m].edges = t[m].edges /\ u[m].term = t[m].term
             /\ u[m].flight = t[m].flight /\ u[m].low = t[m].low /\ u[m].up = t[m].up
             /\ ~OnPath(n, m) => u[m] = t[m]
  <2>1. PICK x, y : x = t[m] /\ y = u[m] OBVIOUS
  <2>2. x \in Node /\ x.n \in Int /\ x.w \in Int BY <2>1, NodeType
  <2>3. CASE ~OnPath(n, m)
    <3>1. u[m] = t[m] BY <1>4, <2>3 DEF OnPath
    <3> QED BY <3>1
  <2>4. CASE OnPath(n, m)
    <3>1. PICK c, d : c = x.n - a /\ d = x.w - a * v OBVIOUS
    <3>2. c \in Int /\ d \in Int
      <4>1. a * v \in Int BY <1>3
      <4> QED BY <1>3, <2>2, <3>1, <4>1
    <3>3. y = IF x.n <= a THEN [x EXCEPT !.n = 0, !.w = 0] ELSE [x EXCEPT !.n = c, !.w = d]
      BY <1>4, <2>1, <2>4, <3>1 DEF OnPath
    <3>4. /\ y \in Node /\ y.edges = x.edges /\ y.term = x.term /\ y.flight = x.flight
          /\ y.low = x.low /\ y.up = x.up
      <4>1. CASE x.n <= a
        <5>1. PICK z : z = 0 OBVIOUS
        <5>2. z \in Int BY <5>1
        <5>3. y = [x EXCEPT !.n = z, !.w = z] BY <3>3, <4>1, <5>1
        <5> QED BY <2>2, <5>2, <5>3 DEF Node
      <4>2. CASE ~(x.n <= a)
        <5>1. y = [x EXCEPT !.n = c, !.w = d] BY <3>3, <4>2
        <5> QED BY <2>2, <3>2, <5>1 DEF Node
      <4> QED BY <4>1, <4>2
    <3> QED BY <2>1, <2>4, <3>4
  <2> QED BY <2>3, <2>4
<1>6. u \in [Positions -> Node]
  <2>1. u = [m \in Positions |-> u[m]] BY <1>4
  <2> QED BY <1>5, <2>1
<1> QED BY <1>1, <1>5, <1>6

Misplaced(t, n) == t[n].term = "TwoFold" /\ Depth(n) < Cycle[n]

\* Only misplaced leaves, and the visits above them, have been corrected.
Refolded(t, u, S) ==
  /\ u \in [Positions -> Node]
  /\ \A m \in Positions :
        /\ u[m].edges = t[m].edges /\ u[m].flight = t[m].flight
        /\ \/ u[m].term = t[m].term
           \/ m \in S /\ Misplaced(t, m) /\ u[m].term = "NonTerminal"
        /\ u[m] = t[m] \/ \E s \in S : Misplaced(t, s) /\ OnPath(s, m)
        /\ m \in S /\ Misplaced(t, m) =>
              u[m].term = "NonTerminal" /\ (t[m].edges = {} => u[m].n = 0)

\* The nodes above a leaf are no leaves.
Passed(t, n) ==
  /\ AtOrBelow(root, n)
  /\ \A m \in Positions : AtOrBelow(root, m) /\ Below(m, n) => ~Terminal(t[m]) /\ t[m].edges # {}

LEMMA EnsureOne ==
  ASSUME NEW t \in [Positions -> Node], NEW n \in Positions, root \in Positions,
         AllSound(t, root), Passed(t, n)
  PROVE  LET u == EnsureNodeTwoFoldCorrectForDepth(t, n)
         IN  Refolded(t, u, {n}) /\ AllSound(u, root)
<1>1. CASE ~Misplaced(t, n)
  <2>1. EnsureNodeTwoFoldCorrectForDepth(t, n) = t
    BY <1>1 DEF EnsureNodeTwoFoldCorrectForDepth, Misplaced
  <2>2. Refolded(t, t, {n}) BY <1>1 DEF Refolded
  <2> QED BY <2>1, <2>2
<1>2. CASE Misplaced(t, n)
  <2>1. PICK r : r = RevertTerminalVisits(t, n) OBVIOUS
  <2>2. /\ r \in [Positions -> Node]
        /\ \A m \in Positions :
              /\ r[m].edges = t[m].edges /\ r[m].term = t[m].term
              /\ r[m].flight = t[m].flight /\ r[m].low = t[m].low /\ r[m].up = t[m].up
              /\ ~OnPath(n, m) => r[m] = t[m]
    BY <2>1, RevertIs
  <2>3. PICK u : u = MakeNotTerminal(r, n) OBVIOUS
  <2>4. /\ u \in [Positions -> Node]
        /\ \A m \in Positions : m # n => u[m] = r[m]
        /\ u[n].term = "NonTerminal" /\ u[n].edges = r[n].edges /\ u[n].flight = r[n].flight
        /\ u[n].low = r[n].low /\ u[n].up = r[n].up
        /\ r[n].edges = {} => u[n].n = 0
        /\ Sound(r[n], n) => Sound(u[n], n)
    BY <2>2, <2>3, NotTerminalIs
  <2>5. EnsureNodeTwoFoldCorrectForDepth(t, n) = u
    BY <1>2, <2>1, <2>3 DEF EnsureNodeTwoFoldCorrectForDepth, Misplaced
  <2>6. AtOrBelow(root, n) /\ OnPath(n, n) BY DEF Passed, OnPath, AtOrBelow
  <2>7. Refolded(t, u, {n})
    <3>1. ASSUME NEW m \in Positions
          PROVE  /\ u[m].edges = t[m].edges /\ u[m].flight = t[m].flight
                 /\ \/ u[m].term = t[m].term
                    \/ m \in {n} /\ Misplaced(t, m) /\ u[m].term = "NonTerminal"
                 /\ u[m] = t[m] \/ \E s \in {n} : Misplaced(t, s) /\ OnPath(s, m)
                 /\ m \in {n} /\ Misplaced(t, m) =>
                       u[m].term = "NonTerminal" /\ (t[m].edges = {} => u[m].n = 0)
      <4>1. CASE m = n BY <1>2, <2>2, <2>4, <2>6, <4>1
      <4>2. CASE m # n BY <1>2, <2>2, <2>4, <4>2
      <4> QED BY <4>1, <4>2
    <3> QED BY <2>4, <3>1 DEF Refolded
  <2>8. ASSUME NEW m \in Positions, AtOrBelow(root, m) PROVE Sound(u[m], m)
    <3>1. Sound(t[m], m) BY <2>8 DEF AllSound
    <3>2. CASE m = n
      <4>1. r[n].term = "TwoFold" BY <1>2, <2>2 DEF Misplaced
      <4>2. Sound(r[n], n) BY <2>2, <3>1, <3>2, <4>1 DEF Sound, Terminal
      <4> QED BY <2>4, <3>2, <4>2
    <3>3. CASE m # n /\ OnPath(n, m)
      <4>1. Below(m, n) BY <3>3 DEF OnPath, AtOrBelow
      <4>2. ~Terminal(t[m]) /\ t[m].edges # {} BY <2>8, <4>1 DEF Passed
      <4>3. /\ r[m].term = "NonTerminal" /\ r[m].edges = t[m].edges
            /\ r[m].low = t[m].low /\ r[m].up = t[m].up
        BY <2>2, <4>2 DEF Terminal
      <4>4. Sound(r[m], m) BY <3>1, <4>2, <4>3 DEF Sound
      <4> QED BY <2>4, <3>3, <4>4
    <3>4. CASE ~OnPath(n, m)
      <4>1. m # n BY <2>6, <3>4
      <4> QED BY <2>2, <2>4, <3>1, <3>4, <4>1
    <3> QED BY <3>2, <3>3, <3>4
  <2>9. ASSUME NEW m \in Positions, AtOrBelow(root, m), m # root PROVE GoesOn(u[m], m)
    <3>1. u[m].edges = t[m].edges BY <2>7 DEF Refolded
    <3>2. GoesOn(t[m], m) BY <2>9 DEF AllSound
    <3> QED BY <3>1, <3>2 DEF GoesOn
  <2> QED BY <2>5, <2>7, <2>8, <2>9 DEF AllSound
<1> QED BY <1>1, <1>2

LEMMA RefoldedPassed ==
  ASSUME NEW t \in [Positions -> Node], NEW u, NEW S, Refolded(t, u, S),
         NEW n \in Positions, Passed(t, n)
  PROVE  Passed(u, n)
<1>1. ASSUME NEW m \in Positions, ~Terminal(t[m]) PROVE ~Terminal(u[m])
  BY <1>1 DEF Refolded, Terminal
<1>2. \A m \in Positions : u[m].edges = t[m].edges BY DEF Refolded
<1> QED BY <1>1, <1>2 DEF Passed

LEMMA RefoldedTwice ==
  ASSUME NEW t \in [Positions -> Node], NEW s \in [Positions -> Node], NEW u,
         NEW S, S \subseteq Positions, NEW n \in Positions,
         Refolded(t, s, S), Refolded(s, u, {n}), Passed(t, n)
  PROVE  Refolded(t, u, S \cup {n})
<1>1. \A m \in Positions : Misplaced(s, m) => Misplaced(t, m)
  BY DEF Refolded, Misplaced
<1>2. ASSUME NEW m \in Positions
      PROVE  /\ u[m].edges = t[m].edges /\ u[m].flight = t[m].flight
             /\ \/ u[m].term = t[m].term
                \/ m \in S \cup {n} /\ Misplaced(t, m) /\ u[m].term = "NonTerminal"
             /\ u[m] = t[m] \/ \E e \in S \cup {n} : Misplaced(t, e) /\ OnPath(e, m)
             /\ m \in S \cup {n} /\ Misplaced(t, m) =>
                   u[m].term = "NonTerminal" /\ (t[m].edges = {} => u[m].n = 0)
  <2>1. /\ s[m].edges = t[m].edges /\ s[m].flight = t[m].flight
        /\ \/ s[m].term = t[m].term
           \/ m \in S /\ Misplaced(t, m) /\ s[m].term = "NonTerminal"
        /\ s[m] = t[m] \/ \E e \in S : Misplaced(t, e) /\ OnPath(e, m)
        /\ m \in S /\ Misplaced(t, m) =>
              s[m].term = "NonTerminal" /\ (t[m].edges = {} => s[m].n = 0)
    BY DEF Refolded
  <2>2. /\ u[m].edges = s[m].edges /\ u[m].flight = s[m].flight
        /\ \/ u[m].term = s[m].term
           \/ m = n /\ Misplaced(s, m) /\ u[m].term = "NonTerminal"
        /\ u[m] = s[m] \/ (Misplaced(s, n) /\ OnPath(n, m))
        /\ m = n /\ Misplaced(s, m) =>
              u[m].term = "NonTerminal" /\ (s[m].edges = {} => u[m].n = 0)
    BY DEF Refolded
  <2>3. ASSUME m \in S, Misplaced(t, m), t[m].edges = {} PROVE u[m].n = 0
    <3>1. s[m].term = "NonTerminal" /\ s[m].n = 0 BY <2>1, <2>3
    <3>2. CASE m = n
      <4>1. ~Misplaced(s, n) BY <3>1, <3>2 DEF Misplaced
      <4> QED BY <2>2, <3>1, <4>1
    <3>3. CASE m # n
      <4>1. ~OnPath(n, m) BY <2>3, <3>3 DEF OnPath, AtOrBelow, Passed
      <4> QED BY <2>2, <3>1, <4>1
    <3> QED BY <3>2, <3>3
  <2>4. ASSUME m = n, m \notin S, Misplaced(t, m) PROVE Misplaced(s, m)
    BY <2>1, <2>4 DEF Misplaced
  <2>5. m \in S \cup {n} /\ Misplaced(t, m) =>
           u[m].term = "NonTerminal" /\ (t[m].edges = {} => u[m].n = 0)
    BY <2>1, <2>2, <2>3, <2>4
  <2>6. u[m] = t[m] \/ \E e \in S \cup {n} : Misplaced(t, e) /\ OnPath(e, m)
    BY <1>1, <2>1, <2>2
  <2>7. \/ u[m].term = t[m].term
        \/ m \in S \cup {n} /\ Misplaced(t, m) /\ u[m].term = "NonTerminal"
    BY <1>1, <2>1, <2>2
  <2> QED BY <2>1, <2>2, <2>5, <2>6, <2>7
<1>3. u \in [Positions -> Node] BY DEF Refolded
<1> QED BY <1>2, <1>3 DEF Refolded

\* How the leaves are corrected, one by one.
IsEnsureRun(g, t, leaves, k) ==
  g = [i \in 0 .. k |-> IF i = 0 THEN t ELSE EnsureNodeTwoFoldCorrectForDepth(g[i - 1], leaves[i])]

LEMMA EnsureRun ==
  ASSUME NEW t, NEW leaves, Len(leaves) \in Nat
  PROVE  \E g : /\ EnsureTwoFoldsCorrect(t, leaves) = g[Len(leaves)]
               /\ g[0] = t
               /\ \A i \in 1 .. Len(leaves) : g[i] = EnsureNodeTwoFoldCorrectForDepth(g[i - 1], leaves[i])
<1> DEFINE T == {j \in 0 .. Len(leaves) : \E g : IsEnsureRun(g, t, leaves, j)}
<1>1. 0 \in T
  <2> DEFINE e == [i \in 0 .. 0 |-> t]
  <2>1. e = [i \in 0 .. 0 |-> IF i = 0 THEN t ELSE EnsureNodeTwoFoldCorrectForDepth(e[i - 1], leaves[i])]
    OBVIOUS
  <2> HIDE DEF e
  <2> QED BY <2>1 DEF IsEnsureRun
<1>2. ASSUME NEW j \in 1 .. Len(leaves), j - 1 \in T PROVE j \in T
  <2>1. PICK g : g = [i \in 0 .. j - 1 |-> IF i = 0 THEN t ELSE EnsureNodeTwoFoldCorrectForDepth(g[i - 1], leaves[i])]
    BY <1>2 DEF IsEnsureRun
  <2>2. PICK z : z = EnsureNodeTwoFoldCorrectForDepth(g[j - 1], leaves[j]) OBVIOUS
  <2>3. j \in Int /\ j >= 1 /\ z = z OBVIOUS
  <2>4. PICK h : Longer(h, g, j, z) BY <2>3, RunLonger
  <2>5. ASSUME NEW i \in 0 .. j
        PROVE  h[i] = IF i = 0 THEN t ELSE EnsureNodeTwoFoldCorrectForDepth(h[i - 1], leaves[i])
    <3>1. CASE i = j BY <2>2, <2>4, <3>1 DEF Longer
    <3>2. CASE i # j
      <4>1. i \in 0 .. j - 1 /\ (i # 0 => i - 1 \in 0 .. j - 1) BY <3>2
      <4>2. g[i] = IF i = 0 THEN t ELSE EnsureNodeTwoFoldCorrectForDepth(g[i - 1], leaves[i]) BY <2>1, <4>1
      <4> QED BY <2>4, <4>1, <4>2 DEF Longer
    <3> QED BY <3>1, <3>2
  <2>6. h = [i \in 0 .. j |-> IF i = 0 THEN t ELSE EnsureNodeTwoFoldCorrectForDepth(h[i - 1], leaves[i])]
    BY <2>4, <2>5 DEF Longer
  <2>7. IsEnsureRun(h, t, leaves, j) BY <2>6 DEF IsEnsureRun
  <2> QED BY <2>7
<1> HIDE DEF T
<1>3. \E g : IsEnsureRun(g, t, leaves, Len(leaves))
  <2>1. Len(leaves) \in T BY <1>1, <1>2, UpTo
  <2> QED BY <2>1 DEF T
<1>4. PICK g : IsEnsureRun(g, t, leaves, Len(leaves)) /\ EnsureTwoFoldsCorrect(t, leaves) = g[Len(leaves)]
  <2>1. PICK g : g = CHOOSE f : IsEnsureRun(f, t, leaves, Len(leaves)) OBVIOUS
  <2>2. IsEnsureRun(g, t, leaves, Len(leaves)) BY <1>3, <2>1
  <2>3. EnsureTwoFoldsCorrect(t, leaves) = g[Len(leaves)] BY <2>1 DEF EnsureTwoFoldsCorrect, IsEnsureRun
  <2> QED BY <2>2, <2>3
<1>5. g = [i \in 0 .. Len(leaves) |-> IF i = 0 THEN t ELSE EnsureNodeTwoFoldCorrectForDepth(g[i - 1], leaves[i])]
  BY <1>4 DEF IsEnsureRun
<1>6. g[0] = t BY <1>2, <1>5
<1>7. ASSUME NEW i \in 1 .. Len(leaves) PROVE g[i] = EnsureNodeTwoFoldCorrectForDepth(g[i - 1], leaves[i])
  <2>1. i \in 0 .. Len(leaves) /\ i # 0 BY <1>2
  <2> QED BY <1>5, <2>1
<1> QED BY <1>4, <1>6, <1>7

\* Correcting the leaves keeps every bound true.
LEMMA EnsureSound ==
  ASSUME NEW t \in [Positions -> Node], NEW leaves \in Seq(Positions), root \in Positions,
         AllSound(t, root), \A i \in 1 .. Len(leaves) : Passed(t, leaves[i])
  PROVE  LET u == EnsureTwoFoldsCorrect(t, leaves)
         IN  Refolded(t, u, {leaves[i] : i \in 1 .. Len(leaves)}) /\ AllSound(u, root)
<1>1. PICK k : k = Len(leaves) OBVIOUS
<1>2. k \in Nat /\ \A i \in 1 .. k : leaves[i] \in Positions BY <1>1
<1>3. PICK g : /\ EnsureTwoFoldsCorrect(t, leaves) = g[k] /\ g[0] = t
               /\ \A i \in 1 .. k : g[i] = EnsureNodeTwoFoldCorrectForDepth(g[i - 1], leaves[i])
  <2>1. Len(leaves) \in Nat OBVIOUS
  <2> QED BY <1>1, <2>1, EnsureRun
<1> DEFINE S(i) == {leaves[j] : j \in 1 .. i}
           P(i) == Refolded(t, g[i], S(i)) /\ AllSound(g[i], root)
           T == {i \in 0 .. k : P(i)}
<1>4. P(0)
  <2>1. S(0) = {} OBVIOUS
  <2> HIDE DEF S
  <2>2. Refolded(t, t, {}) BY DEF Refolded
  <2> QED BY <1>3, <2>1, <2>2
<1>5. ASSUME NEW i \in 1 .. k, P(i - 1) PROVE P(i)
  <2>1. PICK n, s, u : n = leaves[i] /\ s = g[i - 1] /\ u = g[i] OBVIOUS
  <2>2. n \in Positions /\ Passed(t, n) BY <1>1, <1>2, <2>1
  <2>3. S(i) = S(i - 1) \cup {n}
    <3>1. i - 1 \in Nat /\ 1 .. i = (1 .. i - 1) \cup {i} BY <1>2
    <3> QED BY <2>1, <3>1
  <2>4. S(i - 1) \subseteq Positions BY <1>2
  <2> HIDE DEF S
  <2>5. Refolded(t, s, S(i - 1)) /\ AllSound(s, root) BY <1>5, <2>1
  <2>6. s \in [Positions -> Node] /\ Passed(s, n)
    <3>1. s \in [Positions -> Node] BY <2>5 DEF Refolded
    <3> QED BY <2>2, <2>5, <3>1, RefoldedPassed
  <2>7. u = EnsureNodeTwoFoldCorrectForDepth(s, n) BY <1>3, <2>1
  <2>8. Refolded(s, u, {n}) /\ AllSound(u, root) BY <2>2, <2>5, <2>6, <2>7, EnsureOne
  <2>9. Refolded(t, u, S(i - 1) \cup {n}) BY <2>2, <2>4, <2>5, <2>6, <2>8, RefoldedTwice
  <2> QED BY <2>1, <2>3, <2>8, <2>9
<1> HIDE DEF P
<1>6. P(k)
  <2>1. 0 \in T /\ \A i \in 1 .. k : i - 1 \in T => i \in T BY <1>2, <1>4, <1>5
  <2> HIDE DEF T
  <2> QED BY <1>2, <2>1, UpTo DEF T
<1> QED BY <1>1, <1>3, <1>6 DEF P

-----------------------------------------------------------------------------
(***************************************************************************)
(* Minibatches                                                             *)
(***************************************************************************)

LEMMA SetToSeqIs ==
  ASSUME NEW S, IsFiniteSet(S)
  PROVE  LET q == SetToSeq(S)
         IN  /\ q \in Seq(S) /\ Len(q) = Cardinality(S) /\ Len(q) \in Nat
             /\ \A i, j \in 1 .. Len(q) : q[i] = q[j] => i = j
             /\ S = {q[i] : i \in 1 .. Len(q)}
<1>1. PICK k : k = Cardinality(S) OBVIOUS
<1>2. k \in Nat /\ ExistsBijection(1 .. k, S) BY <1>1, FS_CardinalityType
<1>3. PICK f \in Bijection(1 .. k, S) : TRUE BY <1>2 DEF ExistsBijection
<1>4. f \in [1 .. k -> S] /\ IsInjective(f) BY DEF Bijection, Injection
<1>5. PICK q : q = SetToSeq(S) OBVIOUS
<1>6. q \in [1 .. k -> S] /\ IsInjective(q) BY <1>1, <1>4, <1>5 DEF SetToSeq
<1>7. q \in Injection(1 .. k, S) BY <1>6 DEF Injection
<1>8. IsFiniteSet(1 .. k) /\ Cardinality(1 .. k) = k BY <1>2, FS_Interval
<1>9. q \in Surjection(1 .. k, S) BY <1>1, <1>7, <1>8, FS_Injection
<1>10. \A s \in S : \E i \in 1 .. k : q[i] = s BY <1>9 DEF Surjection
<1>11. q \in Seq(S) /\ Len(q) = k BY <1>2, <1>6
<1>12. \A i, j \in 1 .. k : q[i] = q[j] => i = j BY <1>6 DEF IsInjective
<1>13. S = {q[i] : i \in 1 .. k} BY <1>6, <1>10
<1> QED BY <1>1, <1>2, <1>5, <1>11, <1>12, <1>13

\* A number of visits of one leaf.
Times(l, c) == [j \in 1 .. c |-> l]
WithVisits(q, l, v) == q \o Times(l, v[l])

\* How the visits of a call are listed.
IsVisitsRun(g, leaves, v, k) ==
  g = [i \in 0 .. k |-> IF i = 0 THEN << >> ELSE WithVisits(g[i - 1], leaves[i], v)]

LEMMA VisitsRun ==
  ASSUME NEW leaves, NEW v, Len(leaves) \in Nat
  PROVE  \E g : /\ Visits(leaves, v) = g[Len(leaves)]
               /\ g[0] = << >>
               /\ \A i \in 1 .. Len(leaves) : g[i] = WithVisits(g[i - 1], leaves[i], v)
<1> DEFINE T == {j \in 0 .. Len(leaves) : \E g : IsVisitsRun(g, leaves, v, j)}
<1>1. 0 \in T
  <2> DEFINE e == [i \in 0 .. 0 |-> << >>]
  <2>1. e = [i \in 0 .. 0 |-> IF i = 0 THEN << >> ELSE WithVisits(e[i - 1], leaves[i], v)]
    OBVIOUS
  <2> HIDE DEF e
  <2> QED BY <2>1 DEF IsVisitsRun
<1>2. ASSUME NEW j \in 1 .. Len(leaves), j - 1 \in T PROVE j \in T
  <2>1. PICK g : g = [i \in 0 .. j - 1 |-> IF i = 0 THEN << >> ELSE WithVisits(g[i - 1], leaves[i], v)]
    BY <1>2 DEF IsVisitsRun
  <2>2. PICK z : z = WithVisits(g[j - 1], leaves[j], v) OBVIOUS
  <2>3. j \in Int /\ j >= 1 /\ z = z OBVIOUS
  <2>4. PICK h : Longer(h, g, j, z) BY <2>3, RunLonger
  <2>5. ASSUME NEW i \in 0 .. j
        PROVE  h[i] = IF i = 0 THEN << >> ELSE WithVisits(h[i - 1], leaves[i], v)
    <3>1. CASE i = j BY <2>2, <2>4, <3>1 DEF Longer
    <3>2. CASE i # j
      <4>1. i \in 0 .. j - 1 /\ (i # 0 => i - 1 \in 0 .. j - 1) BY <3>2
      <4>2. g[i] = IF i = 0 THEN << >> ELSE WithVisits(g[i - 1], leaves[i], v) BY <2>1, <4>1
      <4> QED BY <2>4, <4>1, <4>2 DEF Longer
    <3> QED BY <3>1, <3>2
  <2>6. h = [i \in 0 .. j |-> IF i = 0 THEN << >> ELSE WithVisits(h[i - 1], leaves[i], v)]
    BY <2>4, <2>5 DEF Longer
  <2>7. IsVisitsRun(h, leaves, v, j) BY <2>6 DEF IsVisitsRun
  <2> QED BY <2>7
<1> HIDE DEF T
<1>3. \E g : IsVisitsRun(g, leaves, v, Len(leaves))
  <2>1. Len(leaves) \in T BY <1>1, <1>2, UpTo
  <2> QED BY <2>1 DEF T
<1>4. PICK g : IsVisitsRun(g, leaves, v, Len(leaves)) /\ Visits(leaves, v) = g[Len(leaves)]
  <2>1. PICK g : g = CHOOSE f : IsVisitsRun(f, leaves, v, Len(leaves)) OBVIOUS
  <2>2. IsVisitsRun(g, leaves, v, Len(leaves)) BY <1>3, <2>1
  <2>3. Visits(leaves, v) = g[Len(leaves)] BY <2>1 DEF Visits, Times, WithVisits, IsVisitsRun
  <2> QED BY <2>2, <2>3
<1>5. g = [i \in 0 .. Len(leaves) |-> IF i = 0 THEN << >> ELSE WithVisits(g[i - 1], leaves[i], v)]
  BY <1>4 DEF IsVisitsRun
<1>6. g[0] = << >> BY <1>2, <1>5
<1>7. ASSUME NEW i \in 1 .. Len(leaves) PROVE g[i] = WithVisits(g[i - 1], leaves[i], v)
  <2>1. i \in 0 .. Len(leaves) /\ i # 0 BY <1>2
  <2> QED BY <1>5, <2>1
<1> QED BY <1>4, <1>6, <1>7

LEMMA VisitsType ==
  ASSUME NEW S, NEW leaves \in Seq(S), NEW v, \A s \in S : v[s] \in Nat
  PROVE  Visits(leaves, v) \in Seq(S)
<1>1. PICK k : k = Len(leaves) OBVIOUS
<1>2. k \in Nat /\ \A i \in 1 .. k : leaves[i] \in S BY <1>1
<1>3. PICK g : /\ Visits(leaves, v) = g[k] /\ g[0] = << >>
               /\ \A i \in 1 .. k : g[i] = WithVisits(g[i - 1], leaves[i], v)
  <2>1. Len(leaves) \in Nat OBVIOUS
  <2> QED BY <1>1, <2>1, VisitsRun
<1> DEFINE P(i) == g[i] \in Seq(S)
           T == {i \in 0 .. k : P(i)}
<1>4. P(0) BY <1>3
<1>5. ASSUME NEW i \in 1 .. k, P(i - 1) PROVE P(i)
  <2>1. PICK a, l, c : a = g[i - 1] /\ l = leaves[i] /\ c = v[leaves[i]] OBVIOUS
  <2>2. a \in Seq(S) /\ l \in S /\ c \in Nat BY <1>2, <1>5, <2>1
  <2>3. Times(l, c) \in Seq(S) BY <2>2 DEF Times
  <2>4. a \o Times(l, c) \in Seq(S) BY <2>2, <2>3
  <2>5. g[i] = a \o Times(l, c) BY <1>3, <2>1 DEF WithVisits
  <2> QED BY <2>4, <2>5
<1> HIDE DEF P
<1>6. P(k)
  <2>1. 0 \in T /\ \A i \in 1 .. k : i - 1 \in T => i \in T BY <1>2, <1>4, <1>5
  <2> HIDE DEF T
  <2> QED BY <1>2, <2>1, UpTo DEF T
<1> QED BY <1>3, <1>6 DEF P

-----------------------------------------------------------------------------
(***************************************************************************)
(* Between two searches                                                    *)
(***************************************************************************)

\* A fresh node knows no children.
LEMMA FreshGoesOn == \A m : GoesOn(FreshNode, m) BY DEF GoesOn, FreshNode

\* A move leaves below it what was there, or nothing, and is known to its parent.
LEMMA MoveIs ==
  ASSUME NEW t \in [Positions -> Node], NEW n \in Positions, n # << >>
  PROVE  LET u == MakeMove(t, n)
         IN  /\ u \in [Positions -> Node]
             /\ n \in u[Parent(n)].edges
             /\ \A m \in Positions : AtOrBelow(n, m) =>
                   /\ u[m].flight = t[m].flight \/ u[m] = FreshNode
                   /\ Sound(t[m], m) => Sound(u[m], m)
                   /\ GoesOn(t[m], m) => GoesOn(u[m], m)
<1>1. PICK p : p = Parent(n) OBVIOUS
<1>2. p \in Positions /\ Below(p, n) BY <1>1, ParentOf
<1>3. PICK found : found = (n \in t[p].edges) OBVIOUS
<1>4. PICK spared : spared = IF found /\ Terminal(t[n]) THEN MakeNotTerminal(t, n) ELSE t OBVIOUS
<1>5. /\ spared \in [Positions -> Node]
      /\ \A m \in Positions : m # n => spared[m] = t[m]
      /\ spared[n].flight = t[n].flight /\ spared[n].edges = t[n].edges
      /\ Sound(t[n], n) => Sound(spared[n], n)
  <2>1. PICK s : s = MakeNotTerminal(t, n) OBVIOUS
  <2>2. /\ s \in [Positions -> Node]
        /\ \A m \in Positions : m # n => s[m] = t[m]
        /\ s[n].flight = t[n].flight /\ s[n].edges = t[n].edges
        /\ Sound(t[n], n) => Sound(s[n], n)
    BY <2>1, NotTerminalIs
  <2>3. CASE found /\ Terminal(t[n])
    <3>1. spared = s BY <1>4, <2>1, <2>3
    <3> QED BY <2>2, <3>1
  <2>4. CASE ~(found /\ Terminal(t[n])) BY <1>4, <2>4
  <2> QED BY <2>3, <2>4
<1>6. PICK x : x = [t[p] EXCEPT !.solid = FALSE, !.edges = IF found THEN @ ELSE {n}] OBVIOUS
<1>7. x \in Node /\ n \in x.edges
  <2>1. PICK e : e = IF found THEN t[p].edges ELSE {n} OBVIOUS
  <2>2. t[p] \in Node /\ t[p].edges \subseteq Positions BY <1>2, NodeType
  <2>3. e \in SUBSET Positions /\ n \in e BY <1>3, <2>1, <2>2
  <2>4. x = [t[p] EXCEPT !.solid = FALSE, !.edges = e] BY <1>6, <2>1
  <2> QED BY <2>2, <2>3, <2>4 DEF Node
<1>8. PICK u : u = [m \in Positions |->
            IF m = p THEN x
            ELSE IF Below(p, m) /\ ~(found /\ AtOrBelow(n, m)) THEN FreshNode
            ELSE spared[m]]
  OBVIOUS
<1>9. MakeMove(t, n) = u BY <1>1, <1>3, <1>4, <1>6, <1>8 DEF MakeMove
<1>10. u \in [Positions -> Node]
  <2>1. \A m \in Positions : FreshNode \in Node BY FreshSound
  <2> QED BY <1>5, <1>7, <1>8, <2>1
<1>11. n \in u[p].edges BY <1>2, <1>7, <1>8
<1>12. ASSUME NEW m \in Positions, AtOrBelow(n, m)
       PROVE  /\ u[m].flight = t[m].flight \/ u[m] = FreshNode
              /\ Sound(t[m], m) => Sound(u[m], m)
              /\ GoesOn(t[m], m) => GoesOn(u[m], m)
  <2>1. m # p BY <1>2, <1>12, BelowBelow DEF AtOrBelow
  <2>2. u[m] = FreshNode \/ u[m] = spared[m] BY <1>8, <2>1
  <2>3. CASE u[m] = FreshNode BY <2>3, FreshSound, FreshGoesOn
  <2>4. CASE u[m] = spared[m]
    <3>1. CASE m = n BY <1>5, <2>4, <3>1 DEF GoesOn
    <3>2. CASE m # n BY <1>5, <2>4, <3>2
    <3> QED BY <3>1, <3>2
  <2> QED BY <2>2, <2>3, <2>4
<1> QED BY <1>1, <1>9, <1>10, <1>11, <1>12

FirstMoves(n, i) == SubSeq(n, 1, i)

\* How a line is played, move by move.
IsLineRun(g, t, n, k) ==
  g = [i \in 0 .. k |-> IF i = 0 THEN t ELSE MakeMove(g[i - 1], FirstMoves(n, i))]

LEMMA LineRun ==
  ASSUME NEW t, NEW n, Len(n) \in Nat
  PROVE  \E g : /\ PlayLine(t, n) = g[Len(n)]
               /\ g[0] = t
               /\ \A i \in 1 .. Len(n) : g[i] = MakeMove(g[i - 1], FirstMoves(n, i))
<1> DEFINE T == {j \in 0 .. Len(n) : \E g : IsLineRun(g, t, n, j)}
<1>1. 0 \in T
  <2> DEFINE e == [i \in 0 .. 0 |-> t]
  <2>1. e = [i \in 0 .. 0 |-> IF i = 0 THEN t ELSE MakeMove(e[i - 1], FirstMoves(n, i))]
    OBVIOUS
  <2> HIDE DEF e
  <2> QED BY <2>1 DEF IsLineRun
<1>2. ASSUME NEW j \in 1 .. Len(n), j - 1 \in T PROVE j \in T
  <2>1. PICK g : g = [i \in 0 .. j - 1 |-> IF i = 0 THEN t ELSE MakeMove(g[i - 1], FirstMoves(n, i))]
    BY <1>2 DEF IsLineRun
  <2>2. PICK z : z = MakeMove(g[j - 1], FirstMoves(n, j)) OBVIOUS
  <2>3. j \in Int /\ j >= 1 /\ z = z OBVIOUS
  <2>4. PICK h : Longer(h, g, j, z) BY <2>3, RunLonger
  <2>5. ASSUME NEW i \in 0 .. j
        PROVE  h[i] = IF i = 0 THEN t ELSE MakeMove(h[i - 1], FirstMoves(n, i))
    <3>1. CASE i = j BY <2>2, <2>4, <3>1 DEF Longer
    <3>2. CASE i # j
      <4>1. i \in 0 .. j - 1 /\ (i # 0 => i - 1 \in 0 .. j - 1) BY <3>2
      <4>2. g[i] = IF i = 0 THEN t ELSE MakeMove(g[i - 1], FirstMoves(n, i)) BY <2>1, <4>1
      <4> QED BY <2>4, <4>1, <4>2 DEF Longer
    <3> QED BY <3>1, <3>2
  <2>6. h = [i \in 0 .. j |-> IF i = 0 THEN t ELSE MakeMove(h[i - 1], FirstMoves(n, i))]
    BY <2>4, <2>5 DEF Longer
  <2>7. IsLineRun(h, t, n, j) BY <2>6 DEF IsLineRun
  <2> QED BY <2>7
<1> HIDE DEF T
<1>3. \E g : IsLineRun(g, t, n, Len(n))
  <2>1. Len(n) \in T BY <1>1, <1>2, UpTo
  <2> QED BY <2>1 DEF T
<1>4. PICK g : IsLineRun(g, t, n, Len(n)) /\ PlayLine(t, n) = g[Len(n)]
  <2>1. PICK g : g = CHOOSE f : IsLineRun(f, t, n, Len(n)) OBVIOUS
  <2>2. IsLineRun(g, t, n, Len(n)) BY <1>3, <2>1
  <2>3. PlayLine(t, n) = g[Len(n)] BY <2>1 DEF PlayLine, FirstMoves, IsLineRun
  <2> QED BY <2>2, <2>3
<1>5. g = [i \in 0 .. Len(n) |-> IF i = 0 THEN t ELSE MakeMove(g[i - 1], FirstMoves(n, i))]
  BY <1>4 DEF IsLineRun
<1>6. g[0] = t BY <1>2, <1>5
<1>7. ASSUME NEW i \in 1 .. Len(n) PROVE g[i] = MakeMove(g[i - 1], FirstMoves(n, i))
  <2>1. i \in 0 .. Len(n) /\ i # 0 BY <1>2
  <2> QED BY <1>5, <2>1
<1> QED BY <1>4, <1>6, <1>7

\* What a line leaves of the tree below it.
LEMMA LineIs ==
  ASSUME NEW t \in [Positions -> Node], NEW old \in Positions, AllSound(t, old), NEW n \in Positions
  PROVE  LET u == PlayLine(t, n)
         IN  /\ u \in [Positions -> Node] /\ HeadLinked(u, n)
             /\ AtOrBelow(old, n) => AllSound(u, n)
             /\ \A m \in Positions : AtOrBelow(n, m) =>
                   u[m].flight = t[m].flight \/ u[m].flight = 0
<1>1. PICK k : k = Len(n) OBVIOUS
<1>2. k \in Nat BY <1>1, Pos
<1>3. PICK g : /\ PlayLine(t, n) = g[k] /\ g[0] = t
               /\ \A i \in 1 .. k : g[i] = MakeMove(g[i - 1], FirstMoves(n, i))
  BY <1>1, <1>2, LineRun
<1>4. ASSUME NEW i \in 0 .. k
      PROVE  /\ FirstMoves(n, i) \in Positions /\ Len(FirstMoves(n, i)) = i
             /\ \A j \in 1 .. i : FirstMoves(n, i)[j] = n[j]
  BY <1>1, Beginnings DEF FirstMoves
<1>5. ASSUME NEW i \in 1 .. k
      PROVE  /\ FirstMoves(n, i) # << >> /\ Parent(FirstMoves(n, i)) = FirstMoves(n, i - 1)
  <2>1. PICK a, b : a = FirstMoves(n, i) /\ b = FirstMoves(n, i - 1) OBVIOUS
  <2>2. i \in 0 .. k /\ i - 1 \in 0 .. k BY <1>2
  <2>3. a \in Positions /\ Len(a) = i /\ \A j \in 1 .. i : a[j] = n[j] BY <1>4, <2>1, <2>2
  <2>4. b \in Positions /\ Len(b) = i - 1 /\ \A j \in 1 .. i - 1 : b[j] = n[j]
    BY <1>4, <2>1, <2>2
  <2>5. a # << >> BY <2>3, Pos
  <2>6. Parent(a) \in Positions /\ Len(Parent(a)) = i - 1 /\ \A j \in 1 .. i - 1 : Parent(a)[j] = a[j]
    BY <2>3, <2>5, ParentOf
  <2>7. \A j \in 1 .. i - 1 : Parent(a)[j] = b[j] BY <2>3, <2>4, <2>6
  <2>8. Parent(a) = b BY <2>4, <2>6, <2>7, SamePosition
  <2> QED BY <2>1, <2>5, <2>8
<1>6. FirstMoves(n, k) = n
  <2>1. k \in 0 .. k BY <1>2
  <2>2. PICK a : a = FirstMoves(n, k) OBVIOUS
  <2>3. a \in Positions /\ Len(a) = Len(n) /\ \A j \in 1 .. Len(a) : a[j] = n[j]
    BY <1>1, <1>4, <2>1, <2>2
  <2> QED BY <2>2, <2>3, SamePosition
<1> DEFINE P(i) == /\ g[i] \in [Positions -> Node] /\ HeadLinked(g[i], FirstMoves(n, i))
                   /\ \A m \in Positions : AtOrBelow(FirstMoves(n, i), m) =>
                         /\ AtOrBelow(old, m) => Sound(g[i][m], m)
                         /\ Below(old, m) => GoesOn(g[i][m], m)
                         /\ g[i][m].flight = t[m].flight \/ g[i][m].flight = 0
           T == {i \in 0 .. k : P(i)}
<1>7. P(0)
  <2>1. 0 \in 0 .. k BY <1>2
  <2>2. FirstMoves(n, 0) = << >>
    <3>1. FirstMoves(n, 0) \in Positions /\ Len(FirstMoves(n, 0)) = 0 BY <1>4, <2>1
    <3> QED BY <3>1, Pos
  <2>3. ASSUME NEW m \in Positions, Below(old, m) PROVE AtOrBelow(old, m) /\ m # old
    BY <2>3, BelowBelow DEF AtOrBelow
  <2> QED BY <1>3, <2>2, <2>3 DEF AllSound, HeadLinked
<1>8. ASSUME NEW i \in 1 .. k, P(i - 1) PROVE P(i)
  <2>1. PICK a, q, s, u : a = FirstMoves(n, i) /\ q = FirstMoves(n, i - 1) /\ s = g[i - 1] /\ u = g[i]
    OBVIOUS
  <2>2. i \in 0 .. k /\ i - 1 \in 0 .. k BY <1>2
  <2>3. a \in Positions /\ q \in Positions /\ a # << >> /\ Parent(a) = q
    BY <1>4, <1>5, <2>1, <2>2
  <2>4. /\ s \in [Positions -> Node]
        /\ \A m \in Positions : AtOrBelow(q, m) =>
              /\ AtOrBelow(old, m) => Sound(s[m], m)
              /\ Below(old, m) => GoesOn(s[m], m)
              /\ s[m].flight = t[m].flight \/ s[m].flight = 0
    BY <1>8, <2>1
  <2>5. u = MakeMove(s, a) BY <1>3, <2>1
  <2>6. /\ u \in [Positions -> Node] /\ a \in u[q].edges
        /\ \A m \in Positions : AtOrBelow(a, m) =>
              /\ u[m].flight = s[m].flight \/ u[m] = FreshNode
              /\ Sound(s[m], m) => Sound(u[m], m)
              /\ GoesOn(s[m], m) => GoesOn(u[m], m)
    BY <2>3, <2>4, <2>5, MoveIs
  <2>7. HeadLinked(u, a) BY <2>3, <2>6 DEF HeadLinked
  <2>8. Below(q, a) BY <2>3, ParentOf
  <2>9. ASSUME NEW m \in Positions, AtOrBelow(a, m) PROVE AtOrBelow(q, m)
    BY <2>3, <2>8, <2>9, BelowBelow DEF AtOrBelow
  <2>10. FreshNode.flight = 0 BY DEF FreshNode
  <2> QED BY <2>1, <2>4, <2>6, <2>7, <2>9, <2>10
<1> HIDE DEF P
<1>9. P(k)
  <2>1. 0 \in T /\ \A i \in 1 .. k : i - 1 \in T => i \in T BY <1>2, <1>7, <1>8
  <2> HIDE DEF T
  <2> QED BY <1>2, <2>1, UpTo DEF T
<1>10. PICK u : u = g[k] OBVIOUS
<1>11. /\ u \in [Positions -> Node] /\ HeadLinked(u, n)
       /\ \A m \in Positions : AtOrBelow(n, m) =>
             /\ AtOrBelow(old, m) => Sound(u[m], m)
             /\ Below(old, m) => GoesOn(u[m], m)
             /\ u[m].flight = t[m].flight \/ u[m].flight = 0
  BY <1>6, <1>9, <1>10 DEF P
<1>12. ASSUME AtOrBelow(old, n) PROVE AllSound(u, n)
  <2>1. ASSUME NEW m \in Positions, AtOrBelow(n, m) PROVE AtOrBelow(old, m)
    BY <1>12, <2>1, BelowBelow DEF AtOrBelow
  <2>2. ASSUME NEW m \in Positions, AtOrBelow(n, m), m # n PROVE Below(old, m)
    BY <1>12, <2>2, BelowBelow DEF AtOrBelow
  <2> QED BY <1>11, <2>1, <2>2 DEF AllSound
<1> QED BY <1>3, <1>10, <1>11, <1>12

LEMMA TrimIs ==
  ASSUME NEW t \in [Positions -> Node], NEW n \in Positions
  PROVE  LET u == Trim(t, n)
         IN  /\ u \in [Positions -> Node] /\ AllSound(u, n)
             /\ HeadLinked(t, n) => HeadLinked(u, n)
             /\ \A m \in Positions : u[m] = IF AtOrBelow(n, m) THEN FreshNode ELSE t[m]
<1>1. PICK u : u = Trim(t, n) OBVIOUS
<1>2. u = [m \in Positions |-> IF AtOrBelow(n, m) THEN FreshNode ELSE t[m]] BY <1>1 DEF Trim
<1>3. FreshNode \in Node BY FreshSound
<1>4. u \in [Positions -> Node] /\ \A m \in Positions : u[m] = IF AtOrBelow(n, m) THEN FreshNode ELSE t[m]
  BY <1>2, <1>3
<1>5. AllSound(u, n) BY <1>4, FreshSound, FreshGoesOn DEF AllSound
<1>6. ASSUME HeadLinked(t, n) PROVE HeadLinked(u, n)
  <2> SUFFICES ASSUME n # << >> PROVE n \in u[Parent(n)].edges BY DEF HeadLinked
  <2>1. Parent(n) \in Positions /\ Below(Parent(n), n) BY ParentOf
  <2>2. ~AtOrBelow(n, Parent(n)) BY <2>1, BelowBelow DEF AtOrBelow
  <2> QED BY <1>4, <1>6, <2>1, <2>2 DEF HeadLinked
<1> QED BY <1>1, <1>4, <1>5, <1>6

\* Whatever the line, what is left below the new head is true.
LEMMA ResetIs ==
  ASSUME NEW t \in [Positions -> Node], NEW old \in Positions, AllSound(t, old), NEW n \in Positions
  PROVE  LET u == ResetToPosition(t, old, n)
         IN  /\ u \in [Positions -> Node] /\ HeadLinked(u, n) /\ AllSound(u, n)
             /\ \A m \in Positions : AtOrBelow(n, m) =>
                   u[m].flight = t[m].flight \/ u[m].flight = 0
<1>1. PICK led : led = PlayLine(t, n) OBVIOUS
<1>2. /\ led \in [Positions -> Node] /\ HeadLinked(led, n)
      /\ AtOrBelow(old, n) => AllSound(led, n)
      /\ \A m \in Positions : AtOrBelow(n, m) =>
            led[m].flight = t[m].flight \/ led[m].flight = 0
  BY <1>1, LineIs
<1>3. CASE AtOrBelow(old, n)
  <2>1. ResetToPosition(t, old, n) = led BY <1>1, <1>3 DEF ResetToPosition
  <2> QED BY <1>2, <1>3, <2>1
<1>4. CASE ~AtOrBelow(old, n)
  <2>1. PICK u : u = Trim(led, n) OBVIOUS
  <2>2. /\ u \in [Positions -> Node] /\ AllSound(u, n) /\ HeadLinked(u, n)
        /\ \A m \in Positions : u[m] = IF AtOrBelow(n, m) THEN FreshNode ELSE led[m]
    BY <1>2, <2>1, TrimIs
  <2>3. FreshNode.flight = 0 BY DEF FreshNode
  <2>4. ResetToPosition(t, old, n) = u BY <1>1, <1>4, <2>1 DEF ResetToPosition
  <2> QED BY <2>2, <2>3, <2>4
<1> QED BY <1>3, <1>4

-----------------------------------------------------------------------------
(***************************************************************************)
(* What an earlier search has left                                         *)
(***************************************************************************)

\* A position met before, as close to the root as that.
Repeated(n) == n # root /\ n \in DOMAIN Cycle /\ Depth(n) >= Cycle[n]

\* Only a repetition becomes a two-fold one, and none is extended.
LEMMA ExtendTidy ==
  ASSUME NEW n \in Positions, NEW x \in Node,
         x.term = "TwoFold" => Repeated(n), x.edges # {} => ~Repeated(n)
  PROVE  LET y == ExtendNode(x, n)
         IN  y.n = x.n /\ (y.term = "TwoFold" => Repeated(n)) /\ (y.edges # {} => ~Repeated(n))
<1> DEFINE over == n \in Over /\ (Children(n) = {} \/ n # root)
<1>1. CASE over
  <2>1. ExtendNode(x, n) = MakeTerminal(x, Outcome[n], "EndOfGame") BY <1>1 DEF ExtendNode
  <2>2. PICK y : y = MakeTerminal(x, Outcome[n], "EndOfGame") OBVIOUS
  <2>3. Outcome[n] \in -1 .. 1 BY <1>1, GameAssumption DEF Over
  <2>4. y.n = x.n /\ y.term = "EndOfGame" /\ y.edges = x.edges BY <2>2, <2>3, TerminalIs
  <2> QED BY <2>1, <2>2, <2>4
<1>2. CASE ~over /\ Repeated(n)
  <2>1. ExtendNode(x, n) = MakeTerminal(x, 0, "TwoFold") BY <1>2 DEF ExtendNode, Repeated
  <2>2. PICK y : y = MakeTerminal(x, 0, "TwoFold") OBVIOUS
  <2>3. y.n = x.n /\ y.edges = x.edges BY <2>2, TerminalIs
  <2> QED BY <1>2, <2>1, <2>2, <2>3
<1>3. CASE /\ ~over /\ ~Repeated(n)
           /\ n # root /\ n \in Tablebase /\ root \notin Tablebase
  <2>1. ExtendNode(x, n) = MakeTerminal(x, Outcome[n], "Tablebase")
    BY <1>3 DEF ExtendNode, Repeated
  <2>2. PICK y : y = MakeTerminal(x, Outcome[n], "Tablebase") OBVIOUS
  <2>3. Outcome[n] \in -1 .. 1 BY <1>3, GameAssumption
  <2>4. y.n = x.n /\ y.term = "Tablebase" /\ y.edges = x.edges BY <2>2, <2>3, TerminalIs
  <2> QED BY <1>3, <2>1, <2>2, <2>4
<1>4. CASE /\ ~over /\ ~Repeated(n)
           /\ ~(n # root /\ n \in Tablebase /\ root \notin Tablebase)
  <2>1. ExtendNode(x, n) = [x EXCEPT !.edges = Children(n)] BY <1>4 DEF ExtendNode, Repeated
  <2>2. PICK y : y = [x EXCEPT !.edges = Children(n)] OBVIOUS
  <2>3. y.n = x.n /\ y.term = x.term BY <2>2 DEF Node
  <2> QED BY <1>4, <2>1, <2>2, <2>3
<1> QED BY <1>1, <1>2, <1>3, <1>4

\* At the root: what holds of the nodes that were visited before the first search.
Neat(x, m) ==
  x.n >= 0 /\ (x.term = "TwoFold" => Repeated(m)) /\ (x.edges # {} => ~Repeated(m))

LEMMA FirstVisitIs ==
  ASSUME NEW t \in [Positions -> Node], NEW n \in Positions, root = << >>, AllSound(t, root),
         \A m \in Positions : Below(m, n) => Extended(t[m])
  PROVE  LET u == FirstVisit(t, n)
         IN  /\ u \in [Positions -> Node] /\ AllSound(u, root)
             /\ \A m \in Positions :
                   /\ Extended(t[m]) => Extended(u[m])
                   /\ t[m].flight = 0 => u[m].flight = 0
                   /\ Neat(t[m], m) => Neat(u[m], m)
             /\ Extended(u[n])
<1>0. root \in Positions BY GameAssumption
<1>1. PICK s : s = [m \in Positions |->
                   IF ~AtOrBelow(m, n) THEN t[m]
                   ELSE IF m = n THEN [ExtendNode(t[m], m) EXCEPT !.flight = 1]
                   ELSE [t[m] EXCEPT !.flight = 1]]
  OBVIOUS
<1>2. ASSUME NEW m \in Positions
      PROVE  /\ s[m] \in Node /\ Sound(s[m], m) /\ (m # root => GoesOn(s[m], m))
             /\ Extended(t[m]) => Extended(s[m])
             /\ s[m].flight = IF AtOrBelow(m, n) THEN 1 ELSE t[m].flight
             /\ m = n => Extended(s[m])
             /\ Neat(t[m], m) => Neat(s[m], m)
  <2>1. t[m] \in Node /\ Sound(t[m], m) /\ (m # root => GoesOn(t[m], m))
    BY RootAbove DEF AllSound
  <2>2. CASE ~AtOrBelow(m, n)
    <3>1. m # n BY <2>2 DEF AtOrBelow
    <3> QED BY <1>1, <2>1, <2>2, <3>1
  <2>3. CASE m = n
    <3>1. PICK x, one : x = ExtendNode(t[m], m) /\ one = 1 OBVIOUS
    <3>2. x \in Node /\ Sound(x, m) /\ Extended(x) /\ (m # root => GoesOn(x, m))
      BY <1>0, <2>1, <3>1, ExtendSound
    <3>8. PICK z : z = t[m] OBVIOUS
    <3>9. Neat(z, m) => Neat(x, m) BY <2>1, <3>1, <3>8, ExtendTidy DEF Neat
    <3>3. PICK y : y = [x EXCEPT !.flight = one] OBVIOUS
    <3>4. one \in Int BY <3>1
    <3>5. y \in Node /\ y.flight = one /\ y = [x EXCEPT !.flight = y.flight]
      BY <3>2, <3>3, <3>4, NodeWithFlight
    <3>6. Sound(y, m) /\ Extended(y) /\ (Neat(x, m) => Neat(y, m)) /\ (m # root => GoesOn(y, m))
      BY <3>2, <3>5, FlightNode DEF Neat, GoesOn
    <3>7. s[m] = y /\ AtOrBelow(m, n) BY <1>1, <2>3, <3>1, <3>3 DEF AtOrBelow
    <3> QED BY <3>1, <3>5, <3>6, <3>7, <3>8, <3>9
  <2>4. CASE m # n /\ AtOrBelow(m, n)
    <3>1. PICK x, one : x = t[m] /\ one = 1 OBVIOUS
    <3>2. x \in Node /\ Sound(x, m) /\ (m # root => GoesOn(x, m)) BY <2>1, <3>1
    <3>3. PICK y : y = [x EXCEPT !.flight = one] OBVIOUS
    <3>4. one \in Int BY <3>1
    <3>5. y \in Node /\ y.flight = one /\ y = [x EXCEPT !.flight = y.flight]
      BY <3>2, <3>3, <3>4, NodeWithFlight
    <3>6. /\ Sound(y, m) /\ (Extended(x) => Extended(y)) /\ (Neat(x, m) => Neat(y, m))
          /\ m # root => GoesOn(y, m)
      BY <3>2, <3>5, FlightNode DEF Neat, GoesOn
    <3>7. s[m] = y BY <1>1, <2>4, <3>1, <3>3
    <3> QED BY <2>4, <3>1, <3>5, <3>6, <3>7
  <2> QED BY <2>2, <2>3, <2>4
<1>3. s \in [Positions -> Node]
  <2>1. s = [m \in Positions |-> s[m]] BY <1>1
  <2> QED BY <1>2, <2>1
<1>4. AllSound(s, root) BY <1>2 DEF AllSound
<1>5. HeadLinked(s, root) BY DEF HeadLinked
<1>6. AtOrBelow(root, n) BY RootAbove
<1>7. Rising(s, n) BY <1>2, <1>6 DEF Rising
<1>8. PICK lo, a, held, u : /\ lo = {} /\ a = [t |-> s, lost |-> lo] /\ held = {}
                            /\ u = BackupOne(a, n, held)
  OBVIOUS
<1>9. BackedUp(s, lo, n, held, u) BY <1>0, <1>3, <1>4, <1>5, <1>6, <1>7, <1>8, BackupOneSound
<1>10. FirstVisit(t, n) = u.t BY <1>1, <1>8 DEF FirstVisit
<1>11. u.t \in [Positions -> Node] /\ AllSound(u.t, root) BY <1>9 DEF BackedUp
<1>12. ASSUME NEW m \in Positions
       PROVE  /\ Extended(s[m]) => Extended(u.t[m])
              /\ t[m].flight = 0 => u.t[m].flight = 0
              /\ Neat(t[m], m) => Neat(u.t[m], m)
  <2>1. Backed(s[m], u.t[m], IF OnPath(n, m) THEN 1 ELSE 0) BY <1>9 DEF BackedUp
  <2>2. OnPath(n, m) <=> AtOrBelow(m, n) BY RootAbove DEF OnPath
  <2>3. u.t[m].flight = s[m].flight - (IF OnPath(n, m) THEN 1 ELSE 0) BY <2>1 DEF Backed
  <2>4. Extended(s[m]) => Extended(u.t[m]) BY <2>1, BackedExtended DEF Backed
  <2>5. Neat(s[m], m) => Neat(u.t[m], m)
    <3>1. PICK x, y, k : x = s[m] /\ y = u.t[m] /\ k = IF OnPath(n, m) THEN 1 ELSE 0 OBVIOUS
    <3>2. Backed(x, y, k) BY <2>1, <3>1
    <3>3. y.n = x.n + k /\ Grown(x, y) BY <3>2 DEF Backed
    <3>4. x \in Node BY <1>2, <3>1
    <3>5. x.n \in Int /\ k \in 0 .. 1 BY <3>1, <3>4 DEF Node
    <3>6. x.n >= 0 => y.n >= 0 BY <3>3, <3>5
    <3> QED BY <3>1, <3>3, <3>6 DEF Grown, Neat
  <2> QED BY <1>2, <2>2, <2>3, <2>4, <2>5
<1>13. \A m \in Positions : Extended(t[m]) => Extended(u.t[m]) BY <1>2, <1>12
<1>14. Extended(u.t[n]) BY <1>2, <1>12
<1> QED BY <1>10, <1>11, <1>12, <1>13, <1>14

\* How the tree of an opening comes about.
IsOpenedRun(g, o, k) ==
  g = [i \in 0 .. k |-> IF i = 0 THEN [n \in Positions |-> FreshNode] ELSE FirstVisit(g[i - 1], o[i])]

LEMMA OpenedRun ==
  ASSUME NEW o, Len(o) \in Nat
  PROVE  \E g : /\ Opened(o) = g[Len(o)]
               /\ g[0] = [n \in Positions |-> FreshNode]
               /\ \A i \in 1 .. Len(o) : g[i] = FirstVisit(g[i - 1], o[i])
<1> DEFINE T == {j \in 0 .. Len(o) : \E g : IsOpenedRun(g, o, j)}
<1>1. 0 \in T
  <2> DEFINE e == [i \in 0 .. 0 |-> [n \in Positions |-> FreshNode]]
  <2>1. e = [i \in 0 .. 0 |-> IF i = 0 THEN [n \in Positions |-> FreshNode] ELSE FirstVisit(e[i - 1], o[i])]
    OBVIOUS
  <2> HIDE DEF e
  <2> QED BY <2>1 DEF IsOpenedRun
<1>2. ASSUME NEW j \in 1 .. Len(o), j - 1 \in T PROVE j \in T
  <2>1. PICK g : g = [i \in 0 .. j - 1 |-> IF i = 0 THEN [n \in Positions |-> FreshNode] ELSE FirstVisit(g[i - 1], o[i])]
    BY <1>2 DEF IsOpenedRun
  <2>2. PICK z : z = FirstVisit(g[j - 1], o[j]) OBVIOUS
  <2>3. j \in Int /\ j >= 1 /\ z = z OBVIOUS
  <2>4. PICK h : Longer(h, g, j, z) BY <2>3, RunLonger
  <2>5. ASSUME NEW i \in 0 .. j
        PROVE  h[i] = IF i = 0 THEN [n \in Positions |-> FreshNode] ELSE FirstVisit(h[i - 1], o[i])
    <3>1. CASE i = j BY <2>2, <2>4, <3>1 DEF Longer
    <3>2. CASE i # j
      <4>1. i \in 0 .. j - 1 /\ (i # 0 => i - 1 \in 0 .. j - 1) BY <3>2
      <4>2. g[i] = IF i = 0 THEN [n \in Positions |-> FreshNode] ELSE FirstVisit(g[i - 1], o[i]) BY <2>1, <4>1
      <4> QED BY <2>4, <4>1, <4>2 DEF Longer
    <3> QED BY <3>1, <3>2
  <2>6. h = [i \in 0 .. j |-> IF i = 0 THEN [n \in Positions |-> FreshNode] ELSE FirstVisit(h[i - 1], o[i])]
    BY <2>4, <2>5 DEF Longer
  <2>7. IsOpenedRun(h, o, j) BY <2>6 DEF IsOpenedRun
  <2> QED BY <2>7
<1> HIDE DEF T
<1>3. \E g : IsOpenedRun(g, o, Len(o))
  <2>1. Len(o) \in T BY <1>1, <1>2, UpTo
  <2> QED BY <2>1 DEF T
<1>4. PICK g : IsOpenedRun(g, o, Len(o)) /\ Opened(o) = g[Len(o)]
  <2>1. PICK g : g = CHOOSE f : IsOpenedRun(f, o, Len(o)) OBVIOUS
  <2>2. IsOpenedRun(g, o, Len(o)) BY <1>3, <2>1
  <2>3. Opened(o) = g[Len(o)] BY <2>1 DEF Opened, IsOpenedRun
  <2> QED BY <2>2, <2>3
<1>5. g = [i \in 0 .. Len(o) |-> IF i = 0 THEN [n \in Positions |-> FreshNode] ELSE FirstVisit(g[i - 1], o[i])]
  BY <1>4 DEF IsOpenedRun
<1>6. g[0] = [n \in Positions |-> FreshNode] BY <1>2, <1>5
<1>7. ASSUME NEW i \in 1 .. Len(o) PROVE g[i] = FirstVisit(g[i - 1], o[i])
  <2>1. i \in 0 .. Len(o) /\ i # 0 BY <1>2
  <2> QED BY <1>5, <2>1
<1> QED BY <1>4, <1>6, <1>7

\* What an earlier search has left is true, and nothing of it in flight.
LEMMA OpenedIs ==
  ASSUME NEW o \in Openings, root = << >>
  PROVE  LET t == Opened(o)
         IN  /\ t \in [Positions -> Node] /\ AllSound(t, root)
             /\ \A m \in Positions : t[m].flight = 0 /\ Neat(t[m], m)
<1>1. PICK k : k = Len(o) OBVIOUS
<1>2. o \in Seq(Positions) /\ \A i \in DOMAIN o : Ancestors[o[i]] \subseteq {o[j] : j \in 1 .. i - 1}
  BY SearchAssumption
<1>3. k \in Nat /\ DOMAIN o = 1 .. k /\ \A i \in 1 .. k : o[i] \in Positions BY <1>1, <1>2
<1>4. PICK g : /\ Opened(o) = g[k] /\ g[0] = [n \in Positions |-> FreshNode]
               /\ \A i \in 1 .. k : g[i] = FirstVisit(g[i - 1], o[i])
  BY <1>1, <1>3, OpenedRun
<1> DEFINE P(i) == /\ g[i] \in [Positions -> Node] /\ AllSound(g[i], root)
                   /\ \A m \in Positions : g[i][m].flight = 0 /\ Neat(g[i][m], m)
                   /\ \A j \in 1 .. i : Extended(g[i][o[j]])
           T == {i \in 0 .. k : P(i)}
<1>5. P(0)
  <2>1. FreshNode.flight = 0 /\ \A m : Neat(FreshNode, m) BY DEF FreshNode, Neat
  <2> QED BY <1>4, <2>1, FreshSound, FreshGoesOn DEF AllSound
<1>6. ASSUME NEW i \in 1 .. k, P(i - 1) PROVE P(i)
  <2>1. PICK n, s, u : n = o[i] /\ s = g[i - 1] /\ u = g[i] OBVIOUS
  <2>2. n \in Positions /\ s \in [Positions -> Node] /\ AllSound(s, root)
        /\ (\A m \in Positions : s[m].flight = 0 /\ Neat(s[m], m)) /\ \A j \in 1 .. i - 1 : Extended(s[o[j]])
    BY <1>3, <1>6, <2>1
  <2>3. ASSUME NEW m \in Positions, Below(m, n) PROVE Extended(s[m])
    <3>1. m \in Ancestors[n] BY <2>3 DEF Below
    <3>2. Ancestors[n] \subseteq {o[j] : j \in 1 .. i - 1} BY <1>2, <1>3, <2>1
    <3>3. PICK j \in 1 .. i - 1 : m = o[j] BY <3>1, <3>2
    <3> QED BY <2>2, <3>3
  <2>4. u = FirstVisit(s, n) BY <1>4, <2>1
  <2>5. /\ u \in [Positions -> Node] /\ AllSound(u, root)
        /\ \A m \in Positions :
              /\ Extended(s[m]) => Extended(u[m])
              /\ s[m].flight = 0 => u[m].flight = 0
              /\ Neat(s[m], m) => Neat(u[m], m)
        /\ Extended(u[n])
    BY <2>2, <2>3, <2>4, FirstVisitIs
  <2>6. ASSUME NEW j \in 1 .. i PROVE Extended(u[o[j]])
    <3>1. CASE j = i BY <2>1, <2>5, <3>1
    <3>2. CASE j # i
      <4>1. j \in 1 .. i - 1 /\ j \in 1 .. k BY <1>3, <3>2
      <4> QED BY <1>3, <2>2, <2>5, <4>1
    <3> QED BY <3>1, <3>2
  <2> QED BY <2>1, <2>2, <2>5, <2>6
<1> HIDE DEF P
<1>7. P(k)
  <2>1. 0 \in T /\ \A i \in 1 .. k : i - 1 \in T => i \in T BY <1>3, <1>5, <1>6
  <2> HIDE DEF T
  <2> QED BY <1>3, <2>1, UpTo DEF T
<1> QED BY <1>4, <1>7 DEF P

-----------------------------------------------------------------------------
(***************************************************************************)
(* Sums of sums                                                            *)
(***************************************************************************)

\* What is added first does not matter.
LEMMA SumTake ==
  ASSUME NEW f, NEW S, IsFiniteSet(S), \A x \in S : f[x] \in Int, NEW x \in S
  PROVE  SumFunctionOnSet(f, S) = f[x] + SumFunctionOnSet(f, S \ {x})
<1> DEFINE W == {s \in SUBSET S : \E y \in s :
                    SumFunctionOnSet(f, s) # f[y] + SumFunctionOnSet(f, s \ {y})}
<1> SUFFICES ASSUME W # {} PROVE FALSE OBVIOUS
<1>0. W \subseteq SUBSET S OBVIOUS
<1> HIDE DEF W
<1>1. PICK s \in W : \A u \in SUBSET s : u # s => u \notin W BY <1>0, SetMin
<1>2. s \in SUBSET S /\ IsFiniteSet(s) BY <1>0, FS_Subset
<1>3. PICK y \in s : SumFunctionOnSet(f, s) # f[y] + SumFunctionOnSet(f, s \ {y}) BY DEF W
<1>4. s # {} BY <1>3
<1>5. PICK c \in s : SumFunctionOnSet(f, s) = f[c] + SumFunctionOnSet(f, s \ {c})
  BY <1>2, <1>4, SumPeel
<1>6. c # y BY <1>3, <1>5
<1>7. PICK a, b, d : a = s \ {c} /\ b = s \ {y} /\ d = a \ {y} OBVIOUS
<1>8. /\ a \in SUBSET s /\ a # s /\ b \in SUBSET s /\ b # s /\ y \in a /\ c \in b /\ d = b \ {c}
  BY <1>5, <1>6, <1>7
<1>9. a \notin W /\ b \notin W /\ a \in SUBSET S /\ b \in SUBSET S BY <1>1, <1>2, <1>8
<1>10. SumFunctionOnSet(f, a) = f[y] + SumFunctionOnSet(f, d) BY <1>7, <1>8, <1>9 DEF W
<1>11. SumFunctionOnSet(f, b) = f[c] + SumFunctionOnSet(f, d) BY <1>8, <1>9 DEF W
<1>12. PICK z : z = SumFunctionOnSet(f, d) OBVIOUS
<1>13. z \in Int
  <2>1. IsFiniteSet(d) /\ d \subseteq S BY <1>2, <1>7, <1>8, FS_Subset
  <2> QED BY <1>12, <2>1, SumType
<1>14. f[c] \in Int /\ f[y] \in Int BY <1>2, <1>5
<1>15. SumFunctionOnSet(f, s) = f[c] + (f[y] + z) BY <1>5, <1>7, <1>10, <1>12
<1>16. f[y] + SumFunctionOnSet(f, b) = f[y] + (f[c] + z) BY <1>11, <1>12
<1>17. f[c] + (f[y] + z) = f[y] + (f[c] + z) BY <1>13, <1>14
<1> QED BY <1>3, <1>7, <1>15, <1>16, <1>17

\* Sums are added value by value.
LEMMA SumAdd ==
  ASSUME NEW f, NEW g, NEW h, NEW S, IsFiniteSet(S),
         \A x \in S : f[x] \in Int /\ g[x] \in Int /\ h[x] = f[x] + g[x]
  PROVE  SumFunctionOnSet(h, S) = SumFunctionOnSet(f, S) + SumFunctionOnSet(g, S)
<1> DEFINE W == {s \in SUBSET S :
                    SumFunctionOnSet(h, s) # SumFunctionOnSet(f, s) + SumFunctionOnSet(g, s)}
<1> SUFFICES ASSUME W # {} PROVE FALSE OBVIOUS
<1>0. W \subseteq SUBSET S OBVIOUS
<1> HIDE DEF W
<1>1. PICK s \in W : \A u \in SUBSET s : u # s => u \notin W BY <1>0, SetMin
<1>2. s \in SUBSET S /\ IsFiniteSet(s) BY <1>0, FS_Subset
<1>3. CASE s = {}
  <2>1. SumFunctionOnSet(h, s) = 0 /\ SumFunctionOnSet(f, s) = 0 /\ SumFunctionOnSet(g, s) = 0
    BY <1>3, SumNone
  <2> QED BY <1>1, <2>1 DEF W
<1>4. CASE s # {}
  <2>1. PICK c : c \in s BY <1>4
  <2>2. PICK d : d = s \ {c} OBVIOUS
  <2>3. d \in SUBSET s /\ d # s /\ d \in SUBSET S /\ IsFiniteSet(d) BY <1>2, <2>1, <2>2, FS_Subset
  <2>4. SumFunctionOnSet(h, d) = SumFunctionOnSet(f, d) + SumFunctionOnSet(g, d)
    BY <1>1, <2>3 DEF W
  <2>5. /\ SumFunctionOnSet(f, d) \in Int /\ SumFunctionOnSet(g, d) \in Int
        /\ f[c] \in Int /\ g[c] \in Int /\ h[c] = f[c] + g[c]
    BY <1>2, <2>1, <2>3, SumType
  <2>6. \A x \in s : f[x] \in Int /\ g[x] \in Int /\ h[x] \in Int BY <1>2
  <2>7. SumFunctionOnSet(f, s) = f[c] + SumFunctionOnSet(f, d) BY <1>2, <2>1, <2>2, <2>6, SumTake
  <2>8. SumFunctionOnSet(g, s) = g[c] + SumFunctionOnSet(g, d) BY <1>2, <2>1, <2>2, <2>6, SumTake
  <2>9. SumFunctionOnSet(h, s) = h[c] + SumFunctionOnSet(h, d) BY <1>2, <2>1, <2>2, <2>6, SumTake
  <2> QED BY <1>1, <2>4, <2>5, <2>7, <2>8, <2>9 DEF W
<1> QED BY <1>3, <1>4

\* What is zero need not be added.
LEMMA SumSub ==
  ASSUME NEW f, NEW S, IsFiniteSet(S), \A x \in S : f[x] \in Int, NEW T, T \subseteq S,
         \A x \in S \ T : f[x] = 0
  PROVE  SumFunctionOnSet(f, S) = SumFunctionOnSet(f, T)
<1> DEFINE W == {s \in SUBSET S : T \subseteq s /\ SumFunctionOnSet(f, s) # SumFunctionOnSet(f, T)}
<1> SUFFICES ASSUME W # {} PROVE FALSE OBVIOUS
<1>0. W \subseteq SUBSET S OBVIOUS
<1> HIDE DEF W
<1>1. PICK s \in W : \A u \in SUBSET s : u # s => u \notin W BY <1>0, SetMin
<1>2. s \in SUBSET S /\ IsFiniteSet(s) /\ T \subseteq s /\ s # T BY <1>0, FS_Subset DEF W
<1>3. PICK c : c \in s /\ c \notin T BY <1>2
<1>4. PICK d : d = s \ {c} OBVIOUS
<1>5. d \in SUBSET s /\ d # s /\ d \in SUBSET S /\ T \subseteq d /\ IsFiniteSet(d)
  BY <1>2, <1>3, <1>4, FS_Subset
<1>6. SumFunctionOnSet(f, d) = SumFunctionOnSet(f, T) BY <1>1, <1>5 DEF W
<1>7. \A x \in s : f[x] \in Int BY <1>2
<1>8. SumFunctionOnSet(f, s) = f[c] + SumFunctionOnSet(f, d) BY <1>2, <1>3, <1>4, <1>7, SumTake
<1>9. f[c] = 0 /\ SumFunctionOnSet(f, d) \in Int BY <1>2, <1>3, <1>5, SumType
<1>10. SumFunctionOnSet(f, s) = SumFunctionOnSet(f, T) BY <1>6, <1>8, <1>9
<1> QED BY <1>1, <1>10 DEF W

LEMMA SumZero ==
  ASSUME NEW f, NEW S, IsFiniteSet(S), \A x \in S : f[x] = 0
  PROVE  SumFunctionOnSet(f, S) = 0
<1>1. SumFunctionOnSet(f, S) = SumFunctionOnSet(f, {}) BY SumSub
<1> QED BY <1>1, SumNone

LEMMA SumMinus ==
  ASSUME NEW f, NEW g, NEW S, IsFiniteSet(S), \A x \in S : f[x] \in Int /\ g[x] = -f[x]
  PROVE  SumFunctionOnSet(g, S) = -SumFunctionOnSet(f, S)
<1> DEFINE z == [x \in S |-> 0]
<1>1. \A x \in S : f[x] \in Int /\ g[x] \in Int /\ z[x] = f[x] + g[x] /\ z[x] = 0 OBVIOUS
<1> HIDE DEF z
<1>2. SumFunctionOnSet(z, S) = SumFunctionOnSet(f, S) + SumFunctionOnSet(g, S) BY <1>1, SumAdd
<1>3. SumFunctionOnSet(z, S) = 0 BY <1>1, SumZero
<1>4. SumFunctionOnSet(f, S) \in Int /\ SumFunctionOnSet(g, S) \in Int BY <1>1, SumType
<1> QED BY <1>2, <1>3, <1>4

\* A sum of ones counts.
LEMMA SumOnes ==
  ASSUME NEW f, NEW S, IsFiniteSet(S), \A x \in S : f[x] = 1
  PROVE  SumFunctionOnSet(f, S) = Cardinality(S)
<1> DEFINE W == {s \in SUBSET S : SumFunctionOnSet(f, s) # Cardinality(s)}
<1> SUFFICES ASSUME W # {} PROVE FALSE OBVIOUS
<1>0. W \subseteq SUBSET S OBVIOUS
<1> HIDE DEF W
<1>1. PICK s \in W : \A u \in SUBSET s : u # s => u \notin W BY <1>0, SetMin
<1>2. s \in SUBSET S /\ IsFiniteSet(s) BY <1>0, FS_Subset
<1>3. CASE s = {}
  <2>1. SumFunctionOnSet(f, s) = 0 /\ Cardinality(s) = 0 BY <1>3, SumNone, FS_EmptySet
  <2> QED BY <1>1, <2>1 DEF W
<1>4. CASE s # {}
  <2>1. PICK c : c \in s BY <1>4
  <2>2. PICK d : d = s \ {c} OBVIOUS
  <2>3. d \in SUBSET s /\ d # s /\ d \in SUBSET S BY <1>2, <2>1, <2>2
  <2>4. SumFunctionOnSet(f, d) = Cardinality(d) BY <1>1, <2>3 DEF W
  <2>5. \A x \in s : f[x] \in Int BY <1>2
  <2>6. SumFunctionOnSet(f, s) = f[c] + SumFunctionOnSet(f, d) BY <1>2, <2>1, <2>2, <2>5, SumTake
  <2>7. IsFiniteSet(d) /\ Cardinality(d) = Cardinality(s) - 1 BY <1>2, <2>1, <2>2, FS_RemoveElement
  <2>8. Cardinality(s) \in Nat /\ f[c] = 1 BY <1>2, <2>1, FS_CardinalityType
  <2> QED BY <1>1, <2>4, <2>6, <2>7, <2>8 DEF W
<1> QED BY <1>3, <1>4

\* A sum that changes in one place.
LEMMA SumChange ==
  ASSUME NEW f, NEW g, NEW S, IsFiniteSet(S), NEW c \in S,
         \A x \in S : f[x] \in Int /\ g[x] \in Int /\ (x # c => g[x] = f[x])
  PROVE  SumFunctionOnSet(g, S) = SumFunctionOnSet(f, S) + (g[c] - f[c])
<1>1. PICK d : d = S \ {c} OBVIOUS
<1>2. IsFiniteSet(d) /\ \A x \in d : f[x] = g[x] BY <1>1, FS_Subset
<1>3. SumFunctionOnSet(f, d) = SumFunctionOnSet(g, d) BY <1>2, SumSame
<1>4. SumFunctionOnSet(f, S) = f[c] + SumFunctionOnSet(f, d) BY <1>1, SumTake
<1>5. SumFunctionOnSet(g, S) = g[c] + SumFunctionOnSet(g, d) BY <1>1, SumTake
<1>6. SumFunctionOnSet(f, d) \in Int /\ f[c] \in Int /\ g[c] \in Int BY <1>1, <1>2, SumType
<1> QED BY <1>3, <1>4, <1>5, <1>6

-----------------------------------------------------------------------------
(***************************************************************************)
(* How much is in flight at a node                                         *)
(***************************************************************************)

\* The visits of a list that come through a node.
Through(q, n) == {i \in DOMAIN q : AtOrBelow(n, q[i])}

LEMMA ThroughIs ==
  ASSUME NEW S, NEW q \in Seq(S), NEW n
  PROVE  IsFiniteSet(Through(q, n)) /\ VisitsAt(q, n) = Cardinality(Through(q, n))
         /\ VisitsAt(q, n) \in Nat
<1>1. Len(q) \in Nat /\ DOMAIN q = 1 .. Len(q) OBVIOUS
<1>2. IsFiniteSet(DOMAIN q) BY <1>1, FS_Interval
<1>3. Through(q, n) \subseteq DOMAIN q BY DEF Through
<1>4. IsFiniteSet(Through(q, n)) BY <1>2, <1>3, FS_Subset
<1>5. VisitsAt(q, n) = Cardinality(Through(q, n)) BY DEF VisitsAt, Through
<1> QED BY <1>4, <1>5, FS_CardinalityType

LEMMA VisitsNone == ASSUME NEW n PROVE VisitsAt(<< >>, n) = 0
<1>1. Through(<< >>, n) = {} BY DEF Through
<1>2. VisitsAt(<< >>, n) = Cardinality(Through(<< >>, n)) BY DEF VisitsAt, Through
<1> QED BY <1>1, <1>2, FS_EmptySet

\* Lists through which visits come one for one.
LEMMA SameVisits ==
  ASSUME NEW S, NEW q \in Seq(S), NEW n, NEW K, NEW f \in [Through(q, n) -> K],
         \A i, j \in Through(q, n) : f[i] = f[j] => i = j,
         \A j \in K : \E i \in Through(q, n) : f[i] = j
  PROVE  IsFiniteSet(K) /\ Cardinality(K) = VisitsAt(q, n)
<1>1. PICK T : T = Through(q, n) OBVIOUS
<1>2. IsFiniteSet(T) /\ VisitsAt(q, n) = Cardinality(T) BY <1>1, ThroughIs
<1>3. ExistsBijection(T, K)
  BY <1>1 DEF ExistsBijection, Bijection, Injection, Surjection, IsInjective
<1> QED BY <1>2, <1>3, FS_Bijection

LEMMA VisitsBoth ==
  ASSUME NEW S, NEW p \in Seq(S), NEW q \in Seq(S), NEW n
  PROVE  p \o q \in Seq(S) /\ VisitsAt(p \o q, n) = VisitsAt(p, n) + VisitsAt(q, n)
<1>0. Len(p) \in Nat /\ Len(q) \in Nat OBVIOUS
<1>1. PICK k, l : k = Len(p) /\ k \in Nat /\ l = Len(q) /\ l \in Nat BY <1>0
<1>2. DOMAIN p = 1 .. k /\ DOMAIN q = 1 .. l BY <1>1
<1>3. PICK r : r = p \o q OBVIOUS
<1>4. r \in Seq(S) /\ DOMAIN r = 1 .. k + l BY <1>1, <1>3
<1>5. ASSUME NEW i \in 1 .. k PROVE i \in 1 .. k + l /\ r[i] = p[i]
  <2>1. i \in 1 .. k + l /\ i <= k BY <1>1
  <2> QED BY <1>1, <1>3, <2>1
<1>6. ASSUME NEW i \in 1 .. l PROVE k + i \in 1 .. k + l /\ r[k + i] = q[i]
  <2>1. k + i \in 1 .. k + l /\ ~(k + i <= k) /\ k + i - k = i BY <1>1
  <2> QED BY <1>1, <1>3, <2>1
<1>7. ASSUME NEW i \in 1 .. k + l PROVE i \in 1 .. k \/ \E j \in 1 .. l : i = k + j
  <2>1. i \in 1 .. k \/ (i - k \in 1 .. l /\ i = k + (i - k)) BY <1>1
  <2> QED BY <2>1
<1> DEFINE A == Through(p, n)
           B == Through(q, n)
           C == {k + i : i \in B}
           f == [i \in B |-> k + i]
<1>8. A \subseteq 1 .. k /\ B \subseteq 1 .. l BY <1>2 DEF Through
<1>9. Through(r, n) = A \cup C
  <2>1. ASSUME NEW i \in Through(r, n) PROVE i \in A \cup C
    <3>1. i \in 1 .. k + l /\ AtOrBelow(n, r[i]) BY <1>4 DEF Through
    <3>2. CASE i \in 1 .. k BY <1>2, <1>5, <3>1, <3>2 DEF Through
    <3>3. CASE \E j \in 1 .. l : i = k + j
      <4>1. PICK j \in 1 .. l : i = k + j BY <3>3
      <4>2. AtOrBelow(n, q[j]) BY <1>6, <3>1, <4>1
      <4> QED BY <1>2, <4>1, <4>2 DEF Through
    <3> QED BY <1>7, <3>1, <3>2, <3>3
  <2>2. ASSUME NEW i \in A PROVE i \in Through(r, n) BY <1>2, <1>4, <1>5 DEF Through
  <2>3. ASSUME NEW i \in B PROVE k + i \in Through(r, n) BY <1>2, <1>4, <1>6 DEF Through
  <2> QED BY <2>1, <2>2, <2>3
<1>10. A \cap C = {}
  <2> SUFFICES ASSUME NEW i \in B, k + i \in A PROVE FALSE OBVIOUS
  <2>1. k + i \in 1 .. k /\ i \in 1 .. l BY <1>8
  <2> QED BY <1>1, <2>1
<1>11. f \in [B -> C] /\ \A j \in C : \E i \in B : f[i] = j OBVIOUS
<1>12. \A i, j \in B : f[i] = f[j] => i = j
  <2> SUFFICES ASSUME NEW i \in B, NEW j \in B, f[i] = f[j] PROVE i = j OBVIOUS
  <2>1. k + i = k + j /\ i \in Nat /\ j \in Nat BY <1>8
  <2> QED BY <1>1, <2>1
<1> HIDE DEF f, C
<1>13. IsFiniteSet(C) /\ Cardinality(C) = VisitsAt(q, n) BY <1>11, <1>12, SameVisits
<1>14. IsFiniteSet(A) /\ VisitsAt(p, n) = Cardinality(A) BY ThroughIs
<1>15. VisitsAt(r, n) = Cardinality(Through(r, n)) BY <1>4, ThroughIs
<1>16. Cardinality(A \cup C) = Cardinality(A) + Cardinality(C) - Cardinality({})
  <2> HIDE DEF A
  <2> QED BY <1>10, <1>13, <1>14, FS_Union
<1>17. Cardinality({}) = 0 BY FS_EmptySet
<1>18. VisitsAt(p, n) \in Nat /\ VisitsAt(q, n) \in Nat BY ThroughIs
<1>19. VisitsAt(r, n) = VisitsAt(p, n) + VisitsAt(q, n)
  BY <1>9, <1>13, <1>14, <1>15, <1>16, <1>17, <1>18
<1> QED BY <1>3, <1>4, <1>19

LEMMA VisitsOne ==
  ASSUME NEW S, NEW e \in S, NEW n
  PROVE  <<e>> \in Seq(S) /\ VisitsAt(<<e>>, n) = IF AtOrBelow(n, e) THEN 1 ELSE 0
<1>1. PICK q : q = <<e>> OBVIOUS
<1>2. q \in Seq(S) /\ DOMAIN q = {1} /\ q[1] = e BY <1>1
<1>3. VisitsAt(q, n) = Cardinality(Through(q, n)) BY <1>2, ThroughIs
<1>4. CASE AtOrBelow(n, e)
  <2>1. Through(q, n) = {1} BY <1>2, <1>4 DEF Through
  <2> QED BY <1>1, <1>2, <1>3, <1>4, <2>1, FS_Singleton
<1>5. CASE ~AtOrBelow(n, e)
  <2>1. Through(q, n) = {} BY <1>2, <1>5 DEF Through
  <2> QED BY <1>1, <1>2, <1>3, <1>5, <2>1, FS_EmptySet
<1> QED BY <1>4, <1>5

LEMMA VisitsAppend ==
  ASSUME NEW S, NEW q \in Seq(S), NEW e \in S, NEW n
  PROVE  VisitsAt(Append(q, e), n) = VisitsAt(q, n) + (IF AtOrBelow(n, e) THEN 1 ELSE 0)
<1>1. PICK p : p = <<e>> OBVIOUS
<1>2. p \in Seq(S) /\ VisitsAt(p, n) = IF AtOrBelow(n, e) THEN 1 ELSE 0 BY <1>1, VisitsOne
<1>3. Append(q, e) = q \o p BY <1>1
<1> QED BY <1>2, <1>3, VisitsBoth

LEMMA VisitsTail ==
  ASSUME NEW S, NEW q \in Seq(S), q # << >>, NEW n
  PROVE  VisitsAt(q, n) = VisitsAt(Tail(q), n) + (IF AtOrBelow(n, Head(q)) THEN 1 ELSE 0)
<1>1. PICK e, p, r : e = Head(q) /\ p = <<e>> /\ r = Tail(q) OBVIOUS
<1>2. e \in S /\ r \in Seq(S) BY <1>1
<1>3. p \in Seq(S) /\ VisitsAt(p, n) = IF AtOrBelow(n, e) THEN 1 ELSE 0 BY <1>1, <1>2, VisitsOne
<1>4. q = p \o r BY <1>1
<1>5. VisitsAt(q, n) = VisitsAt(p, n) + VisitsAt(r, n) BY <1>2, <1>3, <1>4, VisitsBoth
<1>6. VisitsAt(p, n) \in Nat /\ VisitsAt(r, n) \in Nat BY <1>2, <1>3, ThroughIs
<1> QED BY <1>1, <1>3, <1>5, <1>6

LEMMA VisitsTimes ==
  ASSUME NEW S, NEW l \in S, NEW c \in Nat, NEW n
  PROVE  Times(l, c) \in Seq(S) /\ VisitsAt(Times(l, c), n) = IF AtOrBelow(n, l) THEN c ELSE 0
<1>1. PICK q : q = Times(l, c) OBVIOUS
<1>2. q = [j \in 1 .. c |-> l] BY <1>1 DEF Times
<1>3. q \in Seq(S) /\ DOMAIN q = 1 .. c /\ \A j \in 1 .. c : q[j] = l BY <1>2
<1>4. VisitsAt(q, n) = Cardinality(Through(q, n)) BY <1>3, ThroughIs
<1>5. CASE AtOrBelow(n, l)
  <2>1. Through(q, n) = 1 .. c BY <1>3, <1>5 DEF Through
  <2>2. Cardinality(1 .. c) = c BY FS_Interval
  <2> QED BY <1>1, <1>3, <1>4, <1>5, <2>1, <2>2
<1>6. CASE ~AtOrBelow(n, l)
  <2>1. Through(q, n) = {} BY <1>3, <1>6 DEF Through
  <2> QED BY <1>1, <1>3, <1>4, <1>6, <2>1, FS_EmptySet
<1> QED BY <1>5, <1>6

\* The visits of a call that come through a node.
LEMMA VisitsVisits ==
  ASSUME NEW D, IsFiniteSet(D), NEW v, \A s \in D : v[s] \in Nat, NEW n
  PROVE  VisitsAt(Visits(SetToSeq(D), v), n) = SumFunctionOnSet(v, {m \in D : AtOrBelow(n, m)})
<1>1. PICK q, k : q = SetToSeq(D) /\ k = Len(q) OBVIOUS
<1>2. /\ q \in Seq(D) /\ k \in Nat /\ \A i, j \in 1 .. k : q[i] = q[j] => i = j
      /\ D = {q[i] : i \in 1 .. k}
  BY <1>1, SetToSeqIs
<1>3. \A i \in 1 .. k : q[i] \in D BY <1>2
<1>4. PICK g : /\ Visits(q, v) = g[k] /\ g[0] = << >>
               /\ \A i \in 1 .. k : g[i] = WithVisits(g[i - 1], q[i], v)
  <2>1. Len(q) \in Nat BY <1>1, <1>2
  <2>2. \E g : /\ Visits(q, v) = g[Len(q)] /\ g[0] = << >>
              /\ \A i \in 1 .. Len(q) : g[i] = WithVisits(g[i - 1], q[i], v)
    BY <2>1, VisitsRun
  <2> QED BY <1>1, <2>2
<1> DEFINE E(i) == {m \in {q[j] : j \in 1 .. i} : AtOrBelow(n, m)}
           P(i) == g[i] \in Seq(D) /\ VisitsAt(g[i], n) = SumFunctionOnSet(v, E(i))
           T == {i \in 0 .. k : P(i)}
<1>5. P(0)
  <2>1. E(0) = {} OBVIOUS
  <2>2. << >> \in Seq(D) OBVIOUS
  <2> HIDE DEF E
  <2> QED BY <1>4, <2>1, <2>2, VisitsNone, SumNone
<1>6. ASSUME NEW i \in 1 .. k, P(i - 1) PROVE P(i)
  <2>1. PICK a, l, c, A, B : a = g[i - 1] /\ l = q[i] /\ c = v[l] /\ A = E(i - 1) /\ B = E(i)
    OBVIOUS
  <2>2. a \in Seq(D) /\ l \in D /\ c \in Nat BY <1>3, <1>6, <2>1
  <2>3. 1 .. i = (1 .. i - 1) \cup {i} BY <1>2
  <2>4. B = IF AtOrBelow(n, l) THEN A \cup {l} ELSE A
    <3>1. {q[j] : j \in 1 .. i} = {q[j] : j \in 1 .. i - 1} \cup {l} BY <2>1, <2>3
    <3> QED BY <2>1, <3>1
  <2>5. l \notin A
    <3>1. ASSUME NEW j \in 1 .. i - 1 PROVE q[j] # l
      <4>1. j \in 1 .. k /\ j # i BY <1>2
      <4> QED BY <1>2, <2>1, <4>1
    <3> QED BY <2>1, <3>1
  <2>6. A \subseteq D /\ B \subseteq D
    <3>1. \A j \in 1 .. i - 1 : q[j] \in D BY <1>2, <1>3
    <3>2. A \subseteq D BY <2>1, <3>1
    <3> QED BY <2>2, <2>4, <3>2
  <2>7. g[i] = a \o Times(l, c) BY <1>4, <2>1 DEF WithVisits
  <2>8. VisitsAt(a, n) = SumFunctionOnSet(v, A) BY <1>6, <2>1
  <2> HIDE DEF E
  <2>9. Times(l, c) \in Seq(D) /\ VisitsAt(Times(l, c), n) = IF AtOrBelow(n, l) THEN c ELSE 0
    BY <2>2, VisitsTimes
  <2>10. /\ g[i] \in Seq(D)
         /\ VisitsAt(g[i], n) = VisitsAt(a, n) + VisitsAt(Times(l, c), n)
    BY <2>2, <2>7, <2>9, VisitsBoth
  <2>11. VisitsAt(a, n) \in Nat BY <2>2, ThroughIs
  <2>12. SumFunctionOnSet(v, B) = VisitsAt(a, n) + (IF AtOrBelow(n, l) THEN c ELSE 0)
    <3>1. CASE AtOrBelow(n, l)
      <4>1. IsFiniteSet(B) /\ (\A x \in B : v[x] \in Int) /\ l \in B /\ A = B \ {l}
        BY <2>4, <2>5, <2>6, <3>1, FS_Subset
      <4>2. SumFunctionOnSet(v, B) = v[l] + SumFunctionOnSet(v, A) BY <4>1, SumTake
      <4> QED BY <2>1, <2>2, <2>8, <2>11, <3>1, <4>2
    <3>2. CASE ~AtOrBelow(n, l) BY <2>4, <2>8, <2>11, <3>2
    <3> QED BY <3>1, <3>2
  <2> QED BY <2>1, <2>9, <2>10, <2>12
<1> HIDE DEF P
<1>7. P(k)
  <2>1. 0 \in T /\ \A i \in 1 .. k : i - 1 \in T => i \in T BY <1>2, <1>5, <1>6
  <2> HIDE DEF T
  <2> QED BY <1>2, <2>1, UpTo DEF T
<1>8. E(k) = {m \in D : AtOrBelow(n, m)} BY <1>2
<1> QED BY <1>1, <1>4, <1>7, <1>8 DEF P

\* All collisions below a node, those at nodes without any included.
LEMMA CountAll ==
  ASSUME NEW count, Counts(count), NEW n
  PROVE  LET S == {m \in DOMAIN count : Below(n, m)}
         IN  /\ CountBelow(count, n) = SumFunctionOnSet(count, S)
             /\ IsFiniteSet(S) /\ \A m \in S : count[m] \in Int
<1>1. PICK S, T : S = {m \in DOMAIN count : Below(n, m)} /\ T = {m \in Some(count) : Below(n, m)}
  OBVIOUS
<1>2. S \subseteq Positions /\ \A m \in S : count[m] \in Int BY <1>1 DEF Counts
<1>3. IsFiniteSet(S) BY <1>2, FS_Subset, GameAssumption
<1>4. T \subseteq S /\ \A m \in S \ T : count[m] = 0 BY <1>1 DEF Some
<1>5. SumFunctionOnSet(count, S) = SumFunctionOnSet(count, T) BY <1>2, <1>3, <1>4, SumSub
<1> QED BY <1>1, <1>2, <1>3, <1>5 DEF CountBelow

LEMMA CountsType == ASSUME NEW c \in [Positions -> Int] PROVE Counts(c)
BY DEF Counts

LEMMA CountNone == ASSUME NEW n PROVE CountBelow(NoCollisions, n) = 0
<1>1. {m \in Some(NoCollisions) : Below(n, m)} = {} BY DEF Some, NoCollisions
<1> QED BY <1>1, SumNone DEF CountBelow

LEMMA PlusType ==
  ASSUME NEW c \in [Positions -> Int], NEW d \in [Positions -> Int]
  PROVE  Plus(c, d) \in [Positions -> Int]
<1>1. \A n \in Positions : c[n] + d[n] \in Int OBVIOUS
<1> QED BY <1>1 DEF Plus

LEMMA PlusSome ==
  ASSUME NEW c \in [Positions -> Int], NEW d \in [Positions -> Int]
  PROVE  Some(Plus(c, d)) \subseteq Some(c) \cup Some(d)
<1> SUFFICES ASSUME NEW n \in Positions, Plus(c, d)[n] # 0, c[n] = 0, d[n] = 0 PROVE FALSE
  BY PlusType DEF Some, Plus
<1>1. Plus(c, d)[n] = 0 + 0 BY DEF Plus
<1> QED BY <1>1

LEMMA CountPlus ==
  ASSUME NEW c \in [Positions -> Int], NEW d \in [Positions -> Int], NEW n
  PROVE  CountBelow(Plus(c, d), n) = CountBelow(c, n) + CountBelow(d, n)
<1>1. PICK e, S : e = Plus(c, d) /\ S = {m \in Positions : Below(n, m)} OBVIOUS
<1>2. Counts(c) /\ Counts(d) /\ Counts(e)
      /\ DOMAIN c = Positions /\ DOMAIN d = Positions /\ DOMAIN e = Positions
  BY <1>1, PlusType, CountsType DEF Plus
<1>3. /\ CountBelow(c, n) = SumFunctionOnSet(c, S) /\ CountBelow(d, n) = SumFunctionOnSet(d, S)
      /\ CountBelow(e, n) = SumFunctionOnSet(e, S) /\ IsFiniteSet(S)
  BY <1>1, <1>2, CountAll
<1>4. \A m \in S : c[m] \in Int /\ d[m] \in Int /\ e[m] = c[m] + d[m] BY <1>1 DEF Plus
<1>5. SumFunctionOnSet(e, S) = SumFunctionOnSet(c, S) + SumFunctionOnSet(d, S)
  BY <1>3, <1>4, SumAdd
<1> QED BY <1>1, <1>3, <1>5

LEMMA CountNegated ==
  ASSUME NEW c, Counts(c), NEW n
  PROVE  Counts(Negated(c)) /\ CountBelow(Negated(c), n) = -CountBelow(c, n)
<1>1. PICK e, S : e = Negated(c) /\ S = {m \in DOMAIN c : Below(n, m)} OBVIOUS
<1>2. DOMAIN e = DOMAIN c /\ \A m \in DOMAIN c : c[m] \in Int /\ e[m] = -c[m]
  BY <1>1 DEF Negated, Counts
<1>3. \A m \in DOMAIN e : e[m] \in Int
  <2> SUFFICES ASSUME NEW m \in DOMAIN e PROVE e[m] \in Int OBVIOUS
  <2>1. PICK a : a = c[m] OBVIOUS
  <2>2. a \in Int /\ e[m] = -a BY <1>2, <2>1
  <2> QED BY <2>2
<1>4. Counts(e) BY <1>2, <1>3 DEF Counts
<1>5. /\ CountBelow(c, n) = SumFunctionOnSet(c, S) /\ CountBelow(e, n) = SumFunctionOnSet(e, S)
      /\ IsFiniteSet(S)
  BY <1>1, <1>2, <1>4, CountAll
<1>6. \A m \in S : c[m] \in Int /\ e[m] = -c[m] BY <1>1, <1>2
<1>7. SumFunctionOnSet(e, S) = -SumFunctionOnSet(c, S) BY <1>5, <1>6, SumMinus
<1> QED BY <1>1, <1>4, <1>5, <1>7

\* Collisions at some nodes, as collisions at all.
Padded(c) == [n \in Positions |-> IF n \in DOMAIN c THEN c[n] ELSE 0]

LEMMA CountPadded ==
  ASSUME NEW c, Counts(c), NEW n
  PROVE  Padded(c) \in [Positions -> Int] /\ CountBelow(Padded(c), n) = CountBelow(c, n)
<1>1. PICK e, S : e = Padded(c) /\ S = {m \in Some(c) : Below(n, m)} OBVIOUS
<1>2. e \in [Positions -> Int] /\ \A m \in DOMAIN c : e[m] = c[m] BY <1>1 DEF Padded, Counts
<1>3. Some(e) = Some(c) BY <1>1, <1>2 DEF Some, Padded, Counts
<1>4. \A m \in S : e[m] = c[m] BY <1>1, <1>2 DEF Some
<1>5. S \subseteq Some(c) BY <1>1
<1>6. IsFiniteSet(S) BY <1>5, SomeFinite
<1>7. SumFunctionOnSet(e, S) = SumFunctionOnSet(c, S) BY <1>4, <1>6, SumSame
<1> QED BY <1>1, <1>2, <1>3, <1>7 DEF CountBelow

\* What is dealt out comes back as visits and collisions.
LEMMA CountDealt ==
  ASSUME NEW d, Counts(d), NEW v, \A m \in DOMAIN d : v[m] \in Nat, NEW n,
         NEW met, met = [m \in Positions |-> IF m \in DOMAIN d THEN d[m] - v[m] ELSE 0]
  PROVE  /\ met \in [Positions -> Int]
         /\ CountBelow(met, n) + VisitsAt(Visits(SetToSeq(DOMAIN d), v), n) =
               CountBelow(d, n) + (IF n \in DOMAIN d THEN v[n] ELSE 0)
<1>1. PICK D, S, A : /\ D = DOMAIN d /\ S = {m \in D : Below(n, m)}
                     /\ A = {m \in D : AtOrBelow(n, m)}
  OBVIOUS
<1>2. D \subseteq Positions /\ (\A m \in D : d[m] \in Int /\ v[m] \in Nat) /\ IsFiniteSet(D)
  BY <1>1, FS_Subset, GameAssumption DEF Counts
<1>3. IsFiniteSet(S) /\ IsFiniteSet(A) /\ S \subseteq D /\ A \subseteq D BY <1>1, <1>2, FS_Subset
<1>4. met \in [Positions -> Int] /\ \A m \in D : met[m] = d[m] - v[m] BY <1>1, <1>2
<1>5. CountBelow(d, n) = SumFunctionOnSet(d, S) BY <1>1, CountAll
<1>6. CountBelow(met, n) = SumFunctionOnSet(met, S)
  <2>1. PICK P : P = {m \in Positions : Below(n, m)} OBVIOUS
  <2>2. CountBelow(met, n) = SumFunctionOnSet(met, P) /\ IsFiniteSet(P)
    <3>1. Counts(met) /\ DOMAIN met = Positions BY <1>4, CountsType
    <3> QED BY <2>1, <3>1, CountAll
  <2>3. S \subseteq P /\ (\A m \in P \ S : met[m] = 0) /\ \A m \in P : met[m] \in Int
    BY <1>1, <1>2, <1>4, <2>1
  <2>4. SumFunctionOnSet(met, P) = SumFunctionOnSet(met, S) BY <2>2, <2>3, SumSub
  <2> QED BY <2>2, <2>4
<1>7. SumFunctionOnSet(d, S) = SumFunctionOnSet(met, S) + SumFunctionOnSet(v, S)
  <2>1. ASSUME NEW m \in S PROVE met[m] \in Int /\ v[m] \in Int /\ d[m] = met[m] + v[m]
    <3>1. PICK a, b : a = d[m] /\ b = v[m] OBVIOUS
    <3>2. a \in Int /\ b \in Int /\ met[m] = a - b BY <1>2, <1>3, <1>4, <3>1
    <3>3. a - b \in Int /\ a = (a - b) + b BY <3>2
    <3> QED BY <3>1, <3>2, <3>3
  <2> QED BY <1>3, <2>1, SumAdd
<1>8. VisitsAt(Visits(SetToSeq(D), v), n) = SumFunctionOnSet(v, A)
  BY <1>1, <1>2, VisitsVisits
<1>9. SumFunctionOnSet(v, A) = SumFunctionOnSet(v, S) + (IF n \in D THEN v[n] ELSE 0)
  <2>1. n \notin S BY <1>1, BelowBelow, <1>2
  <2>2. SumFunctionOnSet(v, S) \in Int
    <3>1. \A m \in S : v[m] \in Int BY <1>2, <1>3
    <3> QED BY <1>3, <3>1, SumType
  <2>3. CASE n \in D
    <3>1. n \in A /\ S = A \ {n} BY <1>1, <2>1, <2>3 DEF AtOrBelow
    <3>2. \A m \in A : v[m] \in Int BY <1>2, <1>3
    <3>3. SumFunctionOnSet(v, A) = v[n] + SumFunctionOnSet(v, S) BY <1>3, <3>1, <3>2, SumTake
    <3>4. v[n] \in Int BY <1>2, <2>3
    <3> QED BY <2>2, <2>3, <3>3, <3>4
  <2>4. CASE n \notin D
    <3>1. A = S BY <1>1, <2>4 DEF AtOrBelow
    <3> QED BY <2>2, <2>4, <3>1
  <2> QED BY <2>3, <2>4
<1>10. SumFunctionOnSet(met, S) \in Int /\ SumFunctionOnSet(v, S) \in Int
  <2>1. \A m \in S : met[m] \in Int /\ v[m] \in Int BY <1>2, <1>3, <1>4
  <2> QED BY <1>3, <2>1, SumType
<1>11. PICK e : e = IF n \in D THEN v[n] ELSE 0 OBVIOUS
<1>12. e \in Int BY <1>2, <1>11
<1>13. CountBelow(met, n) + (SumFunctionOnSet(v, S) + e) = CountBelow(d, n) + e
  BY <1>5, <1>6, <1>7, <1>10, <1>12
<1> QED BY <1>1, <1>4, <1>8, <1>9, <1>11, <1>13

-----------------------------------------------------------------------------
(***************************************************************************)
(* The steps of the search threads                                         *)
(***************************************************************************)

LEMMA BatchType ==
  ASSUME NEW x \in Minibatch
  PROVE  /\ x.at \in {"gather", "process", "settle", "collect", "backup"}
         /\ x.picked \in Seq(Positions) /\ x.ready \in Seq(Positions) /\ x.kept \in Seq(Positions)
         /\ x.met \in [Positions -> Int] /\ x.collisions \in [Positions -> Int]
         /\ x.ooo \in BOOLEAN
         /\ LeavesOf(x) \subseteq Positions
<1>1. /\ x.at \in {"gather", "process", "settle", "collect", "backup"}
      /\ x.picked \in Seq(Positions) /\ x.ready \in Seq(Positions) /\ x.kept \in Seq(Positions)
      /\ x.met \in [Positions -> Int] /\ x.collisions \in [Positions -> Int]
      /\ x.ooo \in BOOLEAN
  BY DEF Minibatch
<1>2. LeavesOf(x) \subseteq Positions BY <1>1 DEF LeavesOf, ToSet
<1> QED BY <1>1, <1>2

LEMMA IdleType == Idle \in Minibatch /\ LeavesOf(Idle) = {} /\ Idle.at = "gather"
<1>1. NoCollisions \in [Positions -> Int] BY DEF NoCollisions
<1>2. << >> \in Seq(Positions) OBVIOUS
<1>3. Idle \in Minibatch /\ Idle.at = "gather" BY <1>1, <1>2 DEF Idle, Minibatch
<1>4. Idle.picked = << >> /\ Idle.ready = << >> /\ Idle.kept = << >> BY DEF Idle
<1>5. LeavesOf(Idle) = {} BY <1>4 DEF LeavesOf, ToSet
<1> QED BY <1>3, <1>5

\* A thread at work works on the tree of the current head.
LEMMA Working ==
  ASSUME Phases, NEW w \in Workers, worker[w].at # "gather"
  PROVE  searching /\ root = head /\ ~Stopped
<1>1. worker[w] # Idle BY IdleType
<1> QED BY <1>1 DEF Phases, Stopped

\* What a deal does to the tree.
PickedTree(t, d, v) ==
  [n \in Positions |->
      [AddInFlight(t, d)[n] EXCEPT !.flight = @ + (IF n \in DOMAIN d THEN v[n] ELSE 0)]]

LEMMA PickIs ==
  ASSUME tree \in [Positions -> Node], root \in Positions, AllSound(tree, root),
         NEW d, DOMAIN d \subseteq Leaves(tree), Counts(d),
         NEW v \in [DOMAIN d -> 0 .. MaxUnits],
         NEW t, t = EnsureTwoFoldsCorrect(tree, SetToSeq(DOMAIN d)),
         NEW u, u = PickedTree(t, d, v)
  PROVE  /\ Refolded(tree, t, DOMAIN d) /\ AllSound(t, root)
         /\ \A n \in DOMAIN d : Passed(tree, n)
         /\ FlightOnly(t, u)
         /\ \A m \in Positions : u[m].flight =
               t[m].flight + (IF AtOrBelow(root, m) THEN CountBelow(d, m) ELSE 0)
                           + (IF m \in DOMAIN d THEN v[m] ELSE 0)
         /\ Visits(SetToSeq(DOMAIN d), v) \in Seq(DOMAIN d)
<1>1. PICK q : q = SetToSeq(DOMAIN d) OBVIOUS
<1>2. DOMAIN d \subseteq Positions BY DEF Counts
<1>3. IsFiniteSet(DOMAIN d) BY <1>2, FS_Subset, GameAssumption
<1>4. q \in Seq(DOMAIN d) /\ DOMAIN d = {q[i] : i \in 1 .. Len(q)}
  <2>1. PICK S : S = DOMAIN d OBVIOUS
  <2>2. IsFiniteSet(S) /\ q = SetToSeq(S) BY <1>1, <1>3, <2>1
  <2>3. SetToSeq(S) \in Seq(S) /\ S = {SetToSeq(S)[i] : i \in 1 .. Len(SetToSeq(S))}
    BY ONLY <2>2, SetToSeqIs
  <2> QED BY ONLY <2>1, <2>2, <2>3
<1>5. q \in Seq(Positions) BY <1>2, <1>4
<1>6. ASSUME NEW n \in DOMAIN d PROVE Passed(tree, n)
  <2>1. n \in Leaves(tree) OBVIOUS
  <2>2. AtOrBelow(root, n)
        /\ \A m \in Ancestors[n] : AtOrBelow(root, m) => tree[m].n > 0 /\ ~Terminal(tree[m])
    BY <2>1 DEF Leaves
  <2>3. ASSUME NEW m \in Positions, AtOrBelow(root, m), Below(m, n)
        PROVE  ~Terminal(tree[m]) /\ tree[m].edges # {}
    <3>1. tree[m].n > 0 /\ ~Terminal(tree[m]) BY <2>2, <2>3 DEF Below
    <3>2. Sound(tree[m], m) BY <2>3 DEF AllSound
    <3>3. tree[m].n \in Int BY NodeType
    <3> QED BY <3>1, <3>2, <3>3 DEF Sound
  <2> QED BY <2>2, <2>3 DEF Passed
<1>7. \A i \in 1 .. Len(q) : Passed(tree, q[i]) BY <1>4, <1>6
<1>8. Refolded(tree, t, DOMAIN d) /\ AllSound(t, root)
  <2>1. Refolded(tree, t, {q[i] : i \in 1 .. Len(q)}) /\ AllSound(t, root)
    BY <1>1, <1>5, <1>7, EnsureSound
  <2> QED BY <1>4, <2>1
<1>9. t \in [Positions -> Node] BY <1>8 DEF Refolded
<1>10. PICK s : s = AddInFlight(t, d) OBVIOUS
<1>11. /\ FlightOnly(t, s)
       /\ \A m \in Positions : s[m].flight =
             t[m].flight + (IF AtOrBelow(root, m) THEN CountBelow(d, m) ELSE 0)
  BY <1>9, <1>10, AddInFlightIs
<1>12. s \in [Positions -> Node] BY <1>11 DEF FlightOnly
<1>13. \A n \in DOMAIN d : v[n] \in Nat BY SearchAssumption
<1>14. ASSUME NEW m \in Positions
       PROVE  /\ u[m] \in Node /\ u[m] = [t[m] EXCEPT !.flight = u[m].flight]
              /\ u[m].flight = s[m].flight + (IF m \in DOMAIN d THEN v[m] ELSE 0)
  <2>1. PICK x, y, c : x = t[m] /\ y = s[m] /\ c = IF m \in DOMAIN d THEN v[m] ELSE 0 OBVIOUS
  <2>2. x \in Node /\ y \in Node /\ c \in Int /\ y.flight \in Int
    BY <1>9, <1>12, <1>13, <2>1, NodeType
  <2>3. PICK f : f = y.flight + c OBVIOUS
  <2>4. f \in Int BY <2>2, <2>3
  <2>5. PICK z : z = [y EXCEPT !.flight = f] OBVIOUS
  <2>6. u[m] = z BY <1>10, <2>1, <2>3, <2>5 DEF PickedTree
  <2>7. y = [x EXCEPT !.flight = y.flight] BY <1>11, <2>1 DEF FlightOnly
  <2>8. z \in Node /\ z.flight = f BY <2>2, <2>4, <2>5, NodeWithFlight
  <2>9. PICK e : e = y.flight OBVIOUS
  <2>10. z = [x EXCEPT !.flight = f]
    <3>1. y = [x EXCEPT !.flight = e] BY <2>7, <2>9
    <3> QED BY <2>2, <2>5, <3>1 DEF Node
  <2>11. z = [x EXCEPT !.flight = z.flight] BY <2>8, <2>10
  <2> QED BY <2>1, <2>3, <2>6, <2>8, <2>11
<1>15. u \in [Positions -> Node]
  <2>1. u = [n \in Positions |-> u[n]] BY DEF PickedTree
  <2> QED BY <1>14, <2>1
<1>16. FlightOnly(t, u) BY <1>14, <1>15 DEF FlightOnly
<1>17. Visits(q, v) \in Seq(DOMAIN d) BY <1>4, <1>13, VisitsType
<1> QED BY <1>1, <1>6, <1>8, <1>11, <1>14, <1>16, <1>17

\* Leaves that are held stay as they are when others are corrected.
LEMMA RefoldedBatch ==
  ASSUME NEW t \in [Positions -> Node], NEW u, NEW S, Refolded(t, u, S)
  PROVE  /\ \A n \in Positions : Reached(t, n) => Reached(u, n)
         /\ \A n \in Positions : Reached(t, n) /\ Extended(t[n]) => Extended(u[n])
         /\ \A x \in Minibatch : BatchSound(t, x) => BatchSound(u, x)
<1>1. ASSUME NEW m \in Positions
      PROVE  /\ u[m].edges = t[m].edges
             /\ u[m].term = t[m].term \/ (Misplaced(t, m) /\ u[m].term = "NonTerminal")
  BY DEF Refolded
<1>2. ASSUME NEW n \in Positions, Reached(t, n) PROVE Reached(u, n)
  <2>1. \A m \in Ancestors[n] : m \in Positions BY DEF Ancestors
  <2>2. ~(u[n].term = "TwoFold" /\ Depth(n) < Cycle[n])
    BY <1>1, <1>2 DEF Reached
  <2> QED BY <1>1, <1>2, <2>1, <2>2 DEF Reached
<1>3. ASSUME NEW n \in Positions, Reached(t, n), Extended(t[n]) PROVE Extended(u[n])
  <2>1. ~Misplaced(t, n) BY <1>3 DEF Reached, Misplaced
  <2> QED BY <1>1, <1>3, <2>1 DEF Extended, Terminal
<1>4. ASSUME NEW x \in Minibatch, BatchSound(t, x) PROVE BatchSound(u, x)
  <2>1. LeavesOf(x) \subseteq Positions BY BatchType
  <2> QED BY <1>2, <1>3, <1>4, <2>1 DEF BatchSound, LeavesOf
<1> QED BY <1>2, <1>3, <1>4

LEMMA BackedBatch ==
  ASSUME NEW t \in [Positions -> Node], NEW u, \A m \in Positions : Grown(t[m], u[m])
  PROVE  /\ \A x \in Minibatch : BatchSound(t, x) => BatchSound(u, x)
         /\ \A h \in Positions : HeadLinked(t, h) => HeadLinked(u, h)
<1>1. ASSUME NEW n \in Positions, Reached(t, n) PROVE Reached(u, n)
  <2>1. \A m \in Ancestors[n] : m \in Positions BY DEF Ancestors
  <2>2. ~(u[n].term = "TwoFold" /\ Depth(n) < Cycle[n]) BY <1>1 DEF Reached, Grown
  <2> QED BY <1>1, <2>1, <2>2 DEF Reached, Grown
<1>2. \A n \in Positions : Extended(t[n]) => Extended(u[n]) BY BackedExtended
<1>3. ASSUME NEW x \in Minibatch, BatchSound(t, x) PROVE BatchSound(u, x)
  <2>1. LeavesOf(x) \subseteq Positions BY BatchType
  <2> QED BY <1>1, <1>2, <1>3, <2>1 DEF BatchSound, LeavesOf
<1>4. ASSUME NEW h \in Positions, HeadLinked(t, h) PROVE HeadLinked(u, h)
  <2>1. h # << >> => Parent(h) \in Positions BY ParentOf
  <2> QED BY <1>4, <2>1 DEF HeadLinked, Grown
<1> QED BY <1>3, <1>4

LEMMA ReachedRising ==
  ASSUME NEW t \in [Positions -> Node], NEW n \in Positions, Reached(t, n), Extended(t[n])
  PROVE  Rising(t, n)
<1>1. \A m \in Positions : Below(m, n) => m \in Ancestors[n] BY DEF Below
<1> QED BY <1>1 DEF Reached, Rising, Extended

LEMMA BoundsNext ==
  ASSUME root' = root, TypeOK', Phases', HeadLinked(tree', head'), AllSound(tree', head'),
         \A w \in Workers : BatchSound(tree', worker'[w])
  PROVE  BoundsInv'
<1>1. ASSUME NEW w \in Workers PROVE BatchSound(tree, worker[w])'
  <2>1. BatchSound(tree', worker'[w]) OBVIOUS
  <2> QED BY <2>1 DEF BatchSound, Reached, Depth, LeavesOf
<1>2. HeadLinked(tree, head)' /\ AllSound(tree, head)'
  BY DEF HeadLinked, AllSound
<1> QED BY <1>1, <1>2 DEF BoundsInv

\* What a step of one thread must keep.
LEMMA ThreadStep ==
  ASSUME BoundsInv, searching, UNCHANGED <<head, root, searching>>,
         NEW w \in Workers, NEW t \in [Positions -> Node], tree' = t,
         NEW y \in Minibatch, worker' = [worker EXCEPT ![w] = y],
         shared' \in [Positions -> Int], HeadLinked(t, root), AllSound(t, root),
         \A x \in Minibatch : BatchSound(tree, x) => BatchSound(t, x), BatchSound(t, y)
  PROVE  BoundsInv'
<1>1. TypeOK /\ Phases BY DEF BoundsInv
<1>2. root = head /\ worker \in [Workers -> Minibatch] BY <1>1 DEF Phases, TypeOK
<1>3. worker' \in [Workers -> Minibatch] BY <1>2
<1>4. TypeOK' BY <1>1, <1>3 DEF TypeOK
<1>5. Phases' BY <1>2 DEF Phases
<1>6. HeadLinked(tree', head') /\ AllSound(tree', head') BY <1>2
<1>7. ASSUME NEW u \in Workers PROVE BatchSound(tree', worker'[u])
  <2>1. CASE u = w BY <1>2, <2>1
  <2>2. CASE u # w
    <3>1. worker'[u] = worker[u] /\ worker[u] \in Minibatch BY <1>2, <2>2
    <3>2. BatchSound(tree, worker[u]) BY DEF BoundsInv
    <3> QED BY <3>1, <3>2
  <2> QED BY <2>1, <2>2
<1>8. root' = root OBVIOUS
<1> QED BY <1>4, <1>5, <1>6, <1>7, <1>8, BoundsNext

LEMMA PickBounds == ASSUME BoundsInv, NEW w \in Workers, Pick(w) PROVE BoundsInv'
<1>1. TypeOK /\ Phases /\ searching BY DEF BoundsInv, Pick
<1>2. /\ tree \in [Positions -> Node] /\ root \in Positions /\ root = head
      /\ worker \in [Workers -> Minibatch] /\ shared \in [Positions -> Int]
  BY <1>1 DEF TypeOK, Phases
<1>3. AllSound(tree, root) /\ HeadLinked(tree, root) /\ BatchSound(tree, worker[w])
  BY <1>2 DEF BoundsInv
<1>4. PICK d \in Deals(MaxUnits - Outstanding) :
        \E v \in [DOMAIN d -> 0 .. MaxUnits] :
           /\ tree' = PickedTree(EnsureTwoFoldsCorrect(tree, SetToSeq(DOMAIN d)), d, v)
           /\ worker' = [worker EXCEPT
                 ![w].at = "process", ![w].picked = Visits(SetToSeq(DOMAIN d), v),
                 ![w].met = [n \in Positions |-> IF n \in DOMAIN d THEN d[n] - v[n] ELSE 0]]
  BY DEF Pick, PickedTree
<1>5. PICK v \in [DOMAIN d -> 0 .. MaxUnits] :
           /\ tree' = PickedTree(EnsureTwoFoldsCorrect(tree, SetToSeq(DOMAIN d)), d, v)
           /\ worker' = [worker EXCEPT
                 ![w].at = "process", ![w].picked = Visits(SetToSeq(DOMAIN d), v),
                 ![w].met = [n \in Positions |-> IF n \in DOMAIN d THEN d[n] - v[n] ELSE 0]]
  BY <1>4
<1>6. PICK k : k = Outstanding OBVIOUS
<1>7. DOMAIN d \subseteq Leaves(tree) /\ DOMAIN d \subseteq Positions /\ Counts(d)
      /\ \A n \in DOMAIN d : d[n] \in Int
  <2>1. d \in UNION {[S -> 1 .. MaxUnits - k] : S \in UNION {kSubset(j, Leaves(tree)) : j \in 1 .. MaxUnits - k}}
    BY <1>6 DEF Deals
  <2>2. PICK S : S \in UNION {kSubset(j, Leaves(tree)) : j \in 1 .. MaxUnits - k} /\ d \in [S -> 1 .. MaxUnits - k]
    BY <2>1
  <2>3. S \subseteq Leaves(tree) BY <2>2 DEF kSubset
  <2>4. DOMAIN d = S /\ \A n \in S : d[n] \in Int BY <2>2
  <2>5. Leaves(tree) \subseteq Positions BY DEF Leaves
  <2> QED BY <2>3, <2>4, <2>5 DEF Counts
<1>8. PICK t, u : /\ t = EnsureTwoFoldsCorrect(tree, SetToSeq(DOMAIN d))
                  /\ u = PickedTree(t, d, v)
  OBVIOUS
<1>9. /\ Refolded(tree, t, DOMAIN d) /\ AllSound(t, root)
      /\ \A n \in DOMAIN d : Passed(tree, n)
      /\ FlightOnly(t, u)
      /\ Visits(SetToSeq(DOMAIN d), v) \in Seq(DOMAIN d)
  BY <1>2, <1>3, <1>7, <1>8, PickIs
<1>10. t \in [Positions -> Node] /\ u \in [Positions -> Node] /\ AllSound(u, root)
  BY <1>2, <1>9, FlightSound DEF Refolded
<1>11. HeadLinked(u, root)
  <2>1. HeadLinked(t, root)
    <3>1. root # << >> => Parent(root) \in Positions BY <1>2, ParentOf
    <3> QED BY <1>3, <1>9, <3>1 DEF HeadLinked, Refolded
  <2> QED BY <1>2, <1>9, <1>10, <2>1, FlightSound
<1>12. \A x \in Minibatch : BatchSound(tree, x) => BatchSound(u, x)
  BY <1>2, <1>9, <1>10, FlightSound, RefoldedBatch
<1>13. PICK ps, ms, y : /\ ps = Visits(SetToSeq(DOMAIN d), v)
                        /\ ms = [n \in Positions |-> IF n \in DOMAIN d THEN d[n] - v[n] ELSE 0]
                        /\ y = [worker[w] EXCEPT !.at = "process", !.picked = ps, !.met = ms]
  OBVIOUS
<1>14. worker[w] \in Minibatch BY <1>2
<1>15. ms \in [Positions -> Int]
  <2>1. \A n \in DOMAIN d : d[n] \in Int /\ v[n] \in Int BY <1>7
  <2> QED BY <1>13, <2>1
<1>16. /\ y \in Minibatch /\ y.picked = ps /\ y.ready = worker[w].ready /\ y.kept = worker[w].kept
  <2>1. ps \in Seq(Positions) BY <1>7, <1>9, <1>13
  <2> QED BY <1>13, <1>14, <1>15, <2>1 DEF Minibatch
<1>17. worker' = [worker EXCEPT ![w] = y] BY <1>2, <1>5, <1>13
<1>18. BatchSound(u, y)
  <2>1. BatchSound(u, worker[w]) BY <1>3, <1>12, <1>14
  <2>2. ASSUME NEW n \in ToSet(ps) PROVE Reached(u, n)
    <3>1. n \in DOMAIN d BY <1>9, <1>13 DEF ToSet
    <3>2. n \in Positions /\ Passed(tree, n) BY <1>7, <1>9, <3>1
    <3>3. ASSUME NEW m \in Positions PROVE u[m].edges = t[m].edges /\ u[m].term = t[m].term
      <4>1. u[m] = [t[m] EXCEPT !.flight = u[m].flight] BY <1>9 DEF FlightOnly
      <4>2. t[m] \in Node /\ u[m] \in Node BY <1>10
      <4> QED BY <4>1, <4>2, FlightNode
    <3>6. \A m \in Positions : t[m].edges = tree[m].edges BY <1>9 DEF Refolded
    <3>4. ~(t[n].term = "TwoFold" /\ Depth(n) < Cycle[n])
      BY <1>9, <3>1, <3>2 DEF Refolded, Misplaced
    <3>5. \A m \in Ancestors[n] : m \in Positions /\ Below(m, n)
      BY <3>2 DEF Below, Ancestors
    <3> QED BY <3>2, <3>3, <3>4, <3>5, <3>6 DEF Reached, Passed
  <2> QED BY <1>16, <2>1, <2>2 DEF BatchSound, LeavesOf
<1>19. shared' \in [Positions -> Int] /\ tree' = u /\ UNCHANGED <<head, root, searching>>
  BY <1>2, <1>5, <1>8 DEF Pick
<1> QED BY <1>1, <1>10, <1>11, <1>12, <1>16, <1>17, <1>18, <1>19, ThreadStep

\* Leaves that are held stay where they are when a node is extended.
LEMMA GrownBatch ==
  ASSUME NEW t \in [Positions -> Node], NEW u \in [Positions -> Node],
         \A m \in Positions :
            /\ t[m].edges # {} => u[m].edges # {}
            /\ Extended(t[m]) => Extended(u[m])
            /\ Reached(t, m) => ~(u[m].term = "TwoFold" /\ Depth(m) < Cycle[m])
  PROVE  /\ \A n \in Positions : Reached(t, n) => Reached(u, n)
         /\ \A x \in Minibatch : BatchSound(t, x) => BatchSound(u, x)
<1>1. ASSUME NEW n \in Positions, Reached(t, n) PROVE Reached(u, n)
  <2>1. \A m \in Ancestors[n] : m \in Positions BY DEF Ancestors
  <2>2. ~(u[n].term = "TwoFold" /\ Depth(n) < Cycle[n]) BY <1>1
  <2> QED BY <1>1, <2>1, <2>2 DEF Reached
<1>2. ASSUME NEW x \in Minibatch, BatchSound(t, x) PROVE BatchSound(u, x)
  <2>1. LeavesOf(x) \subseteq Positions BY BatchType
  <2> QED BY <1>1, <1>2, <2>1 DEF BatchSound, LeavesOf
<1> QED BY <1>1, <1>2

LEMMA SetOfAppend ==
  ASSUME NEW S, NEW p \in Seq(S), NEW e \in S
  PROVE  Append(p, e) \in Seq(S) /\ ToSet(Append(p, e)) = ToSet(p) \cup {e}
<1>1. PICK k : k = Len(p) /\ k \in Nat OBVIOUS
<1>2. DOMAIN p = 1 .. k BY <1>1
<1>3. PICK q : q = Append(p, e) OBVIOUS
<1>4. q \in Seq(S) /\ DOMAIN q = 1 .. k + 1 /\ q[k + 1] = e /\ \A i \in 1 .. k : q[i] = p[i]
  BY <1>1, <1>3
<1>5. \A i \in 1 .. k : i \in 1 .. k + 1 BY <1>1
<1>6. \A i \in 1 .. k + 1 : i \in 1 .. k \/ i = k + 1 BY <1>1
<1>7. k + 1 \in 1 .. k + 1 BY <1>1
<1>8. ToSet(q) = ToSet(p) \cup {e} BY <1>2, <1>4, <1>5, <1>6, <1>7 DEF ToSet
<1> QED BY <1>3, <1>4, <1>8

LEMMA SetOfTail ==
  ASSUME NEW S, NEW p \in Seq(S), p # << >>
  PROVE  Tail(p) \in Seq(S) /\ Head(p) \in ToSet(p) /\ ToSet(Tail(p)) \subseteq ToSet(p)
<1>1. PICK k : k = Len(p) /\ k \in Nat \ {0} OBVIOUS
<1>2. DOMAIN p = 1 .. k BY <1>1
<1>3. Tail(p) \in Seq(S) /\ DOMAIN Tail(p) = 1 .. k - 1
      /\ \A i \in 1 .. k - 1 : Tail(p)[i] = p[i + 1]
  BY <1>1
<1>4. \A i \in 1 .. k - 1 : i + 1 \in 1 .. k BY <1>1
<1>5. Head(p) = p[1] /\ 1 \in 1 .. k BY <1>1
<1>6. PICK r : r = Tail(p) OBVIOUS
<1>7. DOMAIN r = 1 .. k - 1 /\ \A i \in 1 .. k - 1 : r[i] = p[i + 1] BY <1>3, <1>6
<1>8. ToSet(r) \subseteq ToSet(p)
  <2> SUFFICES ASSUME NEW i \in 1 .. k - 1 PROVE r[i] \in ToSet(p) BY <1>7 DEF ToSet
  <2> QED BY <1>2, <1>4, <1>7 DEF ToSet
<1>9. Head(p) \in ToSet(p) BY <1>2, <1>5 DEF ToSet
<1> QED BY <1>3, <1>6, <1>8, <1>9

LEMMA SetOfBoth ==
  ASSUME NEW S, NEW p \in Seq(S), NEW q \in Seq(S)
  PROVE  p \o q \in Seq(S) /\ ToSet(p \o q) = ToSet(p) \cup ToSet(q)
<1>0. Len(p) \in Nat /\ Len(q) \in Nat OBVIOUS
<1>1. PICK k, l : k = Len(p) /\ k \in Nat /\ l = Len(q) /\ l \in Nat BY <1>0
<1>2. DOMAIN p = 1 .. k /\ DOMAIN q = 1 .. l BY <1>1
<1>3. PICK r : r = p \o q OBVIOUS
<1>4. r \in Seq(S) /\ DOMAIN r = 1 .. k + l BY <1>1, <1>3
<1>5. ASSUME NEW i \in 1 .. k PROVE i \in 1 .. k + l /\ r[i] = p[i]
  <2>1. i \in 1 .. k + l /\ i <= k BY <1>1
  <2> QED BY <1>1, <1>3, <2>1
<1>6. ASSUME NEW i \in 1 .. l PROVE k + i \in 1 .. k + l /\ r[k + i] = q[i]
  <2>1. k + i \in 1 .. k + l /\ ~(k + i <= k) /\ k + i - k = i BY <1>1
  <2> QED BY <1>1, <1>3, <2>1
<1>7. ASSUME NEW i \in 1 .. k + l PROVE i \in 1 .. k \/ \E j \in 1 .. l : i = k + j
  <2>1. i \in 1 .. k \/ (i - k \in 1 .. l /\ i = k + (i - k)) BY <1>1
  <2> QED BY <2>1
<1>8. ToSet(r) \subseteq ToSet(p) \cup ToSet(q)
  <2> SUFFICES ASSUME NEW i \in 1 .. k + l PROVE r[i] \in ToSet(p) \cup ToSet(q) BY <1>4 DEF ToSet
  <2>1. CASE i \in 1 .. k BY <1>2, <1>5, <2>1 DEF ToSet
  <2>2. CASE \E j \in 1 .. l : i = k + j
    <3>1. PICK j \in 1 .. l : i = k + j BY <2>2
    <3> QED BY <1>2, <1>6, <3>1 DEF ToSet
  <2> QED BY <1>7, <2>1, <2>2
<1>9. ToSet(p) \cup ToSet(q) \subseteq ToSet(r)
  <2>1. ASSUME NEW i \in 1 .. k PROVE p[i] \in ToSet(r) BY <1>4, <1>5 DEF ToSet
  <2>2. ASSUME NEW i \in 1 .. l PROVE q[i] \in ToSet(r) BY <1>4, <1>6 DEF ToSet
  <2> QED BY <1>2, <2>1, <2>2 DEF ToSet
<1> QED BY <1>3, <1>4, <1>8, <1>9

LEMMA ExtendBounds == ASSUME BoundsInv, NEW w \in Workers, Extend(w) PROVE BoundsInv'
<1>1. TypeOK /\ Phases BY DEF BoundsInv
<1>2. PICK x, n : x = worker[w] /\ n = Head(x.picked) OBVIOUS
<1>3. /\ x.at = "process" /\ x.picked # << >>
      /\ tree' = [tree EXCEPT ![n] = IF Terminal(@) THEN @ ELSE ExtendNode(@, n)]
      /\ worker' = [worker EXCEPT ![w].picked = Tail(@), ![w].ready = Append(@, n)]
      /\ UNCHANGED <<head, root, searching, shared>>
  BY <1>2 DEF Extend
<1>4. searching /\ root = head BY <1>1, <1>2, <1>3, Working
<1>5. /\ tree \in [Positions -> Node] /\ root \in Positions /\ x \in Minibatch
      /\ worker \in [Workers -> Minibatch] /\ shared \in [Positions -> Int]
  BY <1>1, <1>2 DEF TypeOK
<1>6. AllSound(tree, root) /\ HeadLinked(tree, root) /\ BatchSound(tree, x)
  BY <1>2, <1>4 DEF BoundsInv
<1>7. x.picked \in Seq(Positions) /\ x.ready \in Seq(Positions) BY <1>5, BatchType
<1>8. /\ Tail(x.picked) \in Seq(Positions) /\ n \in ToSet(x.picked)
      /\ ToSet(Tail(x.picked)) \subseteq ToSet(x.picked)
  BY <1>2, <1>3, <1>7, SetOfTail
<1>9. n \in Positions BY <1>7, <1>8 DEF ToSet
<1>10. Append(x.ready, n) \in Seq(Positions) /\ ToSet(Append(x.ready, n)) = ToSet(x.ready) \cup {n}
  BY <1>7, <1>9, SetOfAppend
<1>11. Reached(tree, n) BY <1>6, <1>8 DEF BatchSound, LeavesOf
<1>12. PICK z : z = IF Terminal(tree[n]) THEN tree[n] ELSE ExtendNode(tree[n], n) OBVIOUS
<1>13. PICK t : t = [tree EXCEPT ![n] = z] OBVIOUS
<1>14. tree' = t BY <1>3, <1>12, <1>13
<1>15. /\ z \in Node /\ Sound(z, n) /\ (n # root => GoesOn(z, n)) /\ Extended(z)
       /\ tree[n].edges # {} => z.edges # {}
       /\ ~(z.term = "TwoFold" /\ Depth(n) < Cycle[n])
  <2>1. tree[n] \in Node /\ Sound(tree[n], n) /\ (n # root => GoesOn(tree[n], n))
    BY <1>5, <1>6, <1>9, <1>11 DEF AllSound, Reached
  <2>2. CASE Terminal(tree[n])
    <3>1. z = tree[n] BY <1>12, <2>2
    <3> QED BY <1>11, <2>1, <2>2, <3>1 DEF Reached, Extended
  <2>3. CASE ~Terminal(tree[n])
    <3>1. z = ExtendNode(tree[n], n) BY <1>12, <2>3
    <3> QED BY <1>5, <1>9, <2>1, <2>3, <3>1, ExtendSound
  <2> QED BY <2>2, <2>3
<1>16. t \in [Positions -> Node] /\ t[n] = z /\ \A m \in Positions : m # n => t[m] = tree[m]
  BY <1>5, <1>9, <1>13, <1>15
<1>17. AllSound(t, root) BY <1>6, <1>15, <1>16 DEF AllSound
<1>18. HeadLinked(t, root)
  <2>1. ASSUME root # << >> PROVE root \in t[Parent(root)].edges
    <3>1. Parent(root) \in Positions /\ Below(Parent(root), root) BY <1>5, <2>1, ParentOf
    <3>2. Parent(root) # n BY <1>5, <1>9, <1>11, <3>1, BelowBelow DEF Reached, AtOrBelow
    <3> QED BY <1>6, <1>16, <2>1, <3>1, <3>2 DEF HeadLinked
  <2> QED BY <2>1 DEF HeadLinked
<1>19. /\ \A m \in Positions : Reached(tree, m) => Reached(t, m)
       /\ \A b \in Minibatch : BatchSound(tree, b) => BatchSound(t, b)
  <2>1. ASSUME NEW m \in Positions
        PROVE  /\ tree[m].edges # {} => t[m].edges # {}
               /\ Extended(tree[m]) => Extended(t[m])
               /\ Reached(tree, m) => ~(t[m].term = "TwoFold" /\ Depth(m) < Cycle[m])
    <3>1. CASE m = n BY <1>15, <1>16, <3>1
    <3>2. CASE m # n BY <1>16, <3>2 DEF Reached
    <3> QED BY <3>1, <3>2
  <2> QED BY <1>5, <1>16, <2>1, GrownBatch
<1>20. PICK y : y = [x EXCEPT !.picked = Tail(x.picked), !.ready = Append(x.ready, n)] OBVIOUS
<1>21. /\ y \in Minibatch /\ y.picked = Tail(x.picked) /\ y.ready = Append(x.ready, n)
       /\ y.kept = x.kept
  BY <1>5, <1>8, <1>10, <1>20 DEF Minibatch
<1>22. worker' = [worker EXCEPT ![w] = y] BY <1>2, <1>3, <1>5, <1>20
<1>23. BatchSound(t, y)
  <2>1. BatchSound(t, x) BY <1>5, <1>6, <1>19
  <2>2. Reached(t, n) /\ Extended(t[n]) BY <1>9, <1>11, <1>15, <1>16, <1>19
  <2> QED BY <1>8, <1>10, <1>21, <2>1, <2>2 DEF BatchSound, LeavesOf
<1>24. shared' \in [Positions -> Int] /\ UNCHANGED <<head, root, searching>> BY <1>3, <1>5
<1> QED BY <1>4, <1>14, <1>16, <1>17, <1>18, <1>19, <1>21, <1>22, <1>23, <1>24, ThreadStep

LEMMA FewerLeaves ==
  ASSUME NEW t, NEW x, NEW y, BatchSound(t, x), LeavesOf(y) \subseteq LeavesOf(x),
         ToSet(y.ready) \cup ToSet(y.kept) \subseteq ToSet(x.ready) \cup ToSet(x.kept)
  PROVE  BatchSound(t, y)
BY DEF BatchSound

\* Backing leaves up keeps everything true.
LEMMA BackupBounds ==
  ASSUME NEW t \in [Positions -> Node], NEW leaves \in Seq(Positions), NEW held,
         root \in Positions, AllSound(t, root), HeadLinked(t, root),
         \A i \in 1 .. Len(leaves) : Rising(t, leaves[i]),
         NEW u, u = BackupAll(t, leaves, held).t
  PROVE  /\ u \in [Positions -> Node] /\ AllSound(u, root) /\ HeadLinked(u, root)
         /\ \A x \in Minibatch : BatchSound(t, x) => BatchSound(u, x)
<1>1. /\ u \in [Positions -> Node] /\ AllSound(u, root)
      /\ \A m \in Positions : Backed(t[m], u[m], Upto(leaves, Len(leaves), m))
  BY BackupAllSound
<1>2. \A m \in Positions : Grown(t[m], u[m]) BY <1>1 DEF Backed
<1> QED BY <1>1, <1>2, BackedBatch

NotNegative(c) == \A n \in Positions : c[n] >= 0

(* How a thread settles a call, step by step: with some collisions cancelled the tree is b, *)
(* some leaves are backed up from there, and the minibatch x of the thread becomes y.       *)
Settling(w) == Settle(w) \/ CancelCollision(w) \/ BackupEarly(w) \/ Keep(w)

Collided(x, m) == CountBelow(x.met, m) + CountBelow(x.collisions, m)

Uncollided(b, x, y) ==
  /\ FlightOnly(tree, b)
  /\ \A m \in Positions : b[m].flight =
        tree[m].flight - (IF AtOrBelow(root, m) THEN Collided(x, m) - Collided(y, m) ELSE 0)

Handled(x, leaves, y) ==
  /\ leaves \in Seq(Positions)
  /\ ToSet(leaves) \cup LeavesOf(y) \subseteq LeavesOf(x)
  /\ ToSet(leaves) \cup ToSet(y.ready) \cup ToSet(y.kept) \subseteq ToSet(x.ready) \cup ToSet(x.kept)
  /\ \A m \in Positions : VisitsIn(x, m) = VisitsAt(leaves, m) + VisitsIn(y, m)

Remains(x, y) ==
  /\ CollisionsOf(y) \subseteq CollisionsOf(x)
  /\ Settled(x) => Settled(y)
  /\ NotNegative(x.met) /\ NotNegative(x.collisions) =>
        NotNegative(y.met) /\ NotNegative(y.collisions)

IsSettling(w, x, b, leaves, y) ==
  /\ y \in Minibatch /\ worker' = [worker EXCEPT ![w] = y]
  /\ Uncollided(b, x, y) /\ Handled(x, leaves, y) /\ Remains(x, y)
  /\ tree' = BackupAll(b, leaves, HeldByOthers(w) \cup PointedTo(y)).t
  /\ lost' = BackupAll(b, leaves, HeldByOthers(w) \cup PointedTo(y)).lost
  /\ UNCHANGED <<head, root, searching, shared>>

LEMMA BackupAllNone ==
  ASSUME NEW t, NEW held
  PROVE  BackupAll(t, << >>, held).t = t /\ BackupAll(t, << >>, held).lost = lost
<1>1. PICK q : q = << >> OBVIOUS
<1>2. Len(q) = 0 BY <1>1
<1>3. PICK g : BackupAll(t, q, held) = g[Len(q)] /\ g[0] = [t |-> t, lost |-> lost]
  BY <1>2, BackupAllRun
<1> QED BY <1>1, <1>2, <1>3

LEMMA CollidedType ==
  ASSUME NEW x \in Minibatch, NEW m
  PROVE  Collided(x, m) \in Int /\ VisitsIn(x, m) \in Int
<1>1. /\ x.picked \in Seq(Positions) /\ x.ready \in Seq(Positions) /\ x.kept \in Seq(Positions)
      /\ x.met \in [Positions -> Int] /\ x.collisions \in [Positions -> Int]
  BY BatchType
<1>2. CountBelow(x.met, m) \in Int /\ CountBelow(x.collisions, m) \in Int
  BY <1>1, CountsType, CountBelowType
<1>3. VisitsAt(x.picked, m) \in Nat /\ VisitsAt(x.ready, m) \in Nat /\ VisitsAt(x.kept, m) \in Nat
  BY <1>1, ThroughIs
<1> QED BY <1>2, <1>3 DEF Collided, VisitsIn

\* No collision is cancelled, no leaf backed up.
LEMMA NothingSettled ==
  ASSUME tree \in [Positions -> Node], NEW x \in Minibatch, NEW y \in Minibatch,
         \A m \in Positions : Collided(x, m) = Collided(y, m)
  PROVE  Uncollided(tree, x, y)
<1>1. \A m \in Positions : tree[m] = [tree[m] EXCEPT !.flight = tree[m].flight] BY DEF Node
<1>2. FlightOnly(tree, tree) BY <1>1 DEF FlightOnly
<1>3. ASSUME NEW m \in Positions
      PROVE  tree[m].flight = tree[m].flight -
                (IF AtOrBelow(root, m) THEN Collided(x, m) - Collided(y, m) ELSE 0)
  <2>1. PICK a, c, d : a = tree[m].flight /\ c = Collided(x, m) /\ d = Collided(y, m) OBVIOUS
  <2>2. a \in Int /\ c \in Int /\ c = d BY <2>1, NodeType, CollidedType
  <2> QED BY <2>1, <2>2
<1> QED BY <1>2, <1>3 DEF Uncollided

LEMMA NoLeafSettled ==
  ASSUME NEW x \in Minibatch, NEW y \in Minibatch,
         y.picked = x.picked, y.ready = x.ready, y.kept = x.kept
  PROVE  Handled(x, << >>, y)
<1>1. ToSet(<< >>) = {} BY DEF ToSet
<1>2. << >> \in Seq(Positions) OBVIOUS
<1>3. ASSUME NEW m \in Positions PROVE VisitsIn(x, m) = VisitsAt(<< >>, m) + VisitsIn(y, m)
  <2>1. PICK a, b : a = VisitsIn(x, m) /\ b = VisitsAt(<< >>, m) OBVIOUS
  <2>2. a \in Int /\ b = 0 BY <2>1, CollidedType, VisitsNone
  <2>3. VisitsIn(y, m) = a BY <2>1 DEF VisitsIn
  <2> QED BY <2>1, <2>2, <2>3
<1> QED BY <1>1, <1>2, <1>3 DEF Handled, LeavesOf

LEMMA SettleIs ==
  ASSUME TypeOK, NEW w \in Workers, NEW x \in Minibatch, x = worker[w], Settle(w)
  PROVE  \E b, leaves, y : IsSettling(w, x, b, leaves, y)
<1>1. /\ x.at = "process" /\ x.picked = << >>
      /\ worker' = [worker EXCEPT ![w].at = "settle"]
      /\ UNCHANGED <<tree, head, root, searching, shared, lost>>
  BY DEF Settle
<1>2. worker \in [Workers -> Minibatch] /\ tree \in [Positions -> Node] BY DEF TypeOK
<1>3. PICK y : y = [x EXCEPT !.at = "settle"] OBVIOUS
<1>4. /\ y \in Minibatch /\ y.picked = x.picked /\ y.ready = x.ready /\ y.kept = x.kept
      /\ y.met = x.met /\ y.collisions = x.collisions /\ y.at = "settle"
  BY <1>3 DEF Minibatch
<1>5. worker' = [worker EXCEPT ![w] = y] BY <1>1, <1>2, <1>3
<1>6. Uncollided(tree, x, y) BY <1>2, <1>4, NothingSettled DEF Collided
<1>7. Handled(x, << >>, y) BY <1>4, NoLeafSettled
<1>8. Remains(x, y) BY <1>1, <1>4 DEF Remains, Settled, CollisionsOf
<1>9. tree' = BackupAll(tree, << >>, HeldByOthers(w) \cup PointedTo(y)).t
      /\ lost' = BackupAll(tree, << >>, HeldByOthers(w) \cup PointedTo(y)).lost
  BY <1>1, BackupAllNone
<1>10. UNCHANGED <<head, root, searching, shared>> BY <1>1
<1>11. IsSettling(w, x, tree, << >>, y) BY <1>4, <1>5, <1>6, <1>7, <1>8, <1>9, <1>10 DEF IsSettling
<1> QED BY <1>11

\* Collisions at one node, a part of those met.
Only(n, units) == [m \in Positions |-> IF m = n THEN units ELSE 0]

LEMMA CancelCollisionIs ==
  ASSUME TypeOK, NEW w \in Workers, NEW x \in Minibatch, x = worker[w], CancelCollision(w)
  PROVE  \E b, leaves, y : IsSettling(w, x, b, leaves, y)
<1>1. PICK n \in Some(x.met) : \E units \in 1 .. x.met[n] :
        /\ tree' = Cancel(tree, [m \in Positions |-> IF m = n THEN units ELSE 0])
        /\ worker' = [worker EXCEPT ![w].met[n] = worker[w].met[n] - units]
  BY DEF CancelCollision
<1>2. PICK units \in 1 .. x.met[n] :
        /\ tree' = Cancel(tree, Only(n, units))
        /\ worker' = [worker EXCEPT ![w].met[n] = worker[w].met[n] - units]
  BY <1>1 DEF Only
<1>3. x.at = "settle" /\ UNCHANGED <<head, root, searching, shared, lost>> BY DEF CancelCollision
<1>4. worker \in [Workers -> Minibatch] /\ tree \in [Positions -> Node] BY DEF TypeOK
<1>5. x.met \in [Positions -> Int] /\ x.collisions \in [Positions -> Int] BY BatchType
<1>6. n \in Positions /\ x.met[n] \in Int /\ units \in Int /\ units >= 1 /\ units <= x.met[n]
  BY <1>1, <1>2, <1>5 DEF Some
<1>7. PICK c, d : c = Only(n, units) /\ d = [x.met EXCEPT ![n] = x.met[n] - units] OBVIOUS
<1>8. c \in [Positions -> Int] BY <1>6, <1>7 DEF Only
<1>9. d \in [Positions -> Int] /\ \A m \in Positions : d[m] = IF m = n THEN x.met[n] - units ELSE x.met[m]
  <2>1. x.met[n] - units \in Int BY <1>6
  <2> QED BY <1>5, <1>6, <1>7, <2>1
<1>10. PICK y : y = [x EXCEPT !.met = d] OBVIOUS
<1>11. /\ y \in Minibatch /\ y.picked = x.picked /\ y.ready = x.ready /\ y.kept = x.kept
       /\ y.met = d /\ y.collisions = x.collisions /\ y.at = x.at
  BY <1>9, <1>10 DEF Minibatch
<1>12. worker' = [worker EXCEPT ![w] = y]
  <2>1. worker[w] = x /\ x.met = x.met OBVIOUS
  <2>2. [x EXCEPT !.met[n] = x.met[n] - units] = [x EXCEPT !.met = d] BY <1>5, <1>7 DEF Minibatch
  <2> QED BY <1>2, <1>4, <1>10, <2>2
<1>13. x.met = Plus(d, c)
  <2>1. \A m \in Positions : x.met[m] = d[m] + c[m] BY <1>5, <1>6, <1>7, <1>9 DEF Only
  <2> QED BY <1>5, <2>1 DEF Plus
<1>14. PICK b : b = Cancel(tree, c) OBVIOUS
<1>15. /\ FlightOnly(tree, b)
       /\ \A m \in Positions : b[m].flight =
             tree[m].flight + (IF AtOrBelow(root, m) THEN CountBelow(Negated(c), m) ELSE 0)
  BY <1>4, <1>8, <1>14, CancelIs, CountsType
<1>16. ASSUME NEW m \in Positions
       PROVE  b[m].flight = tree[m].flight -
                 (IF AtOrBelow(root, m) THEN Collided(x, m) - Collided(y, m) ELSE 0)
  <2>1. PICK f, g, h, i, j : /\ f = tree[m].flight /\ g = CountBelow(d, m) /\ h = CountBelow(c, m)
                             /\ i = CountBelow(x.collisions, m) /\ j = CountBelow(Negated(c), m)
    OBVIOUS
  <2>2. f \in Int /\ g \in Int /\ h \in Int /\ i \in Int
    BY <1>4, <1>5, <1>8, <1>9, <2>1, NodeType, CountsType, CountBelowType
  <2>3. j = -h BY <1>8, <2>1, CountsType, CountNegated
  <2>4. CountBelow(x.met, m) = g + h BY <1>8, <1>9, <1>13, <2>1, CountPlus
  <2>5. Collided(x, m) = g + h + i /\ Collided(y, m) = g + i BY <1>11, <2>1, <2>4 DEF Collided
  <2>6. b[m].flight = f + (IF AtOrBelow(root, m) THEN j ELSE 0) BY <1>15, <2>1
  <2>7. PICK k, l : k = Collided(x, m) /\ l = Collided(y, m) OBVIOUS
  <2>8. j = -(k - l) BY <2>2, <2>3, <2>5, <2>7
  <2>9. k \in Int /\ l \in Int BY <2>2, <2>5, <2>7
  <2> QED BY <2>1, <2>2, <2>6, <2>7, <2>8, <2>9
<1>17. Uncollided(b, x, y) BY <1>15, <1>16 DEF Uncollided
<1>18. Handled(x, << >>, y) BY <1>11, NoLeafSettled
<1>19. Some(d) \subseteq Some(x.met) BY <1>1, <1>5, <1>9 DEF Some
<1>20. NotNegative(x.met) => NotNegative(d) BY <1>5, <1>6, <1>9 DEF NotNegative
<1>21. Remains(x, y) BY <1>3, <1>11, <1>19, <1>20 DEF Remains, Settled, CollisionsOf
<1>22. tree' = b BY <1>2, <1>7, <1>14
<1>23. IsSettling(w, x, b, << >>, y)
  BY <1>3, <1>11, <1>12, <1>17, <1>18, <1>21, <1>22, BackupAllNone DEF IsSettling
<1> QED BY <1>23

\* The last leaf a value is known of is one.
LEMMA KnownLast ==
  ASSUME NEW x \in Minibatch, Known(x) # {} PROVE Max(Known(x)) \in 1 .. Len(x.ready)
<1>1. x.ready \in Seq(Positions) BY BatchType
<1>2. PICK k : k = Len(x.ready) /\ k \in Nat BY <1>1
<1>3. PICK K : K = Known(x) OBVIOUS
<1>4. K \subseteq 1 .. k /\ K # {} BY <1>1, <1>2, <1>3 DEF Known
<1>5. PICK T : T = {k - i : i \in K} OBVIOUS
<1>6. T \subseteq Nat /\ T # {}
  <2>1. \A l \in K : k - l \in Nat BY <1>2, <1>4
  <2>2. PICK l : l \in K BY <1>4
  <2>3. k - l \in T BY <1>5, <2>2
  <2> QED BY <1>5, <2>1, <2>3
<1>7. PICK j \in T : \A l \in T : j <= l BY <1>6, NatMin
<1>8. PICK i \in K : j = k - i BY <1>5, <1>7
<1>9. ASSUME NEW l \in K PROVE i >= l
  <2>1. k - l \in T BY <1>5
  <2>2. k - i <= k - l BY <1>7, <1>8, <2>1
  <2>3. i \in Int /\ l \in Int /\ k \in Int BY <1>2, <1>4
  <2> QED BY <2>2, <2>3
<1>10. Max(K) \in K BY <1>8, <1>9 DEF Max
<1> QED BY <1>2, <1>3, <1>4, <1>10

LEMMA BackupEarlyIs ==
  ASSUME TypeOK, NEW w \in Workers, NEW x \in Minibatch, x = worker[w], BackupEarly(w)
  PROVE  \E b, leaves, y : IsSettling(w, x, b, leaves, y)
<1>1. PICK i : i = Max(Known(x)) OBVIOUS
<1>2. PICK q, r, k : q = x.ready /\ r = RemoveAt(x.ready, i) /\ k = Len(x.ready) OBVIOUS
<1>3. q \in Seq(Positions) /\ k = Len(q) /\ k \in Nat BY <1>2, BatchType
<1>4. PICK y : y = [x EXCEPT !.ready = r, !.ooo = TRUE] OBVIOUS
<1>5. PICK leaves, held : leaves = <<q[i]>> /\ held = HeldByOthers(w) \cup PointedTo(y) OBVIOUS
<1>6. /\ x.at = "settle" /\ Known(x) # {}
      /\ tree' = BackupAll(tree, leaves, held).t /\ lost' = BackupAll(tree, leaves, held).lost
      /\ worker' = [worker EXCEPT ![w] = y]
      /\ UNCHANGED <<head, root, searching, shared>>
  BY <1>1, <1>2, <1>4, <1>5 DEF BackupEarly
<1>7. i \in 1 .. k BY <1>1, <1>2, <1>6, KnownLast
<1>8. PICK A, B, n : A = SubSeq(q, 1, i - 1) /\ B = SubSeq(q, i + 1, k) /\ n = q[i] OBVIOUS
<1>9. A \in Seq(Positions) /\ B \in Seq(Positions) /\ n \in Positions BY <1>3, <1>7, <1>8
<1>10. r = A \o B BY <1>2, <1>8 DEF RemoveAt
<1>11. q = (A \o <<n>>) \o B
  <2>1. A \o <<n>> = SubSeq(q, 1, i) BY <1>3, <1>7, <1>8
  <2>2. SubSeq(q, 1, i) \o SubSeq(q, i + 1, k) = q BY <1>3, <1>7
  <2> QED BY <1>8, <2>1, <2>2
<1>12. leaves = <<n>> BY <1>5, <1>8
<1>0. leaves \in Seq(Positions) BY <1>9, <1>12
<1>13. PICK An : An = A \o leaves OBVIOUS
<1>14. An \in Seq(Positions) /\ q = An \o B /\ r = A \o B /\ r \in Seq(Positions)
  BY <1>0, <1>9, <1>10, <1>11, <1>12, <1>13
<1>15. ToSet(q) = ToSet(A) \cup ToSet(leaves) \cup ToSet(B) /\ ToSet(r) = ToSet(A) \cup ToSet(B)
  <2>1. ToSet(An) = ToSet(A) \cup ToSet(leaves) BY <1>0, <1>9, <1>13, SetOfBoth
  <2>2. ToSet(q) = ToSet(An) \cup ToSet(B) BY <1>9, <1>14, SetOfBoth
  <2>3. ToSet(r) = ToSet(A) \cup ToSet(B) BY <1>9, <1>14, SetOfBoth
  <2> QED BY <2>1, <2>2, <2>3
<1>16. /\ y \in Minibatch /\ y.picked = x.picked /\ y.ready = r /\ y.kept = x.kept
       /\ y.met = x.met /\ y.collisions = x.collisions /\ y.at = x.at
  BY <1>4, <1>14 DEF Minibatch
<1>17. ASSUME NEW m \in Positions PROVE VisitsIn(x, m) = VisitsAt(leaves, m) + VisitsIn(y, m)
  <2>1. PICK a, b, c, d, e : /\ a = VisitsAt(A, m) /\ b = VisitsAt(B, m) /\ c = VisitsAt(leaves, m)
                             /\ d = VisitsAt(x.picked, m) /\ e = VisitsAt(x.kept, m)
    OBVIOUS
  <2>2. x.picked \in Seq(Positions) /\ x.kept \in Seq(Positions) BY BatchType
  <2>3. a \in Nat /\ b \in Nat /\ c \in Nat /\ d \in Nat /\ e \in Nat
    BY <1>0, <1>9, <2>1, <2>2, ThroughIs
  <2>4. VisitsAt(An, m) = a + c BY <1>0, <1>9, <1>13, <2>1, VisitsBoth
  <2>5. VisitsAt(q, m) = VisitsAt(An, m) + b BY <1>9, <1>14, <2>1, VisitsBoth
  <2>6. VisitsAt(r, m) = a + b BY <1>9, <1>14, <2>1, VisitsBoth
  <2>7. VisitsIn(x, m) = d + (a + c + b) + e BY <1>2, <2>1, <2>4, <2>5 DEF VisitsIn
  <2>8. VisitsIn(y, m) = d + (a + b) + e BY <1>16, <2>1, <2>6 DEF VisitsIn
  <2> QED BY <2>1, <2>3, <2>7, <2>8
<1>18. Handled(x, leaves, y) BY <1>0, <1>2, <1>15, <1>16, <1>17 DEF Handled, LeavesOf
<1>19. tree \in [Positions -> Node] BY DEF TypeOK
<1>20. Uncollided(tree, x, y) BY <1>16, <1>19, NothingSettled DEF Collided
<1>21. Remains(x, y) BY <1>6, <1>16 DEF Remains, Settled, CollisionsOf
<1>22. IsSettling(w, x, tree, leaves, y)
  BY <1>5, <1>6, <1>16, <1>18, <1>20, <1>21 DEF IsSettling
<1> QED BY <1>22

LEMMA KeepIs ==
  ASSUME TypeOK, NEW w \in Workers, NEW x \in Minibatch, x = worker[w], Keep(w)
  PROVE  \E b, leaves, y : IsSettling(w, x, b, leaves, y)
<1>1. PICK ks, cs, e, z : /\ ks = x.kept \o x.ready /\ cs = Plus(x.collisions, x.met)
                          /\ e = NoCollisions /\ z = << >>
  OBVIOUS
<1>2. /\ x.at \in {"process", "settle"} /\ (x.at = "process" => x.picked = << >>)
      /\ \E y \in Further([x EXCEPT !.ready = z, !.kept = ks, !.met = e, !.collisions = cs]) :
           worker' = [worker EXCEPT ![w] = y]
      /\ UNCHANGED <<tree, head, root, searching, shared, lost>>
  BY <1>1 DEF Keep
<1>3. PICK y : /\ worker' = [worker EXCEPT ![w] = y]
               /\ y \in Further([x EXCEPT !.ready = z, !.kept = ks, !.met = e, !.collisions = cs])
  BY <1>2
<1>4. PICK p \in {"gather", "collect"} :
        y = [[x EXCEPT !.ready = z, !.kept = ks, !.met = e, !.collisions = cs] EXCEPT !.at = p]
  BY <1>3 DEF Further
<1>5. /\ x.picked \in Seq(Positions) /\ x.ready \in Seq(Positions) /\ x.kept \in Seq(Positions)
      /\ x.met \in [Positions -> Int] /\ x.collisions \in [Positions -> Int]
  BY BatchType
<1>6. /\ ks \in Seq(Positions) /\ ToSet(ks) = ToSet(x.kept) \cup ToSet(x.ready)
      /\ z \in Seq(Positions) /\ ToSet(z) = {}
  <2>1. ks \in Seq(Positions) /\ ToSet(ks) = ToSet(x.kept) \cup ToSet(x.ready)
    BY <1>1, <1>5, SetOfBoth
  <2>2. z \in Seq(Positions) /\ ToSet(z) = {} BY <1>1 DEF ToSet
  <2> QED BY <2>1, <2>2
<1>7. cs \in [Positions -> Int] /\ Some(cs) \subseteq Some(x.collisions) \cup Some(x.met)
  BY <1>1, <1>5, PlusType, PlusSome
<1>8. e \in [Positions -> Int] /\ Some(e) = {} BY <1>1 DEF NoCollisions, Some
<1>9. /\ y \in Minibatch /\ y.picked = x.picked /\ y.ready = z /\ y.kept = ks
      /\ y.met = e /\ y.collisions = cs /\ y.at = p
  <2>1. PICK v : v = [x EXCEPT !.ready = z, !.kept = ks, !.met = e, !.collisions = cs] OBVIOUS
  <2>2. /\ v \in Minibatch /\ v.picked = x.picked /\ v.ready = z /\ v.kept = ks
        /\ v.met = e /\ v.collisions = cs
    BY <1>6, <1>7, <1>8, <2>1 DEF Minibatch
  <2>3. y = [v EXCEPT !.at = p] BY <1>4, <2>1
  <2>4. p \in {"gather", "process", "settle", "collect", "backup"} OBVIOUS
  <2> QED BY <2>2, <2>3, <2>4 DEF Minibatch
<1>10. ASSUME NEW m \in Positions PROVE Collided(x, m) = Collided(y, m)
  <2>1. PICK a, b : a = CountBelow(x.met, m) /\ b = CountBelow(x.collisions, m) OBVIOUS
  <2>2. a \in Int /\ b \in Int BY <1>5, <2>1, CountsType, CountBelowType
  <2>3. CountBelow(cs, m) = b + a BY <1>1, <1>5, <2>1, CountPlus
  <2>4. CountBelow(e, m) = 0 BY <1>1, CountNone
  <2>5. Collided(y, m) = 0 + (b + a) BY <1>9, <2>3, <2>4 DEF Collided
  <2> QED BY <2>1, <2>2, <2>5 DEF Collided
<1>11. tree \in [Positions -> Node] BY DEF TypeOK
<1>12. Uncollided(tree, x, y) BY <1>9, <1>10, <1>11, NothingSettled
<1>13. ASSUME NEW m \in Positions PROVE VisitsIn(x, m) = VisitsAt(z, m) + VisitsIn(y, m)
  <2>1. PICK a, b, c : /\ a = VisitsAt(x.picked, m) /\ b = VisitsAt(x.ready, m)
                       /\ c = VisitsAt(x.kept, m)
    OBVIOUS
  <2>2. a \in Nat /\ b \in Nat /\ c \in Nat BY <1>5, <2>1, ThroughIs
  <2>3. VisitsAt(ks, m) = c + b BY <1>1, <1>5, <2>1, VisitsBoth
  <2>4. VisitsAt(z, m) = 0 BY <1>1, VisitsNone
  <2>5. VisitsIn(y, m) = a + 0 + (c + b) BY <1>9, <2>1, <2>3, <2>4 DEF VisitsIn
  <2>6. VisitsIn(x, m) = a + b + c BY <2>1 DEF VisitsIn
  <2> QED BY <2>2, <2>4, <2>5, <2>6
<1>14. Handled(x, z, y) BY <1>6, <1>9, <1>13 DEF Handled, LeavesOf
<1>15. Settled(x) => Settled(y)
  <2>1. ASSUME Settled(x) PROVE x.picked = << >> BY <1>2, <2>1 DEF Settled
  <2>2. p # "backup" OBVIOUS
  <2> QED BY <1>1, <1>9, <2>1, <2>2 DEF Settled
<1>16. ASSUME NotNegative(x.met), NotNegative(x.collisions) PROVE NotNegative(e) /\ NotNegative(cs)
  BY <1>1, <1>5, <1>16 DEF NotNegative, NoCollisions, Plus
<1>17. Remains(x, y)
  <2>1. CollisionsOf(y) \subseteq CollisionsOf(x) BY <1>7, <1>8, <1>9 DEF CollisionsOf
  <2> QED BY <1>9, <1>15, <1>16, <2>1 DEF Remains
<1>18. tree' = BackupAll(tree, z, HeldByOthers(w) \cup PointedTo(y)).t
       /\ lost' = BackupAll(tree, z, HeldByOthers(w) \cup PointedTo(y)).lost
  BY <1>1, <1>2, BackupAllNone
<1>19. IsSettling(w, x, tree, z, y)
  BY <1>2, <1>3, <1>9, <1>12, <1>14, <1>17, <1>18 DEF IsSettling
<1> QED BY <1>19

LEMMA SettlingIs ==
  ASSUME BoundsInv, NEW w \in Workers, NEW x, x = worker[w], Settling(w)
  PROVE  /\ x \in Minibatch /\ searching /\ root = head
         /\ \E b, leaves, y : IsSettling(w, x, b, leaves, y)
<1>1. TypeOK /\ Phases BY DEF BoundsInv
<1>2. x \in Minibatch BY <1>1 DEF TypeOK
<1>3. x.at # "gather" BY DEF Settling, Settle, CancelCollision, BackupEarly, Keep
<1>4. searching /\ root = head BY <1>1, <1>3, Working
<1>5. \E b, leaves, y : IsSettling(w, x, b, leaves, y)
  BY <1>1, <1>2, SettleIs, CancelCollisionIs, BackupEarlyIs, KeepIs DEF Settling
<1> QED BY <1>2, <1>4, <1>5

\* What is backed up is above ground.
LEMMA SettlingRises ==
  ASSUME BoundsInv, root = head, NEW w \in Workers, NEW x \in Minibatch, x = worker[w],
         NEW b, NEW leaves, NEW y, IsSettling(w, x, b, leaves, y)
  PROVE  /\ b \in [Positions -> Node] /\ AllSound(b, root) /\ HeadLinked(b, root)
         /\ leaves \in Seq(Positions) /\ \A i \in 1 .. Len(leaves) : Rising(b, leaves[i])
         /\ \A z \in Minibatch : BatchSound(tree, z) => BatchSound(b, z)
         /\ \A m \in Positions : b[m].n = tree[m].n /\ b[m].edges = tree[m].edges
                                 /\ b[m].term = tree[m].term
<1>1. TypeOK BY DEF BoundsInv
<1>2. tree \in [Positions -> Node] /\ root \in Positions BY <1>1 DEF TypeOK
<1>3. AllSound(tree, root) /\ HeadLinked(tree, root) /\ BatchSound(tree, x) BY DEF BoundsInv
<1>4. /\ FlightOnly(tree, b) /\ leaves \in Seq(Positions)
      /\ ToSet(leaves) \subseteq ToSet(x.ready) \cup ToSet(x.kept)
  BY DEF IsSettling, Uncollided, Handled
<1>5. /\ b \in [Positions -> Node] /\ AllSound(b, root) /\ HeadLinked(b, root)
      /\ \A z \in Minibatch : BatchSound(tree, z) => BatchSound(b, z)
      /\ \A n \in Positions : Rising(tree, n) => Rising(b, n)
      /\ \A m \in Positions : b[m].n = tree[m].n /\ b[m].edges = tree[m].edges
                              /\ b[m].term = tree[m].term
  BY <1>2, <1>3, <1>4, FlightSound
<1>6. ASSUME NEW i \in 1 .. Len(leaves) PROVE Rising(b, leaves[i])
  <2>1. PICK n : n = leaves[i] OBVIOUS
  <2>2. n \in Positions /\ n \in ToSet(leaves) BY <1>4, <2>1 DEF ToSet
  <2>3. n \in ToSet(x.ready) \cup ToSet(x.kept) BY <1>4, <2>2
  <2>4. Reached(tree, n) /\ Extended(tree[n]) BY <1>3, <2>3 DEF BatchSound, LeavesOf
  <2>5. Rising(tree, n) BY <1>2, <2>2, <2>4, ReachedRising
  <2> QED BY <1>5, <2>1, <2>2, <2>5
<1> QED BY <1>4, <1>5, <1>6

LEMMA SettlingBounds ==
  ASSUME BoundsInv, NEW w \in Workers, Settling(w) PROVE BoundsInv'
<1>1. PICK x : x = worker[w] OBVIOUS
<1>2. /\ x \in Minibatch /\ searching /\ root = head
      /\ \E b, leaves, y : IsSettling(w, x, b, leaves, y)
  BY <1>1, SettlingIs
<1>3. PICK b, leaves, y : IsSettling(w, x, b, leaves, y) BY <1>2
<1>4. /\ b \in [Positions -> Node] /\ AllSound(b, root) /\ HeadLinked(b, root)
      /\ leaves \in Seq(Positions) /\ \A i \in 1 .. Len(leaves) : Rising(b, leaves[i])
      /\ \A z \in Minibatch : BatchSound(tree, z) => BatchSound(b, z)
  BY <1>1, <1>2, <1>3, SettlingRises
<1>5. PICK held, u : held = HeldByOthers(w) \cup PointedTo(y) /\ u = BackupAll(b, leaves, held).t
  OBVIOUS
<1>6. root \in Positions /\ shared \in [Positions -> Int] BY DEF BoundsInv, TypeOK
<1>7. /\ u \in [Positions -> Node] /\ AllSound(u, root) /\ HeadLinked(u, root)
      /\ \A z \in Minibatch : BatchSound(b, z) => BatchSound(u, z)
  <2>1. u = BackupAll(b, leaves, held).t BY <1>5
  <2> QED BY <1>4, <1>6, <2>1, BackupBounds
<1>8. /\ y \in Minibatch /\ worker' = [worker EXCEPT ![w] = y] /\ tree' = u
      /\ LeavesOf(y) \subseteq LeavesOf(x)
      /\ ToSet(y.ready) \cup ToSet(y.kept) \subseteq ToSet(x.ready) \cup ToSet(x.kept)
      /\ UNCHANGED <<head, root, searching, shared>>
  BY <1>3, <1>5 DEF IsSettling, Handled
<1>9. BatchSound(tree, y)
  <2>1. BatchSound(tree, x) BY <1>1 DEF BoundsInv
  <2> QED BY <1>8, <2>1, FewerLeaves
<1>10. \A z \in Minibatch : BatchSound(tree, z) => BatchSound(u, z) BY <1>4, <1>7
<1>11. shared' \in [Positions -> Int] BY <1>6, <1>8
<1> QED BY <1>2, <1>7, <1>8, <1>9, <1>10, <1>11, ThreadStep

LEMMA UpsizeBounds == ASSUME BoundsInv, NEW w \in Workers, Upsize(w) PROVE BoundsInv'
<1>1. TypeOK /\ Phases BY DEF BoundsInv
<1>2. PICK x : x = worker[w] OBVIOUS
<1>3. PICK extra \in [Some(worker[w].met) -> 0 .. 1] :
        /\ tree' = AddInFlight(tree, extra)
        /\ \E y \in Further([worker[w] EXCEPT !.met = NoCollisions,
                !.collisions = [n \in Positions |-> worker[w].collisions[n] + worker[w].met[n] +
                                   (IF n \in DOMAIN extra THEN extra[n] ELSE 0)]]) :
             worker' = [worker EXCEPT ![w] = y]
  BY DEF Upsize
<1>4. x.at = "process" /\ UNCHANGED <<head, root, searching, shared>> BY <1>2 DEF Upsize
<1>5. searching /\ root = head BY <1>1, <1>2, <1>4, Working
<1>6. /\ tree \in [Positions -> Node] /\ root \in Positions /\ x \in Minibatch
      /\ worker \in [Workers -> Minibatch] /\ shared \in [Positions -> Int]
  BY <1>1, <1>2 DEF TypeOK
<1>7. AllSound(tree, root) /\ HeadLinked(tree, root) /\ BatchSound(tree, x)
  BY <1>2, <1>5 DEF BoundsInv
<1>8. x.met \in [Positions -> Int] /\ x.collisions \in [Positions -> Int] BY <1>6, BatchType
<1>9. \A n \in DOMAIN extra : extra[n] \in Int /\ n \in Positions
  BY <1>2, <1>8 DEF Some
<1>10. Counts(extra) BY <1>9 DEF Counts
<1>11. PICK t : t = AddInFlight(tree, extra) OBVIOUS
<1>12. FlightOnly(tree, t) BY <1>6, <1>10, <1>11, AddInFlightIs
<1>13. /\ t \in [Positions -> Node] /\ AllSound(t, root) /\ HeadLinked(t, root)
       /\ \A b \in Minibatch : BatchSound(tree, b) => BatchSound(t, b)
  BY <1>6, <1>7, <1>12, FlightSound
<1>14. PICK c : c = [n \in Positions |-> x.collisions[n] + x.met[n] +
                                   (IF n \in DOMAIN extra THEN extra[n] ELSE 0)]
  OBVIOUS
<1>15. c \in [Positions -> Int]
  <2>1. ASSUME NEW n \in Positions PROVE c[n] \in Int
    <3>1. PICK e : e = IF n \in DOMAIN extra THEN extra[n] ELSE 0 OBVIOUS
    <3>2. e \in Int BY <1>9, <3>1
    <3>3. x.collisions[n] \in Int /\ x.met[n] \in Int BY <1>8
    <3>4. c[n] = x.collisions[n] + x.met[n] + e BY <1>14, <3>1
    <3> QED BY <3>2, <3>3, <3>4
  <2> QED BY <1>14, <2>1
<1>16. PICK m : m = NoCollisions OBVIOUS
<1>17. m \in [Positions -> Int] BY <1>16 DEF NoCollisions
<1>18. PICK y : /\ worker' = [worker EXCEPT ![w] = y]
                /\ y \in Further([x EXCEPT !.met = m, !.collisions = c])
  BY <1>2, <1>3, <1>14, <1>16
<1>19. PICK p \in {"gather", "collect"} : y = [[x EXCEPT !.met = m, !.collisions = c] EXCEPT !.at = p]
  BY <1>18 DEF Further
<1>20. p \in {"gather", "process", "settle", "collect", "backup"} OBVIOUS
<1>21. y \in Minibatch /\ y.picked = x.picked /\ y.ready = x.ready /\ y.kept = x.kept
  <2>1. PICK z : z = [x EXCEPT !.met = m, !.collisions = c] OBVIOUS
  <2>2. z \in Minibatch /\ z.picked = x.picked /\ z.ready = x.ready /\ z.kept = x.kept
    BY <1>6, <1>15, <1>17, <2>1 DEF Minibatch
  <2>3. y = [z EXCEPT !.at = p] BY <1>19, <2>1
  <2> QED BY <1>20, <2>2, <2>3 DEF Minibatch
<1>22. BatchSound(t, y)
  <2>1. BatchSound(t, x) BY <1>6, <1>7, <1>13
  <2> QED BY <1>21, <2>1 DEF BatchSound, LeavesOf
<1>23. shared' \in [Positions -> Int] /\ UNCHANGED <<head, root, searching>> BY <1>4, <1>6
<1> QED BY <1>3, <1>5, <1>11, <1>13, <1>18, <1>21, <1>22, <1>23, ThreadStep

LEMMA CollectBounds ==
  ASSUME BoundsInv, NEW w \in Workers, CollectCollisions(w) PROVE BoundsInv'
<1>1. TypeOK /\ Phases BY DEF BoundsInv
<1>2. PICK x, m : x = worker[w] /\ m = NoCollisions OBVIOUS
<1>3. /\ x.at = "collect" /\ shared' = Plus(shared, x.collisions)
      /\ worker' = [worker EXCEPT ![w].at = "backup", ![w].collisions = m]
      /\ UNCHANGED <<tree, head, root, searching>>
  BY <1>2 DEF CollectCollisions
<1>4. searching /\ root = head BY <1>1, <1>2, <1>3, Working
<1>5. /\ tree \in [Positions -> Node] /\ root \in Positions /\ x \in Minibatch
      /\ worker \in [Workers -> Minibatch] /\ shared \in [Positions -> Int]
  BY <1>1, <1>2 DEF TypeOK
<1>6. AllSound(tree, root) /\ HeadLinked(tree, root) /\ BatchSound(tree, x)
  BY <1>2, <1>4 DEF BoundsInv
<1>7. x.collisions \in [Positions -> Int] BY <1>5, BatchType
<1>8. shared' \in [Positions -> Int] BY <1>3, <1>5, <1>7, PlusType
<1>9. m \in [Positions -> Int] BY <1>2 DEF NoCollisions
<1>10. PICK y : y = [x EXCEPT !.at = "backup", !.collisions = m] OBVIOUS
<1>11. /\ y \in Minibatch /\ y.picked = x.picked /\ y.ready = x.ready /\ y.kept = x.kept
  BY <1>5, <1>9, <1>10 DEF Minibatch
<1>12. worker' = [worker EXCEPT ![w] = y] BY <1>2, <1>3, <1>5, <1>10
<1>13. BatchSound(tree, y) BY <1>6, <1>11 DEF BatchSound, LeavesOf
<1>14. tree' = tree /\ UNCHANGED <<head, root, searching>> BY <1>3
<1> QED BY <1>4, <1>5, <1>6, <1>8, <1>11, <1>12, <1>13, <1>14, ThreadStep

LEMMA DoBackupBounds ==
  ASSUME BoundsInv, NEW w \in Workers, DoBackupUpdate(w) PROVE BoundsInv'
<1>1. TypeOK /\ Phases BY DEF BoundsInv
<1>2. PICK x : x = worker[w] OBVIOUS
<1>3. PICK u, done : u = BackupAll(tree, x.kept, HeldByOthers(w)).t
                     /\ done = (x.ooo \/ x.kept # << >>)
  OBVIOUS
<1>4. PICK t : t = IF done THEN Cancel(u, shared) ELSE u OBVIOUS
<1>5. PICK y : y = Idle OBVIOUS
<1>6. /\ x.at = "backup" /\ tree' = t
      /\ shared' = IF done THEN NoCollisions ELSE shared
      /\ worker' = [worker EXCEPT ![w] = y]
      /\ UNCHANGED <<head, root, searching>>
  BY <1>2, <1>3, <1>4, <1>5 DEF DoBackupUpdate
<1>7. searching /\ root = head BY <1>1, <1>2, <1>6, Working
<1>8. /\ tree \in [Positions -> Node] /\ root \in Positions /\ x \in Minibatch
      /\ worker \in [Workers -> Minibatch] /\ shared \in [Positions -> Int]
  BY <1>1, <1>2 DEF TypeOK
<1>9. AllSound(tree, root) /\ HeadLinked(tree, root) /\ BatchSound(tree, x)
  BY <1>2, <1>7 DEF BoundsInv
<1>10. PICK leaves : leaves = x.kept OBVIOUS
<1>11. leaves \in Seq(Positions) BY <1>8, <1>10, BatchType
<1>12. ASSUME NEW i \in 1 .. Len(leaves) PROVE Rising(tree, leaves[i])
  <2>1. PICK n : n = leaves[i] OBVIOUS
  <2>2. n \in Positions /\ n \in ToSet(x.kept) BY <1>10, <1>11, <2>1 DEF ToSet
  <2>3. Reached(tree, n) /\ Extended(tree[n]) BY <1>9, <2>2 DEF BatchSound, LeavesOf
  <2> QED BY <1>8, <2>1, <2>2, <2>3, ReachedRising
<1>13. /\ u \in [Positions -> Node] /\ AllSound(u, root) /\ HeadLinked(u, root)
       /\ \A b \in Minibatch : BatchSound(tree, b) => BatchSound(u, b)
  <2>1. u = BackupAll(tree, leaves, HeldByOthers(w)).t BY <1>3, <1>10
  <2> QED BY <1>8, <1>9, <1>11, <1>12, <2>1, BackupBounds
<1>14. /\ t \in [Positions -> Node] /\ AllSound(t, root) /\ HeadLinked(t, root)
       /\ \A b \in Minibatch : BatchSound(tree, b) => BatchSound(t, b)
  <2>1. CASE ~done BY <1>4, <1>13, <2>1
  <2>2. CASE done
    <3>1. t = Cancel(u, shared) /\ Counts(shared) BY <1>4, <1>8, <2>2 DEF Counts
    <3>2. FlightOnly(u, t) BY <1>13, <3>1, CancelIs
    <3> QED BY <1>8, <1>13, <3>2, FlightSound
  <2> QED BY <2>1, <2>2
<1>15. y \in Minibatch /\ BatchSound(t, y)
  <2>1. LeavesOf(y) = {} /\ ToSet(y.ready) \cup ToSet(y.kept) \subseteq LeavesOf(y)
    BY <1>5, IdleType DEF LeavesOf
  <2>2. y \in Minibatch BY <1>5, IdleType
  <2> QED BY <2>1, <2>2 DEF BatchSound
<1>16. shared' \in [Positions -> Int]
  <2>1. NoCollisions \in [Positions -> Int] BY DEF NoCollisions
  <2> QED BY <1>6, <1>8, <2>1
<1>17. UNCHANGED <<head, root, searching>> BY <1>6
<1> QED BY <1>6, <1>7, <1>14, <1>15, <1>16, <1>17, ThreadStep

\* Without a search no thread has a minibatch.
LEMMA StoppedBatch == ASSUME Stopped, NEW w \in Workers, NEW t PROVE BatchSound(t, worker[w])
<1>1. worker[w] = Idle BY DEF Stopped
<1>2. LeavesOf(worker[w]) = {} BY <1>1, IdleType
<1>3. ToSet(worker[w].ready) \cup ToSet(worker[w].kept) \subseteq LeavesOf(worker[w]) BY DEF LeavesOf
<1> QED BY <1>2, <1>3 DEF BatchSound

LEMMA SetPositionBounds == ASSUME BoundsInv, SetPosition PROVE BoundsInv'
<1>1. TypeOK /\ Stopped /\ AllSound(tree, head) BY DEF BoundsInv, SetPosition
<1>2. PICK n \in Lines : tree' = ResetToPosition(tree, head, n) /\ head' = n BY DEF SetPosition
<1>3. searching' = FALSE /\ UNCHANGED <<root, worker, shared>> BY DEF SetPosition
<1>4. n \in Positions /\ head \in Positions /\ tree \in [Positions -> Node]
  BY <1>1, SearchAssumption DEF TypeOK
<1>5. tree' \in [Positions -> Node] /\ HeadLinked(tree', n) /\ AllSound(tree', n)
  BY <1>1, <1>2, <1>4, ResetIs
<1>6. TypeOK' BY <1>1, <1>2, <1>3, <1>4, <1>5 DEF TypeOK
<1>7. Phases' BY <1>1, <1>3 DEF Phases, Stopped
<1>8. \A w \in Workers : BatchSound(tree', worker'[w]) BY <1>1, <1>3, StoppedBatch
<1> QED BY <1>2, <1>3, <1>5, <1>6, <1>7, <1>8, BoundsNext

LEMMA GoBounds == ASSUME BoundsInv, Go PROVE BoundsInv'
<1>1. TypeOK /\ Stopped /\ AllSound(tree, head) /\ HeadLinked(tree, head)
  BY DEF BoundsInv, Go, Phases
<1>2. PICK clear \in BOOLEAN : tree' = Cancel(IF clear THEN Trim(tree, head) ELSE tree, shared)
  BY DEF Go
<1>3. root' = head /\ searching' = TRUE /\ shared' = NoCollisions /\ UNCHANGED <<head, worker>>
  BY DEF Go
<1>4. head \in Positions /\ tree \in [Positions -> Node] /\ shared \in [Positions -> Int]
  BY <1>1 DEF TypeOK
<1>5. PICK t, u : t = (IF clear THEN Trim(tree, head) ELSE tree) /\ u = Cancel(t, shared) OBVIOUS
<1>6. t \in [Positions -> Node] /\ AllSound(t, head) /\ HeadLinked(t, head)
  <2>1. CASE clear
    <3>1. t = Trim(tree, head) BY <1>5, <2>1
    <3> QED BY <1>1, <1>4, <3>1, TrimIs
  <2>2. CASE ~clear
    <3>1. t = tree BY <1>5, <2>2
    <3> QED BY <1>1, <1>4, <3>1
  <2> QED BY <2>1, <2>2
<1>7. FlightOnly(t, u)
  <2>1. Counts(shared) BY <1>4 DEF Counts
  <2> QED BY <1>5, <1>6, <2>1, CancelIs
<1>8. tree' = u BY <1>2, <1>5
<1>9. u \in [Positions -> Node] /\ AllSound(u, head) /\ HeadLinked(u, head)
  BY <1>4, <1>6, <1>7, FlightSound
<1>10. NoCollisions \in [Positions -> Int] BY DEF NoCollisions
<1>11. TypeOK' BY <1>1, <1>3, <1>4, <1>8, <1>9, <1>10 DEF TypeOK
<1>12. Phases' BY <1>3 DEF Phases
<1>13. HeadLinked(tree, head)' /\ AllSound(tree, head)'
  <2>1. AllSound(tree', head') /\ HeadLinked(tree', head') BY <1>3, <1>8, <1>9
  <2> QED BY <2>1 DEF HeadLinked, AllSound
<1>14. ASSUME NEW w \in Workers PROVE BatchSound(tree, worker[w])'
  <2>1. worker'[w] = Idle BY <1>1, <1>3 DEF Stopped
  <2>2. LeavesOf(worker'[w]) = {} BY <2>1, IdleType
  <2>3. LeavesOf(worker[w])' = {} BY <2>2 DEF LeavesOf
  <2>4. ToSet(worker'[w].ready) \cup ToSet(worker'[w].kept) \subseteq LeavesOf(worker'[w]) BY DEF LeavesOf
  <2> QED BY <2>2, <2>3, <2>4 DEF BatchSound
<1> QED BY <1>11, <1>12, <1>13, <1>14 DEF BoundsInv

LEMMA BoundsInit == Init => BoundsInv
<1> SUFFICES ASSUME Init PROVE BoundsInv OBVIOUS
<1>1. /\ head = << >> /\ root = << >> /\ searching = FALSE /\ shared = NoCollisions
      /\ worker = [w \in Workers |-> Idle]
  BY DEF Init
<1>2. PICK o \in Openings : tree = Opened(o) BY DEF Init
<1>3. tree \in [Positions -> Node] /\ AllSound(tree, root) BY <1>1, <1>2, OpenedIs
<1>4. << >> \in Positions /\ NoCollisions \in [Positions -> Int]
  BY GameAssumption DEF NoCollisions
<1>5. TypeOK BY <1>1, <1>3, <1>4, IdleType DEF TypeOK
<1>6. Stopped BY <1>1 DEF Stopped
<1>7. Phases BY <1>1, <1>6 DEF Phases
<1>8. HeadLinked(tree, head) BY <1>1 DEF HeadLinked
<1>9. \A w \in Workers : BatchSound(tree, worker[w]) BY <1>6, StoppedBatch
<1> QED BY <1>1, <1>3, <1>5, <1>7, <1>8, <1>9 DEF BoundsInv

LEMMA BoundsStep == BoundsInv /\ [Next]_vars => BoundsInv'
<1> SUFFICES ASSUME BoundsInv, [Next]_vars PROVE BoundsInv' OBVIOUS
<1>1. ASSUME NEW w \in Workers, Pick(w) PROVE BoundsInv' BY <1>1, PickBounds
<1>2. ASSUME NEW w \in Workers, Extend(w) PROVE BoundsInv' BY <1>2, ExtendBounds
<1>3. ASSUME NEW w \in Workers, Settling(w) PROVE BoundsInv' BY <1>3, SettlingBounds
<1>4. ASSUME NEW w \in Workers, Upsize(w) PROVE BoundsInv' BY <1>4, UpsizeBounds
<1>5. ASSUME NEW w \in Workers, CollectCollisions(w) PROVE BoundsInv' BY <1>5, CollectBounds
<1>6. ASSUME NEW w \in Workers, DoBackupUpdate(w) PROVE BoundsInv' BY <1>6, DoBackupBounds
<1>7. ASSUME SetPosition PROVE BoundsInv' BY <1>7, SetPositionBounds
<1>8. ASSUME Go PROVE BoundsInv' BY <1>8, GoBounds
<1>9. ASSUME UNCHANGED vars PROVE BoundsInv'
  BY <1>9 DEF vars, BoundsInv, TypeOK, Phases, Stopped, HeadLinked, AllSound, BatchSound, Reached,
              Depth, LeavesOf
<1> QED BY <1>1, <1>2, <1>3, <1>4, <1>5, <1>6, <1>7, <1>8, <1>9 DEF Next, Settling

\* The bounds of the nodes, the phases of the threads and the leaves they hold, in every
\* reachable state.
THEOREM TreeBoundsInvariant == Spec => []BoundsInv
<1> QED BY BoundsInit, BoundsStep, PTL DEF Spec

\* What MaybeSetBounds claims of a node is true of its position, and a node that is decided
\* is worth it in all its visits, in every game and whatever has been visited
\* (search.cc:2285-2355).
THEOREM BoundsTrue == Spec => []BoundsSound
<1>1. BoundsInv => BoundsSound
  <2> SUFFICES ASSUME BoundsInv PROVE BoundsSound OBVIOUS
  <2>1. TypeOK /\ AllSound(tree, head) BY DEF BoundsInv
  <2>2. ASSUME NEW n \in Positions, AtOrBelow(head, n)
        PROVE  /\ tree[n].low <= GameValue[n] /\ GameValue[n] <= tree[n].up
               /\ tree[n].term \in {"EndOfGame", "Tablebase"} =>
                     tree[n].w = tree[n].n * Win * GameValue[n]
    <3>1. PICK x, g, k : x = tree[n] /\ g = GameValue[n] /\ k = Win OBVIOUS
    <3>2. x \in Node BY <2>1, <3>1 DEF TypeOK
    <3>3. /\ x.low <= g /\ g <= x.up
          /\ x.term \in {"EndOfGame", "Tablebase"} => x.low = x.up /\ x.w = x.n * (k * x.low)
      BY <2>1, <2>2, <3>1 DEF AllSound, Sound
    <3>4. ASSUME x.term \in {"EndOfGame", "Tablebase"} PROVE x.w = x.n * k * g
      <4>1. PICK l, p : l = x.low /\ p = x.n OBVIOUS
      <4>2. l \in -1 .. 1 /\ p \in Int /\ k \in Int BY <3>1, <3>2, <4>1, NodeType, SearchAssumption
      <4>3. g \in -1 .. 1 BY <3>1, GameValueType
      <4>4. g = l BY <3>3, <3>4, <4>1, <4>2, <4>3
      <4>5. x.w = p * (k * l) BY <3>3, <3>4, <4>1
      <4>6. p * (k * l) = p * k * l BY <4>2
      <4> QED BY <4>1, <4>4, <4>5, <4>6
    <3> QED BY <3>1, <3>3, <3>4
  <2> QED BY <2>2 DEF BoundsSound
<1> QED BY <1>1, TreeBoundsInvariant, PTL

LEMMA InFlightOfType ==
  ASSUME NEW x \in Minibatch, NEW n PROVE InFlightOf(x, n) \in Int
<1>1. /\ x.picked \in Seq(Positions) /\ x.ready \in Seq(Positions) /\ x.kept \in Seq(Positions)
      /\ x.met \in [Positions -> Int] /\ x.collisions \in [Positions -> Int]
  BY BatchType
<1>2. VisitsAt(x.picked, n) \in Nat /\ VisitsAt(x.ready, n) \in Nat /\ VisitsAt(x.kept, n) \in Nat
  BY <1>1, ThroughIs
<1>3. CountBelow(x.met, n) \in Int /\ CountBelow(x.collisions, n) \in Int
  BY <1>1, CountsType, CountBelowType
<1> QED BY <1>2, <1>3 DEF InFlightOf

LEMMA InFlightParts ==
  ASSUME NEW x \in Minibatch, NEW n PROVE InFlightOf(x, n) = VisitsIn(x, n) + Collided(x, n)
<1>1. PICK a, b : a = CountBelow(x.met, n) /\ b = CountBelow(x.collisions, n) OBVIOUS
<1>2. a \in Int /\ b \in Int BY <1>1, BatchType, CountsType, CountBelowType
<1>3. PICK v : v = VisitsIn(x, n) OBVIOUS
<1>4. v \in Int BY <1>3, CollidedType
<1>5. InFlightOf(x, n) = v + a + b BY <1>1, <1>3 DEF InFlightOf, VisitsIn
<1>6. Collided(x, n) = a + b BY <1>1 DEF Collided
<1> QED BY <1>2, <1>3, <1>4, <1>5, <1>6

LEMMA IdleFlight == ASSUME NEW n PROVE InFlightOf(Idle, n) = 0
<1>1. /\ Idle.picked = << >> /\ Idle.ready = << >> /\ Idle.kept = << >>
      /\ Idle.met = NoCollisions /\ Idle.collisions = NoCollisions
  BY DEF Idle
<1> QED BY <1>1, VisitsNone, CountNone DEF InFlightOf

-----------------------------------------------------------------------------
(***************************************************************************)
(* What is in flight is exact                                              *)
(***************************************************************************)

\* Edges that stay keep what can be reached.
LEMMA LinkedMore ==
  ASSUME NEW t, NEW u, \A m \in Positions : t[m].edges \subseteq u[m].edges,
         NEW s, Linked(t, s)
  PROVE  Linked(u, s)
<1> SUFFICES ASSUME NEW e \in Positions, e # << >>, AtOrBelow(e, s)
             PROVE  e \in u[Parent(e)].edges
  BY DEF Linked
<1>1. Parent(e) \in Positions BY ParentOf
<1>2. e \in t[Parent(e)].edges BY DEF Linked
<1> QED BY <1>1, <1>2

\* A step of one thread takes in flight what it adds to its minibatch or shares.
FlightMoved(t, c, x, y) ==
  \A m \in Positions :
     IF AtOrBelow(root, m)
     THEN t[m].flight = tree[m].flight + (CountBelow(c, m) - CountBelow(shared, m))
                                       + (InFlightOf(y, m) - InFlightOf(x, m))
     ELSE t[m].flight = tree[m].flight

EdgesGrow(t) == \A m \in Positions : tree[m].edges \subseteq t[m].edges

AllLinked(t, S) == \A s \in S : Linked(t, s)

\* What a step of one thread may do to what is in flight.
LEMMA FlightStep ==
  ASSUME TypeOK, FlightInv, UNCHANGED <<head, root>>,
         NEW w \in Workers, NEW x \in Minibatch, x = worker[w],
         NEW y \in Minibatch, worker' = [worker EXCEPT ![w] = y],
         NEW c \in [Positions -> Int], shared' = c,
         NEW t \in [Positions -> Node], tree' = t,
         EdgesGrow(t), FlightMoved(t, c, x, y), Settled(y),
         AllLinked(t, Some(c)), AllLinked(t, CollisionsOf(y))
  PROVE  FlightInv'
<1>0. /\ \A m \in Positions : tree[m].edges \subseteq t[m].edges
      /\ \A m \in Positions :
            IF AtOrBelow(root, m)
            THEN t[m].flight = tree[m].flight + (CountBelow(c, m) - CountBelow(shared, m))
                                              + (InFlightOf(y, m) - InFlightOf(x, m))
            ELSE t[m].flight = tree[m].flight
      /\ \A s \in Some(c) : Linked(t, s)
      /\ \A s \in CollisionsOf(y) : Linked(t, s)
  BY DEF EdgesGrow, FlightMoved, AllLinked
<1>1. /\ worker \in [Workers -> Minibatch] /\ shared \in [Positions -> Int]
      /\ tree \in [Positions -> Node] /\ head \in Positions /\ IsFiniteSet(Workers)
  BY SearchAssumption DEF TypeOK
<1>2. ASSUME NEW n \in Positions
      PROVE  t[n].flight = IF AtOrBelow(root, n) THEN InFlight(n)' ELSE 0
  <2>1. tree[n].flight = IF AtOrBelow(root, n) THEN InFlight(n) ELSE 0 BY DEF FlightInv
  <2>2. CASE ~AtOrBelow(root, n) BY <1>0, <2>1, <2>2
  <2>3. CASE AtOrBelow(root, n)
    <3>1. PICK f, g : /\ f = [u \in Workers |-> InFlightOf(worker[u], n)]
                      /\ g = [u \in Workers |-> InFlightOf(worker'[u], n)]
      OBVIOUS
    <3>2. worker'[w] = y /\ \A u \in Workers : u # w => worker'[u] = worker[u] BY <1>1
    <3>3. ASSUME NEW u \in Workers
          PROVE  f[u] \in Int /\ g[u] \in Int /\ (u # w => g[u] = f[u])
      <4>1. worker[u] \in Minibatch /\ worker'[u] \in Minibatch BY <1>1, <3>2
      <4> QED BY <3>1, <3>2, <4>1, InFlightOfType
    <3>4. SumFunctionOnSet(g, Workers) = SumFunctionOnSet(f, Workers) + (g[w] - f[w])
      BY <1>1, <3>3, SumChange
    <3>5. g[w] = InFlightOf(y, n) /\ f[w] = InFlightOf(x, n) BY <3>1, <3>2
    <3>6. SumFunction(f) = SumFunctionOnSet(f, Workers) /\ SumFunction(g) = SumFunctionOnSet(g, Workers)
      BY <3>1 DEF SumFunction
    <3>7. InFlight(n) = CountBelow(shared, n) + SumFunction(f) BY <3>1 DEF InFlight
    <3>8. InFlight(n)' = CountBelow(c, n) + SumFunction(g)
      BY <3>1 DEF InFlight
    <3>9. t[n].flight = tree[n].flight + (CountBelow(c, n) - CountBelow(shared, n))
                                       + (InFlightOf(y, n) - InFlightOf(x, n))
      BY <1>0, <2>3
    <3>10. /\ CountBelow(c, n) \in Int /\ CountBelow(shared, n) \in Int
           /\ SumFunctionOnSet(f, Workers) \in Int
      BY <1>1, <3>3, CountsType, CountBelowType, SumType
    <3>11. InFlightOf(y, n) \in Int /\ InFlightOf(x, n) \in Int BY InFlightOfType
    <3>12. tree[n].flight = InFlight(n) BY <2>1, <2>3
    <3> QED BY <2>3, <3>4, <3>5, <3>6, <3>7, <3>8, <3>9, <3>10, <3>11, <3>12
  <2> QED BY <2>2, <2>3
<1>3. ASSUME NEW u \in Workers
      PROVE  Settled(worker'[u]) /\ \A s \in CollisionsOf(worker'[u]) : Linked(t, s)
  <2>1. CASE u = w BY <1>0, <1>1, <2>1
  <2>2. CASE u # w
    <3>1. worker'[u] = worker[u] BY <1>1, <2>2
    <3>2. Settled(worker[u]) /\ \A s \in CollisionsOf(worker[u]) : Linked(tree, s) BY DEF FlightInv
    <3> QED BY <1>0, <3>1, <3>2, LinkedMore
  <2> QED BY <2>1, <2>2
<1>4. Linked(t, head)
  <2>1. Linked(tree, head) BY DEF FlightInv
  <2> QED BY <1>0, <2>1, LinkedMore
<1>5. \A n \in Positions : (tree[n].flight = IF AtOrBelow(root, n) THEN InFlight(n) ELSE 0)'
  BY <1>2
<1>6. \A u \in Workers : Settled(worker[u])' BY <1>3 DEF Settled
<1>7. Linked(tree, head)' BY <1>4 DEF Linked
<1>8. \A s \in Some(shared)' : Linked(tree, s)' BY <1>0 DEF Linked, Some
<1>9. \A u \in Workers : \A s \in CollisionsOf(worker[u])' : Linked(tree, s)'
  BY <1>3 DEF CollisionsOf, Linked, Some
<1> QED BY <1>5, <1>6, <1>7, <1>8, <1>9 DEF FlightInv

\* A step that leaves the shared collisions alone.
LEMMA FlightStepAlone ==
  ASSUME TypeOK, FlightInv, UNCHANGED <<head, root, shared>>,
         NEW w \in Workers, NEW x \in Minibatch, x = worker[w],
         NEW y \in Minibatch, worker' = [worker EXCEPT ![w] = y],
         NEW t \in [Positions -> Node], tree' = t,
         EdgesGrow(t),
         \A m \in Positions :
            t[m].flight = tree[m].flight +
               (IF AtOrBelow(root, m) THEN InFlightOf(y, m) - InFlightOf(x, m) ELSE 0),
         Settled(y), \A s \in CollisionsOf(y) : s \in CollisionsOf(x) \/ Linked(t, s)
  PROVE  FlightInv'
<1>1. PICK c : c = shared OBVIOUS
<1>2. c \in [Positions -> Int] /\ shared' = c /\ tree \in [Positions -> Node] BY <1>1 DEF TypeOK
<1>3. ASSUME NEW m \in Positions
      PROVE  IF AtOrBelow(root, m)
             THEN t[m].flight = tree[m].flight + (CountBelow(c, m) - CountBelow(shared, m))
                                               + (InFlightOf(y, m) - InFlightOf(x, m))
             ELSE t[m].flight = tree[m].flight
  <2>1. PICK a, b, f, g : /\ a = CountBelow(c, m) /\ b = tree[m].flight
                          /\ f = InFlightOf(y, m) /\ g = InFlightOf(x, m)
    OBVIOUS
  <2>2. a \in Int /\ b \in Int /\ f \in Int /\ g \in Int
    BY <1>2, <2>1, CountsType, CountBelowType, NodeType, InFlightOfType
  <2>3. t[m].flight = b + (IF AtOrBelow(root, m) THEN f - g ELSE 0) BY <2>1
  <2> QED BY <1>1, <2>1, <2>2, <2>3
<1>4. FlightMoved(t, c, x, y) BY <1>3 DEF FlightMoved
<1>5. \A m \in Positions : tree[m].edges \subseteq t[m].edges BY DEF EdgesGrow
<1>6. AllLinked(t, Some(c))
  <2>1. \A s \in Some(c) : Linked(tree, s) BY <1>1 DEF FlightInv
  <2> QED BY <1>5, <2>1, LinkedMore DEF AllLinked
<1>7. AllLinked(t, CollisionsOf(y))
  <2>1. \A s \in CollisionsOf(x) : Linked(tree, s) BY DEF FlightInv
  <2> QED BY <1>5, <2>1, LinkedMore DEF AllLinked
<1> QED BY <1>2, <1>4, <1>6, <1>7, FlightStep

\* A leaf is reached by edges from the start of the game.
LEMMA PassedLinked ==
  ASSUME AllSound(tree, root), Linked(tree, root), root \in Positions,
         NEW n \in Positions, Passed(tree, n)
  PROVE  Linked(tree, n)
<1> SUFFICES ASSUME NEW e \in Positions, e # << >>, AtOrBelow(e, n)
             PROVE  e \in tree[Parent(e)].edges
  BY DEF Linked
<1>1. PICK p : p = Parent(e) OBVIOUS
<1>2. p \in Positions /\ Below(p, e) /\ e \in Children(p) BY <1>1, ParentOf
<1>3. Below(p, n) BY <1>2, BelowBelow DEF AtOrBelow
<1>4. CASE AtOrBelow(root, p)
  <2>1. tree[p].edges # {} BY <1>2, <1>3, <1>4 DEF Passed
  <2>2. tree[p].edges = Children(p) BY <1>2, <1>4, <2>1 DEF AllSound, Sound
  <2> QED BY <1>1, <1>2, <2>2
<1>5. CASE ~AtOrBelow(root, p)
  <2>1. AtOrBelow(root, n) BY DEF Passed
  <2>2. AtOrBelow(e, root) \/ Below(root, e) BY <2>1, BelowBelow DEF AtOrBelow
  <2>3. ~Below(root, e) BY <1>1, <1>5, ParentOf
  <2> QED BY <2>2, <2>3 DEF Linked
<1> QED BY <1>4, <1>5

LEMMA PickFlight == ASSUME BoundsInv, FlightInv, NEW w \in Workers, Pick(w) PROVE FlightInv'
<1>1. TypeOK /\ Phases /\ searching BY DEF BoundsInv, Pick
<1>2. PICK x : x = worker[w] OBVIOUS
<1>3. /\ tree \in [Positions -> Node] /\ root \in Positions /\ root = head
      /\ worker \in [Workers -> Minibatch] /\ x \in Minibatch
  BY <1>1, <1>2 DEF TypeOK, Phases
<1>4. AllSound(tree, root) /\ Linked(tree, root) BY <1>3 DEF BoundsInv, FlightInv
<1>5. PICK d \in Deals(MaxUnits - Outstanding) :
        \E v \in [DOMAIN d -> 0 .. MaxUnits] :
           /\ tree' = PickedTree(EnsureTwoFoldsCorrect(tree, SetToSeq(DOMAIN d)), d, v)
           /\ worker' = [worker EXCEPT
                 ![w].at = "process", ![w].picked = Visits(SetToSeq(DOMAIN d), v),
                 ![w].met = [n \in Positions |-> IF n \in DOMAIN d THEN d[n] - v[n] ELSE 0]]
  BY DEF Pick, PickedTree
<1>6. PICK v \in [DOMAIN d -> 0 .. MaxUnits] :
           /\ tree' = PickedTree(EnsureTwoFoldsCorrect(tree, SetToSeq(DOMAIN d)), d, v)
           /\ worker' = [worker EXCEPT
                 ![w].at = "process", ![w].picked = Visits(SetToSeq(DOMAIN d), v),
                 ![w].met = [n \in Positions |-> IF n \in DOMAIN d THEN d[n] - v[n] ELSE 0]]
  BY <1>5
<1>7. PICK k : k = Outstanding OBVIOUS
<1>8. DOMAIN d \subseteq Leaves(tree) /\ DOMAIN d \subseteq Positions /\ Counts(d)
  <2>1. d \in UNION {[S -> 1 .. MaxUnits - k] : S \in UNION {kSubset(j, Leaves(tree)) : j \in 1 .. MaxUnits - k}}
    BY <1>7 DEF Deals
  <2>2. PICK S : S \in UNION {kSubset(j, Leaves(tree)) : j \in 1 .. MaxUnits - k} /\ d \in [S -> 1 .. MaxUnits - k]
    BY <2>1
  <2>3. S \subseteq Leaves(tree) BY <2>2 DEF kSubset
  <2>4. DOMAIN d = S /\ \A n \in S : d[n] \in Int BY <2>2
  <2>5. Leaves(tree) \subseteq Positions BY DEF Leaves
  <2> QED BY <2>3, <2>4, <2>5 DEF Counts
<1>9. PICK t, u : /\ t = EnsureTwoFoldsCorrect(tree, SetToSeq(DOMAIN d))
                  /\ u = PickedTree(t, d, v)
  OBVIOUS
<1>10. /\ Refolded(tree, t, DOMAIN d)
       /\ \A n \in DOMAIN d : Passed(tree, n)
       /\ FlightOnly(t, u)
       /\ \A m \in Positions : u[m].flight =
             t[m].flight + (IF AtOrBelow(root, m) THEN CountBelow(d, m) ELSE 0)
                         + (IF m \in DOMAIN d THEN v[m] ELSE 0)
       /\ Visits(SetToSeq(DOMAIN d), v) \in Seq(DOMAIN d)
  BY <1>3, <1>4, <1>8, <1>9, PickIs
<1>11. t \in [Positions -> Node] /\ u \in [Positions -> Node]
  BY <1>10 DEF Refolded, FlightOnly
<1>12. ASSUME NEW m \in Positions PROVE u[m].edges = tree[m].edges /\ t[m].flight = tree[m].flight
  <2>1. u[m] = [t[m] EXCEPT !.flight = u[m].flight] BY <1>10 DEF FlightOnly
  <2>2. t[m] \in Node /\ u[m] \in Node BY <1>11
  <2>3. u[m].edges = t[m].edges BY <2>1, <2>2, FlightNode
  <2> QED BY <1>10, <2>3 DEF Refolded
<1>13. PICK ps, ms, y : /\ ps = Visits(SetToSeq(DOMAIN d), v)
                        /\ ms = [n \in Positions |-> IF n \in DOMAIN d THEN d[n] - v[n] ELSE 0]
                        /\ y = [x EXCEPT !.at = "process", !.picked = ps, !.met = ms]
  OBVIOUS
<1>14. \A m \in DOMAIN d : v[m] \in Nat BY SearchAssumption
<1>15. /\ ms \in [Positions -> Int]
       /\ \A m \in Positions : CountBelow(ms, m) + VisitsAt(ps, m) =
             CountBelow(d, m) + (IF m \in DOMAIN d THEN v[m] ELSE 0)
  BY <1>8, <1>13, <1>14, CountDealt
<1>16. /\ y \in Minibatch /\ y.picked = ps /\ y.ready = x.ready /\ y.kept = x.kept
       /\ y.met = ms /\ y.collisions = x.collisions /\ y.at = "process"
  <2>1. ps \in Seq(Positions) BY <1>8, <1>10, <1>13
  <2> QED BY <1>3, <1>13, <1>15, <2>1 DEF Minibatch
<1>17. worker' = [worker EXCEPT ![w] = y] BY <1>2, <1>3, <1>6, <1>13
<1>18. x.picked = << >> /\ x.met = NoCollisions
  <2>1. x.at = "gather" /\ Settled(x) BY <1>2 DEF Pick, FlightInv
  <2> QED BY <2>1 DEF Settled
<1>19. ASSUME NEW m \in Positions
       PROVE  u[m].flight = tree[m].flight +
                 (IF AtOrBelow(root, m) THEN InFlightOf(y, m) - InFlightOf(x, m) ELSE 0)
  <2>1. PICK a, b, e, f, g, h :
          /\ a = VisitsAt(ps, m) /\ b = VisitsAt(x.ready, m) /\ e = VisitsAt(x.kept, m)
          /\ f = CountBelow(ms, m) /\ g = CountBelow(x.collisions, m) /\ h = tree[m].flight
    OBVIOUS
  <2>2. a \in Int /\ b \in Int /\ e \in Int
    <3>1. ps \in Seq(Positions) /\ x.ready \in Seq(Positions) /\ x.kept \in Seq(Positions)
      BY <1>3, <1>16, BatchType
    <3> QED BY <2>1, <3>1, ThroughIs
  <2>3. f \in Int /\ g \in Int /\ h \in Int
    <3>1. x.collisions \in [Positions -> Int] BY <1>3, BatchType
    <3> QED BY <1>3, <1>15, <2>1, <3>1, CountsType, CountBelowType, NodeType
  <2>4. InFlightOf(y, m) = a + b + e + f + g BY <1>16, <2>1 DEF InFlightOf
  <2>5. InFlightOf(x, m) = 0 + b + e + 0 + g
    BY <1>18, <2>1, VisitsNone, CountNone DEF InFlightOf
  <2>6. PICK i, j : i = CountBelow(d, m) /\ j = IF m \in DOMAIN d THEN v[m] ELSE 0 OBVIOUS
  <2>7. i \in Int /\ j \in Int /\ f + a = i + j
    BY <1>8, <1>14, <1>15, <2>1, <2>6, CountBelowType
  <2>8. u[m].flight = h + (IF AtOrBelow(root, m) THEN i ELSE 0) + j BY <1>10, <1>12, <2>1, <2>6
  <2>9. ~AtOrBelow(root, m) => j = 0 BY <1>10, <2>6 DEF Passed
  <2> QED BY <2>1, <2>2, <2>3, <2>4, <2>5, <2>7, <2>8, <2>9
<1>20. ASSUME NEW s \in CollisionsOf(y) PROVE s \in CollisionsOf(x) \/ Linked(u, s)
  <2>1. CASE s \in Some(x.collisions) BY <2>1 DEF CollisionsOf
  <2>2. CASE s \in Some(ms)
    <3>1. s \in Positions /\ s \in DOMAIN d BY <1>13, <2>2 DEF Some
    <3>2. Linked(tree, s) BY <1>3, <1>4, <1>10, <3>1, PassedLinked
    <3>3. \A m \in Positions : tree[m].edges \subseteq u[m].edges BY <1>12
    <3> QED BY ONLY <3>2, <3>3, LinkedMore
  <2> QED BY <1>16, <2>1, <2>2 DEF CollisionsOf
<1>21. Settled(y) /\ EdgesGrow(u) BY <1>12, <1>16 DEF Settled, EdgesGrow
<1>22. tree' = u /\ UNCHANGED <<head, root, shared>> BY <1>6, <1>9 DEF Pick
<1> QED
  BY <1>1, <1>2, <1>3, <1>11, <1>16, <1>17, <1>19, <1>20, <1>21, <1>22, FlightStepAlone

LEMMA ExtendFlight == ASSUME BoundsInv, FlightInv, NEW w \in Workers, Extend(w) PROVE FlightInv'
<1>1. TypeOK /\ Phases BY DEF BoundsInv
<1>2. PICK x, n : x = worker[w] /\ n = Head(x.picked) OBVIOUS
<1>3. /\ x.at = "process" /\ x.picked # << >>
      /\ tree' = [tree EXCEPT ![n] = IF Terminal(@) THEN @ ELSE ExtendNode(@, n)]
      /\ worker' = [worker EXCEPT ![w].picked = Tail(@), ![w].ready = Append(@, n)]
      /\ UNCHANGED <<head, root, shared>>
  BY <1>2 DEF Extend
<1>4. searching /\ root = head BY <1>1, <1>2, <1>3, Working
<1>5. /\ tree \in [Positions -> Node] /\ root \in Positions /\ x \in Minibatch
      /\ worker \in [Workers -> Minibatch]
  BY <1>1, <1>2 DEF TypeOK
<1>6. AllSound(tree, root) /\ BatchSound(tree, x) BY <1>2, <1>4 DEF BoundsInv
<1>7. x.picked \in Seq(Positions) /\ x.ready \in Seq(Positions) /\ x.kept \in Seq(Positions)
  BY <1>5, BatchType
<1>8. PICK ps, rs : ps = Tail(x.picked) /\ rs = Append(x.ready, n) OBVIOUS
<1>9. /\ n \in ToSet(x.picked) /\ n \in Positions
      /\ ps \in Seq(Positions) /\ rs \in Seq(Positions)
  <2>1. Tail(x.picked) \in Seq(Positions) /\ n \in ToSet(x.picked)
    BY <1>2, <1>3, <1>7, SetOfTail
  <2>2. n \in Positions BY <1>7, <2>1 DEF ToSet
  <2>3. Append(x.ready, n) \in Seq(Positions) BY <1>7, <2>2, SetOfAppend
  <2> QED BY <1>8, <2>1, <2>2, <2>3
<1>10. PICK z : z = IF Terminal(tree[n]) THEN tree[n] ELSE ExtendNode(tree[n], n) OBVIOUS
<1>11. z \in Node /\ z.flight = tree[n].flight /\ tree[n].edges \subseteq z.edges
  <2>1. tree[n] \in Node /\ Sound(tree[n], n)
    <3>1. Reached(tree, n) BY <1>6, <1>9 DEF BatchSound, LeavesOf
    <3> QED BY <1>5, <1>6, <1>9, <3>1 DEF AllSound, Reached
  <2>2. CASE Terminal(tree[n]) BY <1>10, <2>1, <2>2
  <2>3. CASE ~Terminal(tree[n])
    <3>1. z = ExtendNode(tree[n], n) BY <1>10, <2>3
    <3>2. /\ z \in Node /\ Sound(z, n) /\ z.flight = tree[n].flight
          /\ tree[n].edges # {} => z.edges # {}
      BY <1>5, <1>9, <2>1, <3>1, ExtendSound
    <3>3. tree[n].edges \in {{}, Children(n)} /\ z.edges \in {{}, Children(n)}
      BY <2>1, <3>2 DEF Sound
    <3> QED BY <3>2, <3>3
  <2> QED BY <2>2, <2>3
<1>12. PICK t : t = [tree EXCEPT ![n] = z] OBVIOUS
<1>13. tree' = t BY <1>3, <1>10, <1>12
<1>14. /\ t \in [Positions -> Node]
       /\ \A m \in Positions : t[m].flight = tree[m].flight /\ tree[m].edges \subseteq t[m].edges
  BY <1>5, <1>9, <1>11, <1>12
<1>15. PICK y : y = [x EXCEPT !.picked = ps, !.ready = rs] OBVIOUS
<1>16. /\ y \in Minibatch /\ y.picked = ps /\ y.ready = rs /\ y.kept = x.kept
       /\ y.met = x.met /\ y.collisions = x.collisions /\ y.at = x.at
  BY <1>5, <1>9, <1>15 DEF Minibatch
<1>17. worker' = [worker EXCEPT ![w] = y] BY <1>2, <1>3, <1>5, <1>8, <1>15
<1>18. ASSUME NEW m \in Positions PROVE InFlightOf(y, m) = InFlightOf(x, m)
  <2>1. PICK a, b, c, e, f, g, i :
          /\ a = VisitsAt(ps, m) /\ b = VisitsAt(x.picked, m) /\ c = VisitsAt(rs, m)
          /\ e = VisitsAt(x.ready, m) /\ f = VisitsAt(x.kept, m)
          /\ g = CountBelow(x.met, m) /\ i = CountBelow(x.collisions, m)
    OBVIOUS
  <2>2. PICK k : k = IF AtOrBelow(m, n) THEN 1 ELSE 0 OBVIOUS
  <2>3. b = a + k BY <1>2, <1>3, <1>7, <1>8, <2>1, <2>2, VisitsTail
  <2>4. c = e + k BY <1>7, <1>8, <1>9, <2>1, <2>2, VisitsAppend
  <2>5. a \in Int /\ e \in Int /\ f \in Int BY <1>7, <1>9, <2>1, ThroughIs
  <2>6. g \in Int /\ i \in Int
    <3>1. x.met \in [Positions -> Int] /\ x.collisions \in [Positions -> Int] BY <1>5, BatchType
    <3> QED BY <2>1, <3>1, CountsType, CountBelowType
  <2>7. InFlightOf(x, m) = b + e + f + g + i BY <2>1 DEF InFlightOf
  <2>8. InFlightOf(y, m) = a + c + f + g + i BY <1>16, <2>1 DEF InFlightOf
  <2> QED BY <2>2, <2>3, <2>4, <2>5, <2>6, <2>7, <2>8
<1>19. ASSUME NEW m \in Positions
       PROVE  t[m].flight = tree[m].flight +
                 (IF AtOrBelow(root, m) THEN InFlightOf(y, m) - InFlightOf(x, m) ELSE 0)
  <2>1. PICK a, b : a = tree[m].flight /\ b = InFlightOf(x, m) OBVIOUS
  <2>2. a \in Int /\ b \in Int BY <1>5, <2>1, NodeType, InFlightOfType
  <2>3. a = a + (b - b) /\ a = a + 0 BY <2>2
  <2> QED BY <1>14, <1>18, <2>1, <2>3
<1>20. \A s \in CollisionsOf(y) : s \in CollisionsOf(x) \/ Linked(t, s)
  BY <1>16 DEF CollisionsOf
<1>21. Settled(y) /\ EdgesGrow(t)
  BY <1>3, <1>14, <1>16 DEF Settled, EdgesGrow
<1>22. UNCHANGED <<head, root, shared>> BY <1>3
<1> QED
  BY <1>1, <1>2, <1>5, <1>13, <1>14, <1>16, <1>17, <1>19, <1>20, <1>21, <1>22, FlightStepAlone

\* The leaves backed up through a node are the visits at or below it.
LEMMA UptoIs ==
  ASSUME NEW leaves \in Seq(Positions), \A i \in 1 .. Len(leaves) : AtOrBelow(root, leaves[i]),
         NEW m \in Positions
  PROVE  Upto(leaves, Len(leaves), m) = IF AtOrBelow(root, m) THEN VisitsAt(leaves, m) ELSE 0
<1>1. PICK k : k = Len(leaves) OBVIOUS
<1>2. DOMAIN leaves = 1 .. k BY <1>1
<1>3. PICK S : S = {j \in 1 .. k : OnPath(leaves[j], m)} OBVIOUS
<1>4. Upto(leaves, k, m) = Cardinality(S) BY <1>3 DEF Upto
<1>5. CASE AtOrBelow(root, m)
  <2>1. S = Through(leaves, m) BY <1>2, <1>3, <1>5 DEF Through, OnPath
  <2>2. VisitsAt(leaves, m) = Cardinality(Through(leaves, m)) BY ThroughIs
  <2> QED BY <1>1, <1>4, <1>5, <2>1, <2>2
<1>6. CASE ~AtOrBelow(root, m)
  <2>1. S = {} BY <1>3, <1>6 DEF OnPath
  <2> QED BY <1>1, <1>4, <1>6, <2>1, FS_EmptySet
<1> QED BY <1>5, <1>6

\* Backing leaves up takes their visits out of flight.
Landed(t, u, leaves) ==
  \A m \in Positions :
     /\ u[m].flight = t[m].flight - (IF AtOrBelow(root, m) THEN VisitsAt(leaves, m) ELSE 0)
     /\ t[m].edges \subseteq u[m].edges

LEMMA BackupFlight ==
  ASSUME NEW t \in [Positions -> Node], NEW leaves \in Seq(Positions), NEW held,
         root \in Positions, AllSound(t, root), HeadLinked(t, root),
         \A i \in 1 .. Len(leaves) : Rising(t, leaves[i]),
         NEW u, u = BackupAll(t, leaves, held).t
  PROVE  u \in [Positions -> Node] /\ Landed(t, u, leaves)
<1>1. /\ u \in [Positions -> Node]
      /\ \A m \in Positions : Backed(t[m], u[m], Upto(leaves, Len(leaves), m))
  BY BackupAllSound
<1>2. \A i \in 1 .. Len(leaves) : AtOrBelow(root, leaves[i]) BY DEF Rising
<1>3. ASSUME NEW m \in Positions
      PROVE  /\ u[m].flight =
                   t[m].flight - (IF AtOrBelow(root, m) THEN VisitsAt(leaves, m) ELSE 0)
             /\ t[m].edges \subseteq u[m].edges
  <2>1. PICK k : k = Upto(leaves, Len(leaves), m) OBVIOUS
  <2>2. k = IF AtOrBelow(root, m) THEN VisitsAt(leaves, m) ELSE 0 BY <1>2, <2>1, UptoIs
  <2>3. u[m].flight = t[m].flight - k /\ t[m].edges = u[m].edges
    BY <1>1, <2>1 DEF Backed, Grown
  <2> QED BY <2>2, <2>3
<1> QED BY <1>1, <1>3 DEF Landed

LEMMA SettlingFlight ==
  ASSUME BoundsInv, FlightInv, NEW w \in Workers, Settling(w) PROVE FlightInv'
<1>1. PICK x : x = worker[w] OBVIOUS
<1>2. /\ x \in Minibatch /\ root = head
      /\ \E b, leaves, y : IsSettling(w, x, b, leaves, y)
  BY <1>1, SettlingIs
<1>3. PICK b, leaves, y : IsSettling(w, x, b, leaves, y) BY <1>2
<1>4. /\ b \in [Positions -> Node] /\ AllSound(b, root) /\ HeadLinked(b, root)
      /\ leaves \in Seq(Positions) /\ \A i \in 1 .. Len(leaves) : Rising(b, leaves[i])
      /\ \A m \in Positions : b[m].edges = tree[m].edges
  BY <1>1, <1>2, <1>3, SettlingRises
<1>5. PICK held, u : held = HeldByOthers(w) \cup PointedTo(y) /\ u = BackupAll(b, leaves, held).t
  OBVIOUS
<1>6. TypeOK /\ root \in Positions /\ tree \in [Positions -> Node] BY DEF BoundsInv, TypeOK
<1>7. u \in [Positions -> Node] /\ Landed(b, u, leaves)
  <2>1. u = BackupAll(b, leaves, held).t BY <1>5
  <2> QED BY <1>4, <1>6, <2>1, BackupFlight
<1>8. /\ y \in Minibatch /\ worker' = [worker EXCEPT ![w] = y] /\ tree' = u
      /\ Uncollided(b, x, y) /\ Handled(x, leaves, y) /\ Remains(x, y)
      /\ UNCHANGED <<head, root, shared>>
  BY <1>3, <1>5 DEF IsSettling
<1>9. ASSUME NEW m \in Positions
      PROVE  u[m].flight = tree[m].flight +
                (IF AtOrBelow(root, m) THEN InFlightOf(y, m) - InFlightOf(x, m) ELSE 0)
  <2>1. PICK f, c, d, i, j, v : /\ f = tree[m].flight /\ c = Collided(x, m) /\ d = Collided(y, m)
                                /\ i = VisitsIn(x, m) /\ j = VisitsIn(y, m)
                                /\ v = VisitsAt(leaves, m)
    OBVIOUS
  <2>2. f \in Int /\ c \in Int /\ d \in Int /\ i \in Int /\ j \in Int
    BY <1>2, <1>6, <1>8, <2>1, NodeType, CollidedType
  <2>3. v \in Int BY <1>4, <2>1, ThroughIs
  <2>4. i = v + j BY <1>8, <2>1 DEF Handled
  <2>5. b[m].flight = f - (IF AtOrBelow(root, m) THEN c - d ELSE 0)
    BY <1>8, <2>1 DEF Uncollided
  <2>6. u[m].flight = b[m].flight - (IF AtOrBelow(root, m) THEN v ELSE 0) BY <1>7, <2>1 DEF Landed
  <2>7. InFlightOf(x, m) = i + c /\ InFlightOf(y, m) = j + d
    BY <1>2, <1>8, <2>1, InFlightParts
  <2>8. PICK k, l : k = InFlightOf(x, m) /\ l = InFlightOf(y, m) OBVIOUS
  <2> QED BY <2>1, <2>2, <2>3, <2>4, <2>5, <2>6, <2>7, <2>8
<1>10. Settled(y) /\ \A s \in CollisionsOf(y) : s \in CollisionsOf(x) \/ Linked(u, s)
  <2>1. Settled(x) BY <1>1 DEF FlightInv
  <2> QED BY <1>8, <2>1 DEF Remains
<1>11. EdgesGrow(u) BY <1>4, <1>7 DEF EdgesGrow, Landed
<1> QED BY <1>1, <1>2, <1>6, <1>7, <1>8, <1>9, <1>10, <1>11, FlightStepAlone

LEMMA UpsizeFlight == ASSUME BoundsInv, FlightInv, NEW w \in Workers, Upsize(w) PROVE FlightInv'
<1>1. TypeOK BY DEF BoundsInv
<1>2. PICK x : x = worker[w] OBVIOUS
<1>3. PICK extra \in [Some(worker[w].met) -> 0 .. 1] :
        /\ tree' = AddInFlight(tree, extra)
        /\ \E y \in Further([worker[w] EXCEPT !.met = NoCollisions,
                !.collisions = [n \in Positions |-> worker[w].collisions[n] + worker[w].met[n] +
                                   (IF n \in DOMAIN extra THEN extra[n] ELSE 0)]]) :
             worker' = [worker EXCEPT ![w] = y]
  BY DEF Upsize
<1>4. /\ x.at = "process" /\ x.picked = << >> /\ x.ready = << >>
      /\ UNCHANGED <<head, root, searching, shared>>
  BY <1>2 DEF Upsize
<1>5. /\ tree \in [Positions -> Node] /\ root \in Positions /\ x \in Minibatch
      /\ worker \in [Workers -> Minibatch]
  BY <1>1, <1>2 DEF TypeOK
<1>6. x.met \in [Positions -> Int] /\ x.collisions \in [Positions -> Int] BY <1>5, BatchType
<1>7. Counts(extra) /\ DOMAIN extra = Some(x.met) BY <1>2, <1>6 DEF Some, Counts
<1>8. PICK t : t = AddInFlight(tree, extra) OBVIOUS
<1>9. /\ FlightOnly(tree, t)
      /\ \A m \in Positions : t[m].flight =
            tree[m].flight + (IF AtOrBelow(root, m) THEN CountBelow(extra, m) ELSE 0)
  BY <1>5, <1>7, <1>8, AddInFlightIs
<1>10. t \in [Positions -> Node] /\ \A m \in Positions : t[m].edges = tree[m].edges
  BY <1>5, <1>9, FlightSound
<1>11. PICK e, b : e = Padded(extra) /\ b = Plus(x.collisions, x.met) OBVIOUS
<1>12. /\ e \in [Positions -> Int] /\ b \in [Positions -> Int]
       /\ \A m \in Positions : CountBelow(e, m) = CountBelow(extra, m)
  BY <1>6, <1>7, <1>11, CountPadded, PlusType
<1>13. PICK c : c = [n \in Positions |-> x.collisions[n] + x.met[n] +
                                   (IF n \in DOMAIN extra THEN extra[n] ELSE 0)]
  OBVIOUS
<1>14. c = Plus(b, e) BY <1>11, <1>13 DEF Plus, Padded
<1>15. c \in [Positions -> Int] BY <1>12, <1>14, PlusType
<1>16. PICK ms : ms = NoCollisions OBVIOUS
<1>17. ms \in [Positions -> Int] BY <1>16 DEF NoCollisions
<1>18. PICK y : /\ worker' = [worker EXCEPT ![w] = y]
                /\ y \in Further([x EXCEPT !.met = ms, !.collisions = c])
  BY <1>2, <1>3, <1>13, <1>16
<1>19. PICK p \in {"gather", "collect"} : y = [[x EXCEPT !.met = ms, !.collisions = c] EXCEPT !.at = p]
  BY <1>18 DEF Further
<1>20. p \in {"gather", "process", "settle", "collect", "backup"} OBVIOUS
<1>21. /\ y \in Minibatch /\ y.picked = << >> /\ y.ready = << >> /\ y.kept = x.kept
       /\ y.met = ms /\ y.collisions = c /\ y.at = p
  <2>1. PICK z : z = [x EXCEPT !.met = ms, !.collisions = c] OBVIOUS
  <2>2. /\ z \in Minibatch /\ z.picked = x.picked /\ z.ready = x.ready /\ z.kept = x.kept
        /\ z.met = ms /\ z.collisions = c
    BY <1>5, <1>15, <1>17, <2>1 DEF Minibatch
  <2>3. y = [z EXCEPT !.at = p] BY <1>19, <2>1
  <2> QED BY <1>4, <1>20, <2>2, <2>3 DEF Minibatch
<1>22. ASSUME NEW m \in Positions
       PROVE  t[m].flight = tree[m].flight +
                 (IF AtOrBelow(root, m) THEN InFlightOf(y, m) - InFlightOf(x, m) ELSE 0)
  <2>1. PICK f, g, h, i, j : /\ f = CountBelow(x.met, m) /\ g = CountBelow(x.collisions, m)
                             /\ h = CountBelow(extra, m) /\ i = tree[m].flight
                             /\ j = VisitsAt(x.kept, m)
    OBVIOUS
  <2>2. f \in Int /\ g \in Int /\ h \in Int /\ i \in Int
    BY <1>5, <1>6, <1>7, <2>1, CountsType, CountBelowType, NodeType
  <2>3. j \in Int BY <1>5, <2>1, BatchType, ThroughIs
  <2>4. CountBelow(b, m) = g + f BY <1>6, <1>11, <2>1, CountPlus
  <2>5. CountBelow(c, m) = CountBelow(b, m) + h BY <1>12, <1>14, <2>1, CountPlus
  <2>6. VisitsAt(<< >>, m) = 0 /\ CountBelow(ms, m) = 0 BY <1>16, VisitsNone, CountNone
  <2>7. InFlightOf(y, m) = 0 + 0 + j + 0 + (g + f + h) BY <1>21, <2>1, <2>4, <2>5, <2>6 DEF InFlightOf
  <2>8. InFlightOf(x, m) = 0 + 0 + j + f + g BY <1>4, <2>1, <2>6 DEF InFlightOf
  <2>9. PICK k, l : k = InFlightOf(y, m) /\ l = InFlightOf(x, m) OBVIOUS
  <2>10. k - l = h BY <2>2, <2>3, <2>7, <2>8, <2>9
  <2> QED BY <1>9, <2>1, <2>9, <2>10
<1>23. ASSUME NEW s \in CollisionsOf(y) PROVE s \in CollisionsOf(x) \/ Linked(t, s)
  <2>1. Some(ms) = {} BY <1>16 DEF Some, NoCollisions
  <2>2. s \in Some(c) BY <1>21, <2>1 DEF CollisionsOf
  <2>3. s \in Some(b) \cup Some(e) BY <1>12, <1>14, <2>2, PlusSome
  <2>4. Some(b) \subseteq Some(x.collisions) \cup Some(x.met) BY <1>6, <1>11, PlusSome
  <2>5. Some(e) \subseteq Some(x.met) BY <1>7, <1>11 DEF Some, Padded
  <2> QED BY <2>3, <2>4, <2>5 DEF CollisionsOf
<1>24. Settled(y) /\ EdgesGrow(t) BY <1>10, <1>16, <1>21 DEF Settled, EdgesGrow
<1>25. tree' = t /\ UNCHANGED <<head, root, shared>> BY <1>3, <1>4, <1>8
<1> QED
  BY <1>1, <1>2, <1>5, <1>10, <1>18, <1>21, <1>22, <1>23, <1>24, <1>25, FlightStepAlone

LEMMA CollectFlight ==
  ASSUME BoundsInv, FlightInv, NEW w \in Workers, CollectCollisions(w) PROVE FlightInv'
<1>1. TypeOK BY DEF BoundsInv
<1>2. PICK x, ms, c : x = worker[w] /\ ms = NoCollisions /\ c = Plus(shared, x.collisions) OBVIOUS
<1>3. /\ x.at = "collect" /\ shared' = c
      /\ worker' = [worker EXCEPT ![w].at = "backup", ![w].collisions = ms]
      /\ UNCHANGED <<tree, head, root, searching>>
  BY <1>2 DEF CollectCollisions
<1>4. /\ tree \in [Positions -> Node] /\ root \in Positions /\ x \in Minibatch
      /\ worker \in [Workers -> Minibatch] /\ shared \in [Positions -> Int]
  BY <1>1, <1>2 DEF TypeOK
<1>5. x.collisions \in [Positions -> Int] BY <1>4, BatchType
<1>6. c \in [Positions -> Int] BY <1>2, <1>4, <1>5, PlusType
<1>7. ms \in [Positions -> Int] BY <1>2 DEF NoCollisions
<1>8. PICK y : y = [x EXCEPT !.at = "backup", !.collisions = ms] OBVIOUS
<1>9. /\ y \in Minibatch /\ y.picked = x.picked /\ y.ready = x.ready /\ y.kept = x.kept
      /\ y.met = x.met /\ y.collisions = ms /\ y.at = "backup"
  BY <1>4, <1>7, <1>8 DEF Minibatch
<1>10. worker' = [worker EXCEPT ![w] = y] BY <1>2, <1>3, <1>4, <1>8
<1>11. ASSUME NEW m \in Positions
       PROVE  tree[m].flight = tree[m].flight + (CountBelow(c, m) - CountBelow(shared, m))
                                              + (InFlightOf(y, m) - InFlightOf(x, m))
              /\ tree[m].flight = tree[m].flight
  <2>1. PICK a, b, d, e : /\ a = tree[m].flight /\ b = CountBelow(shared, m)
                          /\ d = CountBelow(x.collisions, m) /\ e = CountBelow(x.met, m)
    OBVIOUS
  <2>2. PICK f, g, h : /\ f = VisitsAt(x.picked, m) /\ g = VisitsAt(x.ready, m)
                       /\ h = VisitsAt(x.kept, m)
    OBVIOUS
  <2>3. a \in Int /\ b \in Int /\ d \in Int /\ e \in Int
    <3>1. x.met \in [Positions -> Int] BY <1>4, BatchType
    <3> QED BY <1>4, <1>5, <2>1, <3>1, CountsType, CountBelowType, NodeType
  <2>4. f \in Int /\ g \in Int /\ h \in Int BY <1>4, <2>2, BatchType, ThroughIs
  <2>5. CountBelow(c, m) = b + d BY <1>2, <1>4, <1>5, <2>1, CountPlus
  <2>6. CountBelow(ms, m) = 0 BY <1>2, CountNone
  <2>7. InFlightOf(x, m) = f + g + h + e + d BY <2>1, <2>2 DEF InFlightOf
  <2>8. InFlightOf(y, m) = f + g + h + e + 0 BY <1>9, <2>1, <2>2, <2>6 DEF InFlightOf
  <2>9. PICK i, j : i = InFlightOf(x, m) /\ j = InFlightOf(y, m) OBVIOUS
  <2>10. j - i = -d BY <2>3, <2>4, <2>7, <2>8, <2>9
  <2>11. a = a + ((b + d) - b) + (j - i) BY <2>3, <2>10
  <2> QED BY <2>1, <2>5, <2>9, <2>11
<1>12. FlightMoved(tree, c, x, y) BY <1>11 DEF FlightMoved
<1>13. AllLinked(tree, Some(c))
  <2>1. Some(c) \subseteq Some(shared) \cup Some(x.collisions) BY <1>2, <1>4, <1>5, PlusSome
  <2>2. \A s \in Some(shared) : Linked(tree, s) BY DEF FlightInv
  <2>3. \A s \in Some(x.collisions) : Linked(tree, s) BY <1>2 DEF FlightInv, CollisionsOf
  <2> QED BY <2>1, <2>2, <2>3 DEF AllLinked
<1>14. AllLinked(tree, CollisionsOf(y))
  <2>1. Some(ms) = {} BY <1>2 DEF Some, NoCollisions
  <2>2. \A s \in Some(x.met) : Linked(tree, s) BY <1>2 DEF FlightInv, CollisionsOf
  <2> QED BY <1>9, <2>1, <2>2 DEF AllLinked, CollisionsOf
<1>15. EdgesGrow(tree) BY DEF EdgesGrow
<1>16. Settled(y)
  <2>1. x.picked = << >> /\ x.ready = << >> /\ x.met = NoCollisions
    <3>1. Settled(x) BY <1>2 DEF FlightInv
    <3> QED BY <1>3, <3>1 DEF Settled
  <2> QED BY <1>2, <1>9, <2>1 DEF Settled
<1>17. tree' = tree /\ UNCHANGED <<head, root>> BY <1>3
<1> QED
  BY <1>1, <1>2, <1>3, <1>4, <1>6, <1>9, <1>10, <1>12, <1>13, <1>14, <1>15, <1>16, <1>17, FlightStep

LEMMA DoBackupFlight ==
  ASSUME BoundsInv, FlightInv, NEW w \in Workers, DoBackupUpdate(w) PROVE FlightInv'
<1>1. TypeOK /\ Phases BY DEF BoundsInv
<1>2. PICK x : x = worker[w] OBVIOUS
<1>3. PICK u, done : u = BackupAll(tree, x.kept, HeldByOthers(w)).t
                     /\ done = (x.ooo \/ x.kept # << >>)
  OBVIOUS
<1>4. PICK t, c : /\ t = IF done THEN Cancel(u, shared) ELSE u
                  /\ c = IF done THEN NoCollisions ELSE shared
  OBVIOUS
<1>5. PICK y : y = Idle OBVIOUS
<1>6. /\ x.at = "backup" /\ tree' = t /\ shared' = c
      /\ worker' = [worker EXCEPT ![w] = y]
      /\ UNCHANGED <<head, root, searching>>
  BY <1>2, <1>3, <1>4, <1>5 DEF DoBackupUpdate
<1>7. searching /\ root = head BY <1>1, <1>2, <1>6, Working
<1>8. /\ tree \in [Positions -> Node] /\ root \in Positions /\ x \in Minibatch
      /\ worker \in [Workers -> Minibatch] /\ shared \in [Positions -> Int]
  BY <1>1, <1>2 DEF TypeOK
<1>9. AllSound(tree, root) /\ HeadLinked(tree, root) /\ BatchSound(tree, x)
  BY <1>2, <1>7 DEF BoundsInv
<1>10. PICK leaves : leaves = x.kept OBVIOUS
<1>11. leaves \in Seq(Positions) BY <1>8, <1>10, BatchType
<1>12. ASSUME NEW i \in 1 .. Len(leaves) PROVE Rising(tree, leaves[i])
  <2>1. PICK n : n = leaves[i] OBVIOUS
  <2>2. n \in Positions /\ n \in ToSet(x.kept) BY <1>10, <1>11, <2>1 DEF ToSet
  <2>3. Reached(tree, n) /\ Extended(tree[n]) BY <1>9, <2>2 DEF BatchSound, LeavesOf
  <2> QED BY <1>8, <2>1, <2>2, <2>3, ReachedRising
<1>13. u \in [Positions -> Node] /\ Landed(tree, u, leaves)
  <2>1. u = BackupAll(tree, leaves, HeldByOthers(w)).t BY <1>3, <1>10
  <2> QED BY <1>8, <1>9, <1>11, <1>12, <2>1, BackupFlight
<1>14. c \in [Positions -> Int]
  <2>1. NoCollisions \in [Positions -> Int] BY DEF NoCollisions
  <2> QED BY <1>4, <1>8, <2>1
<1>15. /\ t \in [Positions -> Node]
       /\ \A m \in Positions :
             /\ t[m].edges = u[m].edges
             /\ t[m].flight = u[m].flight +
                   (IF AtOrBelow(root, m) THEN CountBelow(c, m) - CountBelow(shared, m) ELSE 0)
  <2>1. ASSUME NEW m \in Positions
        PROVE  u[m].flight \in Int /\ u[m].flight + 0 = u[m].flight /\ CountBelow(shared, m) \in Int
               /\ CountBelow(shared, m) - CountBelow(shared, m) = 0
    <3>1. PICK a, b : a = u[m].flight /\ b = CountBelow(shared, m) OBVIOUS
    <3>2. a \in Int /\ b \in Int BY <1>8, <1>13, <3>1, NodeType, CountsType, CountBelowType
    <3> QED BY <3>1, <3>2
  <2>2. CASE ~done BY <1>4, <1>13, <2>1, <2>2
  <2>3. CASE done
    <3>1. t = Cancel(u, shared) /\ Counts(shared) /\ c = NoCollisions
      BY <1>4, <1>8, <2>3 DEF Counts
    <3>2. /\ FlightOnly(u, t)
          /\ \A m \in Positions : t[m].flight =
                u[m].flight + (IF AtOrBelow(root, m) THEN CountBelow(Negated(shared), m) ELSE 0)
      BY <1>13, <3>1, CancelIs
    <3>3. ASSUME NEW m \in Positions
          PROVE  t[m].flight = u[m].flight +
                    (IF AtOrBelow(root, m) THEN CountBelow(c, m) - CountBelow(shared, m) ELSE 0)
      <4>1. PICK a, b, e, f : /\ a = u[m].flight /\ b = CountBelow(shared, m)
                              /\ e = CountBelow(Negated(shared), m) /\ f = CountBelow(c, m)
        OBVIOUS
      <4>2. a \in Int /\ b \in Int /\ e = -b /\ f = 0
        BY <2>1, <3>1, <4>1, CountNegated, CountNone
      <4>3. t[m].flight = a + (IF AtOrBelow(root, m) THEN e ELSE 0) BY <3>2, <4>1
      <4>4. e = f - b BY <4>2
      <4> QED BY <4>1, <4>3, <4>4
    <3> QED BY <1>8, <1>13, <3>2, <3>3, FlightSound
  <2> QED BY <2>2, <2>3
<1>16. y \in Minibatch BY <1>5, IdleType
<1>17. Settled(x) BY <1>2 DEF FlightInv
<1>18. ASSUME NEW m \in Positions
       PROVE  IF AtOrBelow(root, m)
              THEN t[m].flight = tree[m].flight + (CountBelow(c, m) - CountBelow(shared, m))
                                                + (InFlightOf(y, m) - InFlightOf(x, m))
              ELSE t[m].flight = tree[m].flight
  <2>1. PICK a, b, e, f : /\ a = tree[m].flight /\ b = VisitsAt(x.kept, m)
                          /\ e = CountBelow(c, m) /\ f = CountBelow(shared, m)
    OBVIOUS
  <2>2. a \in Int /\ b \in Int /\ e \in Int /\ f \in Int
    <3>1. a \in Int /\ e \in Int /\ f \in Int
      BY <1>8, <1>14, <2>1, NodeType, CountsType, CountBelowType
    <3>2. VisitsAt(leaves, m) \in Nat BY <1>11, ThroughIs
    <3> QED BY <1>10, <2>1, <3>1, <3>2
  <2>3. /\ x.picked = << >> /\ x.ready = << >>
        /\ x.met = NoCollisions /\ x.collisions = NoCollisions
    <3>1. x.at = "backup" /\ "backup" # "process" BY <1>6
    <3> QED BY <1>17, <3>1 DEF Settled
  <2>4. InFlightOf(x, m) = 0 + 0 + b + 0 + 0
    BY <2>1, <2>3, VisitsNone, CountNone DEF InFlightOf
  <2>5. InFlightOf(y, m) = 0 BY <1>5, IdleFlight
  <2>6. u[m].flight = a - (IF AtOrBelow(root, m) THEN b ELSE 0)
    BY <1>10, <1>13, <2>1 DEF Landed
  <2>7. t[m].flight = u[m].flight + (IF AtOrBelow(root, m) THEN e - f ELSE 0) BY <1>15, <2>1
  <2> QED BY <2>1, <2>2, <2>4, <2>5, <2>6, <2>7
<1>19. FlightMoved(t, c, x, y) BY <1>18 DEF FlightMoved
<1>20. \A m \in Positions : tree[m].edges \subseteq t[m].edges BY <1>13, <1>15 DEF Landed
<1>21. AllLinked(t, Some(c)) /\ EdgesGrow(t)
  <2>1. Some(NoCollisions) = {} BY DEF Some, NoCollisions
  <2>2. Some(c) \subseteq Some(shared) BY <1>4, <2>1
  <2>3. \A s \in Some(c) : Linked(tree, s) BY <2>2 DEF FlightInv
  <2> QED BY <1>20, <2>3, LinkedMore DEF AllLinked, EdgesGrow
<1>22. AllLinked(t, CollisionsOf(y)) /\ Settled(y)
  <2>1. Some(NoCollisions) = {} BY DEF Some, NoCollisions
  <2>2. /\ y.met = NoCollisions /\ y.collisions = NoCollisions /\ y.at = "gather"
        /\ y.picked = << >> /\ y.ready = << >>
    BY <1>5 DEF Idle
  <2> QED BY <2>1, <2>2 DEF AllLinked, CollisionsOf, Settled
<1>23. UNCHANGED <<head, root>> BY <1>6
<1> QED
  BY <1>1, <1>2, <1>6, <1>8, <1>14, <1>15, <1>16, <1>19, <1>21, <1>22, <1>23, FlightStep

\* Positions on the way to, or below, where a line leads.
Beside(S, n) == \A s \in S : AtOrBelow(s, n) \/ Below(n, s)

\* A move keeps the way to such positions, and what is in flight above one of them.
LEMMA MoveLinks ==
  ASSUME NEW t \in [Positions -> Node], NEW n \in Positions, n # << >>,
         NEW S \in SUBSET Positions, Beside(S, n), AllLinked(t, S), Linked(t, Parent(n)),
         NEW u, u = MakeMove(t, n)
  PROVE  /\ Linked(u, n) /\ AllLinked(u, S)
         /\ \A m \in Positions :
               u[m].flight = t[m].flight \/ (u[m].flight = 0 /\ \A s \in S : ~Below(m, s))
<1>1. PICK p : p = Parent(n) OBVIOUS
<1>2. p \in Positions /\ Below(p, n) /\ \A m \in Positions : Below(m, n) => AtOrBelow(m, p)
  BY <1>1, ParentOf
<1>3. PICK found : found = (n \in t[p].edges) OBVIOUS
<1>4. PICK spared : spared = IF found /\ Terminal(t[n]) THEN MakeNotTerminal(t, n) ELSE t OBVIOUS
<1>5. \A m \in Positions : spared[m].edges = t[m].edges /\ spared[m].flight = t[m].flight
  <2>1. PICK s : s = MakeNotTerminal(t, n) OBVIOUS
  <2>2. /\ \A m \in Positions : m # n => s[m] = t[m]
        /\ s[n].flight = t[n].flight /\ s[n].edges = t[n].edges
    BY <2>1, NotTerminalIs
  <2>3. \A m \in Positions : s[m].edges = t[m].edges /\ s[m].flight = t[m].flight BY <2>2
  <2> QED BY <1>4, <2>1, <2>3
<1>6. PICK x : x = [t[p] EXCEPT !.solid = FALSE, !.edges = IF found THEN @ ELSE {n}] OBVIOUS
<1>7. x.flight = t[p].flight /\ x.edges = IF found THEN t[p].edges ELSE {n}
  <2>1. PICK e : e = IF found THEN t[p].edges ELSE {n} OBVIOUS
  <2>2. t[p] \in Node BY <1>2
  <2>3. x = [t[p] EXCEPT !.solid = FALSE, !.edges = e] BY <1>6, <2>1
  <2>4. x.flight = t[p].flight /\ x.edges = e BY <2>2, <2>3 DEF Node
  <2> QED BY <2>1, <2>4
<1>8. u = [m \in Positions |->
            IF m = p THEN x
            ELSE IF Below(p, m) /\ ~(found /\ AtOrBelow(n, m)) THEN FreshNode
            ELSE spared[m]]
  BY <1>1, <1>3, <1>4, <1>6 DEF MakeMove
<1>9. \A s \in S : s \in Positions /\ Linked(t, s) /\ (AtOrBelow(s, n) \/ Below(n, s))
  BY DEF Beside, AllLinked
\* What is released leads nowhere.
<1>10. ASSUME NEW m \in Positions, NEW s \in S, Below(p, m), Below(m, s)
       PROVE  found /\ AtOrBelow(n, m)
  <2>1. s \in Positions BY <1>9
  <2>2. ~AtOrBelow(s, n)
    <3> SUFFICES ASSUME AtOrBelow(s, n) PROVE FALSE OBVIOUS
    <3>1. Below(m, n) BY <1>10, <2>1, BelowBelow DEF AtOrBelow
    <3>2. AtOrBelow(m, p) BY <1>2, <3>1
    <3> QED BY <1>2, <1>10, <3>2, BelowBelow DEF AtOrBelow
  <2>3. Below(n, s) BY <1>9, <2>2
  <2>4. found
    <3>1. Linked(t, s) BY <1>9
    <3>2. n \in t[Parent(n)].edges BY <2>3, <3>1 DEF Linked, AtOrBelow
    <3> QED BY <1>1, <1>3, <3>2
  <2>5. ~Below(m, n)
    <3> SUFFICES ASSUME Below(m, n) PROVE FALSE OBVIOUS
    <3>1. AtOrBelow(m, p) BY <1>2, <3>1
    <3> QED BY <1>2, <1>10, <3>1, BelowBelow DEF AtOrBelow
  <2>6. n = m \/ Below(n, m) \/ Below(m, n) BY <1>10, <2>1, <2>3, BelowBelow
  <2> QED BY <2>4, <2>5, <2>6 DEF AtOrBelow
<1>11. ASSUME NEW m \in Positions
       PROVE  u[m].flight = t[m].flight \/ (u[m].flight = 0 /\ \A s \in S : ~Below(m, s))
  <2>1. CASE m = p BY <1>7, <1>8, <2>1
  <2>2. CASE m # p /\ Below(p, m) /\ ~(found /\ AtOrBelow(n, m))
    <3>1. u[m] = FreshNode BY <1>8, <2>2
    <3>2. u[m].flight = 0 BY <3>1 DEF FreshNode
    <3> QED BY <1>10, <2>2, <3>2
  <2>3. CASE m # p /\ ~(Below(p, m) /\ ~(found /\ AtOrBelow(n, m))) BY <1>5, <1>8, <2>3
  <2> QED BY <2>1, <2>2, <2>3
<1>12. Linked(u, n)
  <2> SUFFICES ASSUME NEW e \in Positions, e # << >>, AtOrBelow(e, n)
               PROVE  e \in u[Parent(e)].edges
    BY DEF Linked
  <2>1. PICK q : q = Parent(e) OBVIOUS
  <2>2. q \in Positions /\ Below(q, e) BY <2>1, ParentOf
  <2>3. CASE e = n BY <1>1, <1>2, <1>3, <1>7, <1>8, <2>1, <2>3
  <2>4. CASE e # n
    <3>1. AtOrBelow(e, p) BY <1>2, <2>4 DEF AtOrBelow
    <3>2. e \in t[q].edges BY <1>1, <2>1, <3>1 DEF Linked
    <3>3. Below(q, p) BY <1>2, <2>2, <3>1, BelowBelow DEF AtOrBelow
    <3>4. q # p /\ ~Below(p, q) BY <1>2, <2>2, <3>3, BelowBelow
    <3>5. u[q] = spared[q] BY <1>8, <2>2, <3>4
    <3> QED BY <1>5, <2>1, <2>2, <3>2, <3>5
  <2> QED BY <2>3, <2>4
<1>13. ASSUME NEW s \in S PROVE Linked(u, s)
  <2> SUFFICES ASSUME NEW e \in Positions, e # << >>, AtOrBelow(e, s)
               PROVE  e \in u[Parent(e)].edges
    BY DEF Linked
  <2>1. PICK q : q = Parent(e) OBVIOUS
  <2>2. q \in Positions /\ Below(q, e) /\ e \in t[q].edges
    <3>1. Linked(t, s) BY <1>9
    <3> QED BY <2>1, <3>1, ParentOf DEF Linked
  <2>3. s \in Positions /\ Below(q, s) BY <1>9, <2>2, BelowBelow DEF AtOrBelow
  <2>4. CASE q = p
    <3>1. found
      <4>1. CASE Below(n, s)
        <5>1. Linked(t, s) BY <1>9
        <5>2. n \in t[Parent(n)].edges BY <4>1, <5>1 DEF Linked, AtOrBelow
        <5> QED BY <1>1, <1>3, <5>2
      <4>2. CASE AtOrBelow(s, n)
        <5>1. AtOrBelow(e, n) BY <2>3, <4>2, BelowBelow DEF AtOrBelow
        <5>2. ~Below(e, n)
          <6> SUFFICES ASSUME Below(e, n) PROVE FALSE OBVIOUS
          <6>1. AtOrBelow(e, p) BY <1>2, <6>1
          <6> QED BY <1>2, <2>2, <2>4, <6>1, BelowBelow DEF AtOrBelow
        <5>3. e = n BY <5>1, <5>2 DEF AtOrBelow
        <5> QED BY <1>3, <2>2, <2>4, <5>3
      <4> QED BY <1>9, <4>1, <4>2
    <3> QED BY <1>7, <1>8, <2>1, <2>2, <2>4, <3>1
  <2>5. CASE q # p
    <3>1. ~(Below(p, q) /\ ~(found /\ AtOrBelow(n, q))) BY <1>10, <2>2, <2>3
    <3>2. u[q] = spared[q] BY <1>8, <2>2, <2>5, <3>1
    <3> QED BY <1>5, <2>1, <2>2, <3>2
  <2> QED BY <2>4, <2>5
<1> QED BY <1>11, <1>12, <1>13 DEF AllLinked

LEMMA FirstMovesAre ==
  ASSUME NEW n \in Positions
  PROVE  /\ Len(n) \in Nat /\ FirstMoves(n, Len(n)) = n /\ FirstMoves(n, 0) = << >>
         /\ \A i \in 0 .. Len(n) : FirstMoves(n, i) \in Positions /\ AtOrBelow(FirstMoves(n, i), n)
         /\ \A i \in 1 .. Len(n) : /\ FirstMoves(n, i) # << >>
                                   /\ Parent(FirstMoves(n, i)) = FirstMoves(n, i - 1)
<1>1. PICK k : k = Len(n) OBVIOUS
<1>2. k \in Nat BY <1>1, Pos
<1>3. ASSUME NEW i \in 0 .. k
      PROVE  /\ FirstMoves(n, i) \in Positions /\ Len(FirstMoves(n, i)) = i
             /\ \A j \in 1 .. i : FirstMoves(n, i)[j] = n[j]
  BY <1>1, Beginnings DEF FirstMoves
<1>4. ASSUME NEW i \in 1 .. k
      PROVE  /\ FirstMoves(n, i) # << >> /\ Parent(FirstMoves(n, i)) = FirstMoves(n, i - 1)
  <2>1. PICK a, b : a = FirstMoves(n, i) /\ b = FirstMoves(n, i - 1) OBVIOUS
  <2>2. i \in 0 .. k /\ i - 1 \in 0 .. k BY <1>2
  <2>3. a \in Positions /\ Len(a) = i /\ \A j \in 1 .. i : a[j] = n[j] BY <1>3, <2>1, <2>2
  <2>4. b \in Positions /\ Len(b) = i - 1 /\ \A j \in 1 .. i - 1 : b[j] = n[j]
    BY <1>3, <2>1, <2>2
  <2>5. a # << >> BY <2>3, Pos
  <2>6. Parent(a) \in Positions /\ Len(Parent(a)) = i - 1 /\ \A j \in 1 .. i - 1 : Parent(a)[j] = a[j]
    BY <2>3, <2>5, ParentOf
  <2>7. \A j \in 1 .. i - 1 : Parent(a)[j] = b[j] BY <2>3, <2>4, <2>6
  <2>8. Parent(a) = b BY <2>4, <2>6, <2>7, SamePosition
  <2> QED BY <2>1, <2>5, <2>8
<1>5. FirstMoves(n, k) = n
  <2>1. k \in 0 .. k BY <1>2
  <2>2. PICK a : a = FirstMoves(n, k) OBVIOUS
  <2>3. a \in Positions /\ Len(a) = Len(n) /\ \A j \in 1 .. Len(a) : a[j] = n[j]
    BY <1>1, <1>3, <2>1, <2>2
  <2> QED BY <2>2, <2>3, SamePosition
<1>6. FirstMoves(n, 0) = << >>
  <2>1. 0 \in 0 .. k BY <1>2
  <2>2. FirstMoves(n, 0) \in Positions /\ Len(FirstMoves(n, 0)) = 0 BY <1>3, <2>1
  <2> QED BY <2>2, Pos
<1>7. ASSUME NEW i \in 0 .. k PROVE AtOrBelow(FirstMoves(n, i), n)
  <2>1. PICK a : a = FirstMoves(n, i) OBVIOUS
  <2>2. a \in Positions /\ Len(a) = i /\ \A j \in 1 .. i : a[j] = n[j] BY <1>3, <2>1
  <2>3. Len(a) <= Len(n) BY <1>1, <1>2, <2>2
  <2> QED BY <2>1, <2>2, <2>3, IsAtOrBelow
<1> QED BY <1>1, <1>2, <1>3, <1>4, <1>5, <1>6, <1>7

\* So does a line.
LEMMA LineLinks ==
  ASSUME NEW t \in [Positions -> Node], NEW n \in Positions,
         NEW S \in SUBSET Positions, Beside(S, n), AllLinked(t, S),
         NEW u, u = PlayLine(t, n)
  PROVE  /\ Linked(u, n) /\ AllLinked(u, S)
         /\ \A m \in Positions :
               u[m].flight = t[m].flight \/ (u[m].flight = 0 /\ \A s \in S : ~Below(m, s))
<1>1. PICK k : k = Len(n) OBVIOUS
<1>2. /\ k \in Nat /\ FirstMoves(n, k) = n /\ FirstMoves(n, 0) = << >>
      /\ \A i \in 0 .. k : FirstMoves(n, i) \in Positions /\ AtOrBelow(FirstMoves(n, i), n)
      /\ \A i \in 1 .. k : /\ FirstMoves(n, i) # << >>
                           /\ Parent(FirstMoves(n, i)) = FirstMoves(n, i - 1)
  BY <1>1, FirstMovesAre
<1>3. PICK g : /\ PlayLine(t, n) = g[k] /\ g[0] = t
               /\ \A i \in 1 .. k : g[i] = MakeMove(g[i - 1], FirstMoves(n, i))
  BY <1>1, <1>2, LineRun
<1> DEFINE P(i) == /\ g[i] \in [Positions -> Node] /\ Linked(g[i], FirstMoves(n, i))
                   /\ AllLinked(g[i], S)
                   /\ \A m \in Positions :
                         g[i][m].flight = t[m].flight \/ (g[i][m].flight = 0 /\ \A s \in S : ~Below(m, s))
           T == {i \in 0 .. k : P(i)}
<1>4. P(0)
  <2>1. Linked(t, << >>)
    <3> SUFFICES ASSUME NEW e \in Positions, e # << >>, AtOrBelow(e, << >>) PROVE FALSE
      BY DEF Linked
    <3>1. << >> \in Positions /\ AtOrBelow(<< >>, e) BY RootAbove, GameAssumption
    <3> QED BY <3>1, BelowBelow DEF AtOrBelow
  <2> QED BY <1>2, <1>3, <2>1
<1>5. ASSUME NEW i \in 1 .. k, P(i - 1) PROVE P(i)
  <2>1. PICK a, s, v : a = FirstMoves(n, i) /\ s = g[i - 1] /\ v = g[i] OBVIOUS
  <2>2. i \in 0 .. k /\ i - 1 \in 0 .. k BY <1>2
  <2>3. a \in Positions /\ a # << >> /\ Parent(a) = FirstMoves(n, i - 1) /\ AtOrBelow(a, n)
    BY <1>2, <2>1, <2>2
  <2>4. /\ s \in [Positions -> Node] /\ Linked(s, Parent(a)) /\ AllLinked(s, S)
        /\ \A m \in Positions :
              s[m].flight = t[m].flight \/ (s[m].flight = 0 /\ \A c \in S : ~Below(m, c))
    BY <1>5, <2>1, <2>3
  <2>5. v = MakeMove(s, a) BY <1>3, <2>1
  <2>6. Beside(S, a)
    <3>1. ASSUME NEW c \in S PROVE AtOrBelow(c, a) \/ Below(a, c)
      <4>1. c \in Positions /\ (AtOrBelow(c, n) \/ Below(n, c)) BY DEF Beside
      <4> QED BY <2>3, <4>1, BelowBelow DEF AtOrBelow
    <3> QED BY <3>1 DEF Beside
  <2>7. v \in [Positions -> Node]
    <3>1. MakeMove(s, a) \in [Positions -> Node] BY <2>3, <2>4, MoveIs
    <3> QED BY <2>5, <3>1
  <2>8. /\ Linked(v, a) /\ AllLinked(v, S)
        /\ \A m \in Positions :
              v[m].flight = s[m].flight \/ (v[m].flight = 0 /\ \A c \in S : ~Below(m, c))
    BY <2>3, <2>4, <2>5, <2>6, MoveLinks
  <2>9. ASSUME NEW m \in Positions
        PROVE  v[m].flight = t[m].flight \/ (v[m].flight = 0 /\ \A c \in S : ~Below(m, c))
    BY <2>4, <2>8
  <2> QED BY <2>1, <2>7, <2>8, <2>9
<1> HIDE DEF P
<1>6. P(k)
  <2>1. 0 \in T /\ \A i \in 1 .. k : i - 1 \in T => i \in T BY <1>2, <1>4, <1>5
  <2> HIDE DEF T
  <2> QED BY <1>2, <2>1, UpTo DEF T
<1> QED BY <1>2, <1>3, <1>6 DEF P

\* Without a minibatch, what is in flight is shared.
LEMMA StoppedFlight ==
  ASSUME NEW c \in [Positions -> Int], NEW b \in [Workers -> Minibatch],
         \A w \in Workers : b[w] = Idle, NEW n
  PROVE  CountBelow(c, n) + SumFunction([w \in Workers |-> InFlightOf(b[w], n)]) = CountBelow(c, n)
<1>1. PICK f : f = [w \in Workers |-> InFlightOf(b[w], n)] OBVIOUS
<1>2. \A w \in Workers : f[w] = 0 BY <1>1, IdleFlight
<1>3. SumFunction(f) = SumFunctionOnSet(f, Workers) BY <1>1 DEF SumFunction
<1>4. SumFunctionOnSet(f, Workers) = 0 BY <1>2, SumZero, SearchAssumption
<1>5. CountBelow(c, n) \in Int BY CountsType, CountBelowType
<1> QED BY <1>1, <1>3, <1>4, <1>5

\* What must hold between two searches.
LEMMA FlightStopped ==
  ASSUME NEW t \in [Positions -> Node], tree' = t, NEW r \in Positions, root' = r,
         NEW c \in [Positions -> Int], shared' = c, TypeOK', Stopped',
         \A m \in Positions : t[m].flight = IF AtOrBelow(r, m) THEN CountBelow(c, m) ELSE 0,
         Linked(t, head'), AllLinked(t, Some(c))
  PROVE  FlightInv'
<1>1. worker' \in [Workers -> Minibatch] /\ \A w \in Workers : worker'[w] = Idle
  BY DEF TypeOK, Stopped
<1>2. ASSUME NEW n \in Positions
      PROVE  (tree[n].flight = IF AtOrBelow(root, n) THEN InFlight(n) ELSE 0)'
  <2>1. CountBelow(c, n) + SumFunction([w \in Workers |-> InFlightOf(worker'[w], n)]) = CountBelow(c, n)
    BY <1>1, StoppedFlight
  <2>2. InFlight(n)' = CountBelow(c, n) BY <2>1 DEF InFlight
  <2>3. t[n].flight = IF AtOrBelow(r, n) THEN CountBelow(c, n) ELSE 0 OBVIOUS
  <2> QED BY <2>2, <2>3
<1>3. ASSUME NEW w \in Workers PROVE Settled(worker'[w]) /\ CollisionsOf(worker'[w]) = {}
  <2>1. Some(NoCollisions) = {} BY DEF Some, NoCollisions
  <2>2. PICK y : y = Idle OBVIOUS
  <2>3. /\ y.met = NoCollisions /\ y.collisions = NoCollisions /\ y.at = "gather"
        /\ y.picked = << >> /\ y.ready = << >>
    BY <2>2 DEF Idle
  <2> QED BY <1>1, <2>1, <2>2, <2>3 DEF Settled, CollisionsOf
<1>4. \A w \in Workers : Settled(worker[w])' BY <1>3 DEF Settled
<1>5. \A w \in Workers : \A s \in CollisionsOf(worker[w])' : Linked(tree, s)'
  <2>1. \A w \in Workers : CollisionsOf(worker[w])' = {} BY <1>3 DEF CollisionsOf, Some
  <2> QED BY <2>1
<1>6. Linked(tree, head)' BY DEF Linked
<1>7. \A s \in Some(shared)' : Linked(tree, s)' BY DEF AllLinked, Linked, Some
<1> QED BY <1>2, <1>4, <1>5, <1>6, <1>7 DEF FlightInv

LEMMA StoppedNow ==
  ASSUME TypeOK, FlightInv, Stopped, NEW m \in Positions
  PROVE  tree[m].flight = IF AtOrBelow(root, m) THEN CountBelow(shared, m) ELSE 0
<1>1. CountBelow(shared, m) + SumFunction([w \in Workers |-> InFlightOf(worker[w], m)])
        = CountBelow(shared, m)
  BY StoppedFlight DEF TypeOK, Stopped
<1>2. tree[m].flight = IF AtOrBelow(root, m) THEN InFlight(m) ELSE 0 BY DEF FlightInv
<1> QED BY <1>1, <1>2 DEF InFlight

LEMMA NothingBelow ==
  ASSUME NEW c, NEW m, \A s \in Some(c) : ~Below(m, s) PROVE CountBelow(c, m) = 0
<1>1. {s \in Some(c) : Below(m, s)} = {} OBVIOUS
<1> QED BY <1>1, SumNone DEF CountBelow

\* Between two searches a line releases nothing that is in flight.
LEMMA SetPositionFlight == ASSUME BoundsInv, FlightInv, SetPosition PROVE FlightInv'
<1>1. TypeOK /\ Stopped BY DEF BoundsInv, SetPosition
<1>2. PICK n \in Lines : /\ Some(shared) \cap Uprooted(n) = {}
                         /\ tree' = ResetToPosition(tree, head, n) /\ head' = n
  BY DEF SetPosition
<1>3. UNCHANGED <<root, worker, shared>> BY DEF SetPosition
<1>4. /\ n \in Positions /\ head \in Positions /\ tree \in [Positions -> Node]
      /\ root \in Positions /\ shared \in [Positions -> Int]
  BY <1>1, SearchAssumption DEF TypeOK
<1>5. PICK S, c : S = Some(shared) /\ c = shared OBVIOUS
<1>6. S \in SUBSET Positions BY <1>4, <1>5 DEF Some
<1>7. \A s \in S : AtOrBelow(s, n) \/ (AtOrBelow(head, n) /\ Below(n, s))
  BY <1>2, <1>5, <1>6 DEF Uprooted
<1>8. Beside(S, n) BY <1>7 DEF Beside
<1>9. AllLinked(tree, S) BY <1>5 DEF FlightInv, AllLinked
<1>10. PICK led : led = PlayLine(tree, n) OBVIOUS
<1>11. /\ Linked(led, n) /\ AllLinked(led, S)
       /\ \A m \in Positions :
             led[m].flight = tree[m].flight \/ (led[m].flight = 0 /\ \A s \in S : ~Below(m, s))
  BY <1>4, <1>6, <1>8, <1>9, <1>10, LineLinks
<1>12. \A m \in Positions :
          led[m].flight = IF AtOrBelow(root, m) THEN CountBelow(c, m) ELSE 0
  <2> SUFFICES ASSUME NEW m \in Positions
               PROVE  led[m].flight = IF AtOrBelow(root, m) THEN CountBelow(c, m) ELSE 0
    OBVIOUS
  <2>1. tree[m].flight = IF AtOrBelow(root, m) THEN CountBelow(c, m) ELSE 0
    BY <1>1, <1>5, StoppedNow
  <2>2. CASE led[m].flight = tree[m].flight BY <2>1, <2>2
  <2>3. CASE led[m].flight = 0 /\ \A s \in S : ~Below(m, s)
    <3>1. CountBelow(c, m) = 0 BY <1>5, <2>3, NothingBelow
    <3> QED BY <2>3, <3>1
  <2> QED BY <1>11, <2>2, <2>3
<1>13. PICK u : u = ResetToPosition(tree, head, n) OBVIOUS
<1>14. /\ Linked(u, n) /\ AllLinked(u, S)
       /\ \A m \in Positions : u[m].flight = IF AtOrBelow(root, m) THEN CountBelow(c, m) ELSE 0
  <2>1. CASE AtOrBelow(head, n)
    <3>1. u = led BY <1>10, <1>13, <2>1 DEF ResetToPosition
    <3> QED BY <1>11, <1>12, <3>1
  <2>2. CASE ~AtOrBelow(head, n)
    <3>1. u = Trim(led, n) BY <1>10, <1>13, <2>2 DEF ResetToPosition
    <3>2. \A m \in Positions : u[m] = IF AtOrBelow(n, m) THEN FreshNode ELSE led[m]
      BY <3>1 DEF Trim
    <3>3. ASSUME NEW e \in Positions, e # << >>, AtOrBelow(e, n) PROVE u[Parent(e)] = led[Parent(e)]
      <4>1. Parent(e) \in Positions /\ Below(Parent(e), e) BY <3>3, ParentOf
      <4>2. ~AtOrBelow(n, Parent(e)) BY <1>4, <3>3, <4>1, BelowBelow DEF AtOrBelow
      <4> QED BY <3>2, <4>1, <4>2
    <3>4. Linked(u, n) BY <1>11, <3>3 DEF Linked
    <3>5. ASSUME NEW s \in S PROVE Linked(u, s)
      <4>1. s \in Positions /\ AtOrBelow(s, n) BY <1>6, <1>7, <2>2
      <4>2. \A e \in Positions : AtOrBelow(e, s) => AtOrBelow(e, n)
        BY <1>4, <4>1, BelowBelow DEF AtOrBelow
      <4>3. Linked(led, s) BY <1>11 DEF AllLinked
      <4> QED BY <3>3, <4>2, <4>3 DEF Linked
    <3>6. ASSUME NEW m \in Positions
          PROVE  u[m].flight = IF AtOrBelow(root, m) THEN CountBelow(c, m) ELSE 0
      <4>1. CASE ~AtOrBelow(n, m) BY <1>12, <3>2, <4>1
      <4>2. CASE AtOrBelow(n, m)
        <5>1. u[m].flight = 0 BY <3>2, <4>2 DEF FreshNode
        <5>2. ASSUME NEW s \in S PROVE ~Below(m, s)
          <6>1. s \in Positions /\ AtOrBelow(s, n) BY <1>6, <1>7, <2>2
          <6> QED BY <1>4, <4>2, <6>1, BelowBelow DEF AtOrBelow
        <5>3. CountBelow(c, m) = 0 BY <1>5, <5>2, NothingBelow
        <5> QED BY <5>1, <5>3
      <4> QED BY <4>1, <4>2
    <3> QED BY <3>4, <3>5, <3>6 DEF AllLinked
  <2> QED BY <2>1, <2>2
<1>15. TypeOK' BY SetPositionBounds DEF BoundsInv
<1>16. Stopped' BY <1>1, <1>3 DEF Stopped
<1>17. u \in [Positions -> Node] BY <1>2, <1>13, <1>15 DEF TypeOK
<1>18. tree' = u /\ root' = root /\ shared' = c /\ c \in [Positions -> Int] /\ head' = n
  BY <1>2, <1>3, <1>4, <1>5, <1>13
<1>19. Linked(u, head') /\ AllLinked(u, Some(c)) BY <1>5, <1>14, <1>18
<1> QED BY <1>4, <1>14, <1>15, <1>16, <1>17, <1>18, <1>19, FlightStopped

\* A new search takes the last shared collisions out of flight.
LEMMA GoFlight == ASSUME BoundsInv, FlightInv, Go PROVE FlightInv'
<1>1. TypeOK /\ Stopped BY DEF BoundsInv, Go, Phases
<1>2. PICK clear \in BOOLEAN :
        /\ clear => \A s \in Some(shared) : ~AtOrBelow(head, s)
        /\ tree' = Cancel(IF clear THEN Trim(tree, head) ELSE tree, shared)
  BY DEF Go
<1>3. root' = head /\ shared' = NoCollisions /\ UNCHANGED <<head, worker>> BY DEF Go
<1>4. head \in Positions /\ tree \in [Positions -> Node] /\ shared \in [Positions -> Int]
  BY <1>1 DEF TypeOK
<1>5. PICK t, u, c : /\ t = (IF clear THEN Trim(tree, head) ELSE tree) /\ u = Cancel(t, shared)
                     /\ c = NoCollisions
  OBVIOUS
<1>6. /\ t \in [Positions -> Node]
      /\ \A m \in Positions : t[m] = IF clear /\ AtOrBelow(head, m) THEN FreshNode ELSE tree[m]
  <2>1. CASE clear
    <3>1. t = Trim(tree, head) BY <1>5, <2>1
    <3> QED BY <1>4, <2>1, <3>1, TrimIs
  <2>2. CASE ~clear BY <1>4, <1>5, <2>2
  <2> QED BY <2>1, <2>2
<1>7. Counts(shared) BY <1>4 DEF Counts
<1>8. /\ FlightOnly(t, u)
      /\ \A m \in Positions : u[m].flight =
            t[m].flight + (IF AtOrBelow(root, m) THEN CountBelow(Negated(shared), m) ELSE 0)
  BY <1>5, <1>6, <1>7, CancelIs
<1>9. u \in [Positions -> Node] /\ \A m \in Positions : u[m].edges = t[m].edges
  BY <1>4, <1>6, <1>8, FlightSound
<1>10. ASSUME NEW m \in Positions PROVE u[m].flight = 0
  <2>1. PICK a, b : a = CountBelow(shared, m) /\ b = CountBelow(Negated(shared), m) OBVIOUS
  <2>2. a \in Int /\ b \in Int /\ a + b = 0
    <3>1. a \in Int /\ b = -a BY <1>7, <2>1, CountNegated, CountBelowType
    <3> QED BY <3>1
  <2>3. u[m].flight = t[m].flight + (IF AtOrBelow(root, m) THEN b ELSE 0) BY <1>8, <2>1
  <2>4. tree[m].flight = IF AtOrBelow(root, m) THEN a ELSE 0 BY <1>1, <2>1, StoppedNow
  <2>5. CASE clear /\ AtOrBelow(head, m)
    <3>1. t[m].flight = 0 BY <1>6, <2>5 DEF FreshNode
    <3>2. ASSUME NEW s \in Some(shared) PROVE ~Below(m, s)
      <4>1. s \in Positions /\ ~AtOrBelow(head, s) BY <1>2, <1>4, <2>5 DEF Some
      <4> QED BY <1>4, <2>5, <4>1, BelowBelow DEF AtOrBelow
    <3>3. a = 0 BY <2>1, <3>2, NothingBelow
    <3>4. b = 0 BY <2>2, <3>3
    <3>5. (IF AtOrBelow(root, m) THEN b ELSE 0) = 0 BY <3>4
    <3> QED BY <2>3, <3>1, <3>5
  <2>6. CASE ~(clear /\ AtOrBelow(head, m))
    <3>1. t[m].flight = tree[m].flight BY <1>6, <2>6
    <3> QED BY <2>2, <2>3, <2>4, <3>1
  <2> QED BY <2>5, <2>6
<1>11. ASSUME NEW m \in Positions
       PROVE  u[m].flight = IF AtOrBelow(head, m) THEN CountBelow(c, m) ELSE 0
  BY <1>5, <1>10, CountNone
<1>12. Linked(u, head)
  <2> SUFFICES ASSUME NEW e \in Positions, e # << >>, AtOrBelow(e, head)
               PROVE  e \in u[Parent(e)].edges
    BY DEF Linked
  <2>1. Linked(tree, head) BY DEF FlightInv
  <2>2. Parent(e) \in Positions /\ Below(Parent(e), e) BY ParentOf
  <2>3. ~AtOrBelow(head, Parent(e)) BY <1>4, <2>2, BelowBelow DEF AtOrBelow
  <2>4. u[Parent(e)].edges = tree[Parent(e)].edges BY <1>6, <1>9, <2>2, <2>3
  <2> QED BY <2>1, <2>4 DEF Linked
<1>13. TypeOK' BY GoBounds DEF BoundsInv
<1>14. Stopped' BY <1>1, <1>3 DEF Stopped
<1>15. c \in [Positions -> Int] /\ AllLinked(u, Some(c))
  BY <1>5 DEF NoCollisions, AllLinked, Some
<1>16. tree' = u /\ root' = head /\ shared' = c /\ Linked(u, head') BY <1>2, <1>3, <1>5, <1>12
<1> QED BY <1>4, <1>9, <1>11, <1>13, <1>14, <1>15, <1>16, FlightStopped

LEMMA IdleParts ==
  /\ Idle.met = NoCollisions /\ Idle.collisions = NoCollisions /\ Idle.at = "gather"
  /\ Idle.picked = << >> /\ Idle.ready = << >>
<1>1. PICK y : y = Idle OBVIOUS
<1>2. /\ y.met = NoCollisions /\ y.collisions = NoCollisions /\ y.at = "gather"
      /\ y.picked = << >> /\ y.ready = << >>
  BY <1>1 DEF Idle
<1> QED BY <1>1, <1>2

LEMMA FlightInit == Init => FlightInv
<1> SUFFICES ASSUME Init PROVE FlightInv OBVIOUS
<1>1. /\ head = << >> /\ root = << >> /\ shared = NoCollisions
      /\ worker = [w \in Workers |-> Idle]
  BY DEF Init
<1>2. PICK o \in Openings : tree = Opened(o) BY DEF Init
<1>3. \A n \in Positions : tree[n].flight = 0 BY <1>1, <1>2, OpenedIs
<1>4. ASSUME NEW n \in Positions PROVE InFlight(n) = 0
  <2>1. shared \in [Positions -> Int] /\ worker \in [Workers -> Minibatch]
    BY <1>1, IdleType DEF NoCollisions
  <2>2. CountBelow(shared, n) + SumFunction([w \in Workers |-> InFlightOf(worker[w], n)])
          = CountBelow(shared, n)
    BY <1>1, <2>1, StoppedFlight
  <2>3. CountBelow(shared, n) = 0 BY <1>1, CountNone
  <2> QED BY <2>2, <2>3 DEF InFlight
<1>5. \A n \in Positions : tree[n].flight = IF AtOrBelow(root, n) THEN InFlight(n) ELSE 0
  BY <1>3, <1>4
<1>6. Some(NoCollisions) = {} BY DEF Some, NoCollisions
<1>7. \A w \in Workers : Settled(worker[w]) /\ CollisionsOf(worker[w]) = {}
  BY <1>1, <1>6, IdleParts DEF Settled, CollisionsOf
<1>8. Linked(tree, head)
  <2> SUFFICES ASSUME NEW e \in Positions, e # << >>, AtOrBelow(e, << >>) PROVE FALSE
    BY <1>1 DEF Linked
  <2>1. << >> \in Positions /\ AtOrBelow(<< >>, e) BY RootAbove, GameAssumption
  <2> QED BY <2>1, BelowBelow DEF AtOrBelow
<1> QED BY <1>1, <1>5, <1>6, <1>7, <1>8 DEF FlightInv

LEMMA FlightInvStep == BoundsInv /\ FlightInv /\ [Next]_vars => FlightInv'
<1> SUFFICES ASSUME BoundsInv, FlightInv, [Next]_vars PROVE FlightInv' OBVIOUS
<1>1. ASSUME NEW w \in Workers, Pick(w) PROVE FlightInv' BY <1>1, PickFlight
<1>2. ASSUME NEW w \in Workers, Extend(w) PROVE FlightInv' BY <1>2, ExtendFlight
<1>3. ASSUME NEW w \in Workers, Settling(w) PROVE FlightInv' BY <1>3, SettlingFlight
<1>4. ASSUME NEW w \in Workers, Upsize(w) PROVE FlightInv' BY <1>4, UpsizeFlight
<1>5. ASSUME NEW w \in Workers, CollectCollisions(w) PROVE FlightInv' BY <1>5, CollectFlight
<1>6. ASSUME NEW w \in Workers, DoBackupUpdate(w) PROVE FlightInv' BY <1>6, DoBackupFlight
<1>7. ASSUME SetPosition PROVE FlightInv' BY <1>7, SetPositionFlight
<1>8. ASSUME Go PROVE FlightInv' BY <1>8, GoFlight
<1>9. ASSUME UNCHANGED vars PROVE FlightInv'
  BY <1>9 DEF vars, FlightInv, InFlight, Settled, Linked, CollisionsOf, CountBelow, InFlightOf, Some
<1> QED BY <1>1, <1>2, <1>3, <1>4, <1>5, <1>6, <1>7, <1>8, <1>9 DEF Next, Settling

\* At every step of every search what is in flight at a node below the root is the visits and the
\* collisions of the minibatches that passed it and the collisions the threads share: every
\* visit is finalized or cancelled, and every collision cancelled, exactly once
\* (search.cc:1064-1073, 1385-1434, 2009-2018, 2198).
THEOREM TreeFlightInvariant == Spec => []FlightInv
<1>1. Init => FlightInv BY FlightInit
<1>2. BoundsInv /\ FlightInv /\ [Next]_vars => FlightInv' BY FlightInvStep
<1>3. Spec => []BoundsInv BY TreeBoundsInvariant
<1> QED BY <1>1, <1>2, <1>3, PTL DEF Spec

\* No virtual loss is left behind: what is in flight at a node of the searched subtree is exactly
\* what the threads have there, and nothing when they have nothing (search.cc:1064-1073, 2198).
THEOREM FlightTrue == Spec => []InFlightExact
<1>1. FlightInv => InFlightExact BY DEF FlightInv, InFlightExact, InFlight
<1> QED BY <1>1, TreeFlightInvariant, PTL

-----------------------------------------------------------------------------
(***************************************************************************)
(* A node that is held stays                                               *)
(***************************************************************************)

\* Sums of parts.
LEMMA SumBoth ==
  ASSUME NEW f, NEW S, NEW T, IsFiniteSet(S), IsFiniteSet(T), S \cap T = {},
         \A x \in S \cup T : f[x] \in Int
  PROVE  SumFunctionOnSet(f, S \cup T) = SumFunctionOnSet(f, S) + SumFunctionOnSet(f, T)
<1>1. PICK U : U = S \cup T OBVIOUS
<1>2. IsFiniteSet(U) BY <1>1, FS_Union
<1>3. PICK g, h : /\ g = [x \in U |-> IF x \in S THEN f[x] ELSE 0]
                  /\ h = [x \in U |-> IF x \in S THEN 0 ELSE f[x]]
  OBVIOUS
<1>4. \A x \in U : g[x] \in Int /\ h[x] \in Int /\ f[x] = g[x] + h[x]
  <2> SUFFICES ASSUME NEW x \in U PROVE g[x] \in Int /\ h[x] \in Int /\ f[x] = g[x] + h[x]
    OBVIOUS
  <2>1. PICK a : a = f[x] OBVIOUS
  <2>2. a \in Int BY <1>1, <2>1
  <2>3. CASE x \in S
    <3>1. g[x] = a /\ h[x] = 0 BY <1>3, <2>1, <2>3
    <3> QED BY <2>1, <2>2, <3>1
  <2>4. CASE x \notin S
    <3>1. g[x] = 0 /\ h[x] = a BY <1>3, <2>1, <2>4
    <3> QED BY <2>1, <2>2, <3>1
  <2> QED BY <2>3, <2>4
<1>5. SumFunctionOnSet(f, U) = SumFunctionOnSet(g, U) + SumFunctionOnSet(h, U)
  BY <1>2, <1>4, SumAdd
<1>6. SumFunctionOnSet(g, U) = SumFunctionOnSet(f, S)
  <2>1. S \subseteq U /\ \A x \in U \ S : g[x] = 0 BY <1>1, <1>3
  <2>2. SumFunctionOnSet(g, U) = SumFunctionOnSet(g, S) BY <1>2, <1>4, <2>1, SumSub
  <2>3. \A x \in S : g[x] = f[x] BY <1>1, <1>3
  <2> QED BY <2>2, <2>3, SumSame
<1>7. SumFunctionOnSet(h, U) = SumFunctionOnSet(f, T)
  <2>1. T \subseteq U /\ \A x \in U \ T : h[x] = 0 BY <1>1, <1>3
  <2>2. SumFunctionOnSet(h, U) = SumFunctionOnSet(h, T) BY <1>2, <1>4, <2>1, SumSub
  <2>3. \A x \in T : h[x] = f[x] BY <1>1, <1>3
  <2> QED BY <2>2, <2>3, SumSame
<1> QED BY <1>1, <1>5, <1>6, <1>7

\* A sum of what is not negative is at least each of its parts.
LEMMA SumNat ==
  ASSUME NEW f, NEW S, IsFiniteSet(S), \A x \in S : f[x] \in Int /\ f[x] >= 0
  PROVE  SumFunctionOnSet(f, S) >= 0 /\ \A x \in S : SumFunctionOnSet(f, S) >= f[x]
<1> DEFINE W == {s \in SUBSET S : ~(SumFunctionOnSet(f, s) >= 0)}
<1>1. W = {}
  <2> SUFFICES ASSUME W # {} PROVE FALSE OBVIOUS
  <2>0. W \subseteq SUBSET S OBVIOUS
  <2> HIDE DEF W
  <2>1. PICK s \in W : \A u \in SUBSET s : u # s => u \notin W BY <2>0, SetMin
  <2>2. s \in SUBSET S /\ IsFiniteSet(s) BY <2>0, FS_Subset
  <2>3. CASE s = {} BY <2>1, <2>3, SumNone DEF W
  <2>4. CASE s # {}
    <3>1. PICK x \in s : SumFunctionOnSet(f, s) = f[x] + SumFunctionOnSet(f, s \ {x})
      BY <2>2, <2>4, SumPeel
    <3>2. PICK d : d = s \ {x} OBVIOUS
    <3>3. d \notin W /\ d \in SUBSET S /\ IsFiniteSet(d) BY <2>1, <2>2, <3>1, <3>2, FS_Subset
    <3>4. SumFunctionOnSet(f, d) >= 0 /\ SumFunctionOnSet(f, d) \in Int BY <3>3, SumType DEF W
    <3>5. f[x] \in Int /\ f[x] >= 0 BY <2>2
    <3>6. SumFunctionOnSet(f, s) >= 0 BY <3>1, <3>2, <3>4, <3>5
    <3> QED BY <2>1, <3>6 DEF W
  <2> QED BY <2>3, <2>4
<1>2. ASSUME NEW s \in SUBSET S PROVE SumFunctionOnSet(f, s) >= 0 BY <1>1
<1>3. ASSUME NEW x \in S PROVE SumFunctionOnSet(f, S) >= f[x]
  <2>1. PICK d : d = S \ {x} OBVIOUS
  <2>2. d \in SUBSET S /\ IsFiniteSet(d) BY <2>1, FS_Subset
  <2>3. SumFunctionOnSet(f, S) = f[x] + SumFunctionOnSet(f, d) BY <2>1, SumTake
  <2>4. SumFunctionOnSet(f, d) >= 0 /\ SumFunctionOnSet(f, d) \in Int BY <1>2, <2>2, SumType
  <2> QED BY <2>3, <2>4
<1> QED BY <1>2, <1>3

\* The larger of two sums exceeds the other by no less than at any one place.
LEMMA SumMore ==
  ASSUME NEW f, NEW g, NEW S, IsFiniteSet(S),
         \A x \in S : f[x] \in Int /\ g[x] \in Int /\ f[x] <= g[x]
  PROVE  /\ SumFunctionOnSet(f, S) <= SumFunctionOnSet(g, S)
         /\ \A x \in S : g[x] - f[x] <= SumFunctionOnSet(g, S) - SumFunctionOnSet(f, S)
<1>1. PICK h : h = [x \in S |-> g[x] - f[x]] OBVIOUS
<1>2. \A x \in S : h[x] \in Int /\ h[x] >= 0 /\ g[x] = f[x] + h[x] /\ h[x] = g[x] - f[x]
  <2> SUFFICES ASSUME NEW x \in S
               PROVE  h[x] \in Int /\ h[x] >= 0 /\ g[x] = f[x] + h[x] /\ h[x] = g[x] - f[x]
    OBVIOUS
  <2>1. h[x] = g[x] - f[x] BY <1>1
  <2> QED BY <2>1
<1>3. SumFunctionOnSet(g, S) = SumFunctionOnSet(f, S) + SumFunctionOnSet(h, S) BY <1>2, SumAdd
<1>4. /\ SumFunctionOnSet(h, S) >= 0 /\ \A x \in S : SumFunctionOnSet(h, S) >= h[x]
      /\ SumFunctionOnSet(h, S) \in Int /\ SumFunctionOnSet(f, S) \in Int
  BY <1>2, SumNat, SumType
<1>5. PICK a, b, c : /\ a = SumFunctionOnSet(f, S) /\ b = SumFunctionOnSet(g, S)
                     /\ c = SumFunctionOnSet(h, S)
  OBVIOUS
<1>6. a \in Int /\ c \in Int /\ b = a + c /\ c >= 0 BY <1>3, <1>4, <1>5
<1>7. ASSUME NEW x \in S PROVE g[x] - f[x] <= b - a
  <2>1. h[x] <= c /\ h[x] \in Int /\ h[x] = g[x] - f[x] BY <1>2, <1>4, <1>5
  <2> QED BY <1>6, <2>1
<1> QED BY <1>5, <1>6, <1>7

\* No position is below two children of a node.
LEMMA Apart ==
  ASSUME NEW p \in Positions, NEW d \in Children(p), NEW e \in Children(p), NEW m \in Positions,
         AtOrBelow(d, m), AtOrBelow(e, m)
  PROVE  d = e
<1>1. d \in Positions /\ d # << >> /\ Parent(d) = p /\ e \in Positions /\ e # << >> /\ Parent(e) = p
  BY ChildOf
<1>2. Len(p) = Len(d) - 1 /\ Len(p) = Len(e) - 1 /\ Len(d) \in Nat /\ Len(e) \in Nat
  BY <1>1, ParentOf, Pos
<1>3. Len(d) = Len(e) BY <1>2
<1>4. \A i \in 1 .. Len(d) : d[i] = e[i] BY <1>1, <1>3, IsAtOrBelow
<1> QED BY <1>1, <1>3, <1>4, SamePosition

\* What is counted in parts that have nothing in common is no more than all there is.
LEMMA SumApart ==
  ASSUME NEW f, NEW I, IsFiniteSet(I), \A x \in I : f[x] \in Int /\ f[x] >= 0,
         NEW D, IsFiniteSet(D), NEW S, \A d \in D : S[d] \subseteq I,
         \A d, e \in D : d # e => S[d] \cap S[e] = {},
         NEW g, \A d \in D : g[d] = SumFunctionOnSet(f, S[d])
  PROVE  SumFunctionOnSet(g, D) <= SumFunctionOnSet(f, I)
<1> DEFINE U(E) == UNION {S[d] : d \in E}
           W == {E \in SUBSET D : SumFunctionOnSet(g, E) # SumFunctionOnSet(f, U(E))}
<1>1. \A E \in SUBSET D : U(E) \subseteq I /\ IsFiniteSet(U(E))
  <2>1. \A E \in SUBSET D : U(E) \subseteq I OBVIOUS
  <2> HIDE DEF U
  <2> QED BY <2>1, FS_Subset
<1>2. \A d \in D : g[d] \in Int
  <2> SUFFICES ASSUME NEW d \in D PROVE g[d] \in Int OBVIOUS
  <2>1. S[d] \subseteq I OBVIOUS
  <2>2. IsFiniteSet(S[d]) BY <2>1, FS_Subset
  <2>3. \A x \in S[d] : f[x] \in Int BY <2>1
  <2>4. SumFunctionOnSet(f, S[d]) \in Int BY <2>2, <2>3, SumType
  <2> QED BY <2>4
<1>3. W = {}
  <2> SUFFICES ASSUME W # {} PROVE FALSE OBVIOUS
  <2>0. W \subseteq SUBSET D OBVIOUS
  <2> HIDE DEF W
  <2>1. PICK E \in W : \A F \in SUBSET E : F # E => F \notin W BY <2>0, SetMin
  <2>2. E \in SUBSET D /\ IsFiniteSet(E) BY <2>0, FS_Subset
  <2>3. CASE E = {}
    <3>1. U(E) = {} BY <2>3
    <3> QED BY <2>1, <2>3, <3>1, SumNone DEF W
  <2>4. CASE E # {}
    <3>1. PICK d : d \in E BY <2>4
    <3>2. PICK F : F = E \ {d} OBVIOUS
    <3>3. F \in SUBSET E /\ F # E /\ F \in SUBSET D /\ d \in D BY <2>2, <3>1, <3>2
    <3>4. SumFunctionOnSet(g, F) = SumFunctionOnSet(f, U(F)) BY <2>1, <3>3 DEF W
    <3>5. SumFunctionOnSet(g, E) = g[d] + SumFunctionOnSet(g, F)
      <4>1. \A x \in E : g[x] \in Int BY <1>2, <2>2
      <4> QED BY <2>2, <3>1, <3>2, <4>1, SumTake
    <3>6. U(E) = S[d] \cup U(F) /\ S[d] \cap U(F) = {}
      <4>1. E = {d} \cup F /\ d \notin F BY <3>1, <3>2
      <4>2. \A e \in F : S[d] \cap S[e] = {} BY <3>3, <4>1
      <4> QED BY <4>1, <4>2
    <3>7. IsFiniteSet(S[d]) /\ IsFiniteSet(U(F)) /\ S[d] \subseteq I /\ U(F) \subseteq I
      BY <1>1, <3>3, FS_Subset
    <3>8. PICK A, B : A = S[d] /\ B = U(F) OBVIOUS
    <3>9. \A x \in A \cup B : f[x] \in Int BY <3>7, <3>8
    <3>10. SumFunctionOnSet(f, A \cup B) = SumFunctionOnSet(f, A) + SumFunctionOnSet(f, B)
      BY <3>6, <3>7, <3>8, <3>9, SumBoth
    <3>11. SumFunctionOnSet(f, U(E)) = g[d] + SumFunctionOnSet(g, F)
      BY <3>3, <3>4, <3>6, <3>8, <3>10
    <3> QED BY <2>1, <3>5, <3>11 DEF W
  <2> QED BY <2>3, <2>4
<1>4. D \in SUBSET D OBVIOUS
<1>5. SumFunctionOnSet(g, D) = SumFunctionOnSet(f, U(D)) BY <1>3, <1>4
<1>6. PICK A, B : A = U(D) /\ B = I \ A OBVIOUS
<1>7. A \cup B = I /\ A \cap B = {} /\ IsFiniteSet(A) /\ IsFiniteSet(B)
  BY <1>1, <1>4, <1>6, FS_Subset
<1>8. SumFunctionOnSet(f, I) = SumFunctionOnSet(f, A) + SumFunctionOnSet(f, B)
  BY <1>7, SumBoth
<1>9. SumFunctionOnSet(f, B) >= 0 /\ SumFunctionOnSet(f, A) \in Int /\ SumFunctionOnSet(f, B) \in Int
  <2>1. (\A x \in A : f[x] \in Int) /\ \A x \in B : f[x] \in Int /\ f[x] >= 0 BY <1>7
  <2> QED BY <1>7, <2>1, SumNat, SumType
<1> QED BY <1>5, <1>6, <1>8, <1>9

\* The order of summation does not matter.
Turned(A, B, S, T) == \A x \in S : \A y \in T : A[x][y] \in Int /\ B[y][x] = A[x][y]
RowSums(r, A, S, T) == \A x \in S : r[x] = SumFunctionOnSet(A[x], T)

LEMMA SumSwap ==
  ASSUME NEW A, NEW B, NEW S, NEW T, IsFiniteSet(S), IsFiniteSet(T), Turned(A, B, S, T),
         NEW r, RowSums(r, A, S, T), NEW q, RowSums(q, B, T, S)
  PROVE  SumFunctionOnSet(r, S) = SumFunctionOnSet(q, T)
<1>0. /\ \A x \in S : \A y \in T : A[x][y] \in Int
      /\ \A x \in S : r[x] = SumFunctionOnSet(A[x], T)
      /\ \A y \in T : \A x \in S : B[y][x] = A[x][y]
      /\ \A y \in T : q[y] = SumFunctionOnSet(B[y], S)
  BY DEF Turned, RowSums
<1> DEFINE Q(s) == [y \in T |-> SumFunctionOnSet(B[y], s)]
           W == {s \in SUBSET S : SumFunctionOnSet(r, s) # SumFunctionOnSet(Q(s), T)}
<1>1. \A y \in T : \A x \in S : B[y][x] = A[x][y] /\ B[y][x] \in Int BY <1>0
<1>2. \A s \in SUBSET S : \A y \in T : Q(s)[y] = SumFunctionOnSet(B[y], s) OBVIOUS
<1>3. \A y \in T : q[y] = SumFunctionOnSet(B[y], S) BY <1>0
<1> HIDE DEF Q
<1>4. \A x \in S : r[x] \in Int
  <2> SUFFICES ASSUME NEW x \in S PROVE r[x] \in Int OBVIOUS
  <2>1. \A y \in T : A[x][y] \in Int BY <1>0
  <2>2. SumFunctionOnSet(A[x], T) \in Int BY <2>1, SumType
  <2> QED BY <1>0, <2>2
<1>5. W = {}
  <2> SUFFICES ASSUME W # {} PROVE FALSE OBVIOUS
  <2>0. W \subseteq SUBSET S OBVIOUS
  <2> HIDE DEF W
  <2>1. PICK s \in W : \A u \in SUBSET s : u # s => u \notin W BY <2>0, SetMin
  <2>2. s \in SUBSET S /\ IsFiniteSet(s) BY <2>0, FS_Subset
  <2>3. CASE s = {}
    <3>1. \A y \in T : Q(s)[y] = 0 BY <1>2, <2>2, <2>3, SumNone
    <3>2. SumFunctionOnSet(Q(s), T) = 0 BY <3>1, SumZero
    <3>3. SumFunctionOnSet(r, s) = 0 BY <2>3, SumNone
    <3> QED BY <2>1, <3>2, <3>3 DEF W
  <2>4. CASE s # {}
    <3>1. PICK c : c \in s BY <2>4
    <3>2. PICK d : d = s \ {c} OBVIOUS
    <3>3. d \in SUBSET s /\ d # s /\ d \in SUBSET S /\ c \in S /\ IsFiniteSet(d)
      BY <2>2, <3>1, <3>2, FS_Subset
    <3>4. SumFunctionOnSet(r, d) = SumFunctionOnSet(Q(d), T) BY <2>1, <3>3 DEF W
    <3>5. SumFunctionOnSet(r, s) = r[c] + SumFunctionOnSet(r, d)
      <4>1. \A x \in s : r[x] \in Int BY <1>4, <2>2
      <4> QED BY <2>2, <3>1, <3>2, <4>1, SumTake
    <3>6. ASSUME NEW y \in T
          PROVE  A[c][y] \in Int /\ Q(d)[y] \in Int /\ Q(s)[y] = A[c][y] + Q(d)[y]
      <4>1. \A x \in s : B[y][x] \in Int BY <1>1, <2>2
      <4>2. SumFunctionOnSet(B[y], s) = B[y][c] + SumFunctionOnSet(B[y], d)
        BY <2>2, <3>1, <3>2, <4>1, SumTake
      <4>3. SumFunctionOnSet(B[y], d) \in Int BY <3>3, <4>1, SumType
      <4>4. B[y][c] = A[c][y] /\ A[c][y] \in Int BY <1>1, <3>3
      <4> QED BY <1>2, <2>2, <3>3, <4>2, <4>3, <4>4
    <3>7. SumFunctionOnSet(Q(s), T) = SumFunctionOnSet(A[c], T) + SumFunctionOnSet(Q(d), T)
      <4>1. PICK a, b, e : a = A[c] /\ b = Q(d) /\ e = Q(s) OBVIOUS
      <4>2. \A y \in T : a[y] \in Int /\ b[y] \in Int /\ e[y] = a[y] + b[y] BY <3>6, <4>1
      <4>3. SumFunctionOnSet(e, T) = SumFunctionOnSet(a, T) + SumFunctionOnSet(b, T)
        BY <4>2, SumAdd
      <4> QED BY <4>1, <4>3
    <3>8. r[c] = SumFunctionOnSet(A[c], T) BY <1>0, <3>3
    <3> QED BY <2>1, <3>4, <3>5, <3>7, <3>8 DEF W
  <2> QED BY <2>3, <2>4
<1>6. S \in SUBSET S OBVIOUS
<1>7. SumFunctionOnSet(r, S) = SumFunctionOnSet(Q(S), T) BY <1>5, <1>6
<1>8. \A y \in T : Q(S)[y] = q[y] BY <1>2, <1>3, <1>6
<1> QED BY <1>7, <1>8, SumSame

\* The visits of a list at or below a node that come after the first i of the list.
AfterSet(q, i, n) == {j \in i + 1 .. Len(q) : AtOrBelow(n, q[j])}
After(q, i, n) == Cardinality(AfterSet(q, i, n))

LEMMA AfterType ==
  ASSUME NEW q \in Seq(Positions), NEW i \in Nat, NEW n
  PROVE  IsFiniteSet(AfterSet(q, i, n)) /\ After(q, i, n) \in Nat
<1>1. Len(q) \in Nat OBVIOUS
<1>2. IsFiniteSet(i + 1 .. Len(q)) BY <1>1, FS_Interval
<1>3. AfterSet(q, i, n) \subseteq i + 1 .. Len(q) BY DEF AfterSet
<1>4. IsFiniteSet(AfterSet(q, i, n)) BY <1>2, <1>3, FS_Subset
<1> QED BY <1>4, FS_CardinalityType DEF After

\* Visits are backed up already or still to come.
LEMMA AfterIs ==
  ASSUME NEW q \in Seq(Positions), NEW i \in 0 .. Len(q), NEW n \in Positions,
         AtOrBelow(root, n)
  PROVE  VisitsAt(q, n) = Upto(q, i, n) + After(q, i, n)
<1>1. PICK k : k = Len(q) /\ k \in Nat /\ i \in Nat /\ i <= k OBVIOUS
<1>2. PICK A, B, T : /\ A = {j \in 1 .. i : OnPath(q[j], n)} /\ B = AfterSet(q, i, n)
                     /\ T = Through(q, n)
  OBVIOUS
<1>3. DOMAIN q = 1 .. k BY <1>1
<1>4. B = {j \in i + 1 .. k : AtOrBelow(n, q[j])} BY <1>1, <1>2 DEF AfterSet
<1>5. A = {j \in 1 .. i : AtOrBelow(n, q[j])} BY <1>2 DEF OnPath
<1>6. \A j : j \in 1 .. k <=> j \in 1 .. i \/ j \in i + 1 .. k BY <1>1
<1>7. \A j : ~(j \in 1 .. i /\ j \in i + 1 .. k) BY <1>1
<1>8. T = A \cup B BY <1>2, <1>3, <1>4, <1>5, <1>6 DEF Through
<1>9. A \cap B = {} BY <1>4, <1>5, <1>7
<1>10. IsFiniteSet(A) /\ IsFiniteSet(B)
  <2>1. IsFiniteSet(T) BY <1>2, ThroughIs
  <2> QED BY <1>8, <2>1, FS_Subset
<1>11. Cardinality(T) = Cardinality(A) + Cardinality(B)
  <2>1. Cardinality(A \cap B) = 0 BY <1>9, FS_EmptySet
  <2>2. Cardinality(A) \in Nat /\ Cardinality(B) \in Nat BY <1>10, FS_CardinalityType
  <2>3. Cardinality(A \cup B) = Cardinality(A) + Cardinality(B) - Cardinality(A \cap B)
    BY <1>10, FS_Union
  <2> QED BY <1>8, <2>1, <2>2, <2>3
<1>12. VisitsAt(q, n) = Cardinality(T) BY <1>2, ThroughIs
<1> QED BY <1>2, <1>11, <1>12 DEF Upto, After

\* A visit goes through one child at most.
LEMMA AfterApart ==
  ASSUME NEW q \in Seq(Positions), NEW i \in Nat, NEW p \in Positions,
         NEW g, \A c \in Children(p) : g[c] = After(q, i, c)
  PROVE  SumFunctionOnSet(g, Children(p)) <= After(q, i, p)
<1>1. PICK K : K = Children(p) OBVIOUS
<1>2. IsFiniteSet(K) /\ \A c \in K : c \in Positions /\ Below(p, c)
  <2>1. K \subseteq Positions BY <1>1 DEF Children
  <2> QED BY <1>1, <2>1, FS_Subset, GameAssumption, ChildOf
<1>3. PICK I, f, S : /\ I = AfterSet(q, i, p) /\ f = [j \in I |-> 1]
                     /\ S = [c \in K |-> AfterSet(q, i, c)]
  OBVIOUS
<1>4. IsFiniteSet(I) /\ \A j \in I : f[j] = 1 /\ f[j] \in Int /\ f[j] >= 0
  BY <1>3, AfterType
<1>5. \A j \in i + 1 .. Len(q) : q[j] \in Positions
  <2>1. \A j \in i + 1 .. Len(q) : j \in 1 .. Len(q) OBVIOUS
  <2> QED BY <2>1
<1>6. ASSUME NEW c \in K PROVE S[c] \subseteq I
  <2>1. ASSUME NEW j \in i + 1 .. Len(q), AtOrBelow(c, q[j]) PROVE AtOrBelow(p, q[j])
    BY <1>2, <1>5, <2>1, BelowBelow DEF AtOrBelow
  <2> QED BY <1>3, <2>1 DEF AfterSet
<1>7. ASSUME NEW c \in K, NEW d \in K, c # d PROVE S[c] \cap S[d] = {}
  <2>1. ASSUME NEW j \in i + 1 .. Len(q), AtOrBelow(c, q[j]), AtOrBelow(d, q[j]) PROVE FALSE
    BY <1>1, <1>5, <1>7, <2>1, Apart
  <2> QED BY <1>3, <2>1 DEF AfterSet
<1>8. ASSUME NEW c \in K PROVE g[c] = SumFunctionOnSet(f, S[c])
  <2>1. S[c] = AfterSet(q, i, c) /\ IsFiniteSet(S[c]) BY <1>3, AfterType
  <2>2. \A j \in S[c] : f[j] = 1 BY <1>4, <1>6
  <2>3. SumFunctionOnSet(f, S[c]) = Cardinality(S[c]) BY <2>1, <2>2, SumOnes
  <2> QED BY <1>1, <2>1, <2>3 DEF After
<1>9. SumFunctionOnSet(g, K) <= SumFunctionOnSet(f, I)
  <2>1. \A j \in I : f[j] \in Int /\ f[j] >= 0 BY <1>4
  <2>2. IsFiniteSet(I) /\ IsFiniteSet(K) BY <1>2, <1>4
  <2> QED BY <1>6, <1>7, <1>8, <2>1, <2>2, SumApart
<1>10. SumFunctionOnSet(f, I) = Cardinality(I) BY <1>4, SumOnes
<1> QED BY <1>1, <1>3, <1>9, <1>10 DEF After

LEMMA VisitsAfter == ASSUME NEW q \in Seq(Positions), NEW n PROVE VisitsAt(q, n) = After(q, 0, n)
<1>1. DOMAIN q = 1 .. Len(q) /\ 0 + 1 = 1 OBVIOUS
<1> QED BY <1>1 DEF VisitsAt, After, AfterSet

\* A collision is below one child at most, or is at it.
LEMMA CountApart ==
  ASSUME NEW c \in [Positions -> Int], \A m \in Positions : c[m] >= 0, NEW p \in Positions,
         NEW g, \A d \in Children(p) : g[d] = CountBelow(c, d) + c[d]
  PROVE  SumFunctionOnSet(g, Children(p)) <= CountBelow(c, p)
<1>1. PICK K, S, I : /\ K = Children(p) /\ S = [d \in K |-> {m \in Positions : AtOrBelow(d, m)}]
                     /\ I = {m \in Positions : Below(p, m)}
  OBVIOUS
<1>2. IsFiniteSet(K) /\ IsFiniteSet(I) /\ \A d \in K : d \in Positions /\ Below(p, d)
  <2>1. K \subseteq Positions /\ I \subseteq Positions BY <1>1 DEF Children
  <2> QED BY <1>1, <2>1, FS_Subset, GameAssumption, ChildOf
<1>3. Counts(c) /\ DOMAIN c = Positions BY CountsType
<1>4. \A m \in I : c[m] \in Int /\ c[m] >= 0 BY <1>1
<1>5. ASSUME NEW d \in K PROVE S[d] \subseteq I
  BY <1>1, <1>2, BelowBelow DEF AtOrBelow
<1>6. \A d, e \in K : d # e => S[d] \cap S[e] = {} BY <1>1, Apart
<1>7. ASSUME NEW d \in K PROVE g[d] = SumFunctionOnSet(c, S[d])
  <2>1. PICK B : B = {m \in Positions : Below(d, m)} OBVIOUS
  <2>2. CountBelow(c, d) = SumFunctionOnSet(c, B) BY <1>3, <2>1, CountAll
  <2>3. d \in S[d] /\ B = S[d] \ {d}
    <3>1. \A m \in Positions : Below(d, m) => m # d BY <1>2, BelowBelow
    <3> QED BY <1>1, <1>2, <2>1, <3>1 DEF AtOrBelow
  <2>4. IsFiniteSet(S[d]) /\ \A m \in S[d] : c[m] \in Int
    BY <1>2, <1>4, <1>5, FS_Subset
  <2>5. SumFunctionOnSet(c, S[d]) = c[d] + SumFunctionOnSet(c, B) BY <2>3, <2>4, SumTake
  <2>6. c[d] \in Int /\ SumFunctionOnSet(c, B) \in Int
    BY <1>2, <1>3, <2>2, CountBelowType
  <2> QED BY <1>1, <2>2, <2>5, <2>6
<1>8. SumFunctionOnSet(g, K) <= SumFunctionOnSet(c, I)
  BY <1>2, <1>4, <1>5, <1>6, <1>7, SumApart
<1>9. CountBelow(c, p) = SumFunctionOnSet(c, I) BY <1>1, <1>3, CountAll
<1> QED BY <1>1, <1>8, <1>9

\* No count of collisions is negative.


\* What a minibatch has in flight below a node, or as collisions at it.
Pending(x, n) == InFlightOf(x, n) + (x.met[n] + x.collisions[n])

LEMMA PendingType ==
  ASSUME NEW x \in Minibatch, NEW n \in Positions PROVE Pending(x, n) \in Int
<1>1. x.met \in [Positions -> Int] /\ x.collisions \in [Positions -> Int] BY BatchType
<1>2. x.met[n] \in Int /\ x.collisions[n] \in Int BY <1>1
<1> QED BY <1>2, InFlightOfType DEF Pending

LEMMA BatchApart ==
  ASSUME NEW x \in Minibatch, NotNegative(x.met), NotNegative(x.collisions), NEW p \in Positions,
         NEW g, \A d \in Children(p) : g[d] = Pending(x, d)
  PROVE  SumFunctionOnSet(g, Children(p)) <= InFlightOf(x, p)
<1>1. PICK K : K = Children(p) OBVIOUS
<1>2. IsFiniteSet(K) /\ K \subseteq Positions
  <2>1. K \subseteq Positions BY <1>1 DEF Children
  <2> QED BY <2>1, FS_Subset, GameAssumption
<1>3. /\ x.picked \in Seq(Positions) /\ x.ready \in Seq(Positions) /\ x.kept \in Seq(Positions)
      /\ x.met \in [Positions -> Int] /\ x.collisions \in [Positions -> Int]
  BY BatchType
<1>4. PICK a, b, c, e, f :
        /\ a = [d \in K |-> VisitsAt(x.picked, d)] /\ b = [d \in K |-> VisitsAt(x.ready, d)]
        /\ c = [d \in K |-> VisitsAt(x.kept, d)]
        /\ e = [d \in K |-> CountBelow(x.met, d) + x.met[d]]
        /\ f = [d \in K |-> CountBelow(x.collisions, d) + x.collisions[d]]
  OBVIOUS
<1>5. /\ SumFunctionOnSet(a, K) <= VisitsAt(x.picked, p)
      /\ SumFunctionOnSet(b, K) <= VisitsAt(x.ready, p)
      /\ SumFunctionOnSet(c, K) <= VisitsAt(x.kept, p)
  <2>1. ASSUME NEW q \in Seq(Positions), NEW h, h = [d \in K |-> VisitsAt(q, d)]
        PROVE  SumFunctionOnSet(h, K) <= VisitsAt(q, p)
    <3>1. \A d \in K : h[d] = After(q, 0, d) BY <2>1, VisitsAfter
    <3>2. SumFunctionOnSet(h, K) <= After(q, 0, p) BY <1>1, <3>1, AfterApart
    <3> QED BY <3>2, VisitsAfter
  <2> QED BY <1>3, <1>4, <2>1
<1>6. /\ SumFunctionOnSet(e, K) <= CountBelow(x.met, p)
      /\ SumFunctionOnSet(f, K) <= CountBelow(x.collisions, p)
  <2>1. \A d \in Children(p) : e[d] = CountBelow(x.met, d) + x.met[d] BY <1>1, <1>4
  <2>2. \A d \in Children(p) : f[d] = CountBelow(x.collisions, d) + x.collisions[d]
    BY <1>1, <1>4
  <2>3. /\ \A m \in Positions : x.met[m] >= 0
        /\ \A m \in Positions : x.collisions[m] >= 0
    BY DEF NotNegative
  <2>4. SumFunctionOnSet(e, Children(p)) <= CountBelow(x.met, p) BY <1>3, <2>1, <2>3, CountApart
  <2>5. SumFunctionOnSet(f, Children(p)) <= CountBelow(x.collisions, p)
    BY <1>3, <2>2, <2>3, CountApart
  <2> QED BY <1>1, <2>4, <2>5
<1>7. ASSUME NEW d \in K
      PROVE  /\ a[d] \in Int /\ b[d] \in Int /\ c[d] \in Int /\ e[d] \in Int /\ f[d] \in Int
             /\ g[d] = a[d] + b[d] + c[d] + e[d] + f[d]
  <2>1. PICK i, j, k, l, m, n, o :
          /\ i = VisitsAt(x.picked, d) /\ j = VisitsAt(x.ready, d) /\ k = VisitsAt(x.kept, d)
          /\ l = CountBelow(x.met, d) /\ m = CountBelow(x.collisions, d)
          /\ n = x.met[d] /\ o = x.collisions[d]
    OBVIOUS
  <2>2. i \in Int /\ j \in Int /\ k \in Int BY <1>3, <2>1, ThroughIs
  <2>3. l \in Int /\ m \in Int /\ n \in Int /\ o \in Int
    <3>1. d \in Positions BY <1>2
    <3> QED BY <1>3, <2>1, <3>1, CountsType, CountBelowType
  <2>4. a[d] = i /\ b[d] = j /\ c[d] = k /\ e[d] = l + n /\ f[d] = m + o BY <1>4, <2>1
  <2>5. g[d] = i + j + k + l + m + (n + o) BY <1>1, <2>1 DEF Pending, InFlightOf
  <2> QED BY <2>2, <2>3, <2>4, <2>5
<1>8. PICK h1, h2, h3 : /\ h1 = [d \in K |-> a[d] + b[d]] /\ h2 = [d \in K |-> h1[d] + c[d]]
                        /\ h3 = [d \in K |-> h2[d] + e[d]]
  OBVIOUS
<1>9. \A d \in K : /\ h1[d] = a[d] + b[d] /\ h1[d] \in Int /\ h2[d] = h1[d] + c[d] /\ h2[d] \in Int
                   /\ h3[d] = h2[d] + e[d] /\ h3[d] \in Int /\ g[d] = h3[d] + f[d]
  <2> SUFFICES ASSUME NEW d \in K
               PROVE  /\ h1[d] = a[d] + b[d] /\ h1[d] \in Int /\ h2[d] = h1[d] + c[d] /\ h2[d] \in Int
                      /\ h3[d] = h2[d] + e[d] /\ h3[d] \in Int /\ g[d] = h3[d] + f[d]
    OBVIOUS
  <2>1. h1[d] = a[d] + b[d] /\ h2[d] = h1[d] + c[d] /\ h3[d] = h2[d] + e[d] BY <1>8
  <2> QED BY <1>7, <2>1
<1>10. SumFunctionOnSet(h1, K) = SumFunctionOnSet(a, K) + SumFunctionOnSet(b, K)
  BY <1>2, <1>7, <1>9, SumAdd
<1>11. SumFunctionOnSet(h2, K) = SumFunctionOnSet(h1, K) + SumFunctionOnSet(c, K)
  BY <1>2, <1>7, <1>9, SumAdd
<1>12. SumFunctionOnSet(h3, K) = SumFunctionOnSet(h2, K) + SumFunctionOnSet(e, K)
  BY <1>2, <1>7, <1>9, SumAdd
<1>13. SumFunctionOnSet(g, K) = SumFunctionOnSet(h3, K) + SumFunctionOnSet(f, K)
  BY <1>2, <1>7, <1>9, SumAdd
<1>14. /\ SumFunctionOnSet(a, K) \in Int /\ SumFunctionOnSet(b, K) \in Int
       /\ SumFunctionOnSet(c, K) \in Int /\ SumFunctionOnSet(e, K) \in Int
       /\ SumFunctionOnSet(f, K) \in Int
  BY <1>2, <1>7, SumType
<1>15. /\ VisitsAt(x.picked, p) \in Int /\ VisitsAt(x.ready, p) \in Int
       /\ VisitsAt(x.kept, p) \in Int /\ CountBelow(x.met, p) \in Int
       /\ CountBelow(x.collisions, p) \in Int
  <2>1. Counts(x.met) /\ Counts(x.collisions) BY <1>3, CountsType
  <2> QED BY <1>3, <2>1, ThroughIs, CountBelowType
<1> QED
  BY <1>1, <1>5, <1>6, <1>10, <1>11, <1>12, <1>13, <1>14, <1>15 DEF InFlightOf

\* What is in flight at a node by minibatches b and collisions c, and the collisions at it.
FlightBy(c, b, n) == CountBelow(c, n) + SumFunction([w \in Workers |-> InFlightOf(b[w], n)])

LEMMA FlightByType ==
  ASSUME NEW c \in [Positions -> Int], NEW b \in [Workers -> Minibatch], NEW n
  PROVE  FlightBy(c, b, n) \in Int
<1>1. PICK f : f = [w \in Workers |-> InFlightOf(b[w], n)] OBVIOUS
<1>2. \A w \in Workers : f[w] \in Int BY <1>1, InFlightOfType
<1>3. SumFunction(f) = SumFunctionOnSet(f, Workers) BY <1>1 DEF SumFunction
<1>4. SumFunction(f) \in Int BY <1>2, <1>3, SumType, SearchAssumption
<1>5. CountBelow(c, n) \in Int BY CountsType, CountBelowType
<1> QED BY <1>1, <1>4, <1>5 DEF FlightBy

AllCounted(c, b) ==
  NotNegative(c) /\ \A w \in Workers : NotNegative(b[w].met) /\ NotNegative(b[w].collisions)

\* What is left in flight after the first leaves.
IsLeft(r, q, i, c, b, S) == \A d \in S : r[d] = After(q, i, d) + FlightBy(c, b, d)

Unmet(c, b, d) == c[d] = 0 /\ \A w \in Workers : b[w].met[d] = 0 /\ b[w].collisions[d] = 0

\* When all that is in flight at a node is in flight at its children, no collision is at one of
\* them: what is in flight at the parent of a collision is not in flight at the collision.
LEMMA Spread ==
  ASSUME NEW c \in [Positions -> Int], NEW b \in [Workers -> Minibatch], AllCounted(c, b),
         NEW q \in Seq(Positions), NEW i \in Nat, NEW p \in Positions,
         NEW r, IsLeft(r, q, i, c, b, Children(p)),
         SumFunctionOnSet(r, Children(p)) = After(q, i, p) + FlightBy(c, b, p)
  PROVE  \A d \in Children(p) : Unmet(c, b, d)
<1>0. /\ NotNegative(c)
      /\ \A w \in Workers : NotNegative(b[w].met) /\ NotNegative(b[w].collisions)
      /\ \A d \in Children(p) : r[d] = After(q, i, d) + FlightBy(c, b, d)
  BY DEF AllCounted, IsLeft
<1>1. PICK K : K = Children(p) OBVIOUS
<1>2. IsFiniteSet(K) /\ K \subseteq Positions /\ IsFiniteSet(Workers)
  <2>1. K \subseteq Positions BY <1>1 DEF Children
  <2> QED BY <2>1, FS_Subset, GameAssumption, SearchAssumption
<1>3. \A w \in Workers : /\ b[w] \in Minibatch /\ b[w].met \in [Positions -> Int]
                         /\ b[w].collisions \in [Positions -> Int]
  BY BatchType
<1>4. PICK A, B, s, z : /\ A = [w \in Workers |-> [d \in K |-> Pending(b[w], d)]]
                        /\ B = [d \in K |-> [w \in Workers |-> Pending(b[w], d)]]
                        /\ s = [w \in Workers |-> SumFunctionOnSet(A[w], K)]
                        /\ z = [d \in K |-> SumFunctionOnSet(B[d], Workers)]
  OBVIOUS
<1>5. \A w \in Workers : \A d \in K : A[w][d] \in Int /\ A[w][d] = Pending(b[w], d)
  BY <1>2, <1>3, <1>4, PendingType
<1>6. SumFunctionOnSet(s, Workers) = SumFunctionOnSet(z, K)
  <2>1. RowSums(s, A, Workers, K) /\ RowSums(z, B, K, Workers) BY <1>4 DEF RowSums
  <2>2. \A d \in K : \A w \in Workers : B[d][w] = A[w][d] BY <1>4
  <2>3. Turned(A, B, Workers, K) BY <1>5, <2>2 DEF Turned
  <2>4. IsFiniteSet(Workers) /\ IsFiniteSet(K) BY <1>2
  <2> QED BY ONLY <2>1, <2>3, <2>4, SumSwap
<1>7. PICK o : o = [w \in Workers |-> InFlightOf(b[w], p)] OBVIOUS
<1>8. ASSUME NEW w \in Workers PROVE s[w] \in Int /\ o[w] \in Int /\ s[w] <= o[w]
  <2>1. PICK g : g = A[w] OBVIOUS
  <2>2. \A d \in K : g[d] = Pending(b[w], d) /\ g[d] \in Int BY <1>5, <2>1
  <2>3. SumFunctionOnSet(g, K) <= InFlightOf(b[w], p) BY <1>0, <1>1, <1>3, <2>2, BatchApart
  <2>4. SumFunctionOnSet(g, K) \in Int BY <1>2, <2>2, SumType
  <2>5. InFlightOf(b[w], p) \in Int BY <1>3, InFlightOfType
  <2> QED BY <1>4, <1>7, <2>1, <2>3, <2>4, <2>5
<1>9. SumFunctionOnSet(s, Workers) <= SumFunctionOnSet(o, Workers) BY <1>2, <1>8, SumMore
<1>10. PICK e, f : e = [d \in K |-> After(q, i, d)] /\ f = [d \in K |-> CountBelow(c, d) + c[d]]
  OBVIOUS
<1>11. SumFunctionOnSet(e, K) <= After(q, i, p) BY <1>1, <1>10, AfterApart
<1>12. SumFunctionOnSet(f, K) <= CountBelow(c, p)
  <2>1. \A m \in Positions : c[m] >= 0 BY <1>0 DEF NotNegative
  <2>2. \A d \in Children(p) : f[d] = CountBelow(c, d) + c[d] BY <1>1, <1>10
  <2> QED BY <1>1, <2>1, <2>2, CountApart
<1>13. ASSUME NEW d \in K
       PROVE  /\ e[d] \in Int /\ f[d] \in Int /\ z[d] \in Int /\ r[d] \in Int
              /\ \E k \in Int, l \in Int :
                    /\ k = c[d] /\ k >= 0 /\ l >= 0 /\ e[d] + f[d] + z[d] = r[d] + (k + l)
                    /\ \A w \in Workers : b[w].met[d] + b[w].collisions[d] <= l
  <2>1. d \in Positions BY <1>2
  <2>2. PICK g, h, v : /\ g = [w \in Workers |-> InFlightOf(b[w], d)]
                       /\ h = [w \in Workers |-> b[w].met[d] + b[w].collisions[d]]
                       /\ v = [w \in Workers |-> Pending(b[w], d)]
    OBVIOUS
  <2>3. ASSUME NEW w \in Workers
        PROVE  g[w] \in Int /\ h[w] \in Int /\ h[w] >= 0 /\ v[w] = g[w] + h[w]
    <3>1. PICK j, k, l : j = InFlightOf(b[w], d) /\ k = b[w].met[d] /\ l = b[w].collisions[d]
      OBVIOUS
    <3>2. j \in Int /\ k \in Int /\ l \in Int BY <1>3, <2>1, <3>1, InFlightOfType
    <3>3. k >= 0 /\ l >= 0 BY <1>0, <2>1, <3>1 DEF NotNegative
    <3>4. g[w] = j /\ h[w] = k + l BY <2>2, <3>1
    <3>5. v[w] = j + (k + l) BY <2>2, <3>1 DEF Pending
    <3> QED BY <3>2, <3>3, <3>4, <3>5
  <2>4. SumFunctionOnSet(v, Workers) = SumFunctionOnSet(g, Workers) + SumFunctionOnSet(h, Workers)
    BY <1>2, <2>3, SumAdd
  <2>5. /\ SumFunctionOnSet(g, Workers) \in Int /\ SumFunctionOnSet(h, Workers) \in Int
        /\ SumFunctionOnSet(h, Workers) >= 0
        /\ \A w \in Workers : h[w] <= SumFunctionOnSet(h, Workers)
    <3>1. (\A w \in Workers : g[w] \in Int) /\ \A w \in Workers : h[w] \in Int /\ h[w] >= 0
      BY <2>3
    <3>2. \A w \in Workers : SumFunctionOnSet(h, Workers) >= h[w] BY <1>2, <3>1, SumNat
    <3>3. SumFunctionOnSet(h, Workers) \in Int /\ SumFunctionOnSet(g, Workers) \in Int
      BY <1>2, <3>1, SumType
    <3>4. SumFunctionOnSet(h, Workers) >= 0 BY <1>2, <3>1, SumNat
    <3> QED BY <3>1, <3>2, <3>3, <3>4
  <2>6. PICK j, k, l, m, n :
          /\ j = After(q, i, d) /\ k = c[d] /\ l = SumFunctionOnSet(h, Workers)
          /\ m = CountBelow(c, d) /\ n = SumFunctionOnSet(g, Workers)
    OBVIOUS
  <2>7. j \in Int /\ k \in Int /\ k >= 0 /\ l \in Int /\ l >= 0 /\ m \in Int /\ n \in Int
    BY <1>0, <2>1, <2>5, <2>6, AfterType, CountsType, CountBelowType DEF NotNegative
  <2>8. e[d] = j /\ f[d] = m + k /\ z[d] = n + l
    <3>1. B[d] = v BY <1>4, <2>2
    <3>2. z[d] = SumFunctionOnSet(v, Workers) BY <1>4, <3>1
    <3> QED BY <1>10, <2>4, <2>6, <3>2
  <2>9. SumFunction(g) = n BY <2>2, <2>6 DEF SumFunction
  <2>10. r[d] = j + (m + n) BY <1>0, <1>1, <2>2, <2>6, <2>9 DEF FlightBy
  <2>11. \A w \in Workers : b[w].met[d] + b[w].collisions[d] <= l BY <2>2, <2>5, <2>6
  <2>12. e[d] \in Int /\ f[d] \in Int /\ z[d] \in Int /\ r[d] \in Int BY <2>7, <2>8, <2>10
  <2>13. k = c[d] /\ e[d] + f[d] + z[d] = r[d] + (k + l)
    <3>1. j + (m + k) + (n + l) = (j + (m + n)) + (k + l) BY ONLY <2>7
    <3> QED BY <2>6, <2>8, <2>10, <3>1
  <2>14. k \in Int /\ l \in Int /\ k >= 0 /\ l >= 0 BY <2>7
  <2> QED BY ONLY <2>11, <2>12, <2>13, <2>14, Zenon
<1>14. PICK x, y : x = [d \in K |-> e[d] + f[d]] /\ y = [d \in K |-> x[d] + z[d]] OBVIOUS
<1>15. \A d \in K : /\ x[d] = e[d] + f[d] /\ x[d] \in Int /\ y[d] = x[d] + z[d] /\ y[d] \in Int
                    /\ r[d] <= y[d]
  <2> SUFFICES ASSUME NEW d \in K
               PROVE  /\ x[d] = e[d] + f[d] /\ x[d] \in Int /\ y[d] = x[d] + z[d] /\ y[d] \in Int
                      /\ r[d] <= y[d]
    OBVIOUS
  <2>1. x[d] = e[d] + f[d] /\ y[d] = x[d] + z[d] BY <1>14
  <2> QED BY <1>13, <2>1
<1>16. SumFunctionOnSet(x, K) = SumFunctionOnSet(e, K) + SumFunctionOnSet(f, K)
  BY <1>2, <1>13, <1>15, SumAdd
<1>17. SumFunctionOnSet(y, K) = SumFunctionOnSet(x, K) + SumFunctionOnSet(z, K)
  BY <1>2, <1>13, <1>15, SumAdd
<1>18. /\ SumFunctionOnSet(e, K) \in Int /\ SumFunctionOnSet(f, K) \in Int
       /\ SumFunctionOnSet(z, K) \in Int /\ SumFunctionOnSet(r, K) \in Int
  BY <1>2, <1>13, SumType
<1>19. SumFunctionOnSet(y, K) <= SumFunctionOnSet(r, K)
  <2>1. SumFunctionOnSet(o, Workers) = SumFunction(o) BY <1>7 DEF SumFunction
  <2>2. FlightBy(c, b, p) = CountBelow(c, p) + SumFunctionOnSet(o, Workers)
    BY <1>7, <2>1 DEF FlightBy
  <2>3. PICK j, k, l : /\ j = After(q, i, p) /\ k = CountBelow(c, p)
                       /\ l = SumFunctionOnSet(o, Workers)
    OBVIOUS
  <2>4. j \in Int /\ k \in Int /\ l \in Int
    BY <1>2, <1>8, <2>3, AfterType, CountsType, CountBelowType, SumType
  <2>5. SumFunctionOnSet(r, K) = j + (k + l) BY <1>1, <2>2, <2>3
  <2>6. /\ SumFunctionOnSet(e, K) <= j /\ SumFunctionOnSet(f, K) <= k
        /\ SumFunctionOnSet(z, K) <= l
    BY <1>6, <1>9, <1>11, <1>12, <2>3
  <2> QED BY <1>16, <1>17, <1>18, <2>4, <2>5, <2>6
<1>20. ASSUME NEW d \in K
       PROVE  c[d] = 0 /\ \A w \in Workers : b[w].met[d] = 0 /\ b[w].collisions[d] = 0
  <2>1. y[d] - r[d] <= SumFunctionOnSet(y, K) - SumFunctionOnSet(r, K)
    BY <1>2, <1>13, <1>15, SumMore
  <2>2. PICK k \in Int, l \in Int :
          /\ k = c[d] /\ k >= 0 /\ l >= 0 /\ e[d] + f[d] + z[d] = r[d] + (k + l)
          /\ \A w \in Workers : b[w].met[d] + b[w].collisions[d] <= l
    BY <1>13
  <2>3. SumFunctionOnSet(y, K) \in Int BY <1>2, <1>15, SumType
  <2>4. y[d] = r[d] + (k + l)
    <3>1. y[d] = e[d] + f[d] + z[d] BY <1>15
    <3> QED BY <2>2, <3>1
  <2>5. k + l <= 0
    <3>1. PICK u, v : u = SumFunctionOnSet(y, K) /\ v = SumFunctionOnSet(r, K) OBVIOUS
    <3>2. u \in Int /\ v \in Int /\ u <= v /\ y[d] - r[d] <= u - v
      BY <1>18, <1>19, <2>1, <2>3, <3>1
    <3>3. r[d] \in Int BY <1>13
    <3> QED BY <2>4, <3>2, <3>3
  <2>6. k = 0 /\ l = 0 BY <2>2, <2>5
  <2>7. ASSUME NEW w \in Workers PROVE b[w].met[d] = 0 /\ b[w].collisions[d] = 0
    <3>1. PICK u, v : u = b[w].met[d] /\ v = b[w].collisions[d] OBVIOUS
    <3>2. d \in Positions BY <1>2
    <3>3. u \in Int /\ v \in Int /\ u >= 0 /\ v >= 0 BY <1>0, <1>3, <3>1, <3>2 DEF NotNegative
    <3>4. u + v <= 0 BY <2>2, <2>6, <3>1
    <3> QED BY <3>1, <3>3, <3>4
  <2> QED BY <2>2, <2>6, <2>7
<1> QED BY <1>1, <1>20 DEF Unmet

\* The visits that minibatches have in hand at or below a node.
HandOf(b, n) == SumFunction([w \in Workers |-> VisitsIn(b[w], n)])

LEMMA CountNat ==
  ASSUME NEW c \in [Positions -> Int], NotNegative(c), NEW n
  PROVE  CountBelow(c, n) \in Int /\ CountBelow(c, n) >= 0
<1>1. PICK S : S = {m \in Some(c) : Below(n, m)} OBVIOUS
<1>2. S \subseteq Positions BY <1>1 DEF Some
<1>3. IsFiniteSet(S) BY <1>2, FS_Subset, GameAssumption
<1>4. \A m \in S : c[m] \in Int /\ c[m] >= 0 BY <1>2 DEF NotNegative
<1> QED BY <1>1, <1>3, <1>4, SumNat, SumType DEF CountBelow

LEMMA VisitsSome ==
  ASSUME NEW S, NEW q \in Seq(S), NEW n \in ToSet(q)
  PROVE  VisitsAt(q, n) >= 1 /\ VisitsAt(q, n) \in Nat
<1>1. PICK o \in 1 .. Len(q) : q[o] = n BY DEF ToSet
<1>2. o \in Through(q, n) BY <1>1 DEF Through, AtOrBelow
<1>3. IsFiniteSet(Through(q, n)) /\ VisitsAt(q, n) = Cardinality(Through(q, n)) BY ThroughIs
<1>4. Through(q, n) # {} BY <1>2
<1>5. VisitsAt(q, n) # 0 BY <1>3, <1>4, FS_EmptySet
<1>6. VisitsAt(q, n) \in Nat BY ThroughIs
<1> QED BY <1>5, <1>6

LEMMA VisitsInType ==
  ASSUME NEW x \in Minibatch, NEW n
  PROVE  /\ VisitsIn(x, n) \in Nat
         /\ NotNegative(x.met) /\ NotNegative(x.collisions) => VisitsIn(x, n) <= InFlightOf(x, n)
         /\ n \in Positions /\ n \in LeavesOf(x) => VisitsIn(x, n) >= 1
<1>1. /\ x.picked \in Seq(Positions) /\ x.ready \in Seq(Positions) /\ x.kept \in Seq(Positions)
      /\ x.met \in [Positions -> Int] /\ x.collisions \in [Positions -> Int]
  BY BatchType
<1>2. PICK i, j, k, l, m : /\ i = VisitsAt(x.picked, n) /\ j = VisitsAt(x.ready, n)
                           /\ k = VisitsAt(x.kept, n) /\ l = CountBelow(x.met, n)
                           /\ m = CountBelow(x.collisions, n)
  OBVIOUS
<1>3. i \in Nat /\ j \in Nat /\ k \in Nat BY <1>1, <1>2, ThroughIs
<1>4. VisitsIn(x, n) = i + j + k /\ InFlightOf(x, n) = i + j + k + l + m
  BY <1>2 DEF VisitsIn, InFlightOf
<1>6. NotNegative(x.met) /\ NotNegative(x.collisions) => l >= 0 /\ m >= 0 /\ l \in Int /\ m \in Int
  BY <1>1, <1>2, CountNat
<1>7. \A q \in Seq(Positions) : n \in ToSet(q) => VisitsAt(q, n) >= 1 BY VisitsSome
<1>8. n \in LeavesOf(x) => i >= 1 \/ j >= 1 \/ k >= 1 BY <1>1, <1>2, <1>7 DEF LeavesOf
<1> QED BY <1>3, <1>4, <1>6, <1>8

LEMMA HandIs ==
  ASSUME NEW b \in [Workers -> Minibatch], NEW n
  PROVE  /\ HandOf(b, n) \in Int /\ HandOf(b, n) >= 0
         /\ \A w \in Workers : VisitsIn(b[w], n) <= HandOf(b, n)
         /\ \A c \in [Positions -> Int] : AllCounted(c, b) => HandOf(b, n) <= FlightBy(c, b, n)
<1>1. PICK f, g : /\ f = [w \in Workers |-> VisitsIn(b[w], n)]
                  /\ g = [w \in Workers |-> InFlightOf(b[w], n)]
  OBVIOUS
<1>2. SumFunction(f) = SumFunctionOnSet(f, Workers) /\ SumFunction(g) = SumFunctionOnSet(g, Workers)
  BY <1>1 DEF SumFunction
<1>3. \A w \in Workers : f[w] \in Int /\ f[w] >= 0 /\ g[w] \in Int
  BY <1>1, VisitsInType, InFlightOfType
<1>4. IsFiniteSet(Workers) BY SearchAssumption
<1>5. /\ SumFunctionOnSet(f, Workers) \in Int /\ SumFunctionOnSet(f, Workers) >= 0
      /\ SumFunctionOnSet(g, Workers) \in Int
      /\ \A w \in Workers : SumFunctionOnSet(f, Workers) >= f[w]
  BY <1>3, <1>4, SumNat, SumType
<1>6. ASSUME NEW w \in Workers PROVE VisitsIn(b[w], n) <= HandOf(b, n)
  BY <1>1, <1>2, <1>3, <1>5 DEF HandOf
<1>7. ASSUME NEW c \in [Positions -> Int], AllCounted(c, b) PROVE HandOf(b, n) <= FlightBy(c, b, n)
  <2>1. \A w \in Workers : f[w] <= g[w] BY <1>1, <1>7, VisitsInType DEF AllCounted
  <2>2. SumFunctionOnSet(f, Workers) <= SumFunctionOnSet(g, Workers) BY <1>3, <1>4, <2>1, SumMore
  <2>3. CountBelow(c, n) \in Int /\ CountBelow(c, n) >= 0
    <3>1. NotNegative(c) BY <1>7 DEF AllCounted
    <3> QED BY <3>1, CountNat
  <2>4. PICK i, j, k : /\ i = SumFunctionOnSet(f, Workers) /\ j = SumFunctionOnSet(g, Workers)
                       /\ k = CountBelow(c, n)
    OBVIOUS
  <2>5. i \in Int /\ j \in Int /\ k \in Int /\ i <= j /\ k >= 0 BY <1>5, <2>2, <2>3, <2>4
  <2>6. HandOf(b, n) = i /\ FlightBy(c, b, n) = k + j BY <1>1, <1>2, <2>4 DEF HandOf, FlightBy
  <2> QED BY <2>5, <2>6
<1>8. HandOf(b, n) = SumFunctionOnSet(f, Workers) BY <1>1, <1>2 DEF HandOf
<1> QED BY <1>5, <1>6, <1>7, <1>8

\* What is in flight while leaves are backed up for which no minibatch answers any more.
Flying(t, leaves, c, b) ==
  \A m \in Positions :
     AtOrBelow(root, m) => t[m].flight = VisitsAt(leaves, m) + FlightBy(c, b, m)

\* What else is pointed to meanwhile.
Pointers(c, b) == Some(c) \cup UNION {LeavesOf(b[w]) \cup CollisionsOf(b[w]) : w \in Workers}

\* A leaf is terminal, or comes once.
Lone(t, leaves, b) ==
  \A n \in Positions :
     n \in ToSet(leaves) \/ (\E w \in Workers : n \in LeavesOf(b[w])) =>
        Terminal(t[n]) \/ (t[n].n = 0 /\ VisitsAt(leaves, n) + HandOf(b, n) = 1)

\* MakeSolid moves nothing that is pointed to: all that is in flight at a node it changes is in
\* flight at its children, so none of them has a collision; and a child that is a leaf is in
\* flight but was not visited.
LEMMA NoneLost ==
  ASSUME NEW t \in [Positions -> Node], NEW leaves \in Seq(Positions), NEW held,
         root \in Positions, AllSound(t, root), HeadLinked(t, root),
         \A i \in 1 .. Len(leaves) : Rising(t, leaves[i]),
         NEW c \in [Positions -> Int], NEW b \in [Workers -> Minibatch],
         AllCounted(c, b), Flying(t, leaves, c, b), Lone(t, leaves, b),
         held \subseteq Pointers(c, b)
  PROVE  BackupAll(t, leaves, held).lost = lost
<1>1. PICK u : u = BackupAll(t, leaves, held) OBVIOUS
<1>2. /\ \A e \in u.lost \ lost : \E i \in 1 .. Len(leaves) : LostAt(t, leaves, held, i, e)
      /\ lost \subseteq u.lost
  BY <1>1, BackupAllSound
<1> SUFFICES ASSUME NEW e \in u.lost \ lost PROVE FALSE BY <1>1, <1>2
<1>3. PICK i \in 1 .. Len(leaves) : LostAt(t, leaves, held, i, e) BY <1>2
<1>4. PICK v \in [Positions -> Node] :
        /\ \A m \in Positions : Backed(t[m], v[m], Upto(leaves, i - 1, m))
        /\ Shifted(v, leaves[i], e)
        /\ e \in StillHeld(leaves, held, i)
  BY <1>3 DEF LostAt
<1>5. PICK l : l = leaves[i] OBVIOUS
<1>6. l \in Positions /\ i - 1 \in Nat /\ i \in Nat \ {0} /\ i \in 0 .. Len(leaves) BY <1>5
<1>7. PICK p \in Positions, x \in [Positions -> Node] :
        /\ OnPath(l, p) /\ e \in v[p].edges /\ Movable(x, p)
        /\ \A m \in Positions : Backed(v[m], x[m], IF Below(p, m) /\ AtOrBelow(m, l) THEN 1 ELSE 0)
  BY <1>4, <1>5 DEF Shifted
<1>8. PICK K : K = Children(p) OBVIOUS
<1>9. AtOrBelow(root, p) /\ AtOrBelow(p, l) BY <1>7 DEF OnPath
<1>10. v[p].edges = K /\ x[p].edges = K /\ e \in K
  <2>1. v[p].edges = t[p].edges /\ x[p].edges = v[p].edges BY <1>4, <1>7 DEF Backed, Grown
  <2>2. t[p].edges \in {{}, K} BY <1>8, <1>9 DEF AllSound, Sound
  <2> QED BY <1>7, <2>1, <2>2
<1>11. ASSUME NEW m \in K
       PROVE  m \in Positions /\ Below(p, m) /\ AtOrBelow(root, m) /\ ~AtOrBelow(m, p)
  <2>1. m \in Positions /\ Below(p, m) BY <1>8, ChildOf
  <2> QED BY <1>9, <2>1, BelowBelow DEF AtOrBelow
<1>12. ASSUME NEW m \in Positions, AtOrBelow(root, m)
       PROVE  /\ v[m].flight = (After(leaves, i, m) + FlightBy(c, b, m)) + (IF OnPath(l, m) THEN 1 ELSE 0)
              /\ VisitsAt(leaves, m) = Upto(leaves, i, m) + After(leaves, i, m)
              /\ v[m].n = t[m].n + Upto(leaves, i - 1, m)
              /\ Upto(leaves, i, m) = Upto(leaves, i - 1, m) + (IF OnPath(l, m) THEN 1 ELSE 0)
  <2>1. PICK f, g, h, j, k, y :
          /\ f = t[m].flight /\ g = Upto(leaves, i - 1, m) /\ h = Upto(leaves, i, m)
          /\ j = After(leaves, i, m) /\ k = FlightBy(c, b, m)
          /\ y = IF OnPath(l, m) THEN 1 ELSE 0
    OBVIOUS
  <2>2. f \in Int /\ g \in Int /\ h \in Int /\ j \in Int /\ k \in Int /\ y \in Int
    <3>1. f \in Int BY <2>1, NodeType
    <3>2. g \in Nat /\ h \in Nat BY <1>6, <2>1, UptoStep
    <3>3. j \in Nat BY <1>6, <2>1, AfterType
    <3>4. k \in Int BY <2>1, FlightByType
    <3> QED BY <2>1, <3>1, <3>2, <3>3, <3>4
  <2>3. v[m].flight = f - g /\ v[m].n = t[m].n + g BY <1>4, <2>1 DEF Backed
  <2>4. h = g + y BY <1>5, <1>6, <2>1, UptoStep
  <2>5. VisitsAt(leaves, m) = h + j BY <1>6, <1>12, <2>1, AfterIs
  <2>6. f = (h + j) + k BY <1>12, <2>1, <2>5 DEF Flying
  <2>7. f - g = (j + k) + y BY <2>2, <2>4, <2>6
  <2> QED BY <2>1, <2>3, <2>4, <2>5, <2>7
<1>13. PICK r : r = [d \in K |-> x[d].flight] OBVIOUS
<1>14. ASSUME NEW d \in K
       PROVE  /\ r[d] = After(leaves, i, d) + FlightBy(c, b, d)
              /\ x[d].n = t[d].n + Upto(leaves, i, d)
  <2>1. PICK f, g, h, y, z : /\ f = After(leaves, i, d) + FlightBy(c, b, d) /\ g = v[d].n
                             /\ h = Upto(leaves, i - 1, d) /\ z = t[d].n
                             /\ y = IF OnPath(l, d) THEN 1 ELSE 0
    OBVIOUS
  <2>2. d \in Positions /\ Below(p, d) /\ AtOrBelow(root, d) BY <1>11
  <2>3. (IF Below(p, d) /\ AtOrBelow(d, l) THEN 1 ELSE 0) = y BY <2>1, <2>2 DEF OnPath
  <2>4. x[d].flight = v[d].flight - y /\ x[d].n = v[d].n + y BY <1>7, <2>2, <2>3 DEF Backed
  <2>5. v[d].flight = f + y /\ v[d].n = z + h /\ Upto(leaves, i, d) = h + y
    BY <1>12, <2>1, <2>2
  <2>6. f \in Int /\ h \in Int /\ y \in Int /\ z \in Int
    <3>1. After(leaves, i, d) \in Nat /\ FlightBy(c, b, d) \in Int /\ h \in Nat
      BY <1>6, <2>1, AfterType, FlightByType, UptoStep
    <3>2. z \in Int BY <2>1, <2>2, NodeType
    <3> QED BY <2>1, <3>1, <3>2
  <2>7. (f + y) - y = f /\ (z + h) + y = z + (h + y) BY <2>6
  <2> QED BY <1>13, <2>1, <2>4, <2>5, <2>7
<1>15. SumFunctionOnSet(r, K) = After(leaves, i, p) + FlightBy(c, b, p)
  <2>1. SumFunction([d \in x[p].edges |-> x[d].flight]) = x[p].flight - 1 BY <1>7 DEF Movable
  <2>2. SumFunction(r) = x[p].flight - 1 BY <1>10, <1>13, <2>1
  <2>3. SumFunction(r) = SumFunctionOnSet(r, K) BY <1>13 DEF SumFunction
  <2>4. ~Below(p, p) BY BelowBelow
  <2>5. x[p].flight = v[p].flight - 0 BY <1>7, <2>4 DEF Backed
  <2>6. PICK f : f = After(leaves, i, p) + FlightBy(c, b, p) OBVIOUS
  <2>7. f \in Int
    <3>1. After(leaves, i, p) \in Nat /\ FlightBy(c, b, p) \in Int
      BY <1>6, AfterType, FlightByType
    <3> QED BY <2>6, <3>1
  <2>8. v[p].flight = f + 1 BY <1>7, <1>9, <1>12, <2>6
  <2> QED BY <2>2, <2>3, <2>5, <2>6, <2>7, <2>8
<1>16. Unmet(c, b, e)
  <2>1. IsLeft(r, leaves, i, c, b, Children(p)) BY <1>8, <1>14 DEF IsLeft
  <2>2. SumFunctionOnSet(r, Children(p)) = After(leaves, i, p) + FlightBy(c, b, p) BY <1>8, <1>15
  <2>3. i \in Nat BY <1>6
  <2>4. \A d \in Children(p) : Unmet(c, b, d) BY <2>1, <2>2, <2>3, Spread
  <2> QED BY <1>8, <1>10, <2>4
<1>17. e \in Positions /\ AtOrBelow(root, e) BY <1>10, <1>11
<1>18. PICK f, g, h, k : /\ f = After(leaves, i, e) /\ g = HandOf(b, e) /\ h = FlightBy(c, b, e)
                         /\ k = Upto(leaves, i, e)
  OBVIOUS
<1>19. f \in Nat /\ g \in Int /\ g >= 0 /\ h \in Int /\ g <= h /\ k \in Nat
  BY <1>6, <1>18, AfterType, HandIs, FlightByType, UptoStep
<1>20. f + g >= 1 /\ (e \in ToSet(leaves) \/ \E w \in Workers : e \in LeavesOf(b[w]))
  <2>1. CASE e \in held
    <3>1. e \notin Some(c) /\ \A w \in Workers : e \notin CollisionsOf(b[w])
      BY <1>16 DEF Unmet, Some, CollisionsOf
    <3>2. PICK w \in Workers : e \in LeavesOf(b[w]) BY <2>1, <3>1 DEF Pointers
    <3>3. VisitsIn(b[w], e) >= 1 /\ VisitsIn(b[w], e) \in Nat BY <1>17, <3>2, VisitsInType
    <3>4. VisitsIn(b[w], e) <= g BY <1>18, HandIs
    <3> QED BY <1>19, <3>2, <3>3, <3>4
  <2>2. CASE e \in {leaves[j] : j \in i + 1 .. Len(leaves)}
    <3>1. PICK j \in i + 1 .. Len(leaves) : e = leaves[j] BY <2>2
    <3>2. j \in 1 .. Len(leaves) BY <1>6
    <3>3. e \in ToSet(leaves) BY <3>1, <3>2 DEF ToSet
    <3>4. j \in AfterSet(leaves, i, e) BY <3>1 DEF AfterSet, AtOrBelow
    <3>5. IsFiniteSet(AfterSet(leaves, i, e)) BY <1>6, AfterType
    <3>6. f # 0 BY <1>18, <3>4, <3>5, FS_EmptySet DEF After
    <3> QED BY <1>19, <3>3, <3>6
  <2> QED BY <1>4, <2>1, <2>2 DEF StillHeld
<1>21. x[e].n > 1 /\ ~Terminal(x[e])
  <2>1. x[e].flight = f + h BY <1>10, <1>13, <1>14, <1>18
  <2>2. x[e].flight > 0 BY <1>19, <1>20, <2>1
  <2> QED BY <1>7, <1>10, <2>2 DEF Movable
<1>22. ~Terminal(t[e]) BY <1>4, <1>7, <1>17, <1>21 DEF Backed, Grown
<1>23. t[e].n = 0 /\ VisitsAt(leaves, e) + g = 1 BY <1>17, <1>18, <1>20, <1>22 DEF Lone
<1>24. VisitsAt(leaves, e) = k + f BY <1>12, <1>17, <1>18
<1>25. x[e].n = 0 + k BY <1>10, <1>14, <1>18, <1>23
<1> QED BY <1>19, <1>20, <1>21, <1>23, <1>24, <1>25

\* A tree whose nodes have grown in visits only is tidy.
LEMMA TidyGrown ==
  ASSUME NEW t, NEW u, NEW h, AllTidy(t, h),
         \A m \in Positions : /\ u[m].edges = t[m].edges
                              /\ u[m].term = "TwoFold" => t[m].term = "TwoFold"
                              /\ AtOrBelow(h, m) => u[m].n >= 0
  PROVE  AllTidy(u, h)
BY DEF AllTidy, Tidy

\* A step of one thread backs up what it takes out of its minibatch.
HeldMoved(t, x, y) ==
  \A n \in Positions :
     AtOrBelow(root, n) =>
        /\ t[n].n = tree[n].n + (VisitsIn(x, n) - VisitsIn(y, n))
        /\ Terminal(tree[n]) => Terminal(t[n])

\* What a step of one thread may do while leaves are held.
LEMMA HeldStep ==
  ASSUME BoundsInv, HeldInv, root = head, UNCHANGED <<head, root>>, lost' = {},
         NEW w \in Workers, NEW x \in Minibatch, x = worker[w],
         NEW y \in Minibatch, worker' = [worker EXCEPT ![w] = y],
         NEW c \in [Positions -> Int], shared' = c, NotNegative(c),
         NotNegative(y.met), NotNegative(y.collisions),
         NEW t \in [Positions -> Node], tree' = t, AllTidy(t, head),
         HeldMoved(t, x, y), LeavesOf(y) \subseteq LeavesOf(x)
  PROVE  HeldInv'
<1>1. worker \in [Workers -> Minibatch] /\ tree \in [Positions -> Node] /\ IsFiniteSet(Workers)
  BY SearchAssumption DEF BoundsInv, TypeOK
<1>2. /\ worker' \in [Workers -> Minibatch] /\ worker'[w] = y
      /\ \A u \in Workers : u # w => worker'[u] = worker[u]
  BY <1>1
<1>3. ASSUME NEW n \in Positions, NEW u \in Workers
      PROVE  /\ shared'[n] >= 0 /\ worker'[u].met[n] >= 0 /\ worker'[u].collisions[n] >= 0
             /\ LeavesOf(worker'[u]) \subseteq LeavesOf(worker[u])
  <2>1. CASE u = w BY <1>2, <2>1 DEF NotNegative
  <2>2. CASE u # w BY <1>2, <2>2 DEF NotNegative, HeldInv
  <2> QED BY <2>1, <2>2
<1>4. ASSUME NEW u \in Workers, NEW n \in LeavesOf(worker'[u])
      PROVE  Terminal(t[n]) \/ (t[n].n = 0 /\ HandOf(worker', n) = 1)
  <2>1. n \in Positions BY <1>2, BatchType
  <2>2. n \in LeavesOf(worker[u]) BY <1>3, <2>1
  <2>3. AtOrBelow(root, n) BY <2>2 DEF BoundsInv, BatchSound, Reached
  <2>4. CASE Terminal(tree[n]) BY <2>1, <2>3, <2>4 DEF HeldMoved
  <2>5. CASE tree[n].n = 0 /\ InHand(n) = 1
    <3>1. PICK f, g : /\ f = [o \in Workers |-> VisitsIn(worker[o], n)]
                      /\ g = [o \in Workers |-> VisitsIn(worker'[o], n)]
      OBVIOUS
    <3>2. \A o \in Workers : f[o] \in Int /\ g[o] \in Int /\ (o # w => g[o] = f[o])
      <4>1. \A o \in Workers : VisitsIn(worker[o], n) \in Nat BY <1>1, VisitsInType
      <4>2. \A o \in Workers : VisitsIn(worker'[o], n) \in Nat BY <1>2, VisitsInType
      <4> QED BY <1>2, <3>1, <4>1, <4>2
    <3>3. SumFunctionOnSet(g, Workers) = SumFunctionOnSet(f, Workers) + (g[w] - f[w])
      BY <1>1, <3>2, SumChange
    <3>4. SumFunction(f) = SumFunctionOnSet(f, Workers) /\ SumFunction(g) = SumFunctionOnSet(g, Workers)
      BY <3>1 DEF SumFunction
    <3>5. SumFunction(f) = 1 BY <2>5, <3>1 DEF InHand
    <3>6. HandOf(worker', n) = SumFunction(g) BY <3>1 DEF HandOf
    <3>7. PICK i, j : i = g[w] /\ j = f[w] OBVIOUS
    <3>8. i \in Int /\ j \in Int /\ i = VisitsIn(y, n) /\ j = VisitsIn(x, n)
      BY <1>2, <3>1, <3>2, <3>7
    <3>9. HandOf(worker', n) = 1 + (i - j) BY <3>3, <3>4, <3>5, <3>6, <3>7
    <3>10. t[n].n = 0 + (j - i) BY <2>1, <2>3, <2>5, <3>8 DEF HeldMoved
    <3>11. t[n].n >= 0 BY <2>1, <2>3 DEF AllTidy, Tidy
    <3>12. HandOf(worker', n) >= 1
      <4>1. VisitsIn(worker'[u], n) >= 1 /\ VisitsIn(worker'[u], n) \in Nat
        BY <1>2, <2>1, VisitsInType
      <4>2. VisitsIn(worker'[u], n) <= HandOf(worker', n) /\ HandOf(worker', n) \in Int
        BY <1>2, HandIs
      <4> QED BY <4>1, <4>2
    <3> QED BY <3>8, <3>9, <3>10, <3>11, <3>12
  <2> QED BY <2>2, <2>4, <2>5 DEF HeldInv
<1>5. AllTidy(tree, head)' BY DEF AllTidy
<1>6. \A n \in Positions :
         /\ shared'[n] >= 0
         /\ \A u \in Workers : worker'[u].met[n] >= 0 /\ worker'[u].collisions[n] >= 0
  BY <1>3
<1>7. \A n : InHand(n)' = HandOf(worker', n) BY DEF InHand, HandOf
<1>8. \A u \in Workers : \A n \in LeavesOf(worker'[u]) :
         Terminal(t[n]) \/ (t[n].n = 0 /\ InHand(n)' = 1)
  BY <1>4, <1>7
<1>9. \A u \in Workers : \A n \in LeavesOf(worker[u])' :
         (Terminal(tree[n]) \/ (tree[n].n = 0 /\ InHand(n) = 1))'
  BY <1>8 DEF LeavesOf
<1> QED BY <1>5, <1>6, <1>9 DEF HeldInv

\* Below the head no repetition is extended.
LEMMA TidyThere ==
  ASSUME NEW t, NEW n \in Positions, root = head, root \in Positions
  PROVE  /\ AllTidy(t, head) /\ AtOrBelow(root, n) => (t[n].edges # {} => ~Repeated(n))
         /\ ~Repeated(n) /\ Below(root, n) /\ n \in DOMAIN Cycle => Len(n) - Len(head) < Cycle[n]
<1>1. Len(n) \in Nat /\ Len(root) \in Nat /\ (n \in DOMAIN Cycle => Cycle[n] \in Nat)
  BY Pos, SearchAssumption
<1>2. Below(root, n) => n # root BY BelowBelow
<1> QED BY <1>1, <1>2 DEF AllTidy, Repeated, Depth, AtOrBelow

LEMMA ExtendHeld == ASSUME BoundsInv, HeldInv, NEW w \in Workers, Extend(w) PROVE HeldInv'
<1>1. TypeOK /\ Phases BY DEF BoundsInv
<1>2. PICK x, n : x = worker[w] /\ n = Head(x.picked) OBVIOUS
<1>3. /\ x.at = "process" /\ x.picked # << >>
      /\ tree' = [tree EXCEPT ![n] = IF Terminal(@) THEN @ ELSE ExtendNode(@, n)]
      /\ worker' = [worker EXCEPT ![w].picked = Tail(@), ![w].ready = Append(@, n)]
      /\ UNCHANGED <<head, root, shared, lost>>
  BY <1>2 DEF Extend
<1>4. searching /\ root = head BY <1>1, <1>2, <1>3, Working
<1>5. /\ tree \in [Positions -> Node] /\ root \in Positions /\ x \in Minibatch
      /\ worker \in [Workers -> Minibatch] /\ shared \in [Positions -> Int]
  BY <1>1, <1>2 DEF TypeOK
<1>6. AllSound(tree, root) /\ BatchSound(tree, x) BY <1>2, <1>4 DEF BoundsInv
<1>7. x.picked \in Seq(Positions) /\ x.ready \in Seq(Positions) /\ x.kept \in Seq(Positions)
  BY <1>5, BatchType
<1>8. PICK ps, rs : ps = Tail(x.picked) /\ rs = Append(x.ready, n) OBVIOUS
<1>9. /\ n \in ToSet(x.picked) /\ n \in Positions /\ ToSet(ps) \subseteq ToSet(x.picked)
      /\ ps \in Seq(Positions) /\ rs \in Seq(Positions) /\ ToSet(rs) = ToSet(x.ready) \cup {n}
  <2>1. /\ Tail(x.picked) \in Seq(Positions) /\ n \in ToSet(x.picked)
        /\ ToSet(Tail(x.picked)) \subseteq ToSet(x.picked)
    BY <1>2, <1>3, <1>7, SetOfTail
  <2>2. n \in Positions BY <1>7, <2>1 DEF ToSet
  <2>3. /\ Append(x.ready, n) \in Seq(Positions)
        /\ ToSet(Append(x.ready, n)) = ToSet(x.ready) \cup {n}
    BY <1>7, <2>2, SetOfAppend
  <2> QED BY <1>8, <2>1, <2>2, <2>3
<1>10. AtOrBelow(root, n) BY <1>6, <1>9 DEF BatchSound, LeavesOf, Reached
<1>11. PICK z : z = IF Terminal(tree[n]) THEN tree[n] ELSE ExtendNode(tree[n], n) OBVIOUS
<1>12. /\ z \in Node /\ z.n = tree[n].n /\ Tidy(z) /\ (Terminal(tree[n]) => Terminal(z))
       /\ z.edges # {} => ~Repeated(n)
  <2>1. tree[n] \in Node /\ Sound(tree[n], n) BY <1>5, <1>6, <1>9, <1>10 DEF AllSound
  <2>2. Tidy(tree[n]) /\ (tree[n].edges # {} => ~Repeated(n))
    <3>1. AllTidy(tree, head) BY DEF HeldInv
    <3> QED BY <1>4, <1>5, <1>9, <1>10, <3>1, TidyThere DEF AllTidy
  <2>3. CASE Terminal(tree[n]) BY <1>11, <2>1, <2>2, <2>3
  <2>4. CASE ~Terminal(tree[n])
    <3>1. z = ExtendNode(tree[n], n) BY <1>11, <2>4
    <3>2. z \in Node BY <1>5, <1>9, <2>1, <3>1, ExtendSound
    <3>3. tree[n].term # "TwoFold" BY <2>4 DEF Terminal
    <3>4. /\ z.n = tree[n].n /\ (z.term = "TwoFold" => Repeated(n))
          /\ (z.edges # {} => ~Repeated(n))
      BY <1>9, <2>1, <2>2, <3>1, <3>3, ExtendTidy
    <3>5. Tidy(z) BY <2>2, <3>4 DEF Tidy
    <3> QED BY <2>4, <3>2, <3>4, <3>5
  <2> QED BY <2>3, <2>4
<1>13. PICK t : t = [tree EXCEPT ![n] = z] OBVIOUS
<1>14. tree' = t BY <1>3, <1>11, <1>13
<1>15. t \in [Positions -> Node] /\ t[n] = z /\ \A m \in Positions : m # n => t[m] = tree[m]
  BY <1>5, <1>9, <1>12, <1>13
<1>16. AllTidy(t, head)
  <2> SUFFICES ASSUME NEW m \in Positions
               PROVE  /\ AtOrBelow(head, m) => Tidy(t[m])
                      /\ Below(head, m) /\ m \in DOMAIN Cycle /\ t[m].edges # {} =>
                            Len(m) - Len(head) < Cycle[m]
    BY DEF AllTidy
  <2>1. CASE m # n BY <1>15, <2>1 DEF HeldInv, AllTidy
  <2>2. CASE m = n BY <1>4, <1>5, <1>9, <1>12, <1>15, <2>2, TidyThere
  <2> QED BY <2>1, <2>2
<1>17. PICK y : y = [x EXCEPT !.picked = ps, !.ready = rs] OBVIOUS
<1>18. /\ y \in Minibatch /\ y.picked = ps /\ y.ready = rs /\ y.kept = x.kept
       /\ y.met = x.met /\ y.collisions = x.collisions
  BY <1>5, <1>9, <1>17 DEF Minibatch
<1>19. worker' = [worker EXCEPT ![w] = y] BY <1>2, <1>3, <1>5, <1>8, <1>17
<1>20. ASSUME NEW m \in Positions PROVE VisitsIn(y, m) = VisitsIn(x, m)
  <2>1. PICK a, b, c, e, f :
          /\ a = VisitsAt(ps, m) /\ b = VisitsAt(x.picked, m) /\ c = VisitsAt(rs, m)
          /\ e = VisitsAt(x.ready, m) /\ f = VisitsAt(x.kept, m)
    OBVIOUS
  <2>2. PICK k : k = IF AtOrBelow(m, n) THEN 1 ELSE 0 OBVIOUS
  <2>3. b = a + k BY <1>2, <1>3, <1>7, <1>8, <2>1, <2>2, VisitsTail
  <2>4. c = e + k BY <1>7, <1>8, <1>9, <2>1, <2>2, VisitsAppend
  <2>5. a \in Int /\ e \in Int /\ f \in Int BY <1>7, <1>9, <2>1, ThroughIs
  <2>6. VisitsIn(x, m) = b + e + f BY <2>1 DEF VisitsIn
  <2>7. VisitsIn(y, m) = a + c + f BY <1>18, <2>1 DEF VisitsIn
  <2> QED BY <2>2, <2>3, <2>4, <2>5, <2>6, <2>7
<1>21. HeldMoved(t, x, y)
  <2> SUFFICES ASSUME NEW m \in Positions
               PROVE  /\ t[m].n = tree[m].n + (VisitsIn(x, m) - VisitsIn(y, m))
                      /\ Terminal(tree[m]) => Terminal(t[m])
    BY DEF HeldMoved
  <2>1. t[m].n = tree[m].n /\ (Terminal(tree[m]) => Terminal(t[m]))
    <3>1. CASE m = n BY <1>12, <1>15, <3>1
    <3>2. CASE m # n BY <1>15, <3>2
    <3> QED BY <3>1, <3>2
  <2>2. PICK a, b : a = tree[m].n /\ b = VisitsIn(x, m) OBVIOUS
  <2>3. a \in Int /\ b \in Int BY <1>5, <2>2, NodeType, VisitsInType
  <2>4. a = a + (b - b) BY <2>3
  <2> QED BY <1>20, <2>1, <2>2, <2>4
<1>22. LeavesOf(y) \subseteq LeavesOf(x) BY <1>9, <1>18 DEF LeavesOf
<1>23. NotNegative(shared) /\ NotNegative(y.met) /\ NotNegative(y.collisions)
  BY <1>2, <1>18 DEF HeldInv, NotNegative
<1>24. lost' = {} /\ UNCHANGED <<head, root>> /\ shared' = shared BY <1>3 DEF HeldInv
<1> QED
  BY <1>2, <1>4, <1>5, <1>14, <1>15, <1>16, <1>18, <1>19, <1>21, <1>22, <1>23, <1>24, HeldStep

\* A thread drops leaves from its minibatch to back them up.
Dropped(x, y, leaves) ==
  /\ ToSet(leaves) \cup LeavesOf(y) \subseteq LeavesOf(x)
  /\ \A m \in Positions : VisitsIn(x, m) = VisitsAt(leaves, m) + VisitsIn(y, m)

InFlightThere(u, b) ==
  \A m \in Positions : AtOrBelow(root, m) => u[m].flight = FlightBy(shared, b, m)

\* Backing up the leaves that a thread drops moves no node that is held, and leaves those that
\* are still held as they were.
LEMMA BackupHeld ==
  ASSUME BoundsInv, HeldInv, root = head,
         NEW w \in Workers, NEW x \in Minibatch, x = worker[w],
         NEW y \in Minibatch, worker' = [worker EXCEPT ![w] = y],
         NotNegative(y.met), NotNegative(y.collisions),
         NEW b, FlightOnly(tree, b), AllSound(b, root), HeadLinked(b, root),
         NEW leaves \in Seq(Positions), \A i \in 1 .. Len(leaves) : Rising(b, leaves[i]),
         Dropped(x, y, leaves),
         NEW held, held \subseteq HeldByOthers(w) \cup PointedTo(y),
         NEW u, u = BackupAll(b, leaves, held).t, InFlightThere(u, worker')
  PROVE  /\ BackupAll(b, leaves, held).lost = {}
         /\ u \in [Positions -> Node] /\ AllTidy(u, head) /\ HeldMoved(u, x, y)
<1>1. /\ tree \in [Positions -> Node] /\ root \in Positions /\ worker \in [Workers -> Minibatch]
      /\ shared \in [Positions -> Int]
  BY DEF BoundsInv, TypeOK
<1>2. /\ worker' \in [Workers -> Minibatch] /\ worker'[w] = y
      /\ \A o \in Workers : o # w => worker'[o] = worker[o]
  BY <1>1
<1>3. /\ b \in [Positions -> Node]
      /\ \A m \in Positions : /\ b[m].n = tree[m].n /\ b[m].edges = tree[m].edges
                              /\ b[m].term = tree[m].term
                              /\ Terminal(b[m]) <=> Terminal(tree[m])
  <2>1. b \in [Positions -> Node] BY DEF FlightOnly
  <2>2. ASSUME NEW m \in Positions
        PROVE  /\ b[m].n = tree[m].n /\ b[m].edges = tree[m].edges /\ b[m].term = tree[m].term
               /\ Terminal(b[m]) <=> Terminal(tree[m])
    <3>1. tree[m] \in Node /\ b[m] \in Node /\ b[m] = [tree[m] EXCEPT !.flight = b[m].flight]
      BY <1>1, <2>1 DEF FlightOnly
    <3> QED BY <3>1, FlightNode
  <2> QED BY <2>1, <2>2
<1>4. /\ u \in [Positions -> Node]
      /\ \A m \in Positions : Backed(b[m], u[m], Upto(leaves, Len(leaves), m))
      /\ Landed(b, u, leaves)
  BY <1>1, <1>3, BackupAllSound, BackupFlight
<1>5. \A i \in 1 .. Len(leaves) : AtOrBelow(root, leaves[i]) BY DEF Rising
<1>6. ASSUME NEW m \in Positions, AtOrBelow(root, m)
      PROVE  /\ u[m].n = tree[m].n + VisitsAt(leaves, m)
             /\ VisitsAt(leaves, m) \in Nat
             /\ VisitsAt(leaves, m) = VisitsIn(x, m) - VisitsIn(y, m)
  <2>1. Upto(leaves, Len(leaves), m) = VisitsAt(leaves, m) BY <1>5, <1>6, UptoIs
  <2>2. u[m].n = tree[m].n + VisitsAt(leaves, m) BY <1>3, <1>4, <2>1 DEF Backed
  <2>3. PICK i, j, k : i = VisitsAt(leaves, m) /\ j = VisitsIn(x, m) /\ k = VisitsIn(y, m) OBVIOUS
  <2>4. i \in Nat /\ j \in Nat /\ k \in Nat BY <2>3, ThroughIs, VisitsInType
  <2>5. j = i + k BY <2>3 DEF Dropped
  <2> QED BY <2>2, <2>3, <2>4, <2>5
<1>7. ASSUME NEW m \in Positions
      PROVE  /\ u[m].edges = tree[m].edges
             /\ u[m].term = "TwoFold" => tree[m].term = "TwoFold"
             /\ Terminal(tree[m]) => Terminal(u[m])
  BY <1>3, <1>4 DEF Backed, Grown
<1>8. HeldMoved(u, x, y) BY <1>6, <1>7 DEF HeldMoved
<1>9. AllTidy(u, head)
  <2>1. AllTidy(tree, head) BY DEF HeldInv
  <2>2. ASSUME NEW m \in Positions, AtOrBelow(head, m) PROVE u[m].n >= 0
    <3>1. PICK i, j : i = tree[m].n /\ j = VisitsAt(leaves, m) OBVIOUS
    <3>2. i \in Int /\ i >= 0 BY <1>1, <2>1, <2>2, <3>1, NodeType DEF AllTidy, Tidy
    <3>3. u[m].n = i + j /\ j \in Nat BY <1>6, <2>2, <3>1
    <3> QED BY <3>2, <3>3
  <2> QED BY <1>7, <2>1, <2>2, TidyGrown
<1>10. AllCounted(shared, worker')
  <2>1. ASSUME NEW o \in Workers
        PROVE  NotNegative(worker'[o].met) /\ NotNegative(worker'[o].collisions)
    <3>1. CASE o = w BY <1>2, <3>1
    <3>2. CASE o # w BY <1>2, <3>2 DEF HeldInv, NotNegative
    <3> QED BY <3>1, <3>2
  <2>2. NotNegative(shared) BY DEF HeldInv, NotNegative
  <2> QED BY <2>1, <2>2 DEF AllCounted
<1>11. Flying(b, leaves, shared, worker')
  <2> SUFFICES ASSUME NEW m \in Positions, AtOrBelow(root, m)
               PROVE  b[m].flight = VisitsAt(leaves, m) + FlightBy(shared, worker', m)
    BY DEF Flying
  <2>1. PICK i, j, k : /\ i = VisitsAt(leaves, m) /\ j = FlightBy(shared, worker', m)
                       /\ k = b[m].flight
    OBVIOUS
  <2>2. i \in Int /\ j \in Int /\ k \in Int
    <3>1. i \in Nat BY <2>1, ThroughIs
    <3>2. j \in Int BY <1>1, <1>2, <2>1, FlightByType
    <3>3. k \in Int BY <1>3, <2>1, NodeType
    <3> QED BY <3>1, <3>2, <3>3
  <2>3. u[m].flight = k - i BY <1>4, <2>1 DEF Landed
  <2>4. u[m].flight = j BY <2>1 DEF InFlightThere
  <2> QED BY <2>1, <2>2, <2>3, <2>4
<1>12. Lone(b, leaves, worker')
  <2> SUFFICES ASSUME NEW n \in Positions,
                      n \in ToSet(leaves) \/ (\E o \in Workers : n \in LeavesOf(worker'[o]))
               PROVE  Terminal(b[n]) \/ (b[n].n = 0 /\ VisitsAt(leaves, n) + HandOf(worker', n) = 1)
    BY DEF Lone
  <2>1. PICK o \in Workers : n \in LeavesOf(worker[o]) BY <1>2 DEF Dropped
  <2>2. CASE Terminal(tree[n]) BY <1>3, <2>2
  <2>3. CASE tree[n].n = 0 /\ InHand(n) = 1
    <3>1. PICK f, g : /\ f = [r \in Workers |-> VisitsIn(worker[r], n)]
                      /\ g = [r \in Workers |-> VisitsIn(worker'[r], n)]
      OBVIOUS
    <3>2. \A r \in Workers : f[r] \in Int /\ g[r] \in Int /\ (r # w => g[r] = f[r])
      <4>1. \A r \in Workers : VisitsIn(worker[r], n) \in Nat BY <1>1, VisitsInType
      <4>2. \A r \in Workers : VisitsIn(worker'[r], n) \in Nat BY <1>2, VisitsInType
      <4> QED BY <1>2, <3>1, <4>1, <4>2
    <3>3. SumFunctionOnSet(g, Workers) = SumFunctionOnSet(f, Workers) + (g[w] - f[w])
      BY <3>2, SumChange, SearchAssumption
    <3>4. SumFunction(f) = SumFunctionOnSet(f, Workers) /\ SumFunction(g) = SumFunctionOnSet(g, Workers)
      BY <3>1 DEF SumFunction
    <3>5. SumFunction(f) = 1 BY <2>3, <3>1 DEF InHand
    <3>6. HandOf(worker', n) = SumFunction(g) BY <3>1 DEF HandOf
    <3>7. PICK i, j, k : i = g[w] /\ j = f[w] /\ k = VisitsAt(leaves, n) OBVIOUS
    <3>8. i \in Int /\ j \in Int /\ k \in Int /\ i = VisitsIn(y, n) /\ j = VisitsIn(x, n)
      <4>1. k \in Nat BY <3>7, ThroughIs
      <4> QED BY <1>2, <3>1, <3>2, <3>7, <4>1
    <3>9. j = k + i BY <3>7, <3>8 DEF Dropped
    <3>10. HandOf(worker', n) = 1 + (i - j) BY <3>3, <3>4, <3>5, <3>6, <3>7
    <3>11. k + (1 + (i - j)) = 1 BY <3>8, <3>9
    <3> QED BY <1>3, <2>3, <3>7, <3>10, <3>11
  <2> QED BY <2>1, <2>2, <2>3 DEF HeldInv
<1>13. held \subseteq Pointers(shared, worker')
  <2> SUFFICES ASSUME NEW e \in held PROVE e \in Pointers(shared, worker') OBVIOUS
  <2>1. CASE e \in Some(shared) BY <2>1 DEF Pointers
  <2>2. CASE e \in PointedTo(y)
    <3>1. e \in LeavesOf(worker'[w]) \cup CollisionsOf(worker'[w])
      BY <1>2, <2>2 DEF PointedTo, LeavesOf, CollisionsOf
    <3> QED BY <3>1 DEF Pointers
  <2>3. CASE \E o \in Workers \ {w} : e \in PointedTo(worker[o])
    <3>1. PICK o \in Workers : o # w /\ e \in PointedTo(worker[o]) BY <2>3
    <3>2. e \in LeavesOf(worker'[o]) \cup CollisionsOf(worker'[o])
      BY <1>2, <3>1 DEF PointedTo, LeavesOf, CollisionsOf
    <3> QED BY <3>1, <3>2 DEF Pointers
  <2> QED BY <2>1, <2>2, <2>3 DEF HeldByOthers
<1>14. BackupAll(b, leaves, held).lost = lost
  BY <1>1, <1>2, <1>3, <1>10, <1>11, <1>12, <1>13, NoneLost
<1>15. lost = {} BY DEF HeldInv
<1> QED BY <1>4, <1>8, <1>9, <1>14, <1>15

LEMMA PlusNat ==
  ASSUME NEW c \in [Positions -> Int], NEW d \in [Positions -> Int], NotNegative(c), NotNegative(d)
  PROVE  NotNegative(Plus(c, d))
<1> SUFFICES ASSUME NEW n \in Positions PROVE Plus(c, d)[n] >= 0 BY DEF NotNegative
<1>1. c[n] \in Int /\ d[n] \in Int /\ c[n] >= 0 /\ d[n] >= 0 BY DEF NotNegative
<1>2. Plus(c, d)[n] = c[n] + d[n] BY DEF Plus
<1> QED BY <1>1, <1>2

LEMMA NoneNat == NotNegative(NoCollisions) BY DEF NotNegative, NoCollisions

\* In the next state the visits in flight are those of the next minibatches.
LEMMA FlightThere ==
  ASSUME FlightInv', UNCHANGED root
  PROVE  \A m \in Positions :
            AtOrBelow(root, m) => tree'[m].flight = FlightBy(shared', worker', m)
<1>1. \A m \in Positions : (tree[m].flight = IF AtOrBelow(root, m) THEN InFlight(m) ELSE 0)'
  BY DEF FlightInv
<1>2. \A m : AtOrBelow(root, m)' <=> AtOrBelow(root, m) BY DEF AtOrBelow, Below
<1>3. \A m : InFlight(m)' = FlightBy(shared', worker', m)
  BY DEF InFlight, FlightBy, CountBelow, Below, InFlightOf, VisitsAt, AtOrBelow, Some
<1> QED BY <1>1, <1>2, <1>3

\* What is in flight matters to neither.
LEMMA FlightHeld ==
  ASSUME NEW u \in [Positions -> Node], NEW t, FlightOnly(u, t)
  PROVE  /\ t \in [Positions -> Node] /\ (AllTidy(u, head) => AllTidy(t, head))
         /\ \A x, y : HeldMoved(u, x, y) => HeldMoved(t, x, y)
<1>1. t \in [Positions -> Node] BY DEF FlightOnly
<1>2. ASSUME NEW m \in Positions
      PROVE  /\ t[m].n = u[m].n /\ t[m].edges = u[m].edges /\ t[m].term = u[m].term
             /\ Terminal(t[m]) <=> Terminal(u[m])
  <2>1. u[m] \in Node /\ t[m] \in Node /\ t[m] = [u[m] EXCEPT !.flight = t[m].flight]
    BY <1>1 DEF FlightOnly
  <2> QED BY <2>1, FlightNode
<1>3. AllTidy(u, head) => AllTidy(t, head) BY <1>2 DEF AllTidy, Tidy
<1>4. ASSUME NEW x, NEW y, HeldMoved(u, x, y) PROVE HeldMoved(t, x, y)
  BY <1>2, <1>4 DEF HeldMoved
<1> QED BY <1>1, <1>3, <1>4

LEMMA SettlingHeld ==
  ASSUME BoundsInv, FlightInv, HeldInv, NEW w \in Workers, Settling(w) PROVE HeldInv'
<1>1. TypeOK /\ FlightInv' BY SettlingFlight DEF BoundsInv
<1>2. PICK x : x = worker[w] OBVIOUS
<1>3. /\ x \in Minibatch /\ root = head
      /\ \E b, leaves, y : IsSettling(w, x, b, leaves, y)
  BY <1>2, SettlingIs
<1>4. PICK b, leaves, y : IsSettling(w, x, b, leaves, y) BY <1>3
<1>5. /\ AllSound(b, root) /\ HeadLinked(b, root)
      /\ leaves \in Seq(Positions) /\ \A i \in 1 .. Len(leaves) : Rising(b, leaves[i])
  BY <1>2, <1>3, <1>4, SettlingRises
<1>6. PICK held, u : held = HeldByOthers(w) \cup PointedTo(y) /\ u = BackupAll(b, leaves, held).t
  OBVIOUS
<1>7. /\ y \in Minibatch /\ worker' = [worker EXCEPT ![w] = y] /\ tree' = u
      /\ lost' = BackupAll(b, leaves, held).lost
      /\ Uncollided(b, x, y) /\ Handled(x, leaves, y) /\ Remains(x, y)
      /\ UNCHANGED <<head, root, shared>>
  BY <1>4, <1>6 DEF IsSettling
<1>8. NotNegative(y.met) /\ NotNegative(y.collisions)
  <2>1. NotNegative(x.met) /\ NotNegative(x.collisions) BY <1>2 DEF HeldInv, NotNegative
  <2> QED BY <1>7, <2>1 DEF Remains
<1>9. FlightOnly(tree, b) BY <1>7 DEF Uncollided
<1>10. Dropped(x, y, leaves) BY <1>7 DEF Handled, Dropped
<1>11. InFlightThere(u, worker') BY <1>1, <1>7, FlightThere DEF InFlightThere
<1>12. lost' = {} /\ u \in [Positions -> Node] /\ AllTidy(u, head) /\ HeldMoved(u, x, y)
  <2>1. u = BackupAll(b, leaves, held).t /\ held \subseteq HeldByOthers(w) \cup PointedTo(y)
    BY <1>6
  <2> QED BY <1>2, <1>3, <1>5, <1>7, <1>8, <1>9, <1>10, <1>11, <2>1, BackupHeld
<1>13. LeavesOf(y) \subseteq LeavesOf(x) BY <1>10 DEF Dropped
<1>14. shared \in [Positions -> Int] /\ NotNegative(shared)
  BY <1>1 DEF TypeOK, HeldInv, NotNegative
<1> QED BY <1>2, <1>3, <1>7, <1>8, <1>12, <1>13, <1>14, HeldStep

LEMMA DoBackupHeld ==
  ASSUME BoundsInv, FlightInv, HeldInv, NEW w \in Workers, DoBackupUpdate(w) PROVE HeldInv'
<1>1. TypeOK /\ Phases /\ FlightInv' BY DoBackupFlight DEF BoundsInv
<1>2. PICK x, held : x = worker[w] /\ held = HeldByOthers(w) OBVIOUS
<1>3. PICK u, done : u = BackupAll(tree, x.kept, held).t /\ done = (x.ooo \/ x.kept # << >>)
  OBVIOUS
<1>4. PICK t, c : /\ t = IF done THEN Cancel(u, shared) ELSE u
                  /\ c = IF done THEN NoCollisions ELSE shared
  OBVIOUS
<1>5. PICK y : y = Idle OBVIOUS
<1>6. /\ x.at = "backup" /\ tree' = t /\ shared' = c /\ worker' = [worker EXCEPT ![w] = y]
      /\ lost' = BackupAll(tree, x.kept, held).lost /\ UNCHANGED <<head, root>>
  BY <1>2, <1>3, <1>4, <1>5 DEF DoBackupUpdate
<1>7. root = head BY <1>1, <1>2, <1>6, Working
<1>8. /\ tree \in [Positions -> Node] /\ root \in Positions /\ x \in Minibatch
      /\ worker \in [Workers -> Minibatch] /\ shared \in [Positions -> Int]
  BY <1>1, <1>2 DEF TypeOK
<1>9. AllSound(tree, root) /\ HeadLinked(tree, root) /\ BatchSound(tree, x)
  BY <1>2, <1>7 DEF BoundsInv
<1>10. PICK leaves : leaves = x.kept OBVIOUS
<1>11. leaves \in Seq(Positions) BY <1>8, <1>10, BatchType
<1>12. ASSUME NEW i \in 1 .. Len(leaves) PROVE Rising(tree, leaves[i])
  <2>1. PICK n : n = leaves[i] OBVIOUS
  <2>2. n \in Positions /\ n \in ToSet(x.kept) BY <1>10, <1>11, <2>1 DEF ToSet
  <2>3. Reached(tree, n) /\ Extended(tree[n]) BY <1>9, <2>2 DEF BatchSound, LeavesOf
  <2> QED BY <1>8, <2>1, <2>2, <2>3, ReachedRising
<1>13. FlightOnly(tree, tree) BY <1>8 DEF FlightOnly, Node
<1>14. u = BackupAll(tree, leaves, held).t BY <1>3, <1>10
<1>15. u \in [Positions -> Node] BY <1>8, <1>9, <1>11, <1>12, <1>14, BackupFlight
<1>16. y \in Minibatch /\ y.met = NoCollisions /\ y.collisions = NoCollisions
  <2>1. Idle.met = NoCollisions /\ Idle.collisions = NoCollisions BY DEF Idle
  <2> QED BY <1>5, <2>1, IdleType
<1>17. Dropped(x, y, leaves)
  <2>1. Settled(x) BY <1>2 DEF FlightInv
  <2>2. x.picked = << >> /\ x.ready = << >>
    <3>1. x.at \notin {"process", "settle"} BY <1>6
    <3> QED BY <2>1, <3>1 DEF Settled
  <2>3. ToSet(leaves) \cup LeavesOf(y) \subseteq LeavesOf(x)
    BY <1>5, <1>10, IdleType DEF LeavesOf
  <2>4. ASSUME NEW m \in Positions PROVE VisitsIn(x, m) = VisitsAt(leaves, m) + VisitsIn(y, m)
    <3>1. PICK a : a = VisitsAt(leaves, m) /\ a \in Nat BY <1>11, ThroughIs
    <3>2. VisitsAt(<< >>, m) = 0 BY VisitsNone
    <3>3. VisitsIn(x, m) = 0 + 0 + a BY <1>10, <2>2, <3>1, <3>2 DEF VisitsIn
    <3>4. y.picked = << >> /\ y.ready = << >> /\ y.kept = << >> BY <1>5 DEF Idle
    <3>5. VisitsIn(y, m) = 0 + 0 + 0 BY <3>2, <3>4 DEF VisitsIn
    <3> QED BY <3>1, <3>3, <3>5
  <2> QED BY <2>3, <2>4 DEF Dropped
<1>18. c \in [Positions -> Int] /\ NotNegative(c) /\ NotNegative(shared)
  <2>1. NoCollisions \in [Positions -> Int] BY DEF NoCollisions
  <2>2. NotNegative(shared) BY DEF HeldInv, NotNegative
  <2> QED BY <1>4, <1>8, <2>1, <2>2, NoneNat
<1>19. /\ FlightOnly(u, t)
       /\ \A m \in Positions : t[m].flight = u[m].flight +
             (IF AtOrBelow(root, m) THEN CountBelow(c, m) - CountBelow(shared, m) ELSE 0)
  <2>1. ASSUME NEW m \in Positions
        PROVE  /\ u[m].flight \in Int /\ u[m].flight + 0 = u[m].flight
               /\ CountBelow(shared, m) \in Int /\ CountBelow(shared, m) - CountBelow(shared, m) = 0
    <3>1. PICK a, b : a = u[m].flight /\ b = CountBelow(shared, m) OBVIOUS
    <3>2. a \in Int /\ b \in Int BY <1>8, <1>15, <3>1, NodeType, CountsType, CountBelowType
    <3> QED BY <3>1, <3>2
  <2>2. CASE ~done
    <3>1. FlightOnly(u, u) BY <1>15 DEF FlightOnly, Node
    <3> QED BY <1>4, <2>1, <2>2, <3>1
  <2>3. CASE done
    <3>1. t = Cancel(u, shared) /\ Counts(shared) /\ c = NoCollisions
      BY <1>4, <1>8, <2>3 DEF Counts
    <3>2. /\ FlightOnly(u, t)
          /\ \A m \in Positions : t[m].flight =
                u[m].flight + (IF AtOrBelow(root, m) THEN CountBelow(Negated(shared), m) ELSE 0)
      BY <1>15, <3>1, CancelIs
    <3>3. ASSUME NEW m \in Positions
          PROVE  t[m].flight = u[m].flight +
                    (IF AtOrBelow(root, m) THEN CountBelow(c, m) - CountBelow(shared, m) ELSE 0)
      <4>1. PICK a, b, e, f : /\ a = u[m].flight /\ b = CountBelow(shared, m)
                              /\ e = CountBelow(Negated(shared), m) /\ f = CountBelow(c, m)
        OBVIOUS
      <4>2. a \in Int /\ b \in Int /\ e = -b /\ f = 0
        BY <2>1, <3>1, <4>1, CountNegated, CountNone
      <4>3. t[m].flight = a + (IF AtOrBelow(root, m) THEN e ELSE 0) BY <3>2, <4>1
      <4>4. e = f - b BY <4>2
      <4> QED BY <4>1, <4>3, <4>4
    <3> QED BY <3>2, <3>3
  <2> QED BY <2>2, <2>3
<1>20. InFlightThere(u, worker')
  <2> SUFFICES ASSUME NEW m \in Positions, AtOrBelow(root, m)
               PROVE  u[m].flight = FlightBy(shared, worker', m)
    BY DEF InFlightThere
  <2>1. PICK a, b, d, s : /\ a = u[m].flight /\ b = CountBelow(shared, m) /\ d = CountBelow(c, m)
                          /\ s = SumFunction([o \in Workers |-> InFlightOf(worker'[o], m)])
    OBVIOUS
  <2>2. worker' \in [Workers -> Minibatch] BY <1>6, <1>8, <1>16
  <2>3. FlightBy(shared, worker', m) = b + s /\ FlightBy(c, worker', m) = d + s
    BY <2>1 DEF FlightBy
  <2>4. a \in Int /\ b \in Int /\ d \in Int /\ s \in Int
    <3>1. a \in Int /\ b \in Int /\ d \in Int
      BY <1>8, <1>15, <1>18, <2>1, NodeType, CountsType, CountBelowType
    <3>2. PICK f : f = [o \in Workers |-> InFlightOf(worker'[o], m)] OBVIOUS
    <3>3. \A o \in Workers : f[o] \in Int BY <2>2, <3>2, InFlightOfType
    <3>4. s = SumFunctionOnSet(f, Workers) BY <2>1, <3>2 DEF SumFunction
    <3> QED BY <3>1, <3>3, <3>4, SumType, SearchAssumption
  <2>5. t[m].flight = d + s
    <3>1. UNCHANGED root BY <1>6
    <3>2. tree'[m].flight = FlightBy(shared', worker', m) BY <1>1, <3>1, FlightThere
    <3> QED BY <1>6, <2>3, <3>2
  <2>6. t[m].flight = a + (d - b) BY <1>19, <2>1
  <2>7. d + s = a + (d - b) BY <2>5, <2>6
  <2>8. a = b + s BY ONLY <2>4, <2>7
  <2> QED BY <2>1, <2>3, <2>8
<1>21. NotNegative(y.met) /\ NotNegative(y.collisions) BY <1>16, NoneNat
<1>22. held \subseteq HeldByOthers(w) \cup PointedTo(y) BY <1>2
<1>23. lost' = {} /\ AllTidy(u, head) /\ HeldMoved(u, x, y)
  BY <1>2, <1>6, <1>7, <1>8, <1>9, <1>10, <1>11, <1>12, <1>13, <1>14, <1>16, <1>17, <1>20, <1>21,
     <1>22, BackupHeld
<1>24. t \in [Positions -> Node] /\ AllTidy(t, head) /\ HeldMoved(t, x, y)
  BY <1>15, <1>19, <1>23, FlightHeld
<1>25. LeavesOf(y) \subseteq LeavesOf(x) BY <1>17 DEF Dropped
<1> QED
  BY <1>2, <1>6, <1>7, <1>8, <1>16, <1>18, <1>21, <1>23, <1>24, <1>25, HeldStep

\* A tree that has changed in nothing but what is in flight, under a thread that has as many
\* visits as before.
LEMMA SameHeld ==
  ASSUME NEW t \in [Positions -> Node], NEW x \in Minibatch, NEW y \in Minibatch,
         tree \in [Positions -> Node], FlightOnly(tree, t),
         \A m \in Positions : VisitsIn(y, m) = VisitsIn(x, m)
  PROVE  HeldMoved(t, x, y)
<1> SUFFICES ASSUME NEW m \in Positions
             PROVE  /\ t[m].n = tree[m].n + (VisitsIn(x, m) - VisitsIn(y, m))
                    /\ Terminal(tree[m]) => Terminal(t[m])
  BY DEF HeldMoved
<1>1. tree[m] \in Node /\ t[m] \in Node /\ t[m] = [tree[m] EXCEPT !.flight = t[m].flight]
  BY DEF FlightOnly
<1>2. t[m].n = tree[m].n /\ (Terminal(tree[m]) => Terminal(t[m])) BY <1>1, FlightNode
<1>3. PICK a, b : a = tree[m].n /\ b = VisitsIn(x, m) OBVIOUS
<1>4. a \in Int /\ b \in Int BY <1>1, <1>3, NodeType, VisitsInType
<1>5. a = a + (b - b) BY <1>4
<1> QED BY <1>2, <1>3, <1>5

LEMMA UpsizeHeld == ASSUME BoundsInv, HeldInv, NEW w \in Workers, Upsize(w) PROVE HeldInv'
<1>1. TypeOK /\ Phases BY DEF BoundsInv
<1>2. PICK x : x = worker[w] OBVIOUS
<1>3. PICK extra \in [Some(worker[w].met) -> 0 .. 1] :
        /\ tree' = AddInFlight(tree, extra)
        /\ \E y \in Further([worker[w] EXCEPT !.met = NoCollisions,
                !.collisions = [n \in Positions |-> worker[w].collisions[n] + worker[w].met[n] +
                                   (IF n \in DOMAIN extra THEN extra[n] ELSE 0)]]) :
             worker' = [worker EXCEPT ![w] = y]
  BY DEF Upsize
<1>4. /\ x.at = "process" /\ x.picked = << >> /\ x.ready = << >>
      /\ UNCHANGED <<head, root, searching, shared, lost>>
  BY <1>2 DEF Upsize
<1>5. /\ tree \in [Positions -> Node] /\ root \in Positions /\ x \in Minibatch
      /\ worker \in [Workers -> Minibatch] /\ shared \in [Positions -> Int]
  BY <1>1, <1>2 DEF TypeOK
<1>6. x.met \in [Positions -> Int] /\ x.collisions \in [Positions -> Int] BY <1>5, BatchType
<1>7. Counts(extra) /\ DOMAIN extra = Some(x.met) BY <1>2, <1>6 DEF Some, Counts
<1>8. PICK t : t = AddInFlight(tree, extra) OBVIOUS
<1>9. FlightOnly(tree, t) /\ t \in [Positions -> Node] BY <1>5, <1>7, <1>8, AddInFlightIs DEF FlightOnly
<1>10. PICK c, ms : /\ c = [n \in Positions |-> x.collisions[n] + x.met[n] +
                                   (IF n \in DOMAIN extra THEN extra[n] ELSE 0)]
                    /\ ms = NoCollisions
  OBVIOUS
<1>11. c \in [Positions -> Int] /\ NotNegative(c)
  <2>1. ASSUME NEW n \in Positions PROVE c[n] \in Int /\ c[n] >= 0
    <3>1. PICK i, j, k : /\ i = x.collisions[n] /\ j = x.met[n]
                         /\ k = IF n \in DOMAIN extra THEN extra[n] ELSE 0
      OBVIOUS
    <3>2. i \in Int /\ j \in Int /\ i >= 0 /\ j >= 0 BY <1>2, <1>6, <3>1 DEF HeldInv
    <3>3. k \in 0 .. 1 BY <1>3, <3>1
    <3>4. c[n] = i + j + k BY <1>10, <3>1
    <3> QED BY <3>2, <3>3, <3>4
  <2> QED BY <1>10, <2>1 DEF NotNegative
<1>12. ms \in [Positions -> Int] /\ NotNegative(ms) BY <1>10, NoneNat DEF NoCollisions
<1>13. PICK y : /\ worker' = [worker EXCEPT ![w] = y]
                /\ y \in Further([x EXCEPT !.met = ms, !.collisions = c])
  BY <1>2, <1>3, <1>10
<1>14. PICK p \in {"gather", "collect"} : y = [[x EXCEPT !.met = ms, !.collisions = c] EXCEPT !.at = p]
  BY <1>13 DEF Further
<1>15. p \in {"gather", "process", "settle", "collect", "backup"} OBVIOUS
<1>16. /\ y \in Minibatch /\ y.picked = x.picked /\ y.ready = x.ready /\ y.kept = x.kept
       /\ y.met = ms /\ y.collisions = c
  <2>1. PICK z : z = [x EXCEPT !.met = ms, !.collisions = c] OBVIOUS
  <2>2. /\ z \in Minibatch /\ z.picked = x.picked /\ z.ready = x.ready /\ z.kept = x.kept
        /\ z.met = ms /\ z.collisions = c
    BY <1>5, <1>11, <1>12, <2>1 DEF Minibatch
  <2>3. y = [z EXCEPT !.at = p] BY <1>14, <2>1
  <2> QED BY <1>15, <2>2, <2>3 DEF Minibatch
<1>17. \A m \in Positions : VisitsIn(y, m) = VisitsIn(x, m) BY <1>16 DEF VisitsIn
<1>18. HeldMoved(t, x, y) BY <1>5, <1>9, <1>16, <1>17, SameHeld
<1>19. AllTidy(t, head) BY <1>5, <1>9, FlightHeld DEF HeldInv
<1>20. LeavesOf(y) \subseteq LeavesOf(x) BY <1>16 DEF LeavesOf
<1>21. NotNegative(shared) /\ shared' = shared /\ lost' = {} /\ UNCHANGED <<head, root>>
  BY <1>4 DEF HeldInv, NotNegative
<1>22. tree' = t /\ root = head BY <1>1, <1>2, <1>3, <1>4, <1>8, Working
<1> QED
  BY <1>2, <1>5, <1>9, <1>11, <1>12, <1>13, <1>16, <1>18, <1>19, <1>20, <1>21, <1>22, HeldStep

LEMMA CollectHeld ==
  ASSUME BoundsInv, HeldInv, NEW w \in Workers, CollectCollisions(w) PROVE HeldInv'
<1>1. TypeOK /\ Phases BY DEF BoundsInv
<1>2. PICK x, ms, c : x = worker[w] /\ ms = NoCollisions /\ c = Plus(shared, x.collisions) OBVIOUS
<1>3. /\ x.at = "collect" /\ shared' = c
      /\ worker' = [worker EXCEPT ![w].at = "backup", ![w].collisions = ms]
      /\ UNCHANGED <<tree, head, root, lost>>
  BY <1>2 DEF CollectCollisions
<1>4. /\ tree \in [Positions -> Node] /\ x \in Minibatch
      /\ worker \in [Workers -> Minibatch] /\ shared \in [Positions -> Int]
  BY <1>1, <1>2 DEF TypeOK
<1>5. x.collisions \in [Positions -> Int] /\ x.met \in [Positions -> Int] BY <1>4, BatchType
<1>6. /\ NotNegative(shared) /\ NotNegative(x.collisions) /\ NotNegative(x.met)
  BY <1>2 DEF HeldInv, NotNegative
<1>7. c \in [Positions -> Int] /\ NotNegative(c) BY <1>2, <1>4, <1>5, <1>6, PlusType, PlusNat
<1>8. ms \in [Positions -> Int] /\ NotNegative(ms) BY <1>2, NoneNat DEF NoCollisions
<1>9. PICK y : y = [x EXCEPT !.at = "backup", !.collisions = ms] OBVIOUS
<1>10. /\ y \in Minibatch /\ y.picked = x.picked /\ y.ready = x.ready /\ y.kept = x.kept
       /\ y.met = x.met /\ y.collisions = ms
  BY <1>4, <1>8, <1>9 DEF Minibatch
<1>11. worker' = [worker EXCEPT ![w] = y] BY <1>2, <1>3, <1>4, <1>9
<1>12. PICK t : t = tree OBVIOUS
<1>13. FlightOnly(tree, t) /\ t \in [Positions -> Node] BY <1>4, <1>12 DEF FlightOnly, Node
<1>14. \A m \in Positions : VisitsIn(y, m) = VisitsIn(x, m) BY <1>10 DEF VisitsIn
<1>15. HeldMoved(t, x, y) BY <1>4, <1>10, <1>13, <1>14, SameHeld
<1>16. AllTidy(t, head) BY <1>12 DEF HeldInv
<1>17. LeavesOf(y) \subseteq LeavesOf(x) BY <1>10 DEF LeavesOf
<1>18. lost' = {} /\ tree' = t /\ root = head /\ UNCHANGED <<head, root>>
  BY <1>1, <1>2, <1>3, <1>12, Working DEF HeldInv
<1> QED
  BY <1>2, <1>3, <1>4, <1>6, <1>7, <1>8, <1>10, <1>11, <1>13, <1>15, <1>16, <1>17, <1>18, HeldStep

-----------------------------------------------------------------------------
\* What a change of one minibatch does to the visits in hand.
LEMMA HandStep ==
  ASSUME NEW b \in [Workers -> Minibatch], NEW w \in Workers, NEW y \in Minibatch, NEW n,
         NEW g, g = [b EXCEPT ![w] = y]
  PROVE  HandOf(g, n) = HandOf(b, n) + (VisitsIn(y, n) - VisitsIn(b[w], n))
<1>2. /\ g \in [Workers -> Minibatch] /\ g[w] = y /\ \A o \in Workers : o # w => g[o] = b[o]
  OBVIOUS
<1>3. PICK p, q : /\ p = [o \in Workers |-> VisitsIn(b[o], n)]
                  /\ q = [o \in Workers |-> VisitsIn(g[o], n)]
  OBVIOUS
<1>4. \A o \in Workers : p[o] \in Int /\ q[o] \in Int /\ (o # w => q[o] = p[o])
  <2>1. \A o \in Workers : VisitsIn(b[o], n) \in Nat BY VisitsInType
  <2>2. \A o \in Workers : VisitsIn(g[o], n) \in Nat BY <1>2, VisitsInType
  <2> QED BY <1>2, <1>3, <2>1, <2>2
<1>5. IsFiniteSet(Workers) BY SearchAssumption
<1>6. SumFunctionOnSet(q, Workers) = SumFunctionOnSet(p, Workers) + (q[w] - p[w])
  BY <1>4, <1>5, SumChange
<1>7. SumFunction(p) = SumFunctionOnSet(p, Workers) /\ SumFunction(q) = SumFunctionOnSet(q, Workers)
  BY <1>3 DEF SumFunction
<1>8. HandOf(b, n) = SumFunction(p) /\ HandOf(g, n) = SumFunction(q) BY <1>3 DEF HandOf
<1>9. p[w] = VisitsIn(b[w], n) /\ q[w] = VisitsIn(y, n) BY <1>2, <1>3
<1> QED BY <1>6, <1>7, <1>8, <1>9

\* Every leaf of a minibatch waits as it should.
Waiting(t, b) ==
  \A w \in Workers : \A n \in LeavesOf(b[w]) :
     Terminal(t[n]) \/ (t[n].n = 0 /\ HandOf(b, n) = 1)

LEMMA HeldNext ==
  ASSUME lost' = {}, AllTidy(tree', head'), AllCounted(shared', worker'), Waiting(tree', worker')
  PROVE  HeldInv'
<1>1. AllTidy(tree, head)' BY DEF AllTidy, AtOrBelow, Below
<1>2. \A n \in Positions :
         /\ shared'[n] >= 0
         /\ \A w \in Workers : worker'[w].met[n] >= 0 /\ worker'[w].collisions[n] >= 0
  BY DEF AllCounted, NotNegative
<1>3. \A n : InHand(n)' = HandOf(worker', n)
  BY DEF InHand, HandOf, VisitsIn, VisitsAt, AtOrBelow, Below
<1>4. \A w \in Workers : \A n \in LeavesOf(worker'[w]) :
         Terminal(tree'[n]) \/ (tree'[n].n = 0 /\ InHand(n)' = 1)
  BY <1>3 DEF Waiting
<1>5. \A w \in Workers : \A n \in LeavesOf(worker[w])' :
         (Terminal(tree[n]) \/ (tree[n].n = 0 /\ InHand(n) = 1))'
  BY <1>4 DEF LeavesOf
<1> QED BY <1>1, <1>2, <1>5 DEF HeldInv

\* Correcting a leaf makes visits fewer, and none negative.
TidyBelow(t) == \A m \in Positions : AtOrBelow(root, m) => Tidy(t[m])
Fewer(t, u) ==
  \A m \in Positions : AtOrBelow(root, m) => u[m].n >= 0 /\ (t[m].n = 0 => u[m].n = 0)

LEMMA EnsureOneFewer ==
  ASSUME NEW t \in [Positions -> Node], TidyBelow(t), NEW n \in Positions, AtOrBelow(root, n)
  PROVE  LET u == EnsureNodeTwoFoldCorrectForDepth(t, n)
         IN  u \in [Positions -> Node] /\ TidyBelow(u) /\ Fewer(t, u)
<1>1. CASE ~Misplaced(t, n)
  <2>1. EnsureNodeTwoFoldCorrectForDepth(t, n) = t
    BY <1>1 DEF EnsureNodeTwoFoldCorrectForDepth, Misplaced
  <2>2. Fewer(t, t) BY DEF Fewer, TidyBelow, Tidy
  <2> QED BY <2>1, <2>2
<1>2. CASE Misplaced(t, n)
  <2>1. PICK r : r = RevertTerminalVisits(t, n) OBVIOUS
  <2>2. /\ r \in [Positions -> Node]
        /\ \A m \in Positions :
              r[m].edges = t[m].edges /\ r[m].term = t[m].term /\ (~OnPath(n, m) => r[m] = t[m])
    BY <2>1, RevertIs
  <2>3. PICK u : u = MakeNotTerminal(r, n) OBVIOUS
  <2>4. /\ u \in [Positions -> Node] /\ \A m \in Positions : m # n => u[m] = r[m]
        /\ u[n].term = "NonTerminal" /\ u[n].edges = r[n].edges
        /\ r[n].edges = {} => u[n].n = 0
    BY <2>2, <2>3, NotTerminalIs
  <2>5. EnsureNodeTwoFoldCorrectForDepth(t, n) = u
    BY <1>2, <2>1, <2>3 DEF EnsureNodeTwoFoldCorrectForDepth, Misplaced
  <2>6. Tidy(t[n]) /\ t[n].edges = {} BY <1>2 DEF TidyBelow, Tidy, Misplaced
  <2>7. u[n].n = 0 BY <2>2, <2>4, <2>6
  <2>8. PICK a : a = t[n].n OBVIOUS
  <2>9. a \in Int /\ a >= 0 BY <2>6, <2>8, NodeType DEF Tidy
  <2>10. ASSUME NEW m \in Positions, AtOrBelow(root, m)
         PROVE  u[m].n >= 0 /\ (t[m].n = 0 => u[m].n = 0) /\ Tidy(u[m])
    <3>1. Tidy(t[m]) /\ t[m].n \in Int BY <2>10, NodeType DEF TidyBelow
    <3>2. CASE m = n BY <2>4, <2>7, <3>2 DEF Tidy
    <3>3. CASE m # n /\ ~OnPath(n, m) BY <2>2, <2>4, <3>1, <3>3 DEF Tidy
    <3>4. CASE m # n /\ OnPath(n, m)
      <4>1. PICK x, y, b, c : x = t[m] /\ y = r[m] /\ b = x.n - a /\ c = x.w - a * TerminalValue(t[n])
        OBVIOUS
      <4>2. x \in Node /\ y \in Node /\ x.n \in Int /\ x.n >= 0 BY <2>2, <3>1, <4>1 DEF Tidy
      <4>3. y = IF x.n <= a THEN [x EXCEPT !.n = 0, !.w = 0] ELSE [x EXCEPT !.n = b, !.w = c]
        BY <2>1, <2>8, <3>4, <4>1 DEF RevertTerminalVisits, OnPath
      <4>4. y.n = IF x.n <= a THEN 0 ELSE b
        <5>1. CASE x.n <= a
          <6>1. y = [x EXCEPT !.n = 0, !.w = 0] BY <4>3, <5>1
          <6> QED BY <4>2, <5>1, <6>1 DEF Node
        <5>2. CASE ~(x.n <= a)
          <6>1. y = [x EXCEPT !.n = b, !.w = c] BY <4>3, <5>2
          <6> QED BY <4>2, <5>2, <6>1 DEF Node
        <5> QED BY <5>1, <5>2
      <4>5. y.n >= 0 /\ (x.n = 0 => y.n = 0) BY <2>9, <4>1, <4>2, <4>4
      <4>6. u[m] = y BY <2>4, <3>4, <4>1
      <4>7. y.term = x.term /\ y.edges = x.edges BY <2>2, <4>1
      <4> QED BY <3>1, <4>1, <4>5, <4>6, <4>7 DEF Tidy
    <3> QED BY <3>2, <3>3, <3>4
  <2> QED BY <2>4, <2>5, <2>10 DEF TidyBelow, Fewer
<1> QED BY <1>1, <1>2

LEMMA EnsureFewer ==
  ASSUME NEW t \in [Positions -> Node], NEW leaves \in Seq(Positions), TidyBelow(t),
         \A i \in 1 .. Len(leaves) : AtOrBelow(root, leaves[i])
  PROVE  Fewer(t, EnsureTwoFoldsCorrect(t, leaves))
<1>1. PICK k : k = Len(leaves) OBVIOUS
<1>2. k \in Nat /\ \A i \in 1 .. k : leaves[i] \in Positions BY <1>1
<1>3. PICK g : /\ EnsureTwoFoldsCorrect(t, leaves) = g[k] /\ g[0] = t
               /\ \A i \in 1 .. k : g[i] = EnsureNodeTwoFoldCorrectForDepth(g[i - 1], leaves[i])
  <2>1. Len(leaves) \in Nat OBVIOUS
  <2> QED BY <1>1, <2>1, EnsureRun
<1> DEFINE P(i) == g[i] \in [Positions -> Node] /\ TidyBelow(g[i]) /\ Fewer(t, g[i])
           T == {i \in 0 .. k : P(i)}
<1>4. P(0)
  <2>1. Fewer(t, t) BY DEF Fewer, TidyBelow, Tidy
  <2> QED BY <1>3, <2>1
<1>5. ASSUME NEW i \in 1 .. k, P(i - 1) PROVE P(i)
  <2>1. PICK n, s, u : n = leaves[i] /\ s = g[i - 1] /\ u = g[i] OBVIOUS
  <2>2. n \in Positions /\ AtOrBelow(root, n) BY <1>1, <1>2, <2>1
  <2>3. s \in [Positions -> Node] /\ TidyBelow(s) /\ Fewer(t, s) BY <1>5, <2>1
  <2>4. u = EnsureNodeTwoFoldCorrectForDepth(s, n) BY <1>3, <2>1
  <2>5. u \in [Positions -> Node] /\ TidyBelow(u) /\ Fewer(s, u) BY <2>2, <2>3, <2>4, EnsureOneFewer
  <2>6. Fewer(t, u) BY <2>3, <2>5 DEF Fewer
  <2> QED BY <2>1, <2>5, <2>6
<1> HIDE DEF P
<1>6. P(k)
  <2>1. 0 \in T /\ \A i \in 1 .. k : i - 1 \in T => i \in T BY <1>2, <1>4, <1>5
  <2> HIDE DEF T
  <2> QED BY <1>2, <2>1, UpTo DEF T
<1> QED BY <1>3, <1>6 DEF P

\* What a call to gather picks, and how it leaves the tree.
IsPicked(w, x, d, v, t, u, ps, y) ==
  /\ DOMAIN d \subseteq Leaves(tree) /\ DOMAIN d \subseteq Positions
  /\ v \in [DOMAIN d -> 0 .. MaxUnits]
  /\ \A n \in DOMAIN d : d[n] \in Int /\ d[n] >= 1 /\ v[n] \in VisitsOf(t, n, d[n])
  /\ Refolded(tree, t, DOMAIN d) /\ (TidyBelow(tree) => Fewer(tree, t))
  /\ FlightOnly(t, u) /\ tree' = u
  /\ ps \in Seq(DOMAIN d) /\ ps = Visits(SetToSeq(DOMAIN d), v)
  /\ y \in Minibatch /\ y.picked = ps /\ y.ready = x.ready /\ y.kept = x.kept
  /\ y.met = [n \in Positions |-> IF n \in DOMAIN d THEN d[n] - v[n] ELSE 0]
  /\ y.collisions = x.collisions /\ worker' = [worker EXCEPT ![w] = y]

LEMMA PickedIs ==
  ASSUME BoundsInv, FlightInv, NEW w \in Workers, Pick(w), NEW x, x = worker[w]
  PROVE  /\ x \in Minibatch /\ x.picked = << >> /\ root = head
         /\ UNCHANGED <<head, root, shared, lost>>
         /\ \E d, v, t, u, ps, y : IsPicked(w, x, d, v, t, u, ps, y)
<1>1. TypeOK /\ Phases /\ searching BY DEF BoundsInv, Pick
<1>2. /\ tree \in [Positions -> Node] /\ root \in Positions /\ root = head
      /\ worker \in [Workers -> Minibatch] /\ x \in Minibatch
  BY <1>1 DEF TypeOK, Phases
<1>3. AllSound(tree, root) BY <1>2 DEF BoundsInv
<1>4. PICK k : k = MaxUnits - Outstanding OBVIOUS
<1>5. PICK d \in Deals(k) :
        \E v \in [DOMAIN d -> 0 .. MaxUnits] :
           /\ \A n \in DOMAIN d :
                 v[n] \in VisitsOf(EnsureTwoFoldsCorrect(tree, SetToSeq(DOMAIN d)), n, d[n])
           /\ tree' = PickedTree(EnsureTwoFoldsCorrect(tree, SetToSeq(DOMAIN d)), d, v)
           /\ worker' = [worker EXCEPT
                 ![w].at = "process", ![w].picked = Visits(SetToSeq(DOMAIN d), v),
                 ![w].met = [n \in Positions |-> IF n \in DOMAIN d THEN d[n] - v[n] ELSE 0]]
  BY <1>4 DEF Pick, PickedTree
<1>6. PICK v \in [DOMAIN d -> 0 .. MaxUnits] :
           /\ \A n \in DOMAIN d :
                 v[n] \in VisitsOf(EnsureTwoFoldsCorrect(tree, SetToSeq(DOMAIN d)), n, d[n])
           /\ tree' = PickedTree(EnsureTwoFoldsCorrect(tree, SetToSeq(DOMAIN d)), d, v)
           /\ worker' = [worker EXCEPT
                 ![w].at = "process", ![w].picked = Visits(SetToSeq(DOMAIN d), v),
                 ![w].met = [n \in Positions |-> IF n \in DOMAIN d THEN d[n] - v[n] ELSE 0]]
  BY <1>5
<1>7. /\ DOMAIN d \subseteq Leaves(tree) /\ DOMAIN d \subseteq Positions /\ Counts(d)
      /\ \A n \in DOMAIN d : d[n] \in Int /\ d[n] >= 1
  <2>1. d \in UNION {[S -> 1 .. k] : S \in UNION {kSubset(j, Leaves(tree)) : j \in 1 .. k}}
    BY DEF Deals
  <2>2. PICK S : S \in UNION {kSubset(j, Leaves(tree)) : j \in 1 .. k} /\ d \in [S -> 1 .. k]
    BY <2>1
  <2>3. S \subseteq Leaves(tree) BY <2>2 DEF kSubset
  <2>4. DOMAIN d = S /\ \A n \in S : d[n] \in Int /\ d[n] >= 1 BY <2>2
  <2>5. Leaves(tree) \subseteq Positions BY DEF Leaves
  <2> QED BY <2>3, <2>4, <2>5 DEF Counts
<1>8. PICK t, u : /\ t = EnsureTwoFoldsCorrect(tree, SetToSeq(DOMAIN d))
                  /\ u = PickedTree(t, d, v)
  OBVIOUS
<1>9. /\ Refolded(tree, t, DOMAIN d) /\ FlightOnly(t, u)
      /\ Visits(SetToSeq(DOMAIN d), v) \in Seq(DOMAIN d)
  BY <1>2, <1>3, <1>7, <1>8, PickIs
<1>10. ASSUME TidyBelow(tree) PROVE Fewer(tree, t)
  <2>1. PICK q, S : q = SetToSeq(DOMAIN d) /\ S = DOMAIN d OBVIOUS
  <2>2. IsFiniteSet(S) BY <1>7, <2>1, FS_Subset, GameAssumption
  <2>3. q \in Seq(S) BY <2>1, <2>2, SetToSeqIs
  <2>4. q \in Seq(Positions) BY <1>7, <2>1, <2>3
  <2>5. \A i \in 1 .. Len(q) : q[i] \in Leaves(tree) BY <1>7, <2>1, <2>3
  <2>6. \A i \in 1 .. Len(q) : AtOrBelow(root, q[i]) BY <2>5 DEF Leaves
  <2> QED BY <1>2, <1>8, <1>10, <2>1, <2>4, <2>6, EnsureFewer
<1>11. PICK ps, ms, y : /\ ps = Visits(SetToSeq(DOMAIN d), v)
                        /\ ms = [n \in Positions |-> IF n \in DOMAIN d THEN d[n] - v[n] ELSE 0]
                        /\ y = [x EXCEPT !.at = "process", !.picked = ps, !.met = ms]
  OBVIOUS
<1>12. ms \in [Positions -> Int]
  <2>1. \A n \in DOMAIN d : d[n] \in Int /\ v[n] \in Int BY <1>7
  <2> QED BY <1>11, <2>1
<1>13. /\ y \in Minibatch /\ y.picked = ps /\ y.ready = x.ready /\ y.kept = x.kept
       /\ y.met = ms /\ y.collisions = x.collisions
  <2>1. ps \in Seq(Positions) BY <1>7, <1>9, <1>11
  <2> QED BY <1>2, <1>11, <1>12, <2>1 DEF Minibatch
<1>14. worker' = [worker EXCEPT ![w] = y] BY <1>2, <1>6, <1>11
<1>15. x.picked = << >>
  <2>1. x.at = "gather" /\ Settled(x) BY DEF Pick, FlightInv
  <2> QED BY <2>1 DEF Settled
<1>16. tree' = u /\ UNCHANGED <<head, root, shared, lost>> BY <1>6, <1>8 DEF Pick
<1>17. \A n \in DOMAIN d : v[n] \in VisitsOf(t, n, d[n]) BY <1>6, <1>8
<1>18. IsPicked(w, x, d, v, t, u, ps, y)
  BY <1>6, <1>7, <1>9, <1>10, <1>11, <1>13, <1>14, <1>16, <1>17 DEF IsPicked
<1> QED BY <1>2, <1>15, <1>16, <1>18

LEMMA PickHeld ==
  ASSUME BoundsInv, FlightInv, HeldInv, NEW w \in Workers, Pick(w) PROVE HeldInv'
<1>1. TypeOK BY DEF BoundsInv
<1>2. PICK x : x = worker[w] OBVIOUS
<1>3. /\ x \in Minibatch /\ x.picked = << >> /\ root = head
      /\ UNCHANGED <<head, root, shared, lost>>
      /\ \E d, v, t, u, ps, y : IsPicked(w, x, d, v, t, u, ps, y)
  BY <1>2, PickedIs
<1>4. PICK d, v, t, u, ps, y : IsPicked(w, x, d, v, t, u, ps, y) BY <1>3
<1>5. PICK D : D = DOMAIN d OBVIOUS
<1>6. /\ D \subseteq Leaves(tree) /\ D \subseteq Positions /\ v \in [D -> 0 .. MaxUnits]
      /\ \A n \in D : d[n] \in Int /\ d[n] >= 1 /\ v[n] \in VisitsOf(t, n, d[n])
      /\ Refolded(tree, t, D) /\ (TidyBelow(tree) => Fewer(tree, t))
      /\ FlightOnly(t, u) /\ tree' = u /\ ps \in Seq(D) /\ ps = Visits(SetToSeq(D), v)
  BY <1>4, <1>5 DEF IsPicked
<1>7. /\ y \in Minibatch /\ y.picked = ps /\ y.ready = x.ready /\ y.kept = x.kept
      /\ y.met = [n \in Positions |-> IF n \in D THEN d[n] - v[n] ELSE 0]
      /\ y.collisions = x.collisions /\ worker' = [worker EXCEPT ![w] = y]
  BY <1>4, <1>5 DEF IsPicked
<1>8. /\ tree \in [Positions -> Node] /\ t \in [Positions -> Node] /\ u \in [Positions -> Node]
      /\ root \in Positions /\ head \in Positions
      /\ worker \in [Workers -> Minibatch] /\ worker' \in [Workers -> Minibatch]
      /\ shared \in [Positions -> Int] /\ IsFiniteSet(D)
  <2>1. t \in [Positions -> Node] /\ u \in [Positions -> Node] BY <1>6 DEF Refolded, FlightOnly
  <2>2. IsFiniteSet(D) BY <1>6, FS_Subset, GameAssumption
  <2> QED BY <1>1, <1>7, <2>1, <2>2 DEF TypeOK
<1>9. \A n \in D : v[n] \in Nat BY <1>6, SearchAssumption
\* How the tree has changed at a node.
<1>10. AllTidy(tree, head) /\ TidyBelow(tree) BY <1>3 DEF HeldInv, AllTidy, TidyBelow
<1>11. ASSUME NEW m \in Positions
       PROVE  /\ t[m].edges = tree[m].edges /\ t[m].flight = tree[m].flight
              /\ t[m].term = "TwoFold" => tree[m].term = "TwoFold"
              /\ Terminal(tree[m]) /\ ~Misplaced(tree, m) => Terminal(t[m])
              /\ AtOrBelow(root, m) => t[m].n >= 0 /\ (tree[m].n = 0 => t[m].n = 0)
              /\ m \in D /\ Misplaced(tree, m) /\ tree[m].edges = {} => t[m].n = 0
              /\ u[m].n = t[m].n /\ (Terminal(u[m]) <=> Terminal(t[m]))
  <2>1. /\ t[m].edges = tree[m].edges /\ t[m].flight = tree[m].flight
        /\ \/ t[m].term = tree[m].term
           \/ m \in D /\ Misplaced(tree, m) /\ t[m].term = "NonTerminal"
        /\ m \in D /\ Misplaced(tree, m) /\ tree[m].edges = {} => t[m].n = 0
    BY <1>6 DEF Refolded
  <2>2. AtOrBelow(root, m) => t[m].n >= 0 /\ (tree[m].n = 0 => t[m].n = 0)
    <3>1. Fewer(tree, t) BY <1>6, <1>10
    <3> QED BY <3>1 DEF Fewer
  <2>3. u[m].n = t[m].n /\ (Terminal(u[m]) <=> Terminal(t[m]))
    <3>1. u[m] = [t[m] EXCEPT !.flight = u[m].flight] BY <1>6 DEF FlightOnly
    <3>2. t[m] \in Node /\ u[m] \in Node BY <1>8
    <3> QED BY <3>1, <3>2, FlightNode
  <2> QED BY <2>1, <2>2, <2>3 DEF Terminal
<1>12. AllTidy(u, head)
  <2>1. AllTidy(t, head) BY <1>3, <1>10, <1>11, TidyGrown
  <2> QED BY <1>6, <1>8, <2>1, FlightHeld
\* Above a leaf there is none.
<1>13. ASSUME NEW m \in D, NEW n \in Positions, AtOrBelow(root, n), Below(n, m)
       PROVE  tree[n].n > 0 /\ ~Terminal(tree[n])
  <2>1. m \in Leaves(tree) BY <1>6
  <2> QED BY <1>13, <2>1 DEF Leaves, Below
<1>14. ASSUME NEW n
       PROVE  /\ VisitsAt(ps, n) = SumFunctionOnSet(v, {m \in D : AtOrBelow(n, m)})
              /\ HandOf(worker', n) = HandOf(worker, n) + VisitsAt(ps, n)
              /\ HandOf(worker, n) \in Int /\ HandOf(worker, n) >= 0
              /\ HandOf(worker, n) <= FlightBy(shared, worker, n)
              /\ VisitsAt(ps, n) \in Int
  <2>1. VisitsAt(ps, n) = SumFunctionOnSet(v, {m \in D : AtOrBelow(n, m)})
    BY <1>6, <1>8, <1>9, VisitsVisits
  <2>2. HandOf(worker', n) = HandOf(worker, n) + (VisitsIn(y, n) - VisitsIn(worker[w], n))
    <3>1. PICK b, g : b = worker /\ g = worker' OBVIOUS
    <3>2. b \in [Workers -> Minibatch] /\ g = [b EXCEPT ![w] = y] BY <1>7, <1>8, <3>1
    <3>3. w \in Workers /\ y \in Minibatch BY <1>7
    <3>4. HandOf(g, n) = HandOf(b, n) + (VisitsIn(y, n) - VisitsIn(b[w], n))
      BY ONLY <3>2, <3>3, HandStep
    <3> QED BY ONLY <3>1, <3>4
  <2>3. PICK a, b, c, e : /\ a = VisitsAt(ps, n) /\ b = VisitsAt(x.ready, n)
                          /\ c = VisitsAt(x.kept, n) /\ e = HandOf(worker, n)
    OBVIOUS
  <2>4. a \in Int /\ b \in Int /\ c \in Int
    <3>1. x.ready \in Seq(Positions) /\ x.kept \in Seq(Positions) BY <1>3, BatchType
    <3> QED BY <1>6, <2>3, <3>1, ThroughIs
  <2>5. VisitsIn(y, n) = a + b + c /\ VisitsIn(x, n) = 0 + b + c
    BY <1>3, <1>7, <2>3, VisitsNone DEF VisitsIn
  <2>6. e \in Int /\ e >= 0 BY <1>8, <2>3, HandIs
  <2>7. AllCounted(shared, worker) BY DEF HeldInv, AllCounted, NotNegative
  <2>8. HandOf(worker, n) <= FlightBy(shared, worker, n) BY <1>8, <2>7, HandIs
  <2>9. HandOf(worker', n) = e + ((a + b + c) - (0 + b + c)) BY <1>2, <2>2, <2>3, <2>5
  <2>10. e + ((a + b + c) - (0 + b + c)) = e + a BY ONLY <2>4, <2>6
  <2> QED BY <2>1, <2>3, <2>4, <2>6, <2>8, <2>9, <2>10
<1>15. ASSUME NEW n \in D
       PROVE  /\ v[n] <= d[n]
              /\ t[n].n = 0 /\ v[n] # 0 => v[n] = 1 /\ HandOf(worker, n) = 0
              /\ t[n].n = 0 /\ HandOf(worker, n) # 0 => v[n] = 0
  <2>1. v[n] \in VisitsOf(t, n, d[n]) /\ d[n] \in Int /\ d[n] >= 1 /\ n \in Positions BY <1>6
  <2>2. v[n] <= d[n]
    <3>1. PICK a, b : a = v[n] /\ b = d[n] OBVIOUS
    <3>2. a \in {0, 1} \/ a \in 1 .. b BY <2>1, <3>1 DEF VisitsOf
    <3>3. b \in Int /\ b >= 1 BY <2>1, <3>1
    <3> QED BY <3>1, <3>2, <3>3
  <2>3. ASSUME t[n].n = 0 PROVE v[n] = IF t[n].flight = 0 THEN 1 ELSE 0
    <3>1. ~(t[n].n > 0) BY <2>3
    <3> QED BY <2>1, <3>1 DEF VisitsOf
  <2>4. t[n].flight = FlightBy(shared, worker, n)
    <3>1. AtOrBelow(root, n)
      <4>1. n \in Leaves(tree) BY <1>6
      <4> QED BY <4>1 DEF Leaves
    <3>2. tree[n].flight = InFlight(n) BY <2>1, <3>1 DEF FlightInv
    <3> QED BY <1>11, <2>1, <3>2 DEF InFlight, FlightBy
  <2>5. t[n].flight \in Int /\ t[n].flight >= HandOf(worker, n) /\ HandOf(worker, n) \in Int
        /\ HandOf(worker, n) >= 0
    BY <1>8, <1>14, <2>1, <2>4, NodeType
  <2> QED BY <2>2, <2>3, <2>5
\* A leaf that waited waits on.
<1>16. ASSUME NEW o \in Workers, NEW n \in LeavesOf(worker[o])
       PROVE  Terminal(u[n]) \/ (u[n].n = 0 /\ HandOf(worker', n) = 1)
  <2>1. n \in Positions BY <1>8, BatchType
  <2>2. Reached(tree, n) BY DEF BoundsInv, BatchSound
  <2>3. AtOrBelow(root, n) /\ ~Misplaced(tree, n) BY <2>2 DEF Reached, Misplaced
  <2>4. CASE Terminal(tree[n]) BY <1>11, <2>1, <2>3, <2>4
  <2>5. CASE ~Terminal(tree[n])
    <3>1. tree[n].n = 0 /\ HandOf(worker, n) = 1 BY <2>5 DEF HeldInv, InHand, HandOf
    <3>2. t[n].n = 0 /\ u[n].n = 0 BY <1>11, <2>1, <2>3, <3>1
    <3>3. ASSUME NEW m \in D, AtOrBelow(n, m) PROVE v[m] = 0
      <4>1. ~Below(n, m) BY <1>13, <2>1, <2>3, <3>1
      <4>2. m = n BY <3>3, <4>1 DEF AtOrBelow
      <4> QED BY <1>15, <3>1, <3>2, <4>2
    <3>4. PICK S : S = {m \in D : AtOrBelow(n, m)} OBVIOUS
    <3>5. IsFiniteSet(S) BY <1>8, <3>4, FS_Subset
    <3>6. SumFunctionOnSet(v, S) = 0 BY <3>3, <3>4, <3>5, SumZero
    <3>7. HandOf(worker', n) = 1 BY <1>14, <3>1, <3>4, <3>6
    <3> QED BY <3>2, <3>7
  <2> QED BY <2>4, <2>5
\* A leaf picked now was picked by nobody else.
<1>17. ASSUME NEW n \in ToSet(ps)
       PROVE  Terminal(u[n]) \/ (u[n].n = 0 /\ HandOf(worker', n) = 1)
  <2>1. n \in D /\ n \in Positions BY <1>6 DEF ToSet
  <2>2. n \in Leaves(tree) BY <1>6, <2>1
  <2>3. AtOrBelow(root, n) /\ (tree[n].n = 0 \/ Terminal(tree[n])) BY <2>2 DEF Leaves
  <2> SUFFICES ASSUME ~Terminal(u[n]) PROVE u[n].n = 0 /\ HandOf(worker', n) = 1 OBVIOUS
  <2>4. t[n].n = 0 /\ u[n].n = 0
    <3>1. CASE tree[n].n = 0 BY <1>11, <2>1, <2>3, <3>1
    <3>2. CASE Terminal(tree[n])
      <4>1. Misplaced(tree, n) BY <1>11, <2>1, <3>2
      <4>2. Tidy(tree[n]) /\ tree[n].term = "TwoFold"
        BY <1>10, <2>1, <2>3, <4>1 DEF Misplaced, TidyBelow
      <4>3. tree[n].edges = {} BY <4>2 DEF Tidy
      <4> QED BY <1>11, <2>1, <4>1, <4>3
    <3> QED BY <2>3, <3>1, <3>2
  <2>5. ASSUME NEW m \in D, AtOrBelow(n, m) PROVE m = n
    <3>1. ~Below(n, m)
      <4>1. tree[n].n \in Int BY <1>8, <2>1, NodeType
      <4> QED BY <1>13, <2>1, <2>3, <4>1
    <3> QED BY <2>5, <3>1 DEF AtOrBelow
  <2>6. {m \in D : AtOrBelow(n, m)} = {n} BY <2>1, <2>5 DEF AtOrBelow
  <2>7. SumFunctionOnSet(v, {n}) = v[n]
    <3>1. PICK S : S = {n} OBVIOUS
    <3>2. IsFiniteSet(S) /\ n \in S /\ S \ {n} = {} /\ \A m \in S : v[m] \in Int
      BY <1>8, <1>9, <2>1, <3>1, FS_Subset
    <3>3. SumFunctionOnSet(v, S) = v[n] + SumFunctionOnSet(v, S \ {n}) BY <3>2, SumTake
    <3>4. SumFunctionOnSet(v, {}) = 0 BY SumNone
    <3>5. v[n] \in Nat BY <1>9, <2>1
    <3> QED BY <3>1, <3>2, <3>3, <3>4, <3>5
  <2>8. VisitsAt(ps, n) = v[n] BY <1>14, <2>6, <2>7
  <2>9. VisitsAt(ps, n) >= 1 BY <1>6, VisitsSome
  <2>10. v[n] = 1 /\ HandOf(worker, n) = 0
    <3>1. v[n] \in Nat /\ v[n] # 0 BY <1>9, <2>1, <2>8, <2>9
    <3> QED BY <1>15, <2>1, <2>4, <3>1
  <2>11. HandOf(worker', n) = 1
    <3>1. HandOf(worker', n) = HandOf(worker, n) + VisitsAt(ps, n) BY <1>14
    <3> QED BY <2>8, <2>10, <3>1
  <2> QED BY <2>4, <2>11
<1>18. Waiting(tree', worker')
  <2> SUFFICES ASSUME NEW o \in Workers, NEW n \in LeavesOf(worker'[o])
               PROVE  Terminal(u[n]) \/ (u[n].n = 0 /\ HandOf(worker', n) = 1)
    BY <1>6 DEF Waiting
  <2>1. CASE o # w
    <3>1. worker'[o] = worker[o] BY <1>7, <1>8, <2>1
    <3> QED BY <1>16, <3>1
  <2>2. CASE o = w
    <3>1. worker'[o] = y BY <1>7, <1>8, <2>2
    <3>2. n \in LeavesOf(worker[w]) \/ n \in ToSet(ps) BY <1>2, <1>7, <3>1 DEF LeavesOf
    <3> QED BY <1>16, <1>17, <3>2
  <2> QED BY <2>1, <2>2
<1>19. AllCounted(shared', worker')
  <2>1. NotNegative(y.met)
    <3> SUFFICES ASSUME NEW n \in Positions PROVE y.met[n] >= 0 BY DEF NotNegative
    <3>1. n \in D => v[n] \in Nat /\ d[n] \in Int /\ v[n] <= d[n] BY <1>6, <1>9, <1>15
    <3>2. y.met[n] = IF n \in D THEN d[n] - v[n] ELSE 0 BY <1>7
    <3> QED BY <3>1, <3>2
  <2>2. ASSUME NEW o \in Workers
        PROVE  NotNegative(worker'[o].met) /\ NotNegative(worker'[o].collisions)
    <3>1. CASE o # w
      <4>1. worker'[o] = worker[o] BY <1>7, <1>8, <3>1
      <4> QED BY <4>1 DEF HeldInv, NotNegative
    <3>2. CASE o = w
      <4>1. worker'[o] = y BY <1>7, <1>8, <3>2
      <4>2. NotNegative(x.collisions) BY <1>2 DEF HeldInv, NotNegative
      <4> QED BY <1>7, <2>1, <4>1, <4>2
    <3> QED BY <3>1, <3>2
  <2>3. NotNegative(shared') BY <1>3 DEF HeldInv, NotNegative
  <2> QED BY <2>2, <2>3 DEF AllCounted
<1>20. lost' = {} /\ AllTidy(tree', head') BY <1>3, <1>6, <1>12 DEF HeldInv
<1> QED BY <1>18, <1>19, <1>20, HeldNext

-----------------------------------------------------------------------------
\* A node that is no longer over counts no more than the visits to its children.
LEMMA NotTerminalTidy ==
  ASSUME NEW t \in [Positions -> Node], NEW n \in Positions, \A c \in t[n].edges : t[c].n >= 0,
         NEW u, u = MakeNotTerminal(t, n)
  PROVE  Tidy(u[n])
<1>1. PICK v, a, b : v = TerminalValue(t[n]) /\ a = 1 + ChildVisits(t, n) /\ b = v - ChildValues(t, n)
  OBVIOUS
<1>2. a \in Int /\ a >= 0
  <2>1. PICK S, f : S = t[n].edges /\ f = [c \in t[n].edges |-> t[c].n] OBVIOUS
  <2>2. S \subseteq Positions BY <2>1, NodeType
  <2>3. IsFiniteSet(S) BY <2>2, FS_Subset, GameAssumption
  <2>4. \A c \in S : f[c] \in Int /\ f[c] >= 0 BY <2>1, <2>2, NodeType
  <2>5. SumFunctionOnSet(f, S) >= 0 /\ SumFunctionOnSet(f, S) \in Int BY <2>3, <2>4, SumNat, SumType
  <2>6. ChildVisits(t, n) = SumFunctionOnSet(f, S) BY <2>1 DEF ChildVisits, SumFunction
  <2> QED BY <1>1, <2>5, <2>6
<1>3. PICK x : x = [t[n] EXCEPT !.term = "NonTerminal"] OBVIOUS
<1>4. DOMAIN x = DOMAIN t[n] /\ x.term = "NonTerminal" /\ x.edges = t[n].edges
      /\ x \in Node
  <2>1. t[n] \in Node OBVIOUS
  <2> QED BY <1>3, <2>1 DEF Node
<1>5. PICK y : y = IF x.edges = {} THEN [x EXCEPT !.n = 0, !.w = 0]
                   ELSE [x EXCEPT !.n = a, !.own = v, !.w = b]
  OBVIOUS
<1>6. y.term = "NonTerminal" /\ y.n = IF x.edges = {} THEN 0 ELSE a
  <2>1. CASE x.edges = {}
    <3>1. y = [x EXCEPT !.n = 0, !.w = 0] BY <1>5, <2>1
    <3> QED BY <1>4, <2>1, <3>1 DEF Node
  <2>2. CASE x.edges # {}
    <3>1. y = [x EXCEPT !.n = a, !.own = v, !.w = b] BY <1>5, <2>2
    <3> QED BY <1>4, <2>2, <3>1 DEF Node
  <2> QED BY <2>1, <2>2
<1>7. MakeNotTerminal(t, n) = [t EXCEPT ![n] = y] BY <1>1, <1>3, <1>5 DEF MakeNotTerminal
<1>8. u[n] = y BY <1>7
<1> QED BY <1>2, <1>6, <1>8 DEF Tidy

LEMMA FreshTidy == Tidy(FreshNode) /\ FreshNode.edges = {}
BY DEF Tidy, FreshNode

\* The tree below a position and the old head, on the way to a new one.
LedTidy(t, old, n) ==
  \A m \in Positions :
     AtOrBelow(n, m) /\ AtOrBelow(old, m) => Tidy(t[m]) /\ t[m].edges \in {{}, Children(m)}

LEMMA MoveTidy ==
  ASSUME NEW t \in [Positions -> Node], NEW n \in Positions, n # << >>, NEW old \in Positions,
         LedTidy(t, old, Parent(n)), NEW u, u = MakeMove(t, n)
  PROVE  /\ LedTidy(u, old, n)
         /\ \A m \in Positions : AtOrBelow(n, m) => u[m].edges \in {{}, t[m].edges}
<1>1. PICK p : p = Parent(n) OBVIOUS
<1>2. p \in Positions /\ Below(p, n) BY <1>1, ParentOf
<1>3. PICK found : found = (n \in t[p].edges) OBVIOUS
<1>4. PICK s, spared : /\ s = MakeNotTerminal(t, n)
                       /\ spared = IF found /\ Terminal(t[n]) THEN s ELSE t
  OBVIOUS
<1>5. PICK x : x = [t[p] EXCEPT !.solid = FALSE, !.edges = IF found THEN @ ELSE {n}] OBVIOUS
<1>6. u = [m \in Positions |->
            IF m = p THEN x
            ELSE IF Below(p, m) /\ ~(found /\ AtOrBelow(n, m)) THEN FreshNode
            ELSE spared[m]]
  BY <1>1, <1>3, <1>4, <1>5 DEF MakeMove
<1>7. /\ \A m \in Positions : m # n => s[m] = t[m]
      /\ s[n].edges = t[n].edges
  BY <1>4, NotTerminalIs
<1>8. ASSUME NEW m \in Positions, AtOrBelow(n, m)
      PROVE  AtOrBelow(p, m) /\ (u[m] = FreshNode \/ u[m] = t[m] \/ (m = n /\ u[m] = s[m]))
  <2>1. AtOrBelow(p, m) /\ m # p BY <1>2, <1>8, BelowBelow DEF AtOrBelow
  <2>2. u[m] = FreshNode \/ u[m] = spared[m] BY <1>6, <2>1
  <2>3. spared[m] = t[m] \/ (m = n /\ spared[m] = s[m]) BY <1>4, <1>7
  <2> QED BY <2>1, <2>2, <2>3
<1>9. ASSUME NEW m \in Positions, AtOrBelow(n, m) PROVE u[m].edges \in {{}, t[m].edges}
  BY <1>7, <1>8, <1>9, FreshTidy
<1>10. ASSUME NEW m \in Positions, AtOrBelow(n, m), AtOrBelow(old, m) PROVE Tidy(u[m])
  <2>1. CASE u[m] = FreshNode BY <2>1, FreshTidy
  <2>2. CASE u[m] = t[m] BY <1>1, <1>8, <1>10, <2>2 DEF LedTidy
  <2>3. CASE m = n /\ u[m] = s[m]
    <3>1. t[n].edges \in {{}, Children(n)} BY <1>1, <1>8, <1>10, <2>3 DEF LedTidy
    <3>2. ASSUME NEW c \in t[n].edges PROVE t[c].n >= 0
      <4>1. c \in Positions /\ Below(n, c) BY <3>1, ChildOf
      <4>2. AtOrBelow(p, c) /\ AtOrBelow(old, c)
        BY <1>2, <1>10, <2>3, <4>1, BelowBelow DEF AtOrBelow
      <4> QED BY <1>1, <4>1, <4>2 DEF LedTidy, Tidy
    <3>3. Tidy(s[n]) BY <1>4, <3>2, NotTerminalTidy
    <3> QED BY <2>3, <3>3
  <2> QED BY <1>8, <1>10, <2>1, <2>2, <2>3
<1>11. ASSUME NEW m \in Positions, AtOrBelow(n, m), AtOrBelow(old, m)
       PROVE  u[m].edges \in {{}, Children(m)}
  <2>1. t[m].edges \in {{}, Children(m)} BY <1>1, <1>8, <1>11 DEF LedTidy
  <2> QED BY <1>9, <1>11, <2>1
<1> QED BY <1>9, <1>10, <1>11 DEF LedTidy

LEMMA LineTidy ==
  ASSUME NEW t \in [Positions -> Node], NEW old \in Positions, AllSound(t, old), AllTidy(t, old),
         NEW n \in Positions, AtOrBelow(old, n), NEW u, u = PlayLine(t, n)
  PROVE  AllTidy(u, n)
<1>1. PICK k : k = Len(n) OBVIOUS
<1>2. /\ k \in Nat /\ FirstMoves(n, k) = n /\ FirstMoves(n, 0) = << >>
      /\ \A i \in 0 .. k : FirstMoves(n, i) \in Positions
      /\ \A i \in 1 .. k : /\ FirstMoves(n, i) # << >>
                           /\ Parent(FirstMoves(n, i)) = FirstMoves(n, i - 1)
  BY <1>1, FirstMovesAre
<1>3. PICK g : /\ PlayLine(t, n) = g[k] /\ g[0] = t
               /\ \A i \in 1 .. k : g[i] = MakeMove(g[i - 1], FirstMoves(n, i))
  BY <1>1, <1>2, LineRun
<1> DEFINE P(i) == /\ g[i] \in [Positions -> Node] /\ LedTidy(g[i], old, FirstMoves(n, i))
                   /\ \A m \in Positions :
                         AtOrBelow(FirstMoves(n, i), m) => g[i][m].edges \in {{}, t[m].edges}
           T == {i \in 0 .. k : P(i)}
<1>4. P(0)
  <2>1. LedTidy(t, old, << >>) BY DEF LedTidy, AllTidy, AllSound, Sound
  <2> QED BY <1>2, <1>3, <2>1
<1>5. ASSUME NEW i \in 1 .. k, P(i - 1) PROVE P(i)
  <2>1. PICK a, s, v : a = FirstMoves(n, i) /\ s = g[i - 1] /\ v = g[i] OBVIOUS
  <2>2. i \in 0 .. k /\ i - 1 \in 0 .. k BY <1>2
  <2>3. a \in Positions /\ a # << >> /\ Parent(a) = FirstMoves(n, i - 1) BY <1>2, <2>1, <2>2
  <2>4. /\ s \in [Positions -> Node] /\ LedTidy(s, old, Parent(a))
        /\ \A m \in Positions : AtOrBelow(Parent(a), m) => s[m].edges \in {{}, t[m].edges}
    BY <1>5, <2>1, <2>3
  <2>5. v = MakeMove(s, a) BY <1>3, <2>1
  <2>6. v \in [Positions -> Node]
    <3>1. MakeMove(s, a) \in [Positions -> Node] BY <2>3, <2>4, MoveIs
    <3> QED BY <2>5, <3>1
  <2>7. /\ LedTidy(v, old, a)
        /\ \A m \in Positions : AtOrBelow(a, m) => v[m].edges \in {{}, s[m].edges}
    BY <2>3, <2>4, <2>5, MoveTidy
  <2>8. ASSUME NEW m \in Positions, AtOrBelow(a, m) PROVE v[m].edges \in {{}, t[m].edges}
    <3>1. Parent(a) \in Positions /\ Below(Parent(a), a) BY <2>3, ParentOf
    <3>2. AtOrBelow(Parent(a), m) BY <2>3, <2>8, <3>1, BelowBelow DEF AtOrBelow
    <3> QED BY <2>4, <2>7, <2>8, <3>2
  <2> QED BY <2>1, <2>6, <2>7, <2>8
<1> HIDE DEF P
<1>6. P(k)
  <2>1. 0 \in T /\ \A i \in 1 .. k : i - 1 \in T => i \in T BY <1>2, <1>4, <1>5
  <2> HIDE DEF T
  <2> QED BY <1>2, <2>1, UpTo DEF T
<1>7. /\ LedTidy(u, old, n)
      /\ \A m \in Positions : AtOrBelow(n, m) => u[m].edges \in {{}, t[m].edges}
  BY <1>2, <1>3, <1>6 DEF P
<1>8. ASSUME NEW m \in Positions, AtOrBelow(n, m)
      PROVE  AtOrBelow(old, m) /\ (Below(n, m) => Below(old, m))
  BY <1>8, BelowBelow DEF AtOrBelow
<1>9. Len(old) \in Nat /\ Len(n) \in Nat /\ Len(old) <= Len(n) BY Pos, IsAtOrBelow
<1> SUFFICES ASSUME NEW m \in Positions
             PROVE  /\ AtOrBelow(n, m) => Tidy(u[m])
                    /\ Below(n, m) /\ m \in DOMAIN Cycle /\ u[m].edges # {} =>
                          Len(m) - Len(n) < Cycle[m]
  BY DEF AllTidy
<1>10. AtOrBelow(n, m) => Tidy(u[m]) BY <1>7, <1>8 DEF LedTidy
<1>11. ASSUME Below(n, m), m \in DOMAIN Cycle, u[m].edges # {} PROVE Len(m) - Len(n) < Cycle[m]
  <2>1. AtOrBelow(n, m) BY <1>11 DEF AtOrBelow
  <2>2. t[m].edges # {} /\ Below(old, m) BY <1>7, <1>8, <1>11, <2>1
  <2>3. Len(m) - Len(old) < Cycle[m] BY <1>11, <2>2 DEF AllTidy
  <2>4. Len(m) \in Nat /\ Cycle[m] \in Nat BY <1>11, Pos, SearchAssumption
  <2> QED BY <1>9, <2>3, <2>4
<1> QED BY <1>10, <1>11

LEMMA TrimTidy ==
  ASSUME NEW t \in [Positions -> Node], NEW n \in Positions PROVE AllTidy(Trim(t, n), n)
<1>1. PICK u : u = Trim(t, n) OBVIOUS
<1>2. \A m \in Positions : u[m] = IF AtOrBelow(n, m) THEN FreshNode ELSE t[m] BY <1>1, TrimIs
<1>3. AllTidy(u, n) BY <1>2, FreshTidy DEF AllTidy, AtOrBelow
<1> QED BY <1>1, <1>3

\* With the workers idle no leaf waits, and no count is negative.
LEMMA IdleHeld ==
  ASSUME NEW b, \A w \in Workers : b[w] = Idle, NEW c, NotNegative(c), NEW t
  PROVE  AllCounted(c, b) /\ Waiting(t, b)
<1>1. AllCounted(c, b)
  <2>1. ASSUME NEW w \in Workers PROVE NotNegative(b[w].met) /\ NotNegative(b[w].collisions)
    <3>1. b[w] = Idle OBVIOUS
    <3> QED BY <3>1, IdleParts, NoneNat
  <2> QED BY <2>1 DEF AllCounted
<1>2. Waiting(t, b)
  <2>1. ASSUME NEW w \in Workers PROVE LeavesOf(b[w]) = {}
    <3>1. b[w] = Idle OBVIOUS
    <3> QED BY <3>1, IdleType
  <2> QED BY <2>1 DEF Waiting
<1> QED BY <1>1, <1>2

LEMMA SetPositionHeld == ASSUME BoundsInv, HeldInv, SetPosition PROVE HeldInv'
<1>1. TypeOK /\ Stopped /\ AllSound(tree, head) BY DEF BoundsInv, SetPosition
<1>2. PICK n \in Lines : tree' = ResetToPosition(tree, head, n) /\ head' = n BY DEF SetPosition
<1>3. UNCHANGED <<worker, shared, lost>> BY DEF SetPosition
<1>4. n \in Positions /\ head \in Positions /\ tree \in [Positions -> Node]
  BY <1>1, SearchAssumption DEF TypeOK
<1>5. PICK led : led = PlayLine(tree, n) OBVIOUS
<1>6. AllTidy(tree', n)
  <2>1. CASE AtOrBelow(head, n)
    <3>1. AllTidy(tree, head) BY DEF HeldInv
    <3>2. AllTidy(led, n) BY <1>1, <1>4, <1>5, <2>1, <3>1, LineTidy
    <3> QED BY <1>2, <1>5, <2>1, <3>2 DEF ResetToPosition
  <2>2. CASE ~AtOrBelow(head, n)
    <3>1. led \in [Positions -> Node]
      <4>1. PlayLine(tree, n) \in [Positions -> Node] BY <1>1, <1>4, LineIs
      <4> QED BY <1>5, <4>1
    <3>2. AllTidy(Trim(led, n), n) BY <1>4, <3>1, TrimTidy
    <3> QED BY <1>2, <1>5, <2>2, <3>2 DEF ResetToPosition
  <2> QED BY <2>1, <2>2
<1>7. PICK b, c, t : b = worker' /\ c = shared' /\ t = tree' OBVIOUS
<1>8. NotNegative(c) BY <1>3, <1>7 DEF HeldInv, NotNegative
<1>9. \A w \in Workers : b[w] = Idle BY <1>1, <1>3, <1>7 DEF Stopped
<1>10. AllCounted(c, b) /\ Waiting(t, b) BY <1>8, <1>9, IdleHeld
<1>11. lost' = {} BY <1>3 DEF HeldInv
<1> QED BY <1>2, <1>6, <1>7, <1>10, <1>11, HeldNext

LEMMA GoHeld == ASSUME BoundsInv, HeldInv, Go PROVE HeldInv'
<1>1. TypeOK /\ Stopped BY DEF BoundsInv, Go, Phases
<1>2. PICK clear \in BOOLEAN : tree' = Cancel(IF clear THEN Trim(tree, head) ELSE tree, shared)
  BY DEF Go
<1>3. shared' = NoCollisions /\ UNCHANGED <<head, worker, lost>> BY DEF Go
<1>4. head \in Positions /\ tree \in [Positions -> Node] /\ shared \in [Positions -> Int]
  BY <1>1 DEF TypeOK
<1>5. PICK t, u : t = (IF clear THEN Trim(tree, head) ELSE tree) /\ u = Cancel(t, shared) OBVIOUS
<1>6. t \in [Positions -> Node] /\ AllTidy(t, head)
  <2>1. CASE clear
    <3>1. Trim(tree, head) \in [Positions -> Node] BY <1>4, TrimIs
    <3> QED BY <1>4, <1>5, <2>1, <3>1, TrimTidy
  <2>2. CASE ~clear BY <1>4, <1>5, <2>2 DEF HeldInv
  <2> QED BY <2>1, <2>2
<1>7. FlightOnly(t, u)
  <2>1. Counts(shared) BY <1>4 DEF Counts
  <2> QED BY <1>5, <1>6, <2>1, CancelIs
<1>8. AllTidy(u, head) BY <1>6, <1>7, FlightHeld
<1>9. PICK b, c : b = worker' /\ c = shared' OBVIOUS
<1>10. \A w \in Workers : b[w] = Idle BY <1>1, <1>3, <1>9 DEF Stopped
<1>11. AllCounted(c, b) /\ Waiting(u, b) BY <1>3, <1>9, <1>10, NoneNat, IdleHeld
<1>12. lost' = {} BY <1>3 DEF HeldInv
<1>13. tree' = u /\ head' = head BY <1>2, <1>3, <1>5
<1> QED BY <1>8, <1>9, <1>11, <1>12, <1>13, HeldNext

LEMMA HeldInit == Init => HeldInv
<1> SUFFICES ASSUME Init PROVE HeldInv OBVIOUS
<1>1. /\ head = << >> /\ root = << >> /\ worker = [w \in Workers |-> Idle]
      /\ shared = NoCollisions /\ lost = {}
  BY DEF Init
<1>2. PICK o \in Openings : tree = Opened(o) BY DEF Init
<1>3. \A m \in Positions : Neat(tree[m], m) BY <1>1, <1>2, OpenedIs
<1>4. AllTidy(tree, head)
  <2> SUFFICES ASSUME NEW m \in Positions
               PROVE  /\ Tidy(tree[m])
                      /\ Below(head, m) /\ m \in DOMAIN Cycle /\ tree[m].edges # {} =>
                            Len(m) - Len(head) < Cycle[m]
    BY DEF AllTidy
  <2>1. Tidy(tree[m]) BY <1>3 DEF Neat, Tidy
  <2>2. ASSUME Below(head, m), m \in DOMAIN Cycle, tree[m].edges # {}
        PROVE  Len(m) - Len(head) < Cycle[m]
    <3>1. ~Repeated(m) BY <1>3, <2>2 DEF Neat
    <3>2. root \in Positions BY <1>1, GameAssumption
    <3> QED BY <1>1, <2>2, <3>1, <3>2, TidyThere
  <2> QED BY <2>1, <2>2
<1>5. \A w \in Workers : worker[w] = Idle BY <1>1
<1>6. AllCounted(shared, worker) /\ Waiting(tree, worker) BY <1>1, <1>5, NoneNat, IdleHeld
<1>7. \A n : InHand(n) = HandOf(worker, n) BY DEF InHand, HandOf
<1> QED BY <1>1, <1>4, <1>6, <1>7 DEF HeldInv, AllCounted, NotNegative, Waiting

LEMMA HeldInvStep == BoundsInv /\ FlightInv /\ HeldInv /\ [Next]_vars => HeldInv'
<1> SUFFICES ASSUME BoundsInv, FlightInv, HeldInv, [Next]_vars PROVE HeldInv' OBVIOUS
<1>1. ASSUME NEW w \in Workers, Pick(w) PROVE HeldInv' BY <1>1, PickHeld
<1>2. ASSUME NEW w \in Workers, Extend(w) PROVE HeldInv' BY <1>2, ExtendHeld
<1>3. ASSUME NEW w \in Workers, Settling(w) PROVE HeldInv' BY <1>3, SettlingHeld
<1>4. ASSUME NEW w \in Workers, Upsize(w) PROVE HeldInv' BY <1>4, UpsizeHeld
<1>5. ASSUME NEW w \in Workers, CollectCollisions(w) PROVE HeldInv' BY <1>5, CollectHeld
<1>6. ASSUME NEW w \in Workers, DoBackupUpdate(w) PROVE HeldInv' BY <1>6, DoBackupHeld
<1>7. CASE SetPosition BY <1>7, SetPositionHeld
<1>8. CASE Go BY <1>8, GoHeld
<1>9. CASE UNCHANGED vars
  <2>1. tree' = tree /\ head' = head /\ worker' = worker /\ shared' = shared /\ lost' = lost
    BY <1>9 DEF vars
  <2>2. \A n : InHand(n) = HandOf(worker, n) BY DEF InHand, HandOf
  <2>3. Waiting(tree, worker) BY <2>2 DEF HeldInv, Waiting
  <2>4. AllCounted(shared, worker) BY DEF HeldInv, AllCounted, NotNegative
  <2>5. lost = {} /\ AllTidy(tree, head) BY DEF HeldInv
  <2> QED BY <2>1, <2>3, <2>4, <2>5, HeldNext
<1> QED BY <1>1, <1>2, <1>3, <1>4, <1>5, <1>6, <1>7, <1>8, <1>9 DEF Next, Settling

\* What a thread holds stays as it left it until its value comes: a leaf in a minibatch is
\* terminal, or has this one visit and no value yet (search.cc:2166-2213).
THEOREM TreeHeldInvariant == Spec => []HeldInv
<1>1. Init => HeldInv BY HeldInit
<1>2. BoundsInv /\ FlightInv /\ HeldInv /\ [Next]_vars => HeldInv' BY HeldInvStep
<1>3. Spec => []BoundsInv BY TreeBoundsInvariant
<1>4. Spec => []FlightInv BY TreeFlightInvariant
<1> QED BY <1>1, <1>2, <1>3, <1>4, PTL DEF Spec

\* MakeSolid never moves a node that a minibatch points to, a leaf or a collision, the one of the
\* thread that backs up included, or that the shared collisions name: it leaves a parent alone while
\* a child without a value is in flight (node.cc:247-269, search.cc:1388-1408, 2009-2018).
THEOREM HeldStay == Spec => []HeldNodesStay
<1>1. HeldInv => HeldNodesStay BY DEF HeldInv, HeldNodesStay
<1> QED BY <1>1, TreeHeldInvariant, PTL
=============================================================================
