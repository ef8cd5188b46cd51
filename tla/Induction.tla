------------------------------- MODULE Induction -------------------------------
(***************************************************************************)
(* Induction over the natural numbers, in a form the provers can use.  The *)
(* library states it for an operator P(_), which none of the provers here  *)
(* can instantiate; a set P does as well, since every property of this     *)
(* project is about members of a set.  It follows from WFMin: a set of     *)
(* numbers that is not empty has a least one.  Sums over finite sets are   *)
(* what it is mostly used for.                                             *)
(***************************************************************************)
EXTENDS Integers, Sequences, Functions, TLAPS, FiniteSetTheorems, WellFoundedInduction

(* A nonempty set of natural numbers has a least member.                   *)
LEMMA LeastNumber ==
  ASSUME NEW T, T \subseteq Nat, T # {}
  PROVE  \E x \in T : \A y \in T : ~(y < x)
<1>1. PICK x \in T : \A y \in T : ~(<<y, x>> \in OpToRel(<, Nat))
  BY NatLessThanWellFounded, WFMin, Zenon
<1> QED BY <1>1 DEF OpToRel

(* A set with 0 that is closed under +1 holds every natural number.        *)
THEOREM NatInductionOnSet ==
  ASSUME NEW P, 0 \in P, \A n \in Nat : n \in P => n + 1 \in P
  PROVE  \A n \in Nat : n \in P
<1> DEFINE T == Nat \ P
<1> SUFFICES ASSUME T # {} PROVE FALSE
  OBVIOUS
<1>1. T \subseteq Nat
  OBVIOUS
<1> HIDE DEF T
<1>2. PICK x \in T : \A y \in T : ~(y < x)
  BY <1>1, LeastNumber, Zenon
<1> USE DEF T
<1>3. x # 0 /\ x - 1 \in Nat
  BY <1>2
<1>4. x - 1 \in P
  BY <1>2, <1>3
<1> QED BY <1>2, <1>3, <1>4

-----------------------------------------------------------------------------
(* Running totals.                                                         *)

(* f is the running total of the first n numbers of q.                     *)
IsTotal(f, n, q) == f = [k \in 0 .. n |-> IF k = 0 THEN 0 ELSE f[k - 1] + q[k]]

LEMMA TotalSteps ==
  ASSUME NEW n \in Nat, NEW q, NEW f, IsTotal(f, n, q)
  PROVE  f[0] = 0 /\ \A k \in 1 .. n : f[k] = f[k - 1] + q[k]
<1>1. ASSUME NEW k \in 0 .. n PROVE f[k] = IF k = 0 THEN 0 ELSE f[k - 1] + q[k]
  BY DEF IsTotal
<1> QED BY <1>1

LEMMA TotalExists ==
  ASSUME NEW n \in Nat, NEW q, \A k \in 1 .. n : q[k] \in Int
  PROVE  \E f : IsTotal(f, n, q) /\ \A k \in 0 .. n : f[k] \in Int
<1> DEFINE P == {m \in Nat : m <= n => \E f : IsTotal(f, m, q) /\ \A k \in 0 .. m : f[k] \in Int}
<1>1. 0 \in P
  <2> DEFINE f == [k \in 0 .. 0 |-> 0]
  <2>1. IsTotal(f, 0, q) /\ \A k \in 0 .. 0 : f[k] \in Int
    BY DEF IsTotal
  <2> QED BY <2>1
<1>2. ASSUME NEW m \in Nat, m \in P PROVE m + 1 \in P
  <2> SUFFICES ASSUME m + 1 <= n
               PROVE  \E f : IsTotal(f, m + 1, q) /\ \A k \in 0 .. m + 1 : f[k] \in Int
    OBVIOUS
  <2>1. PICK g : IsTotal(g, m, q) /\ \A k \in 0 .. m : g[k] \in Int
    BY <1>2
  <2> DEFINE f == [k \in 0 .. m + 1 |-> IF k = m + 1 THEN g[m] + q[m + 1] ELSE g[k]]
  <2>2. \A k \in 0 .. m : g[k] = IF k = 0 THEN 0 ELSE g[k - 1] + q[k]
    BY <2>1 DEF IsTotal
  <2>3. \A k \in 0 .. m + 1 : f[k] = IF k = 0 THEN 0 ELSE f[k - 1] + q[k]
    BY <2>2
  <2>4. IsTotal(f, m + 1, q)
    BY <2>3 DEF IsTotal
  <2>5. \A k \in 0 .. m + 1 : f[k] \in Int
    BY <2>1
  <2> QED BY <2>4, <2>5
<1> HIDE DEF P
<1>3. n \in P
  BY <1>1, <1>2, NatInductionOnSet
<1> QED BY <1>3 DEF P

LEMMA TotalIsUnique ==
  ASSUME NEW n \in Nat, NEW q, NEW f, NEW g, NEW m \in 0 .. n,
         NEW r, \A k \in 1 .. m : r[k] = q[k],
         IsTotal(f, n, q), IsTotal(g, m, r)
  PROVE  g[m] = f[m]
<1> DEFINE P == {k \in Nat : k <= m => f[k] = g[k]}
<1>1. /\ \A k \in 0 .. n : f[k] = IF k = 0 THEN 0 ELSE f[k - 1] + q[k]
      /\ \A k \in 0 .. m : g[k] = IF k = 0 THEN 0 ELSE g[k - 1] + r[k]
  BY DEF IsTotal
<1>2. 0 \in P
  BY <1>1
<1>3. ASSUME NEW k \in Nat, k \in P PROVE k + 1 \in P
  <2> SUFFICES ASSUME k + 1 <= m PROVE f[k + 1] = g[k + 1]
    OBVIOUS
  <2>1. f[k + 1] = f[k] + q[k + 1] /\ g[k + 1] = g[k] + r[k + 1]
    BY <1>1
  <2> QED BY <1>3, <2>1
<1> HIDE DEF P
<1>4. m \in P
  BY <1>2, <1>3, NatInductionOnSet
<1> QED BY <1>4 DEF P

-----------------------------------------------------------------------------
(* Sums over finite sets.                                                  *)

(* f gives the sums of a over the subsets of S.                            *)
IsSum(f, a, S) ==
  f = [s \in SUBSET S |-> IF s = {} THEN 0
                          ELSE LET x == CHOOSE x \in s : TRUE IN a[x] + f[s \ {x}]]

LEMMA OneLess ==
  ASSUME NEW S, IsFiniteSet(S), NEW x \in S
  PROVE  /\ IsFiniteSet(S \ {x}) /\ Cardinality(S) \in Nat \ {0}
         /\ Cardinality(S \ {x}) = Cardinality(S) - 1
<1>1. IsFiniteSet(S \ {x}) /\ Cardinality(S \ {x}) = Cardinality(S) - 1
  BY FS_RemoveElement
<1>2. Cardinality(S) \in Nat /\ Cardinality(S \ {x}) \in Nat
  BY <1>1, FS_CardinalityType
<1> QED BY <1>1, <1>2

LEMMA SumExists ==
  ASSUME NEW S, IsFiniteSet(S), NEW a PROVE \E f : IsSum(f, a, S)
<1> DEFINE Chosen(s) == CHOOSE x \in s : TRUE
           SumsTo(f, s) == f[s] = IF s = {} THEN 0 ELSE a[Chosen(s)] + f[s \ {Chosen(s)}]
           P == {n \in Nat : \E f : \A s \in SUBSET S : Cardinality(s) <= n => SumsTo(f, s)}
<1>1. ASSUME NEW s \in SUBSET S
      PROVE  /\ IsFiniteSet(s) /\ Cardinality(s) \in Nat /\ (Cardinality(s) = 0 <=> s = {})
             /\ s # {} => /\ Chosen(s) \in s /\ s \ {Chosen(s)} \in SUBSET S
                          /\ Cardinality(s \ {Chosen(s)}) = Cardinality(s) - 1
  <2>1. IsFiniteSet(s)
    BY FS_Subset
  <2>2. Cardinality(s) \in Nat /\ (Cardinality(s) = 0 <=> s = {})
    BY <2>1, FS_CardinalityType, FS_EmptySet
  <2>3. s # {} => Chosen(s) \in s
    OBVIOUS
  <2> HIDE DEF Chosen
  <2> QED BY <2>1, <2>2, <2>3, OneLess
<1> HIDE DEF Chosen
<1>2. 0 \in P
  <2> DEFINE f == [s \in SUBSET S |-> 0]
  <2>1. ASSUME NEW s \in SUBSET S, Cardinality(s) <= 0 PROVE s = {}
    <3>1. Cardinality(s) \in Nat /\ (Cardinality(s) = 0 <=> s = {})
      BY <1>1
    <3> QED BY <2>1, <3>1
  <2>2. SumsTo(f, {})
    OBVIOUS
  <2> HIDE DEF f, SumsTo
  <2> QED BY <2>1, <2>2
<1>3. ASSUME NEW n \in Nat, n \in P PROVE n + 1 \in P
  <2>1. PICK g : \A s \in SUBSET S : Cardinality(s) <= n => SumsTo(g, s)
    BY <1>3
  <2> DEFINE f == [s \in SUBSET S |-> IF Cardinality(s) <= n THEN g[s]
                                      ELSE a[Chosen(s)] + g[s \ {Chosen(s)}]]
  <2>2. ASSUME NEW s \in SUBSET S, Cardinality(s) <= n + 1 PROVE SumsTo(f, s)
    <3>1. CASE s = {}
      <4>1. Cardinality({}) <= n
        BY <1>3, FS_EmptySet
      <4>2. f[{}] = g[{}] /\ SumsTo(g, {})
        <5> HIDE DEF SumsTo
        <5> QED BY <2>1, <4>1
      <4> QED BY <3>1, <4>2
    <3>2. CASE s # {}
      <4>1. f[s \ {Chosen(s)}] = g[s \ {Chosen(s)}]
        BY <1>1, <2>2, <3>2
      <4>2. f[s] = a[Chosen(s)] + g[s \ {Chosen(s)}]
        BY <1>1, <2>1, <3>2
      <4> QED BY <3>2, <4>1, <4>2
    <3> QED BY <3>1, <3>2
  <2> HIDE DEF f, SumsTo
  <2> QED BY <2>2
<1> HIDE DEF P
<1>4. Cardinality(S) \in P
  BY <1>1, <1>2, <1>3, NatInductionOnSet
<1>5. PICK g : \A s \in SUBSET S : Cardinality(s) <= Cardinality(S) => SumsTo(g, s)
  BY <1>4 DEF P
<1>6. \A s \in SUBSET S : SumsTo(g, s)
  BY <1>1, <1>5, FS_Subset
<1> DEFINE f == [s \in SUBSET S |-> g[s]]
<1>7. ASSUME NEW s \in SUBSET S PROVE SumsTo(f, s)
  BY <1>1, <1>6
<1>8. f = [s \in SUBSET S |-> IF s = {} THEN 0 ELSE a[Chosen(s)] + f[s \ {Chosen(s)}]]
  BY <1>7
<1>9. IsSum(f, a, S)
  BY <1>8 DEF IsSum, Chosen
<1> QED BY <1>9

(* The order in which the elements are chosen does not matter.             *)
LEMMA SumSteps ==
  ASSUME NEW S, IsFiniteSet(S), NEW a \in [S -> Int], NEW f, IsSum(f, a, S)
  PROVE  /\ f[{}] = 0
         /\ \A s \in SUBSET S : f[s] \in Int /\ \A x \in s : f[s] = a[x] + f[s \ {x}]
<1> DEFINE Chosen(s) == CHOOSE x \in s : TRUE
           Fine(s) == f[s] \in Int /\ \A x \in s : f[s] = a[x] + f[s \ {x}]
           P == {n \in Nat : \A s \in SUBSET S : Cardinality(s) <= n => Fine(s)}
<1>1. \A s \in SUBSET S : s # {} => Chosen(s) \in s
  OBVIOUS
<1>2. ASSUME NEW s \in SUBSET S
      PROVE  f[s] = IF s = {} THEN 0 ELSE a[Chosen(s)] + f[s \ {Chosen(s)}]
  BY DEF IsSum
<1>3. ASSUME NEW s \in SUBSET S
      PROVE  /\ Cardinality(s) \in Nat /\ (Cardinality(s) = 0 <=> s = {})
             /\ \A x \in s : /\ s \ {x} \in SUBSET S
                            /\ Cardinality(s \ {x}) = Cardinality(s) - 1
  <2>1. IsFiniteSet(s)
    BY FS_Subset
  <2> QED BY <2>1, FS_CardinalityType, FS_EmptySet, OneLess
<1> HIDE DEF Chosen
<1>4. f[{}] = 0 /\ Fine({})
  BY <1>2
<1> HIDE DEF Fine
<1>5. 0 \in P
  BY <1>3, <1>4
<1>6. ASSUME NEW n \in Nat, n \in P PROVE n + 1 \in P
  <2>1. ASSUME NEW s \in SUBSET S, Cardinality(s) <= n + 1, s # {} PROVE Fine(s)
    <3> DEFINE c == Chosen(s)
    <3>1. c \in s /\ f[s] = a[c] + f[s \ {c}]
      BY <1>1, <1>2, <2>1
    <3> HIDE DEF c
    <3>2. ASSUME NEW x \in s PROVE Fine(s \ {x}) /\ a[x] \in Int
      BY <1>3, <1>6, <2>1
    <3>3. f[s] \in Int
      BY <3>1, <3>2 DEF Fine
    <3>4. ASSUME NEW x \in s, x # c PROVE f[s] = a[x] + f[s \ {x}]
      <4> DEFINE rest == (s \ {x}) \ {c}
      <4>1. f[s \ {c}] = a[x] + f[rest]
        <5>1. (s \ {c}) \ {x} = rest
          OBVIOUS
        <5> QED BY <3>1, <3>2, <3>4, <5>1 DEF Fine
      <4>2. f[s \ {x}] = a[c] + f[rest]
        BY <3>1, <3>2, <3>4 DEF Fine
      <4>3. f[rest] \in Int
        <5>1. s \ {x} \in SUBSET S /\ c \in s \ {x} /\ Cardinality(s \ {x}) = Cardinality(s) - 1
          BY <1>3, <3>1, <3>4
        <5>2. rest \in SUBSET S /\ Cardinality(rest) = Cardinality(s \ {x}) - 1
          BY <1>3, <5>1
        <5>3. Cardinality(rest) <= n
          BY <1>3, <2>1, <5>1, <5>2
        <5> HIDE DEF rest
        <5> QED BY <1>6, <5>2, <5>3 DEF Fine
      <4> HIDE DEF rest
      <4> QED BY <3>1, <3>2, <3>3, <4>1, <4>2, <4>3
    <3> QED BY <3>1, <3>3, <3>4 DEF Fine
  <2>2. \A s \in SUBSET S : Cardinality(s) <= n + 1 => Fine(s)
    BY <1>4, <2>1
  <2> QED BY <2>2
<1> HIDE DEF P
<1>7. \A n \in Nat : n \in P
  BY <1>5, <1>6, NatInductionOnSet
<1>8. ASSUME NEW s \in SUBSET S PROVE Fine(s)
  BY <1>3, <1>7 DEF P
<1> QED BY <1>4, <1>8 DEF Fine

Takes(f, a, S, x) == f[S] \in Int /\ f[S \ {x}] \in Int /\ f[S] = a[x] + f[S \ {x}]

LEMMA SumStep ==
  ASSUME NEW S, IsFiniteSet(S), NEW a \in [S -> Int], NEW f, IsSum(f, a, S), NEW x \in S
  PROVE  Takes(f, a, S, x)
<1>1. \A s \in SUBSET S : f[s] \in Int /\ \A y \in s : f[s] = a[y] + f[s \ {y}]
  BY SumSteps
<1>2. S \in SUBSET S /\ S \ {x} \in SUBSET S
  OBVIOUS
<1> QED BY <1>1, <1>2 DEF Takes

LEMMA SumFacts ==
  ASSUME NEW S, IsFiniteSet(S), NEW a \in [S -> Int]
  PROVE  \E f : IsSum(f, a, S) /\ SumFunction(a) = f[S]
<1> DEFINE Sums(f) ==
      f = [s \in SUBSET DOMAIN a |->
             IF s = {} THEN 0 ELSE LET x == CHOOSE x \in s : TRUE IN a[x] + f[s \ {x}]]
           Sum == CHOOSE f : Sums(f)
<1>1. SumFunction(a) = Sum[DOMAIN a]
  BY DEF SumFunction, SumFunctionOnSet, FoldFunctionOnSet, MapThenFoldSet
<1>2. \A f : Sums(f) <=> IsSum(f, a, S)
  BY DEF IsSum
<1> HIDE DEF Sums
<1>3. IsSum(Sum, a, S)
  BY <1>2, SumExists
<1> HIDE DEF Sum
<1> QED BY <1>1, <1>3

(* Sums of functions that agree agree.                                     *)
LEMMA SumsAgree ==
  ASSUME NEW S, IsFiniteSet(S), NEW T, IsFiniteSet(T), NEW R, R \subseteq S, R \subseteq T,
         NEW a \in [S -> Int], NEW b \in [T -> Int], \A x \in R : a[x] = b[x],
         NEW f, IsSum(f, a, S), NEW g, IsSum(g, b, T)
  PROVE  f[R] = g[R]
<1> DEFINE P == {n \in Nat : \A s \in SUBSET R : Cardinality(s) = n => f[s] = g[s]}
<1>1. ASSUME NEW s \in SUBSET R
      PROVE  IsFiniteSet(s) /\ Cardinality(s) \in Nat /\ (Cardinality(s) = 0 <=> s = {})
  BY FS_Subset, FS_CardinalityType, FS_EmptySet
<1>2. f[{}] = g[{}]
  BY SumSteps
<1>3. 0 \in P
  BY <1>1, <1>2
<1>4. ASSUME NEW n \in Nat, n \in P PROVE n + 1 \in P
  <2> SUFFICES ASSUME NEW s \in SUBSET R, Cardinality(s) = n + 1 PROVE f[s] = g[s]
    OBVIOUS
  <2>1. PICK x \in s : TRUE
    BY <1>1
  <2>2. f[s] = a[x] + f[s \ {x}] /\ g[s] = b[x] + g[s \ {x}]
    BY SumSteps
  <2>3. s \ {x} \in SUBSET R /\ Cardinality(s \ {x}) = n
    BY <1>1, OneLess
  <2> QED BY <1>4, <2>2, <2>3
<1> HIDE DEF P
<1>5. Cardinality(R) \in P
  BY <1>1, <1>3, <1>4, NatInductionOnSet
<1> QED BY <1>5 DEF P

(* One more term.                                                          *)
LEMMA SumWith ==
  ASSUME NEW S, IsFiniteSet(S), NEW x \in S,
         NEW b \in [S -> Int], NEW a \in [S \ {x} -> Int], \A y \in S \ {x} : b[y] = a[y]
  PROVE  SumFunction(a) \in Int /\ SumFunction(b) = SumFunction(a) + b[x]
<1> DEFINE R == S \ {x}
<1>1. IsFiniteSet(R)
  BY OneLess
<1>2. PICK g : IsSum(g, b, S) /\ SumFunction(b) = g[S]
  BY SumFacts
<1>3. g[S] \in Int /\ g[R] \in Int /\ g[S] = b[x] + g[R]
  <2>1. Takes(g, b, S, x)
    BY <1>2, SumStep
  <2> QED BY <2>1 DEF Takes
<1>4. R \subseteq S /\ a \in [R -> Int] /\ \A y \in R : b[y] = a[y]
  OBVIOUS
<1> HIDE DEF R
<1>5. PICK f : IsSum(f, a, R) /\ SumFunction(a) = f[R]
  BY <1>1, <1>4, SumFacts
<1>6. f[R] \in Int
  BY <1>1, <1>4, <1>5, SumSteps
<1>7. f[R] = g[R]
  BY <1>1, <1>2, <1>4, <1>5, SumsAgree
<1>8. b[x] \in Int
  OBVIOUS
<1> QED BY <1>2, <1>3, <1>5, <1>6, <1>7, <1>8

(* Another value of one term.                                              *)
LEMMA SumChanged ==
  ASSUME NEW S, IsFiniteSet(S), NEW x \in S,
         NEW a \in [S -> Int], NEW b \in [S -> Int], \A y \in S \ {x} : b[y] = a[y]
  PROVE  SumFunction(a) \in Int /\ SumFunction(b) = SumFunction(a) - a[x] + b[x]
<1> DEFINE r == [y \in S \ {x} |-> a[y]]
<1>1. /\ r \in [S \ {x} -> Int]
      /\ \A y \in S \ {x} : a[y] = r[y]
      /\ \A y \in S \ {x} : b[y] = r[y]
  OBVIOUS
<1> HIDE DEF r
<1>2. SumFunction(r) \in Int /\ SumFunction(a) = SumFunction(r) + a[x]
  BY <1>1, SumWith
<1>3. SumFunction(b) = SumFunction(r) + b[x]
  BY <1>1, SumWith
<1>4. a[x] \in Int /\ b[x] \in Int
  OBVIOUS
<1> QED BY <1>2, <1>3, <1>4

LEMMA SumOfNone == ASSUME NEW a, DOMAIN a = {} PROVE SumFunction(a) = 0
<1>1. a \in [{} -> Int]
  OBVIOUS
<1>2. PICK f : IsSum(f, a, {}) /\ SumFunction(a) = f[{}]
  BY <1>1, FS_EmptySet, SumFacts
<1>3. f[{}] = 0
  BY <1>1, <1>2, FS_EmptySet, SumSteps
<1> QED BY <1>2, <1>3

(* Ones add up to the number of them.                                     *)
LEMMA SumOfOnes ==
  ASSUME NEW S, IsFiniteSet(S), NEW a \in [S -> Int], \A x \in S : a[x] = 1
  PROVE  SumFunction(a) = Cardinality(S)
<1>1. PICK f : IsSum(f, a, S) /\ SumFunction(a) = f[S]
  BY SumFacts
<1> DEFINE P == {n \in Nat : \A s \in SUBSET S : Cardinality(s) = n => f[s] = n}
<1>2. ASSUME NEW s \in SUBSET S
      PROVE  IsFiniteSet(s) /\ Cardinality(s) \in Nat /\ (Cardinality(s) = 0 <=> s = {})
  BY FS_Subset, FS_CardinalityType, FS_EmptySet
<1>3. f[{}] = 0 /\ \A s \in SUBSET S : f[s] \in Int /\ \A x \in s : f[s] = a[x] + f[s \ {x}]
  BY <1>1, SumSteps
<1>4. 0 \in P
  BY <1>2, <1>3
<1>5. ASSUME NEW n \in Nat, n \in P PROVE n + 1 \in P
  <2> SUFFICES ASSUME NEW s \in SUBSET S, Cardinality(s) = n + 1 PROVE f[s] = n + 1
    OBVIOUS
  <2>1. PICK x \in s : TRUE
    BY <1>2
  <2>2. Cardinality(s \ {x}) = Cardinality(s) - 1
    BY <1>2, <2>1, OneLess
  <2>3. s \ {x} \in SUBSET S /\ Cardinality(s \ {x}) = n
    BY <2>2
  <2>4. f[s \ {x}] = n
    BY <1>5, <2>3
  <2>5. f[s] = a[x] + f[s \ {x}] /\ a[x] = 1
    BY <1>3, <2>1
  <2> QED BY <2>4, <2>5
<1> HIDE DEF P
<1>6. Cardinality(S) \in P
  BY <1>2, <1>4, <1>5, NatInductionOnSet
<1> QED BY <1>1, <1>6 DEF P
=============================================================================
