-------------------------------- MODULE Ordem --------------------------------
(***************************************************************************)
(* Facts about least members and sorting that the proofs of several         *)
(* components need.  The components choose a sorted sequence of a finite    *)
(* set; here it is shown that there is one, and that it leaves nobody out.  *)
(***************************************************************************)
EXTENDS Integers, FiniteSets, FiniteSetTheorems, WellFoundedInduction, TLAPS

\* A set of naturals has a least member.
LEMMA HaMenor ==
    ASSUME NEW T \in SUBSET Nat, T # {}
    PROVE  \E x \in T : \A y \in T : x <= y
  <1>1. PICK x \in T : \A y \in T : ~ (<<y, x>> \in OpToRel(<, Nat))
    BY NatLessThanWellFounded, WFMin
  <1>2. \A y \in T : ~ (y < x)
    BY <1>1 DEF OpToRel
  <1> QED
    BY <1>2

\* And a greatest one, when it has a bound.
LEMMA HaMaior ==
    ASSUME NEW T \in SUBSET Nat, T # {}, NEW b \in Nat, \A y \in T : y <= b
    PROVE  \E x \in T : \A y \in T : y <= x
  <1> DEFINE tetos == {n \in Nat : \A y \in T : y <= n}
  <1>1. PICK n \in tetos : \A k \in tetos : n <= k
    BY HaMenor
  <1>2. n \in T
    <2>1. SUFFICES ASSUME n \notin T PROVE FALSE
      OBVIOUS
    <2>2. \A y \in T : y < n
      BY <1>1, <2>1
    <2>3. PICK y \in T : y < n
      BY <2>2
    <2>4. n \in Nat /\ y \in Nat /\ T \subseteq Nat
      BY <1>1
    <2>5. n - 1 \in Nat /\ \A z \in T : z <= n - 1
      BY <2>2, <2>3, <2>4
    <2> QED
      BY <1>1, <2>4, <2>5
  <1> QED
    BY <1>1, <1>2

\* s has the members of S, each where lugar puts it.
Ordenada(S, lugar, s) ==
    /\ s \in [1..Cardinality(S) -> S]
    /\ \A i, j \in 1..Cardinality(S) : i < j => lugar[s[i]] < lugar[s[j]]

\* A finite set whose members have different places can be put in order: its
\* first one, and the others after it.
LEMMA HaOrdem ==
    ASSUME NEW S0, IsFiniteSet(S0), NEW lugar \in [S0 -> Nat],
           \A x, y \in S0 : lugar[x] = lugar[y] => x = y
    PROVE  \E s : Ordenada(S0, lugar, s)
  <1> DEFINE Sem(S) == ~\E s : Ordenada(S, lugar, s)
             T == {n \in Nat : \E S \in SUBSET S0 : Sem(S) /\ Cardinality(S) = n}
  <1>1. \A S \in SUBSET S0 : IsFiniteSet(S) /\ Cardinality(S) \in Nat
    BY FS_Subset, FS_CardinalityType
  <1>2. SUFFICES ASSUME Sem(S0) PROVE FALSE
    OBVIOUS
  <1>3. T # {}
    BY <1>1, <1>2
  <1>4. PICK n \in T : \A k \in T : n <= k
    BY <1>3, HaMenor
  <1>5. PICK S \in SUBSET S0 : Sem(S) /\ Cardinality(S) = n
    BY <1>4
  <1>6. CASE S = {}
    <2>1. Cardinality(S) = 0
      BY <1>6, FS_EmptySet
    <2>2. Ordenada(S, lugar, [i \in 1..0 |-> 0])
      BY <2>1 DEF Ordenada
    <2> QED
      BY <1>5, <2>2
  <1>7. CASE S # {}
    <2> DEFINE onde == {lugar[y] : y \in S}
    <2>1. PICK v \in onde : \A w \in onde : v <= w
      <3>1. onde \in SUBSET Nat /\ onde # {}
        BY <1>7
      <3> HIDE DEF onde
      <3> QED
        BY <3>1, HaMenor
    <2>2. PICK x \in S : \A y \in S : lugar[x] <= lugar[y]
      BY <2>1
    <2> DEFINE R == S \ {x}
    <2>3. Cardinality(R) = n - 1 /\ n - 1 \in Nat /\ n \in Nat
      <3>1. R \in SUBSET S0 /\ Cardinality(R) = Cardinality(S) - 1
        BY <1>1, <2>2, FS_RemoveElement
      <3> QED
        BY <1>1, <1>5, <3>1
    <2>4. PICK s : Ordenada(R, lugar, s)
      <3>1. R \in SUBSET S0
        OBVIOUS
      <3> QED
        BY <1>4, <2>3, <3>1
    <2> DEFINE z == [i \in 1..n |-> IF i = 1 THEN x ELSE s[i - 1]]
    <2>5. s \in [1..(n - 1) -> R] /\ \A i, j \in 1..(n - 1) : i < j => lugar[s[i]] < lugar[s[j]]
      BY <2>3, <2>4 DEF Ordenada
    <2>6. \A i \in 1..n : i # 1 => i - 1 \in 1..(n - 1) /\ z[i] = s[i - 1] /\ s[i - 1] \in R
      BY <2>3, <2>5
    <2>7. z \in [1..n -> S]
      BY <2>3, <2>6
    <2>8. ASSUME NEW i \in 1..n, NEW j \in 1..n, i < j PROVE lugar[z[i]] < lugar[z[j]]
      <3>1. j # 1 /\ j - 1 \in 1..(n - 1) /\ z[j] = s[j - 1] /\ s[j - 1] \in R
        BY <2>3, <2>6, <2>8
      <3>2. CASE i = 1
        <4>1. lugar[x] <= lugar[s[j - 1]] /\ s[j - 1] # x /\ z[i] = x
          BY <2>2, <2>8, <3>1, <3>2
        <4>2. lugar[s[j - 1]] # lugar[x]
          BY <2>2, <3>1, <4>1
        <4>3. lugar[s[j - 1]] \in Nat /\ lugar[x] \in Nat
          BY <2>2, <3>1
        <4> QED
          BY <3>1, <4>1, <4>2, <4>3
      <3>3. CASE i # 1
        BY <2>3, <2>5, <2>6, <2>8, <3>1, <3>3
      <3> QED
        BY <3>2, <3>3
    <2>9. Ordenada(S, lugar, z)
      BY <1>5, <2>7, <2>8 DEF Ordenada
    <2> QED
      BY <1>5, <2>9
  <1> QED
    BY <1>6, <1>7

\* Put in order, every member has a place.
LEMMA OrdenadaTemTodos ==
    ASSUME NEW S, IsFiniteSet(S), NEW lugar \in [S -> Nat], NEW s, Ordenada(S, lugar, s)
    PROVE  \A x \in S : \E i \in 1..Cardinality(S) : s[i] = x
  <1> DEFINE N == Cardinality(S)
  <1>1. N \in Nat
    BY FS_CardinalityType
  <1>2. s \in [1..N -> S] /\ \A i, j \in 1..N : i < j => lugar[s[i]] < lugar[s[j]]
    BY DEF Ordenada
  <1>3. ASSUME NEW x \in S, \A i \in 1..N : s[i] # x PROVE FALSE
    <2> DEFINE R == S \ {x}
    <2>1. IsFiniteSet(R) /\ Cardinality(R) = N - 1
      BY FS_RemoveElement
    <2>2. s \in [1..N -> R]
      BY <1>2, <1>3
    <2>3. IsFiniteSet(1..N) /\ Cardinality(1..N) = N
      BY <1>1, FS_Interval
    <2>4. Cardinality(R) < Cardinality(1..N)
      BY <1>1, <2>1, <2>3
    <2>5. \E i, j \in 1..N : i # j /\ s[i] = s[j]
      <3> HIDE DEF R, N
      <3> QED
        BY <2>1, <2>2, <2>3, <2>4, FS_PigeonHole
    <2>6. PICK i \in 1..N, j \in 1..N : i # j /\ s[i] = s[j] /\ lugar[s[i]] \in Nat
      BY <1>2, <2>5
    <2>7. i < j \/ j < i
      BY <1>1, <2>6
    <2> QED
      BY <1>2, <2>6, <2>7
  <1> QED
    BY <1>3
=============================================================================
