---------------------------- MODULE SumTheorems ----------------------------
(***************************************************************************)
(* Facts about sums over finite sets, for the proofs about balances and      *)
(* totals, and the induction they rest on.  A sum is the recursive function  *)
(* that MapThenSumSet defines, over numbers given by a function.  Induction  *)
(* is stated for a set of numbers or of sets instead of a predicate: a set   *)
(* without a least element is empty.                                        *)
(***************************************************************************)
EXTENDS Integers, FiniteSets, FiniteSetTheorems, WellFoundedInduction, TLAPS

LEMMA LeastNumber ==
  ASSUME NEW S \in SUBSET Nat, S # {}
  PROVE  \E x \in S : \A y \in S : x <= y
  <1>1. IsWellFoundedOn(OpToRel(<, Nat), Nat)
    BY NatLessThanWellFounded
  <1>2. PICK x \in S : \A y \in S : ~ (<<y, x>> \in OpToRel(<, Nat))
    BY <1>1, WFMin
  <1>3. \A y \in S : y \in Nat /\ x \in Nat /\ ~ (y < x)
    BY <1>2 DEF OpToRel
  <1> QED BY <1>3

LEMMA Induction ==
  ASSUME NEW G, 0 \in G, \A n \in Nat : n \in G => n + 1 \in G
  PROVE  \A n \in Nat : n \in G
  <1> DEFINE B == Nat \ G
  <1> SUFFICES ASSUME B # {} PROVE FALSE
    OBVIOUS
  <1>1. PICK n \in B : \A m \in B : n <= m
    BY LeastNumber
  <1>2. n # 0 /\ n - 1 \in Nat /\ n - 1 \notin B
    BY <1>1
  <1> QED BY <1>2

(***************************************************************************)
(* Sums.                                                                   *)
(***************************************************************************)
Pick(s) == CHOOSE x \in s : TRUE

\* f adds up the numbers of w over each subset of S.
Adds(f, S, w) ==
  f = [s \in SUBSET S |-> IF s = {} THEN 0 ELSE w[Pick(s)] + f[s \ {Pick(s)}]]

SumOf(w, S) == (CHOOSE f : Adds(f, S, w))[S]

\* Induction over the subsets of a finite set.
LEMMA SubsetInduction ==
  ASSUME NEW S, IsFiniteSet(S), NEW G, {} \in G,
         \A s \in SUBSET S : s # {} /\ (\A x \in s : s \ {x} \in G) => s \in G
  PROVE  \A s \in SUBSET S : s \in G
  <1> DEFINE N == {n \in Nat : \A s \in SUBSET S : Cardinality(s) = n => s \in G}
  <1>1. \A s \in SUBSET S : IsFiniteSet(s) /\ Cardinality(s) \in Nat
    BY FS_Subset, FS_CardinalityType
  <1>2. 0 \in N
    BY <1>1, FS_EmptySet
  <1>3. ASSUME NEW n \in Nat, n \in N PROVE n + 1 \in N
    <2> SUFFICES ASSUME NEW s \in SUBSET S, Cardinality(s) = n + 1 PROVE s \in G
      OBVIOUS
    <2>1. s # {}
      BY FS_EmptySet
    <2>2. ASSUME NEW x \in s PROVE s \ {x} \in G
      <3>1. Cardinality(s \ {x}) = n
        BY <1>1, FS_RemoveElement
      <3> QED BY <1>3, <3>1
    <2> QED BY <2>1, <2>2
  <1> HIDE DEF N
  <1>4. \A n \in Nat : n \in N
    BY <1>2, <1>3, Induction
  <1> QED BY <1>1, <1>4 DEF N

\* The recursive function exists: it is built up by the size of the subsets.
LEMMA SumExists ==
  ASSUME NEW S, IsFiniteSet(S), NEW w
  PROVE  \E f : Adds(f, S, w)
  <1> DEFINE Step(f, s) == IF s = {} THEN 0 ELSE w[Pick(s)] + f[s \ {Pick(s)}]
             Upto(f, n) == \A s \in SUBSET S : Cardinality(s) <= n => f[s] = Step(f, s)
             N == {n \in Nat : \E f : f = [s \in SUBSET S |-> f[s]] /\ Upto(f, n)}
  <1>1. \A s \in SUBSET S : IsFiniteSet(s) /\ Cardinality(s) \in Nat /\ Cardinality(s) <= Cardinality(S)
    BY FS_Subset, FS_CardinalityType
  <1>2. \A s \in SUBSET S : s # {} => /\ Pick(s) \in s /\ s \ {Pick(s)} \in SUBSET S
                                      /\ Cardinality(s \ {Pick(s)}) = Cardinality(s) - 1
    <2> SUFFICES ASSUME NEW s \in SUBSET S, s # {}
                 PROVE  /\ Pick(s) \in s /\ s \ {Pick(s)} \in SUBSET S
                        /\ Cardinality(s \ {Pick(s)}) = Cardinality(s) - 1
      OBVIOUS
    <2>1. Pick(s) \in s
      BY DEF Pick
    <2> QED BY <1>1, <2>1, FS_RemoveElement
  <1>3. 0 \in N
    <2> DEFINE f == [s \in SUBSET S |-> 0]
    <2>1. \A s \in SUBSET S : Cardinality(s) <= 0 => s = {}
      BY <1>1, FS_EmptySet
    <2>2. f = [s \in SUBSET S |-> f[s]] /\ Upto(f, 0)
      BY <2>1
    <2> QED BY <2>2
  <1>4. ASSUME NEW n \in Nat, n \in N PROVE n + 1 \in N
    <2>1. PICK f : f = [s \in SUBSET S |-> f[s]] /\ Upto(f, n)
      BY <1>4
    <2> DEFINE g == [s \in SUBSET S |-> IF Cardinality(s) <= n THEN f[s] ELSE Step(f, s)]
    <2>2. ASSUME NEW s \in SUBSET S, Cardinality(s) <= n + 1 PROVE g[s] = Step(g, s)
      <3>1. g[s] = Step(f, s)
        BY <2>1
      <3>2. CASE s = {}
        BY <3>1, <3>2
      <3>3. CASE s # {}
        <4> DEFINE r == s \ {Pick(s)}
        <4>1. r \in SUBSET S /\ Cardinality(r) <= n
          BY <1>1, <1>2, <2>2, <3>3
        <4> HIDE DEF r
        <4>2. g[r] = f[r]
          BY <4>1
        <4> HIDE DEF g
        <4> QED BY <3>1, <3>3, <4>2 DEF r
      <3> QED BY <3>2, <3>3
    <2>3. g = [s \in SUBSET S |-> g[s]]
      OBVIOUS
    <2> HIDE DEF g
    <2>4. Upto(g, n + 1)
      BY <2>2
    <2> HIDE DEF Upto
    <2>5. \E h : h = [s \in SUBSET S |-> h[s]] /\ Upto(h, n + 1)
      BY <2>3, <2>4, Zenon
    <2> QED BY <2>5
  <1> HIDE DEF N
  <1>5. Cardinality(S) \in N
    BY <1>1, <1>3, <1>4, Induction
  <1>6. PICK f : f = [s \in SUBSET S |-> f[s]] /\ Upto(f, Cardinality(S))
    BY <1>5 DEF N
  <1>7. \A s \in SUBSET S : f[s] = Step(f, s)
    BY <1>1, <1>6
  <1>8. f = [s \in SUBSET S |-> Step(f, s)]
    BY <1>6, <1>7
  <1> QED BY <1>8 DEF Adds

LEMMA SumDefined ==
  ASSUME NEW S, IsFiniteSet(S), NEW w
  PROVE  \E f : Adds(f, S, w) /\ SumOf(w, S) = f[S]
  <1>1. Adds(CHOOSE f : Adds(f, S, w), S, w)
    BY SumExists
  <1> QED BY <1>1 DEF SumOf

LEMMA AddsNumbers ==
  ASSUME NEW S, IsFiniteSet(S), NEW w, \A x \in S : w[x] \in Int, NEW f, Adds(f, S, w)
  PROVE  \A s \in SUBSET S : f[s] \in Int
  <1> DEFINE G == {s \in SUBSET S : f[s] \in Int}
  <1>1. {} \in G
    BY DEF Adds
  <1>2. ASSUME NEW s \in SUBSET S, s # {}, \A x \in s : s \ {x} \in G PROVE s \in G
    <2>1. Pick(s) \in s
      BY <1>2 DEF Pick
    <2>2. f[s] = w[Pick(s)] + f[s \ {Pick(s)}]
      BY <1>2 DEF Adds
    <2>3. w[Pick(s)] \in Int /\ f[s \ {Pick(s)}] \in Int
      BY <1>2, <2>1
    <2> QED BY <2>2, <2>3
  <1> HIDE DEF G
  <1>3. \A s \in SUBSET S : s \in G
    BY <1>1, <1>2, SubsetInduction
  <1> QED BY <1>3 DEF G

\* What was picked first does not matter.
AnyFirst(f, S, w) == \A s \in SUBSET S : \A x \in s : f[s] = w[x] + f[s \ {x}]

LEMMA AnyElement ==
  ASSUME NEW S, IsFiniteSet(S), NEW w, \A x \in S : w[x] \in Int, NEW f, Adds(f, S, w)
  PROVE  AnyFirst(f, S, w)
  <1> DEFINE G == {s \in SUBSET S : \A x \in s : f[s] = w[x] + f[s \ {x}]}
  <1>1. {} \in G
    OBVIOUS
  <1>2. ASSUME NEW s \in SUBSET S, s # {}, \A x \in s : s \ {x} \in G PROVE s \in G
    <2> DEFINE p == Pick(s)
    <2>1. p \in s /\ f[s] = w[p] + f[s \ {p}]
      BY <1>2 DEF Adds, Pick
    <2> HIDE DEF p
    <2>2. ASSUME NEW x \in s PROVE f[s] = w[x] + f[s \ {x}]
      <3>1. CASE x = p
        BY <2>1, <3>1
      <3>2. CASE x # p
        <4>1. (s \ {x}) \ {p} = (s \ {p}) \ {x}
          OBVIOUS
        <4>2. f[s \ {p}] = w[x] + f[(s \ {p}) \ {x}] /\ f[s \ {x}] = w[p] + f[(s \ {p}) \ {x}]
          BY <1>2, <2>1, <3>2, <4>1
        <4>3. w[x] \in Int /\ w[p] \in Int
          BY <2>1
        <4>4. (s \ {p}) \ {x} \in SUBSET S
          OBVIOUS
        <4>5. f[(s \ {p}) \ {x}] \in Int
          BY <4>4, AddsNumbers, Zenon
        <4> QED BY <2>1, <4>2, <4>3, <4>5
      <3> QED BY <3>1, <3>2
    <2> QED BY <2>2
  <1> HIDE DEF G
  <1>3. \A s \in SUBSET S : s \in G
    BY <1>1, <1>2, SubsetInduction
  <1> QED BY <1>3 DEF G, AnyFirst

\* Two functions that agree on S have the same sum over S.
LEMMA SumSame ==
  ASSUME NEW S, IsFiniteSet(S), NEW w, NEW v, \A x \in S : w[x] = v[x]
  PROVE  SumOf(w, S) = SumOf(v, S)
  <1>1. ASSUME NEW f, NEW s \in SUBSET S, s # {}
        PROVE  w[Pick(s)] + f[s \ {Pick(s)}] = v[Pick(s)] + f[s \ {Pick(s)}]
    <2>1. Pick(s) \in S
      BY <1>1 DEF Pick
    <2> QED BY <2>1
  <1>2. ASSUME NEW f PROVE Adds(f, S, w) = Adds(f, S, v)
    <2>1. [s \in SUBSET S |-> IF s = {} THEN 0 ELSE w[Pick(s)] + f[s \ {Pick(s)}]]
          = [s \in SUBSET S |-> IF s = {} THEN 0 ELSE v[Pick(s)] + f[s \ {Pick(s)}]]
      BY <1>1
    <2> QED BY <2>1 DEF Adds
  <1>3. (CHOOSE f : Adds(f, S, w)) = CHOOSE f : Adds(f, S, v)
    BY <1>2, Zenon
  <1> QED BY <1>3 DEF SumOf
\* The sum over a part of S is what the function says of that part.
LEMMA AddsPart ==
  ASSUME NEW T, IsFiniteSet(T), NEW w, NEW f, Adds(f, T, w), NEW S \in SUBSET T
  PROVE  SumOf(w, S) = f[S]
  <1>1. IsFiniteSet(S)
    BY FS_Subset
  <1>2. PICK g : Adds(g, S, w) /\ SumOf(w, S) = g[S]
    BY <1>1, SumDefined
  <1> DEFINE G == {s \in SUBSET S : g[s] = f[s]}
  <1>3. {} \in G
    BY <1>2 DEF Adds
  <1>4. ASSUME NEW s \in SUBSET S, s # {}, \A x \in s : s \ {x} \in G PROVE s \in G
    <2>1. Pick(s) \in s
      BY <1>4 DEF Pick
    <2>2. g[s] = w[Pick(s)] + g[s \ {Pick(s)}] /\ f[s] = w[Pick(s)] + f[s \ {Pick(s)}]
      BY <1>2, <1>4 DEF Adds
    <2>3. g[s \ {Pick(s)}] = f[s \ {Pick(s)}]
      BY <1>4, <2>1
    <2> QED BY <2>2, <2>3
  <1> HIDE DEF G
  <1>5. \A s \in SUBSET S : s \in G
    BY <1>1, <1>3, <1>4, SubsetInduction
  <1> QED BY <1>2, <1>5 DEF G

LEMMA SumType ==
  ASSUME NEW S, IsFiniteSet(S), NEW w, \A x \in S : w[x] \in Int
  PROVE  SumOf(w, S) \in Int
  <1>1. PICK f : Adds(f, S, w) /\ SumOf(w, S) = f[S]
    BY SumDefined
  <1>2. f[S] \in Int
    BY <1>1, AddsNumbers
  <1> QED BY <1>1, <1>2

\* A sum over S is what x contributes and the sum over the others.
LEMMA SumRemove ==
  ASSUME NEW S, IsFiniteSet(S), NEW w, \A x \in S : w[x] \in Int, NEW z \in S
  PROVE  SumOf(w, S) = w[z] + SumOf(w, S \ {z})
  <1>1. PICK f : Adds(f, S, w) /\ SumOf(w, S) = f[S]
    BY SumDefined
  <1>2. AnyFirst(f, S, w)
    BY <1>1, AnyElement
  <1>3. SumOf(w, S \ {z}) = f[S \ {z}]
    BY <1>1, AddsPart
  <1>4. f[S] = w[z] + f[S \ {z}]
    BY <1>2 DEF AnyFirst
  <1> QED BY <1>1, <1>3, <1>4

\* One more element, over another function that agrees on the rest.
LEMMA SumAdd ==
  ASSUME NEW S, IsFiniteSet(S), NEW w, \A y \in S : w[y] \in Int, NEW x, x \notin S,
         NEW v, \A y \in S : v[y] = w[y], v[x] \in Int
  PROVE  SumOf(v, S \cup {x}) = SumOf(w, S) + v[x]
  <1> DEFINE T == S \cup {x}
  <1>1. IsFiniteSet(T) /\ \A y \in T : v[y] \in Int
    BY FS_AddElement
  <1>2. x \in T /\ T \ {x} = S
    OBVIOUS
  <1> HIDE DEF T
  <1>3. SumOf(v, T) = v[x] + SumOf(v, S)
    BY <1>1, <1>2, SumRemove
  <1>4. SumOf(v, S) = SumOf(w, S) /\ SumOf(w, S) \in Int
    BY SumSame, SumType
  <1> QED BY <1>3, <1>4 DEF T

\* A sum changes by as much as one of its numbers.
LEMMA SumChange ==
  ASSUME NEW S, IsFiniteSet(S), NEW w, \A y \in S : w[y] \in Int, NEW x \in S,
         NEW v, \A y \in S \ {x} : v[y] = w[y], v[x] \in Int
  PROVE  SumOf(v, S) = SumOf(w, S) + v[x] - w[x]
  <1> DEFINE R == S \ {x}
  <1>1. IsFiniteSet(R) /\ (\A y \in R : w[y] \in Int) /\ x \notin R /\ R \cup {x} = S
    BY FS_RemoveElement
  <1> HIDE DEF R
  <1>2. SumOf(v, S) = SumOf(w, R) + v[x]
    <2>1. \A y \in R : v[y] = w[y]
      BY DEF R
    <2>2. SumOf(v, R \cup {x}) = SumOf(w, R) + v[x]
      BY <1>1, <2>1, SumAdd
    <2> QED BY <1>1, <2>2
  <1>3. SumOf(w, S) = w[x] + SumOf(w, R)
    BY SumRemove DEF R
  <1>4. SumOf(w, R) \in Int
    BY <1>1, SumType
  <1>5. w[x] \in Int
    OBVIOUS
  <1> QED BY <1>2, <1>3, <1>4, <1>5

\* A sum of nothing, and of nothing but zeros.
LEMMA SumZero ==
  ASSUME NEW S, IsFiniteSet(S), NEW w, \A x \in S : w[x] = 0
  PROVE  SumOf(w, S) = 0
  <1>1. PICK f : Adds(f, S, w) /\ SumOf(w, S) = f[S]
    BY SumDefined
  <1> DEFINE G == {s \in SUBSET S : f[s] = 0}
  <1>2. {} \in G
    BY <1>1 DEF Adds
  <1>3. ASSUME NEW s \in SUBSET S, s # {}, \A x \in s : s \ {x} \in G PROVE s \in G
    <2>1. Pick(s) \in s
      BY <1>3 DEF Pick
    <2>2. f[s] = w[Pick(s)] + f[s \ {Pick(s)}]
      BY <1>1, <1>3 DEF Adds
    <2> QED BY <1>3, <2>1, <2>2
  <1> HIDE DEF G
  <1>4. \A s \in SUBSET S : s \in G
    BY <1>2, <1>3, SubsetInduction
  <1> QED BY <1>1, <1>4 DEF G
=============================================================================
