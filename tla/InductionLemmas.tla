--------------------------- MODULE InductionLemmas ---------------------------
(***************************************************************************)
(* Induction for the proofs.  The induction theorems of the library take a *)
(* predicate; here induction is over a set, from a minimal counterexample. *)
(* It gives what recursive definitions need: natural numbers have a least  *)
(* element and finite sets a smallest one, and the sum of a function over  *)
(* a finite set does not depend on the order of its elements.              *)
(***************************************************************************)
EXTENDS Integers, FiniteSets, Functions, FiniteSetTheorems, WellFoundedInduction, TLAPS

-----------------------------------------------------------------------------
\* A set of natural numbers that is not empty has a least element.
LEMMA LeastNumber ==
    ASSUME NEW T \in SUBSET Nat, T # {}
    PROVE  \E x \in T : \A y \in T : ~(y < x)
<1>1. PICK x \in T : \A y \in T : ~(<<y, x>> \in OpToRel(<, Nat))
  BY NatLessThanWellFounded, WFMin, Zenon
<1>2. \A y \in T : y < x => <<y, x>> \in OpToRel(<, Nat)
  BY DEF OpToRel
<1>3. \A y \in T : ~(y < x)
  BY <1>1, <1>2, Zenon
<1>4. QED
  BY <1>3

\* A set of natural numbers with zero that is closed under successor is all of them.
LEMMA SetInduction ==
    ASSUME NEW S \in SUBSET Nat, 0 \in S, \A n \in S : n + 1 \in S
    PROVE  S = Nat
<1>1. SUFFICES ASSUME Nat \ S # {}
               PROVE  FALSE
  OBVIOUS
<1>2. PICK x \in Nat \ S : \A y \in Nat \ S : ~(y < x)
  BY <1>1, LeastNumber
<1>3. x - 1 \in Nat /\ x - 1 < x
  BY <1>2
<1>4. x - 1 \in S
  BY <1>2, <1>3
<1>5. QED
  BY <1>2, <1>4

\* A collection of subsets of a finite set that is not empty has a minimal one.
LEMMA MinimalSubset ==
    ASSUME NEW S, IsFiniteSet(S), NEW C \in SUBSET (SUBSET S), C # {}
    PROVE  \E T \in C : \A U \in C : U \subseteq T => U = T
<1>1. C \subseteq FiniteSubsetsOf(S)
  BY FS_FiniteSubsetsOfFinite
<1>2. IsWellFoundedOn(StrictSubsetOrdering(S), FiniteSubsetsOf(S))
  BY FS_StrictSubsetOrderingWellFounded
<1>3. PICK T \in C : \A U \in C : ~(<<U, T>> \in StrictSubsetOrdering(S))
  BY <1>1, <1>2, WFMin, Zenon
<1>4. \A U \in C : U \subseteq T /\ U # T => <<U, T>> \in StrictSubsetOrdering(S)
  BY DEF StrictSubsetOrdering
<1>5. \A U \in C : U \subseteq T => U = T
  BY <1>3, <1>4, Zenon
<1>6. QED
  BY <1>5

-----------------------------------------------------------------------------
(***************************************************************************)
(* Sums.                                                                   *)
(***************************************************************************)
Choice(s) == CHOOSE x \in s : TRUE

\* g[s] is the sum of f over s, for every subset s of T, as SumFunctionOnSet defines it.
Sums(f, T, g) ==
    g = [s \in SUBSET T |-> IF s = {} THEN 0 ELSE f[Choice(s)] + g[s \ {Choice(s)}]]

LEMMA ChoiceIsMember == ASSUME NEW s, s # {} PROVE Choice(s) \in s
  BY DEF Choice

\* What a table of sums holds for one set.
LEMMA SumsEntry ==
    ASSUME NEW f, NEW T, NEW g, Sums(f, T, g), NEW s \in SUBSET T
    PROVE  g[s] = IF s = {} THEN 0 ELSE f[Choice(s)] + g[s \ {Choice(s)}]
  BY DEF Sums

\* Two tables agree where the functions they sum do.
LEMMA SumsAgree ==
    ASSUME NEW A, IsFiniteSet(A), NEW B, A \subseteq B,
           NEW f, NEW h, \A x \in A : f[x] = h[x],
           NEW g, Sums(f, A, g), NEW k, Sums(h, B, k)
    PROVE  g[A] = k[A]
<1> DEFINE C == {s \in SUBSET A : g[s] # k[s]}
<1>1. SUFFICES ASSUME C # {}
               PROVE  FALSE
  OBVIOUS
<1>2. PICK T \in C : \A U \in C : U \subseteq T => U = T
  <2>1. C \in SUBSET (SUBSET A)
    OBVIOUS
  <2> HIDE DEF C
  <2>2. QED
    BY <1>1, <2>1, MinimalSubset
<1>3. T \in SUBSET A /\ g[T] # k[T]
  OBVIOUS
<1>4. /\ g[T] = IF T = {} THEN 0 ELSE f[Choice(T)] + g[T \ {Choice(T)}]
      /\ k[T] = IF T = {} THEN 0 ELSE h[Choice(T)] + k[T \ {Choice(T)}]
  <2>1. T \in SUBSET B
    BY <1>3
  <2>2. QED
    BY <1>3, <2>1, SumsEntry
<1>5. T # {}
  BY <1>3, <1>4
<1>6. Choice(T) \in T
  BY <1>5, ChoiceIsMember
<1>7. g[T \ {Choice(T)}] = k[T \ {Choice(T)}]
  BY <1>2, <1>3, <1>6
<1>8. QED
  BY <1>3, <1>4, <1>5, <1>6, <1>7

\* A finite set has a table of sums.
LEMMA SumsExist ==
    ASSUME NEW S, IsFiniteSet(S), NEW f
    PROVE  \E g : Sums(f, S, g)
<1> DEFINE C == {T \in SUBSET S : ~ \E g : Sums(f, T, g)}
<1>1. SUFFICES ASSUME C # {}
               PROVE  FALSE
  OBVIOUS
<1>2. PICK T \in C : \A U \in C : U \subseteq T => U = T
  <2>1. C \in SUBSET (SUBSET S)
    OBVIOUS
  <2> HIDE DEF C
  <2>2. QED
    BY <1>1, <2>1, MinimalSubset
<1>3. T \in SUBSET S /\ ~ \E g : Sums(f, T, g)
  OBVIOUS
<1> DEFINE t(s) == CHOOSE g : Sums(f, s, g)
<1>4. ASSUME NEW s \in SUBSET T, s # T
      PROVE  Sums(f, s, t(s))
  <2>1. \E g : Sums(f, s, g)
    BY <1>2, <1>3, <1>4
  <2>2. QED
    BY <2>1
<1> DEFINE last == IF T = {} THEN 0 ELSE f[Choice(T)] + t(T \ {Choice(T)})[T \ {Choice(T)}]
           g == [s \in SUBSET T |-> IF s = T THEN last ELSE t(s)[s]]
<1>5. ASSUME NEW s \in SUBSET T
      PROVE  g[s] = IF s = {} THEN 0 ELSE f[Choice(s)] + g[s \ {Choice(s)}]
  <2> HIDE DEF t
  <2>1. CASE s = {}
    <3>1. CASE T = {}
      BY <2>1, <3>1
    <3>2. CASE T # {}
      <4>1. t(s)[s] = 0
        BY <1>4, <2>1, <3>2, SumsEntry
      <4>2. QED
        BY <2>1, <3>2, <4>1
    <3>3. QED
      BY <3>1, <3>2
  <2>2. CASE s # {}
    <3>1. Choice(s) \in s
      BY <2>2, ChoiceIsMember
    <3>2. s \ {Choice(s)} \in SUBSET T /\ s \ {Choice(s)} # T
      BY <3>1
    <3> DEFINE r == s \ {Choice(s)}
    <3>3. g[r] = t(r)[r]
      BY <3>2
    <3>4. CASE s = T
      BY <2>2, <3>3, <3>4
    <3>5. CASE s # T
      <4>1. t(s)[s] = f[Choice(s)] + t(s)[r]
        BY <1>4, <2>2, <3>5, SumsEntry
      <4>2. Sums(f, s, t(s)) /\ Sums(f, r, t(r))
        BY <1>4, <3>2, <3>5
      <4>3. IsFiniteSet(r) /\ r \subseteq s
        BY <1>3, FS_Subset
      <4> HIDE DEF r
      <4>4. t(r)[r] = t(s)[r]
        BY <4>2, <4>3, SumsAgree
      <4>5. QED
        BY <2>2, <3>3, <3>5, <4>1, <4>4 DEF r
    <3>6. QED
      BY <3>4, <3>5
  <2>3. QED
    BY <2>1, <2>2
<1>6. g = [s \in SUBSET T |-> g[s]]
  <2> HIDE DEF t, last
  <2>1. QED
    OBVIOUS
<1>7. Sums(f, T, g)
  <2> HIDE DEF g
  <2>1. QED
    BY <1>5, <1>6 DEF Sums
<1>8. QED
  BY <1>3, <1>7

\* SumFunctionOnSet looks its result up in such a table.
LEMMA SumIsInTable ==
    ASSUME NEW S, IsFiniteSet(S), NEW f
    PROVE  \E g : Sums(f, S, g) /\ SumFunctionOnSet(f, S) = g[S]
<1>1. \E g : Sums(f, S, g)
  BY SumsExist
<1>2. Sums(f, S, CHOOSE g : Sums(f, S, g))
  BY <1>1
<1>3. SumFunctionOnSet(f, S) = (CHOOSE g : Sums(f, S, g))[S]
  BY DEF SumFunctionOnSet, FoldFunctionOnSet, MapThenFoldSet, Sums, Choice
<1>4. QED
  BY <1>2, <1>3

\* Functions that agree on a set have the same sum over it.
LEMMA SumCongruence ==
    ASSUME NEW S, IsFiniteSet(S), NEW f, NEW h, \A x \in S : f[x] = h[x]
    PROVE  SumFunctionOnSet(f, S) = SumFunctionOnSet(h, S)
<1>1. PICK g : Sums(f, S, g) /\ SumFunctionOnSet(f, S) = g[S]
  BY SumIsInTable
<1>2. PICK k : Sums(h, S, k) /\ SumFunctionOnSet(h, S) = k[S]
  BY SumIsInTable
<1>3. g[S] = k[S]
  BY <1>1, <1>2, SumsAgree
<1>4. QED
  BY <1>1, <1>2, <1>3

\* The recursion of the sum: the chosen element, and the rest.
LEMMA SumUnfolds ==
    ASSUME NEW S, IsFiniteSet(S), NEW f
    PROVE  SumFunctionOnSet(f, S) =
             IF S = {} THEN 0 ELSE f[Choice(S)] + SumFunctionOnSet(f, S \ {Choice(S)})
<1> DEFINE r == S \ {Choice(S)}
<1>1. PICK g : Sums(f, S, g) /\ SumFunctionOnSet(f, S) = g[S]
  BY SumIsInTable
<1>2. IsFiniteSet(r) /\ r \subseteq S
  BY FS_Subset
<1> HIDE DEF r
<1>3. PICK k : Sums(f, r, k) /\ SumFunctionOnSet(f, r) = k[r]
  BY <1>2, SumIsInTable
<1>4. k[r] = g[r]
  BY <1>1, <1>2, <1>3, SumsAgree
<1>5. g[S] = IF S = {} THEN 0 ELSE f[Choice(S)] + g[S \ {Choice(S)}]
  BY <1>1, SumsEntry
<1>6. QED
  BY <1>1, <1>3, <1>4, <1>5 DEF r

\* A sum of integers is an integer.
LEMMA SumIsInteger ==
    ASSUME NEW S, IsFiniteSet(S), NEW f, \A x \in S : f[x] \in Int
    PROVE  SumFunctionOnSet(f, S) \in Int
<1> DEFINE C == {T \in SUBSET S : SumFunctionOnSet(f, T) \notin Int}
<1>1. SUFFICES ASSUME C # {}
               PROVE  FALSE
  OBVIOUS
<1>2. PICK T \in C : \A U \in C : U \subseteq T => U = T
  <2>1. C \in SUBSET (SUBSET S)
    OBVIOUS
  <2> HIDE DEF C
  <2>2. QED
    BY <1>1, <2>1, MinimalSubset
<1>3. T \in SUBSET S /\ SumFunctionOnSet(f, T) \notin Int
  OBVIOUS
<1>4. IsFiniteSet(T)
  BY <1>3, FS_Subset
<1>5. SumFunctionOnSet(f, T) =
        IF T = {} THEN 0 ELSE f[Choice(T)] + SumFunctionOnSet(f, T \ {Choice(T)})
  BY <1>4, SumUnfolds
<1>6. T # {}
  BY <1>3, <1>5
<1>7. Choice(T) \in T
  BY <1>6, ChoiceIsMember
<1>8. SumFunctionOnSet(f, T \ {Choice(T)}) \in Int
  BY <1>2, <1>3, <1>7
<1>9. QED
  BY <1>3, <1>5, <1>6, <1>7, <1>8

\* A sum is any one of its terms and the sum of the others.
LEMMA SumWithout ==
    ASSUME NEW S, IsFiniteSet(S), NEW f, \A x \in S : f[x] \in Int, NEW x \in S
    PROVE  SumFunctionOnSet(f, S) = f[x] + SumFunctionOnSet(f, S \ {x})
<1> DEFINE Splits(T) ==
             \A z \in T : SumFunctionOnSet(f, T) = f[z] + SumFunctionOnSet(f, T \ {z})
           C == {T \in SUBSET S : ~Splits(T)}
<1>1. SUFFICES ASSUME C # {}
               PROVE  FALSE
  <2>1. S \in SUBSET S
    OBVIOUS
  <2>2. QED
    BY <2>1
<1>2. PICK T \in C : \A U \in C : U \subseteq T => U = T
  <2>1. C \in SUBSET (SUBSET S)
    OBVIOUS
  <2> HIDE DEF C
  <2>2. QED
    BY <1>1, <2>1, MinimalSubset
<1>3. T \in SUBSET S /\ ~Splits(T)
  OBVIOUS
<1>4. PICK z \in T : SumFunctionOnSet(f, T) # f[z] + SumFunctionOnSet(f, T \ {z})
  BY <1>3
<1>5. ASSUME NEW U \in SUBSET T
      PROVE  IsFiniteSet(U) /\ SumFunctionOnSet(f, U) \in Int
  <2>1. U \in SUBSET S
    BY <1>3
  <2>2. IsFiniteSet(U)
    BY <2>1, FS_Subset
  <2>3. QED
    BY <2>1, <2>2, SumIsInteger
<1> DEFINE y == Choice(T)
<1>6. y \in T
  BY <1>4, ChoiceIsMember
<1>7. SumFunctionOnSet(f, T) = f[y] + SumFunctionOnSet(f, T \ {y})
  BY <1>4, <1>5, SumUnfolds
<1>8. y # z
  BY <1>4, <1>7
<1> HIDE DEF y
<1>9. Splits(T \ {y}) /\ Splits(T \ {z})
  BY <1>2, <1>3, <1>6
<1> DEFINE rest == SumFunctionOnSet(f, (T \ {y}) \ {z})
<1>10. SumFunctionOnSet(f, T \ {y}) = f[z] + rest
  BY <1>8, <1>9
<1>11. SumFunctionOnSet(f, T \ {z}) = f[y] + rest
  <2>1. (T \ {z}) \ {y} = (T \ {y}) \ {z}
    OBVIOUS
  <2>2. SumFunctionOnSet(f, T \ {z}) = f[y] + SumFunctionOnSet(f, (T \ {z}) \ {y})
    BY <1>6, <1>8, <1>9
  <2>3. QED
    BY <2>1, <2>2
<1>12. rest \in Int /\ f[y] \in Int /\ f[z] \in Int
  BY <1>3, <1>5, <1>6
<1> HIDE DEF rest
<1>13. QED
  BY <1>4, <1>7, <1>10, <1>11, <1>12
===============================================================================
