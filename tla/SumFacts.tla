------------------------------- MODULE SumFacts -------------------------------
(***************************************************************************)
(* Facts about SumFunction, the sum of the values of a function with a     *)
(* finite domain: it is a number, it changes by as much as one value does, *)
(* and of zeros it is zero.                                                *)
(*                                                                         *)
(* The sum is a recursive function on the subsets of the domain.  That     *)
(* there is one, and what it returns, is proved by induction on the size   *)
(* of the subsets, from the fact that every nonempty set of numbers has a  *)
(* least one: a set stands for the property that would be the parameter of *)
(* an induction theorem.                                                   *)
(***************************************************************************)
EXTENDS Integers, FiniteSets, Functions, WellFoundedInduction, FiniteSetTheorems, TLAPS

Less == {ns \in Nat \X Nat : ns[1] < ns[2]}

LEMMA LessIsWellFounded == IsWellFoundedOn(Less, Nat)
BY NatLessThanWellFounded DEF OpToRel, Less

LEMMA LeastNumber ==
  ASSUME NEW T \in SUBSET Nat, T # {}
  PROVE  \E n \in T : \A m \in T : n <= m
<1>1. PICK n \in T : \A m \in T : <<m, n>> \notin Less
  BY LessIsWellFounded, WFMin
<1>2. ASSUME NEW m \in T PROVE n <= m
  <2>1. ~ (<<m, n>>[1] < <<m, n>>[2])
    BY <1>1 DEF Less
  <2>2. m \in Nat /\ n \in Nat
    OBVIOUS
  <2> QED
    BY <2>1, <2>2
<1> QED
  BY <1>2

\* The element of s that is added next.
Pick(s) == CHOOSE x \in s : TRUE

LEMMA PickIsElement == \A s : s # {} => Pick(s) \in s
BY DEF Pick

\* A set of subsets that has the empty one, and every one that it has without
\* its picked element, has them all.
LEMMA SubsetInduction ==
  ASSUME NEW S, IsFiniteSet(S), NEW T, {} \in T,
         \A s \in SUBSET S : s # {} /\ s \ {Pick(s)} \in T => s \in T
  PROVE  SUBSET S \subseteq T
<1> SUFFICES ASSUME NEW bad \in SUBSET S, bad \notin T PROVE FALSE
  OBVIOUS
<1> DEFINE sizes == {Cardinality(s) : s \in (SUBSET S) \ T}
<1>1. \A s \in SUBSET S : IsFiniteSet(s) /\ Cardinality(s) \in Nat
  BY FS_Subset, FS_CardinalityType
<1>2. sizes \in SUBSET Nat /\ sizes # {}
  BY <1>1
<1> HIDE DEF sizes
<1>3. PICK n \in sizes : \A m \in sizes : n <= m
  BY <1>2, LeastNumber
<1> USE DEF sizes
<1>4. PICK s \in (SUBSET S) \ T : Cardinality(s) = n
  BY <1>3
<1>5. s # {} /\ Pick(s) \in s
  BY PickIsElement
<1>6. Cardinality(s \ {Pick(s)}) = n - 1 /\ n \in Nat
  BY <1>1, <1>4, <1>5, FS_RemoveElement
<1>7. s \ {Pick(s)} \in SUBSET S /\ s \ {Pick(s)} \notin T
  BY <1>5
<1>8. n <= n - 1
  BY <1>3, <1>6, <1>7
<1> QED
  BY <1>6, <1>8

-----------------------------------------------------------------------------
(* The sums of the subsets                                                 *)

\* One step of the recursion.
Step(f, it, s) == IF s = {} THEN 0 ELSE f[Pick(s)] + it[s \ {Pick(s)}]

Sums(f, S) == CHOOSE it : it = [s \in SUBSET S |-> Step(f, it, s)]

LEMMA SumIsSums == \A f : SumFunction(f) = Sums(f, DOMAIN f)[DOMAIN f]
BY DEF SumFunction, SumFunctionOnSet, FoldFunctionOnSet, MapThenFoldSet, Sums, Step, Pick

\* There are sums of the subsets of a size, if there are of the smaller ones.
LEMMA SumsExist ==
  ASSUME NEW S, IsFiniteSet(S), NEW f
  PROVE  \E it : it = [s \in SUBSET S |-> Step(f, it, s)]
<1> DEFINE Upto(n, it) == \A s \in SUBSET S : Cardinality(s) <= n => it[s] = Step(f, it, s)
           lacking == {n \in Nat : ~ \E it : it = [s \in SUBSET S |-> it[s]] /\ Upto(n, it)}
<1>1. \A s \in SUBSET S : IsFiniteSet(s) /\ Cardinality(s) \in Nat
  BY FS_Subset, FS_CardinalityType
<1>2. 0 \notin lacking
  <2> DEFINE it == [s \in SUBSET S |-> 0]
  <2>1. ASSUME NEW s \in SUBSET S, Cardinality(s) <= 0 PROVE it[s] = Step(f, it, s)
    <3>1. s = {}
      BY <1>1, <2>1, FS_EmptySet
    <3> QED
      BY <3>1 DEF Step
  <2>2. it = [s \in SUBSET S |-> it[s]]
    OBVIOUS
  <2> QED
    BY <2>1, <2>2
<1>3. ASSUME NEW n \in Nat, n \notin lacking PROVE n + 1 \notin lacking
  <2>1. PICK it : it = [s \in SUBSET S |-> it[s]] /\ Upto(n, it)
    BY <1>3
  <2> DEFINE next == [s \in SUBSET S |-> Step(f, it, s)]
  <2>2. ASSUME NEW s \in SUBSET S, Cardinality(s) <= n + 1 PROVE next[s] = Step(f, next, s)
    <3>1. CASE s = {}
      BY <3>1 DEF Step
    <3>2. CASE s # {}
      <4> DEFINE less == s \ {Pick(s)}
      <4>1. less \in SUBSET S /\ Cardinality(less) <= n
        BY <1>1, <2>2, <3>2, PickIsElement, FS_RemoveElement
      <4>2. next[less] = it[less]
        BY <2>1, <4>1
      <4> QED
        BY <3>2, <4>2 DEF Step
    <3> QED
      BY <3>1, <3>2
  <2>3. next = [s \in SUBSET S |-> next[s]]
    OBVIOUS
  <2> HIDE DEF next
  <2> QED
    BY <2>2, <2>3
<1>4. lacking = {}
  <2> SUFFICES ASSUME lacking # {} PROVE FALSE
    OBVIOUS
  <2>1. lacking \in SUBSET Nat
    OBVIOUS
  <2> HIDE DEF lacking
  <2>2. PICK n \in lacking : \A m \in lacking : n <= m
    BY <2>1, LeastNumber
  <2>3. n - 1 \in Nat /\ n - 1 \notin lacking
    BY <1>2, <2>1, <2>2
  <2>4. (n - 1) + 1 \notin lacking
    BY <1>3, <2>3
  <2> QED
    BY <2>1, <2>2, <2>4
<1>5. PICK it : it = [s \in SUBSET S |-> it[s]] /\ Upto(Cardinality(S), it)
  BY <1>1, <1>4
<1>6. \A s \in SUBSET S : Cardinality(s) <= Cardinality(S)
  BY FS_Subset
<1>7. \A s \in SUBSET S : it[s] = Step(f, it, s)
  BY <1>5, <1>6
<1>8. it = [s \in SUBSET S |-> Step(f, it, s)]
  BY <1>5, <1>7
<1> QED
  BY <1>8

LEMMA SumsStep ==
  ASSUME NEW S, IsFiniteSet(S), NEW f, NEW s \in SUBSET S
  PROVE  Sums(f, S)[s] = Step(f, Sums(f, S), s)
<1>1. Sums(f, S) = [t \in SUBSET S |-> Step(f, Sums(f, S), t)]
  BY SumsExist DEF Sums
<1> QED
  BY <1>1

-----------------------------------------------------------------------------
(* What sums are                                                           *)

\* The sum of natural numbers is one.
LEMMA SumType ==
  ASSUME NEW S, IsFiniteSet(S), NEW f \in [S -> Nat]
  PROVE  SumFunction(f) \in Nat
<1> DEFINE T == {s \in SUBSET S : Sums(f, S)[s] \in Nat}
<1>1. {} \in T
  BY SumsStep DEF Step
<1>2. ASSUME NEW s \in SUBSET S, s # {}, s \ {Pick(s)} \in T PROVE s \in T
  <2>1. Sums(f, S)[s] = f[Pick(s)] + Sums(f, S)[s \ {Pick(s)}]
    BY <1>2, SumsStep DEF Step
  <2>2. f[Pick(s)] \in Nat
    BY <1>2, PickIsElement
  <2> QED
    BY <1>2, <2>1, <2>2
<1> HIDE DEF T
<1>3. SUBSET S \subseteq T
  BY <1>1, <1>2, SubsetInduction
<1>4. Sums(f, S)[S] \in Nat
  BY <1>3 DEF T
<1> QED
  BY <1>4, SumIsSums

\* The sum of zeros is zero.
LEMMA SumOfZeros ==
  ASSUME NEW S, IsFiniteSet(S), NEW f \in [S -> Nat], \A x \in S : f[x] = 0
  PROVE  SumFunction(f) = 0
<1> DEFINE T == {s \in SUBSET S : Sums(f, S)[s] = 0}
<1>1. {} \in T
  BY SumsStep DEF Step
<1>2. ASSUME NEW s \in SUBSET S, s # {}, s \ {Pick(s)} \in T PROVE s \in T
  <2>1. Sums(f, S)[s] = f[Pick(s)] + Sums(f, S)[s \ {Pick(s)}]
    BY <1>2, SumsStep DEF Step
  <2>2. f[Pick(s)] = 0
    BY <1>2, PickIsElement
  <2> QED
    BY <1>2, <2>1, <2>2
<1> HIDE DEF T
<1>3. SUBSET S \subseteq T
  BY <1>1, <1>2, SubsetInduction
<1>4. Sums(f, S)[S] = 0
  BY <1>3 DEF T
<1> QED
  BY <1>4, SumIsSums

\* When one value changes, the sum changes by as much.
LEMMA SumChanges ==
  ASSUME NEW S, IsFiniteSet(S), NEW f \in [S -> Nat], NEW x \in S, NEW y \in Nat
  PROVE  SumFunction([f EXCEPT ![x] = y]) = SumFunction(f) - f[x] + y
<1> DEFINE g == [f EXCEPT ![x] = y]
           T == {s \in SUBSET S :
                   /\ Sums(f, S)[s] \in Int
                   /\ Sums(g, S)[s] = Sums(f, S)[s] + (IF x \in s THEN y - f[x] ELSE 0)}
<1>1. /\ g \in [S -> Nat] /\ g[x] = y /\ \A z \in S : z # x => g[z] = f[z]
      /\ f[x] \in Nat /\ DOMAIN f = S /\ DOMAIN g = S
  OBVIOUS
<1> HIDE DEF g
<1>2. {} \in T
  <2>1. Sums(f, S)[{}] = 0 /\ Sums(g, S)[{}] = 0
    BY SumsStep DEF Step
  <2> QED
    BY <2>1
<1>3. ASSUME NEW s \in SUBSET S, s # {}, s \ {Pick(s)} \in T PROVE s \in T
  <2> DEFINE less == s \ {Pick(s)}
  <2>1. /\ Sums(f, S)[s] = f[Pick(s)] + Sums(f, S)[less]
        /\ Sums(g, S)[s] = g[Pick(s)] + Sums(g, S)[less]
    BY <1>3, SumsStep DEF Step
  <2>2. Pick(s) \in s /\ Pick(s) \in S /\ f[Pick(s)] \in Nat
    BY <1>3, PickIsElement
  <2>3. /\ Sums(f, S)[less] \in Int
        /\ Sums(g, S)[less] = Sums(f, S)[less] + (IF x \in less THEN y - f[x] ELSE 0)
    BY <1>3
  <2>4. CASE Pick(s) = x
    BY <1>1, <2>1, <2>2, <2>3, <2>4
  <2>5. CASE Pick(s) # x
    <3>1. x \in less <=> x \in s
      BY <2>5
    <3>2. g[Pick(s)] = f[Pick(s)]
      BY <1>1, <2>2, <2>5
    <3> QED
      BY <1>1, <2>1, <2>2, <2>3, <3>1, <3>2
  <2> QED
    BY <2>4, <2>5
<1> HIDE DEF T
<1>4. SUBSET S \subseteq T
  BY <1>2, <1>3, SubsetInduction
<1>5. Sums(f, S)[S] \in Int /\ Sums(g, S)[S] = Sums(f, S)[S] + (y - f[x])
  BY <1>4 DEF T
<1>6. SumFunction(g) = SumFunction(f) - f[x] + y
  BY <1>1, <1>5, SumIsSums
<1> QED
  BY <1>6 DEF g
=============================================================================
