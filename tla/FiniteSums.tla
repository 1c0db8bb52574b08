------------------------------ MODULE FiniteSums ------------------------------
(***************************************************************************)
(* Sums over finite sets: what the fold of Functions computes, for every   *)
(* function and every finite set of indices.  The fold takes an element by *)
(* CHOOSE and recurs; that the order does not matter is TotalTakesAny.     *)
(*                                                                         *)
(* The induction is on the strict subsets of a finite set, which are well  *)
(* founded; a property is given as a set, since only a statement without   *)
(* an operator among its parameters can be instantiated.                   *)
(***************************************************************************)
EXTENDS Integers, FiniteSets, Functions, FiniteSetTheorems, WellFoundedInduction, TLAPS

(* The element with which the fold begins. *)
Pick(s) == CHOOSE x \in s : TRUE

(* g is the table of sums that the fold builds over the subsets of S. *)
IsSum(g, f, S) ==
  g = [s \in SUBSET S |-> IF s = {} THEN 0 ELSE f[Pick(s)] + g[s \ {Pick(s)}]]

Total(f, S) == SumFunctionOnSet(f, S)

LEMMA PickIsIn == \A s : s # {} => Pick(s) \in s
BY DEF Pick

LEMMA TotalUnfolds == \A f, S : Total(f, S) = (CHOOSE g : IsSum(g, f, S))[S]
BY Zenon DEF Total, SumFunctionOnSet, FoldFunctionOnSet, MapThenFoldSet, IsSum, Pick

LEMMA SubsetInduction ==
  ASSUME NEW S, IsFiniteSet(S), NEW D,
         \A T \in SUBSET S : (\A U \in SUBSET T : U # T => U \in D) => T \in D
  PROVE  SUBSET S \subseteq D
<1> SUFFICES ASSUME (SUBSET S) \ D # {} PROVE FALSE
  OBVIOUS
<1>1. IsWellFoundedOn(StrictSubsetOrdering(S), SUBSET S)
  <2>1. IsWellFoundedOn(StrictSubsetOrdering(S), FiniteSubsetsOf(S))
    BY FS_StrictSubsetOrderingWellFounded
  <2>2. FiniteSubsetsOf(S) = SUBSET S
    BY FS_FiniteSubsetsOfFinite
  <2> QED
    BY <2>1, <2>2
<1> DEFINE B == (SUBSET S) \ D
<1>2. B \subseteq SUBSET S /\ B # {}
  OBVIOUS
<1>3. PICK T \in B : \A U \in B : <<U, T>> \notin StrictSubsetOrdering(S)
  <2> HIDE DEF B
  <2> QED
    BY <1>1, <1>2, WFMin
<1>4. \A U \in SUBSET T : U # T => U \in D
  BY <1>3 DEF StrictSubsetOrdering
<1> QED
  BY <1>3, <1>4

LEMMA SumsAgree ==
  ASSUME NEW f, NEW S, NEW T, NEW g, NEW h, IsSum(g, f, S), IsSum(h, f, T),
         NEW R, R \subseteq S, R \subseteq T, IsFiniteSet(R)
  PROVE  g[R] = h[R]
<1> DEFINE D == {s \in SUBSET R : g[s] = h[s]}
<1>1. ASSUME NEW s \in SUBSET R, \A u \in SUBSET s : u # s => u \in D
      PROVE  s \in D
  <2>1. CASE s = {}
    <3>1. g[s] = 0 /\ h[s] = 0
      BY <2>1 DEF IsSum
    <3> QED
      BY <3>1
  <2>2. CASE s # {}
    <3>1. s \ {Pick(s)} \in D
      BY <1>1, <2>2, PickIsIn
    <3>2. /\ g[s] = f[Pick(s)] + g[s \ {Pick(s)}]
          /\ h[s] = f[Pick(s)] + h[s \ {Pick(s)}]
      BY <2>2 DEF IsSum
    <3> QED
      BY <3>1, <3>2
  <2> QED
    BY <2>1, <2>2
<1>2. SUBSET R \subseteq D
  <2> HIDE DEF D
  <2> QED
    BY <1>1, SubsetInduction
<1> QED
  BY <1>2

LEMMA SumExists ==
  ASSUME NEW f, NEW S, IsFiniteSet(S)
  PROVE  \E g : IsSum(g, f, S)
<1> DEFINE D == {T \in SUBSET S : \E g : IsSum(g, f, T)}
<1>1. ASSUME NEW T \in SUBSET S, \A U \in SUBSET T : U # T => U \in D
      PROVE  T \in D
  <2> DEFINE sum(s) == IF s = {} THEN 0
                       ELSE f[Pick(s)] + Total(f, s \ {Pick(s)})
  <2> DEFINE g == [s \in SUBSET T |-> sum(s)]
  <2>1. ASSUME NEW s \in SUBSET T, s # T PROVE Total(f, s) = sum(s)
    <3>1. PICK h : h = (CHOOSE k : IsSum(k, f, s))
      OBVIOUS
    <3>2. IsSum(h, f, s) /\ Total(f, s) = h[s]
      BY <1>1, <2>1, <3>1, TotalUnfolds
    <3>3. CASE s = {}
      BY <3>2, <3>3 DEF IsSum
    <3>4. CASE s # {}
      <4> DEFINE r == s \ {Pick(s)}
      <4>1. r \in SUBSET T /\ r # T /\ r \subseteq s
        BY <3>4, PickIsIn
      <4>2. PICK k : k = (CHOOSE e : IsSum(e, f, r))
        OBVIOUS
      <4>3. IsSum(k, f, r) /\ Total(f, r) = k[r]
        <5> HIDE DEF r
        <5> QED
          BY <1>1, <4>1, <4>2, TotalUnfolds
      <4>4. IsFiniteSet(r)
        BY <4>1, FS_Subset
      <4>5. k[r] = h[r]
        <5> HIDE DEF r
        <5> QED
          BY <3>2, <4>1, <4>3, <4>4, SumsAgree
      <4>6. h[s] = f[Pick(s)] + h[r]
        BY <3>2, <3>4 DEF IsSum
      <4> QED
        BY <3>2, <3>4, <4>3, <4>5, <4>6
    <3> QED
      BY <3>3, <3>4
  <2>2. ASSUME NEW s \in SUBSET T
        PROVE  g[s] = IF s = {} THEN 0 ELSE f[Pick(s)] + g[s \ {Pick(s)}]
    <3>1. CASE s = {}
      BY <3>1
    <3>2. CASE s # {}
      <4>1. s \ {Pick(s)} \in SUBSET T /\ s \ {Pick(s)} # T
        BY <3>2, PickIsIn
      <4>2. Total(f, s \ {Pick(s)}) = sum(s \ {Pick(s)})
        BY <2>1, <4>1
      <4>3. g[s \ {Pick(s)}] = sum(s \ {Pick(s)}) /\ g[s] = sum(s)
        BY <4>1
      <4> QED
        BY <3>2, <4>2, <4>3
    <3> QED
      BY <3>1, <3>2
  <2>3. IsSum(g, f, T)
    <3> HIDE DEF sum
    <3>1. g = [s \in SUBSET T |-> g[s]]
      OBVIOUS
    <3> HIDE DEF g
    <3> QED
      BY <2>2, <3>1 DEF IsSum
  <2> QED
    BY <2>3
<1>2. SUBSET S \subseteq D
  <2> HIDE DEF D
  <2> QED
    BY <1>1, SubsetInduction
<1> QED
  BY <1>2

(* The fold, as if it had been defined by recursion. *)
LEMMA TotalRecurs ==
  ASSUME NEW f, NEW S, IsFiniteSet(S)
  PROVE  Total(f, S) = IF S = {} THEN 0 ELSE f[Pick(S)] + Total(f, S \ {Pick(S)})
<1> DEFINE R == S \ {Pick(S)}
<1>1. PICK g : g = (CHOOSE k : IsSum(k, f, S))
  OBVIOUS
<1>2. IsSum(g, f, S) /\ Total(f, S) = g[S]
  BY <1>1, SumExists, TotalUnfolds
<1>3. IsFiniteSet(R)
  BY FS_Subset
<1>4. PICK h : h = (CHOOSE k : IsSum(k, f, R))
  OBVIOUS
<1>5. IsSum(h, f, R) /\ Total(f, R) = h[R]
  <2> HIDE DEF R
  <2> QED
    BY <1>3, <1>4, SumExists, TotalUnfolds
<1>6. g[R] = h[R]
  <2> R \subseteq S
    OBVIOUS
  <2> HIDE DEF R
  <2> QED
    BY <1>2, <1>3, <1>5, SumsAgree
<1>7. g[S] = IF S = {} THEN 0 ELSE f[Pick(S)] + g[R]
  BY <1>2 DEF IsSum
<1> QED
  BY <1>2, <1>5, <1>6, <1>7

LEMMA TotalOfNone == \A f : Total(f, {}) = 0
BY TotalRecurs, FS_EmptySet

LEMMA TotalIsNat ==
  ASSUME NEW f, NEW S, IsFiniteSet(S), \A x \in S : f[x] \in Nat
  PROVE  Total(f, S) \in Nat
<1> DEFINE D == {T \in SUBSET S : Total(f, T) \in Nat}
<1>1. ASSUME NEW T \in SUBSET S, \A U \in SUBSET T : U # T => U \in D
      PROVE  T \in D
  <2>1. Total(f, T) = IF T = {} THEN 0 ELSE f[Pick(T)] + Total(f, T \ {Pick(T)})
    BY TotalRecurs, FS_Subset
  <2>2. T # {} => Pick(T) \in T /\ T \ {Pick(T)} \in D
    BY <1>1, PickIsIn
  <2> QED
    BY <2>1, <2>2
<1>2. SUBSET S \subseteq D
  <2> HIDE DEF D
  <2> QED
    BY <1>1, SubsetInduction
<1> QED
  BY <1>2

(* Only the values at the indices matter. *)
LEMMA SameTotal ==
  ASSUME NEW f, NEW g, NEW S, IsFiniteSet(S), \A x \in S : f[x] = g[x]
  PROVE  Total(f, S) = Total(g, S)
<1> DEFINE D == {T \in SUBSET S : Total(f, T) = Total(g, T)}
<1>1. ASSUME NEW T \in SUBSET S, \A U \in SUBSET T : U # T => U \in D
      PROVE  T \in D
  <2>1. /\ Total(f, T) = IF T = {} THEN 0 ELSE f[Pick(T)] + Total(f, T \ {Pick(T)})
        /\ Total(g, T) = IF T = {} THEN 0 ELSE g[Pick(T)] + Total(g, T \ {Pick(T)})
    BY TotalRecurs, FS_Subset
  <2>2. T # {} => Pick(T) \in T /\ T \ {Pick(T)} \in D
    BY <1>1, PickIsIn
  <2> QED
    BY <2>1, <2>2
<1>2. SUBSET S \subseteq D
  <2> HIDE DEF D
  <2> QED
    BY <1>1, SubsetInduction
<1> QED
  BY <1>2

LEMMA TotalOfZeros ==
  ASSUME NEW f, NEW S, IsFiniteSet(S), \A x \in S : f[x] = 0
  PROVE  Total(f, S) = 0
<1> DEFINE D == {T \in SUBSET S : Total(f, T) = 0}
<1>1. ASSUME NEW T \in SUBSET S, \A U \in SUBSET T : U # T => U \in D
      PROVE  T \in D
  <2>1. Total(f, T) = IF T = {} THEN 0 ELSE f[Pick(T)] + Total(f, T \ {Pick(T)})
    BY TotalRecurs, FS_Subset
  <2>2. T # {} => Pick(T) \in T /\ T \ {Pick(T)} \in D
    BY <1>1, PickIsIn
  <2> QED
    BY <2>1, <2>2
<1>2. SUBSET S \subseteq D
  <2> HIDE DEF D
  <2> QED
    BY <1>1, SubsetInduction
<1> QED
  BY <1>2

(* The fold may begin with any element. *)
LEMMA TotalTakesAny ==
  ASSUME NEW f, NEW S, IsFiniteSet(S), \A x \in S : f[x] \in Nat, NEW x \in S
  PROVE  Total(f, S) = f[x] + Total(f, S \ {x})
<1> DEFINE D == {T \in SUBSET S : \A y \in T : Total(f, T) = f[y] + Total(f, T \ {y})}
<1>1. ASSUME NEW T \in SUBSET S, \A U \in SUBSET T : U # T => U \in D
      PROVE  T \in D
  <2> SUFFICES ASSUME NEW y \in T PROVE Total(f, T) = f[y] + Total(f, T \ {y})
    OBVIOUS
  <2> DEFINE p == Pick(T)
             V == T \ {p, y}
  <2>1. p \in T
    BY PickIsIn
  <2>2. Total(f, T) = f[p] + Total(f, T \ {p})
    BY TotalRecurs, FS_Subset
  <2>3. CASE y = p
    BY <2>2, <2>3
  <2>4. CASE y # p
    <3>1. T \ {p} \in D /\ T \ {y} \in D
      BY <1>1, <2>1
    <3>2. y \in T \ {p} /\ p \in T \ {y}
      BY <2>1, <2>4
    <3>3. (T \ {p}) \ {y} = V /\ (T \ {y}) \ {p} = V
      OBVIOUS
    <3>4. /\ Total(f, T \ {p}) = f[y] + Total(f, V)
          /\ Total(f, T \ {y}) = f[p] + Total(f, V)
      <4> HIDE DEF p, V
      <4> QED
        BY <3>1, <3>2, <3>3
    <3>5. Total(f, V) \in Nat
      <4>1. IsFiniteSet(V) /\ V \subseteq S
        BY FS_Subset
      <4> HIDE DEF V
      <4> QED
        BY <4>1, TotalIsNat
    <3>6. f[y] \in Nat /\ f[p] \in Nat
      BY <2>1
    <3> QED
      BY <2>2, <3>4, <3>5, <3>6
  <2> QED
    BY <2>3, <2>4
<1>2. SUBSET S \subseteq D
  <2> HIDE DEF D
  <2> QED
    BY <1>1, SubsetInduction
<1> QED
  BY <1>2

(* One value changes: the total changes by as much. *)
LEMMA TotalWithAnother ==
  ASSUME NEW f, NEW g, NEW S, IsFiniteSet(S), NEW x \in S,
         \A y \in S : f[y] \in Nat, \A y \in S : g[y] \in Nat,
         \A y \in S \ {x} : g[y] = f[y]
  PROVE  Total(g, S) = Total(f, S) - f[x] + g[x]
<1>1. IsFiniteSet(S \ {x})
  BY FS_Subset
<1>2. Total(f, S \ {x}) = Total(g, S \ {x})
  BY <1>1, SameTotal
<1>3. Total(f, S \ {x}) \in Nat
  BY <1>1, TotalIsNat
<1>4. Total(f, S) = f[x] + Total(f, S \ {x}) /\ Total(g, S) = g[x] + Total(g, S \ {x})
  BY TotalTakesAny
<1> QED
  BY <1>2, <1>3, <1>4

(* Another index. *)
LEMMA TotalWithOneMore ==
  ASSUME NEW f, NEW S, IsFiniteSet(S), NEW x, x \notin S,
         \A y \in S \cup {x} : f[y] \in Nat
  PROVE  Total(f, S \cup {x}) = Total(f, S) + f[x]
<1>1. IsFiniteSet(S \cup {x})
  BY FS_AddElement
<1>2. (S \cup {x}) \ {x} = S
  OBVIOUS
<1>3. Total(f, S \cup {x}) = f[x] + Total(f, (S \cup {x}) \ {x})
  BY <1>1, TotalTakesAny
<1>4. Total(f, S \cup {x}) = f[x] + Total(f, S)
  BY <1>2, <1>3, Zenon
<1>5. Total(f, S) \in Nat /\ f[x] \in Nat
  BY TotalIsNat
<1> QED
  BY <1>4, <1>5

(* No part is more than the whole. *)
LEMMA TotalCoversEach ==
  ASSUME NEW f, NEW S, IsFiniteSet(S), \A y \in S : f[y] \in Nat, NEW x \in S
  PROVE  f[x] <= Total(f, S)
<1>1. Total(f, S) = f[x] + Total(f, S \ {x})
  BY TotalTakesAny
<1>2. Total(f, S \ {x}) \in Nat
  BY TotalIsNat, FS_Subset
<1> QED
  BY <1>1, <1>2

LEMMA TotalOfPart ==
  ASSUME NEW f, NEW T, IsFiniteSet(T), \A x \in T : f[x] \in Nat, NEW S, S \subseteq T
  PROVE  Total(f, S) <= Total(f, T)
<1> DEFINE D == {U \in SUBSET T : S \subseteq U => Total(f, S) <= Total(f, U)}
<1>1. ASSUME NEW U \in SUBSET T, \A V \in SUBSET U : V # U => V \in D
      PROVE  U \in D
  <2> SUFFICES ASSUME S \subseteq U PROVE Total(f, S) <= Total(f, U)
    OBVIOUS
  <2>1. IsFiniteSet(U) /\ IsFiniteSet(S)
    BY FS_Subset
  <2>2. Total(f, S) \in Nat /\ Total(f, U) \in Nat
    BY <2>1, TotalIsNat
  <2>3. CASE S = U
    BY <2>2, <2>3
  <2>4. CASE S # U
    <3>1. PICK x \in U : x \notin S
      BY <2>4
    <3>2. U \ {x} \in D
      BY <1>1, <3>1
    <3>3. Total(f, S) <= Total(f, U \ {x})
      BY <3>1, <3>2
    <3>4. Total(f, U) = f[x] + Total(f, U \ {x})
      BY <2>1, <3>1, TotalTakesAny
    <3>5. Total(f, U \ {x}) \in Nat /\ f[x] \in Nat
      BY <2>1, <3>1, TotalIsNat, FS_Subset
    <3> QED
      BY <2>2, <3>3, <3>4, <3>5
  <2> QED
    BY <2>3, <2>4
<1>2. T \in D
  <2> HIDE DEF D
  <2>1. SUBSET T \subseteq D
    BY <1>1, SubsetInduction
  <2> QED
    BY <2>1
<1> QED
  BY <1>2

LEMMA TotalOfTheRest ==
  ASSUME NEW f, NEW T, IsFiniteSet(T), \A x \in T : f[x] \in Nat, NEW S, S \subseteq T,
         \A x \in T \ S : f[x] = 0
  PROVE  Total(f, T) = Total(f, S)
<1> DEFINE D == {U \in SUBSET T : S \subseteq U => Total(f, U) = Total(f, S)}
<1>1. ASSUME NEW U \in SUBSET T, \A V \in SUBSET U : V # U => V \in D
      PROVE  U \in D
  <2> SUFFICES ASSUME S \subseteq U, S # U PROVE Total(f, U) = Total(f, S)
    OBVIOUS
  <2>1. PICK x \in U : x \notin S
    OBVIOUS
  <2>2. Total(f, U \ {x}) = Total(f, S)
    BY <1>1, <2>1
  <2>3. Total(f, U) = f[x] + Total(f, U \ {x}) /\ f[x] = 0
    BY <2>1, TotalTakesAny, FS_Subset
  <2>4. Total(f, U \ {x}) \in Nat
    BY TotalIsNat, FS_Subset
  <2> QED
    BY <2>2, <2>3, <2>4
<1>2. T \in D
  <2> HIDE DEF D
  <2>1. SUBSET T \subseteq D
    BY <1>1, SubsetInduction
  <2> QED
    BY <2>1
<1> QED
  BY <1>2

-----------------------------------------------------------------------------
(* The same for the sum of a function over its domain. *)
LEMMA SumIsTotal == \A f : SumFunction(f) = Total(f, DOMAIN f)
BY DEF SumFunction, Total

LEMMA SumIsNat ==
  ASSUME NEW S, IsFiniteSet(S), NEW f \in [S -> Nat]
  PROVE  SumFunction(f) \in Nat
BY SumIsTotal, TotalIsNat

LEMMA SumOfZeros ==
  ASSUME NEW S, IsFiniteSet(S)
  PROVE  SumFunction([x \in S |-> 0]) = 0
BY SumIsTotal, TotalOfZeros

LEMMA SumWithAnother ==
  ASSUME NEW S, IsFiniteSet(S), NEW f \in [S -> Nat], NEW x \in S, NEW v \in Nat
  PROVE  SumFunction([f EXCEPT ![x] = v]) = SumFunction(f) - f[x] + v
<1> DEFINE g == [f EXCEPT ![x] = v]
<1>1. g \in [S -> Nat] /\ g[x] = v /\ \A y \in S \ {x} : g[y] = f[y]
  OBVIOUS
<1> HIDE DEF g
<1>2. Total(g, S) = Total(f, S) - f[x] + g[x]
  BY <1>1, TotalWithAnother
<1>3. SumFunction(f) = Total(f, S) /\ SumFunction(g) = Total(g, S)
  BY <1>1, SumIsTotal
<1> QED
  BY <1>1, <1>2, <1>3 DEF g

LEMMA SumWithOneMore ==
  ASSUME NEW f, NEW g, NEW x, IsFiniteSet(DOMAIN f), x \notin DOMAIN f,
         DOMAIN g = DOMAIN f \cup {x}, \A y \in DOMAIN g : g[y] \in Nat,
         \A y \in DOMAIN f : g[y] = f[y]
  PROVE  SumFunction(g) = SumFunction(f) + g[x]
<1>1. SumFunction(f) = Total(f, DOMAIN f) /\ SumFunction(g) = Total(g, DOMAIN f \cup {x})
  BY SumIsTotal
<1>2. Total(g, DOMAIN f \cup {x}) = Total(g, DOMAIN f) + g[x]
  BY TotalWithOneMore
<1>3. Total(g, DOMAIN f) = Total(f, DOMAIN f)
  BY SameTotal
<1> QED
  BY <1>1, <1>2, <1>3

(* An amount goes from one index to another, or to the same. *)
Moved(f, x, y, n) == [[f EXCEPT ![x] = @ - n] EXCEPT ![y] = @ + n]

LEMMA SumWithMoved ==
  ASSUME NEW S, IsFiniteSet(S), NEW f \in [S -> Nat], NEW x \in S, NEW y \in S,
         NEW n \in Nat, n <= f[x]
  PROVE  Moved(f, x, y, n) \in [S -> Nat] /\ SumFunction(Moved(f, x, y, n)) = SumFunction(f)
<1> DEFINE g == [f EXCEPT ![x] = f[x] - n]
<1>1. f[x] \in Nat /\ f[x] - n \in Nat
  OBVIOUS
<1>2. g \in [S -> Nat] /\ g[y] \in Nat /\ g[y] + n \in Nat
  BY <1>1
<1>3. SumFunction(g) = SumFunction(f) - f[x] + (f[x] - n)
  BY <1>1, SumWithAnother
<1>4. Moved(f, x, y, n) = [g EXCEPT ![y] = g[y] + n]
  BY DEF Moved
<1> HIDE DEF g
<1>5. SumFunction([g EXCEPT ![y] = g[y] + n]) = SumFunction(g) - g[y] + (g[y] + n)
  BY <1>2, SumWithAnother
<1>6. SumFunction(f) \in Nat /\ SumFunction(g) \in Nat
  BY <1>2, SumIsNat
<1>7. [g EXCEPT ![y] = g[y] + n] \in [S -> Nat]
  BY <1>2
<1> QED
  BY <1>1, <1>2, <1>3, <1>4, <1>5, <1>6, <1>7
=============================================================================
