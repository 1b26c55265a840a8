----------------------------- MODULE SumLemmas -----------------------------
(***************************************************************************)
(* What SumFunctionOnSet of the community modules computes: the sum over a *)
(* finite set, whatever the order in which its elements are chosen. The    *)
(* sum is the number of units that the values are made of, and induction   *)
(* over the set is the choice of a smallest subset that fails.             *)
(***************************************************************************)
EXTENDS Integers, Functions, FiniteSetTheorems, WellFoundedInduction, TLAPS

(* Of some subsets of a finite set, one is smallest. *)
LEMMA SmallestSubset ==
  ASSUME NEW S, IsFiniteSet(S), NEW F \in SUBSET SUBSET S, F # {}
  PROVE  \E T \in F : \A U \in F : U \subseteq T => U = T
<1> DEFINE R == StrictSubsetOrdering(S)
<1>1. IsWellFoundedOn(R, FiniteSubsetsOf(S))
  BY FS_StrictSubsetOrderingWellFounded
<1>2. F \subseteq FiniteSubsetsOf(S)
  BY FS_Subset DEF FiniteSubsetsOf
<1>3. PICK T \in F : \A U \in F : ~(<<U, T>> \in R)
  <2> HIDE DEF R
  <2> QED BY <1>1, <1>2, WFMin
<1> QED BY <1>3 DEF StrictSubsetOrdering

(* The units of the values of f on s. *)
SumUnits(f, s) == {u \in s \X Nat : 1 <= u[2] /\ u[2] <= f[u[1]]}

(* One more element, one more interval of units. *)
LEMMA UnitsSplit ==
  ASSUME NEW s, NEW f, NEW x \in s, f[x] \in Nat, IsFiniteSet(SumUnits(f, s \ {x}))
  PROVE  IsFiniteSet(SumUnits(f, s))
         /\ Cardinality(SumUnits(f, s)) = f[x] + Cardinality(SumUnits(f, s \ {x}))
<1> DEFINE A == SumUnits(f, s \ {x})
           B == {x} \X (1..f[x])
<1>1. SumUnits(f, s) = A \cup B /\ A \cap B = {}
  BY DEF SumUnits
<1>2. IsFiniteSet(1..f[x]) /\ Cardinality(1..f[x]) = f[x]
  BY FS_Interval
<1>3. IsFiniteSet({x}) /\ Cardinality({x}) = 1
  BY FS_Singleton
<1>4. IsFiniteSet(B) /\ Cardinality(B) = f[x]
  <2> DEFINE I == 1..f[x]
             E == {x}
  <2>1. IsFiniteSet(I) /\ Cardinality(I) = f[x] /\ IsFiniteSet(E) /\ Cardinality(E) = 1
    BY <1>2, <1>3
  <2> HIDE DEF I, E
  <2>2. IsFiniteSet(E \X I) /\ Cardinality(E \X I) = Cardinality(E) * Cardinality(I)
    BY <2>1, FS_Product
  <2>3. IsFiniteSet(E \X I) /\ Cardinality(E \X I) = f[x]
    BY <2>1, <2>2
  <2> QED BY <2>3 DEF I, E
<1>5. Cardinality(A) \in Nat
  BY FS_CardinalityType
<1> HIDE DEF A, B
<1>6. IsFiniteSet(A \cup B)
      /\ Cardinality(A \cup B) = Cardinality(A) + Cardinality(B) - Cardinality(A \cap B)
  BY <1>4, FS_Union DEF A
<1>7. Cardinality(A \cap B) = 0
  BY <1>1, FS_EmptySet
<1>8. IsFiniteSet(SumUnits(f, s)) /\ Cardinality(SumUnits(f, s)) = f[x] + Cardinality(A)
  BY <1>1, <1>4, <1>5, <1>6, <1>7
<1> QED BY <1>8 DEF A

(* There are finitely many units. *)
LEMMA UnitsFinite ==
  ASSUME NEW S, IsFiniteSet(S), NEW f, \A x \in S : f[x] \in Nat
  PROVE  \A s \in SUBSET S : IsFiniteSet(SumUnits(f, s))
<1> DEFINE F == {s \in SUBSET S : ~IsFiniteSet(SumUnits(f, s))}
<1> SUFFICES ASSUME F # {} PROVE FALSE
  OBVIOUS
<1>1. PICK T \in F : \A U \in F : U \subseteq T => U = T
  <2>1. F \in SUBSET SUBSET S
    OBVIOUS
  <2> HIDE DEF F
  <2> QED BY <2>1, SmallestSubset
<1>2. CASE T = {}
  <2>1. SumUnits(f, T) = {}
    BY <1>2 DEF SumUnits
  <2> QED BY <1>1, <2>1, FS_EmptySet
<1>3. CASE T # {}
  <2>1. PICK x \in T : TRUE
    BY <1>3
  <2>2. IsFiniteSet(SumUnits(f, T \ {x}))
    BY <1>1, <2>1
  <2> QED BY <1>1, <2>1, <2>2, UnitsSplit
<1> QED BY <1>2, <1>3

(* The recursive equation behind the fold of the library. *)
SumStep(g, f, S) == [s \in SUBSET S |-> IF s = {} THEN 0
                       ELSE LET x == CHOOSE x \in s : TRUE IN f[x] + g[s \ {x}]]

(* The sum is what that equation has chosen at the whole set. *)
LEMMA SumIsChosen ==
  ASSUME NEW f, NEW S
  PROVE  SumFunctionOnSet(f, S) = (CHOOSE g : g = SumStep(g, f, S))[S]
BY DEF SumFunctionOnSet, FoldFunctionOnSet, MapThenFoldSet, SumStep

(* The sum is the number of units. *)
LEMMA SumIsUnits ==
  ASSUME NEW S, IsFiniteSet(S), NEW f, \A x \in S : f[x] \in Nat
  PROVE  SumFunctionOnSet(f, S) = Cardinality(SumUnits(f, S))
<1> DEFINE W == [s \in SUBSET S |-> Cardinality(SumUnits(f, s))]
           g == CHOOSE h : h = SumStep(h, f, S)
<1>0. \A s \in SUBSET S : IsFiniteSet(SumUnits(f, s))
  BY UnitsFinite
<1>1. Cardinality(SumUnits(f, {})) = 0
  <2>1. SumUnits(f, {}) = {}
    BY DEF SumUnits
  <2> QED BY <2>1, FS_EmptySet
<1>2. \A s \in SUBSET S : \A x \in s : Cardinality(SumUnits(f, s)) = f[x] + Cardinality(SumUnits(f, s \ {x}))
  <2> TAKE s \in SUBSET S
  <2> TAKE x \in s
  <2>1. IsFiniteSet(SumUnits(f, s \ {x}))
    BY <1>0
  <2> QED BY <2>1, UnitsSplit
<1>3. W = SumStep(W, f, S)
  <2>1. ASSUME NEW s \in SUBSET S, s # {}
        PROVE  LET x == CHOOSE x \in s : TRUE IN W[s] = f[x] + W[s \ {x}]
    <3> DEFINE x == CHOOSE x \in s : TRUE
    <3>1. x \in s
      BY <2>1
    <3> HIDE DEF x
    <3>2. W[s] = f[x] + W[s \ {x}]
      BY <1>2, <3>1
    <3> QED BY <3>2 DEF x
  <2>2. W[{}] = 0
    BY <1>1
  <2> HIDE DEF W
  <2>3. DOMAIN W = SUBSET S /\ W = [s \in SUBSET S |-> W[s]]
    BY DEF W
  <2> QED BY <2>1, <2>2, <2>3 DEF SumStep
<1>4. g = SumStep(g, f, S)
  <2> HIDE DEF W
  <2> QED BY <1>3
<1> HIDE DEF g
<1>5. g[{}] = 0 /\ \A s \in SUBSET S : s # {} => \E x \in s : g[s] = f[x] + g[s \ {x}]
  <2>1. g[{}] = 0
    BY <1>4 DEF SumStep
  <2>2. ASSUME NEW s \in SUBSET S, s # {} PROVE \E x \in s : g[s] = f[x] + g[s \ {x}]
    <3> DEFINE x == CHOOSE x \in s : TRUE
    <3>1. x \in s
      BY <2>2
    <3>2. g[s] = f[x] + g[s \ {x}]
      BY <1>4, <2>2 DEF SumStep
    <3> QED BY <3>1, <3>2
  <2> QED BY <2>1, <2>2
<1>6. \A s \in SUBSET S : g[s] = Cardinality(SumUnits(f, s))
  <2> DEFINE F == {s \in SUBSET S : g[s] # Cardinality(SumUnits(f, s))}
  <2> SUFFICES ASSUME F # {} PROVE FALSE
    OBVIOUS
  <2>1. PICK T \in F : \A U \in F : U \subseteq T => U = T
    <3>1. F \in SUBSET SUBSET S
      OBVIOUS
    <3> HIDE DEF F
    <3> QED BY <3>1, SmallestSubset
  <2>2. T # {}
    BY <1>1, <1>5, <2>1
  <2>3. PICK x \in T : g[T] = f[x] + g[T \ {x}]
    BY <1>5, <2>1, <2>2
  <2>4. g[T \ {x}] = Cardinality(SumUnits(f, T \ {x}))
    BY <2>1, <2>3
  <2> QED BY <1>2, <2>1, <2>3, <2>4
<1> QED BY <1>6, SumIsChosen DEF g

-----------------------------------------------------------------------------
(* What the proofs about the models cite.                                  *)

(* The sum of no values is 0, and an element adds its value. *)
LEMMA SumAdds ==
  ASSUME NEW S, IsFiniteSet(S), NEW f, \A y \in S : f[y] \in Nat, NEW x \in S
  PROVE  SumFunctionOnSet(f, S) = f[x] + SumFunctionOnSet(f, S \ {x})
<1>1. IsFiniteSet(S \ {x})
  BY FS_RemoveElement
<1>2. IsFiniteSet(SumUnits(f, S \ {x}))
  BY UnitsFinite
<1> QED BY <1>1, <1>2, SumIsUnits, UnitsSplit

(* The sum of no values is 0. *)
LEMMA SumOfNone ==
  ASSUME NEW f
  PROVE  SumFunctionOnSet(f, {}) = 0
<1>1. IsFiniteSet({}) /\ Cardinality({}) = 0
  BY FS_EmptySet
<1>2. SumUnits(f, {}) = {}
  BY DEF SumUnits
<1> QED BY <1>1, <1>2, SumIsUnits

(* The sum is a natural number. *)
LEMMA SumTyped ==
  ASSUME NEW S, IsFiniteSet(S), NEW f, \A x \in S : f[x] \in Nat
  PROVE  SumFunctionOnSet(f, S) \in Nat
<1>1. IsFiniteSet(SumUnits(f, S))
  BY UnitsFinite
<1> QED BY <1>1, SumIsUnits, FS_CardinalityType

(* Larger values, or more of them, have a larger sum. *)
LEMMA SumGrows ==
  ASSUME NEW T, IsFiniteSet(T), NEW S \in SUBSET T, NEW f, NEW g,
         \A x \in T : g[x] \in Nat, \A x \in S : f[x] \in Nat /\ f[x] <= g[x]
  PROVE  SumFunctionOnSet(f, S) <= SumFunctionOnSet(g, T)
<1>1. IsFiniteSet(S)
  BY FS_Subset
<1>2. SumUnits(f, S) \subseteq SumUnits(g, T)
  BY DEF SumUnits
<1>3. IsFiniteSet(SumUnits(g, T))
  BY UnitsFinite
<1>4. Cardinality(SumUnits(f, S)) <= Cardinality(SumUnits(g, T))
  BY <1>2, <1>3, FS_Subset
<1> QED BY <1>1, <1>4, SumIsUnits

(* The sum depends on the values only. *)
LEMMA SumSame ==
  ASSUME NEW S, IsFiniteSet(S), NEW f, NEW g, \A x \in S : f[x] \in Nat /\ g[x] = f[x]
  PROVE  SumFunctionOnSet(f, S) = SumFunctionOnSet(g, S)
<1>1. SumUnits(f, S) = SumUnits(g, S)
  BY DEF SumUnits
<1>2. \A x \in S : g[x] \in Nat
  OBVIOUS
<1> QED BY <1>1, <1>2, SumIsUnits

(* One value changes. *)
LEMMA SumChanges ==
  ASSUME NEW S, IsFiniteSet(S), NEW f, NEW g, NEW x \in S,
         \A y \in S : f[y] \in Nat /\ g[y] \in Nat, \A y \in S \ {x} : g[y] = f[y]
  PROVE  SumFunctionOnSet(g, S) = SumFunctionOnSet(f, S) + g[x] - f[x]
<1>1. IsFiniteSet(S \ {x})
  BY FS_RemoveElement
<1>2. SumFunctionOnSet(f, S \ {x}) = SumFunctionOnSet(g, S \ {x})
  BY <1>1, SumSame
<1>3. SumFunctionOnSet(f, S \ {x}) \in Nat
  BY <1>1, SumTyped
<1>4. /\ SumFunctionOnSet(f, S) = f[x] + SumFunctionOnSet(f, S \ {x})
      /\ SumFunctionOnSet(g, S) = g[x] + SumFunctionOnSet(g, S \ {x})
  BY SumAdds
<1> QED BY <1>2, <1>3, <1>4

(* One value counts one more. *)
LEMMA SumOneMore ==
  ASSUME NEW S, IsFiniteSet(S), NEW f, NEW g, NEW x \in S, \A y \in S : f[y] \in Nat,
         \A y \in S : g[y] = IF y = x THEN f[y] + 1 ELSE f[y]
  PROVE  SumFunctionOnSet(g, S) = SumFunctionOnSet(f, S) + 1
<1>1. IsFiniteSet(S \ {x})
  BY FS_RemoveElement
<1>2. \A y \in S : g[y] \in Nat
  OBVIOUS
<1>3. SumFunctionOnSet(f, S \ {x}) = SumFunctionOnSet(g, S \ {x})
  BY <1>1, SumSame
<1>4. SumFunctionOnSet(f, S \ {x}) \in Nat
  BY <1>1, SumTyped
<1>5. /\ SumFunctionOnSet(f, S) = f[x] + SumFunctionOnSet(f, S \ {x})
      /\ SumFunctionOnSet(g, S) = g[x] + SumFunctionOnSet(g, S \ {x})
  BY <1>2, SumAdds
<1> QED BY <1>3, <1>4, <1>5

(* Only the values that are not zero count. *)
LEMMA SumOfSupport ==
  ASSUME NEW T, IsFiniteSet(T), NEW S \in SUBSET T, NEW f,
         \A x \in T : f[x] \in Nat, \A x \in T \ S : f[x] = 0
  PROVE  SumFunctionOnSet(f, T) = SumFunctionOnSet(f, S)
<1>1. IsFiniteSet(S)
  BY FS_Subset
<1>2. SumUnits(f, T) = SumUnits(f, S)
  BY DEF SumUnits
<1> QED BY <1>1, <1>2, SumIsUnits

(* The same value everywhere. *)
LEMMA SumOfSame ==
  ASSUME NEW S, IsFiniteSet(S), NEW f, NEW c \in Nat, \A x \in S : f[x] = c
  PROVE  SumFunctionOnSet(f, S) = Cardinality(S) * c
<1>1. SumUnits(f, S) = S \X (1..c)
  BY DEF SumUnits
<1>2. IsFiniteSet(1..c) /\ Cardinality(1..c) = c
  BY FS_Interval
<1>3. Cardinality(S \X (1..c)) = Cardinality(S) * c
  BY <1>2, FS_Product
<1> QED BY <1>1, <1>3, SumIsUnits

(* Values of zero everywhere. *)
LEMMA SumOfZeros ==
  ASSUME NEW S, IsFiniteSet(S), NEW f, \A x \in S : f[x] = 0
  PROVE  SumFunctionOnSet(f, S) = 0
<1>1. SumUnits(f, S) = {}
  BY DEF SumUnits
<1>2. \A x \in S : f[x] \in Nat
  OBVIOUS
<1> QED BY <1>1, <1>2, SumIsUnits, FS_EmptySet
=============================================================================
