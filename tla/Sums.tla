-------------------------------- MODULE Sums --------------------------------
(***************************************************************************)
(* Facts about the sum of a function over a finite set, which money is     *)
(* counted with.  The community modules define SumFunctionOnSet by a       *)
(* recursion that picks the elements one by one; all that is needed of it  *)
(* follows from one equation, SumIsCardinality: the sum is the number of   *)
(* the units the function's values are made of.                            *)
(***************************************************************************)
EXTENDS Integers, FiniteSetsExt, FiniteSetTheorems, WellFoundedInduction, TLAPS

(* f[x] units for every x of S. *)
Units(f, S) == {u \in S \X Nat : 1 <= u[2] /\ u[2] <= f[u[1]]}

Picked(S) == CHOOSE x \in S : TRUE

(* One turn of the recursion, for all the subsets of S at once. *)
Turn(f, S, g) ==
  [T \in SUBSET S |-> IF T = {} THEN 0 ELSE f[Picked(T)] + g[T \ {Picked(T)}]]

Recursion(f, S) == CHOOSE g : g = Turn(f, S, g)

(* Among the subsets of a finite set that share a property there is one    *)
(* none of whose proper subsets has it.                                    *)
LEMMA SmallestSubset ==
  ASSUME NEW S, IsFiniteSet(S), NEW C, C \subseteq SUBSET S, C # {}
  PROVE  \E T \in C : \A U \in C : U \subseteq T => U = T
<1>1. IsWellFoundedOn(StrictSubsetOrdering(S), FiniteSubsetsOf(S))
  BY FS_StrictSubsetOrderingWellFounded
<1>2. C \subseteq FiniteSubsetsOf(S)
  BY FS_Subset DEF FiniteSubsetsOf
<1>3. PICK T \in C : \A U \in C : ~ (<<U, T>> \in StrictSubsetOrdering(S))
  BY <1>1, <1>2, WFMin
<1>4. QED BY <1>3 DEF StrictSubsetOrdering

(* The sum is what the recursion gives. *)
LEMMA SumIsRecursion ==
  ASSUME NEW f, NEW S
  PROVE  SumFunctionOnSet(f, S) = Recursion(f, S)[S]
BY DEF SumFunctionOnSet, FoldFunctionOnSet, MapThenFoldSet, Recursion, Turn, Picked

(* What is picked from a set is in it. *)
LEMMA PickedIn ==
  ASSUME NEW S, S # {}
  PROVE  Picked(S) \in S
BY DEF Picked

(* The units of one element more. *)
LEMMA UnitsOfOneMore ==
  ASSUME NEW f, NEW S, NEW x, x \notin S, f[x] \in Nat, IsFiniteSet(Units(f, S))
  PROVE  /\ IsFiniteSet(Units(f, S \cup {x}))
         /\ Cardinality(Units(f, S \cup {x})) = Cardinality(Units(f, S)) + f[x]
<1> DEFINE own == {x} \X (1 .. f[x])
<1>1. /\ IsFiniteSet({x}) /\ Cardinality({x}) = 1
      /\ IsFiniteSet(1 .. f[x]) /\ Cardinality(1 .. f[x]) = f[x]
  <2>1. IsFiniteSet({x}) /\ Cardinality({x}) = 1
    BY FS_Singleton
  <2>2. /\ IsFiniteSet(1 .. f[x])
        /\ Cardinality(1 .. f[x]) = IF 1 > f[x] THEN 0 ELSE f[x] - 1 + 1
    BY FS_Interval
  <2>3. QED BY <2>1, <2>2
<1>2. IsFiniteSet(own) /\ Cardinality(own) = 1 * f[x]
  BY <1>1, FS_Product
<1>3. Units(f, S \cup {x}) = Units(f, S) \cup own /\ Units(f, S) \cap own = {}
  BY DEF Units
<1>4. Cardinality(Units(f, S)) \in Nat
  BY FS_CardinalityType
<1> HIDE DEF own
<1>5. /\ IsFiniteSet(Units(f, S) \cup own)
      /\ Cardinality(Units(f, S) \cup own) =
           Cardinality(Units(f, S)) + Cardinality(own) - Cardinality(Units(f, S) \cap own)
  BY <1>2, FS_Union
<1>6. Cardinality(Units(f, S) \cap own) = 0
  BY <1>3, FS_EmptySet
<1>7. /\ IsFiniteSet(Units(f, S \cup {x}))
      /\ Cardinality(Units(f, S \cup {x})) =
           Cardinality(Units(f, S)) + Cardinality(own) - Cardinality(Units(f, S) \cap own)
  BY <1>3, <1>5, Zenon
<1>8. QED BY <1>2, <1>4, <1>6, <1>7

(* The units of nothing. *)
LEMMA UnitsOfNone ==
  ASSUME NEW f
  PROVE  IsFiniteSet(Units(f, {})) /\ Cardinality(Units(f, {})) = 0
<1>1. Units(f, {}) = {}
  BY DEF Units
<1>2. QED BY <1>1, FS_EmptySet

(* Finitely many values have finitely many units. *)
LEMMA UnitsFinite ==
  ASSUME NEW f, NEW S, IsFiniteSet(S), \A x \in S : f[x] \in Nat
  PROVE  \A T \in SUBSET S : IsFiniteSet(Units(f, T))
<1> DEFINE C == {T \in SUBSET S : ~ IsFiniteSet(Units(f, T))}
<1> SUFFICES ASSUME C # {} PROVE FALSE
  OBVIOUS
<1>1. PICK T \in C : \A U \in C : U \subseteq T => U = T
  <2>1. C \subseteq SUBSET S
    OBVIOUS
  <2> HIDE DEF C
  <2>2. QED BY <2>1, SmallestSubset
<1>2. T # {}
  BY UnitsOfNone
<1>3. PICK x \in T : TRUE
  BY <1>2
<1>4. IsFiniteSet(Units(f, T \ {x}))
  BY <1>1, <1>3
<1>5. IsFiniteSet(Units(f, (T \ {x}) \cup {x}))
  BY <1>1, <1>3, <1>4, UnitsOfOneMore
<1>6. (T \ {x}) \cup {x} = T
  BY <1>3
<1>7. QED BY <1>1, <1>5, <1>6

(* The sum of a function is the number of its units. *)
LEMMA SumIsCardinality ==
  ASSUME NEW f, NEW S, IsFiniteSet(S), \A x \in S : f[x] \in Nat
  PROVE  SumFunctionOnSet(f, S) = Cardinality(Units(f, S))
<1> DEFINE counts == [T \in SUBSET S |-> Cardinality(Units(f, T))]
           g == Recursion(f, S)
           C == {T \in SUBSET S : g[T] # counts[T]}
<1>1. ASSUME NEW T \in SUBSET S, T # {}
      PROVE  counts[T] = f[Picked(T)] + counts[T \ {Picked(T)}]
  <2>1. Picked(T) \in T /\ f[Picked(T)] \in Nat
    BY <1>1, PickedIn
  <2>2. IsFiniteSet(Units(f, T \ {Picked(T)}))
    BY UnitsFinite
  <2>3. (T \ {Picked(T)}) \cup {Picked(T)} = T
    BY <2>1
  <2>4. Cardinality(Units(f, T)) = Cardinality(Units(f, T \ {Picked(T)})) + f[Picked(T)]
    BY <2>1, <2>2, <2>3, UnitsOfOneMore
  <2>5. Cardinality(Units(f, T \ {Picked(T)})) \in Nat
    BY <2>2, FS_CardinalityType
  <2>6. QED BY <2>1, <2>4, <2>5
<1>2. counts[{}] = 0
  BY UnitsOfNone
<1>3. counts = Turn(f, S, counts)
  BY <1>1, <1>2 DEF Turn
<1>4. g = Turn(f, S, g)
  BY <1>3, Zenon DEF Recursion
<1>5. g[{}] = 0 /\ \A T \in SUBSET S : T # {} => g[T] = f[Picked(T)] + g[T \ {Picked(T)}]
  <2> HIDE DEF g
  <2> QED BY <1>4 DEF Turn
<1>6. C = {}
  <2> SUFFICES ASSUME C # {} PROVE FALSE
    OBVIOUS
  <2> HIDE DEF g, counts
  <2>1. PICK T \in C : \A U \in C : U \subseteq T => U = T
    <3>1. C \subseteq SUBSET S
      OBVIOUS
    <3> HIDE DEF C
    <3>2. QED BY <3>1, SmallestSubset
  <2>2. T # {}
    BY <1>2, <1>5
  <2>3. Picked(T) \in T
    BY <2>2, PickedIn
  <2>4. g[T \ {Picked(T)}] = counts[T \ {Picked(T)}]
    BY <2>1, <2>3
  <2>5. QED BY <1>1, <1>5, <2>1, <2>2, <2>4
<1>7. QED BY <1>6, SumIsRecursion

-----------------------------------------------------------------------------
(* What the proofs about money use. *)

(* A sum of natural numbers is one. *)
LEMMA SumInNat ==
  ASSUME NEW f, NEW S, IsFiniteSet(S), \A x \in S : f[x] \in Nat
  PROVE  SumFunctionOnSet(f, S) \in Nat
BY SumIsCardinality, UnitsFinite, FS_CardinalityType

(* Nothing adds up to nothing. *)
LEMMA SumOfNone ==
  ASSUME NEW f
  PROVE  SumFunctionOnSet(f, {}) = 0
<1>1. IsFiniteSet({})
  BY FS_EmptySet
<1>2. QED BY <1>1, SumIsCardinality, UnitsOfNone

(* Zeros add up to zero. *)
LEMMA SumOfZeros ==
  ASSUME NEW f, NEW S, IsFiniteSet(S), \A x \in S : f[x] = 0
  PROVE  SumFunctionOnSet(f, S) = 0
<1>1. Units(f, S) = {}
  BY DEF Units
<1>2. Cardinality(Units(f, S)) = 0
  BY <1>1, FS_EmptySet
<1>3. QED BY <1>2, SumIsCardinality

(* One element more adds its value. *)
LEMMA SumOfOneMore ==
  ASSUME NEW f, NEW S, IsFiniteSet(S), \A x \in S : f[x] \in Nat,
         NEW x, x \notin S, f[x] \in Nat
  PROVE  SumFunctionOnSet(f, S \cup {x}) = SumFunctionOnSet(f, S) + f[x]
<1>1. IsFiniteSet(S \cup {x})
  BY FS_AddElement
<1>2. SumFunctionOnSet(f, S \cup {x}) = Cardinality(Units(f, S \cup {x}))
  BY <1>1, SumIsCardinality
<1>3. SumFunctionOnSet(f, S) = Cardinality(Units(f, S)) /\ IsFiniteSet(Units(f, S))
  BY SumIsCardinality, UnitsFinite
<1>4. QED BY <1>2, <1>3, UnitsOfOneMore

(* Only the values on the set count. *)
LEMMA SumOfSame ==
  ASSUME NEW f, NEW g, NEW S, IsFiniteSet(S), \A x \in S : f[x] \in Nat /\ g[x] = f[x]
  PROVE  SumFunctionOnSet(g, S) = SumFunctionOnSet(f, S)
<1>1. Units(g, S) = Units(f, S)
  BY DEF Units
<1>2. QED BY <1>1, SumIsCardinality

(* A value that changes changes the sum by as much. *)
LEMMA SumOfChanged ==
  ASSUME NEW f, NEW g, NEW S, IsFiniteSet(S), NEW x \in S,
         \A y \in S : f[y] \in Nat /\ g[y] \in Nat,
         \A y \in S \ {x} : g[y] = f[y]
  PROVE  SumFunctionOnSet(g, S) = SumFunctionOnSet(f, S) - f[x] + g[x]
<1> DEFINE rest == S \ {x}
<1>1. IsFiniteSet(rest) /\ rest \cup {x} = S
  BY FS_RemoveElement
<1>2. SumFunctionOnSet(g, rest) = SumFunctionOnSet(f, rest)
  BY <1>1, SumOfSame
<1>3. /\ SumFunctionOnSet(f, rest \cup {x}) = SumFunctionOnSet(f, rest) + f[x]
      /\ SumFunctionOnSet(g, rest \cup {x}) = SumFunctionOnSet(g, rest) + g[x]
  BY <1>1, SumOfOneMore
<1>4. SumFunctionOnSet(f, rest) \in Nat
  BY <1>1, SumInNat
<1>5. QED BY <1>1, <1>2, <1>3, <1>4

(* No value is more than the sum. *)
LEMMA SumAtLeastOne ==
  ASSUME NEW f, NEW S, IsFiniteSet(S), \A y \in S : f[y] \in Nat, NEW x \in S
  PROVE  f[x] <= SumFunctionOnSet(f, S)
<1> DEFINE rest == S \ {x}
<1>1. IsFiniteSet(rest) /\ rest \cup {x} = S
  BY FS_RemoveElement
<1>2. SumFunctionOnSet(f, rest \cup {x}) = SumFunctionOnSet(f, rest) + f[x]
  BY <1>1, SumOfOneMore
<1>3. SumFunctionOnSet(f, rest) \in Nat
  BY <1>1, SumInNat
<1>4. SumFunctionOnSet(f, S) = SumFunctionOnSet(f, rest) + f[x]
  BY <1>1, <1>2, Zenon
<1>5. QED BY <1>3, <1>4

(* Smaller values have a smaller sum, and the sum of the differences is    *)
(* the difference of the sums.                                             *)
LEMMA SumOfDifferences ==
  ASSUME NEW f, NEW g, NEW h, NEW S, IsFiniteSet(S),
         \A x \in S : f[x] \in Nat /\ g[x] \in Nat /\ g[x] <= f[x] /\ h[x] = f[x] - g[x]
  PROVE  SumFunctionOnSet(h, S) = SumFunctionOnSet(f, S) - SumFunctionOnSet(g, S)
<1> DEFINE Differs(T) == SumFunctionOnSet(h, T) # SumFunctionOnSet(f, T) - SumFunctionOnSet(g, T)
           C == {T \in SUBSET S : Differs(T)}
<1> SUFFICES ASSUME C # {} PROVE FALSE
  OBVIOUS
<1>1. PICK T \in C : \A U \in C : U \subseteq T => U = T
  <2>1. C \subseteq SUBSET S
    OBVIOUS
  <2> HIDE DEF C
  <2>2. QED BY <2>1, SmallestSubset
<1>2. T # {}
  BY SumOfNone
<1>3. PICK x \in T : TRUE
  BY <1>2
<1> DEFINE rest == T \ {x}
<1>4. rest \cup {x} = T /\ IsFiniteSet(rest) /\ rest \in SUBSET S /\ x \notin rest
  BY <1>1, <1>3, FS_Subset
<1>5. SumFunctionOnSet(h, rest) = SumFunctionOnSet(f, rest) - SumFunctionOnSet(g, rest)
  BY <1>1, <1>3, <1>4
<1>6. /\ SumFunctionOnSet(f, rest) \in Nat
      /\ SumFunctionOnSet(g, rest) \in Nat
  BY <1>4, SumInNat
<1>7. /\ SumFunctionOnSet(f, rest \cup {x}) = SumFunctionOnSet(f, rest) + f[x]
      /\ SumFunctionOnSet(g, rest \cup {x}) = SumFunctionOnSet(g, rest) + g[x]
      /\ SumFunctionOnSet(h, rest \cup {x}) = SumFunctionOnSet(h, rest) + h[x]
  <2>1. /\ x \in S
        /\ \A y \in S : f[y] \in Nat /\ g[y] \in Nat /\ h[y] \in Nat
    BY <1>1, <1>3
  <2>2. QED BY <1>4, <2>1, SumOfOneMore
<1>8. f[x] \in Nat /\ g[x] \in Nat /\ h[x] = f[x] - g[x]
  BY <1>1, <1>3
<1>9. ~ Differs(rest \cup {x})
  <2> HIDE DEF rest
  <2> QED BY <1>5, <1>6, <1>7, <1>8
<1>10. ~ Differs(T)
  BY <1>4, <1>9, Zenon
<1>11. QED BY <1>1, <1>10
=============================================================================
