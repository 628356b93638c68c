----------------------------- MODULE SumTheorems -----------------------------
(***************************************************************************)
(* Facts about SumFunctionOnSet of the module Functions, the sum of the    *)
(* values of a function over a finite set. The balances of a user, a token *)
(* or a subscription are such sums over the requests that use them, so the *)
(* proofs about balances need to know what one request's change does to a  *)
(* sum.                                                                    *)
(*                                                                         *)
(* The sum is defined by a recursive function on the subsets of the set.   *)
(* That there is such a function, and that the order in which elements are *)
(* chosen does not matter, is shown by induction over finite sets in the   *)
(* form "a set of counterexamples has a minimal element".                  *)
(***************************************************************************)
EXTENDS Integers, FiniteSets, Functions, FiniteSetTheorems, TLAPS

Pick(S) == CHOOSE x \in S : TRUE

(* The recursive function inside SumFunctionOnSet(f, D). *)
IsSum(g, f, D) ==
    g = [s \in SUBSET D |-> IF s = {} THEN 0 ELSE f[Pick(s)] + g[s \ {Pick(s)}]]

IntOn(f, S) == \A x \in S : f[x] \in Int
SameOn(f, h, S) == \A x \in S : f[x] = h[x]

-----------------------------------------------------------------------------
(* Induction over the subsets of a finite set: a set of subsets that is not
   empty has an element none of whose strict subsets is in it. *)
LEMMA SubsetMinimum ==
  ASSUME NEW S, IsFiniteSet(S), NEW T, T \subseteq SUBSET S, T # {}
  PROVE  \E x \in T : \A y \in T : ~ (y \subseteq x /\ y # x)
<1>1. IsWellFoundedOn(StrictSubsetOrdering(S), FiniteSubsetsOf(S))
  BY FS_StrictSubsetOrderingWellFounded
<1>2. T \subseteq FiniteSubsetsOf(S)
  BY FS_Subset DEF FiniteSubsetsOf
<1>3. PICK x \in T : \A y \in T : ~ (<<y, x>> \in StrictSubsetOrdering(S))
  BY <1>1, <1>2, WFMin, Zenon
<1> QED
  BY <1>3 DEF StrictSubsetOrdering

(* The choice of an element of a set that has one. *)
LEMMA PickIn == ASSUME NEW S, S # {} PROVE Pick(S) \in S
BY DEF Pick

(* The sum is the value of the recursive function at the set itself. *)
LEMMA SumIsChosen ==
  ASSUME NEW f, NEW S
  PROVE  SumFunctionOnSet(f, S) = (CHOOSE g : IsSum(g, f, S))[S]
BY DEF SumFunctionOnSet, FoldFunctionOnSet, MapThenFoldSet, IsSum, Pick

(* Two such functions agree where both are defined, also for functions f and h
   that agree there. *)
LEMMA SumAgree ==
  ASSUME NEW A, NEW B, IsFiniteSet(A), NEW f, NEW h, NEW g, NEW k,
         IsSum(g, f, A), IsSum(k, h, B), SameOn(f, h, A)
  PROVE  \A T \in SUBSET (A \cap B) : g[T] = k[T]
<1> DEFINE Bad == {T \in SUBSET (A \cap B) : g[T] # k[T]}
<1>1. SUFFICES ASSUME Bad # {} PROVE FALSE
  OBVIOUS
<1>2. Bad \subseteq SUBSET A
  OBVIOUS
<1>3. PICK T \in Bad : \A y \in Bad : ~ (y \subseteq T /\ y # T)
  <2> HIDE DEF Bad
  <2> QED BY <1>1, <1>2, SubsetMinimum
<1>4. CASE T = {}
  BY <1>3, <1>4 DEF IsSum
<1>5. CASE T # {}
  <2>1. Pick(T) \in T
    BY <1>5, PickIn
  <2>2. g[T \ {Pick(T)}] = k[T \ {Pick(T)}]
    BY <1>3, <2>1
  <2>3. T \in SUBSET A /\ T \in SUBSET B /\ f[Pick(T)] = h[Pick(T)]
    BY <2>1 DEF SameOn
  <2>4. g[T] = f[Pick(T)] + g[T \ {Pick(T)}]
    BY <1>5, <2>3 DEF IsSum
  <2>5. k[T] = h[Pick(T)] + k[T \ {Pick(T)}]
    BY <1>5, <2>3 DEF IsSum
  <2> QED BY <1>3, <2>2, <2>3, <2>4, <2>5
<1> QED BY <1>4, <1>5

(* There is such a function for every finite set. *)
LEMMA SumExists ==
  ASSUME NEW S, IsFiniteSet(S), NEW f
  PROVE  \E g : IsSum(g, f, S)
<1> DEFINE Bad == {T \in SUBSET S : ~ \E g : IsSum(g, f, T)}
<1>1. SUFFICES ASSUME Bad # {} PROVE FALSE
  OBVIOUS
<1>2. Bad \subseteq SUBSET S
  OBVIOUS
<1>3. PICK D \in Bad : \A y \in Bad : ~ (y \subseteq D /\ y # D)
  <2> HIDE DEF Bad
  <2> QED BY <1>1, <1>2, SubsetMinimum
<1> DEFINE part(T) == CHOOSE g : IsSum(g, f, T)
           at(T) == part(T)[T]
           val(T) == IF T = {} THEN 0 ELSE f[Pick(T)] + at(T \ {Pick(T)})
           g == [T \in SUBSET D |-> IF T = D THEN val(D) ELSE at(T)]
<1>4. ASSUME NEW T \in SUBSET D, T # D PROVE IsSum(part(T), f, T)
  BY <1>3, <1>4
<1>5. ASSUME NEW T \in SUBSET D, T # D PROVE at(T) = val(T)
  <2>1. IsSum(part(T), f, T) /\ IsFiniteSet(T)
    BY <1>4, <1>5, FS_Subset
  <2>2. CASE T = {}
    BY <2>1, <2>2 DEF IsSum
  <2>3. CASE T # {}
    <3> DEFINE p == Pick(T)
    <3>1. p \in T
      BY <2>3, PickIn
    <3>2. IsSum(part(T \ {p}), f, T \ {p})
      BY <1>4, <3>1, <1>5
    <3>3. T \ {p} \in SUBSET (T \cap (T \ {p}))
      OBVIOUS
    <3>4. part(T)[T \ {p}] = part(T \ {p})[T \ {p}]
      <4> HIDE DEF part, p
      <4>1. \A U \in SUBSET (T \cap (T \ {p})) : part(T)[U] = part(T \ {p})[U]
        BY <2>1, <3>2, SumAgree DEF SameOn
      <4> QED BY <3>3, <4>1
    <3>5. part(T)[T] = f[p] + part(T)[T \ {p}]
      <4> HIDE DEF part
      <4> QED BY <2>1, <2>3 DEF IsSum
    <3> QED BY <2>3, <3>4, <3>5
  <2> QED BY <2>2, <2>3
<1>6. \A T \in SUBSET D : g[T] = val(T)
  <2> HIDE DEF at, val
  <2> QED BY <1>5
<1>7. ASSUME NEW T \in SUBSET D, T # {}
      PROVE  g[T \ {Pick(T)}] = at(T \ {Pick(T)})
  <2>1. Pick(T) \in T
    BY <1>7, PickIn
  <2>2. T \ {Pick(T)} \in SUBSET D /\ T \ {Pick(T)} # D
    BY <2>1
  <2> HIDE DEF at, val
  <2> QED BY <2>2
<1>8. \A T \in SUBSET D :
         g[T] = IF T = {} THEN 0 ELSE f[Pick(T)] + g[T \ {Pick(T)}]
  <2> HIDE DEF at, g
  <2> QED BY <1>6, <1>7
<1>9. g = [T \in SUBSET D |-> g[T]]
  <2> HIDE DEF at, val
  <2> QED OBVIOUS
<1>10. IsSum(g, f, D)
  <2> HIDE DEF g
  <2> QED BY <1>8, <1>9 DEF IsSum
<1> QED BY <1>3, <1>10

-----------------------------------------------------------------------------
(* What the proofs about balances use. *)

(* The value of the chosen function at each subset is the sum over that subset. *)
LEMMA SumAt ==
  ASSUME NEW S, IsFiniteSet(S), NEW f, NEW T \in SUBSET S
  PROVE  (CHOOSE g : IsSum(g, f, S))[T] = SumFunctionOnSet(f, T)
<1> DEFINE g == CHOOSE x : IsSum(x, f, S)
           k == CHOOSE x : IsSum(x, f, T)
<1>1. IsFiniteSet(T)
  BY FS_Subset
<1>2. IsSum(g, f, S) /\ IsSum(k, f, T)
  BY <1>1, SumExists
<1>3. k[T] = SumFunctionOnSet(f, T)
  BY SumIsChosen
<1>4. \A U \in SUBSET (S \cap T) : g[U] = k[U]
  <2> HIDE DEF g, k
  <2> QED BY <1>2, SumAgree DEF SameOn
<1>5. g[T] = k[T]
  <2> HIDE DEF g, k
  <2> QED BY <1>4
<1> QED BY <1>3, <1>5

(* The recursion equation. *)
LEMMA SumRecursion ==
  ASSUME NEW S, IsFiniteSet(S), NEW f
  PROVE  SumFunctionOnSet(f, S) =
           IF S = {} THEN 0 ELSE f[Pick(S)] + SumFunctionOnSet(f, S \ {Pick(S)})
<1> DEFINE g == CHOOSE x : IsSum(x, f, S)
<1>1. IsSum(g, f, S)
  BY SumExists
<1>2. g[S] = SumFunctionOnSet(f, S)
  BY SumIsChosen
<1>3. g[S \ {Pick(S)}] = SumFunctionOnSet(f, S \ {Pick(S)})
  BY SumAt
<1>4. g[S] = IF S = {} THEN 0 ELSE f[Pick(S)] + g[S \ {Pick(S)}]
  <2> HIDE DEF g
  <2> QED BY <1>1 DEF IsSum
<1> QED
  <2> HIDE DEF g
  <2> QED BY <1>2, <1>3, <1>4

(* A sum over nothing. *)
LEMMA SumEmpty == \A f : SumFunctionOnSet(f, {}) = 0
BY SumRecursion, FS_EmptySet

(* Functions that agree on the set have the same sum. *)
LEMMA SumEqual ==
  ASSUME NEW S, IsFiniteSet(S), NEW f, NEW h, SameOn(f, h, S)
  PROVE  SumFunctionOnSet(f, S) = SumFunctionOnSet(h, S)
<1> DEFINE g == CHOOSE x : IsSum(x, f, S)
           k == CHOOSE x : IsSum(x, h, S)
<1>1. IsSum(g, f, S) /\ IsSum(k, h, S)
  BY SumExists
<1>2. g[S] = SumFunctionOnSet(f, S) /\ k[S] = SumFunctionOnSet(h, S)
  BY SumIsChosen
<1> HIDE DEF g, k
<1>3. \A U \in SUBSET (S \cap S) : g[U] = k[U]
  BY <1>1, SumAgree
<1> QED BY <1>2, <1>3

(* The sum of integers is an integer. *)
LEMMA SumType ==
  ASSUME NEW S, IsFiniteSet(S), NEW f, IntOn(f, S)
  PROVE  SumFunctionOnSet(f, S) \in Int
<1> DEFINE Bad == {T \in SUBSET S : SumFunctionOnSet(f, T) \notin Int}
<1>1. SUFFICES ASSUME Bad # {} PROVE FALSE
  OBVIOUS
<1>2. Bad \subseteq SUBSET S
  OBVIOUS
<1>3. PICK T \in Bad : \A y \in Bad : ~ (y \subseteq T /\ y # T)
  <2> HIDE DEF Bad
  <2> QED BY <1>1, <1>2, SubsetMinimum
<1>4. T # {}
  <2>1. SumFunctionOnSet(f, {}) \in Int
    BY SumEmpty
  <2> QED BY <1>3, <2>1
<1>5. Pick(T) \in T /\ IsFiniteSet(T)
  BY <1>4, PickIn, FS_Subset
<1>6. SumFunctionOnSet(f, T \ {Pick(T)}) \in Int
  BY <1>3, <1>5
<1>7. SumFunctionOnSet(f, T) = f[Pick(T)] + SumFunctionOnSet(f, T \ {Pick(T)})
  BY <1>4, <1>5, SumRecursion
<1> QED BY <1>3, <1>5, <1>6, <1>7 DEF IntOn

(* Any element may be taken out first. *)
LEMMA SumRemove ==
  ASSUME NEW S, IsFiniteSet(S), NEW f, IntOn(f, S), NEW x \in S
  PROVE  SumFunctionOnSet(f, S) = f[x] + SumFunctionOnSet(f, S \ {x})
<1> DEFINE Sum(T) == SumFunctionOnSet(f, T)
           Good(T) == \A y \in T : Sum(T) = f[y] + Sum(T \ {y})
           Bad == {T \in SUBSET S : ~ Good(T)}
<1>1. SUFFICES ASSUME Bad # {} PROVE FALSE
  BY DEF Good
<1>2. Bad \subseteq SUBSET S
  OBVIOUS
<1>3. PICK T \in Bad : \A y \in Bad : ~ (y \subseteq T /\ y # T)
  <2> HIDE DEF Bad
  <2> QED BY <1>1, <1>2, SubsetMinimum
<1>4. PICK y \in T : Sum(T) # f[y] + Sum(T \ {y})
  BY <1>3
<1> DEFINE p == Pick(T)
<1>5. p \in T /\ IsFiniteSet(T)
  BY PickIn, FS_Subset
<1>6. Sum(T) = f[p] + Sum(T \ {p})
  BY <1>5, SumRecursion
<1>7. y # p
  BY <1>4, <1>6
<1>8. Good(T \ {p}) /\ Good(T \ {y})
  <2>1. T \ {p} \in SUBSET S /\ T \ {y} \in SUBSET S /\ T \ {p} # T /\ T \ {y} # T
    BY <1>5
  <2> HIDE DEF Good, p
  <2> QED BY <1>3, <2>1
<1>9. Sum(T \ {p}) = f[y] + Sum((T \ {p}) \ {y})
  BY <1>7, <1>8
<1>10. Sum(T \ {y}) = f[p] + Sum((T \ {y}) \ {p})
  BY <1>5, <1>7, <1>8
<1>11. (T \ {p}) \ {y} = (T \ {y}) \ {p}
  OBVIOUS
<1>12. f[y] \in Int /\ f[p] \in Int /\ Sum((T \ {p}) \ {y}) \in Int
  <2>1. IsFiniteSet((T \ {p}) \ {y})
    BY <1>5, FS_Subset
  <2>2. IntOn(f, (T \ {p}) \ {y})
    BY DEF IntOn
  <2>3. Sum((T \ {p}) \ {y}) \in Int
    BY <2>1, <2>2, SumType
  <2> QED BY <1>5, <2>3 DEF IntOn
<1> DEFINE rest == Sum((T \ {p}) \ {y})
<1>13. Sum(T) = f[p] + (f[y] + rest) /\ Sum(T \ {y}) = f[p] + rest
  BY <1>6, <1>9, <1>10, <1>11
<1>14. rest \in Int
  BY <1>12
<1> QED
  <2> HIDE DEF Sum, p, rest
  <2> QED BY <1>4, <1>12, <1>13, <1>14

(* An element that joins the set adds its value. *)
LEMMA SumAdd ==
  ASSUME NEW S, IsFiniteSet(S), NEW f, IntOn(f, S), NEW x, x \notin S, f[x] \in Int
  PROVE  SumFunctionOnSet(f, S \cup {x}) = SumFunctionOnSet(f, S) + f[x]
<1>1. IsFiniteSet(S \cup {x}) /\ IntOn(f, S \cup {x}) /\ (S \cup {x}) \ {x} = S
  BY FS_AddElement DEF IntOn
<1>2. SumFunctionOnSet(f, S \cup {x}) = f[x] + SumFunctionOnSet(f, (S \cup {x}) \ {x})
  BY <1>1, SumRemove
<1>3. SumFunctionOnSet(f, S) \in Int
  BY SumType
<1>4. SumFunctionOnSet(f, S \cup {x}) = f[x] + SumFunctionOnSet(f, S)
  BY <1>1, <1>2
<1> QED BY <1>3, <1>4

(* A change of one element's value changes the sum by as much. *)
LEMMA SumChange ==
  ASSUME NEW S, IsFiniteSet(S), NEW f, IntOn(f, S), NEW h, NEW x \in S, h[x] \in Int,
         \A y \in S \ {x} : h[y] = f[y]
  PROVE  SumFunctionOnSet(h, S) = SumFunctionOnSet(f, S) + h[x] - f[x]
<1>1. IntOn(h, S) /\ IntOn(f, S \ {x}) /\ IsFiniteSet(S \ {x})
  BY FS_Subset DEF IntOn
<1>2. SumFunctionOnSet(f, S) = f[x] + SumFunctionOnSet(f, S \ {x})
  BY SumRemove
<1>3. SumFunctionOnSet(h, S) = h[x] + SumFunctionOnSet(h, S \ {x})
  BY <1>1, SumRemove
<1>4. SumFunctionOnSet(h, S \ {x}) = SumFunctionOnSet(f, S \ {x})
  BY <1>1, SumEqual DEF SameOn
<1>5. SumFunctionOnSet(f, S \ {x}) \in Int
  BY <1>1, SumType
<1> QED BY <1>2, <1>3, <1>4, <1>5 DEF IntOn

(* A sum of zeros. *)
LEMMA SumZero ==
  ASSUME NEW S, IsFiniteSet(S), NEW f, \A x \in S : f[x] = 0
  PROVE  SumFunctionOnSet(f, S) = 0
<1> DEFINE Bad == {T \in SUBSET S : SumFunctionOnSet(f, T) # 0}
<1>1. SUFFICES ASSUME Bad # {} PROVE FALSE
  OBVIOUS
<1>2. Bad \subseteq SUBSET S
  OBVIOUS
<1>3. PICK T \in Bad : \A y \in Bad : ~ (y \subseteq T /\ y # T)
  <2> HIDE DEF Bad
  <2> QED BY <1>1, <1>2, SubsetMinimum
<1>4. T # {}
  BY <1>3, SumEmpty
<1>5. Pick(T) \in T /\ IsFiniteSet(T)
  BY <1>4, PickIn, FS_Subset
<1>6. SumFunctionOnSet(f, T \ {Pick(T)}) = 0
  BY <1>3, <1>5
<1>7. SumFunctionOnSet(f, T) = f[Pick(T)] + SumFunctionOnSet(f, T \ {Pick(T)})
  BY <1>4, <1>5, SumRecursion
<1> QED BY <1>3, <1>5, <1>6, <1>7

(* A sum of natural numbers. *)
LEMMA SumNat ==
  ASSUME NEW S, IsFiniteSet(S), NEW f, \A x \in S : f[x] \in Nat
  PROVE  SumFunctionOnSet(f, S) \in Nat
<1> DEFINE Bad == {T \in SUBSET S : SumFunctionOnSet(f, T) \notin Nat}
<1>1. SUFFICES ASSUME Bad # {} PROVE FALSE
  OBVIOUS
<1>2. Bad \subseteq SUBSET S
  OBVIOUS
<1>3. PICK T \in Bad : \A y \in Bad : ~ (y \subseteq T /\ y # T)
  <2> HIDE DEF Bad
  <2> QED BY <1>1, <1>2, SubsetMinimum
<1>4. T # {}
  <2>1. SumFunctionOnSet(f, {}) \in Nat
    BY SumEmpty
  <2> QED BY <1>3, <2>1
<1>5. Pick(T) \in T /\ IsFiniteSet(T)
  BY <1>4, PickIn, FS_Subset
<1>6. SumFunctionOnSet(f, T \ {Pick(T)}) \in Nat
  BY <1>3, <1>5
<1>7. SumFunctionOnSet(f, T) = f[Pick(T)] + SumFunctionOnSet(f, T \ {Pick(T)})
  BY <1>4, <1>5, SumRecursion
<1> QED BY <1>3, <1>5, <1>6, <1>7

(* A sum with one value that is not zero. *)
LEMMA SumOne ==
  ASSUME NEW S, IsFiniteSet(S), NEW f, NEW x \in S, f[x] \in Int, \A y \in S \ {x} : f[y] = 0
  PROVE  SumFunctionOnSet(f, S) = f[x]
<1>1. IntOn(f, S) /\ IsFiniteSet(S \ {x})
  BY FS_Subset DEF IntOn
<1>2. SumFunctionOnSet(f, S) = f[x] + SumFunctionOnSet(f, S \ {x})
  BY <1>1, SumRemove
<1>3. SumFunctionOnSet(f, S \ {x}) = 0
  BY <1>1, SumZero
<1> QED BY <1>2, <1>3
=============================================================================
