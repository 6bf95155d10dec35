----------------------------- MODULE SumTheorems -----------------------------
(***************************************************************************)
(* Facts about SumFunctionOnSet(f, S), the sum of f[x] over a finite set S *)
(* of the module Functions, with which the components add up lines,        *)
(* allocations, invoices and entries.                                      *)
(*                                                                         *)
(* The sum is a fold by a recursive function that always takes away the    *)
(* element CHOOSE picks.  That such a function exists, and that the order  *)
(* does not matter, are inductions over the size of the set.  They are     *)
(* done by the principle FiniteInduction, in which what holds of a set is  *)
(* membership in a set of sets, so that it can be cited like any fact.     *)
(***************************************************************************)
EXTENDS Integers, FiniteSets, Functions, FiniteSetTheorems, WellFoundedInduction, TLAPS

\* What holds of a set whenever it holds of its strict subsets holds of every finite
\* set.
THEOREM SubsetInduction ==
    ASSUME NEW S, IsFiniteSet(S), NEW Good,
           \A T \in SUBSET S : (\A U \in SUBSET T : U # T => U \in Good) => T \in Good
    PROVE  S \in Good
  <1> SUFFICES ASSUME S \notin Good PROVE FALSE
    OBVIOUS
  <1> DEFINE Less == {ss \in Nat \X Nat : ss[1] < ss[2]}
             Sizes == {n \in Nat : \E T \in SUBSET S : T \notin Good /\ Cardinality(T) = n}
  <1>1. IsWellFoundedOn(Less, Nat)
    BY NatLessThanWellFounded DEF OpToRel
  <1>2. Cardinality(S) \in Sizes
    BY FS_CardinalityType
  <1> HIDE DEF Less
  <1>3. \E n \in Sizes : \A m \in Sizes : ~ (<<m, n>> \in Less)
    <2>1. Sizes \subseteq Nat /\ Sizes # {}
      BY <1>2
    <2> HIDE DEF Sizes
    <2> QED
      BY ONLY <1>1, <2>1, WFMin
  <1>4. PICK n \in Sizes : \A m \in Sizes : ~ (m < n)
    BY <1>3 DEF Less
  <1>5. PICK T \in SUBSET S : T \notin Good /\ Cardinality(T) = n
    BY <1>4
  <1>6. PICK U \in SUBSET T : U # T /\ U \notin Good
    BY <1>5
  <1>7. Cardinality(U) \in Nat /\ Cardinality(U) < n
    <2>1. IsFiniteSet(T) /\ IsFiniteSet(U)
      BY FS_Subset
    <2>2. Cardinality(U) <= Cardinality(T) /\ Cardinality(U) # Cardinality(T)
      BY <1>6, <2>1, FS_Subset
    <2>3. Cardinality(U) \in Nat
      BY <2>1, FS_CardinalityType
    <2> QED
      BY <1>5, <2>2, <2>3
  <1> QED
    BY <1>4, <1>6, <1>7

\* What holds of the empty set, and of a set with one more element, holds of every
\* finite set.
THEOREM FiniteInduction ==
    ASSUME NEW S, IsFiniteSet(S), NEW Good, {} \in Good,
           \A T \in SUBSET S : \A x \in S \ T : T \in Good => T \union {x} \in Good
    PROVE  S \in Good
  <1>1. ASSUME NEW T \in SUBSET S, \A U \in SUBSET T : U # T => U \in Good PROVE T \in Good
    <2> SUFFICES ASSUME NEW x \in T PROVE T \in Good
      OBVIOUS
    <2>1. T \ {x} \in Good /\ x \in S \ (T \ {x})
      BY <1>1
    <2>2. (T \ {x}) \union {x} = T
      OBVIOUS
    <2> QED
      BY <2>1, <2>2
  <1> QED
    BY <1>1, SubsetInduction

\* The image of a finite set is finite.
THEOREM ImageIsFinite ==
    ASSUME NEW S, IsFiniteSet(S), NEW f
    PROVE  IsFiniteSet({f[x] : x \in S})
  <1> DEFINE Good == {s \in SUBSET S : IsFiniteSet({f[x] : x \in s})}
  <1>1. {} \in Good
    <2>1. {f[x] : x \in {}} = {}
      OBVIOUS
    <2> QED
      BY <2>1, FS_EmptySet
  <1>2. ASSUME NEW s \in SUBSET S, NEW x \in S \ s, s \in Good PROVE s \union {x} \in Good
    <2>1. {f[y] : y \in s \union {x}} = {f[y] : y \in s} \union {f[x]}
      OBVIOUS
    <2>2. IsFiniteSet({f[y] : y \in s} \union {f[x]})
      <3>1. IsFiniteSet({f[y] : y \in s})
        BY <1>2
      <3> QED
        BY ONLY <3>1, FS_AddElement
    <2>3. IsFiniteSet({f[y] : y \in s \union {x}})
      BY <2>1, <2>2
    <2> QED
      BY <2>3
  <1>3. S \in Good
    <2> HIDE DEF Good
    <2> QED
      BY <1>1, <1>2, FiniteInduction
  <1> QED
    BY <1>3

-----------------------------------------------------------------------------
(* The recursive function behind a sum *)

\* The element a fold takes next.
NextOf(s) == CHOOSE x \in s : TRUE

\* g folds f over all subsets of S.
IsFold(f, S, g) ==
    g = [s \in SUBSET S |-> IF s = {} THEN 0 ELSE f[NextOf(s)] + g[s \ {NextOf(s)}]]

TheFold(f, S) == CHOOSE g : IsFold(f, S, g)

LEMMA SumIsTheFold == ASSUME NEW f, NEW S PROVE SumFunctionOnSet(f, S) = TheFold(f, S)[S]
  BY DEF SumFunctionOnSet, FoldFunctionOnSet, MapThenFoldSet, TheFold, IsFold, NextOf

LEMMA NextIsIn == ASSUME NEW s, s # {} PROVE NextOf(s) \in s
  BY DEF NextOf

\* Two folds agree where both are defined.
LEMMA FoldsAgree ==
    ASSUME NEW f, NEW S, IsFiniteSet(S), NEW T, S \subseteq T,
           NEW g, IsFold(f, S, g), NEW h, IsFold(f, T, h)
    PROVE  g[S] = h[S]
  <1> DEFINE Good == {s \in SUBSET S : g[s] = h[s]}
  <1>1. ASSUME NEW s \in SUBSET S, \A u \in SUBSET s : u # s => u \in Good PROVE s \in Good
    <2>1. CASE s = {}
      BY <2>1 DEF IsFold
    <2>2. CASE s # {}
      <3>1. s \ {NextOf(s)} \in Good
        BY <1>1, <2>2, NextIsIn
      <3>2. g[s] = f[NextOf(s)] + g[s \ {NextOf(s)}]
        BY <2>2 DEF IsFold
      <3>3. h[s] = f[NextOf(s)] + h[s \ {NextOf(s)}]
        BY <2>2 DEF IsFold
      <3> QED
        BY <3>1, <3>2, <3>3
    <2> QED
      BY <2>1, <2>2
  <1>2. S \in Good
    <2> HIDE DEF Good
    <2> QED
      BY <1>1, SubsetInduction
  <1> QED
    BY <1>2

\* The fold of S is made of the folds of its subsets.
LEMMA FoldExists == ASSUME NEW f, NEW S, IsFiniteSet(S) PROVE IsFold(f, S, TheFold(f, S))
  <1> DEFINE Good == {s \in SUBSET S : IsFold(f, s, TheFold(f, s))}
  <1>1. ASSUME NEW s \in SUBSET S, \A u \in SUBSET s : u # s => u \in Good PROVE s \in Good
    <2> DEFINE Value(t) == IF t = {} THEN 0
                           ELSE f[NextOf(t)] + TheFold(f, t \ {NextOf(t)})[t \ {NextOf(t)}]
               g == [t \in SUBSET s |-> Value(t)]
    <2>1. ASSUME NEW t \in SUBSET s, t # {}
          PROVE  TheFold(f, t \ {NextOf(t)})[t \ {NextOf(t)}] = Value(t \ {NextOf(t)})
      <3> DEFINE u == t \ {NextOf(t)}
                 v == u \ {NextOf(u)}
      <3>1. IsFold(f, u, TheFold(f, u))
        BY <1>1, <2>1, NextIsIn
      <3>2. CASE u = {}
        BY <3>1, <3>2 DEF IsFold
      <3>3. CASE u # {}
        <4>1. TheFold(f, u)[u] = f[NextOf(u)] + TheFold(f, u)[v]
          BY <3>1, <3>3 DEF IsFold
        <4>2. IsFold(f, v, TheFold(f, v)) /\ IsFiniteSet(v) /\ v \subseteq u
          <5>1. v \in SUBSET s /\ v # s
            BY <2>1, NextIsIn
          <5> QED
            BY <1>1, <5>1, FS_Subset
        <4>3. TheFold(f, v)[v] = TheFold(f, u)[v]
          BY <3>1, <4>2, FoldsAgree
        <4> QED
          BY <3>3, <4>1, <4>3
      <3> QED
        BY <3>2, <3>3
    <2>2. IsFold(f, s, g)
      <3> SUFFICES ASSUME NEW t \in SUBSET s
                   PROVE  Value(t) = IF t = {} THEN 0 ELSE f[NextOf(t)] + g[t \ {NextOf(t)}]
        BY DEF IsFold
      <3> QED
        BY <2>1
    <2> HIDE DEF g
    <2>3. IsFold(f, s, TheFold(f, s))
      BY <2>2 DEF TheFold
    <2> QED
      BY <2>3
  <1>2. S \in Good
    <2> HIDE DEF Good
    <2> QED
      BY <1>1, SubsetInduction
  <1> QED
    BY <1>2

\* A sum is that of one element and of the others; of which one, CHOOSE decides.
LEMMA SumTakesNext ==
    ASSUME NEW f, NEW S, IsFiniteSet(S)
    PROVE  SumFunctionOnSet(f, S) =
               IF S = {} THEN 0
               ELSE f[NextOf(S)] + SumFunctionOnSet(f, S \ {NextOf(S)})
  <1> DEFINE T == S \ {NextOf(S)}
  <1>1. IsFold(f, S, TheFold(f, S)) /\ IsFold(f, T, TheFold(f, T)) /\ IsFiniteSet(T)
    BY FoldExists, FS_Subset
  <1>2. TheFold(f, S)[S] = IF S = {} THEN 0 ELSE f[NextOf(S)] + TheFold(f, S)[T]
    BY <1>1 DEF IsFold
  <1>3. TheFold(f, T)[T] = TheFold(f, S)[T]
    BY <1>1, FoldsAgree
  <1> QED
    BY <1>2, <1>3, SumIsTheFold

-----------------------------------------------------------------------------
(* The facts to cite *)

\* Nothing adds up to zero.
THEOREM SumOfNone == ASSUME NEW f PROVE SumFunctionOnSet(f, {}) = 0
  BY FS_EmptySet, SumTakesNext

\* Only the values on S matter.
THEOREM SumOfEqual ==
    ASSUME NEW S, IsFiniteSet(S), NEW f, NEW g, \A x \in S : f[x] = g[x]
    PROVE  SumFunctionOnSet(f, S) = SumFunctionOnSet(g, S)
  <1> DEFINE Good == {s \in SUBSET S : SumFunctionOnSet(f, s) = SumFunctionOnSet(g, s)}
  <1>1. ASSUME NEW s \in SUBSET S, \A u \in SUBSET s : u # s => u \in Good PROVE s \in Good
    <2>1. IsFiniteSet(s)
      BY FS_Subset
    <2>2. s # {} => NextOf(s) \in s /\ s \ {NextOf(s)} \in Good
      BY <1>1, NextIsIn
    <2> QED
      BY <2>1, <2>2, SumTakesNext
  <1> HIDE DEF Good
  <1>2. S \in Good
    BY <1>1, SubsetInduction
  <1> QED
    BY <1>2 DEF Good

\* A sum of integers is an integer, and any element can be taken out of it.
LEMMA SumIsAnyOneFirst ==
    ASSUME NEW S, IsFiniteSet(S), NEW f, \A x \in S : f[x] \in Int
    PROVE  /\ SumFunctionOnSet(f, S) \in Int
           /\ \A x \in S : SumFunctionOnSet(f, S) = f[x] + SumFunctionOnSet(f, S \ {x})
  <1> DEFINE Total(s) == SumFunctionOnSet(f, s)
             Good == {s \in SUBSET S : /\ Total(s) \in Int
                                       /\ \A x \in s : Total(s) = f[x] + Total(s \ {x})}
  <1> HIDE DEF Total
  <1>1. ASSUME NEW s \in SUBSET S, \A u \in SUBSET s : u # s => u \in Good PROVE s \in Good
    <2>1. Total(s) = IF s = {} THEN 0 ELSE f[NextOf(s)] + Total(s \ {NextOf(s)})
      BY FS_Subset, SumTakesNext DEF Total
    <2>2. CASE s = {}
      BY <2>1, <2>2
    <2>3. CASE s # {}
      <3> DEFINE y == NextOf(s)
      <3>1. y \in s
        BY <2>3, NextIsIn
      <3> HIDE DEF y
      <3>2. \A x \in s : Total(s \ {x}) \in Int
        BY <1>1
      <3>3. Total(s) = f[y] + Total(s \ {y}) /\ Total(s) \in Int
        BY <2>1, <2>3, <3>1, <3>2 DEF y
      <3>4. ASSUME NEW x \in s, x # y PROVE Total(s) = f[x] + Total(s \ {x})
        <4>1. Total(s \ {y}) = f[x] + Total((s \ {y}) \ {x})
          BY <1>1, <3>1, <3>4
        <4>2. Total(s \ {x}) = f[y] + Total((s \ {x}) \ {y})
          BY <1>1, <3>1, <3>4
        <4>3. (s \ {y}) \ {x} = (s \ {x}) \ {y}
          OBVIOUS
        <4>4. Total((s \ {x}) \ {y}) \in Int
          <5>1. (s \ {x}) \ {y} # s
            BY <3>1
          <5> QED
            BY <1>1, <5>1
        <4>5. f[x] \in Int /\ f[y] \in Int
          BY <3>1
        <4>6. Total(s \ {y}) = f[x] + Total((s \ {x}) \ {y})
          BY <4>1, <4>3
        <4> QED
          BY ONLY <3>3, <4>2, <4>4, <4>5, <4>6
      <3> QED
        BY <3>3, <3>4
    <2> QED
      BY <2>2, <2>3
  <1>2. S \in Good
    <2> HIDE DEF Good
    <2> QED
      BY <1>1, SubsetInduction
  <1> QED
    BY <1>2 DEF Total

THEOREM SumIsInt ==
    ASSUME NEW S, IsFiniteSet(S), NEW f, \A x \in S : f[x] \in Int
    PROVE  SumFunctionOnSet(f, S) \in Int
  BY SumIsAnyOneFirst

\* A sum is that of any one element and of the others.
THEOREM SumWithout ==
    ASSUME NEW S, IsFiniteSet(S), NEW f, \A x \in S : f[x] \in Int, NEW x \in S
    PROVE  SumFunctionOnSet(f, S) = f[x] + SumFunctionOnSet(f, S \ {x})
  BY SumIsAnyOneFirst

\* One element more.
THEOREM SumWith ==
    ASSUME NEW S, IsFiniteSet(S), NEW f, NEW x, x \notin S,
           \A y \in S \union {x} : f[y] \in Int
    PROVE  SumFunctionOnSet(f, S \union {x}) = f[x] + SumFunctionOnSet(f, S)
  <1>1. IsFiniteSet(S \union {x})
    BY FS_AddElement
  <1>2. (S \union {x}) \ {x} = S
    OBVIOUS
  <1> QED
    BY <1>1, <1>2, SumWithout

\* The sum of one element.
THEOREM SumOfOne == ASSUME NEW f, NEW x, f[x] \in Int PROVE SumFunctionOnSet(f, {x}) = f[x]
  <1>1. SumFunctionOnSet(f, {} \union {x}) = f[x] + SumFunctionOnSet(f, {})
    BY FS_EmptySet, SumWith
  <1>2. {} \union {x} = {x}
    OBVIOUS
  <1> QED
    BY <1>1, <1>2, SumOfNone

\* Two sets that do not meet.
THEOREM SumOfUnion ==
    ASSUME NEW S, IsFiniteSet(S), NEW T, IsFiniteSet(T), S \intersect T = {},
           NEW f, \A x \in S \union T : f[x] \in Int
    PROVE  SumFunctionOnSet(f, S \union T) = SumFunctionOnSet(f, S) + SumFunctionOnSet(f, T)
  <1> DEFINE Total(s) == SumFunctionOnSet(f, s)
             Good == {s \in SUBSET T : Total(S \union s) = Total(S) + Total(s)}
  <1> HIDE DEF Total
  <1>1. {} \in Good
    <2>1. S \union {} = S
      OBVIOUS
    <2> QED
      BY <2>1, SumOfNone, SumIsInt DEF Total
  <1>2. ASSUME NEW s \in SUBSET T, NEW x \in T \ s, s \in Good PROVE s \union {x} \in Good
    <2>1. IsFiniteSet(s) /\ IsFiniteSet(S \union s)
      BY FS_Subset, FS_Union
    <2>2. Total(s \union {x}) = f[x] + Total(s)
      BY <2>1, SumWith DEF Total
    <2>3. Total((S \union s) \union {x}) = f[x] + Total(S \union s)
      BY <2>1, SumWith DEF Total
    <2>4. Total(S \union (s \union {x})) = Total((S \union s) \union {x})
      <3>1. (S \union s) \union {x} = S \union (s \union {x})
        OBVIOUS
      <3> QED
        BY <3>1
    <2>5. Total(S) \in Int /\ Total(s) \in Int /\ f[x] \in Int
      BY <2>1, SumIsInt DEF Total
    <2>6. Total(S \union s) = Total(S) + Total(s)
      BY <1>2
    <2>7. Total(S \union (s \union {x})) = Total(S) + Total(s \union {x})
      BY ONLY <2>2, <2>3, <2>4, <2>5, <2>6
    <2> QED
      BY <2>7
  <1>3. T \in Good
    <2> HIDE DEF Good
    <2> QED
      BY <1>1, <1>2, FiniteInduction
  <1> QED
    BY <1>3 DEF Total

\* Zeros do not count.
THEOREM SumOfZeros ==
    ASSUME NEW S, IsFiniteSet(S), NEW T \in SUBSET S, NEW f,
           \A x \in T : f[x] \in Int, \A x \in S \ T : f[x] = 0
    PROVE  SumFunctionOnSet(f, S) = SumFunctionOnSet(f, T)
  <1> DEFINE Good == {s \in SUBSET (S \ T) : SumFunctionOnSet(f, s) = 0}
  <1>1. {} \in Good
    BY SumOfNone
  <1>2. ASSUME NEW s \in SUBSET (S \ T), NEW x \in (S \ T) \ s, s \in Good
        PROVE  s \union {x} \in Good
    <2>1. IsFiniteSet(s) /\ \A y \in s \union {x} : f[y] \in Int
      BY FS_Subset
    <2>2. SumFunctionOnSet(f, s \union {x}) = f[x] + SumFunctionOnSet(f, s)
      BY <2>1, SumWith
    <2>3. SumFunctionOnSet(f, s) = 0 /\ f[x] = 0
      BY <1>2
    <2>4. SumFunctionOnSet(f, s \union {x}) = 0
      BY ONLY <2>2, <2>3
    <2> QED
      BY <2>4
  <1>3. IsFiniteSet(S \ T) /\ IsFiniteSet(T)
    BY FS_Subset
  <1>4. S \ T \in Good
    <2> HIDE DEF Good
    <2> QED
      BY <1>1, <1>2, <1>3, FiniteInduction
  <1>5. T \union (S \ T) = S
    OBVIOUS
  <1>6. \A x \in T \union (S \ T) : f[x] \in Int
    OBVIOUS
  <1>7. SumFunctionOnSet(f, T) \in Int
    BY <1>3, SumIsInt
  <1> QED
    BY <1>3, <1>4, <1>5, <1>6, <1>7, SumOfUnion

\* A one-to-one change of the indices.
THEOREM SumRenamed ==
    ASSUME NEW S, IsFiniteSet(S), NEW f, \A x \in S : f[x] \in Int,
           NEW g, NEW to, \A x \in S : g[to[x]] = f[x],
           \A x, y \in S : to[x] = to[y] => x = y
    PROVE  SumFunctionOnSet(f, S) = SumFunctionOnSet(g, {to[x] : x \in S})
  <1> DEFINE Image(s) == {to[x] : x \in s}
             Good == {s \in SUBSET S : /\ IsFiniteSet(Image(s))
                                       /\ SumFunctionOnSet(f, s) = SumFunctionOnSet(g, Image(s))}
  <1>1. {} \in Good
    <2>1. Image({}) = {}
      OBVIOUS
    <2> QED
      BY <2>1, SumOfNone, FS_EmptySet
  <1>2. ASSUME NEW s \in SUBSET S, NEW x \in S \ s, s \in Good PROVE s \union {x} \in Good
    <2>1. IsFiniteSet(s)
      BY FS_Subset
    <2>2. Image(s \union {x}) = Image(s) \union {to[x]}
      OBVIOUS
    <2>3. to[x] \notin Image(s)
      OBVIOUS
    <2>4. \A y \in Image(s) \union {to[x]} : g[y] \in Int
      OBVIOUS
    <2>5. IsFiniteSet(Image(s)) /\ IsFiniteSet(Image(s) \union {to[x]})
      BY <1>2, FS_AddElement
    <2> HIDE DEF Image
    <2>6. SumFunctionOnSet(g, Image(s) \union {to[x]}) = g[to[x]] + SumFunctionOnSet(g, Image(s))
      BY <2>3, <2>4, <2>5, SumWith
    <2>7. SumFunctionOnSet(f, s \union {x}) = f[x] + SumFunctionOnSet(f, s)
      BY <2>1, SumWith
    <2> QED
      BY <1>2, <2>2, <2>5, <2>6, <2>7
  <1>3. S \in Good
    <2> HIDE DEF Good
    <2> QED
      BY <1>1, <1>2, FiniteInduction
  <1> QED
    BY <1>3

\* The sum of a sum is the sum of the sums.
THEOREM SumOfSum ==
    ASSUME NEW S, IsFiniteSet(S), NEW f, NEW g, NEW h,
           \A x \in S : f[x] \in Int /\ g[x] \in Int /\ h[x] = f[x] + g[x]
    PROVE  SumFunctionOnSet(h, S) = SumFunctionOnSet(f, S) + SumFunctionOnSet(g, S)
  <1> DEFINE Good == {s \in SUBSET S :
                SumFunctionOnSet(h, s) = SumFunctionOnSet(f, s) + SumFunctionOnSet(g, s)}
  <1>1. {} \in Good
    BY SumOfNone
  <1>2. ASSUME NEW s \in SUBSET S, NEW x \in S \ s, s \in Good PROVE s \union {x} \in Good
    <2>1. IsFiniteSet(s) /\ \A y \in s \union {x} : f[y] \in Int /\ g[y] \in Int /\ h[y] \in Int
      BY FS_Subset
    <2>2. SumFunctionOnSet(f, s \union {x}) = f[x] + SumFunctionOnSet(f, s)
      BY <2>1, SumWith
    <2>3. SumFunctionOnSet(g, s \union {x}) = g[x] + SumFunctionOnSet(g, s)
      BY <2>1, SumWith
    <2>4. SumFunctionOnSet(h, s \union {x}) = h[x] + SumFunctionOnSet(h, s)
      BY <2>1, SumWith
    <2>5. SumFunctionOnSet(f, s) \in Int /\ SumFunctionOnSet(g, s) \in Int
      BY <2>1, SumIsInt
    <2> QED
      BY <1>2, <2>1, <2>2, <2>3, <2>4, <2>5
  <1>3. S \in Good
    <2> HIDE DEF Good
    <2> QED
      BY <1>1, <1>2, FiniteInduction
  <1> QED
    BY <1>3

\* The opposites add up to the opposite.
THEOREM SumOfOpposites ==
    ASSUME NEW S, IsFiniteSet(S), NEW f, NEW g,
           \A x \in S : f[x] \in Int /\ g[x] = - f[x]
    PROVE  SumFunctionOnSet(g, S) = - SumFunctionOnSet(f, S)
  <1> DEFINE zero == [x \in S |-> 0]
  <1>1. SumFunctionOnSet(zero, S) = 0
    <2>1. \A x \in S : zero[x] = 0
      OBVIOUS
    <2> HIDE DEF zero
    <2> QED
      BY <2>1, SumOfZeros, SumOfNone
  <1>2. \A x \in S : f[x] \in Int /\ g[x] \in Int /\ zero[x] = f[x] + g[x]
    OBVIOUS
  <1> HIDE DEF zero
  <1>3. SumFunctionOnSet(zero, S) = SumFunctionOnSet(f, S) + SumFunctionOnSet(g, S)
    BY <1>2, SumOfSum
  <1>4. SumFunctionOnSet(f, S) \in Int /\ SumFunctionOnSet(g, S) \in Int
    BY <1>2, SumIsInt
  <1> QED
    BY <1>1, <1>3, <1>4

\* What is nowhere more adds up to no more.
THEOREM SumIsMonotone ==
    ASSUME NEW S, IsFiniteSet(S), NEW f, NEW g,
           \A x \in S : f[x] \in Int /\ g[x] \in Int /\ f[x] <= g[x]
    PROVE  SumFunctionOnSet(f, S) <= SumFunctionOnSet(g, S)
  <1> DEFINE Good == {s \in SUBSET S : SumFunctionOnSet(f, s) <= SumFunctionOnSet(g, s)}
  <1>1. {} \in Good
    BY SumOfNone
  <1>2. ASSUME NEW s \in SUBSET S, NEW x \in S \ s, s \in Good PROVE s \union {x} \in Good
    <2>1. IsFiniteSet(s) /\ \A y \in s \union {x} : f[y] \in Int /\ g[y] \in Int
      BY FS_Subset
    <2>2. SumFunctionOnSet(f, s \union {x}) = f[x] + SumFunctionOnSet(f, s)
      BY <2>1, SumWith
    <2>3. SumFunctionOnSet(g, s \union {x}) = g[x] + SumFunctionOnSet(g, s)
      BY <2>1, SumWith
    <2>4. SumFunctionOnSet(f, s) \in Int /\ SumFunctionOnSet(g, s) \in Int
      BY <2>1, SumIsInt
    <2> QED
      BY <1>2, <2>1, <2>2, <2>3, <2>4
  <1>3. S \in Good
    <2> HIDE DEF Good
    <2> QED
      BY <1>1, <1>2, FiniteInduction
  <1> QED
    BY <1>3

\* A part of what is never negative is no more than the whole.
THEOREM SumOfPart ==
    ASSUME NEW S, IsFiniteSet(S), NEW T \in SUBSET S, NEW f, \A x \in S : f[x] \in Nat
    PROVE  /\ SumFunctionOnSet(f, T) \in Nat
           /\ SumFunctionOnSet(f, T) <= SumFunctionOnSet(f, S)
  <1> DEFINE zero == [x \in S |-> 0]
  <1>1. ASSUME NEW s \in SUBSET S PROVE SumFunctionOnSet(f, s) \in Nat
    <2>1. IsFiniteSet(s)
      BY FS_Subset
    <2>2. SumFunctionOnSet(zero, s) <= SumFunctionOnSet(f, s)
      BY <2>1, SumIsMonotone
    <2>3. SumFunctionOnSet(zero, s) = SumFunctionOnSet(zero, {})
      BY <2>1, SumOfZeros
    <2>4. SumFunctionOnSet(f, s) \in Int
      BY <2>1, SumIsInt
    <2> QED
      BY <2>2, <2>3, <2>4, SumOfNone
  <1>2. T \union (S \ T) = S /\ IsFiniteSet(T) /\ IsFiniteSet(S \ T)
    BY FS_Subset
  <1>3. SumFunctionOnSet(f, T \union (S \ T)) = SumFunctionOnSet(f, T) + SumFunctionOnSet(f, S \ T)
    BY <1>2, SumOfUnion
  <1> QED
    BY <1>1, <1>2, <1>3
=============================================================================
