---------------------------- MODULE SumTheorems ----------------------------
(***************************************************************************)
(* Facts about SumFunctionOnSet (module Functions) over finite sets, for   *)
(* the proofs about ledgers.  Induction is by a smallest counterexample:   *)
(* strict inclusion is well founded on the subsets of a finite set.        *)
(***************************************************************************)
EXTENDS Integers, FiniteSets, Functions, FiniteSetTheorems, WellFoundedInduction, TLAPS

\* A nonempty set of subsets of a finite set has a smallest member.
LEMMA SmallestSubset ==
    ASSUME NEW S, IsFiniteSet(S), NEW Bad \in SUBSET (SUBSET S), Bad # {}
    PROVE  \E s \in Bad : \A t \in Bad : ~(t \subseteq s /\ t # s)
  <1>1. IsWellFoundedOn(StrictSubsetOrdering(S), SUBSET S)
    BY FS_StrictSubsetOrderingWellFounded, FS_FiniteSubsetsOfFinite
  <1>2. \E s \in Bad : \A t \in Bad : <<t, s>> \notin StrictSubsetOrdering(S)
    BY <1>1, WFMin
  <1>3. QED
    BY <1>2 DEF StrictSubsetOrdering

-----------------------------------------------------------------------------
(* The recursive function behind the sum.                                  *)

\* The element that the recursion takes first.
Pick(s) == CHOOSE x \in s : TRUE

\* g[s] is the sum of f over s, for all subsets s of S.
IsSum(g, f, S) ==
    g = [s \in SUBSET S |-> IF s = {} THEN 0 ELSE f[Pick(s)] + g[s \ {Pick(s)}]]

TheSum(f, S) == CHOOSE g : IsSum(g, f, S)

\* SumFunctionOnSet is that function's value at the whole set.
LEMMA SumIsTheSum ==
    ASSUME NEW f, NEW S
    PROVE  SumFunctionOnSet(f, S) = TheSum(f, S)[S]
  BY DEF SumFunctionOnSet, FoldFunctionOnSet, MapThenFoldSet, TheSum, IsSum, Pick

\* Removing the picked element of a nonempty set leaves a smaller set.
LEMMA Picked ==
    ASSUME NEW S, S # {}
    PROVE  Pick(S) \in S /\ S \ {Pick(S)} \subseteq S /\ S \ {Pick(S)} # S
  BY DEF Pick

\* Two such functions agree wherever both are defined.
LEMMA SumUnique ==
    ASSUME NEW f, NEW S, NEW T, NEW g, NEW h, IsSum(g, f, S), IsSum(h, f, T),
           NEW R, IsFiniteSet(R), R \subseteq S, R \subseteq T
    PROVE  g[R] = h[R]
  <1> DEFINE Bad == {s \in SUBSET R : g[s] # h[s]}
  <1>1. ASSUME NEW s \in Bad, \A t \in Bad : ~(t \subseteq s /\ t # s)
        PROVE  FALSE
    <2>3. s \in SUBSET S /\ s \in SUBSET T /\ s \in SUBSET R
      OBVIOUS
    <2>4. /\ g[s] = IF s = {} THEN 0 ELSE f[Pick(s)] + g[s \ {Pick(s)}]
          /\ h[s] = IF s = {} THEN 0 ELSE f[Pick(s)] + h[s \ {Pick(s)}]
      BY <2>3 DEF IsSum
    <2>5. s # {}
      BY <2>4
    <2>6. g[s \ {Pick(s)}] = h[s \ {Pick(s)}]
      BY <1>1, <2>3, <2>5, Picked
    <2>7. QED
      BY <2>4, <2>6
  <1>2. Bad \in SUBSET (SUBSET R)
    OBVIOUS
  <1>3. Bad = {}
    <2> HIDE DEF Bad
    <2>1. QED
      BY <1>1, <1>2, SmallestSubset
  <1>4. QED
    BY <1>3, R \in SUBSET R

\* Such a function exists for every finite set.
LEMMA SumExists ==
    ASSUME NEW f, NEW S, IsFiniteSet(S)
    PROVE  IsSum(TheSum(f, S), f, S)
  <1> DEFINE Good(s) == IsSum(TheSum(f, s), f, s)
             Bad == {s \in SUBSET S : ~Good(s)}
  <1>1. ASSUME NEW s \in Bad, \A t \in Bad : ~(t \subseteq s /\ t # s)
        PROVE  FALSE
    <2>3. s \in SUBSET S /\ ~Good(s)
      OBVIOUS
    <2>4. ASSUME NEW t \in SUBSET s, t # s PROVE Good(t) /\ IsFiniteSet(t)
      BY <1>1, <2>3, <2>4, FS_Subset
    <2> DEFINE Val(t) == TheSum(f, t)[t]
               step(t) == IF t = {} THEN 0 ELSE f[Pick(t)] + Val(t \ {Pick(t)})
               g == [t \in SUBSET s |-> step(t)]
    <2>5. ASSUME NEW t \in SUBSET s, t # s PROVE g[t] = Val(t)
      <3>1. Good(t)
        BY <2>4, <2>5
      <3>2. Val(t) = IF t = {} THEN 0 ELSE f[Pick(t)] + TheSum(f, t)[t \ {Pick(t)}]
        BY <3>1 DEF IsSum
      <3>3. CASE t # {}
        <4> DEFINE u == t \ {Pick(t)}
        <4>1. u \in SUBSET s /\ u # s /\ u \subseteq t
          BY <3>3, <2>5, Picked
        <4>2. Good(u) /\ IsFiniteSet(u)
          BY <2>4, <4>1
        <4>3. TheSum(f, t)[u] = TheSum(f, u)[u]
          BY <3>1, <4>1, <4>2, SumUnique
        <4>4. QED
          BY <3>2, <3>3, <4>3
      <3>4. QED
        BY <3>2, <3>3
    <2>6. ASSUME NEW t \in SUBSET s
          PROVE  g[t] = IF t = {} THEN 0 ELSE f[Pick(t)] + g[t \ {Pick(t)}]
      <3>1. CASE t # {}
        <4>1. t \ {Pick(t)} \in SUBSET s /\ t \ {Pick(t)} # s
          BY <3>1, Picked
        <4>2. g[t \ {Pick(t)}] = Val(t \ {Pick(t)})
          BY <2>5, <4>1
        <4>3. QED
          BY <3>1, <4>2
      <3>2. QED
        BY <3>1
    <2>7. g = [t \in SUBSET s |-> IF t = {} THEN 0 ELSE f[Pick(t)] + g[t \ {Pick(t)}]]
      <3> DEFINE body(t) == IF t = {} THEN 0 ELSE f[Pick(t)] + g[t \ {Pick(t)}]
      <3>1. \A t \in SUBSET s : step(t) = body(t)
        BY <2>6
      <3> HIDE DEF step, body
      <3>2. [t \in SUBSET s |-> step(t)] = [t \in SUBSET s |-> body(t)]
        BY <3>1
      <3>3. QED
        BY <3>2 DEF body
    <2>8. IsSum(g, f, s)
      BY <2>7 DEF IsSum
    <2>9. \E x : IsSum(x, f, s)
      BY <2>8
    <2> HIDE DEF g
    <2>10. Good(s)
      BY <2>9, Zenon DEF TheSum
    <2>11. QED
      BY <2>3, <2>10
  <1>2. Bad \in SUBSET (SUBSET S)
    OBVIOUS
  <1>3. Bad = {}
    <2> HIDE DEF Bad
    <2>1. QED
      BY <1>1, <1>2, SmallestSubset
  <1>4. QED
    BY <1>3, S \in SUBSET S

-----------------------------------------------------------------------------
(* Sums, element by element.                                               *)

\* The sum over no element is zero.
LEMMA SumEmpty == ASSUME NEW f PROVE SumFunctionOnSet(f, {}) = 0
  <1>1. IsSum(TheSum(f, {}), f, {})
    BY SumExists, FS_EmptySet
  <1>2. TheSum(f, {})[{}] = 0
    BY <1>1, {} \in SUBSET {} DEF IsSum
  <1>3. QED
    BY <1>2, SumIsTheSum

\* The picked element first.
LEMMA SumPick ==
    ASSUME NEW f, NEW S, IsFiniteSet(S), S # {}
    PROVE  SumFunctionOnSet(f, S) = f[Pick(S)] + SumFunctionOnSet(f, S \ {Pick(S)})
  <1> DEFINE R == S \ {Pick(S)}
  <1>1. IsFiniteSet(R) /\ R \subseteq S /\ R \subseteq R
    BY FS_RemoveElement
  <1>2. IsSum(TheSum(f, S), f, S) /\ IsSum(TheSum(f, R), f, R)
    BY <1>1, SumExists
  <1>3. TheSum(f, S)[R] = TheSum(f, R)[R]
    BY <1>1, <1>2, SumUnique
  <1>4. TheSum(f, S)[S] = f[Pick(S)] + TheSum(f, S)[R]
    BY <1>2 DEF IsSum
  <1>5. QED
    BY <1>3, <1>4, SumIsTheSum

\* The sum of integers is an integer.
LEMMA SumInt ==
    ASSUME NEW f, NEW S, IsFiniteSet(S), \A x \in S : f[x] \in Int
    PROVE  SumFunctionOnSet(f, S) \in Int
  <1> DEFINE Bad == {s \in SUBSET S : SumFunctionOnSet(f, s) \notin Int}
  <1>1. ASSUME NEW s \in Bad, \A t \in Bad : ~(t \subseteq s /\ t # s)
        PROVE  FALSE
    <2>3. s # {}
      BY SumEmpty
    <2>4. IsFiniteSet(s)
      BY FS_Subset
    <2>5. SumFunctionOnSet(f, s \ {Pick(s)}) \in Int /\ f[Pick(s)] \in Int
      BY <1>1, <2>3, Picked
    <2>6. QED
      BY <2>3, <2>4, <2>5, SumPick
  <1>2. Bad \in SUBSET (SUBSET S)
    OBVIOUS
  <1>3. Bad = {}
    <2> HIDE DEF Bad
    <2>1. QED
      BY <1>1, <1>2, SmallestSubset
  <1>4. QED
    BY <1>3, S \in SUBSET S

\* The sum of natural numbers is a natural number.
LEMMA SumNat ==
    ASSUME NEW f, NEW S, IsFiniteSet(S), \A x \in S : f[x] \in Nat
    PROVE  SumFunctionOnSet(f, S) \in Nat
  <1> DEFINE Bad == {s \in SUBSET S : SumFunctionOnSet(f, s) \notin Nat}
  <1>1. ASSUME NEW s \in Bad, \A t \in Bad : ~(t \subseteq s /\ t # s)
        PROVE  FALSE
    <2>3. s # {}
      BY SumEmpty
    <2>4. IsFiniteSet(s)
      BY FS_Subset
    <2>5. SumFunctionOnSet(f, s \ {Pick(s)}) \in Nat /\ f[Pick(s)] \in Nat
      BY <1>1, <2>3, Picked
    <2>6. QED
      BY <2>3, <2>4, <2>5, SumPick
  <1>2. Bad \in SUBSET (SUBSET S)
    OBVIOUS
  <1>3. Bad = {}
    <2> HIDE DEF Bad
    <2>1. QED
      BY <1>1, <1>2, SmallestSubset
  <1>4. QED
    BY <1>3, S \in SUBSET S

\* Zeros add up to zero.
LEMMA SumZero ==
    ASSUME NEW f, NEW S, IsFiniteSet(S), \A x \in S : f[x] = 0
    PROVE  SumFunctionOnSet(f, S) = 0
  <1> DEFINE Bad == {s \in SUBSET S : SumFunctionOnSet(f, s) # 0}
  <1>1. ASSUME NEW s \in Bad, \A t \in Bad : ~(t \subseteq s /\ t # s)
        PROVE  FALSE
    <2>1. s # {} /\ IsFiniteSet(s)
      BY SumEmpty, FS_Subset
    <2>2. SumFunctionOnSet(f, s \ {Pick(s)}) = 0 /\ f[Pick(s)] = 0
      BY <1>1, <2>1, Picked
    <2>3. QED
      BY <2>1, <2>2, SumPick
  <1>2. Bad \in SUBSET (SUBSET S)
    OBVIOUS
  <1>3. Bad = {}
    <2> HIDE DEF Bad
    <2>1. QED
      BY <1>1, <1>2, SmallestSubset
  <1>4. QED
    BY <1>3, S \in SUBSET S

\* Any element first: the order in which elements are picked does not matter.
LEMMA SumRemove ==
    ASSUME NEW f, NEW S, IsFiniteSet(S), \A x \in S : f[x] \in Int, NEW x \in S
    PROVE  SumFunctionOnSet(f, S) = f[x] + SumFunctionOnSet(f, S \ {x})
  <1> DEFINE Ok(s) == \A y \in s : SumFunctionOnSet(f, s) = f[y] + SumFunctionOnSet(f, s \ {y})
             Bad == {s \in SUBSET S : ~Ok(s)}
  <1>1. ASSUME NEW s \in Bad, \A t \in Bad : ~(t \subseteq s /\ t # s)
        PROVE  FALSE
    <2>3. PICK y \in s : SumFunctionOnSet(f, s) # f[y] + SumFunctionOnSet(f, s \ {y})
      OBVIOUS
    <2>4. IsFiniteSet(s) /\ s # {} /\ s \subseteq S
      BY <2>3, FS_Subset
    <2> DEFINE p == Pick(s)
    <2>5. p \in s /\ SumFunctionOnSet(f, s) = f[p] + SumFunctionOnSet(f, s \ {p})
      BY <2>4, SumPick, Picked
    <2> HIDE DEF p
    <2>6. p # y
      BY <2>3, <2>5
    <2>7. Ok(s \ {p}) /\ Ok(s \ {y})
      BY <1>1, <2>3, <2>4, <2>5
    <2>8. /\ SumFunctionOnSet(f, s \ {p}) = f[y] + SumFunctionOnSet(f, (s \ {p}) \ {y})
          /\ SumFunctionOnSet(f, s \ {y}) = f[p] + SumFunctionOnSet(f, (s \ {y}) \ {p})
      BY <2>3, <2>5, <2>6, <2>7
    <2>9. (s \ {p}) \ {y} = (s \ {y}) \ {p}
      OBVIOUS
    <2>10. IsFiniteSet((s \ {y}) \ {p}) /\ \A z \in (s \ {y}) \ {p} : f[z] \in Int
      BY <2>4, FS_RemoveElement
    <2>11. SumFunctionOnSet(f, (s \ {y}) \ {p}) \in Int
      BY <2>10, SumInt
    <2>12. f[p] \in Int /\ f[y] \in Int
      BY <2>3, <2>4, <2>5
    <2> DEFINE rest == SumFunctionOnSet(f, (s \ {y}) \ {p})
    <2>13. /\ SumFunctionOnSet(f, s \ {p}) = f[y] + rest
           /\ SumFunctionOnSet(f, s \ {y}) = f[p] + rest
           /\ rest \in Int
      BY <2>8, <2>9, <2>11
    <2> HIDE DEF rest
    <2>14. f[p] + (f[y] + rest) = f[y] + (f[p] + rest)
      BY <2>12, <2>13
    <2>15. QED
      BY <2>3, <2>5, <2>13, <2>14
  <1>2. Bad \in SUBSET (SUBSET S)
    OBVIOUS
  <1>3. Bad = {}
    <2> HIDE DEF Bad
    <2>1. QED
      BY <1>1, <1>2, SmallestSubset
  <1>4. QED
    BY <1>3, S \in SUBSET S

\* Only the values at the elements of the set matter.
LEMMA SumSame ==
    ASSUME NEW f, NEW g, NEW S, IsFiniteSet(S), \A x \in S : f[x] = g[x]
    PROVE  SumFunctionOnSet(f, S) = SumFunctionOnSet(g, S)
  <1> DEFINE Bad == {s \in SUBSET S : SumFunctionOnSet(f, s) # SumFunctionOnSet(g, s)}
  <1>1. ASSUME NEW s \in Bad, \A t \in Bad : ~(t \subseteq s /\ t # s)
        PROVE  FALSE
    <2>3. s # {}
      BY SumEmpty
    <2>4. IsFiniteSet(s)
      BY FS_Subset
    <2>5. /\ SumFunctionOnSet(f, s \ {Pick(s)}) = SumFunctionOnSet(g, s \ {Pick(s)})
          /\ f[Pick(s)] = g[Pick(s)]
      BY <1>1, <2>3, Picked
    <2>6. QED
      BY <2>3, <2>4, <2>5, SumPick
  <1>2. Bad \in SUBSET (SUBSET S)
    OBVIOUS
  <1>3. Bad = {}
    <2> HIDE DEF Bad
    <2>1. QED
      BY <1>1, <1>2, SmallestSubset
  <1>4. QED
    BY <1>3, S \in SUBSET S

\* Two sums that differ in one element differ by what it contributes.
Part(f, S, x) == IF x \in S THEN f[x] ELSE 0

\* Sums over sets and functions that differ in one element differ by its parts.
LEMMA SumChange ==
    ASSUME NEW S, NEW T, IsFiniteSet(S), IsFiniteSet(T), NEW x, S \ {x} = T \ {x},
           NEW f, NEW g, \A y \in S : f[y] \in Int, \A y \in T : g[y] \in Int,
           \A y \in S \ {x} : f[y] = g[y]
    PROVE  /\ SumFunctionOnSet(f, S) \in Int /\ SumFunctionOnSet(g, T) \in Int
           /\ SumFunctionOnSet(g, T) = SumFunctionOnSet(f, S) - Part(f, S, x) + Part(g, T, x)
  <1>1. SumFunctionOnSet(f, S) \in Int /\ SumFunctionOnSet(g, T) \in Int
    BY SumInt
  <1>2. IsFiniteSet(S \ {x}) /\ \A y \in S \ {x} : f[y] \in Int
    BY FS_RemoveElement
  <1>3. SumFunctionOnSet(f, S \ {x}) \in Int
    BY <1>2, SumInt
  <1>4. SumFunctionOnSet(f, S \ {x}) = SumFunctionOnSet(g, T \ {x})
    BY <1>2, SumSame
  <1>5. SumFunctionOnSet(f, S) = Part(f, S, x) + SumFunctionOnSet(f, S \ {x})
    <2>1. CASE x \in S
      BY <2>1, SumRemove DEF Part
    <2>2. CASE x \notin S
      <3> DEFINE sum == SumFunctionOnSet(f, S)
      <3>1. sum = SumFunctionOnSet(f, S \ {x}) /\ Part(f, S, x) = 0 /\ sum \in Int
        BY <2>2, <1>1, S \ {x} = S DEF Part
      <3> HIDE DEF sum
      <3>2. QED
        BY <3>1 DEF sum
    <2>3. QED
      BY <2>1, <2>2
  <1>6. SumFunctionOnSet(g, T) = Part(g, T, x) + SumFunctionOnSet(g, T \ {x})
    <2>1. CASE x \in T
      BY <2>1, SumRemove DEF Part
    <2>2. CASE x \notin T
      <3> DEFINE sum == SumFunctionOnSet(g, T)
      <3>1. sum = SumFunctionOnSet(g, T \ {x}) /\ Part(g, T, x) = 0 /\ sum \in Int
        BY <2>2, <1>1, T \ {x} = T DEF Part
      <3> HIDE DEF sum
      <3>2. QED
        BY <3>1 DEF sum
    <2>3. QED
      BY <2>1, <2>2
  <1>7. Part(f, S, x) \in Int /\ Part(g, T, x) \in Int
    BY DEF Part
  <1>8. QED
    BY <1>1, <1>3, <1>4, <1>5, <1>6, <1>7

\* The same for the number of elements.
LEMMA CardinalityChange ==
    ASSUME NEW S, NEW T, IsFiniteSet(S), IsFiniteSet(T), NEW x, S \ {x} = T \ {x}
    PROVE  /\ Cardinality(S) \in Nat /\ Cardinality(T) \in Nat
           /\ Cardinality(T) = Cardinality(S) - (IF x \in S THEN 1 ELSE 0)
                                              + (IF x \in T THEN 1 ELSE 0)
  <1>1. Cardinality(S) \in Nat /\ Cardinality(T) \in Nat
    BY FS_CardinalityType
  <1>2. Cardinality(S \ {x}) = IF x \in S THEN Cardinality(S) - 1 ELSE Cardinality(S)
    BY FS_RemoveElement
  <1>3. Cardinality(T \ {x}) = IF x \in T THEN Cardinality(T) - 1 ELSE Cardinality(T)
    BY FS_RemoveElement
  <1>4. QED
    BY <1>1, <1>2, <1>3

\* The sum over two disjoint sets.
LEMMA SumUnion ==
    ASSUME NEW S, NEW T, IsFiniteSet(S), IsFiniteSet(T), S \cap T = {},
           NEW f, \A x \in S \cup T : f[x] \in Int
    PROVE  SumFunctionOnSet(f, S \cup T) = SumFunctionOnSet(f, S) + SumFunctionOnSet(f, T)
  <1> DEFINE Ok(s) == SumFunctionOnSet(f, s \cup T) = SumFunctionOnSet(f, s) + SumFunctionOnSet(f, T)
             Bad == {s \in SUBSET S : ~Ok(s)}
  <1>1. ASSUME NEW s \in Bad, \A t \in Bad : ~(t \subseteq s /\ t # s)
        PROVE  FALSE
    <2> DEFINE x == Pick(s)
               r == s \ {x}
               both == SumFunctionOnSet(f, r \cup T)
               one == SumFunctionOnSet(f, r)
               two == SumFunctionOnSet(f, T)
    <2>1. two \in Int
      BY SumInt
    <2>2. s # {}
      <3>1. SumFunctionOnSet(f, {}) = 0
        BY SumEmpty
      <3>2. {} \cup T = T
        OBVIOUS
      <3>3. two = 0 + two
        <4> HIDE DEF two
        <4>1. QED
          BY <2>1
      <3>4. Ok({})
        BY <3>1, <3>2, <3>3
      <3>5. QED
        BY <3>4
    <2>3. s \subseteq S /\ x \in s /\ r \subseteq s /\ r # s
      BY <2>2, Picked
    <2>4. both = one + two
      BY <1>1, <2>3
    <2>5. IsFiniteSet(s) /\ IsFiniteSet(r) /\ IsFiniteSet(s \cup T)
      BY <2>3, FS_Subset, FS_Union
    <2>6. (s \cup T) \ {x} = r \cup T /\ x \in s \cup T
      BY <2>3
    <2>7. f[x] \in Int /\ (\A y \in s \cup T : f[y] \in Int) /\ \A y \in r : f[y] \in Int
      BY <2>3
    <2> HIDE DEF x
    <2>8. SumFunctionOnSet(f, s \cup T) = f[x] + both /\ SumFunctionOnSet(f, s) = f[x] + one
      BY <2>3, <2>5, <2>6, <2>7, SumRemove
    <2>9. one \in Int
      BY <2>5, <2>7, SumInt
    <2> HIDE DEF both, one, two
    <2>10. f[x] + both = (f[x] + one) + two
      BY <2>1, <2>4, <2>7, <2>9
    <2>11. QED
      BY <2>8, <2>10 DEF two
  <1>2. Bad \in SUBSET (SUBSET S)
    OBVIOUS
  <1>3. Bad = {}
    <2> HIDE DEF Bad
    <2>1. QED
      BY <1>1, <1>2, SmallestSubset
  <1>4. QED
    BY <1>3, S \in SUBSET S

\* A part of the terms adds up to no more than all of them.
LEMMA SumSubset ==
    ASSUME NEW S, NEW T, IsFiniteSet(T), S \subseteq T, NEW f, \A x \in T : f[x] \in Nat
    PROVE  SumFunctionOnSet(f, S) <= SumFunctionOnSet(f, T)
  <1> DEFINE R == T \ S
  <1>1. IsFiniteSet(S) /\ IsFiniteSet(R) /\ S \cup R = T /\ S \cap R = {}
    BY FS_Subset
  <1>2. \A x \in S \cup R : f[x] \in Int
    BY <1>1
  <1>3. SumFunctionOnSet(f, S \cup R) = SumFunctionOnSet(f, S) + SumFunctionOnSet(f, R)
    BY <1>1, <1>2, SumUnion
  <1>4. SumFunctionOnSet(f, S) \in Nat /\ SumFunctionOnSet(f, R) \in Nat
    BY <1>1, SumNat
  <1> DEFINE part == SumFunctionOnSet(f, S)
             rest == SumFunctionOnSet(f, R)
             all == SumFunctionOnSet(f, T)
  <1>5. part \in Nat /\ rest \in Nat /\ all = part + rest
    BY <1>1, <1>3, <1>4
  <1> HIDE DEF part, rest, all
  <1>6. part <= all
    BY <1>5
  <1>7. QED
    BY <1>6 DEF part, all
=============================================================================
