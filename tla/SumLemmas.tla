------------------------------ MODULE SumLemmas ------------------------------
(***************************************************************************)
(* What SumOver computes, for every finite set.  The fold of the community *)
(* modules is a recursive function over the subsets of its set; that it    *)
(* exists, and every fact about it, is proved by induction on finite sets, *)
(* in the form the provers can use: a nonempty set of counterexamples has  *)
(* a minimal member (WFMin of the library), and there is none.             *)
(***************************************************************************)
EXTENDS Sums, FiniteSetTheorems, TLAPS

\* The element that the fold takes next.
PickOf(s) == CHOOSE x \in s : TRUE

\* The sum of s, if sums has those of smaller sets.
Unfold(f, sums, s) == IF s = {} THEN 0 ELSE f[PickOf(s)] + sums[s \ {PickOf(s)}]

\* The sums of all subsets of S, as the fold defines them.
SumsIn(f, S) == CHOOSE sums : sums = [s \in SUBSET S |-> Unfold(f, sums, s)]

UpToSize(S, n) == {s \in SUBSET S : Cardinality(s) <= n}

-----------------------------------------------------------------------------
(* Induction, as minimal counterexamples.                                  *)

\* A nonempty set of natural numbers has a least member.
LEMMA MinimalNat ==
  ASSUME NEW T \in SUBSET Nat, T # {}
  PROVE  \E n \in T : \A m \in T : n <= m
<1> DEFINE Less == {p \in Nat \X Nat : p[1] < p[2]}
<1>1. IsWellFoundedOn(Less, Nat)
  BY NatLessThanWellFounded DEF OpToRel
<1>2. PICK n \in T : \A m \in T : <<m, n>> \notin Less
  BY <1>1, WFMin
<1>3. ASSUME NEW m \in T PROVE n <= m
  <2>1. m \in Nat /\ n \in Nat
    OBVIOUS
  <2>2. m < n => <<m, n>> \in Less
    BY <2>1
  <2>3. ~(m < n)
    BY <1>2, <2>2
  <2> HIDE DEF Less
  <2> QED BY <2>1, <2>3
<1> QED BY <1>3

\* A nonempty set of subsets of a finite set has a minimal member.
LEMMA MinimalSubset ==
  ASSUME NEW S, IsFiniteSet(S), NEW T \in SUBSET (SUBSET S), T # {}
  PROVE  \E s \in T : \A t \in T : t \subseteq s => t = s
<1>1. IsWellFoundedOn(StrictSubsetOrdering(S), SUBSET S)
  BY FS_StrictSubsetOrderingWellFounded, FS_FiniteSubsetsOfFinite
<1>2. PICK s \in T : \A t \in T : <<t, s>> \notin StrictSubsetOrdering(S)
  BY <1>1, WFMin
<1> QED BY <1>2 DEF StrictSubsetOrdering

\* Taking an element out of a finite set leaves a smaller one.
LEMMA SmallerSet ==
  ASSUME NEW S, IsFiniteSet(S), NEW s \in SUBSET S, s # {}
  PROVE  /\ PickOf(s) \in s /\ s \ {PickOf(s)} \in SUBSET S
         /\ s \ {PickOf(s)} # s
         /\ Cardinality(s) \in Nat \ {0}
         /\ Cardinality(s \ {PickOf(s)}) = Cardinality(s) - 1
<1>1. PickOf(s) \in s
  BY DEF PickOf
<1>2. IsFiniteSet(s)
  BY FS_Subset
<1>3. Cardinality(s) \in Nat /\ Cardinality(s) # 0
  BY <1>2, FS_CardinalityType, FS_EmptySet
<1>4. Cardinality(s \ {PickOf(s)}) = Cardinality(s) - 1
  BY <1>1, <1>2, FS_RemoveElement
<1> QED BY <1>1, <1>3, <1>4

-----------------------------------------------------------------------------
(* The recursion behind SumOver.                                           *)

\* The library's fold is the last of the sums of subsets.
LEMMA SumIsLast == ASSUME NEW f, NEW S PROVE SumOver(f, S) = SumsIn(f, S)[S]
  BY DEF SumOver, FoldFunctionOnSet, MapThenFoldSet, SumsIn, PickOf, Unfold

\* The recursion has a solution on the subsets of each size, hence ...
LEMMA SumsExist ==
  ASSUME NEW f, NEW S, IsFiniteSet(S), NEW n \in Nat
  PROVE  \E g : g = [s \in UpToSize(S, n) |-> Unfold(f, g, s)]
<1> DEFINE Right(k) == \E g : g = [s \in UpToSize(S, k) |-> Unfold(f, g, s)]
           Bad == {k \in Nat : ~Right(k)}
<1> SUFFICES ASSUME Bad # {} PROVE FALSE
  OBVIOUS
<1>1. PICK k \in Bad : \A m \in Bad : k <= m
  BY MinimalNat
<1>2. Right(0)
  <2>1. UpToSize(S, 0) = {{}}
    <3>1. ASSUME NEW s \in SUBSET S PROVE IsFiniteSet(s) /\ Cardinality(s) \in Nat
      BY FS_Subset, FS_CardinalityType
    <3>2. ASSUME NEW s \in SUBSET S PROVE Cardinality(s) = 0 <=> s = {}
      BY <3>1, FS_EmptySet
    <3> QED BY <3>1, <3>2 DEF UpToSize
  <2>2. [s \in {{}} |-> 0] = [s \in UpToSize(S, 0) |-> Unfold(f, [t \in {{}} |-> 0], s)]
    BY <2>1 DEF Unfold
  <2> QED BY <2>2
<1>3. k \in Nat /\ k > 0 /\ k - 1 \in Nat /\ Right(k - 1)
  BY <1>1, <1>2
<1> HIDE DEF Bad
<1>4. PICK g : g = [s \in UpToSize(S, k - 1) |-> Unfold(f, g, s)]
  BY <1>3
<1> DEFINE h == [s \in UpToSize(S, k) |-> Unfold(f, g, s)]
<1>5. ASSUME NEW s \in UpToSize(S, k) PROVE Unfold(f, g, s) = Unfold(f, h, s)
  <2>1. CASE s = {}
    BY <2>1 DEF Unfold
  <2>2. CASE s # {}
    <3> DEFINE t == s \ {PickOf(s)}
    <3>1. s \in SUBSET S /\ Cardinality(s) <= k
      BY DEF UpToSize
    <3>2. t \in SUBSET S /\ Cardinality(s) \in Nat /\ Cardinality(t) = Cardinality(s) - 1
      BY <2>2, <3>1, SmallerSet
    <3>3. t \in UpToSize(S, k - 1) /\ t \in UpToSize(S, k)
      BY <1>3, <3>1, <3>2 DEF UpToSize
    <3>4. g[t] = h[t]
      BY <3>3, <1>4
    <3> QED BY <3>4 DEF Unfold
  <2> QED BY <2>1, <2>2
<1>6. h = [s \in UpToSize(S, k) |-> Unfold(f, h, s)]
  BY <1>5
<1>7. Right(k)
  BY <1>6
<1> QED BY <1>1, <1>7 DEF Bad

\* ... the sums of subsets satisfy their equation.
LEMMA SumsAt ==
  ASSUME NEW f, NEW S, IsFiniteSet(S), NEW s \in SUBSET S
  PROVE  SumsIn(f, S)[s] = Unfold(f, SumsIn(f, S), s)
<1>1. Cardinality(S) \in Nat
  BY FS_CardinalityType
<1>2. UpToSize(S, Cardinality(S)) = SUBSET S
  BY FS_Subset DEF UpToSize
<1>3. \E g : g = [t \in SUBSET S |-> Unfold(f, g, t)]
  <2>1. PICK g : g = [t \in UpToSize(S, Cardinality(S)) |-> Unfold(f, g, t)]
    BY <1>1, SumsExist
  <2> QED BY <1>2, <2>1
<1> DEFINE h == SumsIn(f, S)
<1>4. h = [t \in SUBSET S |-> Unfold(f, h, t)]
  BY <1>3 DEF SumsIn
<1> HIDE DEF h
<1>5. h[s] = Unfold(f, h, s)
  BY <1>4
<1> QED BY <1>5 DEF h

\* The sum of a set does not depend on the set it is a subset of.
LEMMA SumsOfSubset ==
  ASSUME NEW f, NEW S, IsFiniteSet(S), NEW T \in SUBSET S, NEW t \in SUBSET T
  PROVE  SumsIn(f, S)[t] = SumsIn(f, T)[t]
<1> DEFINE Bad == {s \in SUBSET T : SumsIn(f, S)[s] # SumsIn(f, T)[s]}
<1> SUFFICES ASSUME Bad # {} PROVE FALSE
  OBVIOUS
<1>1. IsFiniteSet(T)
  BY FS_Subset
<1>2. PICK s \in Bad : \A r \in Bad : r \subseteq s => r = s
  <2>1. Bad \in SUBSET (SUBSET T)
    OBVIOUS
  <2> HIDE DEF Bad
  <2> QED BY <1>1, <2>1, MinimalSubset
<1>3. s \in SUBSET T /\ s \in SUBSET S
  OBVIOUS
<1>4. /\ SumsIn(f, S)[s] = Unfold(f, SumsIn(f, S), s)
      /\ SumsIn(f, T)[s] = Unfold(f, SumsIn(f, T), s)
  BY <1>1, <1>3, SumsAt
<1>5. CASE s = {}
  BY <1>4, <1>5 DEF Unfold
<1>6. CASE s # {}
  <2>1. s \ {PickOf(s)} \in SUBSET T /\ s \ {PickOf(s)} # s
    BY <1>1, <1>3, <1>6, SmallerSet
  <2>2. SumsIn(f, S)[s \ {PickOf(s)}] = SumsIn(f, T)[s \ {PickOf(s)}]
    BY <1>2, <2>1
  <2> QED BY <1>4, <2>2 DEF Unfold
<1> QED BY <1>5, <1>6

-----------------------------------------------------------------------------
(* The theory of sums.                                                     *)

\* Nothing sums up to zero.
LEMMA SumEmpty == ASSUME NEW f PROVE SumOver(f, {}) = 0
<1>1. SumsIn(f, {})[{}] = Unfold(f, SumsIn(f, {}), {})
  BY SumsAt, FS_EmptySet
<1> QED BY <1>1, SumIsLast DEF Unfold

\* The first element counts, and then the rest.
LEMMA SumPick ==
  ASSUME NEW f, NEW S, IsFiniteSet(S), S # {}
  PROVE  SumOver(f, S) = f[PickOf(S)] + SumOver(f, S \ {PickOf(S)})
<1> DEFINE T == S \ {PickOf(S)}
<1>1. SumsIn(f, S)[S] = f[PickOf(S)] + SumsIn(f, S)[T]
  <2>1. SumsIn(f, S)[S] = Unfold(f, SumsIn(f, S), S)
    BY SumsAt
  <2> QED BY <2>1 DEF Unfold
<1>2. SumsIn(f, S)[T] = SumsIn(f, T)[T]
  BY SumsOfSubset
<1> QED BY <1>1, <1>2, SumIsLast

\* A sum of integers is an integer.
LEMMA SumType ==
  ASSUME NEW f, NEW S, IsFiniteSet(S), \A x \in S : f[x] \in Int
  PROVE  SumOver(f, S) \in Int
<1> DEFINE Bad == {s \in SUBSET S : SumOver(f, s) \notin Int}
<1> SUFFICES ASSUME Bad # {} PROVE FALSE
  OBVIOUS
<1>1. PICK s \in Bad : \A r \in Bad : r \subseteq s => r = s
  <2>1. Bad \in SUBSET (SUBSET S)
    OBVIOUS
  <2> HIDE DEF Bad
  <2> QED BY <2>1, MinimalSubset
<1>2. s # {}
  BY SumEmpty
<1>3. IsFiniteSet(s)
  BY FS_Subset
<1>4. PickOf(s) \in s /\ s \ {PickOf(s)} \in SUBSET S /\ s \ {PickOf(s)} # s
  BY <1>2, SmallerSet
<1>5. f[PickOf(s)] \in Int /\ SumOver(f, s \ {PickOf(s)}) \in Int
  BY <1>1, <1>4
<1>6. SumOver(f, s) = f[PickOf(s)] + SumOver(f, s \ {PickOf(s)})
  BY <1>2, <1>3, SumPick
<1> QED BY <1>5, <1>6

\* Any element may be the first.
LEMMA SumRemove ==
  ASSUME NEW f, NEW S, IsFiniteSet(S), \A y \in S : f[y] \in Int, NEW x \in S
  PROVE  SumOver(f, S) = f[x] + SumOver(f, S \ {x})
<1> DEFINE Wrong(s) == \E y \in s : SumOver(f, s) # f[y] + SumOver(f, s \ {y})
           Bad == {s \in SUBSET S : Wrong(s)}
<1> SUFFICES ASSUME Bad # {} PROVE FALSE
  OBVIOUS
<1>1. PICK s \in Bad : \A r \in Bad : r \subseteq s => r = s
  <2>1. Bad \in SUBSET (SUBSET S)
    OBVIOUS
  <2> HIDE DEF Bad
  <2> QED BY <2>1, MinimalSubset
<1>2. PICK y \in s : SumOver(f, s) # f[y] + SumOver(f, s \ {y})
  OBVIOUS
<1> DEFINE z == PickOf(s)
<1>3. IsFiniteSet(s) /\ s \in SUBSET S /\ s # {}
  BY <1>2, FS_Subset
<1>4. z \in s /\ SumOver(f, s) = f[z] + SumOver(f, s \ {z})
  BY <1>3, SumPick, SmallerSet
<1>5. y # z
  BY <1>2, <1>4
<1>6. s \ {y} \notin Bad /\ s \ {z} \notin Bad
  BY <1>1, <1>2, <1>4
<1>7. SumOver(f, s \ {z}) = f[y] + SumOver(f, (s \ {z}) \ {y})
  BY <1>2, <1>3, <1>5, <1>6
<1>8. SumOver(f, s \ {y}) = f[z] + SumOver(f, (s \ {y}) \ {z})
  BY <1>3, <1>4, <1>5, <1>6
<1>9. (s \ {z}) \ {y} = (s \ {y}) \ {z}
  OBVIOUS
<1>10. f[y] \in Int /\ f[z] \in Int /\ SumOver(f, (s \ {y}) \ {z}) \in Int
  <2>1. IsFiniteSet((s \ {y}) \ {z})
    BY <1>3, FS_Subset
  <2> QED BY <2>1, <1>3, <1>4, SumType
<1> DEFINE rest == SumOver(f, (s \ {y}) \ {z})
           a == SumOver(f, s \ {y})
           b == SumOver(f, s \ {z})
<1>11. b = f[y] + rest /\ a = f[z] + rest /\ SumOver(f, s) = f[z] + b
  BY <1>4, <1>7, <1>8, <1>9
<1>12. rest \in Int /\ f[y] \in Int /\ f[z] \in Int
  BY <1>10
<1>13. SumOver(f, s) # f[y] + a
  BY <1>2
<1> HIDE DEF z, a, b, rest
<1> QED BY <1>11, <1>12, <1>13

\* Functions that agree on a set have the same sum over it.
LEMMA SumSame ==
  ASSUME NEW f, NEW g, NEW S, IsFiniteSet(S), \A x \in S : f[x] = g[x]
  PROVE  SumOver(f, S) = SumOver(g, S)
<1> DEFINE Bad == {s \in SUBSET S : SumOver(f, s) # SumOver(g, s)}
<1> SUFFICES ASSUME Bad # {} PROVE FALSE
  OBVIOUS
<1>1. PICK s \in Bad : \A r \in Bad : r \subseteq s => r = s
  <2>1. Bad \in SUBSET (SUBSET S)
    OBVIOUS
  <2> HIDE DEF Bad
  <2> QED BY <2>1, MinimalSubset
<1>2. s # {}
  BY SumEmpty
<1>3. IsFiniteSet(s)
  BY FS_Subset
<1>4. PickOf(s) \in s /\ s \ {PickOf(s)} \in SUBSET S /\ s \ {PickOf(s)} # s
  BY <1>2, SmallerSet
<1>5. f[PickOf(s)] = g[PickOf(s)] /\ SumOver(f, s \ {PickOf(s)}) = SumOver(g, s \ {PickOf(s)})
  BY <1>1, <1>4
<1>6. /\ SumOver(f, s) = f[PickOf(s)] + SumOver(f, s \ {PickOf(s)})
      /\ SumOver(g, s) = g[PickOf(s)] + SumOver(g, s \ {PickOf(s)})
  BY <1>2, <1>3, SumPick
<1> QED BY <1>5, <1>6

\* A change of one value changes the sum by as much.
LEMMA SumChange ==
  ASSUME NEW f, NEW g, NEW S, IsFiniteSet(S), NEW x \in S,
         \A y \in S : f[y] \in Int /\ g[y] \in Int,
         \A y \in S \ {x} : g[y] = f[y]
  PROVE  SumOver(g, S) = SumOver(f, S) - f[x] + g[x]
<1>1. IsFiniteSet(S \ {x})
  BY FS_Subset
<1>2. SumOver(f, S) = f[x] + SumOver(f, S \ {x}) /\ SumOver(g, S) = g[x] + SumOver(g, S \ {x})
  BY SumRemove
<1>3. SumOver(f, S \ {x}) = SumOver(g, S \ {x}) /\ SumOver(f, S \ {x}) \in Int
  BY <1>1, SumSame, SumType
<1> QED BY <1>2, <1>3

\* A sum of natural numbers is one, and at least each of them.
LEMMA SumNat ==
  ASSUME NEW f, NEW S, IsFiniteSet(S), \A x \in S : f[x] \in Nat
  PROVE  SumOver(f, S) \in Nat /\ \A x \in S : f[x] <= SumOver(f, S)
<1>1. ASSUME NEW T \in SUBSET S PROVE SumOver(f, T) \in Nat
  <2> DEFINE Bad == {s \in SUBSET S : SumOver(f, s) \notin Nat}
  <2> SUFFICES ASSUME Bad # {} PROVE FALSE
    OBVIOUS
  <2>1. PICK s \in Bad : \A r \in Bad : r \subseteq s => r = s
    <3>1. Bad \in SUBSET (SUBSET S)
      OBVIOUS
    <3> HIDE DEF Bad
    <3> QED BY <3>1, MinimalSubset
  <2>2. s # {}
    BY SumEmpty
  <2>3. IsFiniteSet(s)
    BY FS_Subset
  <2>4. PickOf(s) \in s /\ s \ {PickOf(s)} \in SUBSET S /\ s \ {PickOf(s)} # s
    BY <2>2, SmallerSet
  <2>5. f[PickOf(s)] \in Nat /\ SumOver(f, s \ {PickOf(s)}) \in Nat
    BY <2>1, <2>4
  <2>6. SumOver(f, s) = f[PickOf(s)] + SumOver(f, s \ {PickOf(s)})
    BY <2>2, <2>3, SumPick
  <2> QED BY <2>5, <2>6
<1>2. ASSUME NEW x \in S PROVE f[x] <= SumOver(f, S)
  <2>1. SumOver(f, S) = f[x] + SumOver(f, S \ {x})
    BY SumRemove
  <2>2. SumOver(f, S \ {x}) \in Nat
    BY <1>1
  <2> QED BY <2>1, <2>2
<1> QED BY <1>1, <1>2

\* Zeros sum up to zero.
LEMMA SumZero ==
  ASSUME NEW f, NEW S, IsFiniteSet(S), \A x \in S : f[x] = 0
  PROVE  SumOver(f, S) = 0
<1> DEFINE Bad == {s \in SUBSET S : SumOver(f, s) # 0}
<1> SUFFICES ASSUME Bad # {} PROVE FALSE
  OBVIOUS
<1>1. PICK s \in Bad : \A r \in Bad : r \subseteq s => r = s
  <2>1. Bad \in SUBSET (SUBSET S)
    OBVIOUS
  <2> HIDE DEF Bad
  <2> QED BY <2>1, MinimalSubset
<1>2. s # {}
  BY SumEmpty
<1>3. IsFiniteSet(s)
  BY FS_Subset
<1>4. PickOf(s) \in s /\ s \ {PickOf(s)} \in SUBSET S /\ s \ {PickOf(s)} # s
  BY <1>2, SmallerSet
<1>5. SumOver(f, s) = f[PickOf(s)] + SumOver(f, s \ {PickOf(s)})
  BY <1>2, <1>3, SumPick
<1>6. f[PickOf(s)] = 0 /\ SumOver(f, s \ {PickOf(s)}) = 0
  BY <1>1, <1>4
<1> QED BY <1>5, <1>6
=============================================================================
