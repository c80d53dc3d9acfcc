------------------------ MODULE ConsoleJournalProofs ------------------------
(***************************************************************************)
(* The journal of a console session, for any contracts, lots, minutes and  *)
(* bounds.                                                                 *)
(***************************************************************************)
EXTENDS ConsoleJournal, SumLemmas, SequenceTheorems

(* Induction up to a number, for a set of numbers. *)

LEMMA Induction ==
  ASSUME NEW N \in Nat, NEW G, 0 \in G, \A n \in 0..(N - 1) : n \in G => n + 1 \in G
  PROVE  0..N \subseteq G
<1> DEFINE Bad == (0..N) \ G
<1> SUFFICES ASSUME Bad # {} PROVE FALSE
  OBVIOUS
<1>1. Bad \in SUBSET Nat
  OBVIOUS
<1>2. PICK n \in Bad : \A m \in Bad : n <= m
  BY <1>1, MinimalNat
<1>3. n # 0 /\ n - 1 \in 0..(N - 1) /\ n \in 1..N
  OBVIOUS
<1>4. n - 1 \in G
  <2>1. n - 1 \in Bad => n <= n - 1
    BY <1>2
  <2> HIDE DEF Bad
  <2>2. n - 1 \notin Bad
    BY <2>1, <1>3
  <2> QED BY <2>2, <1>3 DEF Bad
<1>5. (n - 1) + 1 \in G
  BY <1>3, <1>4
<1>6. n \in G
  BY <1>5, <1>3
<1> QED BY <1>6

-----------------------------------------------------------------------------
(* First, Nth and Pick.                                                    *)

LEMMA FirstIs ==
  ASSUME NEW I \in SUBSET Nat, 0 \notin I
  PROVE  /\ First(I) \in Nat
         /\ First(I) = 0 <=> I = {}
         /\ I # {} => First(I) \in I /\ \A i \in I : First(I) <= i
<1>1. CASE I = {}
  BY <1>1 DEF First
<1>2. CASE I # {}
  <2>1. \E x \in I : \A y \in I : x <= y
    BY <1>2, MinimalNat
  <2>2. Min(I) \in I /\ \A y \in I : Min(I) <= y
    BY <2>1 DEF Min
  <2> QED BY <1>2, <2>2 DEF First
<1> QED BY <1>1, <1>2

LEMMA Positions ==
  ASSUME NEW n \in Nat, NEW I \in SUBSET (1..n)
  PROVE  IsFiniteSet(I) /\ Cardinality(I) \in 0..n /\ I \in SUBSET Nat /\ 0 \notin I
<1>1. IsFiniteSet(1..n) /\ Cardinality(1..n) = n
  BY FS_Interval
<1>2. IsFiniteSet(I) /\ Cardinality(I) <= Cardinality(1..n)
  BY <1>1, FS_Subset
<1>3. Cardinality(I) \in Nat
  BY <1>2, FS_CardinalityType
<1> QED BY <1>1, <1>2, <1>3

Rank(I, i) == Cardinality({h \in I : h <= i})

LEMMA RankGrows ==
  ASSUME NEW n \in Nat, NEW I \in SUBSET (1..n), NEW i \in I
  PROVE  /\ Rank(I, i) \in 1..Cardinality(I)
         /\ \A k \in I : i < k => Rank(I, i) < Rank(I, k)
<1>1. IsFiniteSet(I) /\ Cardinality(I) \in Nat /\ I \in SUBSET Nat
  BY Positions
<1>2. ASSUME NEW k \in I
      PROVE  /\ IsFiniteSet({h \in I : h <= k})
             /\ Rank(I, k) \in Nat /\ Rank(I, k) <= Cardinality(I)
  <2>1. {h \in I : h <= k} \in SUBSET I
    OBVIOUS
  <2> QED BY <1>1, <2>1, FS_Subset, FS_CardinalityType DEF Rank
<1>3. Rank(I, i) # 0
  <2>1. i \in {h \in I : h <= i}
    OBVIOUS
  <2> QED BY <1>2, <2>1, FS_EmptySet DEF Rank
<1>4. ASSUME NEW k \in I, i < k PROVE Rank(I, i) < Rank(I, k)
  <2> DEFINE A == {h \in I : h <= i}
             B == {h \in I : h <= k}
  <2>1. A \in SUBSET B
    <3>1. ASSUME NEW h \in I, h <= i PROVE h <= k
      <4>1. h \in Nat /\ i \in Nat /\ k \in Nat
        BY <1>1
      <4> QED BY <3>1, <4>1, <1>4
    <3> QED BY <3>1
  <2>2. k \in B /\ k \notin A
    BY <1>4
  <2>3. Cardinality(A) <= Cardinality(B) /\ Cardinality(A) # Cardinality(B)
    BY <1>2, <2>1, <2>2, FS_Subset
  <2> QED BY <1>2, <2>3 DEF Rank
<1> QED
  <2>1. Rank(I, i) \in Nat /\ Rank(I, i) <= Cardinality(I) /\ Rank(I, i) # 0
    BY <1>2, <1>3
  <2> QED BY <1>1, <1>4, <2>1

LEMMA NthIs ==
  ASSUME NEW n \in Nat, NEW I \in SUBSET (1..n)
  PROVE  /\ Cardinality(I) \in 0..n
         /\ \A k \in 1..Cardinality(I) : Nth(I, k) \in I /\ Rank(I, Nth(I, k)) = k
         /\ \A i \in I : Nth(I, Rank(I, i)) = i
         /\ \A k, l \in 1..Cardinality(I) : k < l => Nth(I, k) < Nth(I, l)
<1>1. IsFiniteSet(I) /\ Cardinality(I) \in 0..n /\ I \in SUBSET Nat
  BY Positions
<1> DEFINE N == Cardinality(I)
           f == [i \in I |-> Rank(I, i)]
<1>2. \A i, k \in I : Rank(I, i) = Rank(I, k) => i = k
  <2> SUFFICES ASSUME NEW i \in I, NEW k \in I, Rank(I, i) = Rank(I, k), i # k PROVE FALSE
    OBVIOUS
  <2>1. i < k \/ k < i
    OBVIOUS
  <2>2. Rank(I, i) \in 1..N
    BY RankGrows
  <2>3. Rank(I, i) < Rank(I, k) \/ Rank(I, k) < Rank(I, i)
    BY <2>1, RankGrows
  <2> HIDE DEF N
  <2> QED BY <2>2, <2>3
<1>3. f \in Injection(I, 1..N)
  <2>1. f \in [I -> 1..N]
    BY RankGrows
  <2> QED BY <1>2, <2>1 DEF Injection, IsInjective
<1>4. IsFiniteSet(1..N) /\ Cardinality(1..N) = N
  BY <1>1, FS_Interval
<1>5. f \in Surjection(I, 1..N)
  BY <1>1, <1>3, <1>4, FS_Injection
<1>6. \A k \in 1..N : \E i \in I : Rank(I, i) = k
  <2>1. \A k \in 1..N : \E i \in I : f[i] = k
    BY <1>5 DEF Surjection
  <2> QED BY <2>1
<1> HIDE DEF f, N
<1>7. ASSUME NEW k \in 1..N PROVE Nth(I, k) \in I /\ Rank(I, Nth(I, k)) = k
  BY <1>6 DEF Nth, Rank
<1>8. ASSUME NEW i \in I PROVE Nth(I, Rank(I, i)) = i
  <2>1. Rank(I, i) \in 1..N
    BY RankGrows DEF N
  <2> QED BY <1>2, <1>7, <2>1
<1>9. ASSUME NEW k \in 1..N, NEW l \in 1..N, k < l PROVE Nth(I, k) < Nth(I, l)
  <2>1. Nth(I, k) \in I /\ Nth(I, l) \in I /\ Rank(I, Nth(I, k)) = k /\ Rank(I, Nth(I, l)) = l
    BY <1>7
  <2>2. Nth(I, l) < Nth(I, k) => l < k
    BY <2>1, RankGrows
  <2>3. Nth(I, k) # Nth(I, l)
    BY <2>1, <1>9
  <2>4. Nth(I, k) \in Nat /\ Nth(I, l) \in Nat
    BY <2>1, <1>1
  <2>5. k \in Nat /\ l \in Nat
    OBVIOUS
  <2> QED BY <1>9, <2>2, <2>3, <2>4, <2>5
<1> QED BY <1>1, <1>7, <1>8, <1>9 DEF N

LEMMA PickIs ==
  ASSUME NEW S, NEW j \in Seq(S), NEW I \in SUBSET DOMAIN j
  PROVE  /\ Pick(j, I) \in Seq(S) /\ Len(Pick(j, I)) = Cardinality(I)
         /\ Cardinality(I) \in 0..Len(j) /\ DOMAIN Pick(j, I) = 1..Cardinality(I)
         /\ \A k \in 1..Cardinality(I) : Nth(I, k) \in I /\ Pick(j, I)[k] = j[Nth(I, k)]
         /\ \A i \in I : \E k \in 1..Cardinality(I) : Pick(j, I)[k] = j[i]
<1>1. Len(j) \in Nat /\ DOMAIN j = 1..Len(j)
  BY LenProperties
<1>2. Cardinality(I) \in 0..Len(j) /\ \A k \in 1..Cardinality(I) : Nth(I, k) \in I
  BY <1>1, NthIs
<1>3. \A k \in 1..Cardinality(I) : j[Nth(I, k)] \in S
  BY <1>1, <1>2, ElementOfSeq
<1>4. Cardinality(I) \in Nat
  BY <1>1, <1>2
<1>5. Pick(j, I) \in [1..Cardinality(I) -> S]
  BY <1>3 DEF Pick
<1>6. Pick(j, I) \in Seq(S) /\ Len(Pick(j, I)) = Cardinality(I)
  BY <1>4, <1>5
<1>7. ASSUME NEW i \in I PROVE \E k \in 1..Cardinality(I) : Pick(j, I)[k] = j[i]
  <2>1. Rank(I, i) \in 1..Cardinality(I)
    BY <1>1, RankGrows
  <2>2. Nth(I, Rank(I, i)) = i
    BY <1>1, NthIs
  <2> QED BY <2>1, <2>2 DEF Pick
<1> QED BY <1>2, <1>5, <1>6, <1>7 DEF Pick

\* Positions that are moved, but kept in order, with what is at them.
LEMMA PickMoved ==
  ASSUME NEW S, NEW j \in Seq(S), NEW I \in SUBSET DOMAIN j,
         NEW h \in Seq(S), NEW K \in SUBSET DOMAIN h,
         NEW f \in [I -> K], \A i, k \in I : i < k => f[i] < f[k],
         \A k \in K : \E i \in I : f[i] = k,
         \A i \in I : h[f[i]] = j[i]
  PROVE  Pick(h, K) = Pick(j, I) /\ Cardinality(K) = Cardinality(I)
<1>1. /\ Len(j) \in Nat /\ DOMAIN j = 1..Len(j)
      /\ Len(h) \in Nat /\ DOMAIN h = 1..Len(h)
  BY LenProperties
<1>2. /\ IsFiniteSet(I) /\ Cardinality(I) \in Nat /\ I \in SUBSET Nat
      /\ IsFiniteSet(K) /\ Cardinality(K) \in Nat /\ K \in SUBSET Nat
  BY <1>1, Positions
<1>3. \A i, k \in I : f[i] <= f[k] <=> i <= k
  <2> SUFFICES ASSUME NEW i \in I, NEW k \in I PROVE f[i] <= f[k] <=> i <= k
    OBVIOUS
  <2>1. i \in Nat /\ k \in Nat /\ f[i] \in Nat /\ f[k] \in Nat
    BY <1>2
  <2>2. i < k \/ i = k \/ k < i
    BY <2>1
  <2> QED BY SMTT(30), <2>1, <2>2
<1>4. ASSUME NEW i \in I PROVE Rank(K, f[i]) = Rank(I, i)
  <2> DEFINE A == {a \in I : a <= i}
             B == {b \in K : b <= f[i]}
             g == [a \in A |-> f[a]]
  <2>1. g \in [A -> B]
    BY <1>3
  <2>2. \A a, b \in A : g[a] = g[b] => a = b
    <3> SUFFICES ASSUME NEW a \in A, NEW b \in A, f[a] = f[b] PROVE a = b
      OBVIOUS
    <3>1. a \in Nat /\ b \in Nat /\ f[a] \in Nat
      BY <1>2
    <3>2. a <= b /\ b <= a
      BY <1>3, <3>1
    <3> QED BY <3>1, <3>2
  <2>3. \A b \in B : \E a \in A : g[a] = b
    BY <1>3
  <2>4. g \in Bijection(A, B)
    BY <2>1, <2>2, <2>3 DEF Bijection, Injection, Surjection, IsInjective
  <2>5. IsFiniteSet(A)
    BY <1>2, FS_Subset
  <2>6. Cardinality(A) = Cardinality(B)
    BY <2>4, <2>5, FS_Bijection DEF ExistsBijection
  <2> QED BY <2>6 DEF Rank
<1>5. Cardinality(K) = Cardinality(I)
  <2>1. \A a, b \in I : f[a] = f[b] => a = b
    <3> SUFFICES ASSUME NEW a \in I, NEW b \in I, f[a] = f[b] PROVE a = b
      OBVIOUS
    <3>1. a \in Nat /\ b \in Nat /\ f[a] \in Nat
      BY <1>2
    <3>2. a <= b /\ b <= a
      BY <1>3, <3>1
    <3> QED BY <3>1, <3>2
  <2>2. f \in Bijection(I, K)
    BY <2>1 DEF Bijection, Injection, Surjection, IsInjective
  <2> QED BY <1>2, <2>2, FS_Bijection DEF ExistsBijection
<1>6. ASSUME NEW k \in 1..Cardinality(I) PROVE Nth(K, k) = f[Nth(I, k)]
  <2>1. Nth(I, k) \in I /\ Rank(I, Nth(I, k)) = k
    BY <1>1, NthIs
  <2>2. Rank(K, f[Nth(I, k)]) = k /\ f[Nth(I, k)] \in K
    BY <2>1, <1>4
  <2>3. Nth(K, Rank(K, f[Nth(I, k)])) = f[Nth(I, k)]
    BY <1>1, <2>2, NthIs
  <2> QED BY <2>2, <2>3
<1>7. \A k \in 1..Cardinality(I) : h[Nth(K, k)] = j[Nth(I, k)]
  <2>1. \A k \in 1..Cardinality(I) : Nth(I, k) \in I
    BY <1>1, NthIs
  <2> QED BY <2>1, <1>6
<1> QED BY <1>5, <1>7 DEF Pick

Sorted(j) == \A i, k \in DOMAIN j : i < k => j[i].at <= j[k].at

LEMMA PickSorted ==
  ASSUME NEW S, NEW j \in Seq(S), NEW I \in SUBSET DOMAIN j, Sorted(j)
  PROVE  Sorted(Pick(j, I))
<1>1. Len(j) \in Nat /\ DOMAIN j = 1..Len(j)
  BY LenProperties
<1> SUFFICES ASSUME NEW k \in DOMAIN Pick(j, I), NEW l \in DOMAIN Pick(j, I), k < l
             PROVE  Pick(j, I)[k].at <= Pick(j, I)[l].at
  BY DEF Sorted
<1>2. k \in 1..Cardinality(I) /\ l \in 1..Cardinality(I)
  BY PickIs
<1>3. Nth(I, k) \in DOMAIN j /\ Nth(I, l) \in DOMAIN j
  BY <1>2, PickIs
<1>4. Nth(I, k) < Nth(I, l)
  BY <1>1, <1>2, NthIs
<1> QED BY ZenonT(60), <1>2, <1>3, <1>4, PickIs DEF Sorted

\* In order of their minutes, the rows by a minute are the first ones.
LEMMA UptoIs ==
  ASSUME NEW S, NEW j \in Seq(S), Sorted(j), NEW m \in Int, \A i \in DOMAIN j : j[i].at \in Int
  PROVE  /\ Upto(j, m) \in 0..Len(j)
         /\ \A i \in DOMAIN j : j[i].at <= m <=> i <= Upto(j, m)
<1> DEFINE D == {i \in DOMAIN j : j[i].at <= m}
           After == {i \in DOMAIN j : ~(j[i].at <= m)} \cup {Len(j) + 1}
<1>1. Len(j) \in Nat /\ DOMAIN j = 1..Len(j)
  BY LenProperties
<1>2. After \in SUBSET Nat /\ After # {}
  BY <1>1
<1>3. PICK a \in After : \A b \in After : a <= b
  BY <1>2, MinimalNat
<1>4. a \in 1..(Len(j) + 1)
  BY <1>1
<1>5. ASSUME NEW i \in DOMAIN j, i < a PROVE j[i].at <= m
  <2>1. i \in After => a <= i
    BY <1>3
  <2>2. i \in Nat /\ a \in Nat
    BY <1>1, <1>4
  <2>3. i \notin After
    BY <2>1, <2>2, <1>5
  <2> QED BY <2>3
<1>6. ASSUME NEW i \in DOMAIN j, ~(i < a) PROVE ~(j[i].at <= m)
  <2>1. i \in 1..Len(j) /\ a <= i
    BY <1>1, <1>4, <1>6
  <2>2. a \in DOMAIN j /\ ~(j[a].at <= m)
    BY <2>1, <1>1, <1>4
  <2>3. a = i \/ a < i
    BY <2>1, <1>4
  <2>4. j[a].at <= j[i].at
    BY <2>2, <2>3 DEF Sorted
  <2> QED BY <2>2, <2>4
<1>7. D = 1..(a - 1)
  BY <1>1, <1>4, <1>5, <1>6
<1>8. Cardinality(1..(a - 1)) = a - 1
  BY <1>4, FS_Interval
<1>9. Upto(j, m) = a - 1
  BY <1>7, <1>8 DEF Upto
<1> QED BY <1>1, <1>4, <1>5, <1>6, <1>9

\* The books after each row.
LEMMA BooksAre ==
  ASSUME NEW rows, Len(rows) \in Nat
  PROVE  LET f == Books(rows)
         IN  /\ DOMAIN f = 0..Len(rows) /\ f[0] = EmptyBook
             /\ \A n \in 1..Len(rows) : f[n] = Reapply(f[n - 1], rows[n])
<1> DEFINE Step(x, n) == Reapply(x, rows[n])
           Runs(g, m) == g = [n \in 0..m |-> IF n = 0 THEN EmptyBook ELSE Step(g[n - 1], n)]
           G == {m \in Nat : \E g : Runs(g, m)}
           f == Books(rows)
<1>1. (\E g : Runs(g, Len(rows))) => Runs(f, Len(rows))
  BY DEF Books
<1> HIDE DEF Step, f
<1>2. 0 \in G
  <2> DEFINE g == [n \in {0} |-> EmptyBook]
  <2>1. Runs(g, 0)
    OBVIOUS
  <2> HIDE DEF Runs
  <2> QED BY <2>1
<1>3. ASSUME NEW m \in Nat, m \in G PROVE m + 1 \in G
  <2>1. PICK g : Runs(g, m)
    BY <1>3
  <2> DEFINE h == [n \in 0..(m + 1) |-> IF n = 0 THEN EmptyBook ELSE Step(g[n - 1], n)]
  <2>2. \A n \in 0..m : h[n] = g[n]
    BY <2>1
  <2>3. ASSUME NEW n \in 1..(m + 1) PROVE Step(g[n - 1], n) = Step(h[n - 1], n)
    <3>1. n - 1 \in 0..m
      OBVIOUS
    <3>2. g[n - 1] = h[n - 1]
      BY <2>2, <3>1
    <3> QED BY <3>2
  <2>4. ASSUME NEW n \in 0..(m + 1)
        PROVE  (IF n = 0 THEN EmptyBook ELSE Step(g[n - 1], n))
                 = (IF n = 0 THEN EmptyBook ELSE Step(h[n - 1], n))
    <3>1. n = 0 \/ n \in 1..(m + 1)
      OBVIOUS
    <3> QED BY <3>1, <2>3
  <2>5. h = [n \in 0..(m + 1) |-> IF n = 0 THEN EmptyBook ELSE Step(g[n - 1], n)]
    OBVIOUS
  <2> HIDE DEF h
  <2>6. Runs(h, m + 1)
    BY <2>4, <2>5, Zenon
  <2> HIDE DEF Runs
  <2> QED BY <2>6
<1>4. 0..Len(rows) \subseteq G
  <2>1. \A n \in 0..(Len(rows) - 1) : n \in G => n + 1 \in G
    BY <1>3
  <2> HIDE DEF G
  <2> QED BY <1>2, <2>1, Induction
<1>5. Runs(f, Len(rows))
  <2> HIDE DEF Runs
  <2> QED BY <1>1, <1>4
<1>6. DOMAIN f = 0..Len(rows) /\ f[0] = EmptyBook
  BY <1>5
<1>7. \A n \in 1..Len(rows) : f[n] = Step(f[n - 1], n)
  BY <1>5
<1> QED BY <1>6, <1>7 DEF f, Step

\* The journal after the settlement of each contract.
LEMMA SettledIs ==
  ASSUME NEW j, NEW rows, Len(rows) \in Nat
  PROVE  LET f == Settlements(j, rows)
         IN  /\ DOMAIN f = 0..Len(rows) /\ f[0] = j
             /\ \A n \in 1..Len(rows) : f[n] = Settle(f[n - 1], rows[n].symbol)
<1> DEFINE Step(x, n) == Settle(x, rows[n].symbol)
           Runs(g, m) == g = [n \in 0..m |-> IF n = 0 THEN j ELSE Step(g[n - 1], n)]
           G == {m \in Nat : \E g : Runs(g, m)}
           f == Settlements(j, rows)
<1>1. (\E g : Runs(g, Len(rows))) => Runs(f, Len(rows))
  BY DEF Settlements
<1> HIDE DEF Step, f
<1>2. 0 \in G
  <2> DEFINE g == [n \in {0} |-> j]
  <2>1. Runs(g, 0)
    OBVIOUS
  <2> HIDE DEF Runs
  <2> QED BY <2>1
<1>3. ASSUME NEW m \in Nat, m \in G PROVE m + 1 \in G
  <2>1. PICK g : Runs(g, m)
    BY <1>3
  <2> DEFINE h == [n \in 0..(m + 1) |-> IF n = 0 THEN j ELSE Step(g[n - 1], n)]
  <2>2. \A n \in 0..m : h[n] = g[n]
    BY <2>1
  <2>3. ASSUME NEW n \in 1..(m + 1) PROVE Step(g[n - 1], n) = Step(h[n - 1], n)
    <3>1. n - 1 \in 0..m
      OBVIOUS
    <3>2. g[n - 1] = h[n - 1]
      BY <2>2, <3>1
    <3> QED BY <3>2
  <2>4. ASSUME NEW n \in 0..(m + 1)
        PROVE  (IF n = 0 THEN j ELSE Step(g[n - 1], n))
                 = (IF n = 0 THEN j ELSE Step(h[n - 1], n))
    <3>1. n = 0 \/ n \in 1..(m + 1)
      OBVIOUS
    <3> QED BY <3>1, <2>3
  <2>5. h = [n \in 0..(m + 1) |-> IF n = 0 THEN j ELSE Step(g[n - 1], n)]
    OBVIOUS
  <2> HIDE DEF h
  <2>6. Runs(h, m + 1)
    BY <2>4, <2>5, Zenon
  <2> HIDE DEF Runs
  <2> QED BY <2>6
<1>4. 0..Len(rows) \subseteq G
  <2>1. \A n \in 0..(Len(rows) - 1) : n \in G => n + 1 \in G
    BY <1>3
  <2> HIDE DEF G
  <2> QED BY <1>2, <2>1, Induction
<1>5. Runs(f, Len(rows))
  <2> HIDE DEF Runs
  <2> QED BY <1>1, <1>4
<1>6. DOMAIN f = 0..Len(rows) /\ f[0] = j
  BY <1>5
<1>7. \A n \in 1..Len(rows) : f[n] = Step(f[n - 1], n)
  BY <1>5
<1> QED BY <1>6, <1>7 DEF f, Step

\* What an action has done after each item.
LEMMA AppliedIs ==
  ASSUME NEW start, NEW items, Len(items) \in Nat
  PROVE  LET f == Applied(start, items)
         IN  /\ DOMAIN f = 0..Len(items) /\ f[0] = start
             /\ \A n \in 1..Len(items) : f[n] = Apply(f[n - 1], items[n])
<1> DEFINE Step(x, n) == Apply(x, items[n])
           Runs(g, m) == g = [n \in 0..m |-> IF n = 0 THEN start ELSE Step(g[n - 1], n)]
           G == {m \in Nat : \E g : Runs(g, m)}
           f == Applied(start, items)
<1>1. (\E g : Runs(g, Len(items))) => Runs(f, Len(items))
  BY DEF Applied
<1> HIDE DEF Step, f
<1>2. 0 \in G
  <2> DEFINE g == [n \in {0} |-> start]
  <2>1. Runs(g, 0)
    OBVIOUS
  <2> HIDE DEF Runs
  <2> QED BY <2>1
<1>3. ASSUME NEW m \in Nat, m \in G PROVE m + 1 \in G
  <2>1. PICK g : Runs(g, m)
    BY <1>3
  <2> DEFINE h == [n \in 0..(m + 1) |-> IF n = 0 THEN start ELSE Step(g[n - 1], n)]
  <2>2. \A n \in 0..m : h[n] = g[n]
    BY <2>1
  <2>3. ASSUME NEW n \in 1..(m + 1) PROVE Step(g[n - 1], n) = Step(h[n - 1], n)
    <3>1. n - 1 \in 0..m
      OBVIOUS
    <3>2. g[n - 1] = h[n - 1]
      BY <2>2, <3>1
    <3> QED BY <3>2
  <2>4. ASSUME NEW n \in 0..(m + 1)
        PROVE  (IF n = 0 THEN start ELSE Step(g[n - 1], n))
                 = (IF n = 0 THEN start ELSE Step(h[n - 1], n))
    <3>1. n = 0 \/ n \in 1..(m + 1)
      OBVIOUS
    <3> QED BY <3>1, <2>3
  <2>5. h = [n \in 0..(m + 1) |-> IF n = 0 THEN start ELSE Step(g[n - 1], n)]
    OBVIOUS
  <2> HIDE DEF h
  <2>6. Runs(h, m + 1)
    BY <2>4, <2>5, Zenon
  <2> HIDE DEF Runs
  <2> QED BY <2>6
<1>4. 0..Len(items) \subseteq G
  <2>1. \A n \in 0..(Len(items) - 1) : n \in G => n + 1 \in G
    BY <1>3
  <2> HIDE DEF G
  <2> QED BY <1>2, <2>1, Induction
<1>5. Runs(f, Len(items))
  <2> HIDE DEF Runs
  <2> QED BY <1>1, <1>4
<1>6. DOMAIN f = 0..Len(items) /\ f[0] = start
  BY <1>5
<1>7. \A n \in 1..Len(items) : f[n] = Step(f[n - 1], n)
  BY <1>5
<1> QED BY <1>6, <1>7 DEF f, Step

\* The rows that undo gives back.
LEMMA BackIs ==
  ASSUME NEW j, NEW last, Len(j) \in Nat
  PROVE  LET f == Back(j, last)
         IN  /\ DOMAIN f = 0..Len(j) /\ f[0] = <<>>
             /\ \A n \in 1..Len(j) : f[n] = f[n - 1] \o GivenBack(j[n], last)
<1> DEFINE Step(x, n) == x \o GivenBack(j[n], last)
           Runs(g, m) == g = [n \in 0..m |-> IF n = 0 THEN <<>> ELSE Step(g[n - 1], n)]
           G == {m \in Nat : \E g : Runs(g, m)}
           f == Back(j, last)
<1>1. (\E g : Runs(g, Len(j))) => Runs(f, Len(j))
  BY Zenon DEF Back
<1> HIDE DEF Step, f
<1>2. 0 \in G
  <2> DEFINE g == [n \in {0} |-> <<>>]
  <2>1. Runs(g, 0)
    OBVIOUS
  <2> HIDE DEF Runs
  <2> QED BY <2>1
<1>3. ASSUME NEW m \in Nat, m \in G PROVE m + 1 \in G
  <2>1. PICK g : Runs(g, m)
    BY <1>3
  <2> DEFINE h == [n \in 0..(m + 1) |-> IF n = 0 THEN <<>> ELSE Step(g[n - 1], n)]
  <2>2. \A n \in 0..m : h[n] = g[n]
    BY <2>1
  <2>3. ASSUME NEW n \in 1..(m + 1) PROVE Step(g[n - 1], n) = Step(h[n - 1], n)
    <3>1. n - 1 \in 0..m
      OBVIOUS
    <3>2. g[n - 1] = h[n - 1]
      BY <2>2, <3>1
    <3> QED BY <3>2
  <2>4. ASSUME NEW n \in 0..(m + 1)
        PROVE  (IF n = 0 THEN <<>> ELSE Step(g[n - 1], n))
                 = (IF n = 0 THEN <<>> ELSE Step(h[n - 1], n))
    <3>1. n = 0 \/ n \in 1..(m + 1)
      OBVIOUS
    <3> QED BY <3>1, <2>3
  <2>5. h = [n \in 0..(m + 1) |-> IF n = 0 THEN <<>> ELSE Step(g[n - 1], n)]
    OBVIOUS
  <2> HIDE DEF h
  <2>6. Runs(h, m + 1)
    BY <2>4, <2>5, Zenon
  <2> HIDE DEF Runs
  <2> QED BY <2>6
<1>4. 0..Len(j) \subseteq G
  <2>1. \A n \in 0..(Len(j) - 1) : n \in G => n + 1 \in G
    BY <1>3
  <2> HIDE DEF G
  <2> QED BY <1>2, <2>1, Induction
<1>5. Runs(f, Len(j))
  <2> HIDE DEF Runs
  <2> QED BY <1>1, <1>4
<1>6. DOMAIN f = 0..Len(j) /\ f[0] = <<>>
  BY <1>5
<1>7. \A n \in 1..Len(j) : f[n] = Step(f[n - 1], n)
  BY <1>5
<1> QED BY SMTT(30), <1>6, <1>7 DEF f, Step

-----------------------------------------------------------------------------
(* Rows and journals.                                                      *)

RowActions == {"BUY", "SELL", "SHORT", "COVER", "SETTLE", "NOOP"}
RowsOver(W, g) ==
  [at : Minutes \cup {ExpiryAt}, symbol : Contracts, action : RowActions,
   group : 0..g, lots : Nat, replaces : Seq(W)]

\* Rows that replace, in their own minute, only rows that are among them too.
AreRows(W, g) ==
  /\ W \subseteq RowsOver(W, g)
  /\ \A r \in W : /\ r.action # "NOOP" => r.lots > 0
                  /\ r.action = "SETTLE" => r.at = ExpiryAt
                  /\ \A i \in DOMAIN r.replaces : r.replaces[i].at = r.at
IsJournal(j, g) == \E W : AreRows(W, g) /\ j \in Seq(W) /\ Sorted(j)

LEMMA MinutesAreInt == Minutes \cup {ExpiryAt} \subseteq Nat
  BY JournalAssumption

LEMMA RowIs ==
  ASSUME NEW W, NEW g, AreRows(W, g), NEW j \in Seq(W), NEW i \in DOMAIN j
  PROVE  /\ j[i] \in W /\ j[i] \in RowsOver(W, g) /\ j[i].at \in Nat
         /\ j[i].action # "NOOP" => j[i].lots > 0
<1>1. j[i] \in W
  BY LenProperties, ElementOfSeq
<1>2. j[i] \in RowsOver(W, g) /\ (j[i].action # "NOOP" => j[i].lots > 0)
  BY <1>1 DEF AreRows
<1> QED BY <1>1, <1>2, MinutesAreInt DEF RowsOver

LEMMA AfterFirst ==
  ASSUME NEW n \in Nat, NEW p \in Nat, p <= n
  PROVE  /\ n - (p + 1) + 1 = n - p /\ (~(p + 1 <= n) => n - p = 0)
         /\ \A i \in 1..(n - p) : (p + 1) + i - 1 = p + i
         /\ \A i \in 1..(n + 1) : i > p + 1 =>
              i - (p + 1) \in 1..(n - p) /\ p + (i - (p + 1)) = i - 1
  OBVIOUS

\* A row in the middle.
LEMMA InsertAtIs ==
  ASSUME NEW S, NEW j \in Seq(S), NEW row \in S, NEW p \in 0..Len(j)
  PROVE  LET h == InsertAt(j, p + 1, row)
         IN  /\ h \in Seq(S) /\ Len(h) = Len(j) + 1 /\ DOMAIN h = 1..(Len(j) + 1)
             /\ \A i \in DOMAIN h :
                  h[i] = IF i <= p THEN j[i] ELSE IF i = p + 1 THEN row ELSE j[i - 1]
<1> DEFINE h == InsertAt(j, p + 1, row)
           a == SubSeq(j, 1, p)
           c == SubSeq(j, p + 1, Len(j))
<1>1. Len(j) \in Nat /\ DOMAIN j = 1..Len(j) /\ j \in [1..Len(j) -> S]
  BY LenProperties
<1>2. p \in Nat /\ p <= Len(j)
  BY <1>1
<1>3. a \in Seq(S) /\ Len(a) = p /\ \A i \in 1..p : a[i] = j[i]
  <2>1. \A i \in 1..p : j[i] \in S
    BY <1>1, <1>2
  <2> QED BY <1>2, <2>1, SubSeqProperties
<1>4. c \in Seq(S) /\ Len(c) = Len(j) - p /\ \A i \in 1..(Len(j) - p) : c[i] = j[p + i]
  <2>1. \A i \in (p + 1)..Len(j) : j[i] \in S
    BY <1>1, <1>2
  <2>2. /\ c \in Seq(S)
        /\ Len(c) = IF p + 1 <= Len(j) THEN Len(j) - (p + 1) + 1 ELSE 0
        /\ \A i \in 1..(Len(j) - (p + 1) + 1) : c[i] = j[(p + 1) + i - 1]
    BY <1>1, <1>2, <2>1, SubSeqProperties
  <2>5. p \in Nat /\ Len(j) \in Nat /\ p <= Len(j)
    BY <1>1, <1>2
  <2>3. Len(j) - (p + 1) + 1 = Len(j) - p /\ (~(p + 1 <= Len(j)) => Len(j) - p = 0)
    BY <2>5, AfterFirst
  <2>4. \A i \in 1..(Len(j) - p) : (p + 1) + i - 1 = p + i
    BY <2>5, AfterFirst
  <2> HIDE DEF c
  <2> QED BY <2>2, <2>3, <2>4
<1>5. h = (a \o <<row>>) \o c
  <2>1. (p + 1) - 1 = p
    BY <1>2
  <2> QED BY <2>1 DEF InsertAt
<1> HIDE DEF a, c, h
<1>6. /\ a \o <<row>> \in Seq(S) /\ Len(a \o <<row>>) = p + 1
      /\ \A i \in 1..(p + 1) : (a \o <<row>>)[i] = IF i <= p THEN j[i] ELSE row
  <2>1. <<row>> \in Seq(S) /\ Len(<<row>>) = 1 /\ <<row>>[1] = row
    OBVIOUS
  <2>2. /\ a \o <<row>> \in Seq(S) /\ Len(a \o <<row>>) = p + 1
        /\ \A i \in 1..(p + 1) : (a \o <<row>>)[i] = IF i <= p THEN a[i] ELSE <<row>>[i - p]
    BY <1>3, <2>1, ConcatProperties
  <2>3. ASSUME NEW i \in 1..(p + 1) PROVE (a \o <<row>>)[i] = IF i <= p THEN j[i] ELSE row
    <3>1. CASE i <= p
      BY <3>1, <2>2, <1>3, <1>2
    <3>2. CASE ~(i <= p)
      <4>1. i - p = 1
        BY <3>2, <1>2
      <4> QED BY <3>2, <4>1, <2>2, <2>1
    <3> QED BY <3>1, <3>2
  <2> QED BY <2>2, <2>3
<1>7. /\ h \in Seq(S) /\ Len(h) = Len(j) + 1
      /\ \A i \in 1..(Len(j) + 1) :
           h[i] = IF i <= p + 1 THEN (a \o <<row>>)[i] ELSE c[i - (p + 1)]
  <2>1. (p + 1) + (Len(j) - p) = Len(j) + 1
    BY <1>1, <1>2
  <2>2. /\ h \in Seq(S) /\ Len(h) = Len(a \o <<row>>) + Len(c)
        /\ \A i \in 1..(Len(a \o <<row>>) + Len(c)) :
             h[i] = IF i <= Len(a \o <<row>>) THEN (a \o <<row>>)[i]
                    ELSE c[i - Len(a \o <<row>>)]
    BY <1>4, <1>5, <1>6, ConcatProperties
  <2> QED BY <1>4, <1>6, <2>1, <2>2
<1>8. DOMAIN h = 1..(Len(j) + 1)
  BY <1>7, LenProperties
<1>9. ASSUME NEW i \in DOMAIN h
      PROVE  h[i] = IF i <= p THEN j[i] ELSE IF i = p + 1 THEN row ELSE j[i - 1]
  <2>1. CASE i <= p + 1
    <3>1. i \in 1..(p + 1) /\ i \in 1..(Len(j) + 1) /\ (i <= p \/ (~(i <= p) /\ i = p + 1))
      BY <2>1, <1>8, <1>2
    <3>2. h[i] = (a \o <<row>>)[i]
      BY <2>1, <3>1, <1>7
    <3>3. (a \o <<row>>)[i] = IF i <= p THEN j[i] ELSE row
      BY <3>1, <1>6
    <3> QED BY <3>1, <3>2, <3>3
  <2>2. CASE ~(i <= p + 1)
    <3> DEFINE q == i - (p + 1)
    <3>3. i \in 1..(Len(j) + 1) /\ p \in Nat /\ Len(j) \in Nat /\ p <= Len(j)
      BY <1>8, <1>2, <1>1
    <3>4. i > p + 1
      BY <2>2, <3>3
    <3>1. q \in 1..(Len(j) - p) /\ p + q = i - 1
      BY <3>4, <3>3, AfterFirst
    <3>2. c[i - (p + 1)] = j[i - 1]
      BY <3>1, <1>4
    <3> QED BY <2>2, <3>2, <1>7, <1>8, <1>2
  <2> QED BY <2>1, <2>2
<1> QED BY <1>7, <1>8, <1>9 DEF h

\* ... at its place in the order.
LEMMA InsertSorted ==
  ASSUME NEW S, NEW j \in Seq(S), NEW row \in S, NEW p \in 0..Len(j), Sorted(j),
         \A i \in DOMAIN j : i <= p => j[i].at <= row.at,
         \A i \in DOMAIN j : ~(i <= p) => row.at <= j[i].at
  PROVE  Sorted(InsertAt(j, p + 1, row))
<1> DEFINE h == InsertAt(j, p + 1, row)
<1>1. Len(j) \in Nat /\ DOMAIN j = 1..Len(j)
  BY LenProperties
<1>2. p \in Nat /\ p <= Len(j)
  BY <1>1
<1>8. DOMAIN h = 1..(Len(j) + 1)
  BY InsertAtIs
<1>9. \A i \in DOMAIN h : h[i] = IF i <= p THEN j[i] ELSE IF i = p + 1 THEN row ELSE j[i - 1]
  BY InsertAtIs
<1> HIDE DEF h
<1>10. Sorted(h)
  <2> SUFFICES ASSUME NEW i \in DOMAIN h, NEW k \in DOMAIN h, i < k PROVE h[i].at <= h[k].at
    BY DEF Sorted
  <2>1. i \in 1..(Len(j) + 1) /\ k \in 1..(Len(j) + 1)
    BY <1>8
  <2>2. CASE k <= p
    <3>1. h[i] = j[i] /\ h[k] = j[k] /\ i \in DOMAIN j /\ k \in DOMAIN j
      BY <2>1, <2>2, <1>1, <1>2, <1>9
    <3> QED BY <3>1 DEF Sorted
  <2>3. CASE k = p + 1
    <3>1. h[i] = j[i] /\ h[k] = row /\ i \in DOMAIN j /\ i <= p
      BY <2>1, <2>3, <1>1, <1>2, <1>9
    <3> QED BY <3>1
  <2>4. CASE k > p + 1
    <3>1. h[k] = j[k - 1] /\ k - 1 \in DOMAIN j /\ ~(k - 1 <= p)
      BY <2>1, <2>4, <1>1, <1>2, <1>9
    <3>2. CASE i = p + 1
      <4>1. h[i] = row
        BY <3>2, <1>9, <1>2
      <4> QED BY <4>1, <3>1
    <3>3. CASE i <= p
      <4>1. h[i] = j[i] /\ i \in DOMAIN j /\ i < k - 1
        BY <2>1, <2>4, <3>3, <1>1, <1>2, <1>9
      <4> QED BY <4>1, <3>1 DEF Sorted
    <3>4. CASE i > p + 1
      <4>1. h[i] = j[i - 1] /\ i - 1 \in DOMAIN j /\ i - 1 < k - 1
        BY <2>1, <2>4, <3>4, <1>1, <1>2, <1>9
      <4> QED BY <4>1, <3>1 DEF Sorted
    <3> QED BY <3>2, <3>3, <3>4, <2>1, <1>2
  <2>5. k <= p \/ k = p + 1 \/ k > p + 1
    <3>1. k \in Nat
      BY <2>1, <1>1
    <3> QED BY <3>1, <1>2
  <2> QED BY <2>2, <2>3, <2>4, <2>5
<1> QED BY <1>10 DEF h

LEMMA InsertIs ==
  ASSUME NEW S, NEW j \in Seq(S), Sorted(j), \A i \in DOMAIN j : j[i].at \in Int,
         NEW row \in S, row.at \in Int
  PROVE  LET h == Insert(j, row)
             p == Upto(j, row.at)
         IN  /\ h \in Seq(S) /\ Len(h) = Len(j) + 1 /\ DOMAIN h = 1..(Len(j) + 1)
             /\ p \in 0..Len(j)
             /\ \A i \in DOMAIN h :
                  h[i] = IF i <= p THEN j[i] ELSE IF i = p + 1 THEN row ELSE j[i - 1]
             /\ Sorted(h)
<1> DEFINE p == Upto(j, row.at)
<1>1. p \in 0..Len(j) /\ \A i \in DOMAIN j : j[i].at <= row.at <=> i <= p
  BY UptoIs
<1>2. Insert(j, row) = InsertAt(j, p + 1, row)
  BY DEF Insert
<1> HIDE DEF p
<1>3. \A i \in DOMAIN j : ~(i <= p) => row.at <= j[i].at
  BY <1>1
<1>4. Sorted(InsertAt(j, p + 1, row))
  BY <1>1, <1>3, InsertSorted
<1> DEFINE h == InsertAt(j, p + 1, row)
<1>5. /\ h \in Seq(S) /\ Len(h) = Len(j) + 1 /\ DOMAIN h = 1..(Len(j) + 1)
      /\ \A i \in DOMAIN h :
           h[i] = IF i <= p THEN j[i] ELSE IF i = p + 1 THEN row ELSE j[i - 1]
  BY <1>1, InsertAtIs
<1> HIDE DEF h
<1>6. Insert(j, row) = h /\ Sorted(h)
  BY <1>2, <1>4 DEF h
<1> QED BY <1>1, <1>5, <1>6 DEF p

-----------------------------------------------------------------------------
(* Books.                                                                  *)

LegSet == [id : Nat \ {0}, symbol : Contracts, side : {"B", "S"}, lots : Nat \ {0}]

\* A leg has an id of its own, and no other of its contract and side.
IsBook(b) ==
  /\ b \in [legs : Seq(LegSet), seq : Nat, fills : Nat]
  /\ \A i \in DOMAIN b.legs : b.legs[i].id <= b.seq
  /\ \A i, k \in DOMAIN b.legs : b.legs[i].id = b.legs[k].id => i = k
  /\ \A i, k \in DOMAIN b.legs :
       b.legs[i].symbol = b.legs[k].symbol /\ b.legs[i].side = b.legs[k].side => i = k

LEMMA LegIs ==
  ASSUME NEW b, IsBook(b)
  PROVE  /\ Len(b.legs) \in Nat /\ DOMAIN b.legs = 1..Len(b.legs)
         /\ b.legs \in [1..Len(b.legs) -> LegSet]
         /\ \A i \in DOMAIN b.legs : b.legs[i] \in LegSet
         /\ \A I \in SUBSET DOMAIN b.legs :
              /\ First(I) \in Nat /\ (First(I) = 0 <=> I = {})
              /\ First(I) # 0 => First(I) \in I
<1>1. b.legs \in Seq(LegSet)
  BY DEF IsBook
<1>2. Len(b.legs) \in Nat /\ DOMAIN b.legs = 1..Len(b.legs) /\ b.legs \in [1..Len(b.legs) -> LegSet]
  BY <1>1, LenProperties
<1>3. ASSUME NEW I \in SUBSET DOMAIN b.legs
      PROVE  First(I) \in Nat /\ (First(I) = 0 <=> I = {}) /\ (First(I) # 0 => First(I) \in I)
  <2>1. I \in SUBSET Nat /\ 0 \notin I
    BY <1>2
  <2> QED BY <2>1, FirstIs
<1> QED BY <1>2, <1>3

LEMMA EmptyIs == IsBook(EmptyBook)
  <1>1. <<>> \in Seq(LegSet) /\ DOMAIN <<>> = {}
    OBVIOUS
  <1> QED BY <1>1 DEF EmptyBook, IsBook

LEMMA OpenIs ==
  ASSUME NEW b, IsBook(b), NEW c \in Contracts, NEW side \in {"B", "S"}, NEW n \in Nat \ {0}
  PROVE  IsBook(Open(b, c, side, n)) /\ Open(b, c, side, n).fills = b.fills + 1
<1> DEFINE I == {k \in DOMAIN b.legs : b.legs[k].symbol = c /\ b.legs[k].side = side}
           i == First(I)
           d == Open(b, c, side, n)
<1>1. /\ Len(b.legs) \in Nat /\ DOMAIN b.legs = 1..Len(b.legs)
      /\ b.legs \in [1..Len(b.legs) -> LegSet] /\ b.legs \in Seq(LegSet)
      /\ b.seq \in Nat /\ b.fills \in Nat
      /\ b = [legs |-> b.legs, seq |-> b.seq, fills |-> b.fills]
  BY LegIs DEF IsBook
<1>2. i \in Nat /\ (i = 0 <=> I = {}) /\ (i # 0 => i \in I)
  <2>1. I \in SUBSET DOMAIN b.legs
    OBVIOUS
  <2> HIDE DEF I
  <2> QED BY <2>1, LegIs
<1>3. CASE i > 0
  <2>1. i \in 1..Len(b.legs) /\ b.legs[i].symbol = c /\ b.legs[i].side = side
    BY <1>1, <1>2, <1>3
  <2> DEFINE leg == [b.legs[i] EXCEPT !.lots = @ + n]
             legs == [b.legs EXCEPT ![i] = leg]
  <2>2. d = [legs |-> legs, seq |-> b.seq, fills |-> b.fills + 1]
    <3>1. d = [b EXCEPT !.legs[i].lots = @ + n, !.fills = @ + 1]
      BY <1>3 DEF Open
    <3> HIDE DEF i
    <3> QED BY <3>1, <1>1
  <2>3. leg \in LegSet /\ leg.id = b.legs[i].id /\ leg.symbol = c /\ leg.side = side
    <3>1. b.legs[i] \in LegSet
      BY <1>1, <2>1
    <3> HIDE DEF i
    <3> QED BY <3>1, <2>1 DEF LegSet
  <2> HIDE DEF leg, i, d
  <2>4. /\ legs \in Seq(LegSet) /\ DOMAIN legs = DOMAIN b.legs
        /\ \A k \in DOMAIN legs : /\ legs[k].id = b.legs[k].id
                                  /\ legs[k].symbol = b.legs[k].symbol
                                  /\ legs[k].side = b.legs[k].side
    <3>1. legs \in [1..Len(b.legs) -> LegSet]
      BY <1>1, <2>1, <2>3
    <3>2. legs \in Seq(LegSet)
      BY <1>1, <3>1
    <3> QED BY <3>1, <3>2, <1>1, <2>1, <2>3
  <2> HIDE DEF legs
  <2>5. b.fills + 1 \in Nat
    BY <1>1
  <2>6. d.legs = legs /\ d.seq = b.seq /\ d.fills = b.fills + 1
    BY <2>2
  <2>7. d \in [legs : Seq(LegSet), seq : Nat, fills : Nat]
    BY <2>2, <2>4, <2>5, <1>1
  <2>8. /\ \A k \in DOMAIN b.legs : b.legs[k].id <= b.seq
        /\ \A k, l \in DOMAIN b.legs : b.legs[k].id = b.legs[l].id => k = l
        /\ \A k, l \in DOMAIN b.legs :
             b.legs[k].symbol = b.legs[l].symbol /\ b.legs[k].side = b.legs[l].side => k = l
    BY DEF IsBook
  <2>9. IsBook(d)
    BY <2>4, <2>6, <2>7, <2>8 DEF IsBook
  <2> QED BY <2>6, <2>9 DEF d
<1>4. CASE ~(i > 0)
  <2> DEFINE leg == [id |-> b.seq + 1, symbol |-> c, side |-> side, lots |-> n]
             legs == Append(b.legs, leg)
             N == Len(b.legs)
  <2>1. I = {}
    BY <1>2, <1>4
  <2>2. d = [legs |-> legs, seq |-> b.seq + 1, fills |-> b.fills + 1]
    BY <1>4 DEF Open
  <2>3. leg \in LegSet /\ leg.id = b.seq + 1 /\ leg.symbol = c /\ leg.side = side
    BY <1>1 DEF LegSet
  <2> HIDE DEF leg, i, d
  <2>4. /\ legs \in Seq(LegSet) /\ DOMAIN legs = 1..(N + 1)
        /\ \A k \in 1..N : legs[k] = b.legs[k]
        /\ legs[N + 1] = leg
    <3>1. legs \in Seq(LegSet) /\ Len(legs) = N + 1
      BY <1>1, <2>3, AppendProperties
    <3>2. DOMAIN legs = 1..(N + 1)
      BY <3>1, LenProperties
    <3> QED BY <1>1, <2>3, <3>1, <3>2, AppendProperties
  <2> HIDE DEF legs
  <2>5. \A k \in DOMAIN legs : k \in 1..N \/ k = N + 1
    BY <2>4, <1>1
  <2>6. /\ \A k \in 1..N : b.legs[k].id <= b.seq /\ b.legs[k].id \in Nat
        /\ \A k \in 1..N : ~(b.legs[k].symbol = c /\ b.legs[k].side = side)
    <3>1. \A k \in 1..N : b.legs[k].id <= b.seq
      BY <1>1 DEF IsBook
    <3>2. \A k \in 1..N : b.legs[k].id \in Nat
      BY <1>1 DEF LegSet
    <3>3. \A k \in DOMAIN b.legs : k \notin I
      BY <2>1
    <3> QED BY <1>1, <3>1, <3>2, <3>3
  <2>7. \A k \in DOMAIN legs : legs[k].id <= b.seq + 1
    <3> SUFFICES ASSUME NEW k \in DOMAIN legs PROVE legs[k].id <= b.seq + 1
      OBVIOUS
    <3>1. CASE k \in 1..N
      BY <3>1, <2>4, <2>6, <1>1
    <3>2. CASE k = N + 1
      BY <3>2, <2>4, <2>3, <1>1
    <3> QED BY <3>1, <3>2, <2>5
  <2>8. ASSUME NEW k \in DOMAIN legs, NEW l \in DOMAIN legs,
               \/ legs[k].id = legs[l].id
               \/ legs[k].symbol = legs[l].symbol /\ legs[k].side = legs[l].side
        PROVE  k = l
    <3>1. CASE k \in 1..N /\ l \in 1..N
      <4>1. legs[k] = b.legs[k] /\ legs[l] = b.legs[l] /\ k \in DOMAIN b.legs /\ l \in DOMAIN b.legs
        BY <3>1, <2>4, <1>1
      <4> QED BY <2>8, <4>1 DEF IsBook
    <3>2. CASE k \in 1..N /\ l = N + 1
      <4>1. legs[k] = b.legs[k] /\ legs[l] = leg
        BY <3>2, <2>4
      <4>2. b.legs[k].id # b.seq + 1
        BY <3>2, <2>6, <1>1
      <4> QED BY <2>8, <4>1, <4>2, <2>3, <2>6, <3>2
    <3>3. CASE k = N + 1 /\ l \in 1..N
      <4>1. legs[l] = b.legs[l] /\ legs[k] = leg
        BY <3>3, <2>4
      <4>2. b.legs[l].id # b.seq + 1
        BY <3>3, <2>6, <1>1
      <4> QED BY <2>8, <4>1, <4>2, <2>3, <2>6, <3>3
    <3> QED BY <3>1, <3>2, <3>3, <2>5
  <2>9. b.fills + 1 \in Nat /\ b.seq + 1 \in Nat
    BY <1>1
  <2> HIDE DEF N, I
  <2>10. /\ d.legs = legs /\ d.seq = b.seq + 1 /\ d.fills = b.fills + 1
         /\ d \in [legs : Seq(LegSet), seq : Nat, fills : Nat]
    BY <2>2, <2>4, <2>9
  <2> HIDE DEF d
  <2>11. IsBook(d)
    BY <2>7, <2>8, <2>10 DEF IsBook
  <2> QED BY <2>10, <2>11 DEF d
<1> QED BY <1>3, <1>4

LEMMA RemoveIs ==
  ASSUME NEW S, NEW s \in Seq(S), NEW i \in DOMAIN s
  PROVE  LET t == RemoveAt(s, i)
         IN  /\ t \in Seq(S) /\ Len(t) = Len(s) - 1 /\ DOMAIN t = 1..(Len(s) - 1)
             /\ \A k \in DOMAIN t : t[k] = IF k < i THEN s[k] ELSE s[k + 1]
<1> DEFINE a == SubSeq(s, 1, i - 1)
           c == SubSeq(s, i + 1, Len(s))
           t == RemoveAt(s, i)
<1>1. Len(s) \in Nat /\ DOMAIN s = 1..Len(s) /\ s \in [1..Len(s) -> S] /\ i \in 1..Len(s)
  BY LenProperties
<1>2. i \in Nat /\ i - 1 \in Nat /\ i <= Len(s) /\ i - 1 <= Len(s) /\ Len(s) - i \in Nat
  BY <1>1
<1>3. a \in Seq(S) /\ Len(a) = i - 1 /\ \A k \in 1..(i - 1) : a[k] = s[k]
  <2>1. \A k \in 1..(i - 1) : s[k] \in S
    BY <1>1
  <2> QED BY <1>2, <2>1, SubSeqProperties
<1>4. c \in Seq(S) /\ Len(c) = Len(s) - i /\ \A k \in 1..(Len(s) - i) : c[k] = s[i + k]
  <2>1. \A k \in (i + 1)..Len(s) : s[k] \in S
    BY <1>1
  <2>2. /\ c \in Seq(S)
        /\ Len(c) = IF i + 1 <= Len(s) THEN Len(s) - (i + 1) + 1 ELSE 0
        /\ \A k \in 1..(Len(s) - (i + 1) + 1) : c[k] = s[(i + 1) + k - 1]
    BY SMTT(30), <1>2, <1>1, <2>1, SubSeqProperties
  <2>3. Len(s) - (i + 1) + 1 = Len(s) - i /\ (~(i + 1 <= Len(s)) => Len(s) - i = 0)
    BY <1>2, <1>1, AfterFirst
  <2>4. \A k \in 1..(Len(s) - i) : (i + 1) + k - 1 = i + k
    BY <1>2, <1>1, AfterFirst
  <2> HIDE DEF c
  <2> QED BY <2>2, <2>3, <2>4
<1>5. t = a \o c
  BY DEF RemoveAt
<1> HIDE DEF a, c, t
<1>6. /\ t \in Seq(S) /\ Len(t) = Len(a) + Len(c)
      /\ \A k \in 1..(Len(a) + Len(c)) : t[k] = IF k <= Len(a) THEN a[k] ELSE c[k - Len(a)]
  BY <1>3, <1>4, <1>5, ConcatProperties
<1>7. Len(a) + Len(c) = Len(s) - 1
  BY <1>3, <1>4, <1>2, <1>1
<1>8. DOMAIN t = 1..(Len(s) - 1)
  BY <1>6, <1>7, LenProperties
<1>9. ASSUME NEW k \in DOMAIN t PROVE t[k] = IF k < i THEN s[k] ELSE s[k + 1]
  <2>1. k \in 1..(Len(s) - 1) /\ k \in Nat
    BY <1>8
  <2>2. CASE k < i
    <3>1. k \in 1..(i - 1) /\ k <= Len(a)
      BY <2>1, <2>2, <1>2, <1>3
    <3> QED BY <3>1, <2>1, <2>2, <1>3, <1>6, <1>7
  <2>3. CASE ~(k < i)
    <3>1. ~(k <= Len(a)) /\ k - Len(a) \in 1..(Len(s) - i) /\ i + (k - Len(a)) = k + 1
      BY <2>1, <2>3, <1>1, <1>2, <1>3
    <3> QED BY <3>1, <2>1, <2>3, <1>4, <1>6, <1>7
  <2> QED BY <2>2, <2>3
<1> QED BY <1>6, <1>7, <1>8, <1>9 DEF t

LEMMA CloseIs ==
  ASSUME NEW b, IsBook(b), NEW i \in DOMAIN b.legs, NEW n \in Nat
  PROVE  IsBook(Close(b, i, n)) /\ Close(b, i, n).fills = b.fills + 1
<1> DEFINE left == b.legs[i].lots - n
           d == Close(b, i, n)
<1>1. /\ Len(b.legs) \in Nat /\ DOMAIN b.legs = 1..Len(b.legs)
      /\ b.legs \in [1..Len(b.legs) -> LegSet] /\ b.legs \in Seq(LegSet)
      /\ b.seq \in Nat /\ b.fills \in Nat /\ b.fills + 1 \in Nat
      /\ b = [legs |-> b.legs, seq |-> b.seq, fills |-> b.fills]
      /\ i \in 1..Len(b.legs) /\ b.legs[i] \in LegSet
  BY LegIs DEF IsBook
<1>2. /\ \A k \in DOMAIN b.legs : b.legs[k].id <= b.seq
      /\ \A k, l \in DOMAIN b.legs : b.legs[k].id = b.legs[l].id => k = l
      /\ \A k, l \in DOMAIN b.legs :
           b.legs[k].symbol = b.legs[l].symbol /\ b.legs[k].side = b.legs[l].side => k = l
  BY DEF IsBook
<1>3. CASE left <= 0
  <2> DEFINE legs == RemoveAt(b.legs, i)
             at == [k \in DOMAIN legs |-> IF k < i THEN k ELSE k + 1]
  <2>1. d = [legs |-> legs, seq |-> b.seq, fills |-> b.fills + 1]
    <3>1. d = [b EXCEPT !.legs = legs, !.fills = @ + 1]
      BY <1>3 DEF Close
    <3> HIDE DEF legs
    <3> QED BY <3>1, <1>1
  <2>2. /\ legs \in Seq(LegSet) /\ DOMAIN legs = 1..(Len(b.legs) - 1)
        /\ \A k \in DOMAIN legs : legs[k] = IF k < i THEN b.legs[k] ELSE b.legs[k + 1]
    BY <1>1, RemoveIs
  <2> HIDE DEF legs, d
  <2>3. /\ \A k \in DOMAIN legs : at[k] \in DOMAIN b.legs /\ legs[k] = b.legs[at[k]]
        /\ \A k, l \in DOMAIN legs : at[k] = at[l] => k = l
    <3>1. ASSUME NEW k \in DOMAIN legs PROVE at[k] \in DOMAIN b.legs /\ legs[k] = b.legs[at[k]]
      BY <2>2, <1>1
    <3>2. ASSUME NEW k \in DOMAIN legs, NEW l \in DOMAIN legs, at[k] = at[l] PROVE k = l
      BY SMTT(30), <3>2, <2>2, <1>1
    <3> QED BY <3>1, <3>2
  <2> HIDE DEF at
  <2>4. d.legs = legs /\ d.seq = b.seq /\ d.fills = b.fills + 1
    BY <2>1
  <2>5. d \in [legs : Seq(LegSet), seq : Nat, fills : Nat]
    BY <2>1, <2>2, <1>1
  <2>6. IsBook(d)
    <3>1. \A k \in DOMAIN legs : legs[k].id <= b.seq
      BY <2>3, <1>2
    <3>2. \A k, l \in DOMAIN legs : legs[k].id = legs[l].id => at[k] = at[l]
      BY <2>3, <1>2
    <3>3. \A k, l \in DOMAIN legs :
            legs[k].symbol = legs[l].symbol /\ legs[k].side = legs[l].side => at[k] = at[l]
      BY <2>3, <1>2
    <3> QED BY <3>1, <3>2, <3>3, <2>3, <2>4, <2>5 DEF IsBook
  <2> QED BY <2>4, <2>6 DEF d
<1>4. CASE ~(left <= 0)
  <2> DEFINE leg == [b.legs[i] EXCEPT !.lots = left]
             legs == [b.legs EXCEPT ![i] = leg]
  <2>1. left \in Nat \ {0}
    BY SMTT(30), <1>1, <1>4 DEF LegSet
  <2>2. d = [legs |-> legs, seq |-> b.seq, fills |-> b.fills + 1]
    <3>1. d = [b EXCEPT !.legs = [@ EXCEPT ![i].lots = left], !.fills = @ + 1]
      BY <1>4 DEF Close
    <3> HIDE DEF left
    <3> QED BY <3>1, <1>1
  <2>3. leg \in LegSet /\ \A f \in {"id", "symbol", "side"} : leg[f] = b.legs[i][f]
    <3> HIDE DEF left
    <3> QED BY <2>1, <1>1 DEF LegSet
  <2> HIDE DEF leg, d
  <2>4. /\ legs \in Seq(LegSet) /\ DOMAIN legs = DOMAIN b.legs
        /\ \A k \in DOMAIN legs : /\ legs[k].id = b.legs[k].id
                                  /\ legs[k].symbol = b.legs[k].symbol
                                  /\ legs[k].side = b.legs[k].side
    <3>1. legs \in [1..Len(b.legs) -> LegSet]
      BY <1>1, <2>3
    <3>2. legs \in Seq(LegSet)
      BY <1>1, <3>1
    <3>3. leg.id = b.legs[i].id /\ leg.symbol = b.legs[i].symbol /\ leg.side = b.legs[i].side
      BY <2>3
    <3> QED BY <3>1, <3>2, <3>3, <1>1
  <2> HIDE DEF legs
  <2>5. d.legs = legs /\ d.seq = b.seq /\ d.fills = b.fills + 1
    BY <2>2
  <2>6. d \in [legs : Seq(LegSet), seq : Nat, fills : Nat]
    BY <2>2, <2>4, <1>1
  <2>7. IsBook(d)
    BY <2>4, <2>5, <2>6, <1>2 DEF IsBook
  <2> QED BY <2>5, <2>7 DEF d
<1> QED BY <1>3, <1>4

LEMMA ReapplyIs ==
  ASSUME NEW W, NEW g, AreRows(W, g), NEW row \in W, NEW b, IsBook(b)
  PROVE  IsBook(Reapply(b, row)) /\ Reapply(b, row).fills \in {b.fills, b.fills + 1}
<1>1. /\ row \in RowsOver(W, g) /\ (row.action # "NOOP" => row.lots > 0)
      /\ row.symbol \in Contracts /\ row.lots \in Nat /\ row.action \in RowActions
  BY DEF AreRows, RowsOver
<1>2. CASE row.action = "NOOP"
  <2>1. Reapply(b, row) = b
    BY <1>2 DEF Reapply, Opening
  <2> QED BY <2>1
<1>3. CASE row.action # "NOOP" /\ row.action \in Opening
  <2>1. Reapply(b, row) = Open(b, row.symbol, SideOf(row.action), row.lots)
    BY <1>3 DEF Reapply
  <2>2. SideOf(row.action) \in {"B", "S"} /\ row.lots \in Nat \ {0}
    BY <1>1, <1>3 DEF SideOf
  <2> QED BY <1>1, <2>1, <2>2, OpenIs
<1>4. CASE row.action # "NOOP" /\ row.action \notin Opening
  <2> DEFINE I == {k \in DOMAIN b.legs : /\ b.legs[k].symbol = row.symbol
                                         /\ row.action \in {"SETTLE", Exit(b.legs[k].side)}}
  <2>1. Reapply(b, row) = IF First(I) = 0 THEN b ELSE Close(b, First(I), row.lots)
    BY <1>4 DEF Reapply
  <2>2. I \in SUBSET DOMAIN b.legs
    OBVIOUS
  <2> HIDE DEF I
  <2>3. First(I) # 0 => First(I) \in DOMAIN b.legs
    BY <2>2, LegIs
  <2>4. CASE First(I) = 0
    BY <2>1, <2>4
  <2>5. CASE First(I) # 0
    BY <1>1, <2>1, <2>3, <2>5, CloseIs
  <2> QED BY <2>4, <2>5
<1> QED BY <1>2, <1>3, <1>4

LEMMA BooksType ==
  ASSUME NEW W, NEW g, AreRows(W, g), NEW j \in Seq(W), NEW n \in 0..Len(j)
  PROVE  IsBook(Books(j)[n]) /\ Books(j)[n].fills <= n
<1> DEFINE G == {k \in 0..Len(j) : IsBook(Books(j)[k]) /\ Books(j)[k].fills <= k}
<1>1. Len(j) \in Nat /\ DOMAIN j = 1..Len(j)
  BY LenProperties
<1>2. Books(j)[0] = EmptyBook /\ \A k \in 1..Len(j) : Books(j)[k] = Reapply(Books(j)[k - 1], j[k])
  BY <1>1, BooksAre
<1>3. 0 \in G
  BY <1>1, <1>2, EmptyIs DEF EmptyBook
<1>4. ASSUME NEW k \in 0..(Len(j) - 1), k \in G PROVE k + 1 \in G
  <2>1. k + 1 \in 1..Len(j) /\ (k + 1) - 1 = k /\ k \in Nat
    BY <1>1
  <2>2. Books(j)[k + 1] = Reapply(Books(j)[k], j[k + 1])
    BY <1>2, <2>1
  <2>3. j[k + 1] \in W
    BY <1>1, <2>1, RowIs
  <2>4. IsBook(Books(j)[k]) /\ Books(j)[k].fills <= k /\ Books(j)[k].fills \in Nat
    BY <1>4 DEF IsBook
  <2>5. /\ IsBook(Books(j)[k + 1])
        /\ Books(j)[k + 1].fills \in {Books(j)[k].fills, Books(j)[k].fills + 1}
    BY <2>2, <2>3, <2>4, ReapplyIs
  <2>6. Books(j)[k + 1].fills <= k + 1
    BY <2>1, <2>4, <2>5
  <2>7. k + 1 \in 0..Len(j)
    BY <2>1, <1>1
  <2> QED BY <2>5, <2>6, <2>7
<1> HIDE DEF G
<1>5. 0..Len(j) \subseteq G
  BY <1>1, <1>3, <1>4, Induction
<1> QED BY <1>5 DEF G

LEMMA ReplayType ==
  ASSUME NEW g, NEW j, IsJournal(j, g)
  PROVE  IsBook(Replay(j))
<1>1. PICK W : AreRows(W, g) /\ j \in Seq(W)
  BY DEF IsJournal
<1>2. Len(j) \in 0..Len(j)
  BY <1>1, LenProperties
<1> QED BY <1>1, <1>2, BooksType DEF Replay

-----------------------------------------------------------------------------
(* What the operations make of a journal.                                  *)

LEMMA AnotherRow ==
  ASSUME NEW W, NEW g, AreRows(W, g), NEW row \in RowsOver(W, g),
         row.action # "NOOP" => row.lots > 0, row.action = "SETTLE" => row.at = ExpiryAt,
         \A i \in DOMAIN row.replaces : row.replaces[i].at = row.at
  PROVE  AreRows(W \cup {row}, g)
<1>1. Seq(W) \subseteq Seq(W \cup {row})
  BY SeqMonotonic
<1>2. RowsOver(W, g) \subseteq RowsOver(W \cup {row}, g)
  BY <1>1 DEF RowsOver
<1> QED BY <1>2 DEF AreRows

LEMMA InsertJournal ==
  ASSUME NEW g, NEW j, IsJournal(j, g), NEW m \in Minutes \cup {ExpiryAt}, NEW c \in Contracts,
         NEW a \in RowActions, NEW h \in 0..g, NEW n \in Nat \ {0}, a = "SETTLE" => m = ExpiryAt
  PROVE  IsJournal(Insert(j, Row(m, c, a, h, n, <<>>)), g)
<1> DEFINE row == Row(m, c, a, h, n, <<>>)
<1>1. PICK W : AreRows(W, g) /\ j \in Seq(W) /\ Sorted(j)
  BY DEF IsJournal
<1>2. row \in RowsOver(W, g)
  <2>1. <<>> \in Seq(W)
    OBVIOUS
  <2> QED BY <2>1 DEF Row, RowsOver
<1>3. AreRows(W \cup {row}, g)
  <2>1. row.action = a /\ row.lots = n /\ row.at = m /\ row.replaces = <<>>
    BY DEF Row
  <2>2. DOMAIN row.replaces = {}
    BY <2>1
  <2> HIDE DEF row
  <2>3. /\ row.action # "NOOP" => row.lots > 0
        /\ row.action = "SETTLE" => row.at = ExpiryAt
        /\ \A i \in DOMAIN row.replaces : row.replaces[i].at = row.at
    BY <2>1, <2>2
  <2> QED BY <1>1, <1>2, <2>3, AnotherRow
<1>4. j \in Seq(W \cup {row})
  BY <1>1, SeqMonotonic
<1>5. row.at \in Int /\ \A i \in DOMAIN j : j[i].at \in Int
  <2>1. row.at = m /\ m \in Nat
    BY MinutesAreInt DEF Row
  <2> QED BY <1>1, <2>1, RowIs
<1> HIDE DEF row
<1>6. Insert(j, row) \in Seq(W \cup {row}) /\ Sorted(Insert(j, row))
  BY <1>1, <1>4, <1>5, InsertIs
<1> QED BY <1>3, <1>6 DEF IsJournal, row

LEMMA LaterGroup ==
  ASSUME NEW g \in Nat, NEW h \in Nat, g <= h, NEW j, IsJournal(j, g)
  PROVE  IsJournal(j, h)
<1>1. PICK W : AreRows(W, g) /\ j \in Seq(W) /\ Sorted(j)
  BY DEF IsJournal
<1>2. 0..g \subseteq 0..h
  OBVIOUS
<1>3. RowsOver(W, g) \subseteq RowsOver(W, h)
  BY <1>2 DEF RowsOver
<1> QED BY <1>1, <1>3 DEF IsJournal, AreRows

LEMMA JournalIs ==
  ASSUME NEW g, NEW j, IsJournal(j, g)
  PROVE  /\ Len(j) \in Nat /\ DOMAIN j = 1..Len(j) /\ Sorted(j)
         /\ \A i \in DOMAIN j : /\ j[i].at \in Minutes \cup {ExpiryAt} /\ j[i].symbol \in Contracts
                                /\ j[i].at \in Nat
                                /\ j[i].action \in RowActions /\ j[i].group \in 0..g
                                /\ j[i].lots \in Nat /\ (j[i].action # "NOOP" => j[i].lots > 0)
                                /\ j[i].action = "SETTLE" => j[i].at = ExpiryAt
<1>1. PICK W : AreRows(W, g) /\ j \in Seq(W) /\ Sorted(j)
  BY DEF IsJournal
<1>2. \A i \in DOMAIN j : j[i] \in RowsOver(W, g) /\ j[i] \in W /\ j[i].at \in Nat
  BY <1>1, RowIs
<1>3. Len(j) \in Nat /\ DOMAIN j = 1..Len(j)
  BY <1>1, LenProperties
<1> QED BY <1>1, <1>2, <1>3 DEF RowsOver, AreRows

LEMMA PickJournal ==
  ASSUME NEW g, NEW j, IsJournal(j, g), NEW I \in SUBSET DOMAIN j
  PROVE  IsJournal(Pick(j, I), g)
<1>1. PICK W : AreRows(W, g) /\ j \in Seq(W) /\ Sorted(j)
  BY DEF IsJournal
<1>2. Pick(j, I) \in Seq(W) /\ Sorted(Pick(j, I))
  BY <1>1, PickIs, PickSorted
<1> QED BY <1>1, <1>2 DEF IsJournal

LEMMA BeginningIs ==
  ASSUME NEW S, NEW j \in Seq(S), NEW n \in 0..Len(j)
  PROVE  /\ SubSeq(j, 1, n) \in Seq(S) /\ Len(SubSeq(j, 1, n)) = n
         /\ DOMAIN SubSeq(j, 1, n) = 1..n
         /\ \A i \in 1..n : SubSeq(j, 1, n)[i] = j[i]
<1>1. Len(j) \in Nat /\ j \in [1..Len(j) -> S] /\ n \in Nat
  BY LenProperties
<1>2. \A i \in 1..n : j[i] \in S
  BY <1>1
<1>3. /\ SubSeq(j, 1, n) \in Seq(S) /\ Len(SubSeq(j, 1, n)) = n
      /\ \A i \in 1..n : SubSeq(j, 1, n)[i] = j[i]
  BY <1>1, <1>2, SubSeqProperties
<1> QED BY <1>3, LenProperties

LEMMA KeptJournal ==
  ASSUME NEW g, NEW j, IsJournal(j, g), NEW m \in Int
  PROVE  /\ IsJournal(Kept(j, m), g) /\ Upto(j, m) \in 0..Len(j)
         /\ Len(Kept(j, m)) = Upto(j, m)
         /\ \A i \in 1..Upto(j, m) : Kept(j, m)[i] = j[i]
<1>1. PICK W : AreRows(W, g) /\ j \in Seq(W) /\ Sorted(j)
  BY DEF IsJournal
<1>2. Upto(j, m) \in 0..Len(j) /\ Len(j) \in Nat /\ DOMAIN j = 1..Len(j)
  <2>1. \A i \in DOMAIN j : j[i].at \in Int
    BY <1>1, RowIs
  <2> QED BY <1>1, <2>1, UptoIs, LenProperties
<1>3. /\ Kept(j, m) \in Seq(W) /\ Len(Kept(j, m)) = Upto(j, m)
      /\ DOMAIN Kept(j, m) = 1..Upto(j, m)
      /\ \A i \in 1..Upto(j, m) : Kept(j, m)[i] = j[i]
  BY <1>1, <1>2, BeginningIs DEF Kept
<1>4. Sorted(Kept(j, m))
  <2>1. \A i \in DOMAIN Kept(j, m) : i \in DOMAIN j /\ Kept(j, m)[i] = j[i]
    BY <1>2, <1>3
  <2> QED BY <1>1, <2>1 DEF Sorted
<1> QED BY <1>1, <1>2, <1>3, <1>4 DEF IsJournal

LEMMA NetType ==
  ASSUME NEW g, NEW j, IsJournal(j, g), NEW c
  PROVE  Net(j, c) \in Int
<1> DEFINE f == [i \in DOMAIN j |-> IF j[i].action \in Opening THEN j[i].lots ELSE -j[i].lots]
           I == {i \in DOMAIN j : j[i].symbol = c}
<1>1. Len(j) \in Nat /\ DOMAIN j = 1..Len(j) /\ \A i \in DOMAIN j : j[i].lots \in Nat
  BY JournalIs
<1>2. IsFiniteSet(I)
  <2>1. I \in SUBSET (1..Len(j))
    BY <1>1
  <2> QED BY <1>1, <2>1, Positions
<1>3. \A i \in I : f[i] \in Int
  BY <1>1
<1> HIDE DEF f, I
<1>4. SumOver(f, I) \in Int
  BY <1>2, <1>3, SumType
<1> QED BY <1>4 DEF f, I, Net

LEMMA SettleJournal ==
  ASSUME NEW g \in Nat, NEW j, IsJournal(j, g), NEW c \in Contracts
  PROVE  IsJournal(Settle(j, c), g)
<1>1. CASE Net(j, c) <= 0 \/ \E i \in DOMAIN j : j[i].symbol = c /\ j[i].action = "SETTLE"
  BY <1>1 DEF Settle
<1>2. CASE ~(Net(j, c) <= 0 \/ \E i \in DOMAIN j : j[i].symbol = c /\ j[i].action = "SETTLE")
  <2>1. Net(j, c) \in Nat \ {0}
    BY <1>2, NetType
  <2>2. Settle(j, c) = Insert(j, Row(ExpiryAt, c, "SETTLE", 0, Net(j, c), <<>>))
    BY <1>2 DEF Settle
  <2>3. 0 \in 0..g /\ "SETTLE" \in RowActions
    BY DEF RowActions
  <2> QED BY <2>1, <2>2, <2>3, InsertJournal
<1> QED BY <1>1, <1>2

LEMMA SettledJournal ==
  ASSUME NEW g \in Nat, NEW j, IsJournal(j, g), NEW m
  PROVE  /\ IsJournal(SettleExpired(j, m), g)
         /\ Len(Opens(j)) \in Nat
         /\ \A n \in 1..Len(Opens(j)) : Opens(j)[n].symbol \in Contracts
         /\ \A n \in 0..Len(Opens(j)) : IsJournal(Settlements(j, Opens(j))[n], g)
<1> DEFINE rows == Opens(j)
           s == Settlements(j, rows)
           G == {n \in 0..Len(rows) : IsJournal(s[n], g)}
<1>1. IsJournal(rows, g)
  <2>1. {i \in DOMAIN j : j[i].action \in Opening} \in SUBSET DOMAIN j
    OBVIOUS
  <2> QED BY <2>1, PickJournal DEF Opens
<1>2. Len(rows) \in Nat /\ \A n \in 1..Len(rows) : rows[n].symbol \in Contracts
  BY <1>1, JournalIs
<1> HIDE DEF rows
<1>3. s[0] = j /\ \A n \in 1..Len(rows) : s[n] = Settle(s[n - 1], rows[n].symbol)
  BY <1>2, SettledIs
<1>4. 0 \in G
  BY <1>2, <1>3
<1>5. ASSUME NEW n \in 0..(Len(rows) - 1), n \in G PROVE n + 1 \in G
  <2>1. n + 1 \in 1..Len(rows) /\ (n + 1) - 1 = n /\ n + 1 \in 0..Len(rows)
    BY <1>2
  <2>2. s[n + 1] = Settle(s[n], rows[n + 1].symbol)
    BY <1>3, <2>1
  <2>3. IsJournal(s[n + 1], g)
    BY <1>2, <1>5, <2>1, <2>2, SettleJournal
  <2> QED BY <2>1, <2>3
<1> HIDE DEF G
<1>6. 0..Len(rows) \subseteq G
  BY <1>2, <1>4, <1>5, Induction
<1>7. \A n \in 0..Len(rows) : IsJournal(s[n], g)
  BY <1>6 DEF G
<1>8. Len(rows) \in 0..Len(rows)
  BY <1>2
<1>9. IsJournal(SettleExpired(j, m), g)
  <2>1. SettleExpired(j, m) = j \/ SettleExpired(j, m) = s[Len(rows)]
    BY DEF SettleExpired, rows
  <2> QED BY <1>7, <1>8, <2>1
<1> QED BY <1>2, <1>7, <1>9 DEF rows

LEMMA RestoredJournal ==
  ASSUME NEW g \in Nat, NEW j, IsJournal(j, g)
  PROVE  /\ IsJournal(Restored(j), g)
         /\ \A h \in Nat : (\A i \in DOMAIN Restored(j) : Restored(j)[i].group <= h)
                             => IsJournal(Restored(j), h)
<1> DEFINE I == {i \in DOMAIN j : j[i].action \notin {"SETTLE", "NOOP"}}
           rows == Pick(j, I)
           W == {rows[i] : i \in DOMAIN rows}
           clean == [i \in DOMAIN rows |-> [rows[i] EXCEPT !.replaces = <<>>]]
           V == {clean[i] : i \in DOMAIN rows}
<1>1. Restored(j) = clean
  BY DEF Restored
<1>2. PICK U : AreRows(U, g) /\ j \in Seq(U) /\ Sorted(j)
  BY DEF IsJournal
<1>3. rows \in Seq(U) /\ Sorted(rows)
  <2>1. I \in SUBSET DOMAIN j
    OBVIOUS
  <2> HIDE DEF I
  <2> QED BY <1>2, <2>1, PickIs, PickSorted
<1> HIDE DEF rows
<1>4. Len(rows) \in Nat /\ DOMAIN rows = 1..Len(rows)
  BY <1>3, LenProperties
<1>5. ASSUME NEW i \in DOMAIN rows
      PROVE  /\ rows[i] \in RowsOver(U, g) /\ rows[i] \in U
             /\ clean[i] = [rows[i] EXCEPT !.replaces = <<>>]
             /\ clean[i].at = rows[i].at /\ clean[i].action = rows[i].action
             /\ clean[i].lots = rows[i].lots /\ clean[i].replaces = <<>>
             /\ clean[i].group = rows[i].group
             /\ \A h : clean[i].group \in 0..h => clean[i] \in RowsOver(V, h)
  <2>1. rows[i] \in RowsOver(U, g) /\ rows[i] \in U
    BY <1>2, <1>3, RowIs
  <2>2. clean[i] = [rows[i] EXCEPT !.replaces = <<>>]
    OBVIOUS
  <2> HIDE DEF clean
  <2>3. /\ clean[i].at = rows[i].at /\ clean[i].action = rows[i].action
        /\ clean[i].lots = rows[i].lots /\ clean[i].replaces = <<>>
        /\ clean[i].group = rows[i].group
    BY <2>1, <2>2 DEF RowsOver
  <2>4. <<>> \in Seq(V)
    OBVIOUS
  <2> HIDE DEF V
  <2>5. ASSUME NEW h, clean[i].group \in 0..h PROVE clean[i] \in RowsOver(V, h)
    BY <2>1, <2>2, <2>3, <2>4, <2>5 DEF RowsOver
  <2> QED BY <2>1, <2>2, <2>3, <2>5
<1>6. clean \in Seq(V) /\ DOMAIN clean = DOMAIN rows
  <2>1. clean \in [1..Len(rows) -> V]
    BY <1>4
  <2> QED BY <1>4, <2>1
<1>7. Sorted(clean)
  BY <1>3, <1>5, <1>6 DEF Sorted
<1>8. ASSUME NEW h, \A i \in DOMAIN rows : clean[i].group \in 0..h
      PROVE  IsJournal(clean, h)
  <2> HIDE DEF clean
  <2>1. AreRows(V, h)
    <3> SUFFICES ASSUME NEW r \in V
                 PROVE  /\ r \in RowsOver(V, h)
                        /\ r.action # "NOOP" => r.lots > 0
                        /\ r.action = "SETTLE" => r.at = ExpiryAt
                        /\ \A i \in DOMAIN r.replaces : r.replaces[i].at = r.at
      BY DEF AreRows
    <3>1. PICK i \in DOMAIN rows : r = clean[i]
      OBVIOUS
    <3>2. DOMAIN r.replaces = {}
      <4>1. r.replaces = <<>>
        BY <3>1, <1>5
      <4> QED BY <4>1
    <3> HIDE DEF V
    <3> QED BY ZenonT(60), <3>1, <3>2, <1>2, <1>5, <1>8 DEF AreRows
  <2> HIDE DEF V
  <2> QED BY <2>1, <1>6, <1>7 DEF IsJournal
<1>9. \A i \in DOMAIN rows : clean[i].group \in 0..g
  <2> HIDE DEF clean
  <2> QED BY <1>5 DEF RowsOver
<1>10. ASSUME NEW h \in Nat, \A i \in DOMAIN clean : clean[i].group <= h
       PROVE  IsJournal(clean, h)
  <2>1. \A i \in DOMAIN rows : clean[i].group \in Nat
    <3> SUFFICES ASSUME NEW i \in DOMAIN rows PROVE clean[i].group \in Nat
      OBVIOUS
    <3>1. clean[i].group = rows[i].group /\ rows[i] \in RowsOver(U, g)
      BY <1>5
    <3> HIDE DEF clean
    <3>2. rows[i].group \in Nat
      BY <3>1 DEF RowsOver
    <3> QED BY <3>1, <3>2
  <2>2. \A i \in DOMAIN rows : clean[i].group \in 0..h
    <3> HIDE DEF clean
    <3> QED BY <2>1, <1>10, <1>6
  <2> QED BY <2>2, <1>8
<1> HIDE DEF clean
<1> QED BY <1>1, <1>8, <1>9, <1>10

LEMMA BackJournal ==
  ASSUME NEW g, NEW j, IsJournal(j, g), NEW last
  PROVE  IsJournal(Back(j, last)[Len(j)], g)
<1> DEFINE f == Back(j, last)
           N == Len(j)
<1>1. PICK W : AreRows(W, g) /\ j \in Seq(W) /\ Sorted(j)
  BY DEF IsJournal
<1>2. N \in Nat /\ DOMAIN j = 1..N
  BY <1>1, LenProperties
<1>3. f[0] = <<>> /\ \A n \in 1..N : f[n] = f[n - 1] \o GivenBack(j[n], last)
  BY <1>2, BackIs
<1> HIDE DEF f
<1> DEFINE Good(n) == /\ f[n] \in Seq(W) /\ Sorted(f[n])
                      /\ \A i \in DOMAIN f[n] : \A k \in (n + 1)..N : f[n][i].at <= j[k].at
           G == {n \in 0..N : Good(n)}
<1>4. 0 \in G
  <2>1. <<>> \in Seq(W) /\ DOMAIN <<>> = {}
    OBVIOUS
  <2>2. f[0] \in Seq(W) /\ DOMAIN f[0] = {}
    BY <1>3, <2>1
  <2>3. Sorted(f[0])
    BY <2>2 DEF Sorted
  <2>4. Good(0)
    BY <2>2, <2>3
  <2> HIDE DEF Good
  <2> QED BY <1>2, <2>4
<1>5. ASSUME NEW n \in 0..(N - 1), n \in G PROVE n + 1 \in G
  <2>1. n + 1 \in 1..N /\ (n + 1) - 1 = n /\ n + 1 \in 0..N /\ n \in Nat
    BY <1>2
  <2> DEFINE a == f[n]
             b == GivenBack(j[n + 1], last)
             c == f[n + 1]
  <2>2. c = a \o b
    BY <1>3, <2>1
  <2>3. a \in Seq(W) /\ Sorted(a) /\ \A i \in DOMAIN a : \A k \in (n + 1)..N : a[i].at <= j[k].at
    BY <1>5
  <2>4. b \in Seq(W) /\ \A i \in DOMAIN b : b[i].at = j[n + 1].at
    <3>1. j[n + 1] \in W /\ j[n + 1] \in RowsOver(W, g)
      BY <1>1, <1>2, <2>1, RowIs
    <3>2. CASE j[n + 1].group = last
      BY <3>1, <3>2, <1>1 DEF GivenBack, AreRows, RowsOver
    <3>3. CASE j[n + 1].group # last
      <4>1. b = <<j[n + 1]>>
        BY <3>3 DEF GivenBack
      <4>2. b \in Seq(W) /\ DOMAIN b = {1} /\ b[1] = j[n + 1]
        BY <4>1, <3>1
      <4> QED BY <4>2
    <3> QED BY <3>2, <3>3
  <2> HIDE DEF a, b, c
  <2>5. /\ c \in Seq(W) /\ Len(c) = Len(a) + Len(b)
        /\ \A i \in 1..(Len(a) + Len(b)) : c[i] = IF i <= Len(a) THEN a[i] ELSE b[i - Len(a)]
    BY <2>2, <2>3, <2>4, ConcatProperties
  <2>6. /\ Len(a) \in Nat /\ DOMAIN a = 1..Len(a) /\ Len(b) \in Nat /\ DOMAIN b = 1..Len(b)
        /\ DOMAIN c = 1..(Len(a) + Len(b))
    BY <2>3, <2>4, <2>5, LenProperties
  <2>7. ASSUME NEW i \in DOMAIN c
        PROVE  \/ i \in DOMAIN a /\ c[i] = a[i]
               \/ ~(i <= Len(a)) /\ i - Len(a) \in DOMAIN b /\ c[i] = b[i - Len(a)]
    BY <2>5, <2>6
  <2>8. \A k \in DOMAIN j : j[k].at \in Nat
    BY <1>1, RowIs
  <2>9. \A i \in DOMAIN c : c[i].at \in Nat
    BY <2>5, <1>1, RowIs
  <2>10. Sorted(c)
    <3> SUFFICES ASSUME NEW i \in DOMAIN c, NEW k \in DOMAIN c, i < k PROVE c[i].at <= c[k].at
      BY DEF Sorted
    <3>1. CASE k \in DOMAIN a
      <4>1. i \in DOMAIN a /\ i <= Len(a) /\ k <= Len(a)
        BY <3>1, <2>6
      <4>2. c[i] = a[i] /\ c[k] = a[k]
        BY <3>1, <4>1, <2>7
      <4> QED BY <3>1, <4>1, <4>2, <2>3 DEF Sorted
    <3>2. CASE k \notin DOMAIN a
      <4>1. c[k].at = j[n + 1].at
        BY <3>2, <2>7, <2>4
      <4>2. c[i].at <= j[n + 1].at
        <5>1. CASE i \in DOMAIN a /\ c[i] = a[i]
          <6>1. n + 1 \in (n + 1)..N
            BY <2>1, <1>2
          <6> QED BY <5>1, <6>1, <2>3
        <5>2. CASE i - Len(a) \in DOMAIN b /\ c[i] = b[i - Len(a)]
          <6>1. c[i].at = j[n + 1].at /\ n + 1 \in DOMAIN j
            BY <5>2, <2>4, <2>1, <1>2
          <6>2. c[i].at \in Nat
            BY <6>1, <2>8
          <6> QED BY <6>1, <6>2
        <5> QED BY <5>1, <5>2, <2>7
      <4> QED BY <4>1, <4>2
    <3> QED BY <3>1, <3>2
  <2>11. \A i \in DOMAIN c : \A k \in (n + 2)..N : c[i].at <= j[k].at
    <3> SUFFICES ASSUME NEW i \in DOMAIN c, NEW k \in (n + 2)..N PROVE c[i].at <= j[k].at
      OBVIOUS
    <3>1. k \in (n + 1)..N /\ k \in DOMAIN j /\ n + 1 \in DOMAIN j /\ n + 1 < k
      BY <2>1, <1>2
    <3>2. CASE i \in DOMAIN a /\ c[i] = a[i]
      BY <3>1, <3>2, <2>3
    <3>3. CASE i - Len(a) \in DOMAIN b /\ c[i] = b[i - Len(a)]
      <4>1. c[i].at = j[n + 1].at
        BY <3>3, <2>4
      <4>2. j[n + 1].at <= j[k].at
        BY <3>1, <1>1 DEF Sorted
      <4> QED BY <4>1, <4>2
    <3> QED BY <3>2, <3>3, <2>7
  <2>12. (n + 1) + 1 = n + 2
    BY <2>1
  <2> HIDE DEF N
  <2>13. Good(n + 1)
    BY <2>5, <2>10, <2>11, <2>12 DEF c
  <2> HIDE DEF Good
  <2> QED BY <2>1, <2>13
<1> HIDE DEF G
<1>6. 0..N \subseteq G
  <2> HIDE DEF N
  <2> QED BY <1>2, <1>4, <1>5, Induction
<1>7. N \in G
  BY <1>2, <1>6
<1>8. f[N] \in Seq(W) /\ Sorted(f[N])
  BY <1>7 DEF G
<1> QED BY <1>1, <1>8 DEF IsJournal, f

-----------------------------------------------------------------------------
(* What a book holds of a contract, bought or written.                     *)

At(b, c, side) == {k \in DOMAIN b.legs : b.legs[k].symbol = c /\ b.legs[k].side = side}
Held(b, c, side) == IF At(b, c, side) = {} THEN 0 ELSE b.legs[First(At(b, c, side))].lots

LEMMA HeldIs ==
  ASSUME NEW b, IsBook(b)
  PROVE  /\ \A k \in DOMAIN b.legs :
              /\ At(b, b.legs[k].symbol, b.legs[k].side) = {k}
              /\ First(At(b, b.legs[k].symbol, b.legs[k].side)) = k
              /\ Held(b, b.legs[k].symbol, b.legs[k].side) = b.legs[k].lots
              /\ b.legs[k].lots \in Nat \ {0}
         /\ \A c, side : /\ Held(b, c, side) \in Nat
                         /\ Held(b, c, side) = 0 <=> At(b, c, side) = {}
<1>1. \A k, l \in DOMAIN b.legs :
        b.legs[k].symbol = b.legs[l].symbol /\ b.legs[k].side = b.legs[l].side => k = l
  BY DEF IsBook
<1>2. ASSUME NEW k \in DOMAIN b.legs
      PROVE  /\ At(b, b.legs[k].symbol, b.legs[k].side) = {k}
             /\ First(At(b, b.legs[k].symbol, b.legs[k].side)) = k
             /\ Held(b, b.legs[k].symbol, b.legs[k].side) = b.legs[k].lots
             /\ b.legs[k].lots \in Nat \ {0}
  <2> DEFINE A == At(b, b.legs[k].symbol, b.legs[k].side)
  <2>1. A = {k}
    BY <1>1 DEF At
  <2>2. First(A) \in A
    <3>1. A \in SUBSET DOMAIN b.legs
      BY DEF At
    <3> HIDE DEF A
    <3>2. First(A) # 0
      BY <2>1, <3>1, LegIs
    <3> QED BY <3>1, <3>2, LegIs
  <2>3. b.legs[k] \in LegSet
    BY LegIs
  <2> QED BY <2>1, <2>2, <2>3 DEF Held, LegSet
<1>3. ASSUME NEW c, NEW side
      PROVE  Held(b, c, side) \in Nat /\ (Held(b, c, side) = 0 <=> At(b, c, side) = {})
  <2>1. CASE At(b, c, side) = {}
    BY <2>1 DEF Held
  <2>2. CASE At(b, c, side) # {}
    <3>1. PICK k \in DOMAIN b.legs : b.legs[k].symbol = c /\ b.legs[k].side = side
      BY <2>2 DEF At
    <3>2. Held(b, c, side) = b.legs[k].lots /\ b.legs[k].lots \in Nat \ {0}
      BY <3>1, <1>2
    <3> QED BY <2>2, <3>2
  <2> QED BY <2>1, <2>2
<1> QED BY <1>2, <1>3

LEMMA OpenHeld ==
  ASSUME NEW b, IsBook(b), NEW c \in Contracts, NEW side \in {"B", "S"}, NEW n \in Nat \ {0}
  PROVE  LET d == Open(b, c, side, n)
         IN  /\ Held(d, c, side) = Held(b, c, side) + n
             /\ \A e, s : e # c \/ s # side => Held(d, e, s) = Held(b, e, s)
<1> DEFINE i == First(At(b, c, side))
           d == Open(b, c, side, n)
<1>1. IsBook(d)
  BY OpenIs
<1>2. /\ Len(b.legs) \in Nat /\ DOMAIN b.legs = 1..Len(b.legs)
      /\ b.legs \in [1..Len(b.legs) -> LegSet] /\ b.legs \in Seq(LegSet)
      /\ b = [legs |-> b.legs, seq |-> b.seq, fills |-> b.fills] /\ b.seq \in Nat
  BY LegIs DEF IsBook
<1>3. i \in Nat /\ (i = 0 <=> At(b, c, side) = {}) /\ (i # 0 => i \in At(b, c, side))
  <2>1. At(b, c, side) \in SUBSET DOMAIN b.legs
    BY DEF At
  <2> QED BY <2>1, LegIs
<1>4. CASE i > 0
  <2> DEFINE leg == [b.legs[i] EXCEPT !.lots = @ + n]
  <2>1. i \in DOMAIN b.legs /\ b.legs[i].symbol = c /\ b.legs[i].side = side /\ b.legs[i] \in LegSet
    BY <1>2, <1>3, <1>4 DEF At
  <2>2. d.legs = [b.legs EXCEPT ![i] = leg]
    <3>1. d = [b EXCEPT !.legs[i].lots = @ + n, !.fills = @ + 1]
      BY <1>4 DEF Open, At
    <3> HIDE DEF i
    <3> QED BY <3>1, <1>2
  <2>3. leg.symbol = c /\ leg.side = side /\ leg.lots = b.legs[i].lots + n
    <3> HIDE DEF i
    <3> QED BY <2>1 DEF LegSet
  <2> HIDE DEF leg, d, i
  <2>4. DOMAIN d.legs = DOMAIN b.legs /\ d.legs[i] = leg
        /\ \A k \in DOMAIN b.legs : k # i => d.legs[k] = b.legs[k]
    BY <2>1, <2>2, <1>2
  <2>5. Held(d, c, side) = b.legs[i].lots + n
    BY <1>1, <2>1, <2>3, <2>4, HeldIs
  <2>6. Held(b, c, side) = b.legs[i].lots
    BY <2>1, HeldIs
  <2>7. ASSUME NEW e, NEW s, e # c \/ s # side PROVE Held(d, e, s) = Held(b, e, s)
    <3>1. At(d, e, s) = At(b, e, s) /\ i \notin At(b, e, s)
      BY <2>1, <2>3, <2>4, <2>7 DEF At
    <3>2. CASE At(b, e, s) = {}
      BY <3>1, <3>2 DEF Held
    <3>3. CASE At(b, e, s) # {}
      <4>1. PICK k \in DOMAIN b.legs : b.legs[k].symbol = e /\ b.legs[k].side = s /\ k # i
        BY <3>1, <3>3 DEF At
      <4>2. d.legs[k] = b.legs[k] /\ k \in DOMAIN d.legs
        BY <2>4, <4>1
      <4> QED BY <1>1, <4>1, <4>2, HeldIs
    <3> QED BY <3>2, <3>3
  <2> QED BY SMTT(30), <2>5, <2>6, <2>7 DEF d
<1>5. CASE ~(i > 0)
  <2> DEFINE leg == [id |-> b.seq + 1, symbol |-> c, side |-> side, lots |-> n]
             N == Len(b.legs)
  <2>1. d.legs = Append(b.legs, leg) /\ leg \in LegSet
    <3>1. d.legs = Append(b.legs, leg)
      BY <1>5 DEF Open, At
    <3> QED BY <3>1, <1>2 DEF LegSet
  <2>2. leg.symbol = c /\ leg.side = side /\ leg.lots = n
    OBVIOUS
  <2> HIDE DEF leg, d, i
  <2>3. DOMAIN d.legs = 1..(N + 1) /\ d.legs[N + 1] = leg /\ \A k \in 1..N : d.legs[k] = b.legs[k]
    <3>1. d.legs \in Seq(LegSet) /\ Len(d.legs) = N + 1
      BY <1>2, <2>1, AppendProperties
    <3> QED BY <1>2, <2>1, <3>1, AppendProperties, LenProperties
  <2>4. Held(d, c, side) = n
    <3>1. N + 1 \in DOMAIN d.legs
      BY <1>2, <2>3
    <3> QED BY <1>1, <2>2, <2>3, <3>1, HeldIs
  <2>5. Held(b, c, side) = 0
    BY <1>3, <1>5 DEF Held
  <2>6. ASSUME NEW e, NEW s, e # c \/ s # side PROVE Held(d, e, s) = Held(b, e, s)
    <3>1. At(d, e, s) = At(b, e, s)
      <4>1. \A k \in DOMAIN d.legs : k \in DOMAIN b.legs \/ k = N + 1
        BY <1>2, <2>3
      <4>2. DOMAIN b.legs \subseteq DOMAIN d.legs
        BY <1>2, <2>3
      <4> QED BY <4>1, <4>2, <1>2, <2>2, <2>3, <2>6 DEF At
    <3>2. CASE At(b, e, s) = {}
      BY <3>1, <3>2 DEF Held
    <3>3. CASE At(b, e, s) # {}
      <4>1. PICK k \in DOMAIN b.legs : b.legs[k].symbol = e /\ b.legs[k].side = s
        BY <3>3 DEF At
      <4>2. d.legs[k] = b.legs[k] /\ k \in DOMAIN d.legs
        BY <1>2, <2>3, <4>1
      <4> QED BY <1>1, <4>1, <4>2, HeldIs
    <3> QED BY <3>2, <3>3
  <2> QED BY <2>4, <2>5, <2>6 DEF d
<1> QED BY <1>4, <1>5

LEMMA CloseHeld ==
  ASSUME NEW b, IsBook(b), NEW i \in DOMAIN b.legs, NEW n \in Nat
  PROVE  LET d == Close(b, i, n)
             c == b.legs[i].symbol
             side == b.legs[i].side
         IN  /\ Held(d, c, side) = IF b.legs[i].lots <= n THEN 0 ELSE b.legs[i].lots - n
             /\ \A e, s : e # c \/ s # side => Held(d, e, s) = Held(b, e, s)
<1> DEFINE left == b.legs[i].lots - n
           d == Close(b, i, n)
           c == b.legs[i].symbol
           side == b.legs[i].side
<1>1. IsBook(d)
  BY CloseIs
<1>2. /\ Len(b.legs) \in Nat /\ DOMAIN b.legs = 1..Len(b.legs)
      /\ b.legs \in [1..Len(b.legs) -> LegSet] /\ b.legs \in Seq(LegSet)
      /\ b = [legs |-> b.legs, seq |-> b.seq, fills |-> b.fills]
      /\ i \in 1..Len(b.legs) /\ b.legs[i] \in LegSet
  BY LegIs DEF IsBook
<1>3. b.legs[i].lots \in Nat /\ left \in Int /\ (left <= 0 <=> b.legs[i].lots <= n)
  <2>1. b.legs[i].lots \in Nat
    BY <1>2 DEF LegSet
  <2> QED BY <2>1
<1>4. At(b, c, side) = {i}
  BY HeldIs
<1>5. CASE left <= 0
  <2>1. d.legs = RemoveAt(b.legs, i)
    <3>1. d = [b EXCEPT !.legs = RemoveAt(b.legs, i), !.fills = @ + 1]
      BY <1>5 DEF Close
    <3> QED BY <3>1, <1>2
  <2> HIDE DEF d
  <2>2. /\ DOMAIN d.legs = 1..(Len(b.legs) - 1)
        /\ \A k \in DOMAIN d.legs : d.legs[k] = IF k < i THEN b.legs[k] ELSE b.legs[k + 1]
    BY ZenonT(60), <1>2, <2>1, RemoveIs
  <2>3. ASSUME NEW k \in DOMAIN d.legs
        PROVE  \E l \in DOMAIN b.legs : l # i /\ d.legs[k] = b.legs[l]
    <3>1. k \in 1..(Len(b.legs) - 1)
      BY <2>2
    <3>2. CASE k < i
      <4>1. k \in DOMAIN b.legs /\ k # i
        BY <3>1, <3>2, <1>2
      <4> QED BY <3>2, <4>1, <2>2
    <3>3. CASE ~(k < i)
      <4>1. k + 1 \in DOMAIN b.legs /\ k + 1 # i
        BY <3>1, <3>3, <1>2
      <4> QED BY <3>3, <4>1, <2>2
    <3> QED BY <3>2, <3>3
  <2>4. ASSUME NEW l \in DOMAIN b.legs, l # i
        PROVE  \E k \in DOMAIN d.legs : d.legs[k] = b.legs[l]
    <3>1. l \in 1..Len(b.legs)
      BY <1>2
    <3>2. CASE l < i
      <4>1. l \in 1..(Len(b.legs) - 1)
        BY <3>1, <3>2, <1>2
      <4> QED BY <3>2, <4>1, <2>2
    <3>3. CASE ~(l < i)
      <4>1. l - 1 \in 1..(Len(b.legs) - 1) /\ ~(l - 1 < i) /\ (l - 1) + 1 = l
        BY <3>1, <3>3, <2>4, <1>2
      <4>2. l - 1 \in DOMAIN d.legs
        BY <4>1, <2>2
      <4>3. d.legs[l - 1] = b.legs[(l - 1) + 1]
        BY <4>1, <4>2, <2>2
      <4> QED BY <4>1, <4>2, <4>3
    <3> QED BY <3>2, <3>3
  <2>5. Held(d, c, side) = 0
    <3>1. At(d, c, side) = {}
      <4> SUFFICES ASSUME NEW k \in At(d, c, side) PROVE FALSE
        OBVIOUS
      <4>1. PICK l \in DOMAIN b.legs : l # i /\ d.legs[k] = b.legs[l]
        BY <2>3 DEF At
      <4>2. l \in At(b, c, side)
        BY <4>1 DEF At
      <4> QED BY <4>1, <4>2, <1>4
    <3> QED BY <3>1 DEF Held
  <2>6. ASSUME NEW e, NEW s, e # c \/ s # side PROVE Held(d, e, s) = Held(b, e, s)
    <3>1. CASE At(b, e, s) = {}
      <4>1. At(d, e, s) = {}
        <5> SUFFICES ASSUME NEW k \in At(d, e, s) PROVE FALSE
          OBVIOUS
        <5>1. PICK l \in DOMAIN b.legs : d.legs[k] = b.legs[l]
          BY <2>3 DEF At
        <5> QED BY <5>1, <3>1 DEF At
      <4> QED BY <3>1, <4>1 DEF Held
    <3>2. CASE At(b, e, s) # {}
      <4>1. PICK l \in DOMAIN b.legs : b.legs[l].symbol = e /\ b.legs[l].side = s
        BY <3>2 DEF At
      <4>2. l # i
        BY <4>1, <2>6
      <4>3. PICK k \in DOMAIN d.legs : d.legs[k] = b.legs[l]
        BY <4>2, <2>4
      <4> QED BY <1>1, <4>1, <4>3, HeldIs
    <3> QED BY <3>1, <3>2
  <2> QED BY <1>3, <1>5, <2>5, <2>6 DEF d
<1>6. CASE ~(left <= 0)
  <2> DEFINE leg == [b.legs[i] EXCEPT !.lots = left]
  <2>1. d.legs = [b.legs EXCEPT ![i] = leg]
    <3>1. d = [b EXCEPT !.legs = [@ EXCEPT ![i].lots = left], !.fills = @ + 1]
      BY <1>6 DEF Close
    <3> HIDE DEF left
    <3> QED BY <3>1, <1>2
  <2>2. leg.symbol = c /\ leg.side = side /\ leg.lots = left
    <3> HIDE DEF left
    <3> QED BY <1>2 DEF LegSet
  <2> HIDE DEF leg, d
  <2>3. DOMAIN d.legs = DOMAIN b.legs /\ d.legs[i] = leg
        /\ \A k \in DOMAIN b.legs : k # i => d.legs[k] = b.legs[k]
    BY <2>1, <1>2
  <2>4. Held(d, c, side) = left
    BY <1>1, <2>2, <2>3, HeldIs
  <2>5. ASSUME NEW e, NEW s, e # c \/ s # side PROVE Held(d, e, s) = Held(b, e, s)
    <3>1. At(d, e, s) = At(b, e, s) /\ i \notin At(b, e, s)
      BY <2>2, <2>3, <2>5 DEF At
    <3>2. CASE At(b, e, s) = {}
      BY <3>1, <3>2 DEF Held
    <3>3. CASE At(b, e, s) # {}
      <4>1. PICK k \in DOMAIN b.legs : b.legs[k].symbol = e /\ b.legs[k].side = s /\ k # i
        BY <3>1, <3>3 DEF At
      <4>2. d.legs[k] = b.legs[k] /\ k \in DOMAIN d.legs
        BY <2>3, <4>1
      <4> QED BY <1>1, <4>1, <4>2, HeldIs
    <3> QED BY <3>2, <3>3
  <2> QED BY <1>3, <1>6, <2>4, <2>5 DEF d
<1> QED BY <1>5, <1>6

LEMMA ReapplySymbols ==
  ASSUME NEW W, NEW g, AreRows(W, g), NEW row \in W, NEW b, IsBook(b),
         NEW k \in DOMAIN Reapply(b, row).legs
  PROVE  \/ Reapply(b, row).legs[k].symbol = row.symbol
         \/ \E l \in DOMAIN b.legs : b.legs[l].symbol = Reapply(b, row).legs[k].symbol
<1> DEFINE d == Reapply(b, row)
           e == d.legs[k].symbol
           s == d.legs[k].side
<1>1. /\ row \in RowsOver(W, g) /\ (row.action # "NOOP" => row.lots > 0)
      /\ row.symbol \in Contracts /\ row.lots \in Nat /\ row.action \in RowActions
  BY DEF AreRows, RowsOver
<1>2. IsBook(d)
  BY ReapplyIs
<1>3. Held(d, e, s) # 0
  <2> HIDE DEF d
  <2>1. Held(d, e, s) = d.legs[k].lots /\ d.legs[k].lots \in Nat \ {0}
    BY <1>2, HeldIs DEF d
  <2> QED BY <2>1
<1>4. ASSUME Held(b, e, s) # 0 PROVE \E l \in DOMAIN b.legs : b.legs[l].symbol = e
  <2>1. At(b, e, s) # {}
    BY <1>4, HeldIs
  <2> QED BY <2>1 DEF At
<1>5. CASE row.action = "NOOP"
  <2>1. d = b
    BY <1>5 DEF Reapply, Opening
  <2> HIDE DEF d
  <2> QED BY <2>1 DEF d
<1>6. CASE row.action # "NOOP" /\ row.action \in Opening
  <2>1. d = Open(b, row.symbol, SideOf(row.action), row.lots)
    BY <1>6 DEF Reapply
  <2>2. SideOf(row.action) \in {"B", "S"} /\ row.lots \in Nat \ {0}
    BY <1>1, <1>6 DEF SideOf
  <2> HIDE DEF d
  <2>3. e # row.symbol => Held(d, e, s) = Held(b, e, s)
    BY <1>1, <2>1, <2>2, OpenHeld
  <2> QED BY <2>3, <1>3, <1>4 DEF d
<1>7. CASE row.action # "NOOP" /\ row.action \notin Opening
  <2> DEFINE I == {l \in DOMAIN b.legs : /\ b.legs[l].symbol = row.symbol
                                         /\ row.action \in {"SETTLE", Exit(b.legs[l].side)}}
             i == First(I)
  <2>1. d = IF i = 0 THEN b ELSE Close(b, i, row.lots)
    BY <1>7 DEF Reapply
  <2>2. I \in SUBSET DOMAIN b.legs
    OBVIOUS
  <2>3. \A l \in I : b.legs[l].symbol = row.symbol
    OBVIOUS
  <2> HIDE DEF I, d
  <2>4. i # 0 => i \in I /\ i \in DOMAIN b.legs
    BY <2>2, LegIs
  <2> HIDE DEF i
  <2>5. CASE i = 0
    BY <2>1, <2>5 DEF d
  <2>6. CASE i # 0
    <3>1. e # b.legs[i].symbol => Held(d, e, s) = Held(b, e, s)
      BY <1>1, <2>1, <2>4, <2>6, CloseHeld
    <3> QED BY <3>1, <2>3, <2>4, <2>6, <1>3, <1>4 DEF d
  <2> QED BY <2>5, <2>6
<1> QED BY <1>5, <1>6, <1>7

\* A leg was opened by a row of the journal.
LegsHaveRows(b, j) ==
  \A k \in DOMAIN b.legs : \E i \in DOMAIN j : j[i].symbol = b.legs[k].symbol

LEMMA ReplayHasRows ==
  ASSUME NEW W, NEW g, AreRows(W, g), NEW j \in Seq(W), NEW n \in 0..Len(j)
  PROVE  \A k \in DOMAIN Books(j)[n].legs :
           \E i \in 1..n : j[i].symbol = Books(j)[n].legs[k].symbol
<1> DEFINE Good(m) == \A k \in DOMAIN Books(j)[m].legs :
                        \E i \in 1..m : j[i].symbol = Books(j)[m].legs[k].symbol
           G == {m \in 0..Len(j) : Good(m)}
<1>1. Len(j) \in Nat /\ DOMAIN j = 1..Len(j)
  BY LenProperties
<1>2. Books(j)[0] = EmptyBook /\ \A m \in 1..Len(j) : Books(j)[m] = Reapply(Books(j)[m - 1], j[m])
  BY <1>1, BooksAre
<1>3. 0 \in G
  <2>1. DOMAIN Books(j)[0].legs = {}
    BY <1>2 DEF EmptyBook
  <2> QED BY <1>1, <2>1
<1>4. ASSUME NEW m \in 0..(Len(j) - 1), m \in G PROVE m + 1 \in G
  <2>1. m + 1 \in 1..Len(j) /\ (m + 1) - 1 = m /\ m \in 0..Len(j) /\ m + 1 \in 0..Len(j)
    BY <1>1
  <2>2. Books(j)[m + 1] = Reapply(Books(j)[m], j[m + 1])
    BY <1>2, <2>1
  <2>3. j[m + 1] \in W
    BY <1>1, <2>1, RowIs
  <2>4. IsBook(Books(j)[m])
    BY <2>1, BooksType
  <2>5. ASSUME NEW k \in DOMAIN Books(j)[m + 1].legs
        PROVE  \E i \in 1..(m + 1) : j[i].symbol = Books(j)[m + 1].legs[k].symbol
    <3>1. \/ Books(j)[m + 1].legs[k].symbol = j[m + 1].symbol
          \/ \E l \in DOMAIN Books(j)[m].legs :
               Books(j)[m].legs[l].symbol = Books(j)[m + 1].legs[k].symbol
      BY <2>2, <2>3, <2>4, <2>5, ReapplySymbols
    <3>2. \A l \in DOMAIN Books(j)[m].legs :
            \E i \in 1..m : j[i].symbol = Books(j)[m].legs[l].symbol
      BY <1>4
    <3>3. 1..m \subseteq 1..(m + 1) /\ m + 1 \in 1..(m + 1)
      BY <2>1
    <3> QED BY <3>1, <3>2, <3>3
  <2>6. Good(m + 1)
    BY <2>5
  <2> HIDE DEF Good
  <2> QED BY <2>1, <2>6
<1> HIDE DEF G
<1>5. 0..Len(j) \subseteq G
  BY <1>1, <1>3, <1>4, Induction
<1> QED BY <1>5 DEF G

LEMMA ReplayKept ==
  ASSUME NEW g, NEW j, IsJournal(j, g), NEW m \in Int
  PROVE  IsBook(Replay(Kept(j, m))) /\ LegsHaveRows(Replay(Kept(j, m)), j)
<1> DEFINE h == Kept(j, m)
<1>1. IsJournal(h, g) /\ Upto(j, m) \in 0..Len(j) /\ Len(h) = Upto(j, m)
      /\ \A i \in 1..Upto(j, m) : h[i] = j[i]
  BY KeptJournal
<1>2. Len(j) \in Nat /\ DOMAIN j = 1..Len(j)
  BY JournalIs
<1> HIDE DEF h
<1>3. PICK W : AreRows(W, g) /\ h \in Seq(W)
  BY <1>1 DEF IsJournal
<1>4. Len(h) \in 0..Len(h) /\ 1..Len(h) \subseteq DOMAIN j
  BY <1>1, <1>2
<1>5. \A k \in DOMAIN Replay(h).legs : \E i \in 1..Len(h) : h[i].symbol = Replay(h).legs[k].symbol
  BY <1>3, <1>4, ReplayHasRows DEF Replay
<1>6. LegsHaveRows(Replay(h), j)
  BY <1>1, <1>4, <1>5 DEF LegsHaveRows
<1> QED BY <1>1, <1>6, ReplayType DEF h

LEMMA InsertKeeps ==
  ASSUME NEW g, NEW j, IsJournal(j, g), NEW row, row.at \in Int
  PROVE  /\ \A i \in DOMAIN j : \E k \in DOMAIN Insert(j, row) : Insert(j, row)[k] = j[i]
         /\ \E k \in DOMAIN Insert(j, row) : Insert(j, row)[k] = row
         /\ \A k \in DOMAIN Insert(j, row) :
              Insert(j, row)[k] = row \/ \E i \in DOMAIN j : Insert(j, row)[k] = j[i]
         /\ Len(Insert(j, row)) = Len(j) + 1
<1> DEFINE h == Insert(j, row)
           p == Upto(j, row.at)
<1>1. PICK W : AreRows(W, g) /\ j \in Seq(W) /\ Sorted(j)
  BY DEF IsJournal
<1>2. j \in Seq(W \cup {row}) /\ \A i \in DOMAIN j : j[i].at \in Int
  BY <1>1, SeqMonotonic, RowIs
<1>3. /\ p \in 0..Len(j) /\ DOMAIN h = 1..(Len(j) + 1) /\ Len(h) = Len(j) + 1
      /\ \A i \in DOMAIN h : h[i] = IF i <= p THEN j[i] ELSE IF i = p + 1 THEN row ELSE j[i - 1]
  BY <1>1, <1>2, InsertIs
<1>4. Len(j) \in Nat /\ DOMAIN j = 1..Len(j)
  BY <1>1, LenProperties
<1> HIDE DEF h, p
<1>5. p \in Nat /\ p + 1 \in DOMAIN h /\ h[p + 1] = row
  <2>1. p \in Nat /\ p + 1 \in DOMAIN h /\ ~(p + 1 <= p)
    BY <1>3, <1>4
  <2> QED BY <2>1, <1>3
<1>6. ASSUME NEW i \in DOMAIN j PROVE \E k \in DOMAIN h : h[k] = j[i]
  <2>1. CASE i <= p
    <3>1. i \in DOMAIN h
      BY <1>3, <1>4
    <3> QED BY <3>1, <2>1, <1>3
  <2>2. CASE ~(i <= p)
    <3>1. i + 1 \in DOMAIN h /\ ~(i + 1 <= p) /\ i + 1 # p + 1 /\ (i + 1) - 1 = i
      BY <2>2, <1>3, <1>4, <1>5
    <3>2. h[i + 1] = j[(i + 1) - 1]
      BY <3>1, <1>3
    <3> QED BY <3>1, <3>2
  <2> QED BY <2>1, <2>2
<1>7. ASSUME NEW k \in DOMAIN h PROVE h[k] = row \/ \E i \in DOMAIN j : h[k] = j[i]
  <2>1. k \in 1..(Len(j) + 1)
    BY <1>3
  <2>2. CASE k <= p
    <3>1. k \in DOMAIN j
      BY <2>1, <2>2, <1>3, <1>4
    <3> QED BY <3>1, <2>2, <1>3
  <2>3. CASE ~(k <= p) /\ k # p + 1
    <3>1. k - 1 \in DOMAIN j
      BY <2>1, <2>3, <1>3, <1>4, <1>5
    <3> QED BY <3>1, <2>3, <1>3
  <2>4. CASE k = p + 1
    BY <2>4, <1>5
  <2> QED BY <2>2, <2>3, <2>4
<1> QED BY <1>3, <1>5, <1>6, <1>7 DEF h

-----------------------------------------------------------------------------
(* The items of an action.                                                 *)

IsState(st, g) ==
  /\ st = [journal |-> st.journal, book |-> st.book, group |-> g, ok |-> st.ok]
  /\ st.ok \in BOOLEAN
  /\ IsJournal(st.journal, g) /\ IsBook(st.book) /\ LegsHaveRows(st.book, st.journal)

Items ==
  [kind : {"add", "exit", "roll", "resize"}, leg : Nat, symbol : Contracts,
   side : {"B", "S"}, lots : Nat]
IsItem(it) == it \in Items /\ (it.kind # "resize" => it.lots > 0)

LEMMA WithIs ==
  ASSUME NEW g, NEW st, IsState(st, g), NEW j, NEW b
  PROVE  st.group = g /\ With(st, j, b) = [journal |-> j, book |-> b, group |-> g, ok |-> st.ok]
<1>1. st = [journal |-> st.journal, book |-> st.book, group |-> g, ok |-> st.ok]
  BY DEF IsState
<1>2. st.group = g
  BY <1>1
<1> QED BY <1>2 DEF With

\* An order adds a row, and makes of the book what the row says.
LEMMA TradedState ==
  ASSUME NEW g \in Nat, NEW st, IsState(st, g), clock \in Minutes,
         NEW c \in Contracts, NEW a \in RowActions \ {"SETTLE"}, NEW n \in Nat \ {0},
         NEW book2, IsBook(book2),
         \A k \in DOMAIN book2.legs :
           \/ book2.legs[k].symbol = c
           \/ \E l \in DOMAIN st.book.legs : st.book.legs[l].symbol = book2.legs[k].symbol,
         NEW s, s = [journal |-> Insert(st.journal, Row(clock, c, a, g, n, <<>>)),
                     book |-> book2, group |-> g, ok |-> st.ok]
  PROVE  IsState(s, g)
<1> DEFINE row == Row(clock, c, a, g, n, <<>>)
           j == st.journal
           h == Insert(j, row)
<1>1. st = [journal |-> j, book |-> st.book, group |-> g, ok |-> st.ok] /\ st.group = g
  BY DEF IsState
<1>2. s = [journal |-> h, book |-> book2, group |-> g, ok |-> st.ok]
  OBVIOUS
<1>3. IsJournal(h, g)
  <2>1. clock \in Minutes \cup {ExpiryAt} /\ g \in 0..g
    OBVIOUS
  <2> QED BY <2>1, InsertJournal DEF IsState
<1>4. row.at = clock /\ row.symbol = c /\ clock \in Int
  BY MinutesAreInt DEF Row
<1>5. IsJournal(j, g)
  BY DEF IsState
<1> HIDE DEF row
<1>6. /\ \A i \in DOMAIN j : \E k \in DOMAIN h : h[k] = j[i]
      /\ \E k \in DOMAIN h : h[k] = row
  BY <1>4, <1>5, InsertKeeps
<1>7. LegsHaveRows(book2, h)
  <2> HIDE DEF h
  <2> SUFFICES ASSUME NEW k \in DOMAIN book2.legs
               PROVE  \E i \in DOMAIN h : h[i].symbol = book2.legs[k].symbol
    BY DEF LegsHaveRows
  <2>1. CASE book2.legs[k].symbol = c
    BY <2>1, <1>4, <1>6
  <2>2. CASE \E l \in DOMAIN st.book.legs : st.book.legs[l].symbol = book2.legs[k].symbol
    <3>1. PICK i \in DOMAIN j : j[i].symbol = book2.legs[k].symbol
      BY <2>2 DEF IsState, LegsHaveRows
    <3> QED BY <3>1, <1>6
  <2> QED BY <2>1, <2>2
<1> HIDE DEF h, j
<1>8. s.journal = h /\ s.book = book2 /\ s.ok = st.ok /\ s.group = g
  BY <1>2
<1>9. st.ok \in BOOLEAN
  BY DEF IsState
<1>10. IsState(s, g)
  BY <1>2, <1>3, <1>7, <1>8, <1>9 DEF IsState
<1> QED BY <1>10

LEMMA OpenedState ==
  ASSUME NEW g \in Nat, NEW st, IsState(st, g), clock \in Minutes,
         NEW c \in Contracts, NEW side \in {"B", "S"}, NEW n \in Int
  PROVE  IsState(Opened(st, c, side, n), g)
<1>1. CASE n <= 0
  BY <1>1 DEF Opened
<1>2. CASE ~(n <= 0)
  <2> DEFINE d == Open(st.book, c, side, n)
  <2>1. n \in Nat \ {0} /\ IsBook(st.book) /\ Entry(side) \in RowActions \ {"SETTLE"}
    BY <1>2 DEF IsState, Entry, RowActions
  <2>2. IsBook(d)
    BY <2>1, OpenIs
  <2>3. ASSUME NEW k \in DOMAIN d.legs, d.legs[k].symbol # c
        PROVE  \E l \in DOMAIN st.book.legs : st.book.legs[l].symbol = d.legs[k].symbol
    <3> DEFINE e == d.legs[k].symbol
               s == d.legs[k].side
    <3>1. Held(d, e, s) = Held(st.book, e, s)
      BY <2>1, <2>3, OpenHeld
    <3> HIDE DEF d
    <3>2. Held(d, e, s) # 0
      BY <2>2, HeldIs
    <3>3. At(st.book, e, s) # {}
      BY <2>1, <3>1, <3>2, HeldIs
    <3> QED BY <3>3 DEF At
  <2>4. Opened(st, c, side, n)
          = [journal |-> Insert(st.journal, Row(clock, c, Entry(side), g, n, <<>>)),
             book |-> d, group |-> g, ok |-> st.ok]
    <3> DEFINE h == Insert(st.journal, Row(clock, c, Entry(side), st.group, n, <<>>))
    <3>1. Opened(st, c, side, n) = With(st, h, d)
      BY <1>2 DEF Opened
    <3> HIDE DEF d, h
    <3>2. st.group = g /\ Opened(st, c, side, n) = [journal |-> h, book |-> d, group |-> g, ok |-> st.ok]
      BY <3>1, WithIs
    <3> QED BY <3>2 DEF h
  <2> HIDE DEF d
  <2>5. \A k \in DOMAIN d.legs :
          \/ d.legs[k].symbol = c
          \/ \E l \in DOMAIN st.book.legs : st.book.legs[l].symbol = d.legs[k].symbol
    BY <2>3
  <2> QED BY <2>1, <2>2, <2>4, <2>5, TradedState
<1> QED BY <1>1, <1>2

LEMMA ClosedState ==
  ASSUME NEW g \in Nat, NEW st, IsState(st, g), clock \in Minutes,
         NEW i \in DOMAIN st.book.legs, NEW n \in Nat \ {0}
  PROVE  IsState(Closed(st, i, n), g)
<1> DEFINE leg == st.book.legs[i]
           m == IF n < leg.lots THEN n ELSE leg.lots
           d == Close(st.book, i, m)
<1>1. IsBook(st.book) /\ leg \in LegSet
  BY LegIs DEF IsState
<1>2. m \in Nat \ {0} /\ leg.symbol \in Contracts /\ Exit(leg.side) \in RowActions \ {"SETTLE"}
  <2>1. leg.lots \in Nat \ {0} /\ leg.symbol \in Contracts
    BY <1>1 DEF LegSet
  <2>2. Exit(leg.side) \in RowActions \ {"SETTLE"}
    BY DEF Exit, RowActions
  <2> QED BY <2>1, <2>2
<1>3. Closed(st, i, n)
        = [journal |-> Insert(st.journal, Row(clock, leg.symbol, Exit(leg.side), g, m, <<>>)),
           book |-> d, group |-> g, ok |-> st.ok]
  <2> DEFINE h == Insert(st.journal, Row(clock, leg.symbol, Exit(leg.side), st.group, m, <<>>))
  <2>1. Closed(st, i, n) = With(st, h, d)
    BY DEF Closed
  <2> HIDE DEF d, h
  <2>2. st.group = g /\ Closed(st, i, n) = [journal |-> h, book |-> d, group |-> g, ok |-> st.ok]
    BY <2>1, WithIs
  <2> QED BY <2>2 DEF h
<1> HIDE DEF m
<1>4. IsBook(d)
  BY <1>1, <1>2, CloseIs
<1>5. ASSUME NEW k \in DOMAIN d.legs, d.legs[k].symbol # leg.symbol
      PROVE  \E l \in DOMAIN st.book.legs : st.book.legs[l].symbol = d.legs[k].symbol
  <2> DEFINE e == d.legs[k].symbol
             s == d.legs[k].side
  <2>1. Held(d, e, s) = Held(st.book, e, s)
    BY <1>1, <1>2, <1>5, CloseHeld
  <2> HIDE DEF d
  <2>2. Held(d, e, s) # 0
    BY <1>4, HeldIs
  <2>3. At(st.book, e, s) # {}
    BY <1>1, <2>1, <2>2, HeldIs
  <2> QED BY <2>3 DEF At
<1> HIDE DEF d
<1>6. \A k \in DOMAIN d.legs :
        \/ d.legs[k].symbol = leg.symbol
        \/ \E l \in DOMAIN st.book.legs : st.book.legs[l].symbol = d.legs[k].symbol
  BY <1>5
<1> QED BY <1>2, <1>3, <1>4, <1>6, TradedState

LEMMA AddState ==
  ASSUME NEW g \in Nat, NEW st, IsState(st, g), clock \in Minutes, NEW it, IsItem(it), it.kind = "add"
  PROVE  IsState(Add(st, it), g)
<1> DEFINE legs == st.book.legs
           I == {k \in DOMAIN legs : legs[k].symbol = it.symbol /\ legs[k].side = Other(it.side)}
           i == First(I)
           rest == IF i = 0 THEN it.lots ELSE it.lots - legs[i].lots
           netted == IF i = 0 THEN st ELSE Closed(st, i, it.lots)
<1>1. /\ it.symbol \in Contracts /\ it.side \in {"B", "S"} /\ it.lots \in Nat \ {0}
  BY DEF IsItem, Items
<1>2. IsBook(st.book)
  BY DEF IsState
<1>3. I \in SUBSET DOMAIN st.book.legs
  OBVIOUS
<1>4. Add(st, it) = Opened(netted, it.symbol, it.side, rest)
  BY DEF Add
<1> HIDE DEF I
<1>5. i # 0 => i \in DOMAIN legs /\ legs[i].lots \in Nat
  BY <1>2, <1>3, LegIs DEF LegSet
<1>6. rest \in Int
  BY <1>1, <1>5
<1>7. IsState(netted, g)
  BY <1>1, <1>5, ClosedState
<1> HIDE DEF rest, netted
<1> QED BY <1>1, <1>4, <1>6, <1>7, OpenedState

\* The first positions, when all of them are among some.
LEMMA RankStart ==
  ASSUME NEW n \in Nat, NEW I \in SUBSET (1..n), NEW p \in Nat, 1..p \subseteq I
  PROVE  p <= Cardinality(I) /\ \A k \in 1..p : k \in I /\ Rank(I, k) = k
<1>1. I \in SUBSET Nat /\ 0 \notin I /\ Cardinality(I) \in Nat
  BY Positions
<1>2. ASSUME NEW k \in 1..p PROVE k \in I /\ Rank(I, k) = k
  <2>1. {h \in I : h <= k} = 1..k
    <3>1. ASSUME NEW h \in I, h <= k PROVE h \in 1..k
      BY <1>1, <3>1
    <3>2. ASSUME NEW h \in 1..k PROVE h \in I /\ h <= k
      <4>1. h \in 1..p /\ h <= k
        OBVIOUS
      <4> QED BY <4>1
    <3> QED BY <3>1, <3>2
  <2>2. Cardinality(1..k) = k
    BY FS_Interval
  <2> QED BY <2>1, <2>2 DEF Rank
<1>3. p <= Cardinality(I)
  <2>1. CASE p = 0
    BY <2>1, <1>1
  <2>2. CASE p # 0
    <3>1. p \in 1..p
      BY <2>2
    <3>2. p \in I /\ Rank(I, p) = p
      BY <3>1, <1>2
    <3>3. Rank(I, p) \in 1..Cardinality(I)
      BY <3>2, RankGrows
    <3> QED BY <1>1, <3>2, <3>3
  <2> QED BY <2>1, <2>2
<1> QED BY <1>2, <1>3

LEMMA RewriteState ==
  ASSUME NEW g \in Nat, NEW st, IsState(st, g), clock \in Minutes,
         NEW i \in DOMAIN st.book.legs, Fresh(st, st.book.legs[i]),
         NEW c \in Contracts, NEW n \in Nat
  PROVE  IsState(RewriteFresh(st, st.book.legs[i], c, n), g)
<1> DEFINE leg == st.book.legs[i]
           j == st.journal
           R == {k \in DOMAIN j : j[k].symbol = leg.symbol}
           K == {k \in DOMAIN j : j[k].symbol # leg.symbol}
           rows == RowsOf(j, leg.symbol)
           rest == Without(j, leg.symbol)
           edit == IF n > 0 THEN Row(clock, c, Entry(leg.side), st.group, n, rows)
                   ELSE Row(clock, leg.symbol, "NOOP", st.group, 0, rows)
           at == First(R)
           p == at - 1
           edited == InsertAt(rest, at, edit)
<1>1. PICK W : AreRows(W, g) /\ j \in Seq(W) /\ Sorted(j)
  BY DEF IsState, IsJournal
<1>2. Len(j) \in Nat /\ DOMAIN j = 1..Len(j) /\ \A k \in DOMAIN j : j[k].at \in Nat
  BY <1>1, LenProperties, RowIs
<1>3. IsBook(st.book) /\ leg \in LegSet /\ leg.symbol \in Contracts
  <2>1. IsBook(st.book)
    BY DEF IsState
  <2>2. leg \in LegSet
    BY <2>1, LegIs
  <2> QED BY <2>1, <2>2 DEF LegSet
<1>4. R # {}
  <2>1. \E k \in DOMAIN j : j[k].symbol = leg.symbol
    BY DEF IsState, LegsHaveRows
  <2> QED BY <2>1
<1>5. R \in SUBSET (1..Len(j)) /\ K \in SUBSET (1..Len(j)) /\ DOMAIN j = R \cup K /\ R \cap K = {}
  BY <1>2
<1>6. /\ rows = Pick(j, R) /\ rest = Pick(j, K)
  BY DEF RowsOf, Without
<1>7. st.group = g /\ clock \in Nat
  BY MinutesAreInt DEF IsState
<1>8. Fresh(st, leg)
  OBVIOUS
<1> HIDE DEF R, K, rest, leg
<1>9. /\ rows \in Seq(W) /\ DOMAIN rows = 1..Cardinality(R)
      /\ \A k \in R : \E l \in DOMAIN rows : rows[l] = j[k]
      /\ \A l \in DOMAIN rows : rows[l].at = clock
  <2>1. /\ rows \in Seq(W) /\ DOMAIN rows = 1..Cardinality(R)
        /\ \A k \in R : \E l \in 1..Cardinality(R) : rows[l] = j[k]
    BY <1>1, <1>2, <1>5, <1>6, PickIs
  <2>2. \A l \in DOMAIN rows : rows[l].at = clock
    BY <1>8 DEF Fresh, Range
  <2> QED BY <2>1, <2>2
<1> HIDE DEF rows
<1>10. \A k \in R : j[k].at = clock
  BY <1>9
<1>11. at \in R /\ at \in Nat /\ at # 0 /\ \A k \in R : at <= k
  <2>1. R \in SUBSET Nat /\ 0 \notin R
    BY <1>2, <1>5, Positions
  <2> QED BY <2>1, <1>4, FirstIs
<1> HIDE DEF at
<1>12. p \in Nat /\ p + 1 = at /\ at <= Len(j)
  BY <1>11, <1>5, <1>2
<1> HIDE DEF p
<1>13. 1..p \subseteq K
  <2> SUFFICES ASSUME NEW k \in 1..p PROVE k \in K
    OBVIOUS
  <2>1. k \in 1..Len(j) /\ ~(at <= k)
    BY <1>2, <1>12
  <2>2. k \notin R
    BY <1>11, <2>1
  <2> QED BY <1>2, <1>5, <2>1, <2>2
<1>14. p <= Cardinality(K) /\ \A k \in 1..p : k \in K /\ Rank(K, k) = k
  BY <1>2, <1>5, <1>12, <1>13, RankStart
<1>15. /\ rest \in Seq(W) /\ Len(rest) = Cardinality(K) /\ DOMAIN rest = 1..Cardinality(K)
       /\ Cardinality(K) \in Nat
       /\ \A k \in DOMAIN rest : Nth(K, k) \in K /\ rest[k] = j[Nth(K, k)] /\ Rank(K, Nth(K, k)) = k
  <2>1. /\ rest \in Seq(W) /\ Len(rest) = Cardinality(K) /\ DOMAIN rest = 1..Cardinality(K)
        /\ Cardinality(K) \in 0..Len(j)
        /\ \A k \in 1..Cardinality(K) : Nth(K, k) \in K /\ rest[k] = j[Nth(K, k)]
    BY <1>1, <1>2, <1>5, <1>6, PickIs
  <2>2. \A k \in 1..Cardinality(K) : Rank(K, Nth(K, k)) = k
    BY <1>2, <1>5, NthIs
  <2> QED BY <1>2, <2>1, <2>2
<1>16. Sorted(rest)
  BY <1>1, <1>2, <1>5, <1>6, PickSorted
<1>17. ASSUME NEW k \in DOMAIN rest
       PROVE  (k <= p => rest[k].at <= clock) /\ (~(k <= p) => clock <= rest[k].at)
  <2> DEFINE q == Nth(K, k)
  <2>1. q \in K /\ rest[k] = j[q] /\ Rank(K, q) = k /\ q \in DOMAIN j /\ q # at /\ q \in Nat
    BY <1>2, <1>5, <1>11, <1>15
  <2> HIDE DEF q
  <2>2. k \in Nat /\ k >= 1
    BY <1>15
  <2>3. q < at => k = q /\ k <= p
    <3> SUFFICES ASSUME q < at PROVE k = q /\ k <= p
      OBVIOUS
    <3>1. q \in 1..p
      BY <1>2, <1>12, <2>1
    <3> QED BY <3>1, <1>14, <2>1, <1>12
  <2>4. q < at => rest[k].at <= clock
    BY <1>1, <1>5, <1>10, <1>11, <2>1 DEF Sorted
  <2>5. ~(q < at) => clock <= rest[k].at
    <3>1. ~(q < at) => at < q
      BY <2>1, <1>11
    <3> QED BY <1>1, <1>5, <1>10, <1>11, <2>1, <3>1 DEF Sorted
  <2>6. k <= p => q < at
    <3> SUFFICES ASSUME k <= p PROVE q < at
      OBVIOUS
    <3>1. k \in 1..p
      BY <2>2, <1>12
    <3>2. k \in K /\ Rank(K, k) = k
      BY <3>1, <1>14
    <3>3. Nth(K, Rank(K, k)) = k
      BY <3>2, <1>2, <1>5, NthIs
    <3>4. q = k
      BY <3>2, <3>3 DEF q
    <3> QED BY <3>1, <3>4, <1>12
  <2> QED BY <2>3, <2>4, <2>5, <2>6
<1>18. /\ edit \in RowsOver(W, g) /\ edit.at = clock /\ edit.replaces = rows
       /\ (edit.action # "NOOP" => edit.lots > 0) /\ edit.action # "SETTLE"
  <2>1. Entry(leg.side) \in RowActions \ {"SETTLE", "NOOP"} /\ "NOOP" \in RowActions
    BY DEF Entry, RowActions
  <2>2. clock \in Minutes \cup {ExpiryAt} /\ g \in 0..g /\ st.group = g
    BY <1>7
  <2>3. CASE n > 0
    <3>1. edit = [at |-> clock, symbol |-> c, action |-> Entry(leg.side), group |-> g,
                  lots |-> n, replaces |-> rows]
      BY <2>3, <1>7 DEF Row
    <3> HIDE DEF edit
    <3> QED BY <2>1, <2>2, <2>3, <3>1, <1>9 DEF RowsOver
  <2>4. CASE ~(n > 0)
    <3>1. edit = [at |-> clock, symbol |-> leg.symbol, action |-> "NOOP", group |-> g,
                  lots |-> 0, replaces |-> rows]
      BY <2>4, <1>7 DEF Row
    <3> HIDE DEF edit
    <3> QED BY <2>1, <2>2, <2>4, <3>1, <1>3, <1>9 DEF RowsOver
  <2> QED BY <2>3, <2>4
<1>19. RewriteFresh(st, leg, c, n) = With(st, edited, Replay(Kept(edited, clock)))
  BY DEF RewriteFresh, rows, rest, at, R
<1> HIDE DEF edit
<1>20. AreRows(W \cup {edit}, g)
  BY <1>1, <1>9, <1>18, AnotherRow
<1>21. edited \in Seq(W \cup {edit}) /\ Sorted(edited)
  <2>1. rest \in Seq(W \cup {edit})
    BY <1>15, SeqMonotonic
  <2>2. p \in 0..Len(rest)
    BY <1>12, <1>14, <1>15
  <2>3. InsertAt(rest, p + 1, edit) \in Seq(W \cup {edit})
    BY <2>1, <2>2, InsertAtIs
  <2>4. /\ \A k \in DOMAIN rest : k <= p => rest[k].at <= edit.at
        /\ \A k \in DOMAIN rest : ~(k <= p) => edit.at <= rest[k].at
    BY <1>17, <1>18
  <2>5. Sorted(InsertAt(rest, p + 1, edit))
    BY <2>1, <2>2, <2>4, <1>16, InsertSorted
  <2> QED BY <2>3, <2>5, <1>12
<1> HIDE DEF edited
<1>22. IsJournal(edited, g)
  BY <1>20, <1>21 DEF IsJournal
<1> DEFINE b == Replay(Kept(edited, clock))
           s == RewriteFresh(st, leg, c, n)
<1>23. IsBook(b) /\ LegsHaveRows(b, edited)
  BY <1>7, <1>22, ReplayKept
<1> HIDE DEF b
<1>24. s = [journal |-> edited, book |-> b, group |-> g, ok |-> st.ok]
  BY <1>19, WithIs DEF b
<1>25. st.ok \in BOOLEAN
  BY DEF IsState
<1> HIDE DEF s
<1>26. s.journal = edited /\ s.book = b /\ s.ok = st.ok
  BY <1>24
<1>27. IsState(s, g)
  BY <1>22, <1>23, <1>24, <1>25, <1>26 DEF IsState
<1> QED BY <1>27 DEF s, leg

HasLeg(b, id) == \E i \in DOMAIN b.legs : b.legs[i].id = id

\* What an item of an action does.
LEMMA ApplyCases ==
  ASSUME NEW g \in Nat, NEW st, IsState(st, g), NEW it, IsItem(it)
  PROVE  LET d == Apply(st, it)
         IN  \/ ~st.ok /\ d = st
             \/ st.ok /\ it.kind = "add" /\ d = Add(st, it)
             \/ st.ok /\ it.kind # "add" /\ ~HasLeg(st.book, it.leg) /\ d = Failed(st)
             \/ /\ st.ok /\ it.kind # "add"
                /\ \E i \in DOMAIN st.book.legs :
                     /\ st.book.legs[i].id = it.leg
                     /\ \/ \E n \in Nat \ {0} : d = Closed(st, i, n)
                        \/ \E c \in Contracts, n \in Nat :
                             /\ Fresh(st, st.book.legs[i])
                             /\ d = RewriteFresh(st, st.book.legs[i], c, n)
                        \/ \E c \in Contracts, n \in Nat \ {0} :
                             d = Opened(Closed(st, i, n), c, st.book.legs[i].side, n)
                        \/ \E n \in Int :
                             d = Opened(st, st.book.legs[i].symbol, st.book.legs[i].side, n)
<1> DEFINE I == {k \in DOMAIN st.book.legs : st.book.legs[k].id = it.leg}
           i == First(I)
           leg == st.book.legs[i]
           d == Apply(st, it)
           Does(k) == \/ \E n \in Nat \ {0} : d = Closed(st, k, n)
                      \/ \E c \in Contracts, n \in Nat :
                           /\ Fresh(st, st.book.legs[k])
                           /\ d = RewriteFresh(st, st.book.legs[k], c, n)
                      \/ \E c \in Contracts, n \in Nat \ {0} :
                           d = Opened(Closed(st, k, n), c, st.book.legs[k].side, n)
                      \/ \E n \in Int :
                           d = Opened(st, st.book.legs[k].symbol, st.book.legs[k].side, n)
<1>1. /\ it.symbol \in Contracts /\ it.side \in {"B", "S"} /\ it.lots \in Nat
      /\ it.kind \in {"add", "exit", "roll", "resize"} /\ (it.kind # "resize" => it.lots \in Nat \ {0})
  BY DEF IsItem, Items
<1>2. IsBook(st.book) /\ st.ok \in BOOLEAN
  BY DEF IsState
<1>3. I \in SUBSET DOMAIN st.book.legs
  OBVIOUS
<1>4. d =
        CASE ~st.ok -> st
          [] st.ok /\ it.kind = "add" -> Add(st, it)
          [] st.ok /\ it.kind # "add" /\ i = 0 -> Failed(st)
          [] st.ok /\ it.kind = "exit" /\ i > 0 -> Closed(st, i, it.lots)
          [] st.ok /\ it.kind = "roll" /\ i > 0 ->
               IF Fresh(st, leg) THEN RewriteFresh(st, leg, it.symbol, leg.lots)
               ELSE Opened(Closed(st, i, leg.lots), it.symbol, leg.side, leg.lots)
          [] st.ok /\ it.kind = "resize" /\ i > 0 ->
               IF Fresh(st, leg) THEN RewriteFresh(st, leg, leg.symbol, it.lots)
               ELSE IF it.lots < leg.lots THEN Closed(st, i, leg.lots - it.lots)
               ELSE Opened(st, leg.symbol, leg.side, it.lots - leg.lots)
  BY DEF Apply
<1> HIDE DEF d, I
<1>5. i \in Nat /\ (i # 0 => i \in I) /\ (i = 0 <=> I = {})
  BY <1>2, <1>3, LegIs
<1>6. i = 0 <=> ~HasLeg(st.book, it.leg)
  BY SMTT(30), <1>5 DEF I, HasLeg
<1>7. i # 0 => i \in DOMAIN st.book.legs /\ leg.id = it.leg
  BY <1>5 DEF I
<1> HIDE DEF i
<1>8. i # 0 => leg.symbol \in Contracts /\ leg.side \in {"B", "S"} /\ leg.lots \in Nat \ {0}
  <2>1. i # 0 => leg \in LegSet
    BY <1>2, <1>7, LegIs
  <2> QED BY <2>1 DEF LegSet
<1>9. CASE ~st.ok
  <2>1. d = st
    BY <1>4, <1>9
  <2> QED BY <2>1, <1>9 DEF d
<1>10. CASE st.ok /\ it.kind = "add"
  <2>1. d = Add(st, it)
    BY <1>4, <1>10
  <2> QED BY <2>1, <1>10 DEF d
<1>11. CASE st.ok /\ it.kind # "add" /\ i = 0
  <2>1. d = Failed(st)
    BY <1>4, <1>11
  <2> QED BY <2>1, <1>6, <1>11 DEF d
<1>12. CASE st.ok /\ it.kind # "add" /\ i # 0
  <2> SUFFICES Does(i)
    BY <1>7, <1>12 DEF d
  <2>1. CASE it.kind = "exit"
    <3>1. d = Closed(st, i, it.lots)
      BY <1>4, <1>5, <1>12, <2>1
    <3>2. it.lots \in Nat \ {0}
      BY <1>1, <2>1
    <3> QED BY <3>1, <3>2
  <2>2. CASE it.kind = "roll"
    <3>1. d = IF Fresh(st, leg) THEN RewriteFresh(st, leg, it.symbol, leg.lots)
              ELSE Opened(Closed(st, i, leg.lots), it.symbol, leg.side, leg.lots)
      BY <1>4, <1>5, <1>12, <2>2
    <3>2. leg.lots \in Nat /\ leg.lots \in Nat \ {0}
      BY <1>8, <1>12
    <3> QED BY <3>1, <3>2, <1>1
  <2>3. CASE it.kind = "resize"
    <3>1. d = IF Fresh(st, leg) THEN RewriteFresh(st, leg, leg.symbol, it.lots)
              ELSE IF it.lots < leg.lots THEN Closed(st, i, leg.lots - it.lots)
              ELSE Opened(st, leg.symbol, leg.side, it.lots - leg.lots)
      BY <1>4, <1>5, <1>12, <2>3
    <3>2. it.lots < leg.lots => leg.lots - it.lots \in Nat \ {0}
      BY <1>1, <1>8, <1>12
    <3>3. it.lots - leg.lots \in Int /\ leg.symbol \in Contracts
      BY <1>1, <1>8, <1>12
    <3> QED BY <3>1, <3>2, <3>3, <1>1
  <2> QED BY <2>1, <2>2, <2>3, <1>1, <1>12
<1> QED BY <1>1, <1>2, <1>9, <1>10, <1>11, <1>12

LEMMA FailedState ==
  ASSUME NEW g \in Nat, NEW st, IsState(st, g)
  PROVE  IsState(Failed(st), g)
<1> DEFINE d == Failed(st)
<1>1. st = [journal |-> st.journal, book |-> st.book, group |-> g, ok |-> st.ok]
  BY DEF IsState
<1>2. st.group = g
  BY <1>1
<1>3. d = [journal |-> st.journal, book |-> st.book, group |-> g, ok |-> FALSE]
  BY <1>2 DEF Failed
<1> HIDE DEF d
<1>4. d.journal = st.journal /\ d.book = st.book /\ d.ok = FALSE
  BY <1>3
<1>5. IsJournal(st.journal, g) /\ IsBook(st.book) /\ LegsHaveRows(st.book, st.journal)
  BY DEF IsState
<1>6. IsState(d, g)
  BY <1>3, <1>4, <1>5 DEF IsState
<1> QED BY <1>6 DEF d

LEMMA LegHere ==
  ASSUME NEW g, NEW st, IsState(st, g), NEW i \in DOMAIN st.book.legs
  PROVE  /\ st.book.legs[i].symbol \in Contracts /\ st.book.legs[i].side \in {"B", "S"}
         /\ st.book.legs[i].lots \in Nat \ {0}
<1>1. st.book.legs[i] \in LegSet
  BY LegIs DEF IsState
<1> QED BY <1>1 DEF LegSet

LEMMA ApplyState ==
  ASSUME NEW g \in Nat, NEW st, IsState(st, g), clock \in Minutes, NEW it, IsItem(it)
  PROVE  IsState(Apply(st, it), g)
<1> DEFINE d == Apply(st, it)
<1>1. CASE d = st
  BY <1>1
<1>2. CASE it.kind = "add" /\ d = Add(st, it)
  BY <1>2, AddState
<1>3. CASE d = Failed(st)
  BY <1>3, FailedState
<1>4. ASSUME NEW i \in DOMAIN st.book.legs, NEW n \in Nat \ {0}, d = Closed(st, i, n)
      PROVE  IsState(d, g)
  BY <1>4, ClosedState
<1>5. ASSUME NEW i \in DOMAIN st.book.legs, NEW c \in Contracts, NEW n \in Nat,
             Fresh(st, st.book.legs[i]), d = RewriteFresh(st, st.book.legs[i], c, n)
      PROVE  IsState(d, g)
  BY <1>5, RewriteState
<1>6. ASSUME NEW i \in DOMAIN st.book.legs, NEW c \in Contracts, NEW n \in Nat \ {0},
             d = Opened(Closed(st, i, n), c, st.book.legs[i].side, n)
      PROVE  IsState(d, g)
  BY SMTT(30), <1>6, ClosedState, OpenedState, LegHere
<1>7. ASSUME NEW i \in DOMAIN st.book.legs, NEW n \in Int,
             d = Opened(st, st.book.legs[i].symbol, st.book.legs[i].side, n)
      PROVE  IsState(d, g)
  BY <1>7, OpenedState, LegHere
<1> HIDE DEF d
<1>8. \/ d = st
      \/ it.kind = "add" /\ d = Add(st, it)
      \/ d = Failed(st)
      \/ \E i \in DOMAIN st.book.legs :
           \/ \E n \in Nat \ {0} : d = Closed(st, i, n)
           \/ \E c \in Contracts, n \in Nat :
                Fresh(st, st.book.legs[i]) /\ d = RewriteFresh(st, st.book.legs[i], c, n)
           \/ \E c \in Contracts, n \in Nat \ {0} :
                d = Opened(Closed(st, i, n), c, st.book.legs[i].side, n)
           \/ \E n \in Int : d = Opened(st, st.book.legs[i].symbol, st.book.legs[i].side, n)
  BY ApplyCases DEF d
<1> QED BY <1>1, <1>2, <1>3, <1>4, <1>5, <1>6, <1>7, <1>8 DEF d

LEMMA AppliedState ==
  ASSUME NEW g \in Nat, NEW start, IsState(start, g), clock \in Minutes,
         NEW items, Len(items) \in Nat, \A k \in 1..Len(items) : IsItem(items[k])
  PROVE  \A n \in 0..Len(items) : IsState(Applied(start, items)[n], g)
<1> DEFINE f == Applied(start, items)
           N == Len(items)
           G == {n \in 0..N : IsState(f[n], g)}
<1>1. f[0] = start /\ \A n \in 1..N : f[n] = Apply(f[n - 1], items[n])
  BY AppliedIs
<1> HIDE DEF f
<1>2. 0 \in G
  BY <1>1
<1>3. ASSUME NEW n \in 0..(N - 1), n \in G PROVE n + 1 \in G
  <2>1. n + 1 \in 1..N /\ (n + 1) - 1 = n /\ n + 1 \in 0..N
    OBVIOUS
  <2>2. f[n + 1] = Apply(f[n], items[n + 1])
    BY <1>1, <2>1
  <2>3. IsState(f[n + 1], g)
    BY <1>3, <2>1, <2>2, ApplyState
  <2> QED BY <2>1, <2>3
<1> HIDE DEF G
<1>4. 0..N \subseteq G
  <2> HIDE DEF N
  <2>1. N \in Nat
    BY DEF N
  <2> QED BY <1>2, <1>3, <2>1, Induction
<1> QED BY <1>4 DEF G, f

\* What the owner may ask for.
LEMMA ActionsAreItems ==
  ASSUME IsBook(book), NEW items \in Actions
  PROVE  Len(items) \in Nat /\ \A k \in 1..Len(items) : IsItem(items[k])
<1>1. Lots \subseteq Nat \ {0} /\ MaxHeld \in Nat
  BY JournalAssumption
<1>2. /\ Len(book.legs) \in Nat /\ DOMAIN book.legs = 1..Len(book.legs)
      /\ \A i \in DOMAIN book.legs : book.legs[i] \in LegSet
  BY LegIs
<1>3. \A leg \in Legs : leg \in LegSet
  BY <1>2 DEF Legs
<1>4. ASSUME NEW kind \in {"exit", "roll", "resize"}, NEW leg \in LegSet, NEW c \in Contracts,
             NEW n \in Nat, kind # "resize" => n > 0
      PROVE  IsItem(OnLeg(kind, leg, c, n))
  BY <1>4 DEF OnLeg, Item, IsItem, Items, LegSet
<1>5. \A it \in Adds : IsItem(it)
  <2> SUFFICES ASSUME NEW c \in Contracts, NEW side \in {"B", "S"}, NEW n \in Lots
               PROVE  IsItem(Item("add", 0, c, side, n))
    BY DEF Adds
  <2> QED BY <1>1 DEF Item, IsItem, Items
<1>6. \A it \in Exits : IsItem(it)
  <2> SUFFICES ASSUME NEW leg \in Legs, NEW n \in 1..leg.lots
               PROVE  IsItem(OnLeg("exit", leg, leg.symbol, n))
    BY DEF Exits
  <2>1. leg \in LegSet /\ leg.symbol \in Contracts /\ n \in Nat /\ n > 0
    BY <1>3 DEF LegSet
  <2> QED BY <2>1, <1>4
<1>7. \A it \in Rolls : IsItem(it)
  <2> SUFFICES ASSUME NEW leg \in Legs, NEW c \in Contracts \ {leg.symbol}
               PROVE  IsItem(OnLeg("roll", leg, c, leg.lots))
    BY DEF Rolls
  <2>1. leg \in LegSet /\ leg.lots \in Nat /\ leg.lots > 0
    BY <1>3 DEF LegSet
  <2> QED BY <2>1, <1>4
<1>8. \A it \in Resizes : IsItem(it)
  <2> SUFFICES ASSUME NEW leg \in Legs, NEW n \in (0..MaxHeld) \ {leg.lots}
               PROVE  IsItem(OnLeg("resize", leg, leg.symbol, n))
    BY DEF Resizes
  <2>1. leg \in LegSet /\ leg.symbol \in Contracts /\ n \in Nat
    BY <1>1, <1>3 DEF LegSet
  <2> QED BY <2>1, <1>4
<1>9. CASE items \in Single(Adds \cup Exits \cup Rolls \cup Resizes)
  <2>1. PICK it \in Adds \cup Exits \cup Rolls \cup Resizes : items = <<it>>
    BY <1>9 DEF Single
  <2>2. Len(items) = 1 /\ items[1] = it
    BY <2>1
  <2> QED BY <2>1, <2>2, <1>5, <1>6, <1>7, <1>8
<1>10. CASE items \in Baskets
  <2>1. PICK a \in Adds, b \in Adds : items = <<a, b>>
    BY <1>10 DEF Baskets
  <2>2. Len(items) = 2 /\ items[1] = a /\ items[2] = b
    BY <2>1
  <2>3. \A k \in 1..2 : k = 1 \/ k = 2
    OBVIOUS
  <2> QED BY <2>1, <2>2, <2>3, <1>5
<1>11. CASE items \in Flattens
  <2> DEFINE all == [i \in DOMAIN book.legs |->
                      LET leg == book.legs[i] IN OnLeg("exit", leg, leg.symbol, leg.lots)]
             S == {all[i] : i \in DOMAIN book.legs}
  <2>1. PICK priced \in SUBSET Contracts :
          items = Pick(all, {i \in DOMAIN all : all[i].symbol \in priced})
    BY <1>11 DEF Flattens
  <2> DEFINE I == {i \in DOMAIN all : all[i].symbol \in priced}
  <2>2. \A it \in S : IsItem(it)
    <3> SUFFICES ASSUME NEW i \in DOMAIN book.legs PROVE IsItem(all[i])
      OBVIOUS
    <3> DEFINE leg == book.legs[i]
    <3>1. leg \in LegSet /\ leg.symbol \in Contracts /\ leg.lots \in Nat /\ leg.lots > 0
      BY <1>2 DEF LegSet
    <3>2. all[i] = OnLeg("exit", leg, leg.symbol, leg.lots)
      OBVIOUS
    <3> HIDE DEF leg, all
    <3> QED BY <3>1, <3>2, <1>4
  <2>3. all \in Seq(S) /\ I \in SUBSET DOMAIN all
    <3>1. all \in [1..Len(book.legs) -> S]
      BY <1>2
    <3> QED BY <1>2, <3>1
  <2> HIDE DEF S, all, I
  <2>4. items \in Seq(S)
    BY <2>1, <2>3, PickIs DEF I
  <2>5. Len(items) \in Nat /\ \A k \in 1..Len(items) : items[k] \in S
    BY <2>4, LenProperties, ElementOfSeq
  <2> QED BY <2>2, <2>5
<1>12. ASSUME NEW by, items \in Scale(by)
       PROVE  Len(items) \in Nat /\ \A k \in 1..Len(items) : IsItem(items[k])
  <2>1. \A leg \in Legs : by[leg.lots] \in 1..MaxHeld
    BY <1>12 DEF Scale
  <2> DEFINE all == [i \in DOMAIN book.legs |->
                      LET leg == book.legs[i] IN OnLeg("resize", leg, leg.symbol, by[leg.lots])]
             S == {all[i] : i \in DOMAIN book.legs}
  <2>2. items = all
    BY <1>12, <2>1 DEF Scale
  <2>3. \A it \in S : IsItem(it)
    <3> SUFFICES ASSUME NEW i \in DOMAIN book.legs PROVE IsItem(all[i])
      OBVIOUS
    <3> DEFINE leg == book.legs[i]
    <3>1. leg \in LegSet /\ leg.symbol \in Contracts /\ leg \in Legs
      BY <1>2 DEF LegSet, Legs
    <3>2. by[leg.lots] \in Nat
      BY <1>1, <2>1, <3>1
    <3>3. all[i] = OnLeg("resize", leg, leg.symbol, by[leg.lots])
      OBVIOUS
    <3> HIDE DEF leg, all
    <3> QED BY <3>1, <3>2, <3>3, <1>4
  <2>4. all \in Seq(S)
    <3>1. all \in [1..Len(book.legs) -> S]
      BY <1>2
    <3> QED BY <1>2, <3>1
  <2> HIDE DEF S, all
  <2>5. Len(items) \in Nat /\ \A k \in 1..Len(items) : items[k] \in S
    BY <2>2, <2>4, LenProperties, ElementOfSeq
  <2> QED BY <2>3, <2>5
<1> QED BY <1>9, <1>10, <1>11, <1>12 DEF Actions

-----------------------------------------------------------------------------
(* Type correctness.                                                       *)

LEMMA MaxIs ==
  ASSUME NEW g \in Nat, NEW S \in SUBSET (0..g), S # {}
  PROVE  Max(S) \in S /\ \A x \in S : x <= Max(S)
<1> DEFINE T == {n \in Nat : \E x \in S : n = g - x}
<1>1. T \in SUBSET Nat /\ T # {}
  <2>1. PICK x \in S : TRUE
    OBVIOUS
  <2>2. g - x \in Nat
    BY <2>1
  <2>3. g - x \in T
    BY <2>1, <2>2
  <2> QED BY <2>3
<1>2. PICK n \in T : \A m \in T : n <= m
  BY <1>1, MinimalNat
<1>3. PICK x \in S : n = g - x
  BY <1>2
<1>4. ASSUME NEW y \in S PROVE y <= x
  <2>1. g - y \in Nat
    OBVIOUS
  <2>2. g - y \in T
    BY <2>1
  <2>3. n <= g - y
    BY <1>2, <2>2
  <2>4. y \in 0..g /\ x \in 0..g
    OBVIOUS
  <2> HIDE DEF T
  <2> QED BY <1>3, <2>3, <2>4
<1>5. \E a \in S : \A y \in S : a >= y
  BY <1>4
<1>6. Max(S) \in S /\ \A y \in S : Max(S) >= y
  BY <1>5 DEF Max
<1> QED BY <1>6

\* Every row is still there after the settlement.
Keeps(j, h) == \A i \in DOMAIN j : \E k \in DOMAIN h : h[k] = j[i]

LEMMA SettledKeeps ==
  ASSUME NEW g \in Nat, NEW j, IsJournal(j, g), NEW m
  PROVE  Keeps(j, SettleExpired(j, m))
<1> DEFINE rows == Opens(j)
           s == Settlements(j, rows)
           N == Len(rows)
           G == {n \in 0..N : Keeps(j, s[n])}
<1>1. N \in Nat /\ (\A n \in 1..N : rows[n].symbol \in Contracts)
        /\ \A n \in 0..N : IsJournal(s[n], g)
  BY SettledJournal
<1> HIDE DEF rows
<1>2. s[0] = j /\ \A n \in 1..N : s[n] = Settle(s[n - 1], rows[n].symbol)
  BY <1>1, SettledIs
<1> HIDE DEF s, N
<1>3. 0 \in G
  BY <1>1, <1>2 DEF Keeps
<1>4. ASSUME NEW n \in 0..(N - 1), n \in G PROVE n + 1 \in G
  <2>1. n + 1 \in 1..N /\ (n + 1) - 1 = n /\ n + 1 \in 0..N /\ n \in 0..N
    BY <1>1
  <2> DEFINE c == rows[n + 1].symbol
             row == Row(ExpiryAt, c, "SETTLE", 0, Net(s[n], c), <<>>)
  <2>2. s[n + 1] = Settle(s[n], c)
    BY <1>2, <2>1
  <2>3. s[n + 1] = s[n] \/ s[n + 1] = Insert(s[n], row)
    BY <2>2 DEF Settle
  <2>4. row.at \in Int
    BY MinutesAreInt DEF Row
  <2> HIDE DEF row, c
  <2>5. Keeps(s[n], Insert(s[n], row))
    <3> DEFINE h == s[n]
    <3>1. IsJournal(h, g)
      BY <1>1, <2>1
    <3> HIDE DEF h
    <3>2. \A i \in DOMAIN h : \E k \in DOMAIN Insert(h, row) : Insert(h, row)[k] = h[i]
      BY <3>1, <2>4, InsertKeeps
    <3> QED BY <3>2 DEF Keeps, h
  <2>6. Keeps(s[n], s[n + 1])
    BY <2>3, <2>5 DEF Keeps
  <2>7. Keeps(j, s[n + 1])
    BY <1>4, <2>6 DEF Keeps
  <2> QED BY <2>1, <2>7
<1> HIDE DEF G
<1>5. 0..N \subseteq G
  BY <1>1, <1>3, <1>4, Induction
<1>6. Keeps(j, s[N])
  <2>1. N \in 0..N
    BY <1>1
  <2> QED BY <1>5, <2>1 DEF G
<1>7. Keeps(j, j)
  BY DEF Keeps
<1> QED BY <1>6, <1>7 DEF SettleExpired, s, N, rows

FileInv ==
  /\ file.clock \in Minutes /\ \E g \in Nat : IsJournal(file.journal, g)
  /\ key \in [rows : Nat, clock : Minutes]
  /\ unseen \subseteq {"edit", "error"}

\* Inductive: a leg has a row it was opened by, which an edit takes the place of.
TypeInv ==
  /\ group \in Nat /\ clock \in Minutes
  /\ IsJournal(journal, group)
  /\ IsBook(book) /\ LegsHaveRows(book, journal)
  /\ FileInv

LEMMA EmptyJournal == \A g : IsJournal(<<>>, g)
<1> SUFFICES ASSUME NEW g PROVE IsJournal(<<>>, g)
  OBVIOUS
<1>1. AreRows({}, g)
  BY DEF AreRows
<1>2. <<>> \in Seq({}) /\ DOMAIN <<>> = {}
  OBVIOUS
<1>3. Sorted(<<>>)
  BY <1>2 DEF Sorted
<1> QED BY <1>1, <1>2, <1>3 DEF IsJournal

LEMMA TypeInit == Init => TypeInv
<1> SUFFICES ASSUME Init PROVE TypeInv
  OBVIOUS
<1>1. Min(Minutes) \in Minutes
  <2>1. Minutes \subseteq Nat /\ Minutes # {}
    BY JournalAssumption
  <2>2. \E x \in Minutes : \A y \in Minutes : x <= y
    BY <2>1, MinimalNat
  <2> QED BY <2>2 DEF Min
<1>2. IsBook(book) /\ LegsHaveRows(book, journal)
  <2>1. book = EmptyBook
    BY DEF Init
  <2>2. DOMAIN EmptyBook.legs = {}
    BY DEF EmptyBook
  <2> QED BY <2>1, <2>2, EmptyIs DEF LegsHaveRows
<1>3. group \in Nat /\ clock \in Minutes /\ IsJournal(journal, group)
  BY <1>1, EmptyJournal DEF Init
<1>4. FileInv
  <2>1. file.clock \in Minutes /\ file.journal = <<>>
    BY <1>1 DEF Init
  <2>2. key \in [rows : Nat, clock : Minutes] /\ unseen = {}
    BY <1>1 DEF Init
  <2> QED BY <2>1, <2>2, EmptyJournal DEF FileInv
<1> QED BY <1>2, <1>3, <1>4 DEF TypeInv

LEMMA NotifyType ==
  ASSUME TypeInv, group' \in Nat, clock' \in Minutes, IsJournal(journal', group'),
         NEW bumped, Notify(bumped)
  PROVE  FileInv'
<1> DEFINE now == [journal |-> journal', clock |-> clock']
<1>1. /\ key' = [rows |-> Len(journal'), clock |-> clock']
      /\ file' \in {file, now}
      /\ unseen' \in {{}, unseen \cup {c \in {"edit"} : group' > group /\ journal' # journal}}
  BY DEF Notify, Written
<1>2. Len(journal') \in Nat
  BY JournalIs
<1>3. now.clock \in Minutes /\ \E g \in Nat : IsJournal(now.journal, g)
  OBVIOUS
<1> HIDE DEF now
<1>4. file'.clock \in Minutes /\ \E g \in Nat : IsJournal(file'.journal, g)
  BY <1>1, <1>3 DEF TypeInv, FileInv
<1>5. key' \in [rows : Nat, clock : Minutes]
  BY <1>1, <1>2
<1>6. unseen' \subseteq {"edit", "error"}
  BY <1>1 DEF TypeInv, FileInv
<1> QED BY <1>4, <1>5, <1>6 DEF FileInv

\* Whatever is made of a journal is replayed up to the cursor and written.
LEMMA ReplayedType ==
  ASSUME TypeInv, group' \in Nat, clock' \in Minutes, IsJournal(journal', group'),
         book' = Replay(Kept(journal', clock')), FileInv'
  PROVE  TypeInv'
<1>1. clock' \in Int
  BY MinutesAreInt
<1>2. IsBook(book') /\ LegsHaveRows(book', journal')
  BY <1>1, ReplayKept
<1> QED BY <1>2 DEF TypeInv

LEMMA SeekType ==
  ASSUME TypeInv, NEW m \in Minutes, Seek(m)
  PROVE  TypeInv'
<1>1. /\ clock' = m /\ group' = group /\ journal' = SettleExpired(journal, m)
      /\ book' = ReplayBook(journal', m) /\ Notify(FALSE)
  BY DEF Seek
<1>2. group \in Nat /\ IsJournal(journal, group) /\ IsBook(book) /\ LegsHaveRows(book, journal)
  BY DEF TypeInv
<1>3. IsJournal(journal', group') /\ Keeps(journal, journal')
  BY <1>1, <1>2, SettledJournal, SettledKeeps
<1>4. FileInv'
  BY <1>1, <1>2, <1>3, NotifyType
<1>5. CASE book' = book
  <2>1. IsBook(book') /\ LegsHaveRows(book', journal')
    BY <1>2, <1>3, <1>5 DEF LegsHaveRows, Keeps
  <2> QED BY <1>1, <1>2, <1>3, <1>4, <2>1 DEF TypeInv
<1>6. CASE book' = Replay(Kept(journal', clock'))
  BY <1>1, <1>2, <1>3, <1>4, <1>6, ReplayedType
<1>7. book' = book \/ book' = Replay(Kept(journal', clock'))
  BY <1>1 DEF ReplayBook
<1> QED BY <1>5, <1>6, <1>7

LEMMA ActType ==
  ASSUME TypeInv, NEW items \in Actions, Act(items)
  PROVE  TypeInv'
<1> DEFINE start == [journal |-> journal, book |-> book, group |-> group + 1, ok |-> TRUE]
           end == Applied(start, items)[Len(items)]
<1>1. /\ group' = group + 1 /\ clock' = clock /\ journal' = end.journal
      /\ IF end.ok THEN book' = Replay(Kept(journal', clock)) /\ Notify(FALSE)
         ELSE book' = end.book /\ unseen' = unseen \cup {"error"} /\ UNCHANGED <<file, key>>
  BY DEF Act
<1>2. /\ group \in Nat /\ clock \in Minutes /\ IsJournal(journal, group) /\ IsBook(book)
      /\ LegsHaveRows(book, journal) /\ FileInv
  BY DEF TypeInv
<1>3. IsState(start, group + 1)
  <2>1. group + 1 \in Nat /\ group <= group + 1
    BY <1>2
  <2>2. IsJournal(journal, group + 1)
    BY <1>2, <2>1, LaterGroup
  <2>3. start.journal = journal /\ start.book = book /\ start.ok = TRUE
    OBVIOUS
  <2> QED BY <1>2, <2>2, <2>3 DEF IsState
<1> HIDE DEF start
<1>4. Len(items) \in Nat /\ \A k \in 1..Len(items) : IsItem(items[k])
  BY <1>2, ActionsAreItems
<1>5. IsState(end, group + 1)
  <2>1. Len(items) \in 0..Len(items) /\ group + 1 \in Nat
    BY <1>2, <1>4
  <2> QED BY <2>1, <1>2, <1>3, <1>4, AppliedState
<1> HIDE DEF end
<1>6. IsJournal(journal', group') /\ group' \in Nat /\ clock' \in Minutes
  BY <1>1, <1>2, <1>5 DEF IsState
<1>7. CASE end.ok
  <2>1. book' = Replay(Kept(journal', clock')) /\ Notify(FALSE)
    BY <1>1, <1>7
  <2> QED BY <1>6, <2>1, NotifyType, ReplayedType
<1>8. CASE ~end.ok
  <2>1. IsBook(book') /\ LegsHaveRows(book', journal')
    BY <1>1, <1>5, <1>8 DEF IsState
  <2>2. FileInv'
    BY <1>1, <1>2, <1>8 DEF FileInv
  <2> QED BY <1>6, <2>1, <2>2 DEF TypeInv
<1> QED BY <1>7, <1>8

LEMMA DiscardType ==
  ASSUME TypeInv, NEW j, IsJournal(j, group), NEW bumped, Discard(j, bumped)
  PROVE  TypeInv'
<1>1. /\ journal' = j /\ book' = Replay(Kept(j, clock)) /\ clock' = clock /\ group' = group
      /\ Notify(bumped)
  BY DEF Discard
<1>2. group \in Nat /\ clock \in Minutes
  BY DEF TypeInv
<1>3. group' \in Nat /\ clock' \in Minutes /\ IsJournal(journal', group')
  BY <1>1, <1>2
<1>4. FileInv'
  BY <1>1, <1>3, NotifyType
<1> QED BY <1>1, <1>3, <1>4, ReplayedType

LEMMA UndoType ==
  ASSUME TypeInv, UndoLast
  PROVE  TypeInv'
<1>1. /\ journal' = Undone(journal) /\ book' = Replay(Kept(journal', clock))
      /\ clock' = clock /\ group' = group /\ Notify(TRUE)
  BY DEF UndoLast
<1>2. group \in Nat /\ clock \in Minutes /\ IsJournal(journal, group)
  BY DEF TypeInv
<1>3. IsJournal(Undone(journal), group)
  BY <1>2, BackJournal DEF Undone
<1>4. group' \in Nat /\ clock' \in Minutes /\ IsJournal(journal', group')
  BY <1>1, <1>2, <1>3
<1>5. FileInv'
  BY <1>1, <1>4, NotifyType
<1> QED BY <1>1, <1>4, <1>5, ReplayedType

LEMMA RehydrateType ==
  ASSUME TypeInv, Rehydrate
  PROVE  TypeInv'
<1> DEFINE j == Restored(file.journal)
           S == {0} \cup {r.group : r \in Range(j)}
<1>1. /\ clock' = file.clock /\ journal' = SettleExpired(j, clock') /\ group' = Max(S)
      /\ book' = Replay(Kept(journal', clock')) /\ key' = [rows |-> Len(journal'), clock |-> clock']
      /\ unseen' = {} /\ file' = file
  BY DEF Rehydrate
<1>2. PICK g \in Nat : IsJournal(file.journal, g)
  BY DEF TypeInv, FileInv
<1>3. IsJournal(j, g)
      /\ \A h \in Nat : (\A i \in DOMAIN j : j[i].group <= h) => IsJournal(j, h)
  BY <1>2, RestoredJournal
<1> HIDE DEF j
<1>4. \A i \in DOMAIN j : j[i].group \in 0..g
  BY <1>3, JournalIs
<1>5. S \in SUBSET (0..g) /\ S # {} /\ \A i \in DOMAIN j : j[i].group \in S
  BY <1>4 DEF Range
<1> HIDE DEF S
<1>6. Max(S) \in Nat /\ \A i \in DOMAIN j : j[i].group <= Max(S)
  <2>1. Max(S) \in S /\ \A x \in S : x <= Max(S)
    BY <1>5, MaxIs
  <2> DEFINE top == Max(S)
  <2>2. top \in S /\ \A x \in S : x <= top
    BY <2>1
  <2> HIDE DEF top
  <2>3. top \in 0..g
    BY <1>5, <2>2
  <2>4. \A i \in DOMAIN j : j[i].group <= top
    BY <1>5, <2>2
  <2> QED BY <2>3, <2>4 DEF top
<1>7. IsJournal(j, Max(S))
  BY <1>3, <1>6
<1>8. group' \in Nat /\ clock' \in Minutes /\ IsJournal(journal', group')
  BY <1>1, <1>6, <1>7, SettledJournal DEF TypeInv, FileInv
<1>9. FileInv'
  <2>1. Len(journal') \in Nat
    BY <1>8, JournalIs
  <2> QED BY <1>1, <1>8, <2>1 DEF TypeInv, FileInv
<1> QED BY <1>1, <1>8, <1>9, ReplayedType

LEMMA TypeNext == TypeInv /\ [Next]_vars => TypeInv'
<1> SUFFICES ASSUME TypeInv, [Next]_vars PROVE TypeInv'
  OBVIOUS
<1>1. ASSUME NEW m \in Minutes, Seek(m) PROVE TypeInv'
  BY <1>1, SeekType
<1>2. ASSUME NEW items \in Actions, Act(items) PROVE TypeInv'
  BY <1>2, ActType
<1>3. CASE UndoLast
  BY <1>3, UndoType
<1>4. IsJournal(journal, group) /\ clock \in Int
  BY MinutesAreInt DEF TypeInv
<1>5. CASE TruncateAfterCursor
  <2>1. IsJournal(Kept(journal, clock), group)
    BY <1>4, KeptJournal
  <2> QED BY <1>5, <2>1, DiscardType DEF TruncateAfterCursor
<1>6. CASE ResetBook
  BY <1>6, EmptyJournal, DiscardType DEF ResetBook
<1>7. CASE Rehydrate
  BY <1>7, RehydrateType
<1>8. ASSUME NEW c \in Contracts, DeleteLeg(c) PROVE TypeInv'
  <2>1. IsJournal(Without(journal, c), group)
    <3>1. {i \in DOMAIN journal : journal[i].symbol # c} \in SUBSET DOMAIN journal
      OBVIOUS
    <3> QED BY <1>4, <3>1, PickJournal DEF Without
  <2> QED BY <1>8, <2>1, DiscardType DEF DeleteLeg
<1>9. CASE UNCHANGED vars
  BY <1>9 DEF vars, TypeInv, FileInv
<1> QED BY <1>1, <1>2, <1>3, <1>5, <1>6, <1>7, <1>8, <1>9 DEF Next

\* The journal keeps the order of its minutes and its rows are trades, edits
\* and settlements; the book, whatever was undone, replayed or applied to it,
\* has no empty leg and no two of one id.
LEMMA TypeHolds == TypeInv => TypeOK
<1> SUFFICES ASSUME TypeInv PROVE TypeOK
  OBVIOUS
<1>1. /\ group \in Nat /\ clock \in Minutes /\ IsJournal(journal, group) /\ IsBook(book) /\ FileInv
  BY DEF TypeInv
<1>2. \A r \in Range(journal) : OfRow(r)
  BY <1>1, JournalIs DEF OfRow, Range, RowActions
<1>3. \A i, k \in DOMAIN journal : i < k => journal[i].at <= journal[k].at
  BY <1>1, JournalIs DEF Sorted
<1>4. book.seq \in Nat /\ book.fills \in Nat
  BY <1>1 DEF IsBook
<1>5. ASSUME NEW i \in DOMAIN book.legs
      PROVE  book.legs[i]
               \in [id : 1..book.seq, symbol : Contracts, side : {"B", "S"}, lots : Nat \ {0}]
  <2>1. book.legs[i] \in LegSet /\ book.legs[i].id <= book.seq
    BY <1>1, LegIs DEF IsBook
  <2>2. book.legs[i].id \in 1..book.seq
    BY <2>1, <1>4 DEF LegSet
  <2> QED BY <2>1, <2>2 DEF LegSet
<1>6. \A i, k \in DOMAIN book.legs : book.legs[i].id = book.legs[k].id => i = k
  BY <1>1 DEF IsBook
<1> QED BY <1>1, <1>2, <1>3, <1>4, <1>5, <1>6 DEF TypeOK, FileInv

\* The journal keeps the order of its minutes, and no leg of the book is empty
\* or known by the id of another, whatever was edited, undone and replayed.
THEOREM TypeCorrect == Spec => []TypeOK
<1>1. Init => TypeInv
  BY TypeInit
<1>2. TypeInv /\ [Next]_vars => TypeInv'
  BY TypeNext
<1>3. TypeInv => TypeOK
  BY TypeHolds
<1> QED BY <1>1, <1>2, <1>3, PTL DEF Spec

-----------------------------------------------------------------------------
(* What a restart rebuilds.                                                *)

LEMMA PickAll ==
  ASSUME NEW S, NEW j \in Seq(S)
  PROVE  Pick(j, DOMAIN j) = j
<1>1. Len(j) \in Nat /\ DOMAIN j = 1..Len(j) /\ j \in [1..Len(j) -> S]
  BY LenProperties
<1>2. Cardinality(1..Len(j)) = Len(j)
  BY SMTT(30), <1>1, FS_Interval
<1>3. \A k \in 1..Len(j) : Nth(1..Len(j), k) = k
  <2> DEFINE n == Len(j)
             I == 1..n
  <2>1. n \in Nat /\ I \in SUBSET (1..n) /\ 1..n \subseteq I
    BY <1>1
  <2>2. \A k \in 1..n : k \in I /\ Rank(I, k) = k
    BY <2>1, RankStart
  <2>3. \A i \in I : Nth(I, Rank(I, i)) = i
    BY <2>1, NthIs
  <2> QED BY <2>2, <2>3
<1>4. Pick(j, 1..Len(j)) = [k \in 1..Len(j) |-> j[k]]
  BY <1>2, <1>3 DEF Pick
<1> QED BY <1>1, <1>4

Traded(j) == {i \in DOMAIN j : j[i].action \notin {"SETTLE", "NOOP"}}

\* A settlement changes nothing in what a restart rebuilds.
LEMMA RestoredInsert ==
  ASSUME NEW g, NEW j, IsJournal(j, g), NEW row, row.at \in Int, row.action = "SETTLE"
  PROVE  Restored(Insert(j, row)) = Restored(j)
<1> DEFINE h == Insert(j, row)
           p == Upto(j, row.at)
           f == [i \in Traded(j) |-> IF i <= p THEN i ELSE i + 1]
<1>1. PICK W : AreRows(W, g) /\ j \in Seq(W) /\ Sorted(j)
  BY DEF IsJournal
<1>2. j \in Seq(W \cup {row}) /\ \A i \in DOMAIN j : j[i].at \in Int
  BY <1>1, SeqMonotonic, RowIs
<1>3. /\ h \in Seq(W \cup {row})
      /\ p \in 0..Len(j) /\ DOMAIN h = 1..(Len(j) + 1) /\ Len(h) = Len(j) + 1
      /\ \A i \in DOMAIN h : h[i] = IF i <= p THEN j[i] ELSE IF i = p + 1 THEN row ELSE j[i - 1]
  BY <1>1, <1>2, InsertIs
<1>4. Len(j) \in Nat /\ DOMAIN j = 1..Len(j)
  BY <1>1, LenProperties
<1> HIDE DEF h, p
<1>5. Traded(j) \in SUBSET DOMAIN j /\ Traded(h) \in SUBSET DOMAIN h
  BY DEF Traded
<1>6. ASSUME NEW i \in Traded(j)
      PROVE  f[i] \in Traded(h) /\ h[f[i]] = j[i] /\ f[i] \in Nat
  <2>1. i \in 1..Len(j) /\ j[i].action \notin {"SETTLE", "NOOP"} /\ p \in Nat /\ p <= Len(j)
    BY <1>3, <1>4 DEF Traded
  <2>2. CASE i <= p
    <3>1. f[i] = i /\ i \in DOMAIN h
      BY <2>1, <2>2, <1>3, <1>4
    <3> QED BY <2>1, <2>2, <3>1, <1>3 DEF Traded
  <2>3. CASE ~(i <= p)
    <3>1. /\ f[i] = i + 1 /\ i + 1 \in DOMAIN h /\ ~(i + 1 <= p) /\ i + 1 # p + 1
          /\ (i + 1) - 1 = i
      BY <2>1, <2>3, <1>3, <1>4
    <3>2. h[i + 1] = j[(i + 1) - 1]
      BY <3>1, <1>3
    <3> QED BY <2>1, <3>1, <3>2 DEF Traded
  <2> QED BY <2>2, <2>3
<1>7. \A i, k \in Traded(j) : i < k => f[i] < f[k]
  <2> SUFFICES ASSUME NEW i \in Traded(j), NEW k \in Traded(j), i < k PROVE f[i] < f[k]
    OBVIOUS
  <2>1. i \in Nat /\ k \in Nat /\ p \in Nat
    BY <1>3, <1>4, <1>5
  <2> QED BY <2>1
<1>8. ASSUME NEW k \in Traded(h) PROVE \E i \in Traded(j) : f[i] = k
  <2>1. k \in 1..(Len(j) + 1) /\ h[k].action \notin {"SETTLE", "NOOP"} /\ p \in Nat /\ p <= Len(j)
    BY <1>3, <1>4 DEF Traded
  <2>2. k # p + 1
    <3> SUFFICES ASSUME k = p + 1 PROVE FALSE
      OBVIOUS
    <3>1. ~(k <= p) /\ k \in DOMAIN h
      BY <2>1, <1>3
    <3>2. h[k] = row
      BY <3>1, <1>3
    <3> QED BY <2>1, <3>2
  <2>3. CASE k <= p
    <3>1. k \in DOMAIN j /\ h[k] = j[k]
      BY SMTT(30), <2>1, <2>3, <1>3, <1>4
    <3>2. k \in Traded(j)
      BY <2>1, <3>1 DEF Traded
    <3> QED BY <2>3, <3>2
  <2>4. CASE ~(k <= p)
    <3>3. k - 1 \in 1..Len(j) /\ ~(k - 1 <= p) /\ (k - 1) + 1 = k
      BY <2>1, <2>2, <2>4, <1>4
    <3>1. k - 1 \in DOMAIN j /\ h[k] = j[k - 1] /\ ~(k - 1 <= p) /\ (k - 1) + 1 = k
      BY <2>1, <2>2, <2>4, <3>3, <1>3, <1>4
    <3>2. k - 1 \in Traded(j)
      BY <2>1, <3>1 DEF Traded
    <3> QED BY <3>1, <3>2
  <2> QED BY <2>3, <2>4
<1>9. f \in [Traded(j) -> Traded(h)]
  BY <1>6
<1> HIDE DEF f
<1>10. Pick(h, Traded(h)) = Pick(j, Traded(j))
  <2> DEFINE S == W \cup {row}
             I == Traded(j)
             K == Traded(h)
  <2>1. \A i \in I : h[f[i]] = j[i]
    BY <1>6
  <2>2. j \in Seq(S) /\ h \in Seq(S)
    BY <1>2, <1>3
  <2>3. /\ I \in SUBSET DOMAIN j /\ K \in SUBSET DOMAIN h /\ f \in [I -> K]
        /\ \A i, k \in I : i < k => f[i] < f[k]
        /\ \A k \in K : \E i \in I : f[i] = k
    BY <1>5, <1>7, <1>8, <1>9
  <2> HIDE DEF S, I, K
  <2>4. Pick(h, K) = Pick(j, I)
    BY <2>1, <2>2, <2>3, PickMoved
  <2> QED BY <2>4 DEF I, K
<1>11. Restored(h) = Restored(j)
  BY <1>10 DEF Restored, Traded
<1> QED BY <1>11 DEF h

LEMMA RestoredSettled ==
  ASSUME NEW g \in Nat, NEW j, IsJournal(j, g), NEW m
  PROVE  Restored(SettleExpired(j, m)) = Restored(j)
<1> DEFINE rows == Opens(j)
           s == Settlements(j, rows)
           N == Len(rows)
           G == {n \in 0..N : Restored(s[n]) = Restored(j)}
<1>1. N \in Nat /\ (\A n \in 1..N : rows[n].symbol \in Contracts)
        /\ \A n \in 0..N : IsJournal(s[n], g)
  BY SettledJournal
<1> HIDE DEF rows
<1>2. s[0] = j /\ \A n \in 1..N : s[n] = Settle(s[n - 1], rows[n].symbol)
  BY <1>1, SettledIs
<1> HIDE DEF s, N
<1>3. 0 \in G
  BY <1>1, <1>2
<1>4. ASSUME NEW n \in 0..(N - 1), n \in G PROVE n + 1 \in G
  <2>1. n + 1 \in 1..N /\ (n + 1) - 1 = n /\ n + 1 \in 0..N /\ n \in 0..N
    BY <1>1
  <2> DEFINE c == rows[n + 1].symbol
             h == s[n]
             row == Row(ExpiryAt, c, "SETTLE", 0, Net(h, c), <<>>)
  <2>2. s[n + 1] = Settle(h, c)
    BY <1>2, <2>1
  <2>3. s[n + 1] = h \/ s[n + 1] = Insert(h, row)
    BY <2>2 DEF Settle
  <2>4. row.at \in Int /\ row.action = "SETTLE"
    BY MinutesAreInt DEF Row
  <2>5. IsJournal(h, g) /\ Restored(h) = Restored(j)
    BY <1>1, <1>4, <2>1
  <2> HIDE DEF row, c, h
  <2>6. Restored(Insert(h, row)) = Restored(h)
    BY <2>4, <2>5, RestoredInsert
  <2>7. Restored(s[n + 1]) = Restored(j)
    BY <2>3, <2>5, <2>6
  <2> QED BY <2>1, <2>7
<1> HIDE DEF G
<1>5. 0..N \subseteq G
  BY <1>1, <1>3, <1>4, Induction
<1>6. Restored(s[N]) = Restored(j)
  <2>1. N \in 0..N
    BY <1>1
  <2> QED BY <1>5, <2>1 DEF G
<1> QED BY <1>6 DEF SettleExpired, s, N, rows

\* What was rebuilt once is rebuilt as it is.
LEMMA RestoredTwice ==
  ASSUME NEW g \in Nat, NEW j, IsJournal(j, g)
  PROVE  Restored(Restored(j)) = Restored(j)
<1> DEFINE r == Restored(j)
           rows == Pick(j, Traded(j))
<1>1. PICK U : AreRows(U, g) /\ j \in Seq(U) /\ Sorted(j)
  BY DEF IsJournal
<1>2. Traded(j) \in SUBSET DOMAIN j
  BY DEF Traded
<1>3. /\ rows \in Seq(U) /\ DOMAIN rows = 1..Cardinality(Traded(j))
      /\ \A k \in DOMAIN rows : rows[k].action \notin {"SETTLE", "NOOP"}
  <2>1. /\ rows \in Seq(U) /\ DOMAIN rows = 1..Cardinality(Traded(j))
        /\ \A k \in 1..Cardinality(Traded(j)) :
             Nth(Traded(j), k) \in Traded(j) /\ rows[k] = j[Nth(Traded(j), k)]
    BY <1>1, <1>2, PickIs
  <2> QED BY <2>1 DEF Traded
<1>4. r = [i \in DOMAIN rows |-> [rows[i] EXCEPT !.replaces = <<>>]]
  BY DEF Restored, Traded
<1> HIDE DEF rows
<1>5. IsJournal(r, g)
  BY RestoredJournal
<1> HIDE DEF r
<1>6. PICK W : AreRows(W, g) /\ r \in Seq(W)
  BY <1>5 DEF IsJournal
<1>7. ASSUME NEW i \in DOMAIN rows
      PROVE  /\ r[i].action \notin {"SETTLE", "NOOP"}
             /\ [r[i] EXCEPT !.replaces = <<>>] = r[i]
  <2>1. rows[i] \in RowsOver(U, g) /\ rows[i].action \notin {"SETTLE", "NOOP"}
    BY <1>1, <1>3, RowIs
  <2>2. r[i] = [rows[i] EXCEPT !.replaces = <<>>]
    BY <1>4
  <2>3. r[i].action = rows[i].action /\ r[i].replaces = <<>>
    BY <2>1, <2>2 DEF RowsOver
  <2>4. r[i] \in RowsOver(W, g)
    <3>1. i \in DOMAIN r
      BY <1>4
    <3> QED BY <1>6, <3>1, RowIs
  <2>5. [r[i] EXCEPT !.replaces = <<>>] = r[i]
    <3> DEFINE e == r[i]
    <3>1. e \in RowsOver(W, g) /\ e.replaces = <<>>
      BY <2>3, <2>4
    <3> HIDE DEF e
    <3>2. [e EXCEPT !.replaces = <<>>] = e
      BY <3>1 DEF RowsOver
    <3> QED BY <3>2 DEF e
  <2> QED BY <2>1, <2>3, <2>5
<1>8. DOMAIN r = DOMAIN rows /\ Traded(r) = DOMAIN r
  BY <1>4, <1>7 DEF Traded
<1>9. Pick(r, DOMAIN r) = r
  BY <1>6, PickAll
<1>10. Restored(r) = [i \in DOMAIN r |-> [r[i] EXCEPT !.replaces = <<>>]]
  BY <1>8, <1>9 DEF Restored, Traded
<1>11. r = [i \in DOMAIN r |-> r[i]]
  BY <1>4, <1>8
<1>12. Restored(r) = r
  BY <1>7, <1>8, <1>10, <1>11
<1> QED BY <1>12 DEF r

LEMMA WithoutShorter ==
  ASSUME NEW g, NEW j, IsJournal(j, g), NEW c, Without(j, c) # j
  PROVE  Len(Without(j, c)) # Len(j)
<1> DEFINE K == {i \in DOMAIN j : j[i].symbol # c}
<1>1. PICK U : AreRows(U, g) /\ j \in Seq(U)
  BY DEF IsJournal
<1>2. Len(j) \in Nat /\ DOMAIN j = 1..Len(j)
  BY <1>1, LenProperties
<1>3. K \in SUBSET DOMAIN j /\ Without(j, c) = Pick(j, K)
  BY DEF Without
<1> HIDE DEF K
<1>4. K # DOMAIN j
  BY <1>1, <1>3, PickAll
<1>5. IsFiniteSet(1..Len(j)) /\ Cardinality(1..Len(j)) = Len(j)
  <2> DEFINE n == Len(j)
  <2>1. n \in Nat
    BY <1>2
  <2> HIDE DEF n
  <2>2. IsFiniteSet(1..n) /\ Cardinality(1..n) = n
    BY <2>1, FS_Interval
  <2> QED BY <2>2 DEF n
<1>6. Cardinality(K) # Len(j)
  BY <1>2, <1>3, <1>4, <1>5, FS_Subset
<1>7. Len(Pick(j, K)) = Cardinality(K)
  BY <1>1, <1>3, PickIs
<1> QED BY <1>3, <1>6, <1>7

\* Inductive: what the registry's key counts is the journal it has seen.
KeyInv ==
  unseen = {} => key.rows = Len(journal) /\ Restored(file.journal) = Restored(journal)

LEMMA KeyNotify ==
  ASSUME TypeInv, KeyInv, NEW bumped \in BOOLEAN, Notify(bumped),
         \/ bumped
         \/ journal' # journal /\ group' > group
         \/ unseen = {} => Len(journal') # key.rows
         \/ Restored(journal') = Restored(journal)
  PROVE  KeyInv'
<1> DEFINE now == [journal |-> journal', clock |-> clock']
           booked == bumped \/ Len(journal') # key.rows
           edited == {c \in {"edit"} : group' > group /\ journal' # journal}
<1>1. /\ key' = [rows |-> Len(journal'), clock |-> clock']
      /\ file' = now \/ (~booked /\ file' = file)
      /\ unseen' = IF file' = now THEN {} ELSE unseen \cup edited
  BY DEF Notify, Written
<1>2. key'.rows = Len(journal')
  BY <1>1
<1>3. CASE file' = now
  <2>1. file'.journal = journal'
    BY <1>3
  <2> QED BY <1>2, <2>1 DEF KeyInv
<1>4. CASE file' # now
  <2>1. ~booked /\ file' = file /\ unseen' = unseen \cup edited
    BY <1>1, <1>4
  <2>2. SUFFICES ASSUME unseen' = {} PROVE KeyInv'
    BY DEF KeyInv
  <2>3. unseen = {} /\ edited = {}
    BY <2>1, <2>2
  <2>4. ~(group' > group /\ journal' # journal)
    BY <2>3
  <2>5. ~bumped /\ Len(journal') = key.rows
    BY <2>1
  <2>6. Restored(journal') = Restored(journal)
    BY <2>3, <2>4, <2>5
  <2> HIDE DEF booked, edited, now
  <2>7. Restored(file'.journal) = Restored(journal')
    BY <2>1, <2>3, <2>6 DEF KeyInv
  <2> QED BY <1>2, <2>7 DEF KeyInv
<1> QED BY <1>3, <1>4

LEMMA KeyInit == Init => KeyInv
<1> SUFFICES ASSUME Init PROVE KeyInv
  OBVIOUS
<1>1. journal = <<>> /\ file.journal = <<>> /\ key.rows = 0
  BY DEF Init
<1> QED BY <1>1 DEF KeyInv

LEMMA KeyNext == TypeInv /\ KeyInv /\ [Next]_vars => KeyInv'
<1> SUFFICES ASSUME TypeInv, KeyInv, [Next]_vars PROVE KeyInv'
  OBVIOUS
<1>1. group \in Nat /\ clock \in Minutes /\ clock \in Int /\ IsJournal(journal, group)
  BY MinutesAreInt DEF TypeInv
<1>2. unseen = {} => key.rows = Len(journal)
  BY DEF KeyInv
<1>3. ASSUME NEW m \in Minutes, Seek(m) PROVE KeyInv'
  <2>1. journal' = SettleExpired(journal, m) /\ Notify(FALSE)
    BY <1>3 DEF Seek
  <2>2. Restored(journal') = Restored(journal)
    BY <1>1, <2>1, RestoredSettled
  <2> QED BY <2>1, <2>2, KeyNotify
<1>4. ASSUME NEW items \in Actions, Act(items) PROVE KeyInv'
  <2>1. group' = group + 1 /\ (Notify(FALSE) \/ unseen' = unseen \cup {"error"})
    BY <1>4 DEF Act
  <2>2. CASE Notify(FALSE)
    <3>1. group' > group
      BY <1>1, <2>1
    <3>2. journal' = journal => Restored(journal') = Restored(journal)
      OBVIOUS
    <3> QED BY <2>2, <3>1, <3>2, KeyNotify
  <2>3. CASE unseen' = unseen \cup {"error"}
    BY <2>3 DEF KeyInv
  <2> QED BY <2>1, <2>2, <2>3
<1>5. CASE UndoLast
  BY <1>5, KeyNotify DEF UndoLast
<1>6. CASE TruncateAfterCursor
  BY <1>6, KeyNotify DEF TruncateAfterCursor, Discard
<1>7. CASE ResetBook
  <2>1. journal # <<>> /\ journal' = <<>> /\ Notify(FALSE)
    BY <1>7 DEF ResetBook, Discard
  <2>2. Len(journal) # 0 /\ Len(journal') = 0
    <3>1. PICK W : journal \in Seq(W)
      BY <1>1 DEF IsJournal
    <3>2. Len(journal) = 0 => journal = <<>>
      BY <3>1, EmptySeq
    <3> QED BY <2>1, <3>2
  <2> QED BY <1>2, <2>1, <2>2, KeyNotify
<1>8. CASE Rehydrate
  <2>1. /\ journal' = SettleExpired(Restored(file.journal), clock')
        /\ key'.rows = Len(journal') /\ file' = file
    BY <1>8 DEF Rehydrate
  <2>2. PICK g \in Nat : IsJournal(file.journal, g)
    BY DEF TypeInv, FileInv
  <2>3. IsJournal(Restored(file.journal), g)
    BY <2>2, RestoredJournal
  <2>4. Restored(journal') = Restored(Restored(file.journal))
    BY <2>1, <2>2, <2>3, RestoredSettled
  <2>5. Restored(Restored(file.journal)) = Restored(file.journal)
    BY <2>2, RestoredTwice
  <2> QED BY <2>1, <2>4, <2>5 DEF KeyInv
<1>9. ASSUME NEW c \in Contracts, DeleteLeg(c) PROVE KeyInv'
  <2>1. Without(journal, c) # journal /\ journal' = Without(journal, c) /\ Notify(FALSE)
    BY <1>9 DEF DeleteLeg, Discard
  <2>2. Len(journal') # Len(journal)
    BY <1>1, <2>1, WithoutShorter
  <2> QED BY <1>2, <2>1, <2>2, KeyNotify
<1>10. CASE UNCHANGED vars
  BY <1>10 DEF vars, KeyInv
<1> QED BY <1>3, <1>4, <1>5, <1>6, <1>7, <1>8, <1>9, <1>10 DEF Next

\* What a restart would rebuild is what was traded, but for an edit that keeps
\* the number of rows and an action that failed half-way.
THEOREM RestartKeepsTheTrades == Spec => []FileKeepsTheTrades
<1>1. Init => TypeInv /\ KeyInv
  BY TypeInit, KeyInit
<1>2. (TypeInv /\ KeyInv) /\ [Next]_vars => (TypeInv /\ KeyInv)'
  BY TypeNext, KeyNext
<1>3. KeyInv => FileKeepsTheTrades
  BY DEF KeyInv, FileKeepsTheTrades
<1> QED BY <1>1, <1>2, <1>3, PTL DEF Spec

-----------------------------------------------------------------------------
(* The book at the cursor.                                                 *)

\* Books depend on the rows before them only.
LEMMA BooksAgree ==
  ASSUME NEW j, NEW h, Len(j) \in Nat, Len(h) \in Nat,
         NEW n \in Nat, n <= Len(j), n <= Len(h), \A i \in 1..n : j[i] = h[i]
  PROVE  \A k \in 0..n : Books(j)[k] = Books(h)[k]
<1> DEFINE G == {k \in 0..n : Books(j)[k] = Books(h)[k]}
<1>1. /\ Books(j)[0] = EmptyBook /\ \A k \in 1..Len(j) : Books(j)[k] = Reapply(Books(j)[k - 1], j[k])
      /\ Books(h)[0] = EmptyBook /\ \A k \in 1..Len(h) : Books(h)[k] = Reapply(Books(h)[k - 1], h[k])
  BY BooksAre
<1>2. 0 \in G
  BY <1>1
<1>3. ASSUME NEW k \in 0..(n - 1), k \in G PROVE k + 1 \in G
  <2>1. k + 1 \in 1..n /\ k + 1 \in 1..Len(j) /\ k + 1 \in 1..Len(h) /\ (k + 1) - 1 = k
    OBVIOUS
  <2>2. Books(j)[k + 1] = Reapply(Books(j)[k], j[k + 1])
    BY <1>1, <2>1
  <2>3. Books(h)[k + 1] = Reapply(Books(h)[k], h[k + 1])
    BY <1>1, <2>1
  <2>4. Books(j)[k] = Books(h)[k] /\ j[k + 1] = h[k + 1]
    BY <1>3, <2>1
  <2> QED BY <2>1, <2>2, <2>3, <2>4
<1> HIDE DEF G
<1>4. 0..n \subseteq G
  BY <1>2, <1>3, Induction
<1> QED BY <1>4 DEF G

LEMMA KeptReplay ==
  ASSUME NEW g, NEW j, IsJournal(j, g), NEW m \in Int
  PROVE  Replay(Kept(j, m)) = Books(j)[Upto(j, m)]
<1> DEFINE h == Kept(j, m)
           p == Upto(j, m)
<1>1. p \in 0..Len(j) /\ Len(h) = p /\ \A i \in 1..p : h[i] = j[i]
  BY KeptJournal
<1>2. Len(j) \in Nat
  BY JournalIs
<1> HIDE DEF h, p
<1>3. p \in Nat /\ p <= Len(j) /\ p <= Len(h) /\ Len(h) \in Nat /\ p \in 0..p
  BY <1>1, <1>2
<1>4. Books(h)[p] = Books(j)[p]
  BY <1>1, <1>2, <1>3, BooksAgree
<1> QED BY <1>1, <1>4 DEF Replay, h, p

\* A row of the cursor's minute is the last one the book comes from.
LEMMA InsertReplay ==
  ASSUME NEW g, NEW j, IsJournal(j, g), NEW row, NEW m \in Int, row.at = m
  PROVE  /\ Upto(Insert(j, row), m) = Upto(j, m) + 1
         /\ Books(Insert(j, row))[Upto(j, m) + 1] = Reapply(Books(j)[Upto(j, m)], row)
         /\ \A k \in 0..Upto(j, m) : Books(Insert(j, row))[k] = Books(j)[k]
<1> DEFINE h == Insert(j, row)
           p == Upto(j, m)
           q == Upto(h, m)
<1>1. PICK W : AreRows(W, g) /\ j \in Seq(W) /\ Sorted(j)
  BY DEF IsJournal
<1>2. /\ j \in Seq(W \cup {row}) /\ Len(j) \in Nat /\ DOMAIN j = 1..Len(j)
      /\ \A i \in DOMAIN j : j[i].at \in Int
  BY <1>1, SeqMonotonic, RowIs, LenProperties
<1>3. /\ p \in 0..Len(j) /\ \A i \in DOMAIN j : j[i].at <= m <=> i <= p
  BY <1>1, <1>2, UptoIs
<1>4. /\ h \in Seq(W \cup {row}) /\ Len(h) = Len(j) + 1 /\ DOMAIN h = 1..(Len(j) + 1)
      /\ \A i \in DOMAIN h : h[i] = IF i <= p THEN j[i] ELSE IF i = p + 1 THEN row ELSE j[i - 1]
      /\ Sorted(h)
  BY SMTT(30), <1>1, <1>2, InsertIs
<1> HIDE DEF p, h
<1>5. p \in Nat /\ p <= Len(j) /\ p + 1 \in DOMAIN h /\ ~(p + 1 <= p)
  BY <1>2, <1>3, <1>4
<1>6. h[p + 1] = row
  BY <1>4, <1>5
<1>7. ASSUME NEW i \in DOMAIN h PROVE h[i].at \in Int
  <2>1. i \in Nat /\ 1 <= i /\ i <= Len(j) + 1
    BY <1>2, <1>4
  <2>2. CASE i <= p
    BY <2>1, <2>2, <1>2, <1>4, <1>5
  <2>3. CASE i = p + 1
    BY <2>3, <1>6
  <2>4. CASE i > p + 1
    <3>1. h[i] = j[i - 1] /\ i - 1 \in DOMAIN j
      BY <2>1, <2>4, <1>2, <1>4, <1>5
    <3> QED BY <3>1, <1>2
  <2> QED BY <2>1, <2>2, <2>3, <2>4, <1>5
<1>8. q \in 0..Len(h) /\ \A i \in DOMAIN h : h[i].at <= m <=> i <= q
  BY <1>4, <1>7, UptoIs
<1> HIDE DEF q
<1>9. q = p + 1
  <2>1. p + 1 <= q
    BY <1>5, <1>6, <1>8
  <2>2. ASSUME p + 2 <= q PROVE FALSE
    <3>1. p + 2 \in DOMAIN h /\ ~(p + 2 <= p) /\ p + 2 # p + 1 /\ (p + 2) - 1 = p + 1
          /\ p + 1 \in DOMAIN j
      BY <2>2, <1>2, <1>4, <1>5, <1>8
    <3>2. h[p + 2] = j[p + 1]
      BY <3>1, <1>4
    <3>3. ~(j[p + 1].at <= m)
      BY <3>1, <1>3, <1>5
    <3>4. h[p + 2].at <= m
      BY <2>2, <3>1, <1>8
    <3> QED BY <3>2, <3>3, <3>4
  <2>3. q \in Nat
    BY <1>8, <1>4, <1>2
  <2> QED BY <2>1, <2>2, <2>3, <1>5
<1>10. \A i \in 1..p : j[i] = h[i]
  <2> SUFFICES ASSUME NEW i \in 1..p PROVE j[i] = h[i]
    OBVIOUS
  <2>1. i \in DOMAIN h /\ i <= p
    BY <1>2, <1>4, <1>5
  <2> QED BY <2>1, <1>4
<1>11. Len(h) \in Nat /\ p <= Len(h)
  BY <1>2, <1>4, <1>5
<1>12. \A k \in 0..p : Books(h)[k] = Books(j)[k]
  BY <1>2, <1>5, <1>10, <1>11, BooksAgree
<1>13. Books(h)[p + 1] = Reapply(Books(h)[p], h[p + 1])
  <2>1. p + 1 \in 1..Len(h) /\ (p + 1) - 1 = p
    BY <1>2, <1>4, <1>5
  <2>2. Books(h)[p + 1] = Reapply(Books(h)[(p + 1) - 1], h[p + 1])
    BY <1>11, <2>1, BooksAre
  <2> QED BY <2>1, <2>2
<1>14. p \in 0..p
  BY <1>5
<1> QED BY <1>6, <1>9, <1>12, <1>13, <1>14 DEF h, p, q

\* The book of an action is what its journal says at the cursor.
Right(st) == st.book = Replay(Kept(st.journal, clock))

LEMMA TradedRight ==
  ASSUME NEW g, NEW st, IsState(st, g), Right(st), clock \in Minutes,
         NEW row, row.at = clock, NEW s, s.journal = Insert(st.journal, row),
         s.book = Reapply(st.book, row), IsState(s, g)
  PROVE  Right(s)
<1> DEFINE j == st.journal
<1>1. IsJournal(j, g) /\ IsJournal(Insert(j, row), g) /\ clock \in Int
  BY MinutesAreInt DEF IsState
<1>2. st.book = Books(j)[Upto(j, clock)]
  BY <1>1, KeptReplay DEF Right
<1>3. /\ Upto(Insert(j, row), clock) = Upto(j, clock) + 1
      /\ Books(Insert(j, row))[Upto(j, clock) + 1] = Reapply(Books(j)[Upto(j, clock)], row)
  BY <1>1, InsertReplay
<1> HIDE DEF j
<1>4. Replay(Kept(Insert(j, row), clock)) = Reapply(st.book, row)
  BY <1>1, <1>2, <1>3, KeptReplay
<1> QED BY <1>4 DEF Right, j

LEMMA OpenedRight ==
  ASSUME NEW g \in Nat, NEW st, IsState(st, g), Right(st), clock \in Minutes,
         NEW c \in Contracts, NEW side \in {"B", "S"}, NEW n \in Int
  PROVE  Right(Opened(st, c, side, n))
<1>1. CASE n <= 0
  BY <1>1 DEF Opened
<1>2. CASE ~(n <= 0)
  <2> DEFINE row == Row(clock, c, Entry(side), st.group, n, <<>>)
             s == Opened(st, c, side, n)
  <2>1. s = With(st, Insert(st.journal, row), Open(st.book, c, side, n))
    BY <1>2 DEF Opened
  <2>2. s.journal = Insert(st.journal, row) /\ s.book = Open(st.book, c, side, n)
    BY <2>1 DEF With
  <2>3. /\ row.at = clock /\ row.action = Entry(side) /\ row.symbol = c /\ row.lots = n
    BY DEF Row
  <2>4. Entry(side) \in Opening /\ Entry(side) # "NOOP" /\ SideOf(Entry(side)) = side
    BY DEF Entry, Opening, SideOf
  <2> HIDE DEF row
  <2>5. Reapply(st.book, row) = Open(st.book, c, side, n)
    BY <2>3, <2>4 DEF Reapply
  <2>6. IsState(s, g)
    BY OpenedState
  <2> HIDE DEF s
  <2>7. Right(s)
    BY <2>2, <2>3, <2>5, <2>6, TradedRight
  <2> QED BY <2>7 DEF s
<1> QED BY <1>1, <1>2

LEMMA ClosedRight ==
  ASSUME NEW g \in Nat, NEW st, IsState(st, g), Right(st), clock \in Minutes,
         NEW i \in DOMAIN st.book.legs, NEW n \in Nat \ {0}
  PROVE  Right(Closed(st, i, n))
<1> DEFINE leg == st.book.legs[i]
           m == IF n < leg.lots THEN n ELSE leg.lots
           row == Row(clock, leg.symbol, Exit(leg.side), st.group, m, <<>>)
           s == Closed(st, i, n)
           I == {k \in DOMAIN st.book.legs :
                   /\ st.book.legs[k].symbol = row.symbol
                   /\ row.action \in {"SETTLE", Exit(st.book.legs[k].side)}}
<1>1. s = With(st, Insert(st.journal, row), Close(st.book, i, m))
  BY DEF Closed
<1>2. s.journal = Insert(st.journal, row) /\ s.book = Close(st.book, i, m)
  BY <1>1 DEF With
<1>3. row.at = clock /\ row.action = Exit(leg.side) /\ row.symbol = leg.symbol /\ row.lots = m
  BY DEF Row
<1>4. IsBook(st.book) /\ leg \in LegSet /\ leg.side \in {"B", "S"}
  <2>1. IsBook(st.book)
    BY DEF IsState
  <2>2. leg \in LegSet
    BY <2>1, LegIs
  <2> QED BY <2>1, <2>2 DEF LegSet
<1>5. /\ Exit(leg.side) \notin Opening \cup {"NOOP", "SETTLE"}
      /\ \A side \in {"B", "S"} : Exit(leg.side) = Exit(side) => leg.side = side
  BY <1>4 DEF Exit, Opening
<1> HIDE DEF row, m
<1>6. I = {i}
  <2>1. \A k \in DOMAIN st.book.legs : st.book.legs[k].side \in {"B", "S"}
    BY <1>4, LegIs DEF LegSet
  <2>2. \A k \in DOMAIN st.book.legs :
          st.book.legs[k].symbol = leg.symbol /\ st.book.legs[k].side = leg.side => k = i
    BY <1>4 DEF IsBook
  <2>3. ASSUME NEW k \in I PROVE k = i
    BY <2>1, <2>2, <1>3, <1>5
  <2>4. i \in I
    BY <1>3
  <2> QED BY <2>3, <2>4
<1>7. First(I) = i /\ i # 0
  <2>1. I \in SUBSET DOMAIN st.book.legs
    OBVIOUS
  <2> HIDE DEF I
  <2>2. First(I) # 0 /\ First(I) \in I
    BY <1>4, <1>6, <2>1, LegIs
  <2> QED BY <2>2, <1>6
<1>8. Reapply(st.book, row) = Close(st.book, i, m)
  <2>1. row.action # "NOOP" /\ row.action \notin Opening
    BY <1>3, <1>5
  <2>2. Reapply(st.book, row) = IF First(I) = 0 THEN st.book ELSE Close(st.book, First(I), row.lots)
    BY <2>1 DEF Reapply
  <2> HIDE DEF I
  <2> QED BY <2>2, <1>3, <1>7
<1>9. IsState(s, g)
  BY ClosedState
<1> HIDE DEF s, leg
<1>10. Right(s)
  BY <1>2, <1>3, <1>8, <1>9, TradedRight
<1> QED BY <1>10 DEF s

LEMMA RewriteRight ==
  ASSUME NEW st, NEW leg, NEW c, NEW n
  PROVE  Right(RewriteFresh(st, leg, c, n))
  BY DEF RewriteFresh, With, Right

LEMMA AddRight ==
  ASSUME NEW g \in Nat, NEW st, IsState(st, g), Right(st), clock \in Minutes,
         NEW it, IsItem(it), it.kind = "add"
  PROVE  Right(Add(st, it))
<1> DEFINE legs == st.book.legs
           I == {k \in DOMAIN legs : legs[k].symbol = it.symbol /\ legs[k].side = Other(it.side)}
           i == First(I)
           rest == IF i = 0 THEN it.lots ELSE it.lots - legs[i].lots
           netted == IF i = 0 THEN st ELSE Closed(st, i, it.lots)
<1>1. /\ it.symbol \in Contracts /\ it.side \in {"B", "S"} /\ it.lots \in Nat \ {0}
  BY DEF IsItem, Items
<1>2. IsBook(st.book)
  BY DEF IsState
<1>3. I \in SUBSET DOMAIN st.book.legs
  OBVIOUS
<1>4. Add(st, it) = Opened(netted, it.symbol, it.side, rest)
  BY DEF Add
<1> HIDE DEF I
<1>5. i # 0 => i \in DOMAIN legs /\ legs[i].lots \in Nat
  BY <1>2, <1>3, LegIs DEF LegSet
<1>6. rest \in Int
  BY <1>1, <1>5
<1>7. IsState(netted, g) /\ Right(netted)
  BY <1>1, <1>5, ClosedState, ClosedRight
<1> HIDE DEF rest, netted
<1> QED BY <1>1, <1>4, <1>6, <1>7, OpenedRight

LEMMA ApplyRight ==
  ASSUME NEW g \in Nat, NEW st, IsState(st, g), Right(st), clock \in Minutes, NEW it, IsItem(it)
  PROVE  Right(Apply(st, it))
<1> DEFINE d == Apply(st, it)
<1>1. CASE d = st
  BY <1>1
<1>2. CASE it.kind = "add" /\ d = Add(st, it)
  BY <1>2, AddRight
<1>3. CASE d = Failed(st)
  <2>1. d.journal = st.journal /\ d.book = st.book
    BY <1>3 DEF Failed
  <2> HIDE DEF d
  <2>2. Right(d)
    BY <2>1 DEF Right
  <2> QED BY <2>2 DEF d
<1>4. ASSUME NEW i \in DOMAIN st.book.legs, NEW n \in Nat \ {0}, d = Closed(st, i, n)
      PROVE  Right(d)
  BY <1>4, ClosedRight
<1>5. ASSUME NEW i \in DOMAIN st.book.legs, NEW c \in Contracts, NEW n \in Nat,
             d = RewriteFresh(st, st.book.legs[i], c, n)
      PROVE  Right(d)
  BY <1>5, RewriteRight
<1>6. ASSUME NEW i \in DOMAIN st.book.legs, NEW c \in Contracts, NEW n \in Nat \ {0},
             d = Opened(Closed(st, i, n), c, st.book.legs[i].side, n)
      PROVE  Right(d)
  BY <1>6, ClosedState, ClosedRight, OpenedRight, LegHere
<1>7. ASSUME NEW i \in DOMAIN st.book.legs, NEW n \in Int,
             d = Opened(st, st.book.legs[i].symbol, st.book.legs[i].side, n)
      PROVE  Right(d)
  BY <1>7, OpenedRight, LegHere
<1> HIDE DEF d
<1>8. \/ d = st
      \/ it.kind = "add" /\ d = Add(st, it)
      \/ d = Failed(st)
      \/ \E i \in DOMAIN st.book.legs :
           \/ \E n \in Nat \ {0} : d = Closed(st, i, n)
           \/ \E c \in Contracts, n \in Nat : d = RewriteFresh(st, st.book.legs[i], c, n)
           \/ \E c \in Contracts, n \in Nat \ {0} :
                d = Opened(Closed(st, i, n), c, st.book.legs[i].side, n)
           \/ \E n \in Int : d = Opened(st, st.book.legs[i].symbol, st.book.legs[i].side, n)
  BY ApplyCases DEF d
<1> QED BY <1>1, <1>2, <1>3, <1>4, <1>5, <1>6, <1>7, <1>8 DEF d

\* Trading one leg leaves the others known by their ids.
LEMMA OpenIds ==
  ASSUME NEW b, IsBook(b), NEW c \in Contracts, NEW side \in {"B", "S"}, NEW n \in Nat \ {0},
         NEW id, HasLeg(b, id)
  PROVE  HasLeg(Open(b, c, side, n), id)
<1> DEFINE I == {k \in DOMAIN b.legs : b.legs[k].symbol = c /\ b.legs[k].side = side}
           i == First(I)
           d == Open(b, c, side, n)
<1>1. /\ Len(b.legs) \in Nat /\ DOMAIN b.legs = 1..Len(b.legs)
      /\ b.legs \in [1..Len(b.legs) -> LegSet] /\ b.legs \in Seq(LegSet)
      /\ b = [legs |-> b.legs, seq |-> b.seq, fills |-> b.fills]
  BY LegIs DEF IsBook
<1>2. i \in Nat /\ (i # 0 => i \in DOMAIN b.legs)
  <2>1. I \in SUBSET DOMAIN b.legs
    OBVIOUS
  <2> HIDE DEF I
  <2> QED BY <2>1, LegIs
<1>3. PICK k \in DOMAIN b.legs : b.legs[k].id = id
  BY DEF HasLeg
<1>4. CASE i > 0
  <2>1. d = [b EXCEPT !.legs[i].lots = @ + n, !.fills = @ + 1]
    BY <1>4 DEF Open
  <2>2. i \in DOMAIN b.legs
    BY <1>2, <1>4
  <2> DEFINE leg == [b.legs[i] EXCEPT !.lots = @ + n]
             legs == [b.legs EXCEPT ![i] = leg]
  <2> HIDE DEF i, d
  <2>3. d = [legs |-> legs, seq |-> b.seq, fills |-> b.fills + 1]
    BY <2>1, <1>1
  <2>4. leg.id = b.legs[i].id
    <3>1. b.legs[i] \in LegSet
      BY <2>2, <1>1
    <3> QED BY <3>1 DEF LegSet
  <2> HIDE DEF leg
  <2>5. k \in DOMAIN legs /\ legs[k].id = b.legs[k].id
    BY <2>2, <2>4, <1>1, <1>3
  <2> HIDE DEF legs
  <2>6. d.legs = legs
    BY <2>3
  <2>7. HasLeg(d, id)
    BY <2>5, <2>6, <1>3 DEF HasLeg
  <2> QED BY <2>7 DEF d
<1>5. CASE ~(i > 0)
  <2> DEFINE leg == [id |-> b.seq + 1, symbol |-> c, side |-> side, lots |-> n]
             legs == Append(b.legs, leg)
  <2>1. d = [legs |-> legs, seq |-> b.seq + 1, fills |-> b.fills + 1]
    BY <1>5 DEF Open
  <2> HIDE DEF i, d, leg
  <2>2. k \in DOMAIN legs /\ legs[k] = b.legs[k]
    BY <1>1, <1>3
  <2> HIDE DEF legs
  <2>3. d.legs = legs
    BY <2>1
  <2>4. HasLeg(d, id)
    BY <2>2, <2>3, <1>3 DEF HasLeg
  <2> QED BY <2>4 DEF d
<1> QED BY <1>4, <1>5

LEMMA CloseIds ==
  ASSUME NEW b, IsBook(b), NEW i \in DOMAIN b.legs, NEW n \in Nat,
         NEW id, HasLeg(b, id), id # b.legs[i].id
  PROVE  HasLeg(Close(b, i, n), id)
<1> DEFINE left == b.legs[i].lots - n
           d == Close(b, i, n)
<1>1. /\ Len(b.legs) \in Nat /\ DOMAIN b.legs = 1..Len(b.legs)
      /\ b.legs \in [1..Len(b.legs) -> LegSet] /\ b.legs \in Seq(LegSet)
      /\ b = [legs |-> b.legs, seq |-> b.seq, fills |-> b.fills]
  BY LegIs DEF IsBook
<1>2. PICK k \in DOMAIN b.legs : b.legs[k].id = id
  BY DEF HasLeg
<1>3. k # i
  BY <1>2
<1>4. CASE left <= 0
  <2> DEFINE legs == RemoveAt(b.legs, i)
             l == IF k < i THEN k ELSE k - 1
  <2>1. d = [legs |-> legs, seq |-> b.seq, fills |-> b.fills + 1]
    <3>1. d = [b EXCEPT !.legs = legs, !.fills = @ + 1]
      BY <1>4 DEF Close
    <3> HIDE DEF legs
    <3> QED BY <3>1, <1>1
  <2>2. /\ DOMAIN legs = 1..(Len(b.legs) - 1)
        /\ \A h \in DOMAIN legs : legs[h] = IF h < i THEN b.legs[h] ELSE b.legs[h + 1]
    BY <1>1, RemoveIs
  <2> HIDE DEF legs, d
  <2>3. l \in DOMAIN legs /\ legs[l] = b.legs[k]
    <3>1. i \in 1..Len(b.legs) /\ k \in 1..Len(b.legs)
      BY <1>1
    <3>2. l \in 1..(Len(b.legs) - 1) /\ (l < i => l = k) /\ (~(l < i) => l + 1 = k)
      BY <1>1, <1>3, <3>1
    <3> HIDE DEF l
    <3> QED BY <3>2, <2>2
  <2>4. d.legs = legs
    BY <2>1
  <2>5. HasLeg(d, id)
    BY <2>3, <2>4, <1>2 DEF HasLeg
  <2> QED BY <2>5 DEF d
<1>5. CASE ~(left <= 0)
  <2> DEFINE leg == [b.legs[i] EXCEPT !.lots = left]
             legs == [b.legs EXCEPT ![i] = leg]
  <2>1. d = [legs |-> legs, seq |-> b.seq, fills |-> b.fills + 1]
    <3>1. d = [b EXCEPT !.legs = [@ EXCEPT ![i].lots = left], !.fills = @ + 1]
      BY <1>5 DEF Close
    <3> HIDE DEF left
    <3> QED BY <3>1, <1>1
  <2> HIDE DEF leg, d
  <2>2. k \in DOMAIN legs /\ legs[k] = b.legs[k]
    BY <1>1, <1>3
  <2> HIDE DEF legs
  <2>3. d.legs = legs
    BY <2>1
  <2>4. HasLeg(d, id)
    BY <2>2, <2>3, <1>2 DEF HasLeg
  <2> QED BY <2>4 DEF d
<1> QED BY <1>4, <1>5

LEMMA OpenedIds ==
  ASSUME NEW g, NEW st, IsState(st, g), NEW c \in Contracts, NEW side \in {"B", "S"}, NEW n \in Int
  PROVE  LET s == Opened(st, c, side, n)
         IN  s.ok = st.ok /\ \A id : HasLeg(st.book, id) => HasLeg(s.book, id)
<1> DEFINE s == Opened(st, c, side, n)
<1>1. CASE n <= 0
  BY <1>1 DEF Opened
<1>2. CASE ~(n <= 0)
  <2>1. s.ok = st.ok /\ s.book = Open(st.book, c, side, n)
    BY <1>2 DEF Opened, With
  <2>2. IsBook(st.book) /\ n \in Nat \ {0}
    BY <1>2 DEF IsState
  <2> HIDE DEF s
  <2>3. \A id : HasLeg(st.book, id) => HasLeg(s.book, id)
    BY <2>1, <2>2, OpenIds
  <2> QED BY <2>1, <2>3 DEF s
<1> QED BY <1>1, <1>2

LEMMA ClosedIds ==
  ASSUME NEW g, NEW st, IsState(st, g), NEW i \in DOMAIN st.book.legs, NEW n \in Nat \ {0}
  PROVE  LET s == Closed(st, i, n)
         IN  /\ s.ok = st.ok
             /\ \A id : HasLeg(st.book, id) /\ id # st.book.legs[i].id => HasLeg(s.book, id)
<1> DEFINE s == Closed(st, i, n)
           m == IF n < st.book.legs[i].lots THEN n ELSE st.book.legs[i].lots
<1>1. s.ok = st.ok /\ s.book = Close(st.book, i, m)
  BY DEF Closed, With
<1>2. IsBook(st.book) /\ m \in Nat
  BY LegHere DEF IsState
<1> HIDE DEF s, m
<1>3. \A id : HasLeg(st.book, id) /\ id # st.book.legs[i].id => HasLeg(s.book, id)
  BY <1>1, <1>2, CloseIds
<1> QED BY <1>1, <1>3 DEF s

\* The items of one action are new trades, or one for each of some legs of
\* the book.
Aimed(items) ==
  \/ \A k \in 1..Len(items) : items[k].kind = "add"
  \/ \A k \in 1..Len(items) :
       /\ items[k].kind # "add" /\ HasLeg(book, items[k].leg)
       /\ \A l \in 1..Len(items) : l # k => items[l].leg # items[k].leg

LEMMA ActionsAim ==
  ASSUME IsBook(book), NEW items \in Actions
  PROVE  Aimed(items)
<1>1. /\ Len(book.legs) \in Nat /\ DOMAIN book.legs = 1..Len(book.legs)
      /\ \A i, k \in DOMAIN book.legs : book.legs[i].id = book.legs[k].id => i = k
  BY LegIs DEF IsBook
<1>2. \A it \in Adds : it.kind = "add"
  BY DEF Adds, Item
<1>3. \A it \in Exits \cup Rolls \cup Resizes : it.kind # "add" /\ HasLeg(book, it.leg)
  <2>1. \A leg \in Legs : HasLeg(book, leg.id)
    BY DEF Legs, HasLeg
  <2> QED BY <2>1 DEF Exits, Rolls, Resizes, OnLeg, Item
<1>4. CASE items \in Single(Adds \cup Exits \cup Rolls \cup Resizes)
  <2>1. PICK it \in Adds \cup Exits \cup Rolls \cup Resizes : items = <<it>>
    BY <1>4 DEF Single
  <2>2. Len(items) = 1 /\ \A k \in 1..1 : k = 1 /\ items[k] = it
    BY <2>1
  <2> QED BY <2>1, <2>2, <1>2, <1>3 DEF Aimed
<1>5. CASE items \in Baskets
  <2>1. PICK a \in Adds, b \in Adds : items = <<a, b>>
    BY <1>5 DEF Baskets
  <2>2. Len(items) = 2 /\ \A k \in 1..2 : items[k] = a \/ items[k] = b
    BY <2>1
  <2> QED BY <2>1, <2>2, <1>2 DEF Aimed
<1>6. CASE items \in Flattens
  <2> DEFINE all == [i \in DOMAIN book.legs |->
                      LET leg == book.legs[i] IN OnLeg("exit", leg, leg.symbol, leg.lots)]
             S == {all[i] : i \in DOMAIN book.legs}
  <2>1. PICK priced \in SUBSET Contracts :
          items = Pick(all, {i \in DOMAIN all : all[i].symbol \in priced})
    BY <1>6 DEF Flattens
  <2> DEFINE I == {i \in DOMAIN all : all[i].symbol \in priced}
             N == Len(book.legs)
  <2>2. \A i \in DOMAIN book.legs : all[i].kind # "add" /\ all[i].leg = book.legs[i].id
    BY DEF OnLeg, Item
  <2>3. all \in Seq(S) /\ DOMAIN all = 1..N /\ I \in SUBSET DOMAIN all /\ N \in Nat
    <3>1. all \in [1..N -> S]
      BY <1>1
    <3> QED BY <1>1, <3>1
  <2> HIDE DEF S, all, I, N
  <2>4. /\ Len(items) = Cardinality(I)
        /\ \A k \in 1..Cardinality(I) : Nth(I, k) \in I /\ items[k] = all[Nth(I, k)]
    BY <2>1, <2>3, PickIs DEF I
  <2>5. /\ Cardinality(I) \in Nat
        /\ \A k, l \in 1..Cardinality(I) : k < l => Nth(I, k) < Nth(I, l)
    BY <2>3, NthIs
  <2>6. \A k, l \in 1..Cardinality(I) : k # l => Nth(I, k) # Nth(I, l)
    <3> SUFFICES ASSUME NEW k \in 1..Cardinality(I), NEW l \in 1..Cardinality(I), k # l
                 PROVE  Nth(I, k) # Nth(I, l)
      OBVIOUS
    <3>1. Nth(I, k) \in Nat /\ Nth(I, l) \in Nat
      BY <2>3, <2>4
    <3>2. k < l \/ l < k
      BY <2>5
    <3> QED BY <3>1, <3>2, <2>5
  <2>7. ASSUME NEW k \in 1..Len(items)
        PROVE  /\ items[k].kind # "add" /\ HasLeg(book, items[k].leg)
               /\ \A l \in 1..Len(items) : l # k => items[l].leg # items[k].leg
    <3>1. /\ Nth(I, k) \in DOMAIN book.legs /\ items[k].kind # "add"
          /\ items[k].leg = book.legs[Nth(I, k)].id
      BY <2>2, <2>3, <2>4, <1>1 DEF N
    <3>2. ASSUME NEW l \in 1..Len(items), l # k PROVE items[l].leg # items[k].leg
      <4>1. Nth(I, l) \in DOMAIN book.legs /\ items[l].leg = book.legs[Nth(I, l)].id
        BY <2>2, <2>3, <2>4, <1>1 DEF N
      <4> QED BY <4>1, <3>1, <3>2, <2>4, <2>6, <1>1
    <3> QED BY <3>1, <3>2 DEF HasLeg
  <2> QED BY <2>7 DEF Aimed
<1>7. ASSUME NEW by, items \in Scale(by) PROVE Aimed(items)
  <2>1. items = [i \in DOMAIN book.legs |->
                  LET leg == book.legs[i] IN OnLeg("resize", leg, leg.symbol, by[leg.lots])]
    BY <1>7 DEF Scale
  <2>2. DOMAIN items = DOMAIN book.legs /\ Len(items) = Len(book.legs)
    BY <2>1, <1>1
  <2>3. \A i \in DOMAIN book.legs : items[i].kind # "add" /\ items[i].leg = book.legs[i].id
    BY SMTT(30), <2>1 DEF OnLeg, Item
  <2> QED BY <2>2, <2>3, <1>1 DEF Aimed, HasLeg
<1> QED BY <1>4, <1>5, <1>6, <1>7 DEF Actions

LEMMA AddOk ==
  ASSUME NEW st, NEW it
  PROVE  Add(st, it).ok = st.ok
<1>1. \A i, n : Closed(st, i, n).ok = st.ok
  BY DEF Closed, With
<1>2. \A s, c, side, n : Opened(s, c, side, n).ok = s.ok
  BY DEF Opened, With
<1> QED BY <1>1, <1>2 DEF Add

\* An item on a leg of the book leaves the other legs, unless it is an edit in
\* place: that rebuilds the book.
LEMMA ApplyIds ==
  ASSUME NEW g \in Nat, NEW st, IsState(st, g), clock \in Minutes, NEW it, IsItem(it),
         st.ok, it.kind # "add", HasLeg(st.book, it.leg)
  PROVE  LET d == Apply(st, it)
         IN  \/ Right(d)
             \/ d.ok /\ \A id : HasLeg(st.book, id) /\ id # it.leg => HasLeg(d.book, id)
<1> DEFINE d == Apply(st, it)
           Keep(s) == s.ok /\ \A id : HasLeg(st.book, id) /\ id # it.leg => HasLeg(s.book, id)
<1>1. PICK i \in DOMAIN st.book.legs :
        /\ st.book.legs[i].id = it.leg
        /\ \/ \E n \in Nat \ {0} : d = Closed(st, i, n)
           \/ \E c \in Contracts, n \in Nat : d = RewriteFresh(st, st.book.legs[i], c, n)
           \/ \E c \in Contracts, n \in Nat \ {0} :
                d = Opened(Closed(st, i, n), c, st.book.legs[i].side, n)
           \/ \E n \in Int : d = Opened(st, st.book.legs[i].symbol, st.book.legs[i].side, n)
  BY ApplyCases
<1>2. /\ st.book.legs[i].symbol \in Contracts /\ st.book.legs[i].side \in {"B", "S"}
  BY LegHere
<1>3. \A n \in Nat \ {0} : Keep(Closed(st, i, n)) /\ IsState(Closed(st, i, n), g)
  <2> SUFFICES ASSUME NEW n \in Nat \ {0} PROVE Keep(Closed(st, i, n)) /\ IsState(Closed(st, i, n), g)
    OBVIOUS
  <2> QED BY <1>1, ClosedIds, ClosedState
<1> HIDE DEF d
<1>4. CASE \E n \in Nat \ {0} : d = Closed(st, i, n)
  BY <1>3, <1>4 DEF d
<1>5. CASE \E c \in Contracts, n \in Nat : d = RewriteFresh(st, st.book.legs[i], c, n)
  BY <1>5, RewriteRight DEF d
<1>6. ASSUME NEW c \in Contracts, NEW n \in Nat \ {0},
             d = Opened(Closed(st, i, n), c, st.book.legs[i].side, n)
      PROVE  Keep(d)
  <2> DEFINE s == Closed(st, i, n)
  <2>1. Keep(s) /\ IsState(s, g)
    BY <1>3
  <2>2. n \in Int
    OBVIOUS
  <2>3. d = Opened(s, c, st.book.legs[i].side, n)
    BY <1>6
  <2> HIDE DEF s
  <2>4. d.ok = s.ok /\ \A id : HasLeg(s.book, id) => HasLeg(d.book, id)
    BY ZenonT(60), <2>1, <2>2, <2>3, <1>2, OpenedIds
  <2> QED BY <2>1, <2>4
<1>7. ASSUME NEW n \in Int, d = Opened(st, st.book.legs[i].symbol, st.book.legs[i].side, n)
      PROVE  Keep(d)
  <2>1. d.ok = st.ok /\ \A id : HasLeg(st.book, id) => HasLeg(d.book, id)
    BY ZenonT(60), <1>2, <1>7, OpenedIds
  <2> QED BY <2>1
<1> QED BY <1>1, <1>4, <1>5, <1>6, <1>7 DEF d

\* An action fails over a leg that is gone, which takes an edit in place.
LEMMA FailsRight ==
  ASSUME NEW g \in Nat, NEW start, IsState(start, g), start.ok, start.book = book,
         clock \in Minutes, NEW items, Len(items) \in Nat,
         \A k \in 1..Len(items) : IsItem(items[k]), Aimed(items)
  PROVE  LET end == Applied(start, items)[Len(items)] IN end.ok \/ Right(end)
<1> DEFINE f == Applied(start, items)
           N == Len(items)
           Ahead(n) == /\ f[n].ok
                       /\ \A k \in (n + 1)..N : \/ items[k].kind = "add"
                                                \/ HasLeg(f[n].book, items[k].leg)
           G == {n \in 0..N : Right(f[n]) \/ Ahead(n)}
<1>1. f[0] = start /\ \A n \in 1..N : f[n] = Apply(f[n - 1], items[n])
  BY AppliedIs
<1>2. \A n \in 0..N : IsState(f[n], g)
  BY AppliedState
<1> HIDE DEF f
<1>3. 0 \in G
  BY <1>1 DEF Aimed
<1>4. ASSUME NEW n \in 0..(N - 1), n \in G PROVE n + 1 \in G
  <2> DEFINE it == items[n + 1]
             st == f[n]
             d == f[n + 1]
  <2>1. n + 1 \in 1..N /\ (n + 1) - 1 = n /\ n + 1 \in 0..N /\ n \in 0..N /\ n + 1 \in (n + 1)..N
        /\ (n + 1) + 1 = n + 2 /\ \A k \in (n + 2)..N : k \in (n + 1)..N /\ k \in 1..N /\ k # n + 1
    OBVIOUS
  <2>2. d = Apply(st, it) /\ IsItem(it) /\ IsState(st, g)
    BY <1>1, <1>2, <2>1
  <2>3. CASE Right(st)
    <3>1. Right(d)
      BY <2>2, <2>3, ApplyRight
    <3> QED BY <3>1, <2>1
  <2>4. CASE Ahead(n)
    <3> HIDE DEF st, d, it
    <3>1. st.ok /\ (it.kind = "add" \/ HasLeg(st.book, it.leg))
      BY <2>1, <2>4 DEF st, it
    <3>2. CASE it.kind = "add"
      <4>1. \A k \in 1..N : items[k].kind = "add"
        BY SMTT(30), <2>1, <3>2 DEF Aimed, it
      <4>2. d = Add(st, it)
        BY <2>2, <3>1, <3>2 DEF Apply
      <4>3. d.ok
        BY <4>2, <3>1, AddOk
      <4>4. Ahead(n + 1)
        BY <2>1, <4>1, <4>3 DEF d
      <4> QED BY <2>1, <4>4
    <3>3. CASE it.kind # "add"
      <4>1. \A k \in 1..N : k # n + 1 => items[k].leg # it.leg
        BY <2>1, <3>3 DEF Aimed, it
      <4>2. \/ Right(d)
            \/ d.ok /\ \A id : HasLeg(st.book, id) /\ id # it.leg => HasLeg(d.book, id)
        BY <2>2, <3>1, <3>3, ApplyIds
      <4>3. ASSUME d.ok, \A id : HasLeg(st.book, id) /\ id # it.leg => HasLeg(d.book, id)
            PROVE  Ahead(n + 1)
        <5>1. ASSUME NEW k \in (n + 2)..N
              PROVE  items[k].kind = "add" \/ HasLeg(d.book, items[k].leg)
          <6>1. k \in (n + 1)..N /\ k \in 1..N /\ k # n + 1
            BY <2>1
          <6>2. items[k].kind = "add" \/ HasLeg(st.book, items[k].leg)
            BY <6>1, <2>4 DEF st
          <6> QED BY <6>1, <6>2, <4>1, <4>3
        <5> QED BY <5>1, <4>3, <2>1 DEF d
      <4> QED BY <4>2, <4>3, <2>1 DEF d
    <3> QED BY <3>2, <3>3
  <2> QED BY <1>4, <2>3, <2>4
<1> HIDE DEF G
<1>5. 0..N \subseteq G
  <2> HIDE DEF N
  <2>1. N \in Nat
    BY DEF N
  <2> QED BY <1>3, <1>4, <2>1, Induction
<1>6. N \in 0..N
  OBVIOUS
<1> QED BY <1>5, <1>6 DEF G, f

\* The rows of a journal whose owner trades before the settlement's minute.
ByExpiry(j) == \A i \in DOMAIN j : j[i].action # "SETTLE" => j[i].at < ExpiryAt
NotSettled(j) == Pick(j, {i \in DOMAIN j : j[i].action # "SETTLE"})

LEMMA OwnersAre ==
  ASSUME NEW g, NEW j, IsJournal(j, g)
  PROVE  (\A i \in DOMAIN NotSettled(j) : NotSettled(j)[i].at < ExpiryAt) <=> ByExpiry(j)
<1> DEFINE I == {i \in DOMAIN j : j[i].action # "SETTLE"}
           o == NotSettled(j)
<1>1. PICK W : AreRows(W, g) /\ j \in Seq(W) /\ Sorted(j)
  BY DEF IsJournal
<1>2. I \in SUBSET DOMAIN j /\ o = Pick(j, I)
  BY DEF NotSettled
<1> HIDE DEF I, o
<1>3. /\ DOMAIN o = 1..Cardinality(I)
      /\ \A k \in 1..Cardinality(I) : Nth(I, k) \in I /\ o[k] = j[Nth(I, k)]
      /\ \A i \in I : \E k \in 1..Cardinality(I) : o[k] = j[i]
  BY <1>1, <1>2, PickIs
<1>4. (\A k \in DOMAIN o : o[k].at < ExpiryAt) <=> \A i \in I : j[i].at < ExpiryAt
  BY <1>3
<1> QED BY <1>4 DEF I, o, ByExpiry

LEMMA HoursAre ==
  ASSUME NEW g, IsJournal(journal, g)
  PROVE  InHours <=> ByExpiry(journal)
  BY OwnersAre DEF InHours, Owners, NotSettled

\* What settlement adds to such a journal comes after it.
Extends(j, h) ==
  /\ Len(j) <= Len(h)
  /\ \A i \in 1..Len(j) : h[i] = j[i]

LEMMA SettleAppends ==
  ASSUME NEW g \in Nat, NEW j, IsJournal(j, g), \A i \in DOMAIN j : j[i].at <= ExpiryAt,
         NEW c \in Contracts, Settle(j, c) # j
  PROVE  /\ Len(Settle(j, c)) = Len(j) + 1
         /\ \A i \in 1..Len(j) : Settle(j, c)[i] = j[i]
         /\ Settle(j, c)[Len(j) + 1] = Row(ExpiryAt, c, "SETTLE", 0, Net(j, c), <<>>)
         /\ \A i \in DOMAIN Settle(j, c) : Settle(j, c)[i].at <= ExpiryAt
<1> DEFINE row == Row(ExpiryAt, c, "SETTLE", 0, Net(j, c), <<>>)
           h == Settle(j, c)
           N == Len(j)
           p == Upto(j, row.at)
<1>1. h = Insert(j, row)
  BY DEF Settle
<1>2. row.at = ExpiryAt /\ ExpiryAt \in Int
  BY MinutesAreInt DEF Row
<1>3. PICK W : AreRows(W, g) /\ j \in Seq(W) /\ Sorted(j)
  BY DEF IsJournal
<1>4. /\ N \in Nat /\ DOMAIN j = 1..N /\ \A i \in DOMAIN j : j[i].at \in Int
  BY JournalIs
<1> HIDE DEF row
<1>5. j \in Seq(W \cup {row}) /\ row \in W \cup {row} /\ row.at \in Int
  BY <1>2, <1>3, SeqMonotonic
<1> DEFINE Q == W \cup {row}
<1> HIDE DEF Q
<1>6. /\ Len(Insert(j, row)) = N + 1 /\ DOMAIN Insert(j, row) = 1..(N + 1)
       /\ p \in 0..N
       /\ \A i \in DOMAIN Insert(j, row) :
            Insert(j, row)[i] = IF i <= p THEN j[i] ELSE IF i = p + 1 THEN row ELSE j[i - 1]
  <2>1. j \in Seq(Q) /\ row \in Q
    BY <1>5 DEF Q
  <2> QED BY SMTT(30), <2>1, <1>3, <1>4, <1>5, InsertIs
<1>7. p \in 0..N /\ \A i \in DOMAIN j : j[i].at <= row.at <=> i <= p
  BY <1>2, <1>3, <1>4, UptoIs
<1> HIDE DEF p, N
<1>8. p = N
  <2>1. CASE N = 0
    BY <2>1, <1>7
  <2>2. CASE N # 0
    <3>1. N \in DOMAIN j
      BY <1>4, <2>2
    <3>2. N <= p
      BY <3>1, <1>2, <1>7
    <3> QED BY <3>2, <1>4, <1>7
  <2> QED BY <2>1, <2>2
<1> HIDE DEF h
<1>9. /\ Len(h) = N + 1 /\ DOMAIN h = 1..(N + 1)
      /\ \A i \in DOMAIN h : h[i] = IF i <= p THEN j[i] ELSE IF i = p + 1 THEN row ELSE j[i - 1]
  BY <1>1, <1>6
<1>10. ASSUME NEW i \in 1..N PROVE h[i] = j[i]
  <2>1. i \in DOMAIN h /\ i <= p
    BY <1>4, <1>8, <1>9
  <2> QED BY <2>1, <1>9
<1>11. h[N + 1] = row
  <2>1. N + 1 \in DOMAIN h /\ ~(N + 1 <= p) /\ N + 1 = p + 1
    BY <1>4, <1>8, <1>9
  <2> QED BY <2>1, <1>9
<1>12. ASSUME NEW i \in DOMAIN h PROVE h[i].at <= ExpiryAt
  <2>1. i \in 1..N \/ i = N + 1
    BY <1>4, <1>9
  <2> QED BY <2>1, <1>2, <1>4, <1>10, <1>11
<1> QED BY <1>9, <1>10, <1>11, <1>12 DEF h, row, N

LEMMA SettledExtends ==
  ASSUME NEW g \in Nat, NEW j, IsJournal(j, g), ByExpiry(j), NEW m
  PROVE  Extends(j, SettleExpired(j, m))
<1> DEFINE rows == Opens(j)
           s == Settlements(j, rows)
           N == Len(rows)
           G == {n \in 0..N : Extends(j, s[n]) /\ \A i \in DOMAIN s[n] : s[n][i].at <= ExpiryAt}
<1>1. /\ N \in Nat /\ (\A n \in 1..N : rows[n].symbol \in Contracts)
      /\ \A n \in 0..N : IsJournal(s[n], g)
  BY SettledJournal
<1>2. Len(j) \in Nat /\ Extends(j, j)
  BY JournalIs DEF Extends
<1> HIDE DEF rows
<1>3. s[0] = j /\ \A n \in 1..N : s[n] = Settle(s[n - 1], rows[n].symbol)
  BY <1>1, SettledIs
<1> HIDE DEF s, N
<1>4. 0 \in G
  <2>1. \A i \in DOMAIN j : j[i].at <= ExpiryAt
    <3> SUFFICES ASSUME NEW i \in DOMAIN j PROVE j[i].at <= ExpiryAt
      OBVIOUS
    <3>1. j[i].at \in Nat /\ ExpiryAt \in Nat /\ (j[i].action = "SETTLE" => j[i].at = ExpiryAt)
      BY JournalIs, MinutesAreInt
    <3> QED BY <3>1 DEF ByExpiry
  <2> QED BY <2>1, <1>1, <1>2, <1>3
<1>5. ASSUME NEW n \in 0..(N - 1), n \in G PROVE n + 1 \in G
  <2> DEFINE a == s[n]
             c == rows[n + 1].symbol
             b == s[n + 1]
  <2>1. n + 1 \in 1..N /\ (n + 1) - 1 = n /\ n + 1 \in 0..N /\ n \in 0..N
    BY <1>1
  <2>2. b = Settle(a, c) /\ c \in Contracts /\ IsJournal(a, g)
    BY <1>1, <1>3, <2>1
  <2>3. Extends(j, a) /\ \A i \in DOMAIN a : a[i].at <= ExpiryAt
    BY <1>5
  <2>4. Len(a) \in Nat
    BY <2>2, JournalIs
  <2> HIDE DEF a, c
  <2>5. CASE Settle(a, c) = a
    <3>1. b = a
      BY <2>2, <2>5
    <3> QED BY <3>1, <2>1, <2>3
  <2>6. CASE Settle(a, c) # a
    <3> HIDE DEF b
    <3>1. /\ Len(b) = Len(a) + 1 /\ \A i \in 1..Len(a) : b[i] = a[i]
          /\ \A i \in DOMAIN b : b[i].at <= ExpiryAt
      BY <2>2, <2>3, <2>6, SettleAppends
    <3>2. Len(j) <= Len(a) /\ \A i \in 1..Len(j) : a[i] = j[i] /\ i \in 1..Len(a)
      BY <1>2, <2>3, <2>4 DEF Extends
    <3>3. Extends(j, b)
      BY <3>1, <3>2, <1>2, <2>4 DEF Extends
    <3> QED BY <3>1, <3>3, <2>1 DEF b
  <2> QED BY <2>5, <2>6
<1> HIDE DEF G
<1>6. 0..N \subseteq G
  BY <1>1, <1>4, <1>5, Induction
<1>7. Extends(j, s[N])
  <2>1. N \in 0..N
    BY <1>1
  <2> QED BY <1>6, <2>1 DEF G
<1> QED BY <1>2, <1>7 DEF SettleExpired, s, N, rows

\* When every row counts, every one of them made a fill.
Counting(j) == Replay(j).fills = Len(j)

LEMMA CountingIs ==
  ASSUME NEW g, NEW j, IsJournal(j, g), Counting(j)
  PROVE  \A n \in 0..Len(j) : Books(j)[n].fills = n
<1> DEFINE f == Books(j)
           N == Len(j)
           G == {k \in 0..N : f[N - k].fills = N - k}
<1>1. PICK W : AreRows(W, g) /\ j \in Seq(W)
  BY DEF IsJournal
<1>2. N \in Nat
  BY JournalIs
<1>3. \A n \in 1..N : f[n] = Reapply(f[n - 1], j[n])
  BY <1>2, BooksAre
<1>4. \A n \in 0..N : IsBook(f[n]) /\ f[n].fills <= n /\ f[n].fills \in Nat
  BY <1>1, BooksType DEF IsBook
<1>5. f[N].fills = N
  BY DEF Counting, Replay
<1>6. \A n \in 1..N : j[n] \in W
  BY <1>1, <1>2, ElementOfSeq
<1> HIDE DEF f, N
<1>7. 0 \in G
  <2>1. N - 0 = N /\ 0 \in 0..N
    BY <1>2
  <2> QED BY <2>1, <1>5
<1>8. ASSUME NEW k \in 0..(N - 1), k \in G PROVE k + 1 \in G
  <2> DEFINE n == N - k
  <2>1. n \in 1..N /\ n - 1 = N - (k + 1) /\ k + 1 \in 0..N /\ n - 1 \in 0..N
    BY <1>2
  <2>2. f[n].fills = n
    BY <1>8
  <2> HIDE DEF n
  <2>3. f[n].fills \in {f[n - 1].fills, f[n - 1].fills + 1}
    BY <1>1, <1>3, <1>4, <1>6, <2>1, ReapplyIs
  <2>4. f[n - 1].fills <= n - 1 /\ f[n - 1].fills \in Nat /\ n \in Nat
    BY <1>4, <2>1
  <2>5. f[n - 1].fills = n - 1
    BY <2>2, <2>3, <2>4
  <2> QED BY <2>1, <2>5
<1> HIDE DEF G
<1>9. 0..N \subseteq G
  BY <1>2, <1>7, <1>8, Induction
<1>10. ASSUME NEW n \in 0..N PROVE f[n].fills = n
  <2>1. N - n \in 0..N /\ N - (N - n) = n
    BY <1>2
  <2>2. f[N - (N - n)].fills = N - (N - n)
    BY <1>9, <2>1 DEF G
  <2> QED BY <2>1, <2>2
<1> QED BY <1>10 DEF f, N

LEMMA CountingExtends ==
  ASSUME NEW g, NEW j, IsJournal(j, g), NEW h, IsJournal(h, g), Extends(j, h), Counting(h)
  PROVE  Counting(j) /\ \A n \in 0..Len(j) : Books(j)[n] = Books(h)[n]
<1>1. Len(j) \in Nat /\ Len(h) \in Nat /\ Len(j) <= Len(h) /\ \A i \in 1..Len(j) : j[i] = h[i]
  BY JournalIs DEF Extends
<1>2. \A n \in 0..Len(j) : Books(j)[n] = Books(h)[n]
  BY <1>1, BooksAgree
<1>3. Len(j) \in 0..Len(j) /\ Len(j) \in 0..Len(h)
  BY <1>1
<1>4. Books(h)[Len(j)].fills = Len(j)
  BY <1>3, CountingIs
<1>5. Books(j)[Len(j)].fills = Len(j)
  BY <1>2, <1>3, <1>4
<1> QED BY <1>2, <1>5 DEF Counting, Replay

\* RewindUnwinds carries itself: a seek that keeps the book has as many rows up
\* to the new minute as the book has fills, and they are the same rows.
LEMMA RewindInit == Init => RewindUnwinds
<1> SUFFICES ASSUME Init PROVE book = Replay(Kept(journal, clock))
  BY DEF RewindUnwinds
<1>1. TypeInv /\ journal = <<>> /\ book = EmptyBook
  BY TypeInit DEF Init
<1>2. IsJournal(journal, group) /\ clock \in Int /\ Len(journal) = 0
  BY <1>1, MinutesAreInt DEF TypeInv
<1>3. Upto(journal, clock) = 0
  BY <1>2, KeptJournal
<1>4. Books(journal)[0] = EmptyBook
  BY <1>2, BooksAre
<1> QED BY <1>1, <1>2, <1>3, <1>4, KeptReplay

LEMMA SeekRewinds ==
  ASSUME TypeInv, TypeInv', RewindUnwinds, NEW m \in Minutes, Seek(m)
  PROVE  RewindUnwinds'
<1> SUFFICES ASSUME EveryRowCounts', InHours' PROVE book' = Replay(Kept(journal', clock'))
  BY DEF RewindUnwinds
<1>1. /\ clock' = m /\ group' = group /\ journal' = SettleExpired(journal, m)
      /\ book' = ReplayBook(journal', m)
  BY DEF Seek
<1>2. /\ IsJournal(journal, group) /\ IsJournal(journal', group) /\ group \in Nat
      /\ clock \in Int /\ m \in Int
  BY <1>1, MinutesAreInt DEF TypeInv
<1>3. ByExpiry(journal')
  BY <1>2, OwnersAre DEF InHours, Owners, NotSettled
<1>4. ByExpiry(journal)
  BY <1>1, <1>2, <1>3, SettledKeeps DEF ByExpiry, Keeps
<1>5. InHours
  BY <1>2, <1>4, HoursAre
<1>6. Extends(journal, journal')
  BY <1>1, <1>2, <1>4, SettledExtends
<1>7. Counting(journal')
  BY DEF EveryRowCounts, Counting
<1>8. Counting(journal) /\ \A n \in 0..Len(journal) : Books(journal)[n] = Books(journal')[n]
  BY <1>2, <1>6, <1>7, CountingExtends
<1>9. book = Replay(Kept(journal, clock))
  BY <1>5, <1>8 DEF RewindUnwinds, EveryRowCounts, Counting
<1> DEFINE u == Upto(journal, clock)
           v == Upto(journal', m)
<1>10. u \in 0..Len(journal) /\ v \in 0..Len(journal') /\ Len(Kept(journal', m)) = v
  BY <1>2, KeptJournal
<1>11. book = Books(journal)[u] /\ Replay(Kept(journal', m)) = Books(journal')[v]
  BY <1>2, <1>9, KeptReplay
<1> HIDE DEF u, v
<1>12. book = Books(journal')[u]
  BY <1>8, <1>10, <1>11
<1>13. Len(journal) \in Nat /\ Len(journal') \in Nat /\ Len(journal) <= Len(journal')
  BY <1>2, <1>6, JournalIs DEF Extends
<1>14. book.fills = u
  <2>1. u \in 0..Len(journal')
    BY <1>10, <1>13
  <2> QED BY <2>1, <1>2, <1>7, <1>12, CountingIs
<1>15. book' = book => u = v \/ journal' = <<>> \/ book' = Replay(Kept(journal', m))
  BY <1>1, <1>10, <1>14 DEF ReplayBook
<1>16. book' = book \/ book' = Replay(Kept(journal', m))
  BY <1>1 DEF ReplayBook
<1>17. journal' = <<>> => u = v
  BY <1>10, <1>13
<1> QED BY <1>1, <1>11, <1>12, <1>15, <1>16, <1>17

LEMMA ActRewinds ==
  ASSUME TypeInv, NEW items \in Actions, Act(items)
  PROVE  RewindUnwinds'
<1> DEFINE start == [journal |-> journal, book |-> book, group |-> group + 1, ok |-> TRUE]
           end == Applied(start, items)[Len(items)]
<1>1. /\ clock' = clock /\ journal' = end.journal
      /\ IF end.ok THEN book' = Replay(Kept(journal', clock)) ELSE book' = end.book
  BY DEF Act
<1>2. /\ group \in Nat /\ clock \in Minutes /\ IsJournal(journal, group) /\ IsBook(book)
      /\ LegsHaveRows(book, journal)
  BY DEF TypeInv
<1>3. IsState(start, group + 1) /\ start.ok /\ start.book = book
  <2>1. group + 1 \in Nat /\ group <= group + 1
    BY <1>2
  <2>2. IsJournal(journal, group + 1)
    BY <1>2, <2>1, LaterGroup
  <2>3. start.journal = journal /\ start.book = book /\ start.ok = TRUE
    OBVIOUS
  <2> QED BY <1>2, <2>2, <2>3 DEF IsState
<1> HIDE DEF start
<1>4. Len(items) \in Nat /\ (\A k \in 1..Len(items) : IsItem(items[k])) /\ Aimed(items)
  BY <1>2, ActionsAreItems, ActionsAim
<1>5. end.ok \/ Right(end)
  <2>1. group + 1 \in Nat
    BY <1>2
  <2> QED BY <2>1, <1>2, <1>3, <1>4, FailsRight
<1> HIDE DEF end
<1>6. book' = Replay(Kept(journal', clock'))
  BY <1>1, <1>5 DEF Right
<1> QED BY <1>6 DEF RewindUnwinds

LEMMA RewindNext == TypeInv /\ TypeInv' /\ RewindUnwinds /\ [Next]_vars => RewindUnwinds'
<1> SUFFICES ASSUME TypeInv, TypeInv', RewindUnwinds, [Next]_vars PROVE RewindUnwinds'
  OBVIOUS
<1>1. ASSUME NEW m \in Minutes, Seek(m) PROVE RewindUnwinds'
  BY <1>1, SeekRewinds
<1>2. ASSUME NEW items \in Actions, Act(items) PROVE RewindUnwinds'
  BY <1>2, ActRewinds
<1>3. CASE UndoLast \/ TruncateAfterCursor \/ ResetBook \/ Rehydrate
           \/ \E c \in Contracts : DeleteLeg(c)
  <2>1. book' = Replay(Kept(journal', clock'))
    BY <1>3 DEF UndoLast, TruncateAfterCursor, ResetBook, Rehydrate, DeleteLeg, Discard
  <2> QED BY <2>1 DEF RewindUnwinds
<1>4. CASE UNCHANGED vars
  <2>1. journal' = journal /\ clock' = clock /\ book' = book
    BY <1>4 DEF vars
  <2> QED BY <2>1 DEF RewindUnwinds, EveryRowCounts, InHours, Owners
<1> QED BY <1>1, <1>2, <1>3, <1>4 DEF Next

\* The book is what the journal says at the cursor, wherever the cursor came
\* from (session.py: "rewinding past a fill unwinds it").
THEOREM RewindsUnwind == Spec => []RewindUnwinds
<1>1. Init => TypeInv /\ RewindUnwinds
  BY TypeInit, RewindInit
<1>2. (TypeInv /\ RewindUnwinds) /\ [Next]_vars => (TypeInv /\ RewindUnwinds)'
  BY TypeNext, RewindNext
<1> QED BY <1>1, <1>2, PTL DEF Spec

-----------------------------------------------------------------------------
(* What a contract comes to, by its rows and by its legs.                  *)

Signed(row) == IF row.action \in Opening THEN row.lots ELSE -row.lots
Part(row, c) == IF row.symbol = c THEN Signed(row) ELSE 0
\* ... by the first rows of a journal.
NetTo(j, c, n) == SumOver([i \in DOMAIN j |-> Signed(j[i])], {i \in 1..n : j[i].symbol = c})
\* ... by the two legs of a book.
Worth(b, c) == Held(b, c, "B") + Held(b, c, "S")

LEMMA NetIs ==
  ASSUME NEW g, NEW j, IsJournal(j, g), NEW c
  PROVE  Net(j, c) = NetTo(j, c, Len(j))
<1>1. DOMAIN j = 1..Len(j)
  BY JournalIs
<1>2. Net(j, c) = SumOver([i \in DOMAIN j |-> Signed(j[i])], {i \in DOMAIN j : j[i].symbol = c})
  BY DEF Net, Signed
<1> QED BY <1>1, <1>2 DEF NetTo

LEMMA NetStep ==
  ASSUME NEW g, NEW j, IsJournal(j, g), NEW c
  PROVE  /\ NetTo(j, c, 0) = 0
         /\ \A n \in 0..Len(j) : NetTo(j, c, n) \in Int
         /\ \A n \in 0..(Len(j) - 1) :
              NetTo(j, c, n + 1) =
                NetTo(j, c, n) + Part(j[n + 1], c)
<1> DEFINE f == [i \in DOMAIN j |-> Signed(j[i])]
           I(n) == {i \in 1..n : j[i].symbol = c}
           N == Len(j)
<1>1. N \in Nat /\ DOMAIN j = 1..N /\ \A i \in 1..N : j[i].lots \in Nat
  BY JournalIs
<1>2. \A i \in 1..N : f[i] = Signed(j[i]) /\ f[i] \in Int
  BY <1>1 DEF Signed
<1>3. \A n : NetTo(j, c, n) = SumOver(f, I(n))
  BY DEF NetTo
<1> HIDE DEF f, N
<1>4. \A n \in 0..N : n \in Nat /\ I(n) \in SUBSET (1..n) /\ I(n) \subseteq 1..N
  BY <1>1
<1>5. \A n \in 0..N : IsFiniteSet(I(n))
  BY <1>4, Positions
<1>6. NetTo(j, c, 0) = 0
  <2>1. I(0) = {}
    OBVIOUS
  <2> QED BY <2>1, <1>3, SumEmpty
<1>7. ASSUME NEW n \in 0..N PROVE NetTo(j, c, n) \in Int
  <2> DEFINE S == I(n)
  <2>1. IsFiniteSet(S) /\ \A i \in S : f[i] \in Int
    BY <1>2, <1>4, <1>5
  <2> HIDE DEF S
  <2>2. SumOver(f, S) \in Int
    BY <2>1, SumType
  <2> QED BY <2>2, <1>3 DEF S
<1>8. ASSUME NEW n \in 0..(N - 1)
      PROVE  NetTo(j, c, n + 1) =
               NetTo(j, c, n) + Part(j[n + 1], c)
  <2>1. n \in 0..N /\ n + 1 \in 0..N /\ n + 1 \in 1..N /\ n \in Nat
    BY <1>1
  <2>2. CASE j[n + 1].symbol = c
    <3> DEFINE S == I(n + 1)
    <3>1. n + 1 \in S /\ S \ {n + 1} = I(n)
      BY <2>1, <2>2
    <3>2. IsFiniteSet(S) /\ \A i \in S : f[i] \in Int
      BY <2>1, <1>2, <1>4, <1>5
    <3>3. NetTo(j, c, n + 1) = SumOver(f, S)
      BY <1>3
    <3> HIDE DEF S, I
    <3>4. SumOver(f, S) = f[n + 1] + SumOver(f, I(n))
      BY <3>1, <3>2, SumRemove
    <3>5. f[n + 1] = Signed(j[n + 1]) /\ f[n + 1] \in Int
      BY <1>2, <2>1
    <3>6. NetTo(j, c, n) = SumOver(f, I(n)) /\ NetTo(j, c, n) \in Int
      BY <1>3, <1>7, <2>1 DEF I
    <3> QED BY <2>2, <3>3, <3>4, <3>5, <3>6 DEF Part
  <2>3. CASE j[n + 1].symbol # c
    <3>1. I(n + 1) = I(n)
      BY <2>1, <2>3
    <3>2. NetTo(j, c, n) \in Int /\ NetTo(j, c, n + 1) = NetTo(j, c, n)
      BY <3>1, <1>3, <1>7, <2>1
    <3> QED BY <2>3, <3>2 DEF Part
  <2> QED BY <2>2, <2>3
<1> QED BY <1>6, <1>7, <1>8 DEF N

LEMMA NetAgrees ==
  ASSUME NEW g, NEW j, IsJournal(j, g), NEW h, IsJournal(h, g), Extends(j, h), NEW c
  PROVE  NetTo(h, c, Len(j)) = NetTo(j, c, Len(j))
<1> DEFINE f == [i \in DOMAIN j |-> Signed(j[i])]
           e == [i \in DOMAIN h |-> Signed(h[i])]
           N == Len(j)
           I == {i \in 1..N : j[i].symbol = c}
<1>1. /\ N \in Nat /\ DOMAIN j = 1..N /\ Len(h) \in Nat /\ DOMAIN h = 1..Len(h)
      /\ N <= Len(h) /\ \A i \in 1..N : h[i] = j[i]
  BY JournalIs DEF Extends
<1>2. \A i \in 1..N : i \in DOMAIN h /\ e[i] = f[i]
  BY <1>1
<1>3. {i \in 1..N : h[i].symbol = c} = I
  BY <1>1
<1>4. IsFiniteSet(I)
  <2>1. I \in SUBSET (1..N)
    OBVIOUS
  <2> QED BY <2>1, <1>1, Positions
<1>5. \A i \in I : e[i] = f[i]
  BY <1>2
<1>6. NetTo(h, c, N) = SumOver(e, I) /\ NetTo(j, c, N) = SumOver(f, I)
  BY <1>3 DEF NetTo
<1> HIDE DEF e, f, I
<1>7. SumOver(e, I) = SumOver(f, I)
  BY <1>4, <1>5, SumSame
<1> QED BY <1>6, <1>7

\* Only an opening makes a contract come to something.
LEMMA NetPositive ==
  ASSUME NEW g, NEW j, IsJournal(j, g), NEW c, Net(j, c) > 0
  PROVE  \E i \in DOMAIN j : j[i].symbol = c /\ j[i].action \in Opening
<1> DEFINE N == Len(j)
           G == {n \in 0..N : NetTo(j, c, n) <= 0}
<1>1. /\ N \in Nat /\ DOMAIN j = 1..N /\ \A i \in 1..N : j[i].lots \in Nat
  BY JournalIs
<1>2. /\ NetTo(j, c, 0) = 0
      /\ \A n \in 0..N : NetTo(j, c, n) \in Int
      /\ \A n \in 0..(N - 1) :
           NetTo(j, c, n + 1) =
             NetTo(j, c, n) + Part(j[n + 1], c)
  BY NetStep
<1> HIDE DEF N
<1> SUFFICES ASSUME \A i \in DOMAIN j : j[i].symbol = c => j[i].action \notin Opening
             PROVE  FALSE
  OBVIOUS
<1>3. 0 \in G
  BY <1>1, <1>2
<1>4. ASSUME NEW n \in 0..(N - 1), n \in G PROVE n + 1 \in G
  <2>1. n + 1 \in 1..N /\ n + 1 \in 0..N /\ n \in 0..N
    BY <1>1
  <2> DEFINE x == Part(j[n + 1], c)
  <2>2. j[n + 1].symbol = c => j[n + 1].action \notin Opening
    BY <2>1, <1>1
  <2>3. x \in Int /\ x <= 0
    BY <2>1, <2>2, <1>1 DEF Part, Signed
  <2>4. NetTo(j, c, n + 1) = NetTo(j, c, n) + x
    BY <1>2
  <2> HIDE DEF x
  <2>5. NetTo(j, c, n) <= 0 /\ NetTo(j, c, n) \in Int
    BY <1>4, <1>2, <2>1
  <2> QED BY <2>1, <2>3, <2>4, <2>5
<1> HIDE DEF G
<1>5. 0..N \subseteq G
  BY <1>1, <1>3, <1>4, Induction
<1>6. NetTo(j, c, N) <= 0 /\ NetTo(j, c, N) \in Int
  <2>1. N \in 0..N
    BY <1>1
  <2> QED BY <2>1, <1>2, <1>5 DEF G
<1> QED BY <1>6, NetIs DEF N

\* A row that is neither an edit to nothing nor a settlement, and closes no
\* more than there is, moves the legs by what it says.
LEMMA ReapplyWorth ==
  ASSUME NEW W, NEW g, AreRows(W, g), NEW row \in W, NEW b, IsBook(b), NEW c,
         row.action \in Opening \cup {"SELL", "COVER"},
         row.action \in {"SELL", "COVER"} =>
           \E l \in DOMAIN b.legs : /\ b.legs[l].symbol = row.symbol
                                    /\ row.action = Exit(b.legs[l].side)
                                    /\ row.lots <= b.legs[l].lots
  PROVE  Worth(Reapply(b, row), c) = Worth(b, c) + Part(row, c)
<1> DEFINE d == Reapply(b, row)
<1>1. /\ row \in RowsOver(W, g) /\ (row.action # "NOOP" => row.lots > 0)
      /\ row.symbol \in Contracts /\ row.lots \in Nat /\ row.action # "NOOP"
  BY DEF AreRows, RowsOver, Opening
<1>2. \A e, s : Held(b, e, s) \in Nat
  BY HeldIs
<1>3. CASE row.action \in Opening
  <2> DEFINE side == SideOf(row.action)
  <2>1. d = Open(b, row.symbol, side, row.lots)
    BY <1>1, <1>3 DEF Reapply
  <2>2. side \in {"B", "S"} /\ row.lots \in Nat \ {0}
    BY <1>1, <1>3 DEF SideOf, Opening
  <2> HIDE DEF d, side
  <2>3. /\ Held(d, row.symbol, side) = Held(b, row.symbol, side) + row.lots
        /\ \A e, s : e # row.symbol \/ s # side => Held(d, e, s) = Held(b, e, s)
    BY <1>1, <2>1, <2>2, OpenHeld
  <2>4. Signed(row) = row.lots
    BY <1>3 DEF Signed
  <2>5. CASE row.symbol = c /\ side = "B"
    <3>1. Held(d, c, "B") = Held(b, c, "B") + row.lots /\ Held(d, c, "S") = Held(b, c, "S")
      BY <2>3, <2>5
    <3> QED BY <3>1, <2>4, <2>5, <1>1, <1>2 DEF Worth, Part, d
  <2>6. CASE row.symbol = c /\ side = "S"
    <3>1. Held(d, c, "S") = Held(b, c, "S") + row.lots /\ Held(d, c, "B") = Held(b, c, "B")
      BY <2>3, <2>6
    <3> QED BY <3>1, <2>4, <2>6, <1>1, <1>2 DEF Worth, Part, d
  <2>7. CASE row.symbol # c
    <3>1. Held(d, c, "S") = Held(b, c, "S") /\ Held(d, c, "B") = Held(b, c, "B")
      BY <2>3, <2>7
    <3> QED BY <3>1, <2>7, <1>2 DEF Worth, Part, d
  <2> QED BY <2>2, <2>5, <2>6, <2>7
<1>4. CASE row.action \notin Opening
  <2> DEFINE I == {k \in DOMAIN b.legs : /\ b.legs[k].symbol = row.symbol
                                         /\ row.action \in {"SETTLE", Exit(b.legs[k].side)}}
             i == First(I)
  <2>1. d = IF i = 0 THEN b ELSE Close(b, i, row.lots)
    BY <1>1, <1>4 DEF Reapply
  <2>2. PICK l \in DOMAIN b.legs : /\ b.legs[l].symbol = row.symbol
                                   /\ row.action = Exit(b.legs[l].side)
                                   /\ row.lots <= b.legs[l].lots
    BY <1>4
  <2>3. \A k \in DOMAIN b.legs : b.legs[k].side \in {"B", "S"} /\ b.legs[k].lots \in Nat \ {0}
    BY LegIs DEF LegSet
  <2>4. I = {l}
    <3>1. \A k, m \in DOMAIN b.legs :
            b.legs[k].symbol = b.legs[m].symbol /\ b.legs[k].side = b.legs[m].side => k = m
      BY DEF IsBook
    <3>2. row.action # "SETTLE"
      BY <1>4
    <3>3. \A k \in I : b.legs[k].side = b.legs[l].side
      BY <2>2, <2>3, <3>2 DEF Exit
    <3>4. \A k \in I : k = l
      BY <2>2, <3>1, <3>3
    <3>5. l \in I
      BY <2>2
    <3> QED BY <3>4, <3>5
  <2>5. I \in SUBSET DOMAIN b.legs
    OBVIOUS
  <2> HIDE DEF I, d
  <2>6. i = l /\ i # 0
    BY <2>4, <2>5, LegIs
  <2> HIDE DEF i
  <2> DEFINE side == b.legs[l].side
             left == b.legs[l].lots - row.lots
  <2>7. d = Close(b, l, row.lots)
    BY <2>1, <2>6
  <2>8. /\ Held(d, row.symbol, side) = IF b.legs[l].lots <= row.lots THEN 0 ELSE left
        /\ \A e, s : e # row.symbol \/ s # side => Held(d, e, s) = Held(b, e, s)
    BY <1>1, <2>2, <2>7, CloseHeld
  <2>9. Held(b, row.symbol, side) = b.legs[l].lots
    BY <2>2, HeldIs
  <2>10. Held(d, row.symbol, side) = Held(b, row.symbol, side) - row.lots
    BY <2>2, <2>3, <2>8, <2>9, <1>1
  <2>11. side \in {"B", "S"} /\ Signed(row) = -row.lots
    BY <1>4, <2>3 DEF Signed
  <2> HIDE DEF side
  <2>12. CASE row.symbol = c /\ side = "B"
    <3>1. Held(d, c, "B") = Held(b, c, "B") - row.lots /\ Held(d, c, "S") = Held(b, c, "S")
      BY <2>8, <2>10, <2>12
    <3> QED BY <3>1, <2>11, <2>12, <1>1, <1>2 DEF Worth, Part, d
  <2>13. CASE row.symbol = c /\ side = "S"
    <3>1. Held(d, c, "S") = Held(b, c, "S") - row.lots /\ Held(d, c, "B") = Held(b, c, "B")
      BY <2>8, <2>10, <2>13
    <3> QED BY <3>1, <2>11, <2>13, <1>1, <1>2 DEF Worth, Part, d
  <2>14. CASE row.symbol # c
    <3>1. Held(d, c, "S") = Held(b, c, "S") /\ Held(d, c, "B") = Held(b, c, "B")
      BY <2>8, <2>14
    <3> QED BY <3>1, <2>14, <1>2 DEF Worth, Part, d
  <2> QED BY <2>11, <2>12, <2>13, <2>14
<1> QED BY <1>3, <1>4

\* While every row counts and no close overshoots, the legs of a contract come
\* to what its rows do.
NoneOver(j) ==
  \A i \in DOMAIN j :
    j[i].action \in {"SELL", "COVER"} =>
      \E leg \in Range(Books(j)[i - 1].legs) :
        leg.symbol = j[i].symbol /\ j[i].action = Exit(leg.side) /\ j[i].lots <= leg.lots
Settled(j, c) == \E i \in DOMAIN j : j[i].symbol = c /\ j[i].action = "SETTLE"

LEMMA NothingHeld ==
  ASSUME NEW b, IsBook(b)
  PROVE  /\ \A c : Worth(b, c) \in Nat
         /\ (\A c \in Contracts : Worth(b, c) = 0) => b.legs = <<>>
<1>1. \A c, side : Held(b, c, side) \in Nat
  BY HeldIs
<1>2. \A c : Worth(b, c) \in Nat
  BY <1>1 DEF Worth
<1>3. ASSUME \A c \in Contracts : Worth(b, c) = 0 PROVE b.legs = <<>>
  <2>1. ASSUME NEW k \in DOMAIN b.legs PROVE FALSE
    <3> DEFINE c == b.legs[k].symbol
               side == b.legs[k].side
    <3>1. c \in Contracts /\ side \in {"B", "S"}
      BY LegIs DEF LegSet
    <3>2. Held(b, c, side) \in Nat \ {0}
      BY HeldIs
    <3> HIDE DEF c, side
    <3>3. Held(b, c, "B") + Held(b, c, "S") = 0
      BY <1>3, <3>1 DEF Worth
    <3>4. Held(b, c, "B") = 0 /\ Held(b, c, "S") = 0
      BY <1>1, <3>3
    <3> QED BY <3>1, <3>2, <3>4
  <2>2. b.legs \in Seq(LegSet) /\ DOMAIN b.legs = 1..Len(b.legs) /\ Len(b.legs) \in Nat
    BY LegIs DEF IsBook
  <2>3. Len(b.legs) = 0
    <3>1. Len(b.legs) # 0 => 1 \in DOMAIN b.legs
      BY <2>2
    <3>2. 1 \notin DOMAIN b.legs
      BY <2>1
    <3> QED BY <3>1, <3>2
  <2> QED BY <2>2, <2>3, EmptySeq
<1> QED BY <1>2, <1>3

LEMMA HeldIsNet ==
  ASSUME NEW g, NEW j, IsJournal(j, g), Counting(j), NoneOver(j),
         \A i \in DOMAIN j : j[i].action # "SETTLE", NEW c
  PROVE  Worth(Replay(j), c) = Net(j, c)
<1> DEFINE N == Len(j)
           f == Books(j)
           G == {n \in 0..N : Worth(f[n], c) = NetTo(j, c, n)}
<1>1. PICK W : AreRows(W, g) /\ j \in Seq(W)
  BY DEF IsJournal
<1>2. N \in Nat /\ DOMAIN j = 1..N /\ \A i \in 1..N : j[i] \in W /\ j[i].action \in RowActions
  BY <1>1, JournalIs, ElementOfSeq
<1>3. f[0] = EmptyBook /\ \A n \in 1..N : f[n] = Reapply(f[n - 1], j[n])
  BY <1>2, BooksAre
<1>4. \A n \in 0..N : IsBook(f[n]) /\ f[n].fills = n
  BY <1>1, BooksType, CountingIs
<1>5. /\ NetTo(j, c, 0) = 0
      /\ \A n \in 0..(N - 1) : NetTo(j, c, n + 1) = NetTo(j, c, n) + Part(j[n + 1], c)
  BY NetStep
<1>6. \A i \in 1..N : j[i].action \in {"SELL", "COVER"} =>
        \E k \in DOMAIN f[i - 1].legs :
          /\ f[i - 1].legs[k].symbol = j[i].symbol
          /\ j[i].action = Exit(f[i - 1].legs[k].side)
          /\ j[i].lots <= f[i - 1].legs[k].lots
  BY <1>2 DEF NoneOver, Range
<1>7. \A i \in 1..N : j[i].action # "SETTLE"
  BY <1>2
<1> HIDE DEF f, N
<1>8. 0 \in G
  <2>1. Held(EmptyBook, c, "B") = 0 /\ Held(EmptyBook, c, "S") = 0
    BY DEF Held, At, EmptyBook
  <2> QED BY <2>1, <1>2, <1>3, <1>5 DEF Worth
<1>9. ASSUME NEW n \in 0..(N - 1), n \in G PROVE n + 1 \in G
  <2> DEFINE b == f[n]
             row == j[n + 1]
  <2>1. n + 1 \in 1..N /\ (n + 1) - 1 = n /\ n + 1 \in 0..N /\ n \in 0..N /\ n + 1 # n
    BY <1>2
  <2>2. f[n + 1] = Reapply(b, row) /\ IsBook(b) /\ row \in W /\ row.action \in RowActions
    BY <1>2, <1>3, <1>4, <2>1
  <2>3. row.action # "NOOP"
    <3>1. ASSUME row.action = "NOOP" PROVE FALSE
      <4>1. f[n + 1] = b
        BY <2>2, <3>1 DEF Reapply, Opening
      <4>2. b.fills = n /\ f[n + 1].fills = n + 1
        BY <1>4, <2>1
      <4> HIDE DEF b
      <4> QED BY <2>1, <4>1, <4>2
    <3> QED BY <3>1
  <2>4. row.action # "SETTLE"
    BY <1>7, <2>1
  <2>5. row.action \in {"SELL", "COVER"} =>
          \E l \in DOMAIN b.legs : /\ b.legs[l].symbol = row.symbol
                                   /\ row.action = Exit(b.legs[l].side)
                                   /\ row.lots <= b.legs[l].lots
    BY <1>6, <2>1
  <2>6. row.action \in Opening \cup {"SELL", "COVER"}
    BY <2>2, <2>3, <2>4 DEF RowActions, Opening
  <2>7. Worth(b, c) = NetTo(j, c, n) /\ NetTo(j, c, n + 1) = NetTo(j, c, n) + Part(row, c)
    BY <1>5, <1>9
  <2> HIDE DEF b, row
  <2>8. Worth(Reapply(b, row), c) = Worth(b, c) + Part(row, c)
    BY <1>1, <2>2, <2>5, <2>6, ReapplyWorth DEF Part
  <2>9. Worth(f[n + 1], c) = NetTo(j, c, n + 1)
    BY <2>2, <2>7, <2>8
  <2> QED BY <2>1, <2>9
<1> HIDE DEF G
<1>10. 0..N \subseteq G
  BY <1>2, <1>8, <1>9, Induction
<1>11. N \in 0..N
  BY <1>2
<1>12. Worth(f[N], c) = NetTo(j, c, N)
  BY <1>10, <1>11 DEF G
<1> QED BY <1>12, NetIs DEF Replay, f, N

\* A settlement of what a one-sided contract comes to leaves nothing of it.
LEMMA SettlementEmpties ==
  ASSUME NEW b, IsBook(b), NEW row, row.action = "SETTLE", NEW c, row.symbol = c,
         row.lots = Worth(b, c), Worth(b, c) > 0,
         Held(b, c, "B") = 0 \/ Held(b, c, "S") = 0
  PROVE  /\ Worth(Reapply(b, row), c) = 0
         /\ \A e, s : e # c => Held(Reapply(b, row), e, s) = Held(b, e, s)
<1> DEFINE d == Reapply(b, row)
           I == {k \in DOMAIN b.legs : /\ b.legs[k].symbol = row.symbol
                                       /\ row.action \in {"SETTLE", Exit(b.legs[k].side)}}
           i == First(I)
<1>1. \A e, s : Held(b, e, s) \in Nat /\ (Held(b, e, s) = 0 <=> At(b, e, s) = {})
  BY HeldIs
<1>2. PICK side \in {"B", "S"} : /\ Held(b, c, side) = Worth(b, c)
                                 /\ \A s \in {"B", "S"} : s # side => Held(b, c, s) = 0
  <2>1. Held(b, c, "B") \in Nat /\ Held(b, c, "S") \in Nat
    BY <1>1
  <2>2. CASE Held(b, c, "B") = 0
    <3>1. Held(b, c, "S") = Worth(b, c)
      BY <2>1, <2>2 DEF Worth
    <3> QED BY <2>2, <3>1
  <2>3. CASE Held(b, c, "S") = 0
    <3>1. Held(b, c, "B") = Worth(b, c)
      BY <2>1, <2>3 DEF Worth
    <3> QED BY <2>3, <3>1
  <2> QED BY <2>2, <2>3
<1>3. d = IF i = 0 THEN b ELSE Close(b, i, row.lots)
  BY DEF Reapply, Opening
<1>4. Worth(b, c) \in Nat
  BY <1>1 DEF Worth
<1>5. \A k \in DOMAIN b.legs : b.legs[k].side \in {"B", "S"}
  BY LegIs DEF LegSet
<1>6. I = At(b, c, side)
  <2>1. I = {k \in DOMAIN b.legs : b.legs[k].symbol = c}
    OBVIOUS
  <2>2. \A s \in {"B", "S"} : s # side => At(b, c, s) = {}
    BY <1>1, <1>2
  <2>3. \A k \in DOMAIN b.legs : b.legs[k].symbol = c => k \in At(b, c, b.legs[k].side)
    BY DEF At
  <2>4. \A k \in DOMAIN b.legs : b.legs[k].symbol = c => b.legs[k].side = side
    BY <1>5, <2>2, <2>3
  <2> QED BY <2>1, <2>4 DEF At
<1>7. I # {} /\ I \in SUBSET DOMAIN b.legs
  <2>1. Held(b, c, side) # 0
    BY <1>2, <1>4
  <2> QED BY <2>1, <1>1, <1>6
<1> HIDE DEF I, d
<1>8. i # 0 /\ i \in At(b, c, side) /\ i \in DOMAIN b.legs
  BY <1>6, <1>7, LegIs
<1> HIDE DEF i
<1>9. b.legs[i].symbol = c /\ b.legs[i].side = side
  BY <1>8 DEF At
<1>10. b.legs[i].lots = Worth(b, c)
  BY <1>2, <1>8, <1>9, HeldIs
<1>11. d = Close(b, i, Worth(b, c))
  BY <1>3, <1>8
<1>12. /\ Held(d, c, side) = IF b.legs[i].lots <= Worth(b, c) THEN 0
                             ELSE b.legs[i].lots - Worth(b, c)
       /\ \A e, s : e # c \/ s # side => Held(d, e, s) = Held(b, e, s)
  BY <1>4, <1>8, <1>9, <1>11, CloseHeld
<1>13. Held(d, c, side) = 0
  BY <1>4, <1>10, <1>12
<1>14. Held(d, c, "B") = 0 /\ Held(d, c, "S") = 0
  BY <1>2, <1>12, <1>13
<1> QED BY <1>12, <1>14 DEF Worth, d

\* Once all contracts have been looked at, each is settled or comes to nothing.
LEMMA SettlementsEmpty ==
  ASSUME NEW g \in Nat, NEW o, IsJournal(o, g), ByExpiry(o),
         \A i \in DOMAIN o : o[i].action # "SETTLE",
         \A c \in Contracts : /\ Worth(Replay(o), c) = Net(o, c)
                              /\ Held(Replay(o), c, "B") = 0 \/ Held(Replay(o), c, "S") = 0
  PROVE  Replay(Settlements(o, Opens(o))[Len(Opens(o))]).legs = <<>>
<1> DEFINE rows == Opens(o)
           s == Settlements(o, rows)
           N == Len(rows)
           Same(j, c) == /\ Net(j, c) = Net(o, c)
                         /\ Held(Replay(j), c, "B") = Held(Replay(o), c, "B")
                         /\ Held(Replay(j), c, "S") = Held(Replay(o), c, "S")
           Done(j, c) == Settled(j, c) \/ Net(o, c) <= 0
           G == {n \in 0..N :
                   /\ \A i \in DOMAIN s[n] : s[n][i].at <= ExpiryAt
                   /\ \A c \in Contracts :
                        IF Settled(s[n], c) THEN Worth(Replay(s[n]), c) = 0 ELSE Same(s[n], c)
                   /\ \A k \in 1..n : Done(s[n], rows[k].symbol)}
<1>1. /\ N \in Nat /\ (\A n \in 1..N : rows[n].symbol \in Contracts)
      /\ \A n \in 0..N : IsJournal(s[n], g)
  BY SettledJournal
<1>2. \A i \in DOMAIN o : o[i].action \in Opening => \E k \in 1..N : rows[k] = o[i]
  <2> DEFINE I == {i \in DOMAIN o : o[i].action \in Opening}
  <2>1. PICK W : o \in Seq(W)
    BY DEF IsJournal
  <2>2. I \in SUBSET DOMAIN o /\ rows = Pick(o, I)
    BY DEF Opens
  <2> HIDE DEF I, rows
  <2>3. /\ Len(rows) = Cardinality(I)
        /\ \A i \in I : \E k \in 1..Cardinality(I) : rows[k] = o[i]
    BY <2>1, <2>2, PickIs
  <2> QED BY <2>3 DEF I
<1> HIDE DEF rows
<1>3. s[0] = o /\ \A n \in 1..N : s[n] = Settle(s[n - 1], rows[n].symbol)
  BY <1>1, SettledIs
<1>4. \A c : Net(o, c) \in Int
  BY NetType
<1> HIDE DEF s, N
<1>5. 0 \in G
  <2>1. \A i \in DOMAIN o : o[i].at <= ExpiryAt
    <3> SUFFICES ASSUME NEW i \in DOMAIN o PROVE o[i].at <= ExpiryAt
      OBVIOUS
    <3>1. o[i].at \in Nat /\ ExpiryAt \in Nat /\ o[i].at < ExpiryAt
      BY JournalIs, MinutesAreInt DEF ByExpiry
    <3> QED BY <3>1
  <2>2. \A c \in Contracts : ~Settled(o, c)
    BY DEF Settled
  <2>3. 0 \in 0..N /\ 1..0 = {}
    BY <1>1
  <2> QED BY <2>1, <2>2, <2>3, <1>3
<1>6. ASSUME NEW n \in 0..(N - 1), n \in G PROVE n + 1 \in G
  <2> DEFINE a == s[n]
             b == s[n + 1]
             c == rows[n + 1].symbol
  <2>1. /\ n + 1 \in 1..N /\ (n + 1) - 1 = n /\ n + 1 \in 0..N /\ n \in 0..N
        /\ \A k \in 1..(n + 1) : k \in 1..n \/ k = n + 1
    BY <1>1
  <2>2. b = Settle(a, c) /\ c \in Contracts /\ IsJournal(a, g) /\ IsJournal(b, g)
    BY <1>1, <1>3, <2>1
  <2>3. /\ \A i \in DOMAIN a : a[i].at <= ExpiryAt
        /\ \A e \in Contracts : IF Settled(a, e) THEN Worth(Replay(a), e) = 0 ELSE Same(a, e)
        /\ \A k \in 1..n : Done(a, rows[k].symbol)
    BY <1>6
  <2> SUFFICES /\ \A i \in DOMAIN b : b[i].at <= ExpiryAt
               /\ \A e \in Contracts : IF Settled(b, e) THEN Worth(Replay(b), e) = 0 ELSE Same(b, e)
               /\ \A k \in 1..(n + 1) : Done(b, rows[k].symbol)
    BY <2>1
  <2> HIDE DEF a, b
  <2>4. CASE b = a
    <3>1. Done(a, c)
      <4>1. CASE Settled(a, c)
        BY <4>1
      <4>2. CASE ~Settled(a, c)
        <5>1. Net(a, c) <= 0
          <6> SUFFICES ASSUME ~(Net(a, c) <= 0) PROVE FALSE
            OBVIOUS
          <6>1. b = Insert(a, Row(ExpiryAt, c, "SETTLE", 0, Net(a, c), <<>>))
            BY <2>2, <4>2 DEF Settle, Settled
          <6> DEFINE row == Row(ExpiryAt, c, "SETTLE", 0, Net(a, c), <<>>)
          <6>2. row.at \in Int
            BY MinutesAreInt DEF Row
          <6> HIDE DEF row
          <6>3. Len(Insert(a, row)) = Len(a) + 1 /\ Len(a) \in Nat
            BY <2>2, <6>2, InsertKeeps, JournalIs
          <6>4. Len(b) = Len(a) + 1
            BY <6>1, <6>3 DEF row
          <6> QED BY <2>4, <6>3, <6>4
        <5>2. Same(a, c)
          BY <2>2, <2>3, <4>2
        <5> QED BY <5>1, <5>2
      <4> QED BY <4>1, <4>2
    <3> HIDE DEF Done, Same
    <3> QED BY <2>1, <2>3, <2>4, <3>1
  <2>5. CASE b # a
    <3> DEFINE row == Row(ExpiryAt, c, "SETTLE", 0, Net(a, c), <<>>)
               M == Len(a)
               x == Replay(a)
               y == Replay(b)
    <3> HIDE DEF c
    <3>1. ~Settled(a, c) /\ ~(Net(a, c) <= 0)
      BY <2>2, <2>5 DEF Settle, Settled
    <3>2. /\ Len(b) = M + 1 /\ (\A i \in 1..M : b[i] = a[i]) /\ b[M + 1] = row
          /\ \A i \in DOMAIN b : b[i].at <= ExpiryAt
      <4>1. Settle(a, c) # a
        BY <2>2, <2>5
      <4> QED BY <2>2, <2>3, <4>1, SettleAppends
    <3>3. /\ row.symbol = c /\ row.action = "SETTLE" /\ row.lots = Net(a, c)
      BY DEF Row
    <3>4. M \in Nat /\ DOMAIN a = 1..M /\ DOMAIN b = 1..(M + 1) /\ Len(b) \in Nat
      BY <2>2, <3>2, JournalIs
    <3> HIDE DEF row, M
    <3>5. Extends(a, b)
      BY <3>2, <3>4 DEF Extends, M
    <3>6. y = Reapply(x, row)
      <4>1. \A k \in 0..M : Books(a)[k] = Books(b)[k]
        <5>1. Len(a) \in Nat /\ Len(b) \in Nat /\ M \in Nat /\ M <= Len(a) /\ M <= Len(b)
          BY <3>2, <3>4 DEF M
        <5>2. \A i \in 1..M : a[i] = b[i]
          BY <3>2
        <5> QED BY <5>1, <5>2, BooksAgree
      <4>2. M + 1 \in 1..Len(b) /\ (M + 1) - 1 = M /\ M \in 0..M
        BY <3>2, <3>4
      <4>3. Books(b)[M + 1] = Reapply(Books(b)[(M + 1) - 1], b[M + 1])
        BY <3>4, <4>2, BooksAre
      <4> QED BY <3>2, <4>1, <4>2, <4>3 DEF Replay, M
    <3>7. IsBook(x)
      BY <2>2, ReplayType
    <3>8. Same(a, c)
      BY <2>2, <2>3, <3>1
    <3>9. Worth(x, c) = Net(a, c) /\ Worth(x, c) > 0 /\ (Held(x, c, "B") = 0 \/ Held(x, c, "S") = 0)
      <4>1. Worth(x, c) = Worth(Replay(o), c)
        BY <3>8 DEF Worth
      <4>2. Worth(x, c) = Net(a, c)
        BY <2>2, <3>8, <4>1
      <4>3. Net(a, c) > 0
        BY <1>4, <3>1, <3>8
      <4> QED BY <2>2, <3>8, <4>2, <4>3
    <3> HIDE DEF x, y
    <3>10. /\ Worth(y, c) = 0
           /\ \A e, t : e # c => Held(y, e, t) = Held(x, e, t)
      BY <3>3, <3>6, <3>7, <3>9, SettlementEmpties
    <3>11. \A e : Settled(b, e) <=> Settled(a, e) \/ e = c
      <4>1. \A i \in 1..(M + 1) : i \in 1..M \/ i = M + 1
        BY <3>4
      <4>2. \A i \in 1..M : i \in 1..(M + 1)
        BY <3>4
      <4>3. M + 1 \in 1..(M + 1)
        BY <3>4
      <4> QED BY <3>2, <3>3, <3>4, <4>1, <4>2, <4>3 DEF Settled
    <3>12. \A e : e # c => Net(b, e) = Net(a, e)
      <4> SUFFICES ASSUME NEW e, e # c PROVE Net(b, e) = Net(a, e)
        OBVIOUS
      <4>1. NetTo(b, e, M) = NetTo(a, e, M)
        BY <2>2, <3>5, NetAgrees DEF M
      <4>2. M \in 0..(Len(b) - 1) /\ M \in 0..Len(b)
        BY <3>2, <3>4
      <4>3. NetTo(b, e, M + 1) = NetTo(b, e, M) + Part(b[M + 1], e) /\ NetTo(b, e, M) \in Int
        BY <2>2, <4>2, NetStep
      <4>4. Part(b[M + 1], e) = 0
        BY <3>2, <3>3 DEF Part
      <4>5. Net(b, e) = NetTo(b, e, M + 1) /\ Net(a, e) = NetTo(a, e, M)
        BY <2>2, <3>2, NetIs DEF M
      <4> QED BY <4>1, <4>3, <4>4, <4>5
    <3>13. ASSUME NEW e \in Contracts
           PROVE  IF Settled(b, e) THEN Worth(y, e) = 0 ELSE Same(b, e)
      <4>1. CASE e = c
        BY <3>10, <3>11, <4>1
      <4>2. CASE e # c
        <5>1. Held(y, e, "B") = Held(x, e, "B") /\ Held(y, e, "S") = Held(x, e, "S")
          BY <3>10, <4>2
        <5>2. Worth(y, e) = Worth(x, e)
          BY <5>1 DEF Worth
        <5>3. CASE Settled(a, e)
          BY <2>3, <3>11, <5>2, <5>3 DEF x
        <5>4. CASE ~Settled(a, e)
          <6>1. Same(a, e) /\ ~Settled(b, e)
            BY <2>3, <3>11, <4>2, <5>4
          <6>2. Same(b, e)
            BY <6>1, <3>12, <4>2, <5>1 DEF x, y
          <6> QED BY <6>1, <6>2
        <5> QED BY <5>3, <5>4
      <4> QED BY <4>1, <4>2
    <3>14. ASSUME NEW k \in 1..(n + 1) PROVE Done(b, rows[k].symbol)
      <4>1. CASE k \in 1..n
        BY <2>3, <3>11, <4>1
      <4>2. CASE k = n + 1
        BY <3>11, <4>2 DEF c
      <4> QED BY <2>1, <4>1, <4>2
    <3> HIDE DEF Done, Same
    <3> QED BY <3>2, <3>13, <3>14 DEF y
  <2> QED BY <2>4, <2>5
<1> DEFINE j == s[N]
<1>7. /\ \A c \in Contracts : IF Settled(j, c) THEN Worth(Replay(j), c) = 0 ELSE Same(j, c)
      /\ \A k \in 1..N : Done(j, rows[k].symbol)
  <2> HIDE DEF G
  <2>1. 0..N \subseteq G
    BY <1>1, <1>5, <1>6, Induction
  <2>2. N \in 0..N
    BY <1>1
  <2>3. N \in G
    BY <2>1, <2>2
  <2> HIDE DEF Same, Done
  <2> QED BY <2>3 DEF G
<1>8. IsBook(Replay(j))
  <2>1. N \in 0..N
    BY <1>1
  <2> QED BY <2>1, <1>1, ReplayType
<1> HIDE DEF j
<1>9. ASSUME NEW c \in Contracts PROVE Worth(Replay(j), c) = 0
  <2>1. CASE Settled(j, c)
    BY <1>7, <2>1
  <2>2. CASE ~Settled(j, c)
    <3>1. Same(j, c)
      BY <1>7, <2>2
    <3>2. Worth(Replay(j), c) = Net(o, c)
      BY <3>1 DEF Worth
    <3>3. Worth(Replay(j), c) \in Nat
      BY <1>8, NothingHeld
    <3>4. ASSUME Net(o, c) > 0 PROVE FALSE
      <4>1. PICK i \in DOMAIN o : o[i].symbol = c /\ o[i].action \in Opening
        BY <3>4, NetPositive
      <4>2. PICK k \in 1..N : rows[k] = o[i]
        BY <1>2, <4>1
      <4>3. Done(j, c)
        BY <1>7, <4>1, <4>2
      <4> QED BY <2>2, <3>4, <4>3, <1>4
    <3> QED BY <3>2, <3>3, <3>4
  <2> QED BY <2>1, <2>2
<1>10. Replay(j).legs = <<>>
  BY <1>8, <1>9, NothingHeld
<1> QED BY <1>10 DEF j, s, rows, N

\* At the last row's minute the whole journal counts.
LEMMA WholeReplay ==
  ASSUME NEW g, NEW j, IsJournal(j, g), NEW m \in Int, \A i \in DOMAIN j : j[i].at <= m
  PROVE  Replay(Kept(j, m)) = Replay(j)
<1> DEFINE p == Upto(j, m)
           N == Len(j)
<1>1. PICK W : j \in Seq(W) /\ Sorted(j)
  BY DEF IsJournal
<1>2. N \in Nat /\ DOMAIN j = 1..N /\ \A i \in DOMAIN j : j[i].at \in Int
  BY JournalIs
<1>3. p \in 0..N /\ \A i \in DOMAIN j : j[i].at <= m <=> i <= p
  BY <1>1, <1>2, UptoIs
<1> HIDE DEF p, N
<1>4. p = N
  <2>1. CASE N = 0
    BY <2>1, <1>3
  <2>2. CASE N # 0
    <3>1. N \in DOMAIN j
      BY <1>2, <2>2
    <3>2. N <= p
      BY <3>1, <1>3
    <3> QED BY <3>2, <1>2, <1>3
  <2> QED BY <2>1, <2>2
<1> QED BY <1>4, KeptReplay DEF Replay, p, N

LEMMA ExpiryInv == TypeInv /\ RewindUnwinds => NothingOutlivesExpiry
<1> SUFFICES ASSUME TypeInv, RewindUnwinds, EveryRowCounts, NoneOvershoots, InHours, OneSided,
                    SettledAfresh, clock >= Overnight
             PROVE  book.legs = <<>>
  BY DEF NothingOutlivesExpiry
<1> DEFINE o == Owners
           x == Replay(o)
           I == {i \in DOMAIN journal : journal[i].action # "SETTLE"}
<1>1. IsJournal(journal, group) /\ group \in Nat /\ clock \in Int
  BY MinutesAreInt DEF TypeInv
<1>2. ByExpiry(journal)
  BY <1>1, HoursAre
<1>3. IsJournal(o, group) /\ \A k \in DOMAIN o : \E i \in I : o[k] = journal[i]
  <2>1. PICK W : journal \in Seq(W)
    BY <1>1 DEF IsJournal
  <2>2. I \in SUBSET DOMAIN journal /\ o = Pick(journal, I)
    BY DEF Owners
  <2> HIDE DEF I, o
  <2>3. /\ DOMAIN o = 1..Cardinality(I)
        /\ \A k \in 1..Cardinality(I) : Nth(I, k) \in I /\ o[k] = journal[Nth(I, k)]
    BY <2>1, <2>2, PickIs
  <2> QED BY <1>1, <2>2, <2>3, PickJournal
<1>4. ByExpiry(o) /\ \A k \in DOMAIN o : o[k].action # "SETTLE"
  BY <1>2, <1>3 DEF ByExpiry
<1>5. NoneOver(o)
  BY DEF NoneOvershoots, NoneOver
<1>6. SettleExpired(o, clock) = journal
  BY DEF SettledAfresh
<1>7. \A i, k \in DOMAIN x.legs : x.legs[i].symbol = x.legs[k].symbol => i = k
  BY DEF OneSided
<1> HIDE DEF o
<1>8. Counting(o)
  <2>1. Extends(o, journal)
    BY <1>1, <1>3, <1>4, <1>6, SettledExtends
  <2>2. Counting(journal)
    BY DEF EveryRowCounts, Counting
  <2> QED BY <2>1, <2>2, <1>1, <1>3, CountingExtends
<1>9. IsBook(x)
  BY <1>3, ReplayType
<1>10. \A c \in Contracts : Worth(x, c) = Net(o, c)
  BY <1>3, <1>4, <1>5, <1>8, HeldIsNet
<1> HIDE DEF x
<1>11. \A c \in Contracts : Held(x, c, "B") = 0 \/ Held(x, c, "S") = 0
  <2> SUFFICES ASSUME NEW c \in Contracts, Held(x, c, "B") # 0, Held(x, c, "S") # 0
               PROVE  FALSE
    OBVIOUS
  <2>1. At(x, c, "B") # {} /\ At(x, c, "S") # {}
    BY <1>9, HeldIs
  <2>2. PICK i \in At(x, c, "B"), k \in At(x, c, "S") : TRUE
    BY <2>1
  <2> QED BY <2>2, <1>7 DEF At
<1>12. /\ ExpiryDay \in Nat /\ ExpiryAt \in Nat /\ Overnight \in Nat
       /\ ExpiryDay <= ExpiryAt /\ ExpiryAt < Overnight
  BY JournalAssumption
<1>13. journal = Settlements(o, Opens(o))[Len(Opens(o))]
  <2>1. ~(clock < ExpiryDay)
    BY <1>1, <1>12
  <2> QED BY <2>1, <1>6 DEF SettleExpired
<1>14. Replay(journal).legs = <<>>
  BY <1>1, <1>3, <1>4, <1>10, <1>11, <1>13, SettlementsEmpty DEF x
<1>15. \A i \in DOMAIN journal : journal[i].at <= clock
  <2> SUFFICES ASSUME NEW i \in DOMAIN journal PROVE journal[i].at <= clock
    OBVIOUS
  <2>1. journal[i].at \in Nat /\ (journal[i].action = "SETTLE" => journal[i].at = ExpiryAt)
    BY <1>1, JournalIs
  <2>2. journal[i].action # "SETTLE" => journal[i].at < ExpiryAt
    BY <1>2 DEF ByExpiry
  <2> QED BY <2>1, <2>2, <1>1, <1>12
<1>16. book = Replay(Kept(journal, clock))
  BY DEF RewindUnwinds
<1>17. Replay(Kept(journal, clock)) = Replay(journal)
  BY <1>1, <1>15, WholeReplay
<1> QED BY <1>14, <1>16, <1>17

\* No leg is alive the day after its expiry, whichever way the cursor came
\* there and whatever was traded since (_settle_expired).
THEOREM ExpiryEndsAll == Spec => []NothingOutlivesExpiry
<1>1. Init => TypeInv /\ RewindUnwinds
  BY TypeInit, RewindInit
<1>2. (TypeInv /\ RewindUnwinds) /\ [Next]_vars => (TypeInv /\ RewindUnwinds)'
  BY TypeNext, RewindNext
<1> QED BY <1>1, <1>2, ExpiryInv, PTL DEF Spec
=============================================================================
