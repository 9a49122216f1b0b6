------------------------------- MODULE Recursion -------------------------------
(***************************************************************************)
(* Recursion over the numbers up to N, as the recursive functions of the   *)
(* models use it: it has a solution, and an invariant of its steps holds   *)
(* of all its values.  On that, sums; and sorting as the models do it, by  *)
(* how many come earlier.                                                  *)
(***************************************************************************)
EXTENDS Integers, Sequences, FiniteSetTheorems, WellFoundedInduction, TLAPS

\* Induction over the numbers up to N: what holds of 0, and of n whenever it holds
\* of n - 1, holds of them all.
LEMMA IntervalInduction ==
  ASSUME NEW N \in Nat, NEW T,
         0 \in T,
         \A n \in 1 .. N : n - 1 \in T => n \in T
  PROVE  \A n \in 0 .. N : n \in T
<1>. DEFINE Missing == {n \in 0 .. N : n \notin T}
            R == {p \in Nat \X Nat : p[1] < p[2]}
<1>1. SUFFICES ASSUME Missing # {} PROVE FALSE
  OBVIOUS
<1>2. IsWellFoundedOn(R, Nat)
  BY NatLessThanWellFounded DEF OpToRel
<1>3. Missing \subseteq Nat
  OBVIOUS
<1>4. PICK x \in Missing : \A y \in Missing : ~(<<y, x>> \in R)
  <2>. HIDE DEF R, Missing
  <2>. QED BY <1>1, <1>2, <1>3, WFMin
<1>5. x \in 1 .. N /\ x - 1 \in 0 .. N /\ x - 1 \in Nat /\ x \in Nat
  OBVIOUS
<1>6. x - 1 \in Missing
  BY <1>5
<1>7. x - 1 < x
  BY <1>5
<1>8. <<x - 1, x>> \in R
  BY <1>5, <1>7
<1>. QED BY <1>4, <1>6, <1>8

\* f starts at base and goes on by step, through values in S.
Iterates(f, N, S, base, step) ==
  /\ f \in [0 .. N -> S]
  /\ f[0] = base
  /\ \A n \in 1 .. N : f[n - 1] \in S /\ f[n] = step[n][f[n - 1]]

\* A recursion over the numbers up to N has a solution.
LEMMA RecursionExists ==
  ASSUME NEW N \in Nat, NEW S, NEW base \in S, NEW step \in [1 .. N -> [S -> S]]
  PROVE  \E g : Iterates(g, N, S, base, step)
<1>. DEFINE Begins(g, k) == g[0] = base /\ \A n \in 1 .. k : g[n] = step[n][g[n - 1]]
            T == {k \in 0 .. N : \E g \in [0 .. k -> S] : Begins(g, k)}
<1>1. 0 \in T
  <2>. DEFINE g == [n \in 0 .. 0 |-> base]
  <2>1. g \in [0 .. 0 -> S] /\ Begins(g, 0)
    OBVIOUS
  <2>2. \E f \in [0 .. 0 -> S] : Begins(f, 0)
    <3>. HIDE DEF g, Begins
    <3>. QED BY <2>1
  <2>. QED BY <2>2
<1>2. ASSUME NEW n \in 1 .. N, n - 1 \in T PROVE n \in T
  <2>1. PICK g \in [0 .. n - 1 -> S] : Begins(g, n - 1)
    BY <1>2
  <2>. DEFINE h == [m \in 0 .. n |-> IF m = n THEN step[n][g[n - 1]] ELSE g[m]]
  <2>2. g[n - 1] \in S
    OBVIOUS
  <2>3. step[n][g[n - 1]] \in S
    BY <2>2
  <2>4. h \in [0 .. n -> S]
    BY <2>3
  <2>5. h[0] = base
    BY <2>1
  <2>6. ASSUME NEW m \in 1 .. n PROVE h[m] = step[m][h[m - 1]]
    <3>1. CASE m = n
      <4>1. h[m] = step[n][g[n - 1]] /\ h[m - 1] = g[n - 1]
        BY <3>1
      <4>. QED BY <3>1, <4>1
    <3>2. CASE m \in 1 .. n - 1
      <4>1. h[m] = g[m] /\ h[m - 1] = g[m - 1]
        BY <3>2
      <4>2. g[m] = step[m][g[m - 1]]
        BY <2>1, <3>2
      <4>. QED BY <4>1, <4>2
    <3>. QED BY <3>1, <3>2
  <2>. HIDE DEF h
  <2>. QED BY <2>4, <2>5, <2>6
<1>3. \A n \in 0 .. N : n \in T
  <2>. HIDE DEF T
  <2>. QED BY <1>1, <1>2, IntervalInduction
<1>4. PICK g \in [0 .. N -> S] : Begins(g, N)
  BY <1>3
<1>5. \A n \in 1 .. N : g[n - 1] \in S
  OBVIOUS
<1>6. Iterates(g, N, S, base, step)
  BY <1>4, <1>5 DEF Iterates
<1>. QED BY <1>6

\* The values of a recursion stay in the set its steps stay in.
LEMMA RecursionTyped ==
  ASSUME NEW N \in Nat, NEW S, NEW f,
         f[0] \in S,
         \A n \in 1 .. N : f[n - 1] \in S => f[n] \in S
  PROVE  \A n \in 0 .. N : f[n] \in S
<1>. DEFINE T == {n \in 0 .. N : f[n] \in S}
<1>1. 0 \in T
  OBVIOUS
<1>2. ASSUME NEW n \in 1 .. N, n - 1 \in T PROVE n \in T
  BY <1>2
<1>3. \A n \in 0 .. N : n \in T
  <2>. HIDE DEF T
  <2>. QED BY <1>1, <1>2, IntervalInduction
<1>. QED BY <1>3

\* step takes the values of one set of inv to the next.
Advances(N, inv, step) == \A n \in 1 .. N : \A x \in inv[n - 1] : step[n][x] \in inv[n]

\* f starts at base and goes on by step, through the sets of inv.
Guided(f, N, S, inv, base, step) ==
  /\ f \in [0 .. N -> S]
  /\ f[0] = base
  /\ \A n \in 1 .. N : f[n - 1] \in inv[n - 1] /\ f[n] = step[n][f[n - 1]]

\* A recursion whose step is only known to work on the values that satisfy an
\* invariant of their index has a solution, and it satisfies the invariant.
LEMMA GuidedRecursion ==
  ASSUME NEW N \in Nat, NEW S, NEW inv \in [0 .. N -> SUBSET S], NEW base, NEW step,
         base \in inv[0], Advances(N, inv, step)
  PROVE  \E g : Guided(g, N, S, inv, base, step)
<1>. DEFINE Begins(g, k) == /\ g[0] = base
                            /\ \A n \in 1 .. k : g[n] = step[n][g[n - 1]]
                            /\ \A n \in 0 .. k : g[n] \in inv[n]
            T == {k \in 0 .. N : \E g \in [0 .. k -> S] : Begins(g, k)}
<1>0. \A n \in 0 .. N : inv[n] \subseteq S
  OBVIOUS
<1>1. 0 \in T
  <2>. DEFINE g == [n \in 0 .. 0 |-> base]
  <2>1. g \in [0 .. 0 -> S] /\ Begins(g, 0)
    BY <1>0
  <2>2. \E f \in [0 .. 0 -> S] : Begins(f, 0)
    <3>. HIDE DEF g, Begins
    <3>. QED BY <2>1
  <2>. QED BY <2>2
<1>2. ASSUME NEW n \in 1 .. N, n - 1 \in T PROVE n \in T
  <2>1. PICK g \in [0 .. n - 1 -> S] : Begins(g, n - 1)
    BY <1>2
  <2>. DEFINE h == [m \in 0 .. n |-> IF m = n THEN step[n][g[n - 1]] ELSE g[m]]
  <2>2. g[n - 1] \in inv[n - 1]
    BY <2>1
  <2>3. step[n][g[n - 1]] \in inv[n]
    BY <2>2 DEF Advances
  <2>4. h \in [0 .. n -> S]
    BY <1>0, <2>3
  <2>5. h[0] = base
    BY <2>1
  <2>6. ASSUME NEW m \in 1 .. n PROVE h[m] = step[m][h[m - 1]]
    <3>1. CASE m = n
      <4>1. h[m] = step[n][g[n - 1]] /\ h[m - 1] = g[n - 1]
        BY <3>1
      <4>. QED BY <3>1, <4>1
    <3>2. CASE m \in 1 .. n - 1
      <4>1. h[m] = g[m] /\ h[m - 1] = g[m - 1]
        BY <3>2
      <4>2. g[m] = step[m][g[m - 1]]
        BY <2>1, <3>2
      <4>. QED BY <4>1, <4>2
    <3>. QED BY <3>1, <3>2
  <2>7. \A m \in 0 .. n : h[m] \in inv[m]
    BY <2>1, <2>3
  <2>. HIDE DEF h
  <2>. QED BY <2>4, <2>5, <2>6, <2>7
<1>3. \A n \in 0 .. N : n \in T
  <2>. HIDE DEF T
  <2>. QED BY <1>1, <1>2, IntervalInduction
<1>4. PICK g \in [0 .. N -> S] : Begins(g, N)
  BY <1>3
<1>. QED BY <1>4 DEF Guided

\* Such an invariant holds of every value of the recursion.
LEMMA GuidedInduction ==
  ASSUME NEW N \in Nat, NEW inv, NEW f,
         f[0] \in inv[0],
         \A n \in 1 .. N : f[n - 1] \in inv[n - 1] => f[n] \in inv[n]
  PROVE  \A n \in 0 .. N : f[n] \in inv[n]
<1>. DEFINE T == {n \in 0 .. N : f[n] \in inv[n]}
<1>1. 0 \in T
  OBVIOUS
<1>2. ASSUME NEW n \in 1 .. N, n - 1 \in T PROVE n \in T
  BY <1>2
<1>3. \A n \in 0 .. N : n \in T
  <2>. HIDE DEF T
  <2>. QED BY <1>1, <1>2, IntervalInduction
<1>. QED BY <1>3

-----------------------------------------------------------------------------
(* Sums. *)

\* g is the running sum of the numbers parts.
Sums(parts, g) ==
  /\ g \in [0 .. Len(parts) -> Int]
  /\ g[0] = 0
  /\ \A n \in 1 .. Len(parts) : g[n] = g[n - 1] + parts[n]

\* The recursion the models sum a sequence with.
SumUpTo(parts) == CHOOSE g : g = [n \in 0 .. Len(parts) |-> IF n = 0 THEN 0 ELSE g[n - 1] + parts[n]]

\* It has the running sums as its values.
LEMMA SumsUp ==
  ASSUME NEW parts \in Seq(Int)
  PROVE  Sums(parts, SumUpTo(parts))
<1>. DEFINE N == Len(parts)
            step == [n \in 1 .. N |-> [x \in Int |-> x + parts[n]]]
            Body(g) == [n \in 0 .. N |-> IF n = 0 THEN 0 ELSE g[n - 1] + parts[n]]
            sum == SumUpTo(parts)
<1>1. N \in Nat /\ 0 \in Int /\ \A n \in 1 .. N : parts[n] \in Int
  OBVIOUS
<1>2. step \in [1 .. N -> [Int -> Int]]
  BY <1>1
<1>3. PICK g : Iterates(g, N, Int, 0, step)
  <2>. HIDE DEF N, step
  <2>. QED BY <1>1, <1>2, RecursionExists, Zenon
<1>4. sum = CHOOSE h : h = Body(h)
  BY DEF SumUpTo
<1>. HIDE DEF N, sum
<1>5. \A n \in 1 .. N : g[n] = g[n - 1] + parts[n]
  <2>1. \A n \in 1 .. N : \A x \in Int : step[n][x] = x + parts[n]
    OBVIOUS
  <2>. HIDE DEF step
  <2>. QED BY <1>3, <2>1 DEF Iterates
<1>6. g = Body(g)
  BY <1>1, <1>3, <1>5 DEF Iterates
<1>7. sum = Body(sum)
  <2>. HIDE DEF Body
  <2>. QED BY <1>4, <1>6
<1>8. sum[0] = 0 /\ \A n \in 1 .. N : sum[n] = sum[n - 1] + parts[n]
  BY <1>1, <1>7
<1>9. \A n \in 0 .. N : sum[n] \in Int
  <2>1. sum[0] \in Int
    BY <1>8
  <2>2. \A n \in 1 .. N : sum[n - 1] \in Int => sum[n] \in Int
    BY <1>1, <1>8
  <2>. QED BY <1>1, <2>1, <2>2, RecursionTyped, Zenon
<1>10. sum \in [0 .. N -> Int]
  BY <1>7, <1>9
<1>. QED BY <1>8, <1>10 DEF Sums, N, sum

-----------------------------------------------------------------------------
(* Sorting by key. *)

\* Those of S that come before k when S is ordered by key, ties by their own order.
Earlier(S, key, k) == {j \in S : key[j] < key[k] \/ (key[j] = key[k] /\ j < k)}

\* How many come earlier is a number below the size of S.
LEMMA EarlierCounts ==
  ASSUME NEW S \in SUBSET Int, IsFiniteSet(S), NEW key \in [S -> Int], NEW k \in S
  PROVE  /\ IsFiniteSet(Earlier(S, key, k))
         /\ Cardinality(Earlier(S, key, k)) \in 0 .. Cardinality(S) - 1
<1>1. Cardinality(S) \in Nat
  BY FS_CardinalityType
<1>2. IsFiniteSet(S \ {k}) /\ Cardinality(S \ {k}) = Cardinality(S) - 1
  BY FS_RemoveElement
<1>3. Earlier(S, key, k) \subseteq S \ {k}
  BY DEF Earlier
<1>4. IsFiniteSet(Earlier(S, key, k)) /\ Cardinality(Earlier(S, key, k)) <= Cardinality(S) - 1
  BY <1>2, <1>3, FS_Subset
<1>. QED BY <1>1, <1>4, FS_CardinalityType

\* One that comes after another has more before it.
LEMMA EarlierGrows ==
  ASSUME NEW S \in SUBSET Int, IsFiniteSet(S), NEW key \in [S -> Int], NEW a \in S, NEW b \in S,
         a \in Earlier(S, key, b)
  PROVE  Cardinality(Earlier(S, key, a)) < Cardinality(Earlier(S, key, b))
<1>. DEFINE A == Earlier(S, key, a)
            B == Earlier(S, key, b)
<1>0. /\ a \in Int /\ b \in Int /\ key[a] \in Int /\ key[b] \in Int
      /\ key[a] < key[b] \/ (key[a] = key[b] /\ a < b)
  BY DEF Earlier
<1>1. A \union {a} \subseteq B /\ a \notin A
  <2>1. ASSUME NEW j \in A PROVE j \in B
    <3>1. /\ j \in S /\ j \in Int /\ key[j] \in Int
          /\ key[j] < key[a] \/ (key[j] = key[a] /\ j < a)
      BY DEF Earlier
    <3>2. key[j] < key[b] \/ (key[j] = key[b] /\ j < b)
      BY <1>0, <3>1
    <3>. QED BY <3>1, <3>2 DEF Earlier
  <2>2. A \subseteq B
    BY <2>1
  <2>3. a \in B /\ a \notin A
    BY <1>0 DEF Earlier
  <2>. HIDE DEF A, B
  <2>. QED BY <2>2, <2>3
<1>2. IsFiniteSet(A) /\ IsFiniteSet(B) /\ Cardinality(A) \in Nat /\ Cardinality(B) \in Nat
  BY EarlierCounts, FS_CardinalityType
<1>. HIDE DEF A, B
<1>3. Cardinality(A \union {a}) = Cardinality(A) + 1
  BY <1>1, <1>2, FS_AddElement
<1>4. Cardinality(A \union {a}) <= Cardinality(B)
  BY <1>1, <1>2, FS_Subset
<1>. QED BY <1>2, <1>3, <1>4 DEF A, B

\* Every place of a sorted set is taken.
LEMMA PlacesTaken ==
  ASSUME NEW S \in SUBSET Int, IsFiniteSet(S), NEW key \in [S -> Int], NEW m \in 1 .. Cardinality(S)
  PROVE  \E k \in S : Cardinality(Earlier(S, key, k)) = m - 1
<1>. DEFINE n == Cardinality(S)
            place == [k \in S |-> Cardinality(Earlier(S, key, k)) + 1]
<1>0. n \in Nat
  BY FS_CardinalityType
<1>. HIDE DEF n
<1>1. place \in [S -> 1 .. n]
  BY <1>0, EarlierCounts DEF n
<1>2. ASSUME NEW a \in S, NEW b \in S, place[a] = place[b] PROVE a = b
  <2>1. a = b \/ a \in Earlier(S, key, b) \/ b \in Earlier(S, key, a)
    BY DEF Earlier
  <2>2. /\ Cardinality(Earlier(S, key, a)) \in Int /\ Cardinality(Earlier(S, key, b)) \in Int
    BY EarlierCounts
  <2>3. Cardinality(Earlier(S, key, a)) = Cardinality(Earlier(S, key, b))
    BY <1>2, <2>2
  <2>. QED BY <2>1, <2>2, <2>3, EarlierGrows
<1>3. place \in Injection(S, 1 .. n)
  BY <1>1, <1>2 DEF Injection, IsInjective
<1>4. IsFiniteSet(1 .. n) /\ Cardinality(1 .. n) = n
  BY <1>0, FS_Interval
<1>. HIDE DEF place
<1>5. place \in Surjection(S, 1 .. n)
  BY <1>3, <1>4, FS_Injection DEF n
<1>6. PICK k \in S : place[k] = m
  BY <1>5 DEF Surjection, n
<1>. QED BY <1>6, EarlierCounts DEF place

\* A finite set has a least element by any key.
LEMMA LeastKey ==
  ASSUME NEW S \in SUBSET Int, IsFiniteSet(S), S # {}, NEW key \in [S -> Int]
  PROVE  \E k \in S : \A j \in S : key[k] <= key[j]
<1>1. 1 \in 1 .. Cardinality(S)
  BY FS_EmptySet, FS_CardinalityType
<1>2. PICK k \in S : Cardinality(Earlier(S, key, k)) = 1 - 1
  BY <1>1, PlacesTaken
<1>3. Earlier(S, key, k) = {}
  BY <1>2, EarlierCounts, FS_EmptySet
<1>4. ASSUME NEW j \in S PROVE key[k] <= key[j]
  <2>1. j \notin Earlier(S, key, k)
    BY <1>3
  <2>2. ~(key[j] < key[k])
    BY <2>1 DEF Earlier
  <2>. QED BY <2>2
<1>. QED BY <1>4

\* The values of a function on a finite set are finitely many.
LEMMA ValuesFinite ==
  ASSUME NEW S, IsFiniteSet(S), NEW f
  PROVE  IsFiniteSet({f[x] : x \in S})
<1>. DEFINE T == {f[x] : x \in S}
            g == [x \in S |-> f[x]]
<1>1. g \in Surjection(S, T)
  BY DEF Surjection
<1>. HIDE DEF g, T
<1>2. IsFiniteSet(T)
  BY <1>1, FS_Surjection
<1>. QED BY <1>2 DEF T
================================================================================
