------------------------- MODULE ScannerRulesProofs -------------------------
(***************************************************************************)
(* What a scan reports, for windows of any candles of any length, any       *)
(* readings of the indicators and any rules: a break clears every mapped    *)
(* level, a ticket's stop and targets are in order, and no bonus makes a    *)
(* setup of a weak match.                                                   *)
(*                                                                          *)
(* The window is all the state there is, and holds candles: everything else *)
(* is what the rules make of it.                                            *)
(***************************************************************************)
EXTENDS ScannerRules, Recursion

-----------------------------------------------------------------------------
(* Numbers *)

\* Of two numbers, the larger and the smaller, and how far they are apart.
LEMMA TwoNumbers ==
    ASSUME NEW a \in Int, NEW b \in Int
    PROVE  /\ Larger(a, b) \in {a, b} /\ Larger(a, b) \in Int /\ Larger(a, b) >= a /\ Larger(a, b) >= b
           /\ Smaller(a, b) \in {a, b} /\ Smaller(a, b) \in Int /\ Smaller(a, b) <= a /\ Smaller(a, b) <= b
           /\ Distance(a, b) \in Nat /\ Distance(a, b) \in {a - b, b - a}
           /\ Distance(a, b) >= a - b /\ Distance(a, b) >= b - a
  BY DEF Larger, Smaller, Distance

\* A finite set of numbers has a least and a greatest one.
LEMMA LeastIs ==
    ASSUME NEW S \in SUBSET Int, IsFiniteSet(S), S # {}
    PROVE  Min(S) \in S
  <1>1. [x \in S |-> x] \in [S -> Int]
    OBVIOUS
  <1>2. PICK k \in S : \A j \in S : [x \in S |-> x][k] <= [x \in S |-> x][j]
    BY <1>1, LeastKey
  <1>3. \A j \in S : k <= j
    BY <1>2
  <1> QED BY <1>3 DEF Min

\* The greatest one.
LEMMA GreatestIs ==
    ASSUME NEW S \in SUBSET Int, IsFiniteSet(S), S # {}
    PROVE  Max(S) \in S
  <1> DEFINE key == [x \in S |-> -x]
  <1>1. key \in [S -> Int]
    OBVIOUS
  <1> HIDE DEF key
  <1>2. PICK k \in S : \A j \in S : key[k] <= key[j]
    BY <1>1, LeastKey
  <1>3. \A j \in S : k \in Int /\ j \in Int /\ key[k] = -k /\ key[j] = -j
    BY DEF key
  <1>4. \A j \in S : k >= j
    BY <1>2, <1>3
  <1> QED BY <1>4 DEF Max

-----------------------------------------------------------------------------
(* Candles *)

\* A candle's prices are numbers, in order, and among the prices.
LEMMA CandleFacts ==
    ASSUME NEW c \in Candles
    PROVE  /\ c.open \in Prices /\ c.high \in Prices /\ c.low \in Prices /\ c.close \in Prices
           /\ c.low <= c.open /\ c.low <= c.close /\ c.open <= c.high /\ c.close <= c.high
  BY RulesAssumption DEF Prices

\* A price is a number, and many units.
LEMMA PriceFacts ==
    ASSUME NEW p \in Prices
    PROVE  p \in Nat /\ p >= 3500
  <1>1. p \in Nat
    BY RulesAssumption DEF Prices
  <1> QED BY <1>1, UnitAssumption

\* Two prices are equal or a tick apart.
LEMMA TickApart ==
    ASSUME NEW p \in Prices, NEW q \in Prices
    PROVE  Distance(p, q) \in Nat /\ (Distance(p, q) = 0 \/ Distance(p, q) >= 100)
  <1>1. /\ p \in Nat /\ q \in Nat
        /\ p < q => q - p >= 100
        /\ q < p => p - q >= 100
    BY PriceFacts, UnitAssumption
  <1> QED BY <1>1 DEF Distance

\* Zero, or at least a tick.
Ticks == {d \in Nat : d = 0 \/ d >= 100}

\* A candle's true range is nothing or at least a tick.
LEMMA TrueRangeTicks ==
    ASSUME NEW w \in Seq(Candles), NEW i \in 1..Len(w)
    PROVE  TrueRange(w, i) \in Ticks
  <1> DEFINE c == w[i]
  <1>0. c \in Candles /\ (i # 1 => w[i - 1] \in Candles)
    OBVIOUS
  <1> HIDE DEF c
  <1>1. c.high \in Prices /\ c.low \in Prices /\ c.high \in Nat /\ c.low \in Nat /\ c.low <= c.high
    <2>1. /\ c.high \in Prices /\ c.low \in Prices /\ c.close \in Prices
          /\ c.low <= c.close /\ c.close <= c.high
      BY <1>0, CandleFacts
    <2>2. c.high \in Nat /\ c.low \in Nat /\ c.close \in Nat
      BY <2>1, PriceFacts
    <2> QED BY <2>1, <2>2
  <1>2. c.high - c.low \in Ticks
    <2>1. Distance(c.low, c.high) = c.high - c.low
      BY <1>1 DEF Distance
    <2>2. Distance(c.low, c.high) \in Nat /\ (Distance(c.low, c.high) = 0 \/ Distance(c.low, c.high) >= 100)
      BY <1>1, TickApart
    <2> QED BY <2>1, <2>2 DEF Ticks
  <1>3. CASE i = 1
    BY <1>2, <1>3 DEF TrueRange, c
  <1>4. CASE i # 1
    <2> DEFINE p == w[i - 1].close
               a == c.high - c.low
               b == Distance(c.high, p)
               d == Distance(c.low, p)
    <2>1. p \in Prices
      BY <1>0, <1>4, CandleFacts
    <2>2. b \in Ticks /\ d \in Ticks
      <3> HIDE DEF p
      <3> QED BY <1>1, <2>1, TickApart DEF Ticks
    <2>3. TrueRange(w, i) = Max({a, b, d})
      BY <1>4 DEF TrueRange, c
    <2> HIDE DEF a, b, d
    <2>4. a \in Ticks
      BY <1>2 DEF a
    <2>5. \E x \in {a, b, d} : \A y \in {a, b, d} : x >= y
      BY <2>2, <2>4 DEF Ticks
    <2>6. Max({a, b, d}) \in {a, b, d}
      BY <2>5 DEF Max
    <2> QED BY <2>2, <2>3, <2>4, <2>6
  <1> QED BY <1>3, <1>4

\* The end of a sequence is a sequence of its elements.
LEMMA LastOfIs ==
    ASSUME NEW T, NEW s \in Seq(T), NEW n \in Nat \ {0}, s # <<>>
    PROVE  /\ LastOf(s, n) \in Seq(T)
           /\ Len(LastOf(s, n)) = Smaller(n, Len(s))
  <1> DEFINE k == Larger(1, Len(s) - n + 1)
  <1>0. Len(s) \in Nat /\ Len(s) >= 1
    OBVIOUS
  <1>1. k \in 1..Len(s) /\ Len(s) - k + 1 = Smaller(n, Len(s))
    <2>1. ASSUME NEW m \in Nat, m >= 1
          PROVE  /\ Larger(1, m - n + 1) \in 1..m
                 /\ m - Larger(1, m - n + 1) + 1 = Smaller(n, m)
      BY <2>1 DEF Larger, Smaller
    <2> QED BY <1>0, <2>1
  <1> HIDE DEF k
  <1>2. SubSeq(s, k, Len(s)) \in Seq(T) /\ Len(SubSeq(s, k, Len(s))) = Len(s) - k + 1
    BY <1>0, <1>1
  <1> QED BY <1>1, <1>2 DEF LastOf, k

\* A sum is the last of the running sums.
LEMMA TotalIsSum ==
    ASSUME NEW parts \in Seq(Int)
    PROVE  \E g : Sums(parts, g) /\ Total(parts) = g[Len(parts)]
  <1>1. Total(parts) = SumUpTo(parts)[Len(parts)]
    BY DEF Total, SumUpTo
  <1> QED BY <1>1, SumsUp

\* A sum of ticks is ticks.
LEMMA TicksAdd ==
    ASSUME NEW parts \in Seq(Ticks)
    PROVE  Total(parts) \in Ticks
  <1>1. parts \in Seq(Int) /\ Len(parts) \in Nat /\ \A n \in 1..Len(parts) : parts[n] \in Ticks
    BY DEF Ticks
  <1>2. PICK g : Sums(parts, g) /\ Total(parts) = g[Len(parts)]
    BY <1>1, TotalIsSum
  <1>3. g[0] \in Ticks
    BY <1>2 DEF Sums, Ticks
  <1>4. \A n \in 1..Len(parts) : g[n - 1] \in Ticks => g[n] \in Ticks
    BY <1>1, <1>2 DEF Sums, Ticks
  <1>5. \A n \in 0..Len(parts) : g[n] \in Ticks
    BY <1>1, <1>3, <1>4, RecursionTyped, Zenon
  <1> QED BY <1>1, <1>2, <1>5

\* The average true range is large enough to take a share of.
LEMMA AtrFloor ==
    ASSUME NEW w \in Seq(Candles), w # <<>>
    PROVE  Atr(w) \in Nat /\ Atr(w) >= 7
  <1> DEFINE n == Smaller(14, Len(w))
             ranges == [i \in 1..Len(w) |-> TrueRange(w, i)]
             last == w[Len(w)]
             sum == Total(LastOf(ranges, n))
  <1>0. Len(w) \in Nat /\ Len(w) >= 1 /\ last \in Candles
    <2>1. Len(w) \in Nat /\ Len(w) >= 1
      OBVIOUS
    <2> QED BY <2>1
  <1>1. n \in 1..14
    <2>1. ASSUME NEW k \in Nat, k >= 1 PROVE Smaller(14, k) \in 1..14
      BY <2>1 DEF Smaller
    <2> QED BY <1>0, <2>1
  <1>2. ranges \in Seq(Ticks) /\ ranges # <<>>
    <2>1. ranges \in [1..Len(w) -> Ticks]
      BY TrueRangeTicks
    <2> HIDE DEF ranges
    <2>2. ranges \in Seq(Ticks) /\ Len(ranges) = Len(w)
      BY <1>0, <2>1
    <2> QED BY <1>0, <2>2
  <1>3. sum \in Ticks
    <2> HIDE DEF ranges, n
    <2>1. n \in Nat \ {0}
      BY <1>1
    <2> QED BY <1>2, <2>1, LastOfIs, TicksAdd
  <1>4. last.high \in Nat /\ last.low \in Nat /\ last.low <= last.high /\ last.close \in Nat /\ last.close >= 3500
    <2> HIDE DEF last
    <2>1. /\ last.high \in Prices /\ last.low \in Prices /\ last.close \in Prices
          /\ last.low <= last.close /\ last.close <= last.high
      BY <1>0, CandleFacts
    <2>2. last.high \in Nat /\ last.low \in Nat /\ last.close \in Nat /\ last.close >= 3500
      BY <2>1, PriceFacts
    <2> QED BY <2>1, <2>2
  <1>5. Atr(w) = IF sum \div n > 0 THEN sum \div n ELSE Larger(last.high - last.low, last.close \div 500)
    BY DEF Atr
  <1> HIDE DEF n, ranges, last, sum
  <1>6. sum \div n \in Nat /\ (sum \div n > 0 => sum \div n >= 7)
    <2>1. sum \in Nat /\ (sum = 0 \/ sum >= 100)
      BY <1>3 DEF Ticks
    <2>2. /\ n = 1 \/ n = 2 \/ n = 3 \/ n = 4 \/ n = 5 \/ n = 6 \/ n = 7
             \/ n = 8 \/ n = 9 \/ n = 10 \/ n = 11 \/ n = 12 \/ n = 13 \/ n = 14
      BY <1>1
    <2>3. CASE n \in 1..7
      BY <2>1, <2>2, <2>3
    <2>4. CASE n \in 8..14
      BY <2>1, <2>2, <2>4
    <2> QED BY <1>1, <2>3, <2>4
  <1>7. Larger(last.high - last.low, last.close \div 500) \in Nat /\ Larger(last.high - last.low, last.close \div 500) >= 7
    BY <1>4 DEF Larger
  <1> QED BY <1>5, <1>6, <1>7

-----------------------------------------------------------------------------
(* Levels *)

\* Sorting a finite set by a key gives a sequence of its elements.
LEMMA SortedIs ==
    ASSUME NEW S \in SUBSET Int, IsFiniteSet(S), NEW key \in [S -> Int]
    PROVE  Sorted(key) \in Seq(S) /\ Len(Sorted(key)) = Cardinality(S)
  <1> DEFINE n == Cardinality(S)
             at(m) == CHOOSE k \in S : Cardinality(Earlier(S, key, k)) = m - 1
  <1>1. n \in Nat
    BY FS_CardinalityType
  <1>2. DOMAIN key = S
    OBVIOUS
  <1>3. Sorted(key) = [m \in 1..n |-> at(m)]
    BY <1>2 DEF Sorted, Earlier
  <1>4. \A m \in 1..n : at(m) \in S
    BY PlacesTaken
  <1> HIDE DEF n, at
  <1>5. [m \in 1..n |-> at(m)] \in [1..n -> S]
    BY <1>4
  <1>6. [m \in 1..n |-> at(m)] \in Seq(S) /\ Len([m \in 1..n |-> at(m)]) = n
    BY <1>1, <1>5
  <1> QED BY <1>3, <1>6 DEF n

\* What a cluster of pivots is.
ClusterOK == [level : Int, touches : Nat \ {0}, last : Int]

\* Placing a pivot among clusters leaves clusters.
LEMMA PlacedIs ==
    ASSUME NEW clusters \in Seq(ClusterOK), NEW S \in SUBSET Int, NEW price \in [S -> Int],
           NEW i \in S, NEW tolerance \in Int
    PROVE  Placed(clusters, i, price, tolerance) \in Seq(ClusterOK)
  <1> DEFINE near == {k \in DOMAIN clusters : Distance(price[i], clusters[k].level) <= tolerance}
  <1>1. /\ i \in Int /\ price[i] \in Int
        /\ DOMAIN clusters = 1..Len(clusters) /\ Len(clusters) \in Nat
        /\ \A k \in 1..Len(clusters) : clusters[k] \in ClusterOK
    OBVIOUS
  <1>2. Placed(clusters, i, price, tolerance) =
            IF near = {} THEN Append(clusters, [level |-> price[i], touches |-> 1, last |-> i - 1])
            ELSE [clusters EXCEPT ![Min(near)] = Joined(clusters[Min(near)], i, price)]
    BY DEF Placed
  <1> HIDE DEF near
  <1>3. CASE near = {}
    <2>1. [level |-> price[i], touches |-> 1, last |-> i - 1] \in ClusterOK
      BY <1>1 DEF ClusterOK
    <2>2. Append(clusters, [level |-> price[i], touches |-> 1, last |-> i - 1]) \in Seq(ClusterOK)
      BY <2>1
    <2> QED BY <1>2, <1>3, <2>2
  <1>4. CASE near # {}
    <2> DEFINE k == Min(near)
    <2>1. near \subseteq 1..Len(clusters)
      BY <1>1 DEF near
    <2>2. IsFiniteSet(near) /\ near \in SUBSET Int
      <3>1. IsFiniteSet(1..Len(clusters))
        BY <1>1, FS_Interval
      <3>2. IsFiniteSet(near)
        BY <2>1, <3>1, FS_Subset
      <3> QED BY <2>1, <3>2
    <2>3. k \in near
      BY <1>4, <2>2, LeastIs
    <2> HIDE DEF k
    <2>4. Joined(clusters[k], i, price) \in ClusterOK
      <3> DEFINE c == clusters[k]
      <3>1. c.level \in Int /\ c.touches \in Nat /\ c.touches >= 1 /\ c.last \in Int
        BY <1>1, <2>1, <2>3 DEF ClusterOK
      <3> HIDE DEF c
      <3>2. c.level * c.touches \in Int
        BY <3>1
      <3>3. (c.level * c.touches + price[i]) \div (c.touches + 1) \in Int
        BY <1>1, <3>1, <3>2
      <3>4. Larger(c.last, i - 1) \in Int
        BY <1>1, <3>1 DEF Larger
      <3>5. c.touches + 1 \in Nat \ {0}
        BY <3>1
      <3> QED BY <3>3, <3>4, <3>5 DEF Joined, ClusterOK, c
    <2>5. [clusters EXCEPT ![k] = Joined(clusters[k], i, price)] \in Seq(ClusterOK)
      <3> DEFINE N == Len(clusters)
                 moved == [clusters EXCEPT ![k] = Joined(clusters[k], i, price)]
      <3>1. N \in Nat /\ clusters \in [1..N -> ClusterOK]
        BY <1>1
      <3>2. moved \in [1..N -> ClusterOK]
        <4> HIDE DEF N
        <4> QED BY <2>4, <3>1
      <3> HIDE DEF N, moved
      <3>3. moved \in Seq(ClusterOK)
        BY <3>1, <3>2
      <3> QED BY <3>3 DEF moved
    <2> QED BY <1>2, <1>4, <2>5 DEF k
  <1> QED BY <1>3, <1>4

\* Clustering the pivots of a window gives clusters.
LEMMA ClusterIs ==
    ASSUME NEW S \in SUBSET Int, IsFiniteSet(S), NEW price \in [S -> Int],
           NEW close \in Int, NEW atr \in Int
    PROVE  Cluster(price, close, atr) \in Seq(ClusterOK)
  <1> DEFINE tolerance == Larger(close \div 400, (6 * atr) \div 10)
             order == Sorted(price)
             N == Len(order)
             step == [n \in 1..N |-> [c \in Seq(ClusterOK) |-> Placed(c, order[n], price, tolerance)]]
             Body(g) == [n \in 0..N |-> IF n = 0 THEN <<>> ELSE Placed(g[n - 1], order[n], price, tolerance)]
             placed == CHOOSE h : h = Body(h)
  <1>1. tolerance \in Int
    BY DEF Larger
  <1>2. N \in Nat /\ \A n \in 1..N : order[n] \in S
    <2>1. order \in Seq(S)
      BY SortedIs
    <2> HIDE DEF order
    <2> QED BY <2>1
  <1>3. Cluster(price, close, atr) = placed[N]
    BY DEF Cluster
  <1> HIDE DEF tolerance, order, N, placed
  <1>4. \A n \in 1..N : \A c \in Seq(ClusterOK) : Placed(c, order[n], price, tolerance) \in Seq(ClusterOK)
    BY <1>1, <1>2, PlacedIs
  <1>5. step \in [1..N -> [Seq(ClusterOK) -> Seq(ClusterOK)]]
    BY <1>4
  <1>6. <<>> \in Seq(ClusterOK)
    OBVIOUS
  <1>7. PICK g : Iterates(g, N, Seq(ClusterOK), <<>>, step)
    <2> HIDE DEF step
    <2> QED BY <1>2, <1>5, <1>6, RecursionExists
  <1>8. \A n \in 1..N : g[n] = Placed(g[n - 1], order[n], price, tolerance)
    <2>1. \A n \in 1..N : \A c \in Seq(ClusterOK) : step[n][c] = Placed(c, order[n], price, tolerance)
      OBVIOUS
    <2> HIDE DEF step
    <2> QED BY <1>7, <2>1 DEF Iterates
  <1>9. g = Body(g)
    <2>1. /\ g = [n \in 0..N |-> g[n]] /\ g[0] = <<>>
          /\ \A n \in 0..N : n = 0 \/ n \in 1..N
      BY <1>2, <1>7 DEF Iterates
    <2>2. ASSUME NEW n \in 0..N PROVE Body(g)[n] = g[n]
      BY <1>8, <2>1
    <2>3. Body(g) = [n \in 0..N |-> g[n]]
      BY <2>2
    <2> QED BY <2>1, <2>3
  <1>10. placed = Body(placed)
    <2> HIDE DEF Body
    <2> QED BY <1>9 DEF placed
  <1>11. placed[0] = <<>> /\ \A n \in 1..N : placed[n] = Placed(placed[n - 1], order[n], price, tolerance)
    <2>1. 0 \in 0..N /\ \A n \in 1..N : n \in 0..N /\ n # 0
      BY <1>2
    <2>2. \A n \in 0..N : placed[n] = Body(placed)[n]
      BY <1>10
    <2> QED BY <2>1, <2>2
  <1>12. \A n \in 0..N : placed[n] \in Seq(ClusterOK)
    <2>1. placed[0] \in Seq(ClusterOK)
      BY <1>6, <1>11
    <2>2. \A n \in 1..N : placed[n - 1] \in Seq(ClusterOK) => placed[n] \in Seq(ClusterOK)
      BY <1>4, <1>11
    <2> QED BY <1>2, <2>1, <2>2, RecursionTyped, Zenon
  <1> QED BY <1>2, <1>3, <1>12

\* A candle of a window.
LEMMA LastCandle ==
    ASSUME NEW w \in Seq(Candles), NEW i \in 1..Len(w)
    PROVE  /\ w[i] \in Candles
           /\ \A p \in {w[i].open, w[i].high, w[i].low, w[i].close} : p \in Prices /\ p \in Nat /\ p >= 3500
  <1>1. w[i] \in Candles
    OBVIOUS
  <1> QED BY <1>1, CandleFacts, PriceFacts

\* The pivots of a window are some of its candles.
LEMMA PivotsAre ==
    ASSUME NEW w \in Seq(Candles), NEW P \in {PivotHighs(w), PivotLows(w)}
    PROVE  P \in SUBSET (1..Len(w)) /\ P \in SUBSET Int /\ IsFiniteSet(P)
  <1>0. Len(w) \in Nat /\ Reach \in Nat
    BY RulesAssumption
  <1>1. Len(w) \in Nat /\ Inner(w) \subseteq 1..Len(w)
    <2>1. ASSUME NEW n \in Nat PROVE (Reach + 1)..(n - Reach) \subseteq 1..n
      BY <1>0
    <2> QED BY <1>0, <2>1 DEF Inner
  <1>2. P \subseteq Inner(w)
    BY DEF PivotHighs, PivotLows
  <1>3. IsFiniteSet(1..Len(w))
    BY <1>1, FS_Interval
  <1>4. P \subseteq 1..Len(w)
    BY <1>1, <1>2
  <1>5. IsFiniteSet(P)
    BY <1>3, <1>4, FS_Subset
  <1> QED BY <1>1, <1>4, <1>5

\* The levels made of pivots are clusters of them.
LEMMA LevelsAre ==
    ASSUME NEW w \in Seq(Candles), w # <<>>,
           NEW S \in SUBSET Int, IsFiniteSet(S), NEW price \in [S -> Int]
    PROVE  Levels(w, price) \in Seq(ClusterOK)
  <1> DEFINE close == w[Len(w)].close
             clusters == Cluster(price, close, Atr(w))
             count == Cardinality(DOMAIN price)
             key == [k \in DOMAIN clusters |-> -Rank(clusters[k], close, count)]
             order == Sorted(key)
             N == Len(clusters)
  <1>1. close \in Nat /\ close >= 3500
    <2>1. Len(w) \in 1..Len(w)
      OBVIOUS
    <2> QED BY <2>1, LastCandle
  <1>2. count \in Nat
    BY FS_CardinalityType
  <1>3. clusters \in Seq(ClusterOK)
    <2> HIDE DEF close
    <2> QED BY <1>1, AtrFloor, ClusterIs
  <1>4. Levels(w, price) = [n \in 1..Smaller(6, N) |-> clusters[order[n]]]
    BY DEF Levels
  <1> HIDE DEF clusters, close, count
  <1>5. N \in Nat /\ DOMAIN clusters = 1..N /\ \A k \in 1..N : clusters[k] \in ClusterOK
    BY <1>3
  <1> HIDE DEF N
  <1>6. \A k \in 1..N : Rank(clusters[k], close, count) \in Int
    <2> TAKE k \in 1..N
    <2> DEFINE c == clusters[k]
    <2>1. c.level \in Int /\ c.touches \in Nat /\ c.last \in Int
      BY <1>5 DEF ClusterOK
    <2> HIDE DEF c
    <2>2. /\ close \div 1000 \in Nat /\ close \div 1000 > 0
          /\ Larger(1, count) \in Nat /\ Larger(1, count) > 0
      BY <1>1, <1>2 DEF Larger
    <2>3. 500 * Distance(c.level, close) \in Int /\ 10000 * c.last \in Int
      <3>1. Distance(c.level, close) \in Int
        BY <1>1, <2>1 DEF Distance
      <3> QED BY <2>1, <3>1
    <2>4. /\ (500 * Distance(c.level, close)) \div (close \div 1000) \in Int
          /\ (10000 * c.last) \div Larger(1, count) \in Int
      BY <2>2, <2>3
    <2>5. Larger(0, 30000 - (500 * Distance(c.level, close)) \div (close \div 1000)) \in Int
      <3>1. 30000 - (500 * Distance(c.level, close)) \div (close \div 1000) \in Int
        BY <2>4
      <3> QED BY <3>1, TwoNumbers
    <2>6. Rank(c, close, count) \in Int
      BY <2>1, <2>4, <2>5 DEF Rank
    <2> QED BY <2>6 DEF c
  <1>7. key \in [1..N -> Int]
    BY <1>5, <1>6
  <1> HIDE DEF key
  <1>8. order \in Seq(1..N) /\ Len(order) = N
    <2>1. IsFiniteSet(1..N) /\ Cardinality(1..N) = N /\ 1..N \in SUBSET Int
      BY <1>5, FS_Interval
    <2> QED BY <1>7, <2>1, SortedIs
  <1> HIDE DEF order
  <1>9. Smaller(6, N) \in Nat /\ Smaller(6, N) <= N
    BY <1>5 DEF Smaller
  <1>10. \A n \in 1..Smaller(6, N) : clusters[order[n]] \in ClusterOK
    <2>1. \A n \in 1..N : order[n] \in 1..N
      BY <1>8
    <2>2. 1..Smaller(6, N) \subseteq 1..N
      BY <1>5, <1>9
    <2> QED BY <1>5, <2>1, <2>2
  <1>11. [n \in 1..Smaller(6, N) |-> clusters[order[n]]] \in [1..Smaller(6, N) -> ClusterOK]
    BY <1>10
  <1>12. [n \in 1..Smaller(6, N) |-> clusters[order[n]]] \in Seq(ClusterOK)
    <2> HIDE DEF ClusterOK
    <2> QED BY <1>9, <1>11
  <1> QED BY <1>4, <1>12

\* So are those of a window, high and low.
LEMMA LevelsOfWindow ==
    ASSUME NEW w \in Seq(Candles), w # <<>>
    PROVE  HighLevels(w) \in Seq(ClusterOK) /\ LowLevels(w) \in Seq(ClusterOK)
  <1>1. ASSUME NEW P \in {PivotHighs(w), PivotLows(w)}
        PROVE  /\ P \in SUBSET Int /\ IsFiniteSet(P)
               /\ [i \in P |-> w[i].high] \in [P -> Int] /\ [i \in P |-> w[i].low] \in [P -> Int]
    <2>1. P \in SUBSET (1..Len(w)) /\ P \in SUBSET Int /\ IsFiniteSet(P)
      BY PivotsAre
    <2>2. \A i \in P : w[i].high \in Int /\ w[i].low \in Int
      BY <2>1, LastCandle
    <2> QED BY <2>1, <2>2
  <1>2. Levels(w, [i \in PivotHighs(w) |-> w[i].high]) \in Seq(ClusterOK)
    BY <1>1, LevelsAre
  <1>3. Levels(w, [i \in PivotLows(w) |-> w[i].low]) \in Seq(ClusterOK)
    BY <1>1, LevelsAre
  <1> QED BY <1>2, <1>3 DEF HighLevels, LowLevels

\* All the levels of a window: finitely many numbers.
LEMMA AllLevelsAre ==
    ASSUME NEW w \in Seq(Candles), w # <<>>
    PROVE  /\ AllLevels(w) \in SUBSET Int /\ IsFiniteSet(AllLevels(w))
           /\ \A l \in ToSet(HighLevels(w)) \union ToSet(LowLevels(w)) : l.level \in AllLevels(w)
  <1> DEFINE H == HighLevels(w)
             L == LowLevels(w)
             both == H \o L
             N == Len(both)
             level == [k \in 1..N |-> both[k].level]
  <1>1. H \in Seq(ClusterOK) /\ L \in Seq(ClusterOK)
    BY LevelsOfWindow
  <1>2. AllLevels(w) = {l.level : l \in ToSet(both)}
    BY DEF AllLevels
  <1> HIDE DEF H, L
  <1>3. /\ both \in Seq(ClusterOK) /\ N \in Nat /\ DOMAIN both = 1..N
        /\ \A k \in DOMAIN H : k \in 1..N /\ both[k] = H[k]
        /\ \A k \in DOMAIN L : k + Len(H) \in 1..N /\ both[k + Len(H)] = L[k]
    BY <1>1
  <1> HIDE DEF both, N
  <1>4. AllLevels(w) = {level[k] : k \in 1..N}
    <2>1. AllLevels(w) = {both[k].level : k \in 1..N}
      BY <1>2, <1>3 DEF ToSet
    <2> QED BY <2>1
  <1>5. IsFiniteSet(AllLevels(w))
    <2> HIDE DEF level
    <2>1. IsFiniteSet(1..N)
      BY <1>3, FS_Interval
    <2>2. IsFiniteSet({level[k] : k \in 1..N})
      BY <2>1, ValuesFinite
    <2> QED BY <1>4, <2>2
  <1>6. \A k \in 1..N : level[k] = both[k].level /\ both[k].level \in Int
    <2>1. \A k \in 1..N : both[k] \in ClusterOK
      BY <1>3
    <2>2. \A c \in ClusterOK : c.level \in Int
      BY DEF ClusterOK
    <2> QED BY <2>1, <2>2
  <1>7. \A l \in ToSet(H) \union ToSet(L) : \E k \in 1..N : l = both[k]
    BY <1>3 DEF ToSet
  <1>8. \A l \in ToSet(H) \union ToSet(L) : l.level \in AllLevels(w)
    <2> HIDE DEF level
    <2> QED BY <1>4, <1>6, <1>7
  <1> HIDE DEF level
  <1>9. AllLevels(w) \in SUBSET Int
    BY <1>4, <1>6
  <1> QED BY <1>5, <1>8, <1>9 DEF H, L

\* Among finitely many levels one is nearest to a price.
LEMMA NearestIs ==
    ASSUME NEW side \in SUBSET Int, IsFiniteSet(side), side # {}, NEW price \in Int, NEW standIn
    PROVE  Preferred(NearestLevel(side, price), standIn) \in side
  <1> DEFINE key == [l \in side |-> Distance(l, price)]
  <1>1. key \in [side -> Int]
    BY TwoNumbers
  <1>2. \A l \in side : key[l] = Distance(l, price)
    OBVIOUS
  <1> HIDE DEF key
  <1>3. PICK k \in side : \A j \in side : key[k] <= key[j]
    BY <1>1, LeastKey
  <1>4. k \in NearestLevel(side, price)
    BY <1>2, <1>3 DEF NearestLevel
  <1>5. Only(NearestLevel(side, price)) \in NearestLevel(side, price)
    BY <1>4 DEF Only
  <1>6. NearestLevel(side, price) \subseteq side
    BY DEF NearestLevel
  <1> QED BY <1>4, <1>5, <1>6 DEF Preferred

\* The ends of the last candles of a window are prices.
LEMMA EndsAre ==
    ASSUME NEW w \in Seq(Candles), w # <<>>
    PROVE  /\ Max({c.high : c \in ToSet(LastOf(w, 20))}) \in Int
           /\ Min({c.low : c \in ToSet(LastOf(w, 20))}) \in Int
  <1> DEFINE end == LastOf(w, 20)
             high == [k \in 1..Len(end) |-> end[k].high]
             low == [k \in 1..Len(end) |-> end[k].low]
             highs == {high[k] : k \in 1..Len(end)}
             lows == {low[k] : k \in 1..Len(end)}
  <1>1. end \in Seq(Candles) /\ Len(end) = Smaller(20, Len(w))
    BY LastOfIs
  <1>2. Len(w) \in Nat /\ Len(w) >= 1
    OBVIOUS
  <1>3. Smaller(20, Len(w)) \in Nat /\ Smaller(20, Len(w)) >= 1
    BY <1>2 DEF Smaller
  <1>4. Len(end) \in Nat /\ 1 \in 1..Len(end) /\ DOMAIN end = 1..Len(end)
    <2> HIDE DEF end
    <2> QED BY <1>1, <1>3
  <1> HIDE DEF end
  <1>5. \A k \in 1..Len(end) : end[k].high \in Int /\ end[k].low \in Int
    BY <1>1, LastCandle
  <1>6. {c.high : c \in ToSet(end)} = highs /\ {c.low : c \in ToSet(end)} = lows
    BY <1>4 DEF ToSet
  <1>7. IsFiniteSet(1..Len(end))
    BY <1>4, FS_Interval
  <1>8. highs \in SUBSET Int /\ lows \in SUBSET Int /\ highs # {} /\ lows # {}
    BY <1>4, <1>5
  <1>9. IsFiniteSet(highs) /\ IsFiniteSet(lows)
    <2> HIDE DEF high, low
    <2> QED BY <1>7, ValuesFinite
  <1> HIDE DEF highs, lows
  <1>10. Max(highs) \in highs /\ Min(lows) \in lows
    BY <1>8, <1>9, LeastIs, GreatestIs
  <1> QED BY <1>6, <1>8, <1>10 DEF end

\* The last pivots of a window are numbers.
LEMMA PivotMarks ==
    ASSUME NEW w \in Seq(Candles), w # <<>>
    PROVE  PivotHigh(w) \in Int /\ PivotLow(w) \in Int
  <1>1. PivotHigh(w) \in Int
    <2>1. CASE PivotHighs(w) # {}
      <3>1. Max(PivotHighs(w)) \in 1..Len(w)
        BY <2>1, PivotsAre, GreatestIs
      <3>2. w[Max(PivotHighs(w))].high \in Int
        BY <3>1, LastCandle
      <3> QED BY <2>1, <3>2 DEF PivotHigh
    <2>2. CASE PivotHighs(w) = {}
      BY <2>2, EndsAre DEF PivotHigh
    <2> QED BY <2>1, <2>2
  <1>2. PivotLow(w) \in Int
    <2>1. CASE PivotLows(w) # {}
      <3>1. Max(PivotLows(w)) \in 1..Len(w)
        BY <2>1, PivotsAre, GreatestIs
      <3>2. w[Max(PivotLows(w))].low \in Int
        BY <3>1, LastCandle
      <3> QED BY <2>1, <3>2 DEF PivotLow
    <2>2. CASE PivotLows(w) = {}
      BY <2>2, EndsAre DEF PivotLow
    <2> QED BY <2>1, <2>2
  <1> QED BY <1>1, <1>2

\* What stands in for a level that is not found is a number.
LEMMA StandIns ==
    ASSUME NEW levels \in Seq(ClusterOK), NEW mark \in Int
    PROVE  Preferred(FirstLevel(levels), mark) \in Int
  <1>1. CASE levels = <<>>
    BY <1>1 DEF FirstLevel, Preferred
  <1>2. CASE levels # <<>>
    <2>1. Head(levels) \in ClusterOK
      BY <1>2
    <2>2. Head(levels).level \in Int
      BY <2>1 DEF ClusterOK
    <2>3. Only({Head(levels).level}) = Head(levels).level
      BY DEF Only
    <2> QED BY <1>2, <2>2, <2>3 DEF FirstLevel, Preferred
  <1> QED BY <1>1, <1>2

\* Resistance and support are numbers, and on their side of the close unless no level is.
LEMMA MarksAre ==
    ASSUME NEW w \in Seq(Candles), w # <<>>
    PROVE  LET close == w[Len(w)].close IN
           /\ Resistance(w) \in Int /\ Support(w) \in Int
           /\ Resistance(w) < close => \A l \in AllLevels(w) : l < close
           /\ Support(w) > close => \A l \in AllLevels(w) : l > close
  <1> DEFINE close == w[Len(w)].close
             above == {l \in AllLevels(w) : l >= close}
             below == {l \in AllLevels(w) : l <= close}
  <1>1. close \in Int
    <2>1. Len(w) \in 1..Len(w)
      OBVIOUS
    <2> QED BY <2>1, LastCandle
  <1> HIDE DEF close
  <1>2. AllLevels(w) \in SUBSET Int /\ IsFiniteSet(AllLevels(w))
    BY AllLevelsAre
  <1>3. /\ above \in SUBSET Int /\ IsFiniteSet(above)
        /\ below \in SUBSET Int /\ IsFiniteSet(below)
    <2>1. above \in SUBSET AllLevels(w) /\ below \in SUBSET AllLevels(w)
      OBVIOUS
    <2> HIDE DEF above, below
    <2> QED BY <1>2, <2>1, FS_Subset
  <1> DEFINE highStands == Preferred(FirstLevel(HighLevels(w)), PivotHigh(w))
             lowStands == Preferred(FirstLevel(LowLevels(w)), PivotLow(w))
  <1>4. highStands \in Int /\ lowStands \in Int
    BY LevelsOfWindow, PivotMarks, StandIns
  <1>5. /\ Resistance(w) = Preferred(NearestLevel(above, close), highStands)
        /\ Support(w) = Preferred(NearestLevel(below, close), lowStands)
    BY DEF Resistance, Support, close
  <1> HIDE DEF highStands, lowStands
  <1>6. /\ Resistance(w) \in Int
        /\ Resistance(w) < close => \A l \in AllLevels(w) : l < close
    <2>1. CASE above # {}
      <3>1. Resistance(w) \in above
        <4> HIDE DEF above
        <4> QED BY <1>1, <1>3, <1>5, <2>1, NearestIs
      <3> QED BY <1>1, <1>2, <3>1
    <2>2. CASE above = {}
      <3>1. Resistance(w) = highStands
        BY <1>5, <2>2 DEF NearestLevel, Preferred
      <3>2. \A l \in AllLevels(w) : l < close
        BY <1>1, <1>2, <2>2
      <3> QED BY <1>4, <3>1, <3>2
    <2> QED BY <2>1, <2>2
  <1>7. /\ Support(w) \in Int
        /\ Support(w) > close => \A l \in AllLevels(w) : l > close
    <2>1. CASE below # {}
      <3>1. Support(w) \in below
        <4> HIDE DEF below
        <4> QED BY <1>1, <1>3, <1>5, <2>1, NearestIs
      <3> QED BY <1>1, <1>2, <3>1
    <2>2. CASE below = {}
      <3>1. Support(w) = lowStands
        BY <1>5, <2>2 DEF NearestLevel, Preferred
      <3>2. \A l \in AllLevels(w) : l > close
        BY <1>1, <1>2, <2>2
      <3> QED BY <1>4, <3>1, <3>2
    <2> QED BY <2>1, <2>2
  <1> QED BY <1>6, <1>7 DEF close

-----------------------------------------------------------------------------
(* Features *)

\* What the features read of a window's structure.
LEMMA StructureIs ==
    ASSUME NEW w
    PROVE  LET s == Structure(w)
               close == w[Len(w)].close
               before == w[Len(w) - 1].close
           IN  /\ {"close", "atr", "pivot_high", "pivot_low", "support", "resistance"} \subseteq DOMAIN s
               /\ {"vcp_score", "spread_pct"} \cap DOMAIN s = {}
               /\ s.close = close /\ s.atr = Atr(w)
               /\ s.pivot_high = PivotHigh(w) /\ s.pivot_low = PivotLow(w)
               /\ s.support = Support(w) /\ s.resistance = Resistance(w)
               /\ s.breakout_above_resistance = Flag(before <= Resistance(w) /\ close > Resistance(w))
               /\ s.support_break = Flag(before >= Support(w) /\ close < Support(w))
  BY DEF Structure

\* A scan has the structure's features as they are, and the readings the structure
\* does not have.
LEMMA FeaturesAre ==
    ASSUME NEW s, NEW r, "vcp_score" \notin DOMAIN s
    PROVE  LET f == Features(s, r)
           IN  /\ DOMAIN f = {"vcp_score"} \union DOMAIN s \union DOMAIN r
               /\ \A x \in DOMAIN s : f[x] = s[x]
               /\ \A x \in DOMAIN r : x # "vcp_score" /\ x \notin DOMAIN s => f[x] = r[x]
  <1> DEFINE v == [vcp_score |-> VcpScore(s, r)]
             vs == v ++ s
  <1>1. DOMAIN v = {"vcp_score"}
    OBVIOUS
  <1>2. Features(s, r) = vs ++ r
    BY DEF Features
  <1> HIDE DEF v
  <1>3. DOMAIN vs = {"vcp_score"} \union DOMAIN s /\ \A x \in DOMAIN s : vs[x] = s[x]
    BY <1>1 DEF ++
  <1> HIDE DEF vs
  <1>4. /\ DOMAIN (vs ++ r) = DOMAIN vs \union DOMAIN r
        /\ \A x \in DOMAIN vs : (vs ++ r)[x] = vs[x]
        /\ \A x \in DOMAIN r \ DOMAIN vs : (vs ++ r)[x] = r[x]
    BY DEF ++
  <1> QED BY <1>2, <1>3, <1>4

-----------------------------------------------------------------------------
(* The window *)

\* All the state there is: candles that have closed.
WindowOK == candles \in Seq(Candles)

\* The window holds candles.
LEMMA WindowHolds == Spec => []WindowOK
  <1>1. Init => WindowOK
    BY DEF Init, WindowOK
  <1>2. WindowOK /\ [Next]_candles => WindowOK'
    <2> SUFFICES ASSUME WindowOK, [Next]_candles PROVE WindowOK'
      OBVIOUS
    <2>1. ASSUME NEW c \in Candles, CandleCloses(c) PROVE WindowOK'
      <3> DEFINE longer == Append(candles, c)
      <3>1. longer \in Seq(Candles) /\ longer # <<>>
        BY DEF WindowOK
      <3>2. Window \in Nat \ {0}
        BY RulesAssumption
      <3> HIDE DEF longer
      <3>3. LastOf(longer, Window) \in Seq(Candles)
        BY <3>1, <3>2, LastOfIs
      <3> QED BY <2>1, <3>3 DEF CandleCloses, WindowOK, longer
    <2>2. CASE UNCHANGED candles
      BY <2>2 DEF WindowOK
    <2> QED BY <2>1, <2>2 DEF Next
  <1> QED BY <1>1, <1>2, PTL DEF Spec

\* A break is reported only by a close beyond every mapped level, whatever the candles
\* and however many the window holds.
THEOREM BreaksAreClear == Spec => []BreaksClearEveryLevel
  <1>1. WindowOK => BreaksClearEveryLevel
    <2> SUFFICES ASSUME WindowOK, Len(candles) >= 2, NEW l \in Mapped
                 PROVE  /\ Structure(candles).breakout_above_resistance = 1 => Structure(candles).close > l.level
                        /\ Structure(candles).support_break = 1 => Structure(candles).close < l.level
      BY DEF BreaksClearEveryLevel, Scanned
    <2> DEFINE close == candles[Len(candles)].close
               before == candles[Len(candles) - 1].close
               s == Structure(candles)
    <2>1. candles \in Seq(Candles) /\ Len(candles) \in Nat /\ candles # <<>>
      BY DEF WindowOK
    <2>2. close \in Int
      <3>1. Len(candles) \in 1..Len(candles)
        BY <2>1
      <3> QED BY <2>1, <3>1, LastCandle
    <2>3. /\ s.close = close
          /\ s.breakout_above_resistance = Flag(before <= Resistance(candles) /\ close > Resistance(candles))
          /\ s.support_break = Flag(before >= Support(candles) /\ close < Support(candles))
      BY StructureIs
    <2>4. /\ Resistance(candles) \in Int /\ Support(candles) \in Int
          /\ Resistance(candles) < close => \A x \in AllLevels(candles) : x < close
          /\ Support(candles) > close => \A x \in AllLevels(candles) : x > close
      BY <2>1, MarksAre
    <2>5. l.level \in AllLevels(candles) /\ l.level \in Int
      BY <2>1, AllLevelsAre DEF Mapped
    <2> HIDE DEF close, before, s
    <2> QED BY <2>2, <2>3, <2>4, <2>5 DEF Flag, s
  <1> QED BY <1>1, WindowHolds, PTL

-----------------------------------------------------------------------------
(* Tickets *)

\* The nearest multiple of a grain is no further than half a grain.
LEMMA RoundedIs ==
    ASSUME NEW x \in Int
    PROVE  /\ Rounded(x) \in Int
           /\ Rounded(x) <= x + Grain \div 2 /\ x + Grain \div 2 < Rounded(x) + Grain
  <1> DEFINE y == x + Grain \div 2
             n == y \div Grain
  <1>1. Grain \in Nat /\ Grain > 0 /\ y \in Int
    BY RulesAssumption
  <1> HIDE DEF y
  <1>2. n \in Int /\ y = Grain * n + (y % Grain) /\ y % Grain \in Int /\ 0 <= y % Grain /\ y % Grain < Grain
    BY <1>1, SMTT(30)
  <1> HIDE DEF n
  <1>3. Grain * n \in Int
    BY <1>1, <1>2
  <1>4. Rounded(x) = Grain * n
    BY DEF Rounded, n, y
  <1>5. Rounded(x) \in Int /\ Rounded(x) <= y /\ y < Rounded(x) + Grain
    BY <1>1, <1>2, <1>3, <1>4
  <1> QED BY <1>5 DEF y

\* Rounding does not reverse two numbers.
LEMMA RoundedKeepsOrder ==
    ASSUME NEW x \in Int, NEW y \in Int, x <= y
    PROVE  Rounded(x) <= Rounded(y)
  <1> DEFINE h == Grain \div 2
             m == (x + h) \div Grain
             n == (y + h) \div Grain
  <1>1. Grain \in Nat /\ Grain > 0 /\ h \in Int
    BY RulesAssumption
  <1>2. m \in Int /\ n \in Int /\ Rounded(x) = Grain * m /\ Rounded(y) = Grain * n
    BY <1>1 DEF Rounded
  <1>3. Grain * m <= x + h /\ y + h < Grain * n + Grain
    BY <1>2, RoundedIs
  <1> HIDE DEF h, m, n
  <1>4. CASE m <= n
    BY <1>1, <1>2, <1>4
  <1>5. CASE m > n
    <2>1. m >= n + 1
      BY <1>2, <1>5
    <2>2. Grain * m >= Grain * (n + 1)
      BY <1>1, <1>2, <2>1
    <2>3. Grain * (n + 1) = Grain * n + Grain
      BY <1>1, <1>2
    <2>4. Grain * m \in Int /\ Grain * n \in Int
      BY <1>1, <1>2
    <2> QED BY <1>1, <1>3, <2>2, <2>3, <2>4
  <1> QED BY <1>2, <1>4, <1>5

\* A ticket on one side: its stop lies beyond the marks and the entry, its targets in
\* order on the other side, as far as rounding leaves them apart.
LEMMA TicketIs ==
    ASSUME NEW f, NEW side \in {"long", "short"},
           f.close \in Int, f.atr \in Nat, f.atr >= 7,
           f.support \in Int, f.resistance \in Int, f.pivot_low \in Int, f.pivot_high \in Int
    PROVE  LET t == BuildTicket(side, f)
               away == IF t.side = "short" THEN -1 ELSE 1
               stop == away * (t.entry - t.stop)
               beyond == IF t.side = "short" THEN t.stop - Larger(f.resistance, f.pivot_high)
                                             ELSE Smaller(f.support, f.pivot_low) - t.stop
               reward == [k \in 1..3 |-> away * (t.targets[k] - t.entry)]
           IN  /\ stop >= 0 /\ stop + Grain >= (13 * f.atr) \div 10
               /\ 2 * beyond >= -Grain
               /\ 0 <= reward[1] /\ reward[1] <= reward[2] /\ reward[2] <= reward[3]
               /\ Distance(2 * reward[2], 5 * stop) < 7 * Grain
               /\ 3 * f.atr >= 20 * Grain =>
                     /\ stop > 0 /\ beyond > 0
                     /\ 0 < reward[1] /\ reward[1] < reward[2] /\ reward[2] < reward[3]
  <1> DEFINE t == BuildTicket(side, f)
             entry == f.close
             x == (23 * f.atr) \div 20
             y == (3 * f.atr) \div 20
             z == (9 * f.atr) \div 20
             far == (13 * f.atr) \div 10
             h == Grain \div 2
             wide == 3 * f.atr >= 20 * Grain
             away == IF side = "short" THEN -1 ELSE 1
             at == IF side = "short" THEN ShortStop(f) ELSE LongStop(f)
             risk == Larger(away * (entry - at), z)
             mark == IF side = "short" THEN Larger(f.resistance, f.pivot_high)
                                       ELSE Smaller(f.support, f.pivot_low)
             d == away * (entry - at)
  <1>1. /\ x \in Nat /\ y \in Nat /\ z \in Nat /\ y > 0 /\ z <= x
        /\ x + y >= far - 1 /\ far \in Nat
    OBVIOUS
  <1>2. /\ Grain \in Nat /\ Grain > 0 /\ h \in Nat /\ 2 * h <= Grain /\ Grain <= 2 * h + 1
        /\ wide \in BOOLEAN /\ (wide => y >= Grain)
    BY RulesAssumption
  <1>3. /\ t.side = side /\ t.entry = Rounded(entry) /\ t.stop = Rounded(at)
        /\ t.targets[1] = Rounded(entry + away * ((3 * risk) \div 2))
        /\ t.targets[2] = Rounded(entry + away * ((5 * risk) \div 2))
        /\ t.targets[3] = Rounded(entry + away * 4 * risk)
    BY DEF BuildTicket
  <1> HIDE DEF t, risk
  \* The stop before rounding.
  <1>4. at \in Int /\ mark \in Int /\ d \in Int /\ d >= x + y /\ risk = d /\ away * (at - mark) <= -y
    <2>1. CASE side = "short"
      <3>1. mark \in Int
        BY TwoNumbers
      <3>2. at = Larger(mark, entry + x) + y
        BY <2>1 DEF ShortStop
      <3> HIDE DEF mark, x, y, z, at
      <3>3. at \in Int /\ at - mark >= y /\ at - entry >= x + y
        BY <1>1, <3>1, <3>2 DEF Larger
      <3>4. d = at - entry /\ away * (at - mark) = mark - at
        BY <2>1, <3>1, <3>3
      <3> QED BY <1>1, <3>1, <3>3, <3>4 DEF Larger, risk
    <2>2. CASE side = "long"
      <3>1. mark \in Int
        BY TwoNumbers
      <3>2. at = Smaller(mark, entry - x) - y
        BY <2>2 DEF LongStop
      <3> HIDE DEF mark, x, y, z, at
      <3>3. at \in Int /\ mark - at >= y /\ entry - at >= x + y
        BY <1>1, <3>1, <3>2 DEF Smaller
      <3>4. d = entry - at /\ away * (at - mark) = at - mark
        BY <2>2, <3>1, <3>3
      <3> QED BY <1>1, <3>1, <3>3, <3>4 DEF Larger, risk
    <2> QED BY <2>1, <2>2
  <1> DEFINE p == (3 * d) \div 2
             q == (5 * d) \div 2
             e == Rounded(entry)
             s == Rounded(at)
             t1 == Rounded(entry + away * p)
             t2 == Rounded(entry + away * q)
             t3 == Rounded(entry + away * 4 * d)
  <1>5. /\ p \in Int /\ q \in Int /\ d > 0 /\ d >= far - 1 /\ p >= d /\ q - p >= d /\ 4 * d - q >= d
        /\ 5 * d - 1 <= 2 * q /\ 2 * q <= 5 * d
    <2> HIDE DEF x, y, far
    <2>1. d \in Int /\ d > 0 /\ d >= far - 1
      BY <1>1, <1>4
    <2> HIDE DEF d
    <2> QED BY <2>1
  <1>6. /\ t.side = side /\ t.entry = e /\ t.stop = s
        /\ t.targets[1] = t1 /\ t.targets[2] = t2 /\ t.targets[3] = t3
    BY <1>3, <1>4
  <1>7. \A u \in Int : /\ Rounded(u) \in Int
                       /\ Rounded(u) <= u + h /\ u + h < Rounded(u) + Grain
    BY RoundedIs
  <1>8. \A u, v \in Int : u <= v => Rounded(u) <= Rounded(v)
    BY RoundedKeepsOrder
  <1> HIDE DEF x, y, z, far, h, wide, at, mark, d, p, q
  <1>9. LET stop == away * (e - s)
            beyond == IF side = "short" THEN s - mark ELSE mark - s
            r1 == away * (t1 - e)
            r2 == away * (t2 - e)
            r3 == away * (t3 - e)
        IN  /\ stop \in Int /\ r2 \in Int
            /\ stop >= 0 /\ stop + Grain >= far
            /\ 2 * beyond >= -Grain
            /\ 0 <= r1 /\ r1 <= r2 /\ r2 <= r3
            /\ 2 * r2 - 5 * stop < 7 * Grain /\ 5 * stop - 2 * r2 < 7 * Grain
            /\ wide => stop > 0 /\ beyond > 0 /\ 0 < r1 /\ r1 < r2 /\ r2 < r3
    <2>1. CASE side = "short"
      <3>1. away = -1
        BY <2>1
      <3>2. d = at - entry /\ at - mark >= y
        BY <1>1, <1>4, <3>1 DEF d
      <3>3. t1 = Rounded(entry - p) /\ t2 = Rounded(entry - q) /\ t3 = Rounded(entry - 4 * d)
        BY <1>4, <1>5, <3>1
      <3> HIDE DEF e, s, t1, t2, t3, away
      <3>4. /\ e \in Int /\ e <= entry + h /\ entry + h < e + Grain
            /\ s \in Int /\ s <= at + h /\ at + h < s + Grain
        BY <1>4, <1>7 DEF e, s
      <3>5. /\ t1 \in Int /\ t1 <= entry - p + h /\ entry - p + h < t1 + Grain
            /\ t2 \in Int /\ t2 <= entry - q + h /\ entry - q + h < t2 + Grain
            /\ t3 \in Int /\ t3 <= entry - 4 * d + h /\ entry - 4 * d + h < t3 + Grain
        BY <1>4, <1>5, <1>7, <3>3
      <3>6. e <= s /\ t1 <= e /\ t2 <= t1 /\ t3 <= t2
        BY <1>4, <1>5, <1>8, <3>2, <3>3 DEF e, s
      <3> QED BY <1>1, <1>2, <1>4, <1>5, <2>1, <3>1, <3>2, <3>4, <3>5, <3>6, SMTT(30)
    <2>2. CASE side = "long"
      <3>1. away = 1
        BY <2>2
      <3>2. d = entry - at /\ mark - at >= y
        BY <1>1, <1>4, <3>1 DEF d
      <3>3. t1 = Rounded(entry + p) /\ t2 = Rounded(entry + q) /\ t3 = Rounded(entry + 4 * d)
        BY <1>4, <1>5, <3>1
      <3> HIDE DEF e, s, t1, t2, t3, away
      <3>4. /\ e \in Int /\ e <= entry + h /\ entry + h < e + Grain
            /\ s \in Int /\ s <= at + h /\ at + h < s + Grain
        BY <1>4, <1>7 DEF e, s
      <3>5. /\ t1 \in Int /\ t1 <= entry + p + h /\ entry + p + h < t1 + Grain
            /\ t2 \in Int /\ t2 <= entry + q + h /\ entry + q + h < t2 + Grain
            /\ t3 \in Int /\ t3 <= entry + 4 * d + h /\ entry + 4 * d + h < t3 + Grain
        BY <1>4, <1>5, <1>7, <3>3
      <3>6. s <= e /\ e <= t1 /\ t1 <= t2 /\ t2 <= t3
        BY <1>4, <1>5, <1>8, <3>2, <3>3 DEF e, s
      <3> QED BY <1>1, <1>2, <1>4, <1>5, <2>2, <3>1, <3>2, <3>4, <3>5, <3>6, SMTT(30)
    <2> QED BY <2>1, <2>2
  <1> DEFINE stop == away * (e - s)
             beyond == IF side = "short" THEN s - mark ELSE mark - s
             reward == [k \in 1..3 |-> away * (t.targets[k] - e)]
  <1>10. reward[1] = away * (t1 - e) /\ reward[2] = away * (t2 - e) /\ reward[3] = away * (t3 - e)
    BY <1>6
  <1>11. Distance(2 * reward[2], 5 * stop) < 7 * Grain
    <2> DEFINE r2 == reward[2]
    <2>1. r2 \in Int /\ stop \in Int /\ 2 * r2 - 5 * stop < 7 * Grain /\ 5 * stop - 2 * r2 < 7 * Grain
      BY <1>9, <1>10
    <2> HIDE DEF r2, stop
    <2>2. Distance(2 * r2, 5 * stop) < 7 * Grain
      BY <1>2, <2>1 DEF Distance
    <2> QED BY <2>2 DEF r2
  <1>12. /\ stop >= 0 /\ stop + Grain >= far
         /\ 2 * beyond >= -Grain
         /\ 0 <= reward[1] /\ reward[1] <= reward[2] /\ reward[2] <= reward[3]
         /\ wide => stop > 0 /\ beyond > 0
                    /\ 0 < reward[1] /\ reward[1] < reward[2] /\ reward[2] < reward[3]
    BY <1>9, <1>10
  <1> HIDE DEF e, s
  <1> QED BY <1>6, <1>11, <1>12, ZenonT(30) DEF t, far, wide, mark

\* Whatever window, rule and readings a hit is from, its ticket's stop and targets are in
\* order.
THEOREM TicketsOrdered == Spec => []TicketsAreOrdered
  <1>1. WindowOK => TicketsAreOrdered
    <2> SUFFICES ASSUME WindowOK, Len(candles) >= 2,
                        NEW rule \in Rules, NEW r \in Readings,
                        NEW h \in EvaluateRule(rule, Structure(candles), r), NEW t \in h.ticket
                 PROVE  LET s == Structure(candles)
                            away == IF t.side = "short" THEN -1 ELSE 1
                            stop == away * (t.entry - t.stop)
                            beyond == IF t.side = "short" THEN t.stop - Larger(s.resistance, s.pivot_high)
                                                          ELSE Smaller(s.support, s.pivot_low) - t.stop
                            reward == [k \in 1..3 |-> away * (t.targets[k] - t.entry)]
                        IN  /\ stop >= 0 /\ stop + Grain >= (13 * s.atr) \div 10
                            /\ 2 * beyond >= -Grain
                            /\ 0 <= reward[1] /\ reward[1] <= reward[2] /\ reward[2] <= reward[3]
                            /\ Distance(2 * reward[2], 5 * stop) < 7 * Grain
                            /\ 3 * s.atr >= 20 * Grain =>
                                  /\ stop > 0 /\ beyond > 0
                                  /\ 0 < reward[1] /\ reward[1] < reward[2] /\ reward[2] < reward[3]
      BY DEF TicketsAreOrdered, Scanned
    <2> DEFINE s == Structure(candles)
               f == Features(s, r)
               side == InferSide(rule, f)
    <2>1. candles \in Seq(Candles) /\ Len(candles) \in Nat /\ candles # <<>>
      BY DEF WindowOK
    <2>2. /\ {"close", "atr", "pivot_high", "pivot_low", "support", "resistance"} \subseteq DOMAIN s
          /\ "vcp_score" \notin DOMAIN s
          /\ s.close = candles[Len(candles)].close /\ s.atr = Atr(candles)
          /\ s.pivot_high = PivotHigh(candles) /\ s.pivot_low = PivotLow(candles)
          /\ s.support = Support(candles) /\ s.resistance = Resistance(candles)
      BY StructureIs
    <2>3. h = Hit(rule, f)
      BY DEF EvaluateRule
    <2>4. side \in {"long", "short"} /\ t = BuildTicket(side, f)
      <3> HIDE DEF f
      <3>1. side \in {"long", "short", "neutral"}
        BY DEF InferSide
      <3>2. h.ticket = IF side = "neutral" THEN {} ELSE {BuildTicket(side, f)}
        BY <2>3 DEF Hit
      <3> QED BY <3>1, <3>2
    <2> HIDE DEF s
    <2>5. \A x \in DOMAIN s : f[x] = s[x]
      <3>1. "vcp_score" \notin DOMAIN s
        BY <2>2
      <3> QED BY <3>1, FeaturesAre
    <2> HIDE DEF f, side
    <2>6. /\ f.close = s.close /\ f.atr = s.atr
          /\ f.pivot_high = s.pivot_high /\ f.pivot_low = s.pivot_low
          /\ f.support = s.support /\ f.resistance = s.resistance
      BY <2>2, <2>5
    <2>7. s.close \in Int
      <3>1. Len(candles) \in 1..Len(candles)
        BY <2>1
      <3> QED BY <2>1, <2>2, <3>1, LastCandle
    <2>8. /\ s.atr \in Nat /\ s.atr >= 7 /\ s.pivot_high \in Int /\ s.pivot_low \in Int
          /\ s.support \in Int /\ s.resistance \in Int
      BY <2>1, <2>2, AtrFloor, PivotMarks, MarksAre
    <2> QED BY <2>4, <2>6, <2>7, <2>8, TicketIs, ZenonT(30) DEF s
  <1> QED BY <1>1, WindowHolds, PTL

-----------------------------------------------------------------------------
(* Scores *)

\* What conditions weigh together is a number, and not below zero.
LEMMA WeightIs ==
    ASSUME NEW rule \in Rules, NEW places
    PROVE  Weight(rule.conditions, places) \in Nat
  <1> DEFINE conditions == rule.conditions
             parts == [k \in DOMAIN conditions |-> IF k \in places THEN Larger(0, conditions[k].weight) ELSE 0]
             N == Len(conditions)
  <1>1. N \in Nat /\ DOMAIN conditions = 1..N /\ \A k \in 1..N : conditions[k].weight \in Int
    BY RulesAssumption
  <1>2. Weight(conditions, places) = Total(parts)
    BY DEF Weight
  <1> HIDE DEF conditions, N
  <1>3. \A k \in 1..N : Larger(0, conditions[k].weight) \in Nat
    BY <1>1 DEF Larger
  <1>4. parts \in [1..N -> Nat]
    BY <1>1, <1>3
  <1> HIDE DEF parts
  <1>5. parts \in Seq(Int) /\ Len(parts) = N /\ \A n \in 1..N : parts[n] \in Nat
    BY <1>1, <1>4
  <1>6. PICK g : Sums(parts, g) /\ Total(parts) = g[N]
    BY <1>5, TotalIsSum
  <1>7. g[0] \in Nat /\ \A n \in 1..N : g[n - 1] \in Nat => g[n] \in Nat
    BY <1>5, <1>6 DEF Sums
  <1>8. \A n \in 0..N : g[n] \in Nat
    BY <1>1, <1>7, RecursionTyped, Zenon
  <1> QED BY <1>1, <1>2, <1>6, <1>8 DEF conditions

\* The share of the weight that passed is a number.
LEMMA BaseScoreIs ==
    ASSUME NEW rule \in Rules, NEW f
    PROVE  BaseScore(rule, f) \in Int
  <1> DEFINE total == Weight(rule.conditions, DOMAIN rule.conditions)
             passed == Weight(rule.conditions, {k \in DOMAIN rule.conditions : Passes(rule.conditions[k], f)})
  <1>1. total \in Nat /\ passed \in Nat
    BY WeightIs
  <1>2. BaseScore(rule, f) = (10000 * passed) \div (IF total = 0 THEN 100 ELSE total)
    BY DEF BaseScore
  <1> HIDE DEF total, passed
  <1>3. 10000 * passed \in Int /\ (IF total = 0 THEN 100 ELSE total) \in Nat \ {0}
    BY <1>1
  <1> QED BY <1>2, <1>3

\* A rule that asks for anything is not met by its bonus: what passed is worth the
\* minimum but for three points, whatever the conditions and their weights.
THEOREM BonusIsSmall == Spec => []BonusMakesNoSetup
  <1>1. WindowOK => BonusMakesNoSetup
    <2> SUFFICES ASSUME WindowOK, NEW s \in Scanned, NEW rule \in Rules, NEW r \in Readings,
                        rule.min_score > 0, EvaluateRule(rule, s, r) # {}
                 PROVE  BaseScore(rule, Features(s, r))
                          >= rule.min_score - 300
                             + (IF \E p \in Actual("spread_pct", r) : p > 25 THEN 600 ELSE 0)
      BY DEF BonusMakesNoSetup
    <2> DEFINE f == Features(s, r)
               base == BaseScore(rule, f)
               busy == \E v \in Actual("volume_ratio", f) : v >= 150
               wide == \E p \in Actual("spread_pct", f) : p > 25
    <2>1. "vcp_score" \notin DOMAIN s /\ "spread_pct" \notin DOMAIN s
      BY StructureIs DEF Scanned
    <2>2. Actual("spread_pct", f) = Actual("spread_pct", r)
      <3>1. /\ DOMAIN f = {"vcp_score"} \union DOMAIN s \union DOMAIN r
            /\ \A x \in DOMAIN r : x # "vcp_score" /\ x \notin DOMAIN s => f[x] = r[x]
        BY <2>1, FeaturesAre
      <3> HIDE DEF f
      <3> QED BY <2>1, <3>1 DEF Actual
    <2>3. Matches(rule, f)
      BY DEF EvaluateRule
    <2> HIDE DEF f
    <2>4. base \in Int /\ rule.min_score \in Int
      BY BaseScoreIs, RulesAssumption
    <2>5. Adjusted(base, f) =
            LET lifted == IF busy THEN Smaller(10000, base + 300) ELSE base
            IN  IF wide THEN Larger(0, lifted - 600) ELSE lifted
      BY DEF Adjusted
    <2>6. Adjusted(base, f) >= rule.min_score
      BY <2>3 DEF Matches, Score
    <2> HIDE DEF base, busy, wide
    <2>7. base >= rule.min_score - 300 + (IF wide THEN 600 ELSE 0)
      BY <2>4, <2>5, <2>6 DEF Larger, Smaller
    <2> QED BY <2>2, <2>7 DEF base, wide, f
  <1> QED BY <1>1, WindowHolds, PTL
=============================================================================
