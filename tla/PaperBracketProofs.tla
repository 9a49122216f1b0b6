--------------------------- MODULE PaperBracketProofs --------------------------
(***************************************************************************)
(* The paper exchange and its brackets: the lots make up the position,     *)
(* what is recorded replays to it, and neither marks nor operators add     *)
(* exposure, loosen protection or leave work undone.                       *)
(*                                                                         *)
(* The invariant is IInv of PaperBrackets.  Lots of one side are what      *)
(* makes the sum of a book the position it can lose, and an armed trailing *)
(* stop less than a step behind its water mark is what later marks rely on,*)
(* unless the stop is still at a price of its own that the signal gave it. *)
(* The order of the argument is that of the code: one lot and the sums of  *)
(* a book; a history is replayed; each maintenance of a lot keeps it fit;  *)
(* a mark takes the exits of one lot in a loop, then goes through the      *)
(* lots; a route changes one lot; and the steps of the specification are   *)
(* put together at the end.                                                *)
(***************************************************************************)
EXTENDS BracketViews, Recursion

-----------------------------------------------------------------------------
(***************************************************************************)
(* One lot: for all prices, distances and steps, amounts or shares of what *)
(* they are taken of, long and short, a mark or an operator moves the      *)
(* triggers of its stop and of its trailing stop in its favour.  A trailing*)
(* stop that the first target releases is left out, because the release    *)
(* may loosen it.                                                          *)
(*                                                                         *)
(* The lots of a book: the sums OpenQuantity and Exposure of PaperBrackets,*)
(* the reduction of a position lot by lot (_sell_quantity, _buy_quantity   *)
(* of execution.py) and the open lots it leaves.                           *)
(***************************************************************************)

\* No leg of a kind of protection lies behind the one the lot had.
NotLoosened(lot, after) ==
    \A kind \in Protective :
        \A a \in Legs(lot, kind), b \in Legs(after, kind) :
            ~Further(lot, lot.exits[a].price, after.exits[b].price)

\* The lot an operation leaves is the one it was given.
SameLot(lot, after) ==
    /\ after.id = lot.id
    /\ after.dir = lot.dir
    /\ after.entry = lot.entry
    /\ after.plan = lot.plan
    /\ after.original = lot.original
    /\ after.remaining = lot.remaining

\* The legs are of the same kinds in the same order.
SameLegs(lot, after) ==
    /\ DOMAIN after.exits = DOMAIN lot.exits
    /\ \A i \in DOMAIN lot.exits : after.exits[i].kind = lot.exits[i].kind

\* The legs are the same ones, each no worse than before.
Kept(lot, after) ==
    /\ DOMAIN after.exits = DOMAIN lot.exits
    /\ \A i \in DOMAIN lot.exits :
          /\ after.exits[i].kind = lot.exits[i].kind
          /\ lot.exits[i].kind \in Protective =>
                ~Further(lot, lot.exits[i].price, after.exits[i].price)

-----------------------------------------------------------------------------
(***************************************************************************)
(* Comparing prices.                                                       *)
(***************************************************************************)

\* Nearer the market is up for a long lot and down for a short one.
LEMMA FurtherByDirection ==
    ASSUME NEW lot \in Lot, NEW a \in Int, NEW b \in Int
    PROVE  /\ lot.dir = 1 => (Further(lot, a, b) <=> a > b)
           /\ lot.dir = -1 => (Further(lot, a, b) <=> a < b)
BY DEF Further

\* A lot is long or short.
LEMMA DirectionOfLot ==
    ASSUME NEW lot \in Lot
    PROVE  lot.dir = 1 \/ lot.dir = -1
BY DEF Lot

\* Being nearer the market orders the prices.
LEMMA FurtherIsOrder ==
    ASSUME NEW lot \in Lot, NEW a \in Int, NEW b \in Int, NEW c \in Int
    PROVE  /\ ~Further(lot, a, a)
           /\ Further(lot, a, b) => ~Further(lot, b, a)
           /\ ~Further(lot, a, b) /\ ~Further(lot, b, c) => ~Further(lot, a, c)
           /\ Furthest(lot, a, b) \in {a, b}
           /\ ~Further(lot, a, Furthest(lot, a, b))
<1>1. CASE lot.dir = 1
  BY <1>1, FurtherByDirection DEF Furthest
<1>2. CASE lot.dir = -1
  BY <1>2, FurtherByDirection DEF Furthest
<1>. QED
  BY <1>1, <1>2, DirectionOfLot

\* Neither being nearer nor not being nearer breaks in a chain.
LEMMA NotFurtherIsTransitive ==
    ASSUME NEW lot \in Lot, NEW a \in Int, NEW b \in Int, NEW c \in Int,
           ~Further(lot, a, b), ~Further(lot, b, c)
    PROVE  ~Further(lot, a, c)
BY FurtherIsOrder

\* A lot that has the direction of another compares prices as that one does.
LEMMA SameDirection ==
    ASSUME NEW lot, NEW other, lot.dir = other.dir, NEW a, NEW b
    PROVE  Further(lot, a, b) <=> Further(other, a, b)
BY DEF Further

\* What a leg of a bracket is.
LEMMA LegOfLot ==
    ASSUME NEW lot \in Lot, NEW i \in DOMAIN lot.exits
    PROVE  /\ lot.exits \in Seq(Leg)
           /\ lot.exits[i] \in Leg
           /\ lot.exits[i].price \in Int
           /\ lot.exits[i].kind \in Kinds
<1>1. lot.exits \in Seq(Leg)
  BY DEF Lot
<1>2. lot.exits[i] \in Leg
  BY <1>1
<1>. QED
  BY <1>1, <1>2 DEF Leg

\* Legs that are kept one by one are not loosened, given one of each kind.
LEMMA KeptIsNotLoosened ==
    ASSUME NEW lot \in Lot, NEW after, OneEach(lot), Kept(lot, after)
    PROVE  NotLoosened(lot, after)
<1>. SUFFICES ASSUME NEW kind \in Protective, NEW a \in Legs(lot, kind),
                     NEW b \in Legs(after, kind)
              PROVE  ~Further(lot, lot.exits[a].price, after.exits[b].price)
  BY DEF NotLoosened
<1>1. b \in Legs(lot, kind)
  BY DEF Kept, Legs
<1>2. a = b
  BY <1>1 DEF OneEach
<1>. QED
  BY <1>1, <1>2 DEF Kept, Legs

-----------------------------------------------------------------------------
(***************************************************************************)
(* Moves of single legs.                                                   *)
(***************************************************************************)

\* A function on an interval from one is a sequence.
LEMMA FunctionIsSequence ==
    ASSUME NEW S, NEW n \in Nat, NEW f \in [1 .. n -> S]
    PROVE  f \in Seq(S)
OBVIOUS

\* Other legs make the same lot with other legs.
LEMMA LegsMoved ==
    ASSUME NEW lot \in Lot, NEW exits \in Seq(Leg)
    PROVE  /\ [lot EXCEPT !.exits = exits] \in Lot
           /\ [lot EXCEPT !.exits = exits].exits = exits
           /\ SameLot(lot, [lot EXCEPT !.exits = exits])
           /\ [lot EXCEPT !.exits = exits].water = lot.water
           /\ [lot EXCEPT !.exits = exits].activated = lot.activated
BY DEF Lot, SameLot

\* What trails: a lot or an entry.
Trailer(x) == x.dir \in {1, -1} /\ x.plan \in Plan

\* A lot is one.
LEMMA LotTrails ==
    ASSUME NEW lot \in Lot
    PROVE  Trailer(lot)
BY DEF Lot, Trailer

\* The numbers of a plan.
LEMMA PlanNumbers ==
    ASSUME NEW x, Trailer(x)
    PROVE  /\ x.dir \in Int
           /\ x.plan.distance \in Nat /\ x.plan.distancePct \in Nat
           /\ x.plan.trailPrice \in Nat /\ x.plan.step \in Nat /\ x.plan.stepPct \in Nat
BY DEF Trailer, Plan

\* Water marks and triggers are whole, and the mark that a trigger implies is one
\* whose trigger it is (_sync_trailing_water_mark).
LEMMA Distances ==
    ASSUME NEW x, Trailer(x)
    PROVE  /\ Scale(x) \in Int
           /\ \A price \in Int : MarkAt(x, price) \in Int
           /\ \A water \in Int : TriggerBehind(x, water) \in Int
           /\ \A trigger \in Int :
                 /\ ImpliedBy(x, trigger) \in Int
                 /\ TriggerBehind(x, ImpliedBy(x, trigger)) = trigger
<1>. DEFINE d == x.dir * x.plan.distance
            p == x.dir * x.plan.distancePct
<1>1. d \in Int /\ p \in Int /\ 100 * x.dir * x.plan.distance = 100 * d
  BY PlanNumbers DEF Trailer
<1>2. Scale(x) = IF x.plan.distance # 0 THEN 100 ELSE 100 - p
  BY DEF Scale
<1>3. \A water \in Int : TriggerBehind(x, water) = (water - 100 * d + 50) \div 100
  BY <1>1 DEF TriggerBehind, Money
<1>4. \A trigger \in Int : ImpliedBy(x, trigger) = 100 * (trigger + d)
  BY DEF ImpliedBy
<1>. HIDE DEF d, p
<1>5. Scale(x) \in Int
  BY <1>1, <1>2
<1>6. \A price \in Int : MarkAt(x, price) \in Int
  BY <1>5 DEF MarkAt
<1>7. \A water \in Int : TriggerBehind(x, water) \in Int
  BY <1>1, <1>3
<1>8. ASSUME NEW trigger \in Int
      PROVE  /\ ImpliedBy(x, trigger) \in Int
             /\ TriggerBehind(x, ImpliedBy(x, trigger)) = trigger
  <2>1. ImpliedBy(x, trigger) = 100 * (trigger + d) /\ 100 * (trigger + d) \in Int
    BY <1>1, <1>4
  <2>2. TriggerBehind(x, 100 * (trigger + d)) = (100 * (trigger + d) - 100 * d + 50) \div 100
    BY <1>3, <2>1
  <2>3. (100 * (trigger + d) - 100 * d + 50) \div 100 = trigger
    <3>1. 100 * (trigger + d) - 100 * d + 50 = 100 * trigger + 50
      BY <1>1
    <3>2. (100 * trigger + 50) \div 100 = trigger
      OBVIOUS
    <3>. QED
      BY <3>1, <3>2
  <2>. QED
    BY <2>1, <2>2, <2>3
<1>. QED
  BY <1>5, <1>6, <1>7, <1>8

\* A trigger lies no further for a water mark that lies no further.
LEMMA TriggersInOrder ==
    ASSUME NEW lot \in Lot, NEW a \in Int, NEW b \in Int, ~Further(lot, a, b)
    PROVE  ~Further(lot, TriggerBehind(lot, a), TriggerBehind(lot, b))
<1>. DEFINE d == lot.dir * lot.plan.distance
<1>1. d \in Int /\ 100 * lot.dir * lot.plan.distance = 100 * d
  BY PlanNumbers, LotTrails DEF Trailer
<1>2. /\ TriggerBehind(lot, a) = (a - 100 * d + 50) \div 100
      /\ TriggerBehind(lot, b) = (b - 100 * d + 50) \div 100
  BY <1>1 DEF TriggerBehind, Money
<1>. HIDE DEF d
<1>3. CASE lot.dir = 1
  <2>1. a <= b
    BY <1>3 DEF Further
  <2>. QED
    BY <1>1, <1>2, <1>3, <2>1 DEF Further
<1>4. CASE lot.dir = -1
  <2>1. b <= a
    BY <1>4 DEF Further
  <2>. QED
    BY <1>1, <1>2, <1>4, <2>1 DEF Further
<1>. QED
  BY <1>3, <1>4, DirectionOfLot

\* What trails has a price that is one, and does not trail by all of it.
Sized(x) == x.entry > 0 /\ Scale(x) > 0

\* A trailing stop does not depend on anything but the entry and its plan.
LEMMA TrailsAlike ==
    ASSUME NEW x, NEW y, y.dir = x.dir, y.plan = x.plan
    PROVE  /\ Scale(y) = Scale(x)
           /\ \A price : MarkAt(y, price) = MarkAt(x, price)
           /\ \A water : TriggerBehind(y, water) = TriggerBehind(x, water)
           /\ \A trigger : ImpliedBy(y, trigger) = ImpliedBy(x, trigger)
           /\ \A current : Step(y, current) = Step(x, current)
           /\ y.entry = x.entry => (Sized(y) <=> Sized(x))
BY DEF Scale, MarkAt, TriggerBehind, ImpliedBy, Step, Sized

\* The same lot with other exits.
LEMMA SameSized ==
    ASSUME NEW lot, NEW after, SameLot(lot, after)
    PROVE  Sized(after) <=> Sized(lot)
BY TrailsAlike DEF SameLot

\* The water mark of a price is positive, and so is what trails that of a short lot.
LEMMA MarkIsPositive ==
    ASSUME NEW x, Trailer(x), Scale(x) > 0, NEW price \in Int, price > 0
    PROVE  /\ MarkAt(x, price) > 0
           /\ x.dir = -1 => TriggerBehind(x, MarkAt(x, price)) > 0
<1>. DEFINE s == Scale(x)
            n == x.plan.distance
<1>1. s \in Int /\ s > 0 /\ n \in Nat
  BY Distances, PlanNumbers
<1>2. MarkAt(x, price) = s * price
  BY DEF MarkAt
<1>3. s * price \in Int /\ s * price > 0
  BY <1>1
<1>4. ASSUME x.dir = -1
      PROVE  TriggerBehind(x, s * price) > 0
  <2>1. s >= 100
    BY <1>4, PlanNumbers DEF Scale
  <2>2. s * price >= 100
    BY <1>1, <2>1
  <2>3. 100 * x.dir * n = -100 * n
    BY <1>1, <1>4
  <2>4. TriggerBehind(x, s * price) = (s * price - (-100 * n) + 50) \div 100
    BY <2>3 DEF TriggerBehind, Money
  <2>. HIDE DEF s, n
  <2>5. s * price - (-100 * n) + 50 \in Int /\ s * price - (-100 * n) + 50 >= 100
    BY <1>1, <1>3, <2>2
  <2>. QED
    BY <2>4, <2>5
<1>. QED
  BY <1>2, <1>3, <1>4

\* A step is whole.
LEMMA StepOfLot ==
    ASSUME NEW lot \in Lot
    PROVE  \A current \in Int : Step(lot, current) \in Int
BY LotTrails, PlanNumbers DEF Step

\* The water mark of a lot, that of its entry where none has been set.
LEMMA WaterOfLot ==
    ASSUME NEW lot \in Lot
    PROVE  Water(lot) \in Int
<1>1. lot.water \in {NoWater} \cup Int /\ lot.entry \in Int
  BY DEF Lot
<1>2. MarkAt(lot, lot.entry) \in Int
  BY <1>1, LotTrails, Distances
<1>. QED
  BY <1>1, <1>2 DEF Water

\* Arming a trailing stop leaves the legs alone.
LEMMA SyncWaterKeepsLegs ==
    ASSUME NEW lot \in Lot, NEW trigger \in Int
    PROVE  /\ SyncWater(lot, trigger) \in Lot
           /\ SyncWater(lot, trigger).exits = lot.exits
           /\ SameLot(lot, SyncWater(lot, trigger))
           /\ SyncWater(lot, trigger).activated = TRUE
           /\ SyncWater(lot, trigger).water =
                IF Trails(lot.plan) THEN Furthest(lot, ImpliedBy(lot, trigger), Water(lot))
                ELSE lot.water
<1>. DEFINE water == IF Trails(lot.plan) THEN Furthest(lot, ImpliedBy(lot, trigger), Water(lot))
                     ELSE lot.water
<1>1. lot.water \in {NoWater} \cup Int
  BY DEF Lot
<1>2. ImpliedBy(lot, trigger) \in Int
  BY LotTrails, Distances
<1>3. water \in {NoWater} \cup Int
  BY <1>1, <1>2, WaterOfLot DEF Furthest
<1>4. SyncWater(lot, trigger) = [lot EXCEPT !.activated = TRUE, !.water = water]
  BY DEF SyncWater
<1>. HIDE DEF water
<1>5. /\ SyncWater(lot, trigger) \in Lot
      /\ SyncWater(lot, trigger).exits = lot.exits
      /\ SameLot(lot, SyncWater(lot, trigger))
      /\ SyncWater(lot, trigger).activated = TRUE
      /\ SyncWater(lot, trigger).water = water
  BY <1>3, <1>4 DEF Lot, SameLot
<1>. QED
  BY <1>5 DEF water

\* The legs protection is moved on, and the rest of the lot as it was.
LEMMA ProtectMoves ==
    ASSUME NEW lot \in Lot, NEW price \in Int
    PROVE  /\ Protect(lot, price) \in Lot
           /\ SameLot(lot, Protect(lot, price))
           /\ Protect(lot, price).exits =
                [i \in DOMAIN lot.exits |->
                   IF i \in Looser(lot, price)
                   THEN [lot.exits[i] EXCEPT !.price = price, !.status = "open"]
                   ELSE lot.exits[i]]
<1>. DEFINE exits == [i \in DOMAIN lot.exits |->
                        IF i \in Looser(lot, price)
                        THEN [lot.exits[i] EXCEPT !.price = price, !.status = "open"]
                        ELSE lot.exits[i]]
            moved == [lot EXCEPT !.exits = exits]
<1>1. exits \in Seq(Leg)
  <2>1. lot.exits \in Seq(Leg)
    BY DEF Lot
  <2>2. ASSUME NEW i \in DOMAIN lot.exits
        PROVE  exits[i] \in Leg
    BY <2>2, LegOfLot DEF Leg, Statuses
  <2>3. DOMAIN lot.exits = 1 .. Len(lot.exits) /\ Len(lot.exits) \in Nat
    BY <2>1
  <2>4. exits \in [1 .. Len(lot.exits) -> Leg]
    BY <2>2, <2>3
  <2>. QED
    BY <2>3, <2>4, FunctionIsSequence
<1>2. /\ moved \in Lot
      /\ moved.exits = exits
      /\ SameLot(lot, moved)
  BY <1>1, LegsMoved
<1>3. Protect(lot, price) = moved \/ Protect(lot, price) = SyncWater(moved, price)
  BY DEF Protect
<1>. HIDE DEF moved, exits
<1>4. CASE Protect(lot, price) = moved
  BY <1>2, <1>4 DEF exits
<1>5. CASE Protect(lot, price) = SyncWater(moved, price)
  <2>1. /\ SyncWater(moved, price) \in Lot
        /\ SyncWater(moved, price).exits = exits
        /\ SameLot(lot, SyncWater(moved, price))
    BY <1>2, SyncWaterKeepsLegs DEF SameLot
  <2>. QED
    BY <1>5, <2>1 DEF exits
<1>. QED
  BY <1>3, <1>4, <1>5

\* Moving protection to a price takes up only legs that this tightens.
LEMMA ProtectKeeps ==
    ASSUME NEW lot \in Lot, NEW price \in Int
    PROVE  Kept(lot, Protect(lot, price))
<1>. DEFINE after == Protect(lot, price)
<1>. DEFINE moved(i) == IF i \in Looser(lot, price)
                        THEN [lot.exits[i] EXCEPT !.price = price, !.status = "open"]
                        ELSE lot.exits[i]
<1>1. /\ DOMAIN after.exits = DOMAIN lot.exits
      /\ \A i \in DOMAIN lot.exits : after.exits[i] = moved(i)
  <2>1. after.exits = [i \in DOMAIN lot.exits |-> moved(i)]
    BY ProtectMoves
  <2>. QED
    BY <2>1
<1>. HIDE DEF after
<1>2. ASSUME NEW i \in DOMAIN lot.exits
      PROVE  /\ after.exits[i].kind = lot.exits[i].kind
             /\ ~Further(lot, lot.exits[i].price, after.exits[i].price)
  <2>1. /\ lot.exits[i] \in Leg
        /\ lot.exits[i].price \in Int
    BY LegOfLot
  <2>2. CASE i \in Looser(lot, price)
    <3>1. after.exits[i] = [lot.exits[i] EXCEPT !.price = price, !.status = "open"]
      BY <1>1, <2>2
    <3>2. after.exits[i].price = price /\ after.exits[i].kind = lot.exits[i].kind
      BY <2>1, <3>1 DEF Leg
    <3>3. Further(lot, price, lot.exits[i].price)
      BY <2>2 DEF Looser
    <3>. QED
      BY <2>1, <3>2, <3>3, FurtherIsOrder
  <2>3. CASE i \notin Looser(lot, price)
    <3>1. after.exits[i] = lot.exits[i]
      BY <1>1, <2>3
    <3>. QED
      BY <2>1, <3>1, FurtherIsOrder
  <2>. QED
    BY <2>2, <2>3
<1>. QED
  BY <1>1, <1>2 DEF Kept, after

\* Two maintenances in a row that keep the protection.
LEMMA KeptIsTransitive ==
    ASSUME NEW lot \in Lot, NEW middle \in Lot, NEW after \in Lot,
           middle.dir = lot.dir, Kept(lot, middle), Kept(middle, after)
    PROVE  Kept(lot, after)
<1>1. ASSUME NEW i \in DOMAIN lot.exits
      PROVE  /\ after.exits[i].kind = lot.exits[i].kind
             /\ lot.exits[i].kind \in Protective =>
                   ~Further(lot, lot.exits[i].price, after.exits[i].price)
  <2>1. i \in DOMAIN middle.exits /\ i \in DOMAIN after.exits
    BY DEF Kept
  <2>2. /\ lot.exits[i].price \in Int
        /\ middle.exits[i].price \in Int
        /\ after.exits[i].price \in Int
    BY <2>1, LegOfLot
  <2>3. /\ middle.exits[i].kind = lot.exits[i].kind
        /\ after.exits[i].kind = middle.exits[i].kind
    BY <2>1 DEF Kept
  <2>4. lot.exits[i].kind \in Protective =>
          /\ ~Further(lot, lot.exits[i].price, middle.exits[i].price)
          /\ ~Further(middle, middle.exits[i].price, after.exits[i].price)
    BY <2>1, <2>3 DEF Kept
  <2>5. Further(middle, middle.exits[i].price, after.exits[i].price)
          <=> Further(lot, middle.exits[i].price, after.exits[i].price)
    BY SameDirection
  <2>6. /\ ~Further(lot, lot.exits[i].price, middle.exits[i].price)
        /\ ~Further(lot, middle.exits[i].price, after.exits[i].price)
        => ~Further(lot, lot.exits[i].price, after.exits[i].price)
    BY <2>2, NotFurtherIsTransitive
  <2>. QED
    BY <2>3, <2>4, <2>5, <2>6
<1>. QED
  BY <1>1 DEF Kept

\* Breakeven keeps the protection and touches neither water mark nor arming.
LEMMA BreakevenMoves ==
    ASSUME NEW lot \in Lot, NEW price \in Int
    PROVE  /\ ApplyBreakeven(lot, price) \in Lot
           /\ SameLot(lot, ApplyBreakeven(lot, price))
           /\ ApplyBreakeven(lot, price).water = lot.water
           /\ ApplyBreakeven(lot, price).activated = lot.activated
           /\ Kept(lot, ApplyBreakeven(lot, price))
<1>. DEFINE exits == [i \in DOMAIN lot.exits |->
                        IF lot.exits[i].kind \in Protective
                        THEN [lot.exits[i] EXCEPT
                                !.price = Furthest(lot, lot.exits[i].price, lot.entry)]
                        ELSE lot.exits[i]]
            moved == [lot EXCEPT !.breakeven = TRUE, !.exits = exits]
<1>1. ApplyBreakeven(lot, price) = lot \/ ApplyBreakeven(lot, price) = moved
  BY DEF ApplyBreakeven
<1>2. lot.exits \in Seq(Leg) /\ lot.entry \in Int
  BY DEF Lot
<1>3. ASSUME NEW i \in DOMAIN lot.exits
      PROVE  /\ exits[i] \in Leg
             /\ exits[i].kind = lot.exits[i].kind
             /\ ~Further(lot, lot.exits[i].price, exits[i].price)
  <2>1. lot.exits[i] \in Leg /\ lot.exits[i].price \in Int
    BY LegOfLot
  <2>2. /\ Furthest(lot, lot.exits[i].price, lot.entry) \in Int
        /\ ~Further(lot, lot.exits[i].price, Furthest(lot, lot.exits[i].price, lot.entry))
        /\ ~Further(lot, lot.exits[i].price, lot.exits[i].price)
    BY <1>2, <2>1, FurtherIsOrder
  <2>3. exits[i] = lot.exits[i]
          \/ exits[i] = [lot.exits[i] EXCEPT
                           !.price = Furthest(lot, lot.exits[i].price, lot.entry)]
    OBVIOUS
  <2>. QED
    BY <2>1, <2>2, <2>3 DEF Leg
<1>4. exits \in Seq(Leg) /\ DOMAIN exits = DOMAIN lot.exits
  <2>1. DOMAIN lot.exits = 1 .. Len(lot.exits) /\ Len(lot.exits) \in Nat
    BY <1>2
  <2>2. exits \in [1 .. Len(lot.exits) -> Leg]
    BY <1>3, <2>1
  <2>. QED
    BY <2>1, <2>2, FunctionIsSequence
<1>. HIDE DEF exits
<1>5. /\ moved \in Lot
      /\ moved.exits = exits
      /\ SameLot(lot, moved)
      /\ moved.water = lot.water
      /\ moved.activated = lot.activated
  BY <1>4 DEF Lot, SameLot
<1>. HIDE DEF moved
<1>6. Kept(lot, moved)
  BY <1>3, <1>4, <1>5 DEF Kept
<1>7. Kept(lot, lot) /\ SameLot(lot, lot)
  BY LegOfLot, FurtherIsOrder DEF Kept, SameLot
<1>. QED
  BY <1>1, <1>5, <1>6, <1>7

\* The legs that breakeven leaves are the same but for the price of the protection.
LEMMA BreakevenLegs ==
    ASSUME NEW lot \in Lot, NEW price \in Int, NEW i \in DOMAIN lot.exits
    PROVE  /\ ApplyBreakeven(lot, price).exits[i].status = lot.exits[i].status
           /\ ApplyBreakeven(lot, price).exits[i].pct = lot.exits[i].pct
           /\ lot.exits[i].kind \notin Protective =>
                 ApplyBreakeven(lot, price).exits[i] = lot.exits[i]
<1>. DEFINE exits == [k \in DOMAIN lot.exits |->
                        IF lot.exits[k].kind \in Protective
                        THEN [lot.exits[k] EXCEPT
                                !.price = Furthest(lot, lot.exits[k].price, lot.entry)]
                        ELSE lot.exits[k]]
            moved == [lot EXCEPT !.breakeven = TRUE, !.exits = exits]
<1>1. ApplyBreakeven(lot, price) = lot \/ ApplyBreakeven(lot, price) = moved
  BY DEF ApplyBreakeven
<1>2. lot.exits[i] \in Leg
  BY LegOfLot
<1>3. /\ exits[i].status = lot.exits[i].status
      /\ exits[i].pct = lot.exits[i].pct
      /\ lot.exits[i].kind \notin Protective => exits[i] = lot.exits[i]
  BY <1>2 DEF Leg
<1>. HIDE DEF exits
<1>4. moved.exits = exits
  BY DEF Lot
<1>. QED BY <1>1, <1>3, <1>4

-----------------------------------------------------------------------------
(***************************************************************************)
(* The trailing stop.                                                      *)
(***************************************************************************)

\* The price of the trailing stop is the price of its one leg.
LEMMA TrailLeg ==
    ASSUME NEW lot \in Lot, OneEach(lot), NEW i \in Legs(lot, "trailing_stop")
    PROVE  TrailPrice(lot) = lot.exits[i].price
<1>1. \A j \in Legs(lot, "trailing_stop") : j = i
  BY DEF OneEach, Protective
<1>2. i \in Int
  BY LegOfLot DEF Legs
<1>3. \A j \in Legs(lot, "trailing_stop") : i <= j
  BY <1>1, <1>2
<1>4. FirstLeg(Legs(lot, "trailing_stop")) \in Legs(lot, "trailing_stop")
  BY <1>3 DEF FirstLeg
<1>. QED
  BY <1>1, <1>4 DEF TrailPrice

\* Moving the trailing leg to a trigger that is no worse keeps the legs.
LEMMA RetrailedMoves ==
    ASSUME NEW lot \in Lot, NEW trigger \in Int
    PROVE  /\ Retrailed(lot, trigger) \in Lot
           /\ SameLot(lot, Retrailed(lot, trigger))
           /\ Retrailed(lot, trigger).water = lot.water
           /\ Retrailed(lot, trigger).activated = lot.activated
           /\ SameLegs(lot, Retrailed(lot, trigger))
           /\ Legs(Retrailed(lot, trigger), "trailing_stop") = Legs(lot, "trailing_stop")
           /\ \A i \in Legs(lot, "trailing_stop") :
                 Retrailed(lot, trigger).exits[i].price = trigger
           /\ OneEach(lot) => OneEach(Retrailed(lot, trigger))
           /\ (\A i \in Legs(lot, "trailing_stop") :
                 ~Further(lot, lot.exits[i].price, trigger))
              => Kept(lot, Retrailed(lot, trigger))
<1>. DEFINE exits == [i \in DOMAIN lot.exits |->
                        IF lot.exits[i].kind = "trailing_stop"
                        THEN [lot.exits[i] EXCEPT !.price = trigger, !.status = "open"]
                        ELSE lot.exits[i]]
            moved == [lot EXCEPT !.exits = exits]
<1>1. Retrailed(lot, trigger) = moved
  BY DEF Retrailed
<1>2. lot.exits \in Seq(Leg)
  BY DEF Lot
<1>3. ASSUME NEW i \in DOMAIN lot.exits
      PROVE  /\ exits[i] \in Leg
             /\ exits[i].kind = lot.exits[i].kind
             /\ exits[i].price = IF lot.exits[i].kind = "trailing_stop" THEN trigger
                                 ELSE lot.exits[i].price
  <2>1. lot.exits[i] \in Leg
    BY LegOfLot
  <2>. QED
    BY <2>1 DEF Leg, Statuses
<1>4. exits \in Seq(Leg) /\ DOMAIN exits = DOMAIN lot.exits
  <2>1. DOMAIN lot.exits = 1 .. Len(lot.exits) /\ Len(lot.exits) \in Nat
    BY <1>2
  <2>2. exits \in [1 .. Len(lot.exits) -> Leg]
    BY <1>3, <2>1
  <2>. QED
    BY <2>1, <2>2, FunctionIsSequence
<1>. HIDE DEF exits
<1>5. /\ moved \in Lot
      /\ moved.exits = exits
      /\ SameLot(lot, moved)
      /\ moved.water = lot.water
      /\ moved.activated = lot.activated
  BY <1>4, LegsMoved
<1>. HIDE DEF moved
<1>7. \A kind \in Kinds : Legs(moved, kind) = Legs(lot, kind)
  BY <1>3, <1>4, <1>5 DEF Legs
<1>8. \A i \in Legs(lot, "trailing_stop") : moved.exits[i].price = trigger
  BY <1>3, <1>5 DEF Legs
<1>10. SameLegs(lot, moved)
  BY <1>3, <1>4, <1>5 DEF SameLegs
<1>9. OneEach(lot) => OneEach(moved)
  BY <1>7 DEF OneEach, Protective, Kinds
<1>6. ASSUME \A i \in Legs(lot, "trailing_stop") :
               ~Further(lot, lot.exits[i].price, trigger)
      PROVE  Kept(lot, moved)
  <2>1. ASSUME NEW i \in DOMAIN lot.exits
        PROVE  ~Further(lot, lot.exits[i].price, exits[i].price)
    <3>1. CASE lot.exits[i].kind = "trailing_stop"
      BY <1>3, <1>6, <3>1 DEF Legs
    <3>2. CASE lot.exits[i].kind # "trailing_stop"
      BY <1>3, <3>2, LegOfLot, FurtherIsOrder
    <3>. QED
      BY <3>1, <3>2
  <2>. QED
    BY <1>3, <1>4, <1>5, <2>1 DEF Kept
<1>. QED
  BY <1>1, <1>5, <1>6, <1>7, <1>8, <1>9, <1>10 DEF Kinds

\* A lot whose legs are as they were.
LEMMA KeptItself ==
    ASSUME NEW lot \in Lot, NEW after, after.exits = lot.exits
    PROVE  Kept(lot, after)
BY LegOfLot, FurtherIsOrder DEF Kept

\* Kept is about the legs and the direction alone.
LEMMA KeptByLegs ==
    ASSUME NEW lot \in Lot, NEW other \in Lot, NEW after,
           other.exits = lot.exits, other.dir = lot.dir, Kept(other, after)
    PROVE  Kept(lot, after)
<1>1. \A i \in DOMAIN lot.exits :
        Further(lot, lot.exits[i].price, after.exits[i].price)
          <=> Further(other, other.exits[i].price, after.exits[i].price)
  BY SameDirection
<1>. QED
  BY <1>1 DEF Kept

\* A mark leaves a lot a lot (_update_trailing_stop).
LEMMA UpdateTrailingType ==
    ASSUME NEW lot \in Lot, NEW price \in Int
    PROVE  UpdateTrailing(lot, price) \in Lot /\ SameLot(lot, UpdateTrailing(lot, price))
<1>. DEFINE mark == MarkAt(lot, price)
            water == IF lot.water = NoWater THEN MarkAt(lot, lot.entry) ELSE lot.water
            trigger == TriggerBehind(lot, mark)
            armed == [lot EXCEPT !.activated = TRUE, !.water = mark]
<1>0. /\ mark \in Int
      /\ MarkAt(lot, lot.entry) \in Int
      /\ lot.water \in {NoWater} \cup Int
  BY LotTrails, Distances DEF Lot
<1>1. water \in Int
  BY <1>0
<1>2. trigger \in Int
  BY <1>0, LotTrails, Distances
<1>3. /\ armed \in Lot
      /\ SameLot(lot, armed)
      /\ [lot EXCEPT !.water = water] \in Lot
      /\ SameLot(lot, [lot EXCEPT !.water = water])
      /\ SameLot(lot, lot)
  <2>. HIDE DEF mark, water
  <2>. QED
    BY <1>0, <1>1 DEF Lot, SameLot
<1>4. UpdateTrailing(lot, price)
        \in {lot, [lot EXCEPT !.water = water], armed, Retrailed(armed, trigger)}
  BY DEF UpdateTrailing
<1>. HIDE DEF mark, trigger, armed, water
<1>5. Retrailed(armed, trigger) \in Lot /\ SameLot(lot, Retrailed(armed, trigger))
  BY <1>2, <1>3, RetrailedMoves DEF SameLot
<1>. QED
  BY <1>3, <1>4, <1>5

\* A mark moves the trailing stop only when that tightens it
\* (_update_trailing_stop).
LEMMA UpdateTrailingKeeps ==
    ASSUME NEW lot \in Lot, OneEach(lot), NEW price \in Int
    PROVE  Kept(lot, UpdateTrailing(lot, price))
<1>. DEFINE mark == MarkAt(lot, price)
            water == IF lot.water = NoWater THEN MarkAt(lot, lot.entry) ELSE lot.water
            trigger == TriggerBehind(lot, mark)
            armed == [lot EXCEPT !.activated = TRUE, !.water = mark]
<1>0. /\ mark \in Int
      /\ MarkAt(lot, lot.entry) \in Int
      /\ lot.water \in {NoWater} \cup Int
  BY LotTrails, Distances DEF Lot
<1>1. water \in Int
  BY <1>0
<1>2. trigger \in Int
  BY <1>0, LotTrails, Distances
<1>3. /\ armed \in Lot
      /\ armed.exits = lot.exits
      /\ armed.dir = lot.dir
  <2>. HIDE DEF mark
  <2>. QED
    BY <1>0 DEF Lot
<1>4. \/ UpdateTrailing(lot, price) = lot
      \/ UpdateTrailing(lot, price) = [lot EXCEPT !.water = water]
      \/ UpdateTrailing(lot, price) = armed
      \/ Ratchets(lot, trigger) /\ UpdateTrailing(lot, price) = Retrailed(armed, trigger)
  BY DEF UpdateTrailing
<1>5. [lot EXCEPT !.water = water].exits = lot.exits
  BY DEF Lot
<1>. HIDE DEF mark, trigger, armed, water
<1>6. ASSUME Ratchets(lot, trigger)
      PROVE  Kept(lot, Retrailed(armed, trigger))
  <2>1. ASSUME NEW i \in Legs(armed, "trailing_stop")
        PROVE  ~Further(armed, armed.exits[i].price, trigger)
    <3>1. i \in Legs(lot, "trailing_stop")
      BY <1>3 DEF Legs
    <3>2. Further(lot, trigger, lot.exits[i].price)
      BY <1>6, <3>1, TrailLeg DEF Ratchets
    <3>3. lot.exits[i].price \in Int
      BY <3>1, LegOfLot DEF Legs
    <3>4. ~Further(lot, lot.exits[i].price, trigger)
      BY <1>2, <3>2, <3>3, FurtherIsOrder
    <3>. QED
      BY <1>3, <3>4, SameDirection
  <2>2. Kept(armed, Retrailed(armed, trigger))
    BY <1>2, <1>3, <2>1, RetrailedMoves
  <2>. QED
    BY <1>3, <2>2, KeptByLegs
<1>. QED
  BY <1>3, <1>4, <1>5, <1>6, KeptItself

\* An operator's trailing amendment (_protective_trailing_amendment).
LEMMA AmendTrailKeeps ==
    ASSUME NEW lot \in Lot, OneEach(lot), NEW price \in Int, TrailAllowed(lot, price)
    PROVE  /\ AmendTrail(lot, price) \in Lot
           /\ SameLot(lot, AmendTrail(lot, price))
           /\ Kept(lot, AmendTrail(lot, price))
<1>1. ASSUME NEW i \in Legs(lot, "trailing_stop")
      PROVE  ~Further(lot, lot.exits[i].price, price)
  <2>1. Further(lot, price, lot.exits[i].price)
    BY TrailLeg DEF TrailAllowed
  <2>2. lot.exits[i].price \in Int
    BY LegOfLot DEF Legs
  <2>. QED
    BY <2>1, <2>2, FurtherIsOrder
<1>2. /\ Retrailed(lot, price) \in Lot
      /\ SameLot(lot, Retrailed(lot, price))
      /\ Kept(lot, Retrailed(lot, price))
  BY <1>1, RetrailedMoves
<1>3. /\ AmendTrail(lot, price) \in Lot
      /\ SameLot(lot, AmendTrail(lot, price))
      /\ AmendTrail(lot, price).exits = Retrailed(lot, price).exits
  BY <1>2, SyncWaterKeepsLegs DEF AmendTrail, SameLot
<1>. QED
  BY <1>2, <1>3 DEF Kept

\* tighten_bracket_trailing_stop_to_mark.
LEMMA TightenKeeps ==
    ASSUME NEW lot \in Lot, OneEach(lot), NEW mark \in Int, TightenAllowed(lot, mark)
    PROVE  /\ Tighten(lot, mark) \in Lot
           /\ SameLot(lot, Tighten(lot, mark))
           /\ Kept(lot, Tighten(lot, mark))
<1>. DEFINE wet == [lot EXCEPT !.water = WaterAt(lot, mark)]
<1>1. MarkAt(lot, mark) \in Int
  BY LotTrails, Distances
<1>2. WaterAt(lot, mark) \in Int
  BY <1>1, WaterOfLot DEF WaterAt, Furthest
<1>3. Candidate(lot, mark) \in Int
  BY <1>2, LotTrails, Distances DEF Candidate
<1>4. /\ wet \in Lot
      /\ SameLot(lot, wet)
      /\ wet.exits = lot.exits
      /\ wet.dir = lot.dir
  BY <1>2 DEF Lot, SameLot
<1>5. Tighten(lot, mark) = AmendTrail(wet, Candidate(lot, mark))
  BY DEF Tighten
<1>. HIDE DEF wet
<1>6. OneEach(wet)
  BY <1>4 DEF OneEach, Legs
<1>7. TrailAllowed(wet, Candidate(lot, mark))
  <2>1. TrailAllowed(lot, Candidate(lot, mark))
    BY DEF TightenAllowed
  <2>2. /\ Legs(wet, "trailing_stop") = Legs(lot, "trailing_stop")
        /\ TrailPrice(wet) = TrailPrice(lot)
    BY <1>4 DEF Legs, TrailPrice
  <2>. QED
    BY <1>4, <2>1, <2>2, SameDirection DEF TrailAllowed
<1>8. /\ Tighten(lot, mark) \in Lot
      /\ SameLot(lot, Tighten(lot, mark))
      /\ Kept(wet, Tighten(lot, mark))
  BY <1>3, <1>4, <1>5, <1>6, <1>7, AmendTrailKeeps DEF SameLot
<1>. QED
  BY <1>4, <1>8, KeptByLegs

\* Locking profit after a target (_apply_take_profit_protective_lock).
LEMMA LockAfterTpKeeps ==
    ASSUME NEW lot \in Lot
    PROVE  /\ LockAfterTp(lot) \in Lot
           /\ SameLot(lot, LockAfterTp(lot))
           /\ Kept(lot, LockAfterTp(lot))
<1>. DEFINE at == IF lot.plan.lockAt # 0 THEN lot.plan.lockAt ELSE lot.entry
<1>1. at \in Int
  BY DEF Lot, Plan
<1>2. LockAfterTp(lot) = lot \/ LockAfterTp(lot) = [Protect(lot, at) EXCEPT !.breakeven = TRUE]
  BY DEF LockAfterTp
<1>. HIDE DEF at
<1>3. /\ Protect(lot, at) \in Lot
      /\ SameLot(lot, Protect(lot, at))
      /\ Kept(lot, Protect(lot, at))
  BY <1>1, ProtectMoves, ProtectKeeps
<1>4. /\ [Protect(lot, at) EXCEPT !.breakeven = TRUE].exits = Protect(lot, at).exits
      /\ [Protect(lot, at) EXCEPT !.breakeven = TRUE] \in Lot
      /\ SameLot(lot, [Protect(lot, at) EXCEPT !.breakeven = TRUE])
      /\ SameLot(lot, lot)
  BY <1>3 DEF Lot, SameLot
<1>5. Kept(lot, [Protect(lot, at) EXCEPT !.breakeven = TRUE])
  BY <1>3, <1>4 DEF Kept
<1>. QED
  BY <1>2, <1>3, <1>4, <1>5, KeptItself

-----------------------------------------------------------------------------
(***************************************************************************)
(* Marks.                                                                  *)
(***************************************************************************)

\* Keeping the kinds of the legs keeps at most one leg of each protective kind.
LEMMA OneEachKept ==
    ASSUME NEW lot, NEW after, OneEach(lot), Kept(lot, after)
    PROVE  OneEach(after)
BY DEF OneEach, Kept, Legs

\* Whatever the plan, the price and the history of the lot, breakeven and the
\* ratchet of a mark (update_price) leave no protective trigger behind where it
\* was.
THEOREM MarksTighten ==
    ASSUME NEW lot \in Lot, OneEach(lot), NEW price \in Int
    PROVE  NotLoosened(lot, UpdateTrailing(ApplyBreakeven(lot, price), price))
<1>. DEFINE middle == ApplyBreakeven(lot, price)
            after == UpdateTrailing(middle, price)
<1>1. middle \in Lot /\ middle.dir = lot.dir /\ Kept(lot, middle)
  BY BreakevenMoves DEF SameLot
<1>. HIDE DEF middle
<1>2. OneEach(middle)
  BY <1>1, OneEachKept
<1>3. Kept(middle, after)
  BY <1>1, <1>2, UpdateTrailingKeeps
<1>4. after \in Lot
  BY <1>1, UpdateTrailingType
<1>5. Kept(lot, after)
  BY <1>1, <1>3, <1>4, KeptIsTransitive
<1>. QED
  BY <1>5, KeptIsNotLoosened DEF middle

-----------------------------------------------------------------------------
(***************************************************************************)
(* Operators.                                                              *)
(***************************************************************************)

\* After is the lot with its protection in order and nowhere looser.
Maintains(lot, after) ==
    /\ after \in Lot
    /\ SameLot(lot, after)
    /\ OneEach(after)
    /\ NotLoosened(lot, after)

\* A maintenance that keeps each leg or moves it nearer.
LEMMA KeptMaintains ==
    ASSUME NEW lot \in Lot, OneEach(lot), NEW after \in Lot,
           SameLot(lot, after), Kept(lot, after)
    PROVE  Maintains(lot, after)
BY KeptIsNotLoosened, OneEachKept DEF Maintains

\* A stop in front of the legs of a bracket that had none
\* (_replace_or_append_stop).
LEMMA NewStopMaintains ==
    ASSUME NEW lot \in Lot, OneEach(lot), NEW price \in Int,
           Legs(lot, "stop_loss") = {}
    PROVE  Maintains(lot, AmendStop(lot, price))
<1>. DEFINE stop == Exit("stop_loss", price, 100, "open")
            exits == <<stop>> \o lot.exits
            after == [lot EXCEPT !.exits = exits]
<1>1. stop \in Leg
  BY DEF Exit, Leg, Kinds, Statuses
<1>2. lot.exits \in Seq(Leg)
  BY DEF Lot
<1>. HIDE DEF stop
<1>3. exits \in Seq(Leg)
  BY <1>1, <1>2
<1>4. ASSUME NEW i \in DOMAIN exits
      PROVE  \/ i = 1 /\ exits[i] = stop
             \/ i - 1 \in DOMAIN lot.exits /\ exits[i] = lot.exits[i - 1]
  BY <1>1, <1>2
<1>5. stop.kind = "stop_loss"
  BY DEF stop, Exit
<1>6. AmendStop(lot, price) = after
  BY DEF AmendStop, stop
<1>. HIDE DEF exits
<1>7. after \in Lot /\ after.exits = exits /\ SameLot(lot, after)
  BY <1>3, LegsMoved
<1>. HIDE DEF after
<1>8. \A i \in Legs(after, "trailing_stop") :
        i - 1 \in Legs(lot, "trailing_stop") /\ after.exits[i] = lot.exits[i - 1]
  BY <1>4, <1>5, <1>7 DEF Legs
<1>9. \A i \in Legs(after, "stop_loss") : i = 1
  BY <1>4, <1>7 DEF Legs
<1>10. DOMAIN after.exits \subseteq Int
  BY <1>3, <1>7
<1>11. OneEach(after)
  <2>1. ASSUME NEW a \in Legs(after, "trailing_stop"), NEW b \in Legs(after, "trailing_stop")
        PROVE  a = b
    <3>1. a - 1 = b - 1
      BY <1>8 DEF OneEach, Protective
    <3>. QED
      BY <1>10, <3>1 DEF Legs
  <2>. QED
    BY <1>9, <2>1 DEF OneEach, Protective
<1>12. NotLoosened(lot, after)
  <2>1. ASSUME NEW a \in Legs(lot, "trailing_stop"), NEW b \in Legs(after, "trailing_stop")
        PROVE  ~Further(lot, lot.exits[a].price, after.exits[b].price)
    <3>1. a = b - 1
      BY <1>8 DEF OneEach, Protective
    <3>2. after.exits[b].price = lot.exits[a].price
      BY <1>8, <3>1
    <3>. QED
      BY <3>2, LegOfLot, FurtherIsOrder DEF Legs
  <2>. QED
    BY <2>1 DEF NotLoosened, Protective
<1>. QED
  BY <1>6, <1>7, <1>11, <1>12 DEF Maintains

\* An operator's stop amendment (_protective_stop_amendment).
LEMMA AmendStopMaintains ==
    ASSUME NEW lot \in Lot, OneEach(lot), NEW price \in Int, StopAllowed(lot, price)
    PROVE  Maintains(lot, AmendStop(lot, price))
<1>1. CASE Legs(lot, "stop_loss") = {}
  BY <1>1, NewStopMaintains
<1>2. CASE Legs(lot, "stop_loss") # {}
  <2>. DEFINE stop == Exit("stop_loss", price, 100, "open")
              exits == [i \in DOMAIN lot.exits |->
                          IF lot.exits[i].kind = "stop_loss" THEN stop ELSE lot.exits[i]]
              after == [lot EXCEPT !.exits = exits]
  <2>1. AmendStop(lot, price) = after
    BY <1>2 DEF AmendStop
  <2>2. stop \in Leg /\ stop.kind = "stop_loss" /\ stop.price = price
    BY DEF Exit, Leg, Kinds, Statuses
  <2>. HIDE DEF stop
  <2>3. PICK leg \in Legs(lot, "stop_loss") : TRUE
    BY <1>2
  <2>4. /\ \A i \in Legs(lot, "stop_loss") : i = leg
        /\ leg \in DOMAIN lot.exits
        /\ leg \in Int
    BY <2>3, LegOfLot DEF OneEach, Protective, Legs
  <2>5. FirstLeg(Legs(lot, "stop_loss")) = leg
    <3>1. \A j \in Legs(lot, "stop_loss") : leg <= j
      BY <2>4
    <3>2. FirstLeg(Legs(lot, "stop_loss")) \in Legs(lot, "stop_loss")
      BY <2>3, <3>1 DEF FirstLeg
    <3>. QED
      BY <2>4, <3>2
  <2>6. Further(lot, price, lot.exits[leg].price)
    BY <1>2, <2>5 DEF StopAllowed
  <2>7. ASSUME NEW i \in DOMAIN lot.exits
        PROVE  /\ exits[i] \in Leg
               /\ exits[i].kind = lot.exits[i].kind
               /\ ~Further(lot, lot.exits[i].price, exits[i].price)
    <3>1. lot.exits[i] \in Leg /\ lot.exits[i].price \in Int
      BY LegOfLot
    <3>2. CASE lot.exits[i].kind = "stop_loss"
      <4>1. i = leg
        BY <2>4, <3>2 DEF Legs
      <4>2. exits[i] = stop
        BY <3>2
      <4>. QED
        BY <2>2, <2>6, <3>1, <3>2, <4>1, <4>2, FurtherIsOrder
    <3>3. CASE lot.exits[i].kind # "stop_loss"
      BY <3>1, <3>3, FurtherIsOrder
    <3>. QED
      BY <3>2, <3>3
  <2>8. exits \in Seq(Leg) /\ DOMAIN exits = DOMAIN lot.exits
    <3>1. lot.exits \in Seq(Leg)
      BY DEF Lot
    <3>2. DOMAIN lot.exits = 1 .. Len(lot.exits) /\ Len(lot.exits) \in Nat
      BY <3>1
    <3>3. exits \in [1 .. Len(lot.exits) -> Leg]
      BY <2>7, <3>2
    <3>. QED
      BY <3>2, <3>3, FunctionIsSequence
  <2>. HIDE DEF exits
  <2>9. after \in Lot /\ after.exits = exits /\ SameLot(lot, after)
    BY <2>8, LegsMoved
  <2>. HIDE DEF after
  <2>10. Kept(lot, after)
    BY <2>7, <2>8, <2>9 DEF Kept
  <2>. QED
    BY <2>1, <2>9, <2>10, KeptMaintains
<1>. QED
  BY <1>1, <1>2

\* Manual breakeven (move_bracket_to_breakeven).
LEMMA BreakevenMaintains ==
    ASSUME NEW lot \in Lot, OneEach(lot), Looser(lot, lot.entry) # {}
    PROVE  Maintains(lot, ReplayBreakeven(lot))
<1>. DEFINE protected == Protect(lot, lot.entry)
            after == [protected EXCEPT !.breakeven = TRUE]
<1>1. lot.entry \in Int
  BY DEF Lot
<1>2. protected \in Lot /\ SameLot(lot, protected) /\ Kept(lot, protected)
  BY <1>1, ProtectMoves, ProtectKeeps
<1>. HIDE DEF protected
<1>3. after \in Lot /\ SameLot(lot, after) /\ after.exits = protected.exits
  BY <1>2 DEF Lot, SameLot
<1>4. ReplayBreakeven(lot) = after
  BY DEF ReplayBreakeven, protected
<1>. HIDE DEF after
<1>5. Kept(lot, after)
  BY <1>2, <1>3 DEF Kept
<1>. QED
  BY <1>3, <1>4, <1>5, KeptMaintains

\* A target's amendment and a cancellation touch no protection or remove it.
LEMMA AmendTargetMaintains ==
    ASSUME NEW lot \in Lot, OneEach(lot), NEW index \in Int, NEW price \in Int
    PROVE  Maintains(lot, AmendTarget(lot, index, price))
<1>. DEFINE exits == [i \in DOMAIN lot.exits |->
                        IF i \in Target(lot, index)
                        THEN [lot.exits[i] EXCEPT !.price = price, !.status = "open"]
                        ELSE lot.exits[i]]
            after == [lot EXCEPT !.exits = exits]
<1>1. AmendTarget(lot, index, price) = after
  BY DEF AmendTarget
<1>2. \A i \in Target(lot, index) : lot.exits[i].kind = "take_profit"
  BY DEF Target, Legs
<1>3. ASSUME NEW i \in DOMAIN lot.exits
      PROVE  /\ exits[i] \in Leg
             /\ exits[i].kind = lot.exits[i].kind
             /\ lot.exits[i].kind \in Protective =>
                   ~Further(lot, lot.exits[i].price, exits[i].price)
  <2>1. lot.exits[i] \in Leg /\ lot.exits[i].price \in Int
    BY LegOfLot
  <2>2. CASE i \in Target(lot, index)
    <3>1. exits[i] = [lot.exits[i] EXCEPT !.price = price, !.status = "open"]
      BY <2>2
    <3>2. exits[i] \in Leg /\ exits[i].kind = lot.exits[i].kind
      BY <2>1, <3>1 DEF Leg, Statuses
    <3>. QED
      BY <1>2, <2>2, <3>2 DEF Protective
  <2>3. CASE i \notin Target(lot, index)
    BY <2>1, <2>3, FurtherIsOrder
  <2>. QED
    BY <2>2, <2>3
<1>4. exits \in Seq(Leg) /\ DOMAIN exits = DOMAIN lot.exits
  <2>1. lot.exits \in Seq(Leg)
    BY DEF Lot
  <2>2. DOMAIN lot.exits = 1 .. Len(lot.exits) /\ Len(lot.exits) \in Nat
    BY <2>1
  <2>3. exits \in [1 .. Len(lot.exits) -> Leg]
    BY <1>3, <2>2
  <2>. QED
    BY <2>2, <2>3, FunctionIsSequence
<1>. HIDE DEF exits
<1>5. after \in Lot /\ after.exits = exits /\ SameLot(lot, after)
  BY <1>4, LegsMoved
<1>. HIDE DEF after
<1>6. Kept(lot, after)
  BY <1>3, <1>4, <1>5 DEF Kept
<1>. QED
  BY <1>1, <1>5, <1>6, KeptMaintains

\* A bracket without legs.
LEMMA CancelMaintains ==
    ASSUME NEW lot \in Lot
    PROVE  Maintains(lot, [lot EXCEPT !.exits = <<>>])
<1>. DEFINE after == [lot EXCEPT !.exits = <<>>]
<1>1. after \in Lot /\ after.exits = <<>> /\ SameLot(lot, after)
  <2>1. <<>> \in Seq(Leg)
    OBVIOUS
  <2>. QED
    BY <2>1, LegsMoved
<1>. HIDE DEF after
<1>2. \A kind \in Protective : Legs(after, kind) = {}
  BY <1>1 DEF Legs
<1>. QED
  BY <1>1, <1>2 DEF Maintains, OneEach, NotLoosened, after

-----------------------------------------------------------------------------
(***************************************************************************)
(* The routes.                                                             *)
(***************************************************************************)

\* The book of the paper exchange is well formed.
BookOK == WellFormed(lots)

\* The routes that maintain a bracket, in the order of their code.
MaintenanceStep ==
    \E id \in Ids :
        \/ \E price \in Prices :
              \/ AmendBracketStop(id, price)
              \/ AmendBracketTrailingStop(id, price)
              \/ TightenBracketTrailingStop(id, price)
              \/ \E index \in {0, 1} : AmendBracketTakeProfit(id, index, price)
              \/ LockBracketProfit(id, price)
        \/ MoveBracketToBreakeven(id)
        \/ CancelBracket(id)

\* A step that maintains one lot maintains the book.
LEMMA BookMaintained ==
    ASSUME BookOK, NEW i \in DOMAIN lots, NEW lot, Maintained(i, lot),
           Maintains(lots[i], lot)
    PROVE  /\ BookOK'
           /\ \A k \in DOMAIN lots, j \in DOMAIN lots' :
                 lots[k].id = lots'[j].id => NotLoosened(lots[k], lots'[j])
<1>1. lots \in Seq(Lot)
  BY DEF BookOK, WellFormed
<1>2. lots' = [lots EXCEPT ![i] = lot]
  BY DEF Maintained
<1>3. lot \in Lot /\ lot.id = lots[i].id /\ OneEach(lot) /\ NotLoosened(lots[i], lot)
  BY DEF Maintains, SameLot
<1>4. lots' \in Seq(Lot) /\ DOMAIN lots' = DOMAIN lots
  BY <1>1, <1>2, <1>3
<1>5. \A k \in DOMAIN lots : lots'[k] = IF k = i THEN lot ELSE lots[k]
  BY <1>1, <1>2
<1>6. \A k \in DOMAIN lots : lots[k] \in Lot /\ OneEach(lots[k]) /\ lots'[k].id = lots[k].id
  BY <1>1, <1>3, <1>5 DEF BookOK, WellFormed
<1>7. \A k \in DOMAIN lots' : OneEach(lots'[k])
  BY <1>3, <1>4, <1>5, <1>6
<1>8. \A k, j \in DOMAIN lots' : lots'[k].id = lots'[j].id => k = j
  BY <1>4, <1>6 DEF BookOK, WellFormed
<1>9. BookOK'
  BY <1>4, <1>7, <1>8 DEF BookOK, WellFormed, OneEach, Legs
<1>10. ASSUME NEW k \in DOMAIN lots, NEW j \in DOMAIN lots', lots[k].id = lots'[j].id
       PROVE  NotLoosened(lots[k], lots'[j])
  <2>1. k = j
    BY <1>4, <1>6, <1>10 DEF BookOK, WellFormed
  <2>2. CASE k = i
    BY <1>3, <1>5, <2>1, <2>2
  <2>3. CASE k # i
    <3>1. lots'[j] = lots[k]
      BY <1>5, <2>1, <2>3
    <3>2. Kept(lots[k], lots[k])
      BY <1>6, KeptItself
    <3>. QED
      BY <1>6, <3>1, <3>2, KeptIsNotLoosened
  <2>. QED
    BY <2>2, <2>3
<1>. QED
  BY <1>9, <1>10

\* "Supports protective stop, trailing-stop, take-profit, and manual breakeven
\* amendments; protective exits only tighten risk" (README.md:43): whatever the
\* plans, the prices and the order of requests, none of the routes that maintain
\* a bracket loosens a protective trigger, of its lot or of another one.
THEOREM MaintenanceTightens ==
    ASSUME BookOK, MaintenanceStep
    PROVE  /\ BookOK'
           /\ \A k \in DOMAIN lots, j \in DOMAIN lots' :
                 lots[k].id = lots'[j].id => NotLoosened(lots[k], lots'[j])
<1>1. \A i \in DOMAIN lots : lots[i] \in Lot /\ OneEach(lots[i]) /\ lots[i].entry \in Int
  <2>1. \A i \in DOMAIN lots : lots[i] \in Lot /\ OneEach(lots[i])
    BY DEF BookOK, WellFormed
  <2>. QED
    BY <2>1 DEF Lot
<1>2. Prices \subseteq Int
  BY BracketAssumption
<1>3. \E i \in DOMAIN lots : \E lot : Maintained(i, lot) /\ Maintains(lots[i], lot)
  <2>1. PICK id \in Ids :
          \/ \E price \in Prices :
                \/ AmendBracketStop(id, price)
                \/ AmendBracketTrailingStop(id, price)
                \/ TightenBracketTrailingStop(id, price)
                \/ \E index \in {0, 1} : AmendBracketTakeProfit(id, index, price)
                \/ LockBracketProfit(id, price)
          \/ MoveBracketToBreakeven(id)
          \/ CancelBracket(id)
    BY DEF MaintenanceStep
  <2>2. \A i \in Active(id) : i \in DOMAIN lots
    BY DEF Active
  <2>3. ASSUME NEW price \in Prices, AmendBracketStop(id, price)
        PROVE  \E i \in DOMAIN lots : \E lot : Maintained(i, lot) /\ Maintains(lots[i], lot)
    <3>1. PICK i \in Active(id) :
            StopAllowed(lots[i], price) /\ Maintained(i, AmendStop(lots[i], price))
      BY <2>3 DEF AmendBracketStop
    <3>2. Maintains(lots[i], AmendStop(lots[i], price))
      BY <1>1, <1>2, <2>2, <3>1, AmendStopMaintains
    <3>. QED
      BY <2>2, <3>1, <3>2
  <2>4. ASSUME NEW price \in Prices, AmendBracketTrailingStop(id, price)
        PROVE  \E i \in DOMAIN lots : \E lot : Maintained(i, lot) /\ Maintains(lots[i], lot)
    <3>1. PICK i \in Active(id) :
            TrailAllowed(lots[i], price) /\ Maintained(i, AmendTrail(lots[i], price))
      BY <2>4 DEF AmendBracketTrailingStop
    <3>2. Maintains(lots[i], AmendTrail(lots[i], price))
      BY <1>1, <1>2, <2>2, <3>1, AmendTrailKeeps, KeptMaintains
    <3>. QED
      BY <2>2, <3>1, <3>2
  <2>5. ASSUME NEW price \in Prices, TightenBracketTrailingStop(id, price)
        PROVE  \E i \in DOMAIN lots : \E lot : Maintained(i, lot) /\ Maintains(lots[i], lot)
    <3>1. PICK i \in Active(id) :
            TightenAllowed(lots[i], price) /\ Maintained(i, Tighten(lots[i], price))
      BY <2>5 DEF TightenBracketTrailingStop
    <3>2. Maintains(lots[i], Tighten(lots[i], price))
      BY <1>1, <1>2, <2>2, <3>1, TightenKeeps, KeptMaintains
    <3>. QED
      BY <2>2, <3>1, <3>2
  <2>6. ASSUME NEW price \in Prices, NEW index \in {0, 1},
               AmendBracketTakeProfit(id, index, price)
        PROVE  \E i \in DOMAIN lots : \E lot : Maintained(i, lot) /\ Maintains(lots[i], lot)
    <3>1. PICK i \in Active(id) : Maintained(i, AmendTarget(lots[i], index, price))
      BY <2>6 DEF AmendBracketTakeProfit
    <3>2. Maintains(lots[i], AmendTarget(lots[i], index, price))
      BY <1>1, <1>2, <2>2, AmendTargetMaintains
    <3>. QED
      BY <2>2, <3>1, <3>2
  <2>7. ASSUME NEW price \in Prices, LockBracketProfit(id, price)
        PROVE  \E i \in DOMAIN lots : \E lot : Maintained(i, lot) /\ Maintains(lots[i], lot)
    <3>1. PICK i \in Active(id) : Maintained(i, Protect(lots[i], price))
      BY <2>7 DEF LockBracketProfit
    <3>2. Maintains(lots[i], Protect(lots[i], price))
      BY <1>1, <1>2, <2>2, ProtectMoves, ProtectKeeps, KeptMaintains
    <3>. QED
      BY <2>2, <3>1, <3>2
  <2>8. ASSUME MoveBracketToBreakeven(id)
        PROVE  \E i \in DOMAIN lots : \E lot : Maintained(i, lot) /\ Maintains(lots[i], lot)
    <3>1. PICK i \in Active(id) :
            /\ Looser(lots[i], lots[i].entry) # {}
            /\ Maintained(i, ReplayBreakeven(lots[i]))
      BY <2>8 DEF MoveBracketToBreakeven
    <3>2. Maintains(lots[i], ReplayBreakeven(lots[i]))
      BY <1>1, <2>2, <3>1, BreakevenMaintains
    <3>. QED
      BY <2>2, <3>1, <3>2
  <2>9. ASSUME CancelBracket(id)
        PROVE  \E i \in DOMAIN lots : \E lot : Maintained(i, lot) /\ Maintains(lots[i], lot)
    <3>1. PICK i \in Active(id) : Maintained(i, [lots[i] EXCEPT !.exits = <<>>])
      BY <2>9 DEF CancelBracket
    <3>2. Maintains(lots[i], [lots[i] EXCEPT !.exits = <<>>])
      BY <1>1, <2>2, CancelMaintains
    <3>. QED
      BY <2>2, <3>1, <3>2
  <2>. QED
    BY <2>1, <2>3, <2>4, <2>5, <2>6, <2>7, <2>8, <2>9
<1>. QED
  BY <1>3, BookMaintained

-----------------------------------------------------------------------------
(***************************************************************************)
(* Sums over the lots of a book.                                           *)
(***************************************************************************)

\* The numbers of a lot.
LEMMA LotFields ==
  ASSUME NEW lot \in Lot
  PROVE  /\ lot.dir \in {1, -1}
         /\ lot.remaining \in Int
         /\ lot.original \in Int
         /\ lot.entry \in Int
         /\ lot.exits \in Seq(Leg)
BY DEF Lot

\* The running sum of what a book holds on a side, one lot at a time.
LEMMA QuantitiesStep ==
  ASSUME NEW book \in Seq(Lot), NEW dir
  PROVE  /\ Quantities(book, dir) \in [0 .. Len(book) -> Int]
         /\ Quantities(book, dir)[0] = 0
         /\ \A n \in 1 .. Len(book) :
               Quantities(book, dir)[n] = Quantities(book, dir)[n - 1] + Holds(book[n], dir)
<1>. DEFINE N == Len(book)
            step == [n \in 1 .. N |-> [x \in Int |-> x + Holds(book[n], dir)]]
            Body(g) == [n \in 0 .. N |-> IF n = 0 THEN 0 ELSE g[n - 1] + Holds(book[n], dir)]
            sum == Quantities(book, dir)
<1>1. N \in Nat /\ \A n \in 1 .. N : Holds(book[n], dir) \in Int
  BY LotFields DEF Holds
<1>0. 0 \in Int
  OBVIOUS
<1>2. step \in [1 .. N -> [Int -> Int]]
  BY <1>1
<1>3. PICK g : Iterates(g, N, Int, 0, step)
  <2>. HIDE DEF N, step
  <2>. QED BY <1>0, <1>1, <1>2, RecursionExists, Zenon
<1>. HIDE DEF N
<1>4. \A n \in 1 .. N : g[n] = g[n - 1] + Holds(book[n], dir)
  <2>1. \A n \in 1 .. N : \A x \in Int : step[n][x] = x + Holds(book[n], dir)
    OBVIOUS
  <2>. HIDE DEF step
  <2>. QED BY <1>3, <2>1 DEF Iterates
<1>5. g = Body(g)
  BY <1>1, <1>3, <1>4 DEF Iterates
<1>6. sum = CHOOSE h : h = Body(h)
  BY DEF Quantities, N
<1>7. sum = Body(sum)
  <2>. HIDE DEF Body, sum
  <2>. QED BY <1>5, <1>6
<1>. HIDE DEF sum
<1>8. sum[0] = 0 /\ \A n \in 1 .. N : sum[n] = sum[n - 1] + Holds(book[n], dir)
  BY <1>1, <1>7
<1>9. \A n \in 0 .. N : sum[n] \in Int
  <2>1. sum[0] \in Int
    BY <1>8
  <2>2. \A n \in 1 .. N : sum[n - 1] \in Int => sum[n] \in Int
    BY <1>1, <1>8
  <2>. QED BY <1>1, <2>1, <2>2, RecursionTyped, Zenon
<1>10. sum \in [0 .. N -> Int]
  BY <1>7, <1>9
<1>. QED BY <1>8, <1>10 DEF N, sum

\* What a book holds on a side is a number.
LEMMA OpenQuantityIsSum ==
  ASSUME NEW book \in Seq(Lot), NEW dir
  PROVE  OpenQuantity(book, dir) \in Int
BY QuantitiesStep DEF OpenQuantity

\* Books that hold the same lot by lot hold the same.
LEMMA SumsAgree ==
  ASSUME NEW book \in Seq(Lot), NEW other \in Seq(Lot), NEW dir,
         Len(other) = Len(book),
         \A n \in 1 .. Len(book) : Holds(other[n], dir) = Holds(book[n], dir)
  PROVE  \A n \in 0 .. Len(book) : Quantities(other, dir)[n] = Quantities(book, dir)[n]
<1>. DEFINE N == Len(book)
            a == Quantities(book, dir)
            b == Quantities(other, dir)
            T == {n \in 0 .. N : b[n] = a[n]}
<1>0. N \in Nat
  OBVIOUS
<1>1. 0 \in T
  BY QuantitiesStep
<1>2. ASSUME NEW n \in 1 .. N, n - 1 \in T PROVE n \in T
  <2>1. a[n] = a[n - 1] + Holds(book[n], dir) /\ b[n] = b[n - 1] + Holds(book[n], dir)
    BY QuantitiesStep
  <2>. QED BY <1>2, <2>1
<1>3. \A n \in 0 .. N : n \in T
  <2>. HIDE DEF T
  <2>. QED BY <1>0, <1>1, <1>2, IntervalInduction, Zenon
<1>. QED BY <1>3

\* Books without negative lots.
Solid(book) ==
  /\ book \in Seq(Lot)
  /\ \A i \in DOMAIN book : book[i].remaining >= 0

\* No lot of a solid book holds less than nothing.
LEMMA HoldsIsNatural ==
  ASSUME NEW book, Solid(book), NEW i \in DOMAIN book, NEW dir
  PROVE  Holds(book[i], dir) \in Nat
<1>1. book[i] \in Lot
  BY DEF Solid
<1>. QED BY <1>1, LotFields DEF Holds, Solid

\* Neither do the first lots of the book together.
LEMMA SumsNatural ==
  ASSUME NEW book, Solid(book), NEW dir
  PROVE  \A n \in 0 .. Len(book) : Quantities(book, dir)[n] \in Nat
<1>. DEFINE N == Len(book)
            sum == Quantities(book, dir)
<1>0. book \in Seq(Lot) /\ N \in Nat /\ DOMAIN book = 1 .. N
  BY DEF Solid
<1>1. sum[0] \in Nat
  BY <1>0, QuantitiesStep
<1>2. ASSUME NEW n \in 1 .. N, sum[n - 1] \in Nat PROVE sum[n] \in Nat
  <2>1. sum[n] = sum[n - 1] + Holds(book[n], dir)
    BY <1>0, QuantitiesStep
  <2>2. Holds(book[n], dir) \in Nat
    BY <1>0, HoldsIsNatural
  <2>. QED BY <1>2, <2>1, <2>2
<1>3. \A n \in 1 .. N : sum[n - 1] \in Nat => sum[n] \in Nat
  BY <1>2
<1>. QED BY <1>0, <1>1, <1>3, RecursionTyped, Zenon

\* No lot holds more than all lots of its direction.
LEMMA LotWithinSum ==
  ASSUME NEW book, Solid(book), NEW i \in DOMAIN book, NEW dir
  PROVE  Holds(book[i], dir) <= OpenQuantity(book, dir)
<1>. DEFINE N == Len(book)
            sum == Quantities(book, dir)
            T == {n \in 0 .. N : i <= n => Holds(book[i], dir) <= sum[n]}
<1>0. book \in Seq(Lot) /\ N \in Nat /\ DOMAIN book = 1 .. N /\ i \in 1 .. N
  BY DEF Solid
<1>1. 0 \in T
  BY <1>0
<1>2. ASSUME NEW n \in 1 .. N, n - 1 \in T PROVE n \in T
  <2>1. sum[n] = sum[n - 1] + Holds(book[n], dir)
    BY <1>0, QuantitiesStep
  <2>2. Holds(book[n], dir) \in Nat /\ Holds(book[i], dir) \in Nat
    BY <1>0, HoldsIsNatural
  <2>3. sum[n - 1] \in Nat
    BY <1>0, SumsNatural
  <2>4. i = n => Holds(book[i], dir) <= sum[n]
    BY <2>1, <2>2, <2>3
  <2>5. i <= n - 1 => Holds(book[i], dir) <= sum[n]
    BY <1>2, <2>1, <2>2, <2>3
  <2>. QED BY <1>0, <2>4, <2>5
<1>3. \A n \in 0 .. N : n \in T
  <2>. HIDE DEF T
  <2>. QED BY <1>0, <1>1, <1>2, IntervalInduction, Zenon
<1>4. N \in T
  BY <1>0, <1>3
<1>. QED BY <1>0, <1>4 DEF OpenQuantity

\* Changing one lot changes the sum by as much.
LEMMA SumReplaced ==
  ASSUME NEW book \in Seq(Lot), NEW i \in DOMAIN book, NEW lot \in Lot, NEW dir
  PROVE  OpenQuantity([book EXCEPT ![i] = lot], dir)
            = OpenQuantity(book, dir) + Holds(lot, dir) - Holds(book[i], dir)
<1>. DEFINE N == Len(book)
            other == [book EXCEPT ![i] = lot]
            a == Quantities(book, dir)
            b == Quantities(other, dir)
            more == Holds(lot, dir) - Holds(book[i], dir)
            T == {n \in 0 .. N : b[n] = a[n] + (IF i <= n THEN more ELSE 0)}
<1>0. /\ N \in Nat
      /\ i \in 1 .. N
      /\ other \in Seq(Lot)
      /\ Len(other) = N
      /\ \A n \in 1 .. N : other[n] = IF n = i THEN lot ELSE book[n]
  OBVIOUS
<1>a. \A n \in 1 .. N : Holds(book[n], dir) \in Int
  BY LotFields DEF Holds
<1>b. Holds(lot, dir) \in Int /\ more \in Int
  BY <1>0, <1>a, LotFields DEF Holds
<1>. HIDE DEF other
<1>c. a \in [0 .. N -> Int] /\ b \in [0 .. N -> Int]
  BY <1>0, QuantitiesStep
<1>1. 0 \in T
  BY <1>0, QuantitiesStep
<1>2. ASSUME NEW n \in 1 .. N, n - 1 \in T PROVE n \in T
  <2>1. a[n] = a[n - 1] + Holds(book[n], dir) /\ b[n] = b[n - 1] + Holds(other[n], dir)
    BY <1>0, QuantitiesStep
  <2>2. a[n - 1] \in Int /\ b[n - 1] \in Int
    BY <1>c
  <2>. HIDE DEF a, b
  <2>3. CASE n = i
    <3>1. other[n] = lot /\ book[n] = book[i] /\ i <= n /\ ~(i <= n - 1)
      BY <1>0, <2>3
    <3>2. b[n - 1] = a[n - 1] + 0
      BY <1>2, <3>1
    <3>3. b[n] = a[n] + more
      BY <1>a, <1>b, <2>1, <2>2, <3>1, <3>2
    <3>. QED BY <3>1, <3>3
  <2>4. CASE n # i
    <3>1. other[n] = book[n] /\ (i <= n <=> i <= n - 1)
      BY <1>0, <2>4
    <3>. HIDE DEF more
    <3>. QED BY <1>2, <1>a, <1>b, <2>1, <2>2, <3>1
  <2>. QED BY <2>3, <2>4
<1>3. \A n \in 0 .. N : n \in T
  <2>. HIDE DEF T
  <2>. QED BY <1>0, <1>1, <1>2, IntervalInduction, Zenon
<1>4. N \in T
  BY <1>0, <1>3
<1>5. b[N] = a[N] + more
  BY <1>0, <1>4
<1>. QED BY <1>0, <1>5, <1>a, <1>b, <1>c DEF OpenQuantity, other

\* A lot that is opened adds what it holds.
LEMMA SumAppended ==
  ASSUME NEW book \in Seq(Lot), NEW lot \in Lot, NEW dir
  PROVE  OpenQuantity(Append(book, lot), dir) = OpenQuantity(book, dir) + Holds(lot, dir)
<1>. DEFINE N == Len(book)
            other == Append(book, lot)
            a == Quantities(book, dir)
            b == Quantities(other, dir)
            T == {n \in 0 .. N : b[n] = a[n]}
<1>0. /\ N \in Nat
      /\ other \in Seq(Lot)
      /\ Len(other) = N + 1
      /\ \A n \in 1 .. N : other[n] = book[n]
      /\ other[N + 1] = lot
  OBVIOUS
<1>. HIDE DEF other
<1>1. 0 \in T
  BY <1>0, QuantitiesStep
<1>2. ASSUME NEW n \in 1 .. N, n - 1 \in T PROVE n \in T
  <2>1. n \in 1 .. Len(other) /\ other[n] = book[n]
    BY <1>0
  <2>2. a[n] = a[n - 1] + Holds(book[n], dir)
    BY QuantitiesStep
  <2>3. b[n] = b[n - 1] + Holds(other[n], dir)
    BY <1>0, <2>1, QuantitiesStep
  <2>. QED BY <1>2, <2>1, <2>2, <2>3
<1>3. \A n \in 0 .. N : n \in T
  <2>. HIDE DEF T
  <2>. QED BY <1>0, <1>1, <1>2, IntervalInduction, Zenon
<1>4. b[N] = a[N]
  BY <1>0, <1>3
<1>5. b[N + 1] = b[N] + Holds(lot, dir)
  BY <1>0, QuantitiesStep
<1>. QED BY <1>0, <1>4, <1>5 DEF OpenQuantity, other

-----------------------------------------------------------------------------

\* The open lots of a book, one lot at a time (the comprehension that drops the
\* closed lots).
LEMMA OpenStep ==
  ASSUME NEW book \in Seq(Lot)
  PROVE  \E kept :
            /\ kept \in [0 .. Len(book) -> Seq(Lot)]
            /\ kept[0] = <<>>
            /\ \A n \in 1 .. Len(book) :
                  kept[n] = IF book[n].remaining > 0 THEN Append(kept[n - 1], book[n])
                            ELSE kept[n - 1]
            /\ Open(book) = kept[Len(book)]
<1>. DEFINE N == Len(book)
            Next1(n, x) == IF book[n].remaining > 0 THEN Append(x, book[n]) ELSE x
            step == [n \in 1 .. N |-> [x \in Seq(Lot) |-> Next1(n, x)]]
            Body(g) == [n \in 0 .. N |-> IF n = 0 THEN <<>> ELSE Next1(n, g[n - 1])]
            kept == CHOOSE h : h = Body(h)
<1>1. N \in Nat /\ \A n \in 1 .. N : \A x \in Seq(Lot) : Next1(n, x) \in Seq(Lot)
  OBVIOUS
<1>0. <<>> \in Seq(Lot)
  OBVIOUS
<1>. HIDE DEF Next1
<1>2. step \in [1 .. N -> [Seq(Lot) -> Seq(Lot)]]
  BY <1>1
<1>3. PICK g : Iterates(g, N, Seq(Lot), <<>>, step)
  <2>. HIDE DEF N, step
  <2>. QED BY <1>0, <1>1, <1>2, RecursionExists, Zenon
<1>. HIDE DEF N
<1>4. \A n \in 1 .. N : g[n] = Next1(n, g[n - 1])
  <2>1. \A n \in 1 .. N : \A x \in Seq(Lot) : step[n][x] = Next1(n, x)
    OBVIOUS
  <2>. HIDE DEF step
  <2>. QED BY <1>3, <2>1 DEF Iterates
<1>5. g = Body(g)
  BY <1>1, <1>3, <1>4 DEF Iterates
<1>6. Open(book) = kept[N]
  BY DEF Open, Next1, N
<1>7. kept = Body(kept)
  <2>. HIDE DEF Body
  <2>. QED BY <1>5
<1>. HIDE DEF kept
<1>8. kept[0] = <<>> /\ \A n \in 1 .. N : kept[n] = Next1(n, kept[n - 1])
  BY <1>1, <1>7
<1>9. \A n \in 0 .. N : kept[n] \in Seq(Lot)
  <2>1. kept[0] \in Seq(Lot)
    BY <1>8
  <2>2. \A n \in 1 .. N : kept[n - 1] \in Seq(Lot) => kept[n] \in Seq(Lot)
    BY <1>1, <1>8
  <2>. QED BY <1>1, <2>1, <2>2, RecursionTyped, Zenon
<1>10. kept \in [0 .. N -> Seq(Lot)]
  BY <1>7, <1>9
<1>. QED BY <1>6, <1>8, <1>10 DEF N, Next1

\* The lots with something left, in their order, each of them once.
LEMMA OpenKeeps ==
  ASSUME NEW book \in Seq(Lot),
         \A i, j \in DOMAIN book : book[i].id = book[j].id => i = j
  PROVE  /\ Open(book) \in Seq(Lot)
         /\ \A a \in DOMAIN Open(book) :
               \E i \in DOMAIN book : Open(book)[a] = book[i] /\ book[i].remaining > 0
         /\ \A a, b \in DOMAIN Open(book) : Open(book)[a].id = Open(book)[b].id => a = b
<1>. DEFINE N == Len(book)
<1>1. PICK kept :
        /\ kept \in [0 .. N -> Seq(Lot)]
        /\ kept[0] = <<>>
        /\ \A n \in 1 .. N :
              kept[n] = IF book[n].remaining > 0 THEN Append(kept[n - 1], book[n])
                        ELSE kept[n - 1]
        /\ Open(book) = kept[N]
  BY OpenStep
<1>. DEFINE Among(n) == \A a \in DOMAIN kept[n] :
                           \E i \in 1 .. n : kept[n][a] = book[i] /\ book[i].remaining > 0
            Once(n) == \A a, b \in DOMAIN kept[n] : kept[n][a].id = kept[n][b].id => a = b
            T == {n \in 0 .. N : Among(n) /\ Once(n)}
<1>2. N \in Nat /\ DOMAIN book = 1 .. N
  OBVIOUS
<1>. HIDE DEF N
<1>3. 0 \in T
  BY <1>1, <1>2
<1>4. ASSUME NEW n \in 1 .. N, n - 1 \in T PROVE n \in T
  <2>1. CASE book[n].remaining > 0
    <3>. DEFINE s == kept[n - 1]
    <3>1. s \in Seq(Lot) /\ Among(n - 1) /\ Once(n - 1) /\ book[n] \in Lot
      <4>1. n - 1 \in 0 .. N /\ n \in DOMAIN book
        BY <1>2
      <4>2. s \in Seq(Lot) /\ book[n] \in Lot
        BY <1>1, <4>1
      <4>. QED BY <1>4, <4>2
    <3>2. kept[n] = Append(s, book[n])
      BY <1>1, <2>1
    <3>3. \A a \in DOMAIN kept[n] :
            \/ a \in DOMAIN s /\ kept[n][a] = s[a]
            \/ a = Len(s) + 1 /\ kept[n][a] = book[n]
      <4>. HIDE DEF s
      <4>. QED BY <3>1, <3>2
    <3>4. Among(n)
      <4>1. ASSUME NEW a \in DOMAIN kept[n]
            PROVE  \E i \in 1 .. n : kept[n][a] = book[i] /\ book[i].remaining > 0
        <5>1. CASE a \in DOMAIN s /\ kept[n][a] = s[a]
          <6>1. PICK i \in 1 .. n - 1 : s[a] = book[i] /\ book[i].remaining > 0
            BY <3>1, <5>1
          <6>2. i \in 1 .. n
            OBVIOUS
          <6>. QED BY <5>1, <6>1, <6>2
        <5>2. CASE kept[n][a] = book[n]
          BY <2>1, <5>2
        <5>. QED BY <3>3, <5>1, <5>2
      <4>. QED BY <4>1
    <3>5. \A a \in DOMAIN s : s[a].id # book[n].id
      <4>1. ASSUME NEW a \in DOMAIN s PROVE s[a].id # book[n].id
        <5>1. PICK i \in 1 .. n - 1 : s[a] = book[i]
          BY <3>1
        <5>2. i \in DOMAIN book /\ n \in DOMAIN book /\ i # n
          BY <1>2
        <5>. QED BY <5>1, <5>2
      <4>. QED BY <4>1
    <3>6. Once(n)
      <4>1. \A a, b \in DOMAIN s : s[a].id = s[b].id => a = b
        BY <3>1
      <4>. HIDE DEF s, Among
      <4>. QED BY <3>3, <3>5, <4>1
    <3>. QED BY <1>2, <3>4, <3>6
  <2>2. CASE ~(book[n].remaining > 0)
    <3>1. kept[n] = kept[n - 1]
      BY <1>1, <2>2
    <3>2. \A i \in 1 .. n - 1 : i \in 1 .. n
      OBVIOUS
    <3>3. Among(n - 1) /\ Once(n - 1)
      BY <1>4
    <3>4. Among(n)
      BY <3>1, <3>2, <3>3
    <3>. QED BY <1>2, <3>1, <3>3, <3>4
  <2>. QED BY <2>1, <2>2
<1>5. \A n \in 0 .. N : n \in T
  <2>. HIDE DEF T
  <2>. QED BY <1>2, <1>3, <1>4, IntervalInduction, Zenon
<1>6. Among(N) /\ Once(N)
  BY <1>2, <1>5
<1>7. kept[N] \in Seq(Lot)
  BY <1>1, <1>2
<1>8. \A a \in DOMAIN kept[N] :
        \E i \in DOMAIN book : kept[N][a] = book[i] /\ book[i].remaining > 0
  BY <1>2, <1>6
<1>9. Open(book) = kept[N]
  BY <1>1
<1>. HIDE DEF Among
<1>. QED BY <1>6, <1>7, <1>8, <1>9

\* What is dropped holds nothing.
LEMMA SumOfOpen ==
  ASSUME NEW book, Solid(book), NEW dir
  PROVE  OpenQuantity(Open(book), dir) = OpenQuantity(book, dir)
<1>. DEFINE N == Len(book)
            sum == Quantities(book, dir)
<1>1. book \in Seq(Lot)
  BY DEF Solid
<1>2. PICK kept :
        /\ kept \in [0 .. N -> Seq(Lot)]
        /\ kept[0] = <<>>
        /\ \A n \in 1 .. N :
              kept[n] = IF book[n].remaining > 0 THEN Append(kept[n - 1], book[n])
                        ELSE kept[n - 1]
        /\ Open(book) = kept[N]
  BY <1>1, OpenStep
<1>3. N \in Nat /\ DOMAIN book = 1 .. N
  BY <1>1
<1>4. /\ sum[0] = 0
      /\ \A n \in 1 .. N : sum[n - 1] \in Int /\ sum[n] = sum[n - 1] + Holds(book[n], dir)
  <2>1. /\ sum \in [0 .. N -> Int]
        /\ sum[0] = 0
        /\ \A n \in 1 .. N : sum[n] = sum[n - 1] + Holds(book[n], dir)
    BY <1>1, QuantitiesStep
  <2>. HIDE DEF sum, N
  <2>. QED BY <1>3, <2>1
<1>5. \A n \in 1 .. N : book[n] \in Lot /\ book[n].remaining >= 0
  BY <1>1, <1>3 DEF Solid
<1>. DEFINE T == {n \in 0 .. N : OpenQuantity(kept[n], dir) = sum[n]}
<1>. HIDE DEF N, sum
<1>6. 0 \in T
  <2>1. <<>> \in Seq(Lot) /\ Len(<<>>) = 0
    OBVIOUS
  <2>2. OpenQuantity(<<>>, dir) = 0
    BY <2>1, QuantitiesStep DEF OpenQuantity
  <2>. QED BY <1>2, <1>3, <1>4, <2>2
<1>7. ASSUME NEW n \in 1 .. N, n - 1 \in T PROVE n \in T
  <2>1. kept[n - 1] \in Seq(Lot) /\ book[n] \in Lot /\ n - 1 \in 0 .. N /\ n \in 0 .. N
    BY <1>2, <1>3, <1>5
  <2>2. OpenQuantity(kept[n - 1], dir) = sum[n - 1]
    BY <1>7
  <2>3. sum[n] = sum[n - 1] + Holds(book[n], dir) /\ sum[n - 1] \in Int
    BY <1>4
  <2>4. CASE book[n].remaining > 0
    <3>1. kept[n] = Append(kept[n - 1], book[n])
      BY <1>2, <2>4
    <3>2. OpenQuantity(kept[n], dir) = OpenQuantity(kept[n - 1], dir) + Holds(book[n], dir)
      BY <2>1, <3>1, SumAppended
    <3>. QED BY <2>1, <2>2, <2>3, <3>2
  <2>5. CASE ~(book[n].remaining > 0)
    <3>1. kept[n] = kept[n - 1]
      BY <1>2, <2>5
    <3>2. Holds(book[n], dir) = 0
      BY <1>5, <2>5, LotFields DEF Holds
    <3>. QED BY <2>1, <2>2, <2>3, <3>1, <3>2
  <2>. QED BY <2>4, <2>5
<1>8. \A n \in 0 .. N : n \in T
  <2>. HIDE DEF T
  <2>. QED BY <1>3, <1>6, <1>7, IntervalInduction, Zenon
<1>9. N \in T
  BY <1>3, <1>8
<1>. QED BY <1>2, <1>9 DEF OpenQuantity, N, sum

-----------------------------------------------------------------------------

\* Well-formed lots that may have been closed.
Within(book) ==
  /\ WellFormed(book)
  /\ \A i \in DOMAIN book : book[i].remaining \in 0 .. book[i].original

\* Open lots hold no more than they were opened with.
LEMMA LotsOKIsWithin ==
  ASSUME NEW book, LotsOK(book)
  PROVE  Within(book)
<1>1. \A i \in DOMAIN book : book[i] \in Lot
  BY DEF LotsOK, WellFormed
<1>. QED BY <1>1, LotFields DEF LotsOK, Within

\* Such lots hold no less than nothing.
LEMMA WithinIsSolid ==
  ASSUME NEW book, Within(book)
  PROVE  Solid(book)
BY DEF Within, Solid, WellFormed

\* Dropping the closed lots leaves open, well-formed ones.
LEMMA OpenWithin ==
  ASSUME NEW book, Within(book)
  PROVE  /\ LotsOK(Open(book))
         /\ \A a \in DOMAIN Open(book) : \E i \in DOMAIN book : Open(book)[a] = book[i]
<1>1. /\ book \in Seq(Lot)
      /\ \A i \in DOMAIN book : OneEach(book[i])
      /\ \A i, j \in DOMAIN book : book[i].id = book[j].id => i = j
      /\ \A i \in DOMAIN book : book[i].remaining \in 0 .. book[i].original
  BY DEF Within, WellFormed
<1>. DEFINE o == Open(book)
<1>2. /\ o \in Seq(Lot)
      /\ \A a \in DOMAIN o : \E i \in DOMAIN book : o[a] = book[i] /\ book[i].remaining > 0
      /\ \A a, b \in DOMAIN o : o[a].id = o[b].id => a = b
  BY <1>1, OpenKeeps
<1>. HIDE DEF o
<1>3. \A a \in DOMAIN o : OneEach(o[a])
  BY <1>1, <1>2
<1>4. \A i \in DOMAIN book : book[i].remaining > 0 => book[i].remaining \in 1 .. book[i].original
  BY <1>1
<1>5. \A a \in DOMAIN o : o[a].remaining \in 1 .. o[a].original
  BY <1>2, <1>4
<1>. QED BY <1>2, <1>3, <1>5 DEF LotsOK, WellFormed, o

\* A lot of which only the quantity is another.
LEMMA LessRemaining ==
  ASSUME NEW lot \in Lot, NEW r \in Int
  PROVE  /\ [lot EXCEPT !.remaining = r] \in Lot
         /\ [lot EXCEPT !.remaining = r].remaining = r
         /\ [lot EXCEPT !.remaining = r].id = lot.id
         /\ [lot EXCEPT !.remaining = r].dir = lot.dir
         /\ [lot EXCEPT !.remaining = r].entry = lot.entry
         /\ [lot EXCEPT !.remaining = r].plan = lot.plan
         /\ [lot EXCEPT !.remaining = r].original = lot.original
         /\ [lot EXCEPT !.remaining = r].exits = lot.exits
         /\ [lot EXCEPT !.remaining = r].water = lot.water
         /\ [lot EXCEPT !.remaining = r].activated = lot.activated
         /\ OneEach(lot) => OneEach([lot EXCEPT !.remaining = r])
<1>. DEFINE after == [lot EXCEPT !.remaining = r]
<1>1. /\ after \in Lot
      /\ after.remaining = r
      /\ after.id = lot.id
      /\ after.dir = lot.dir
      /\ after.entry = lot.entry
      /\ after.plan = lot.plan
      /\ after.original = lot.original
      /\ after.exits = lot.exits
      /\ after.water = lot.water
      /\ after.activated = lot.activated
  BY DEF Lot
<1>. HIDE DEF after
<1>2. OneEach(lot) => OneEach(after)
  BY <1>1 DEF OneEach, Legs
<1>. QED BY <1>1, <1>2 DEF after

\* A reduction takes the quantity off the lots, oldest first.
LEMMA ReducedLots ==
  ASSUME NEW book, Within(book), NEW dir \in {1, -1}, NEW quantity \in Nat
  PROVE  /\ Within(Reduced(book, dir, quantity))
         /\ DOMAIN Reduced(book, dir, quantity) = DOMAIN book
         /\ \A i \in DOMAIN book : Reduced(book, dir, quantity)[i].dir = book[i].dir
         /\ OpenQuantity(Reduced(book, dir, quantity), dir)
              = Most(0, OpenQuantity(book, dir) - quantity)
         /\ OpenQuantity(Reduced(book, dir, quantity), -dir) = OpenQuantity(book, -dir)
<1>. DEFINE N == Len(book)
            sum == Quantities(book, dir)
            left(i) == Most(0, quantity - sum[i - 1])
            rest(i) == book[i].remaining - Least(book[i].remaining, left(i))
            cut(i) == [book[i] EXCEPT !.remaining = rest(i)]
            after == Reduced(book, dir, quantity)
<1>1. /\ book \in Seq(Lot)
      /\ N \in Nat
      /\ DOMAIN book = 1 .. N
      /\ \A i \in 1 .. N : book[i] \in Lot /\ OneEach(book[i])
      /\ \A i, j \in 1 .. N : book[i].id = book[j].id => i = j
      /\ \A i \in 1 .. N : book[i].remaining \in 0 .. book[i].original
  BY DEF Within, WellFormed
<1>2. after = [i \in 1 .. N |-> IF book[i].dir # dir THEN book[i] ELSE cut(i)]
  BY <1>1 DEF Reduced
<1>3. \A n \in 0 .. N : sum[n] \in Nat
  BY WithinIsSolid, SumsNatural
<1>. HIDE DEF after, N, sum
<1>4. \A i \in 1 .. N : left(i) \in Nat /\ rest(i) \in 0 .. book[i].remaining
  <2>1. ASSUME NEW i \in 1 .. N PROVE left(i) \in Nat /\ rest(i) \in 0 .. book[i].remaining
    <3>1. i - 1 \in 0 .. N
      BY <1>1
    <3>2. sum[i - 1] \in Nat
      BY <1>3, <3>1
    <3>3. book[i].remaining \in Nat
      BY <1>1, LotFields
    <3>. QED BY <3>2, <3>3 DEF Most, Least
  <2>. QED BY <2>1
<1>. HIDE DEF rest
<1>5. \A i \in 1 .. N :
        /\ after[i] \in Lot
        /\ OneEach(after[i])
        /\ after[i].id = book[i].id
        /\ after[i].dir = book[i].dir
        /\ after[i].original = book[i].original
        /\ after[i].remaining = IF book[i].dir # dir THEN book[i].remaining ELSE rest(i)
  <2>1. ASSUME NEW i \in 1 .. N, book[i].dir = dir
        PROVE  /\ after[i] \in Lot
               /\ OneEach(after[i])
               /\ after[i].id = book[i].id
               /\ after[i].dir = book[i].dir
               /\ after[i].original = book[i].original
               /\ after[i].remaining = rest(i)
    <3>1. after[i] = cut(i)
      BY <1>2, <2>1
    <3>2. book[i] \in Lot /\ OneEach(book[i]) /\ rest(i) \in Int
      BY <1>1, <1>4, LotFields
    <3>. QED BY <3>1, <3>2, LessRemaining
  <2>2. \A i \in 1 .. N : book[i].dir # dir => after[i] = book[i]
    BY <1>2
  <2>. QED BY <1>1, <2>1, <2>2
<1>6. DOMAIN after = 1 .. N /\ after \in Seq(Lot) /\ Len(after) = N
  <2>1. after \in [1 .. N -> Lot]
    BY <1>2, <1>5
  <2>. QED BY <1>1, <2>1
<1>7. Within(after)
  <2>1. \A i \in 1 .. N : after[i].remaining \in 0 .. after[i].original
    <3>1. \A i \in 1 .. N : book[i].remaining \in Int /\ book[i].original \in Int
      BY <1>1, LotFields
    <3>2. ASSUME NEW i \in 1 .. N PROVE after[i].remaining \in 0 .. book[i].original
      <4>1. book[i].remaining \in 0 .. book[i].original
        BY <1>1
      <4>2. rest(i) \in 0 .. book[i].remaining
        BY <1>4
      <4>3. rest(i) \in 0 .. book[i].original
        BY <3>1, <4>1, <4>2
      <4>. QED BY <1>5, <4>1, <4>3
    <3>. QED BY <1>5, <3>2
  <2>2. \A i, j \in 1 .. N : after[i].id = after[j].id => i = j
    BY <1>1, <1>5
  <2>. QED BY <1>5, <1>6, <2>1, <2>2 DEF Within, WellFormed
<1>8. OpenQuantity(after, dir) = Most(0, OpenQuantity(book, dir) - quantity)
  <2>. DEFINE now == Quantities(after, dir)
              T == {n \in 0 .. N : now[n] = Most(0, sum[n] - quantity)}
  <2>1. 0 \in T
    <3>1. now[0] = 0 /\ sum[0] = 0
      BY <1>1, <1>6, QuantitiesStep DEF sum
    <3>. QED BY <1>1, <3>1 DEF Most
  <2>2. ASSUME NEW n \in 1 .. N, n - 1 \in T PROVE n \in T
    <3>1. n - 1 \in 0 .. N /\ n \in 0 .. N
      BY <1>1
    <3>2. now[n] = now[n - 1] + Holds(after[n], dir)
      BY <1>6, QuantitiesStep
    <3>3. sum[n] = sum[n - 1] + Holds(book[n], dir)
      BY <1>1, QuantitiesStep DEF sum, N
    <3>4. sum[n - 1] \in Nat /\ now[n - 1] = Most(0, sum[n - 1] - quantity)
      BY <1>3, <2>2, <3>1
    <3>5. book[n].remaining \in Nat
      BY <1>1, LotFields
    <3>6. CASE book[n].dir # dir
      <4>1. Holds(after[n], dir) = 0 /\ Holds(book[n], dir) = 0
        BY <1>5, <3>6 DEF Holds
      <4>. QED BY <3>1, <3>2, <3>3, <3>4, <4>1 DEF Most
    <3>7. CASE book[n].dir = dir
      <4>1. Holds(after[n], dir) = rest(n) /\ Holds(book[n], dir) = book[n].remaining
        BY <1>5, <3>7 DEF Holds
      <4>2. now[n] = Most(0, sum[n - 1] - quantity) + rest(n)
        BY <3>2, <3>4, <4>1
      <4>3. sum[n] = sum[n - 1] + book[n].remaining
        BY <3>3, <4>1
      <4>4. now[n] = Most(0, sum[n] - quantity)
        BY <3>4, <3>5, <4>2, <4>3 DEF rest, Most, Least
      <4>. QED BY <3>1, <4>4
    <3>. QED BY <3>6, <3>7
  <2>3. \A n \in 0 .. N : n \in T
    <3>. HIDE DEF T
    <3>. QED BY <1>1, <2>1, <2>2, IntervalInduction, Zenon
  <2>4. N \in T
    BY <1>1, <2>3
  <2>. QED BY <1>6, <2>4 DEF OpenQuantity, sum, N
<1>9. OpenQuantity(after, -dir) = OpenQuantity(book, -dir)
  <2>1. dir # -dir
    OBVIOUS
  <2>2. \A n \in 1 .. N : Holds(after[n], -dir) = Holds(book[n], -dir)
    BY <1>5, <2>1 DEF Holds
  <2>3. \A n \in 0 .. N : Quantities(after, -dir)[n] = Quantities(book, -dir)[n]
    BY <1>1, <1>6, <2>2, SumsAgree DEF N
  <2>. QED BY <1>1, <1>6, <2>3 DEF OpenQuantity, N
<1>. QED BY <1>1, <1>5, <1>6, <1>7, <1>8, <1>9 DEF after

\* A book whose position is what its lots come to.
Balanced(book) == LotsOK(book.lots) /\ book.position = Exposure(book.lots)

\* What open lots hold on a side.
LEMMA SumOK ==
  ASSUME NEW book, LotsOK(book), NEW dir
  PROVE  OpenQuantity(book, dir) \in Nat
<1>1. Solid(book)
  BY LotsOKIsWithin, WithinIsSolid
<1>2. book \in Seq(Lot)
  BY <1>1 DEF Solid
<1>. QED BY <1>1, <1>2, SumsNatural DEF OpenQuantity

\* _sell_quantity and _buy_quantity of a book whose lots make up its position.
LEMMA ReduceBalanced ==
  ASSUME NEW book, Balanced(book), NEW dir \in {1, -1}, NEW quantity \in Nat
  PROVE  /\ Reduce(book, dir, quantity) \in [lots : Seq(Lot), position : Int]
         /\ Balanced(Reduce(book, dir, quantity))
         /\ Reduce(book, dir, quantity).position
              = book.position - dir * Least(quantity, OpenQuantity(book.lots, dir))
         /\ OpenQuantity(Reduce(book, dir, quantity).lots, dir)
              = Most(0, OpenQuantity(book.lots, dir) - quantity)
         /\ OpenQuantity(Reduce(book, dir, quantity).lots, -dir) = OpenQuantity(book.lots, -dir)
<1>. DEFINE cut == Reduced(book.lots, dir, quantity)
            after == Reduce(book, dir, quantity)
            q == Least(quantity, OpenQuantity(book.lots, dir))
            x == book.position - dir * q
            here == OpenQuantity(book.lots, dir)
            there == OpenQuantity(book.lots, -dir)
<1>1. Within(book.lots)
  BY LotsOKIsWithin DEF Balanced
<1>2. /\ Within(cut)
      /\ OpenQuantity(cut, dir) = Most(0, here - quantity)
      /\ OpenQuantity(cut, -dir) = there
  BY <1>1, ReducedLots
<1>3. here \in Nat /\ there \in Nat
  BY SumOK DEF Balanced
<1>4. after.position = (IF dir = 1 /\ x > 0 THEN x - Least(quantity - q, x) ELSE x)
      /\ after.lots = Open(cut)
      /\ after = [lots |-> after.lots, position |-> after.position]
  BY DEF Reduce
<1>5. book.position = dir * here - dir * there
  <2>1. CASE dir = 1
    BY <1>3, <2>1 DEF Balanced, Exposure
  <2>2. CASE dir = -1
    BY <1>3, <2>2 DEF Balanced, Exposure
  <2>. QED BY <2>1, <2>2
<1>. HIDE DEF cut, after, here, there
<1>6. q \in Nat /\ q = Least(quantity, here)
  BY <1>3 DEF Least, here
<1>7. x = dir * (here - there - q)
  <2>1. CASE dir = 1
    BY <1>3, <1>5, <1>6, <2>1
  <2>2. CASE dir = -1
    BY <1>3, <1>5, <1>6, <2>2
  <2>. QED BY <2>1, <2>2
<1>. HIDE DEF x, q
<1>8. x \in Int
  BY <1>3, <1>6, <1>7
<1>9. after.position = x
  <2>1. CASE dir = 1 /\ x > 0
    <3>1. q = quantity
      BY <1>3, <1>6, <1>7, <2>1 DEF Least
    <3>2. Least(quantity - q, x) = 0
      BY <1>8, <2>1, <3>1 DEF Least
    <3>. QED BY <1>4, <1>8, <3>2
  <2>. QED BY <1>4, <2>1
<1>10. OpenQuantity(after.lots, dir) = Most(0, here - quantity)
  BY <1>2, <1>4, WithinIsSolid, SumOfOpen
<1>11. OpenQuantity(after.lots, -dir) = there
  BY <1>2, <1>4, WithinIsSolid, SumOfOpen
<1>12. LotsOK(after.lots)
  BY <1>2, <1>4, OpenWithin
<1>13. after.position = Exposure(after.lots)
  <2>1. Most(0, here - quantity) = here - q
    BY <1>3, <1>6 DEF Most, Least
  <2>2. CASE dir = 1
    BY <1>3, <1>6, <1>7, <1>9, <1>10, <1>11, <2>1, <2>2 DEF Exposure
  <2>3. CASE dir = -1
    <3>1. OpenQuantity(after.lots, 1) = there
      BY <1>11, <2>3
    <3>. QED BY <1>3, <1>6, <1>7, <1>9, <1>10, <2>1, <2>3, <3>1 DEF Exposure
  <2>. QED BY <2>2, <2>3
<1>14. after \in [lots : Seq(Lot), position : Int]
  BY <1>4, <1>8, <1>9, <1>12 DEF LotsOK, WellFormed
<1>. QED BY <1>9, <1>10, <1>11, <1>12, <1>13, <1>14 DEF Balanced, after, here, there, x, q

\* Every lot of one sequence is one of the other with another quantity.
CutFrom(after, before) ==
  \A a \in DOMAIN after : \E i \in DOMAIN before : \E r \in Int :
     after[a] = [before[i] EXCEPT !.remaining = r]

\* A reduction changes quantities and drops lots.
LEMMA ReduceLots ==
  ASSUME NEW book, Balanced(book), NEW dir \in {1, -1}, NEW quantity \in Nat
  PROVE  CutFrom(Reduce(book, dir, quantity).lots, book.lots)
<1>. DEFINE cut == Reduced(book.lots, dir, quantity)
<1>1. /\ Within(book.lots)
      /\ book.lots \in Seq(Lot)
      /\ \A i \in DOMAIN book.lots : book.lots[i] \in Lot
  BY LotsOKIsWithin DEF Balanced, Within, WellFormed
<1>2. Within(cut) /\ DOMAIN cut = DOMAIN book.lots
  BY <1>1, ReducedLots
<1>3. ASSUME NEW i \in DOMAIN book.lots
      PROVE  \E r \in Int : cut[i] = [book.lots[i] EXCEPT !.remaining = r]
  <2>1. cut[i] \in Lot
    BY <1>2, <1>3 DEF Within, WellFormed
  <2>2. cut[i].remaining \in Int
    BY <2>1, LotFields
  <2>3. cut[i] = [book.lots[i] EXCEPT !.remaining = cut[i].remaining]
    <3>1. CASE book.lots[i].dir # dir
      <4>1. cut[i] = book.lots[i]
        BY <3>1 DEF Reduced
      <4>2. book.lots[i] = [book.lots[i] EXCEPT !.remaining = book.lots[i].remaining]
        BY <1>1 DEF Lot
      <4>. QED BY <4>1, <4>2
    <3>2. CASE book.lots[i].dir = dir
      <4>. DEFINE left == Most(0, quantity - Quantities(book.lots, dir)[i - 1])
                  r == book.lots[i].remaining - Least(book.lots[i].remaining, left)
      <4>1. cut[i] = [book.lots[i] EXCEPT !.remaining = r]
        BY <3>2 DEF Reduced
      <4>. HIDE DEF r, cut
      <4>2. cut[i].remaining = r
        BY <1>1, <4>1 DEF Lot
      <4>. QED BY <4>1, <4>2
    <3>. QED BY <3>1, <3>2
  <2>. QED BY <2>2, <2>3
<1>. HIDE DEF cut
<1>4. \A a \in DOMAIN Open(cut) : \E i \in DOMAIN cut : Open(cut)[a] = cut[i]
  BY <1>2, OpenWithin
<1>. DEFINE after == Reduce(book, dir, quantity).lots
<1>5. after = Open(cut)
  BY DEF Reduce, cut
<1>. HIDE DEF after
<1>6. ASSUME NEW a \in DOMAIN after
      PROVE  \E i \in DOMAIN book.lots : \E r \in Int :
                after[a] = [book.lots[i] EXCEPT !.remaining = r]
  <2>1. PICK i \in DOMAIN cut : after[a] = cut[i]
    BY <1>4, <1>5
  <2>2. i \in DOMAIN book.lots
    BY <1>2
  <2>3. PICK r \in Int : cut[i] = [book.lots[i] EXCEPT !.remaining = r]
    BY <1>3, <2>2
  <2>. QED BY <2>1, <2>2, <2>3
<1>. QED BY <1>6 DEF after, CutFrom

\* The trailing stop does not depend on the quantity.
LEMMA TrailOfReduced ==
  ASSUME NEW lot \in Lot, NEW r \in Int
  PROVE  /\ TrailOK([lot EXCEPT !.remaining = r]) <=> TrailOK(lot)
         /\ Armed([lot EXCEPT !.remaining = r]) <=> Armed(lot)
<1>. DEFINE after == [lot EXCEPT !.remaining = r]
<1>1. /\ after.dir = lot.dir
      /\ after.entry = lot.entry
      /\ after.plan = lot.plan
      /\ after.exits = lot.exits
      /\ after.water = lot.water
      /\ after.activated = lot.activated
  BY LessRemaining
<1>. HIDE DEF after
<1>2. Legs(after, "trailing_stop") = Legs(lot, "trailing_stop")
  BY <1>1 DEF Legs
<1>3. TrailPrice(after) = TrailPrice(lot)
  BY <1>1, <1>2 DEF TrailPrice
<1>a. /\ \A water : TriggerBehind(after, water) = TriggerBehind(lot, water)
      /\ \A price : MarkAt(after, price) = MarkAt(lot, price)
      /\ \A current : Step(after, current) = Step(lot, current)
  BY <1>1, TrailsAlike
<1>b. \A p, q : Further(after, p, q) <=> Further(lot, p, q)
  BY <1>1 DEF Further
<1>4. Lag(after) = Lag(lot)
  BY <1>1, <1>3, <1>a DEF Lag
<1>c. AtStart(after) <=> AtStart(lot)
  BY <1>1, <1>a DEF AtStart
<1>5. TrailOK(after) <=> TrailOK(lot)
  BY <1>1, <1>2, <1>3, <1>4, <1>a, <1>b, <1>c DEF TrailOK
<1>6. Armed(after) <=> Armed(lot)
  BY <1>1, <1>2 DEF Armed
<1>. QED BY <1>5, <1>6 DEF after

-----------------------------------------------------------------------------

\* The numbers of an entry and of its plan.
LEMMA EntryFields ==
  ASSUME NEW entry \in Entries
  PROVE  /\ entry.dir \in {1, -1}
         /\ entry.id \in Ids
         /\ Bought(entry) \in Nat \ {0}
         /\ entry.price \in Nat \ {0}
         /\ entry.plan \in Plan
         /\ Trailer(entry)
         /\ Scale(entry) > 0
         /\ entry.plan.stop \in Int
         /\ entry.plan.targets \in Seq([price : Int, pct : Nat])
         /\ entry.plan.distance \in Nat
         /\ entry.plan.trailPrice \in Nat
         /\ entry.plan.trailPct \in Nat
         /\ entry.plan.maxHold \in Nat
         /\ entry.plan.activation \in Int
         /\ entry.plan.afterTp \in BOOLEAN
<1>1. /\ entry.dir \in {1, -1}
      /\ entry.notional \in Nat \ {0}
      /\ entry.price \in Nat \ {0}
      /\ Bought(entry) * entry.price = entry.notional
      /\ entry.plan \in Plan
      /\ entry.dir = 1 => entry.plan.distancePct < 100
  BY BracketAssumption
<1>2. entry.id \in Ids
  BY DEF Ids
<1>3. ASSUME NEW n \in Int, NEW p \in Nat \ {0}, NEW b \in Int, b * p = n, n > 0
      PROVE  b > 0
  BY <1>3
<1>4. Bought(entry) \in Nat \ {0}
  <2>1. Bought(entry) \in Int
    BY <1>1 DEF Bought
  <2>2. Bought(entry) > 0
    BY <1>1, <1>3, <2>1
  <2>. QED BY <2>1, <2>2
<1>5. Trailer(entry)
  BY <1>1 DEF Trailer
<1>6. Scale(entry) > 0
  <2>1. entry.plan.distancePct \in Nat
    BY <1>5, PlanNumbers
  <2>2. CASE entry.dir = 1
    BY <1>1, <2>1, <2>2 DEF Scale
  <2>3. CASE entry.dir = -1
    BY <2>1, <2>3 DEF Scale
  <2>. QED BY <1>1, <2>2, <2>3
<1>. QED BY <1>1, <1>2, <1>4, <1>5, <1>6 DEF Plan

\* One stop, the targets, one trailing stop, one time exit.
LEMMA BuiltExits ==
  ASSUME NEW entry \in Entries
  PROVE  /\ BuildExits(entry) \in Seq(Leg)
         /\ \A kind \in Protective : \A a, b \in DOMAIN BuildExits(entry) :
               BuildExits(entry)[a].kind = kind /\ BuildExits(entry)[b].kind = kind => a = b
         /\ \A a \in DOMAIN BuildExits(entry) :
               BuildExits(entry)[a].kind = "trailing_stop" =>
                  /\ Trails(entry.plan)
                  /\ BuildExits(entry)[a].price =
                        IF entry.plan.trailPrice # 0 THEN entry.plan.trailPrice
                        ELSE TriggerBehind(entry, MarkAt(entry, entry.price))
                  /\ BuildExits(entry)[a].status = "open" => StartsActivated(entry.plan)
<1>. DEFINE plan == entry.plan
            trailAt == IF plan.trailPrice # 0 THEN plan.trailPrice
                       ELSE TriggerBehind(entry, MarkAt(entry, entry.price))
            stop == Exit("stop_loss", plan.stop, 100, "open")
            trail == Exit("trailing_stop", trailAt, plan.trailPct,
                          IF plan.afterTp THEN "pending_take_profit"
                          ELSE IF plan.activation # 0 THEN "pending_activation" ELSE "open")
            wait == Exit("time_exit", entry.price, 100, "waiting")
            a == IF plan.stop = 0 THEN <<>> ELSE <<stop>>
            b == [i \in DOMAIN plan.targets |->
                    Exit("take_profit", plan.targets[i].price, plan.targets[i].pct, "open")]
            c == IF Trails(plan) THEN <<trail>> ELSE <<>>
            d == IF plan.maxHold = 0 THEN <<>> ELSE <<wait>>
            exits == ((a \o b) \o c) \o d
<1>1. BuildExits(entry) = exits
  <2>. HIDE DEF trailAt
  <2>1. trailAt = IF plan.trailPrice # 0 THEN plan.trailPrice
                  ELSE TriggerBehind(entry, MarkAt(entry, entry.price))
    BY DEF trailAt
  <2>. QED BY <2>1 DEF BuildExits
<1>2. trailAt \in Int
  <2>1. Trailer(entry) /\ entry.price \in Int
    BY EntryFields
  <2>2. TriggerBehind(entry, MarkAt(entry, entry.price)) \in Int
    BY <2>1, Distances
  <2>. QED BY <2>1, <2>2, PlanNumbers
<1>3. /\ stop \in Leg /\ stop.kind = "stop_loss"
      /\ trail \in Leg /\ trail.kind = "trailing_stop" /\ trail.price = trailAt
      /\ trail.status = "open" => StartsActivated(plan)
      /\ wait \in Leg /\ wait.kind = "time_exit"
  <2>. HIDE DEF trailAt
  <2>. QED BY <1>2, EntryFields DEF Exit, Leg, Kinds, Statuses, StartsActivated
<1>x. \A price \in Int, pct \in Nat :
        /\ Exit("take_profit", price, pct, "open") \in Leg
        /\ Exit("take_profit", price, pct, "open").kind = "take_profit"
  BY DEF Exit, Leg, Kinds, Statuses
<1>4. b \in Seq(Leg) /\ \A i \in DOMAIN b : b[i].kind = "take_profit"
  <2>1. plan.targets \in Seq([price : Int, pct : Nat])
    BY EntryFields
  <2>2. ASSUME NEW i \in DOMAIN plan.targets
        PROVE  b[i] \in Leg /\ b[i].kind = "take_profit"
    <3>1. plan.targets[i] \in [price : Int, pct : Nat]
      <4>. DEFINE s == plan.targets
                  T == [price : Int, pct : Nat]
      <4>1. s \in Seq(T) /\ i \in DOMAIN s
        BY <2>1
      <4>. HIDE DEF s, T
      <4>2. s[i] \in T
        BY <4>1
      <4>. QED BY <4>2 DEF s, T
    <3>2. plan.targets[i].price \in Int /\ plan.targets[i].pct \in Nat
      BY <3>1
    <3>3. b[i] = Exit("take_profit", plan.targets[i].price, plan.targets[i].pct, "open")
      BY <2>2
    <3>. QED BY <1>x, <3>2, <3>3
  <2>3. DOMAIN plan.targets = 1 .. Len(plan.targets) /\ Len(plan.targets) \in Nat
    BY <2>1
  <2>4. b \in [1 .. Len(plan.targets) -> Leg]
    BY <2>2, <2>3
  <2>. QED BY <2>2, <2>3, <2>4, FunctionIsSequence
<1>. HIDE DEF stop, trail, wait, b
<1>5. /\ a \in Seq(Leg) /\ Len(a) \in {0, 1} /\ \A i \in DOMAIN a : a[i].kind = "stop_loss"
      /\ d \in Seq(Leg) /\ \A i \in DOMAIN d : d[i].kind = "time_exit"
  BY <1>3
<1>6. /\ c \in Seq(Leg) /\ Len(c) \in {0, 1}
      /\ \A i \in DOMAIN c :
            c[i].kind = "trailing_stop" /\ Trails(plan) /\ c[i].price = trailAt
            /\ (c[i].status = "open" => StartsActivated(plan))
  BY <1>3
<1>. HIDE DEF a, c, d, trailAt, plan
<1>. DEFINE k == Len(a)
            m == Len(a) + Len(b)
            n == Len(a) + Len(b) + Len(c)
<1>7. k \in Nat /\ m \in Nat /\ n \in Nat /\ m >= k
  BY <1>4, <1>5, <1>6
<1>8. /\ a \o b \in Seq(Leg)
      /\ Len(a \o b) = m
      /\ \A i \in 1 .. m : (a \o b)[i] = IF i <= k THEN a[i] ELSE b[i - k]
  BY <1>4, <1>5
<1>9. /\ (a \o b) \o c \in Seq(Leg)
      /\ Len((a \o b) \o c) = n
      /\ \A i \in 1 .. n : ((a \o b) \o c)[i] = IF i <= m THEN (a \o b)[i] ELSE c[i - m]
  <2>. DEFINE ab == a \o b
  <2>1. ab \in Seq(Leg) /\ Len(ab) = m
    BY <1>8
  <2>. HIDE DEF ab
  <2>2. /\ ab \o c \in Seq(Leg)
        /\ Len(ab \o c) = m + Len(c)
        /\ \A i \in 1 .. m + Len(c) : (ab \o c)[i] = IF i <= m THEN ab[i] ELSE c[i - m]
    BY <1>6, <2>1
  <2>. QED BY <2>2 DEF ab
<1>10. /\ exits \in Seq(Leg)
       /\ Len(exits) = n + Len(d)
       /\ \A i \in 1 .. n + Len(d) :
             exits[i] = IF i <= n THEN ((a \o b) \o c)[i] ELSE d[i - n]
  <2>. DEFINE abc == (a \o b) \o c
  <2>1. abc \in Seq(Leg) /\ Len(abc) = n
    BY <1>9
  <2>. HIDE DEF abc
  <2>2. /\ abc \o d \in Seq(Leg)
        /\ Len(abc \o d) = n + Len(d)
        /\ \A i \in 1 .. n + Len(d) : (abc \o d)[i] = IF i <= n THEN abc[i] ELSE d[i - n]
    BY <1>5, <2>1
  <2>. QED BY <2>2 DEF abc
<1>. HIDE DEF exits
<1>11. ASSUME NEW i \in DOMAIN exits
       PROVE  \/ i = 1 /\ exits[i].kind = "stop_loss"
              \/ exits[i].kind \in {"take_profit", "time_exit"}
              \/ /\ i = m + 1
                 /\ exits[i].kind = "trailing_stop"
                 /\ Trails(plan)
                 /\ exits[i].price = trailAt
                 /\ exits[i].status = "open" => StartsActivated(plan)
  <2>1. i \in 1 .. n + Len(d) /\ Len(d) \in Nat /\ Len(b) \in Nat
    BY <1>4, <1>5, <1>10
  <2>2. CASE i <= k
    <3>1. i \in DOMAIN a /\ i = 1
      BY <1>5, <2>1, <2>2
    <3>2. i \in 1 .. n + Len(d) /\ i \in 1 .. n /\ i \in 1 .. m /\ i <= n /\ i <= m
      BY <1>5, <1>6, <1>7, <2>1, <2>2
    <3>3. exits[i] = a[i]
      BY <1>8, <1>9, <1>10, <2>2, <3>2
    <3>. QED BY <1>5, <3>1, <3>3
  <2>3. CASE k < i /\ i <= m
    <3>1. i \in 1 .. n + Len(d) /\ i \in 1 .. n /\ i \in 1 .. m /\ i <= n /\ ~(i <= k)
      BY <1>5, <1>6, <1>7, <2>1, <2>3
    <3>2. i - k \in DOMAIN b
      BY <1>4, <1>7, <2>1, <2>3
    <3>3. exits[i] = b[i - k]
      BY <1>8, <1>9, <1>10, <2>3, <3>1
    <3>. QED BY <1>4, <3>2, <3>3
  <2>4. CASE m < i /\ i <= n
    <3>1. i \in 1 .. n + Len(d) /\ i \in 1 .. n /\ ~(i <= m)
      BY <1>5, <1>6, <1>7, <2>1, <2>4
    <3>2. i - m \in DOMAIN c /\ i = m + 1
      BY <1>6, <1>7, <2>1, <2>4
    <3>3. exits[i] = c[i - m]
      BY <1>9, <1>10, <2>4, <3>1
    <3>. QED BY <1>6, <3>2, <3>3
  <2>5. CASE n < i
    <3>1. i - n \in DOMAIN d /\ ~(i <= n)
      BY <1>5, <1>7, <2>1, <2>5
    <3>2. exits[i] = d[i - n]
      BY <1>10, <2>1, <3>1
    <3>. QED BY <1>5, <3>1, <3>2
  <2>. QED BY <1>7, <2>1, <2>2, <2>3, <2>4, <2>5
<1>12. \A kind \in Protective : \A x, y \in DOMAIN exits :
          exits[x].kind = kind /\ exits[y].kind = kind => x = y
  BY <1>11 DEF Protective
<1>13. \A x \in DOMAIN exits :
          exits[x].kind = "trailing_stop" =>
             /\ Trails(plan)
             /\ exits[x].price = trailAt
             /\ exits[x].status = "open" => StartsActivated(plan)
  BY <1>11
<1>. QED BY <1>1, <1>10, <1>12, <1>13 DEF plan, trailAt

-----------------------------------------------------------------------------
(***************************************************************************)
(* An order history replayed (PaperExchange.from_order_history).           *)
(***************************************************************************)

\* What an application can hold: the lots make up the position, all on one side,
\* with their trailing stops in order.
Sound(book) ==
  /\ book \in [lots : Seq(Lot), position : Int]
  /\ Balanced(book)
  /\ OneSided(book.lots)
  /\ \A i \in DOMAIN book.lots :
        Sized(book.lots[i]) /\ TrailOK(book.lots[i]) /\ Armed(book.lots[i])
  /\ \A i \in DOMAIN book.lots : OfEntry(book.lots[i])

\* A lot as its entry opens it.
LEMMA OpenLotOK ==
  ASSUME NEW entry \in Entries, NEW quantity \in Nat \ {0}
  PROVE  /\ OpenLot(entry, quantity) \in Lot
         /\ OneEach(OpenLot(entry, quantity))
         /\ TrailOK(OpenLot(entry, quantity))
         /\ Armed(OpenLot(entry, quantity))
         /\ OpenLot(entry, quantity).id = entry.id
         /\ OpenLot(entry, quantity).dir = entry.dir
         /\ Sized(OpenLot(entry, quantity))
         /\ OpenLot(entry, quantity).original = quantity
         /\ OpenLot(entry, quantity).remaining = quantity
         /\ OfEntry(OpenLot(entry, quantity))
<1>. DEFINE lot == OpenLot(entry, quantity)
            water == IF Trails(entry.plan) /\ StartsActivated(entry.plan)
                     THEN MarkAt(entry, entry.price) ELSE NoWater
            behind == TriggerBehind(entry, MarkAt(entry, entry.price))
            price == IF entry.plan.trailPrice # 0 THEN entry.plan.trailPrice ELSE behind
<1>1. lot = [id |-> entry.id, dir |-> entry.dir, entry |-> entry.price, plan |-> entry.plan,
             original |-> quantity, remaining |-> quantity, exits |-> BuildExits(entry),
             activated |-> StartsActivated(entry.plan), tpFilled |-> FALSE, breakeven |-> FALSE,
             water |-> water, marks |-> 0]
  BY DEF OpenLot
<1>2. /\ BuildExits(entry) \in Seq(Leg)
      /\ \A kind \in Protective : \A a, b \in DOMAIN BuildExits(entry) :
            BuildExits(entry)[a].kind = kind /\ BuildExits(entry)[b].kind = kind => a = b
      /\ \A a \in DOMAIN BuildExits(entry) :
            BuildExits(entry)[a].kind = "trailing_stop" =>
               /\ Trails(entry.plan)
               /\ BuildExits(entry)[a].price = price
               /\ BuildExits(entry)[a].status = "open" => StartsActivated(entry.plan)
  BY BuiltExits
<1>3. /\ entry.dir \in {1, -1}
      /\ entry.id \in Ids
      /\ entry.price \in Nat \ {0}
      /\ entry.plan \in Plan
      /\ Trailer(entry)
      /\ Scale(entry) > 0
  BY EntryFields
<1>p. /\ MarkAt(entry, entry.price) \in Int
      /\ MarkAt(entry, entry.price) > 0
      /\ behind \in Int
      /\ entry.dir = -1 => behind > 0
  BY <1>3, Distances, MarkIsPositive
<1>4. StartsActivated(entry.plan) \in BOOLEAN
  BY DEF StartsActivated
<1>5. water \in {NoWater} \cup Int
  BY <1>p
<1>. HIDE DEF lot, water, behind
<1>6. /\ lot.id = entry.id
      /\ lot.dir = entry.dir
      /\ lot.entry = entry.price
      /\ lot.plan = entry.plan
      /\ lot.original = quantity
      /\ lot.remaining = quantity
      /\ lot.exits = BuildExits(entry)
      /\ lot.activated = StartsActivated(entry.plan)
      /\ lot.water = water
  BY <1>1
<1>7. lot \in Lot
  BY <1>1, <1>2, <1>3, <1>4, <1>5 DEF Lot
<1>8. OneEach(lot)
  BY <1>2, <1>6 DEF OneEach, Legs
<1>9. TrailOK(lot)
  <2>1. ~lot.activated => lot.water = NoWater
    BY <1>6 DEF water
  <2>a. /\ \A w : TriggerBehind(lot, w) = TriggerBehind(entry, w)
        /\ \A p : MarkAt(lot, p) = MarkAt(entry, p)
        /\ \A current : Step(lot, current) = Step(entry, current)
    BY <1>6, TrailsAlike
  <2>2. lot.water # NoWater => lot.water = MarkAt(entry, entry.price)
    BY <1>6 DEF water
  <2>b. lot.dir = 1 /\ lot.water # NoWater => lot.water > 0
    BY <1>6, <1>p, <2>2
  <2>3. ASSUME NEW i \in Legs(lot, "trailing_stop")
        PROVE  /\ Trails(lot.plan)
               /\ lot.activated =>
                     /\ lot.water # NoWater
                     /\ AtStart(lot) \/ 100 * Lag(lot) < Most(Step(lot, TrailPrice(lot)), 100)
                     /\ lot.dir = 1 \/ TriggerBehind(lot, lot.water) > 0
               /\ ~lot.activated /\ lot.plan.trailPrice = 0 =>
                     ~Further(lot, TriggerBehind(lot, MarkAt(lot, lot.entry)), TrailPrice(lot))
    <3>1. TrailPrice(lot) = lot.exits[i].price
      BY <1>7, <1>8, TrailLeg
    <3>2. Trails(entry.plan) /\ TrailPrice(lot) = price
      BY <1>2, <1>6, <3>1 DEF Legs
    <3>4. lot.activated => lot.water = MarkAt(entry, entry.price) /\ lot.water # NoWater
      BY <1>p, <1>6, <3>2, WaterAssumption DEF water
    <3>5. ASSUME entry.plan.trailPrice # 0, lot.activated
          PROVE  AtStart(lot)
      BY <1>6, <2>a, <3>4, <3>5 DEF AtStart
    <3>6. ASSUME entry.plan.trailPrice = 0
          PROVE  TrailPrice(lot) = behind
      BY <3>2, <3>6
    <3>7. ASSUME entry.plan.trailPrice = 0, lot.activated
          PROVE  100 * Lag(lot) < Most(Step(lot, TrailPrice(lot)), 100)
      <4>1. Lag(lot) = lot.dir * (behind - behind)
        BY <2>a, <3>4, <3>6, <3>7 DEF Lag, behind
      <4>2. Lag(lot) = 0
        BY <4>1, <1>3, <1>6, <1>p
      <4>3. Step(lot, TrailPrice(lot)) \in Int
        BY <1>7, <1>p, <3>6, <3>7, StepOfLot
      <4>. QED BY <4>2, <4>3 DEF Most
    <3>8. ASSUME entry.plan.trailPrice = 0
          PROVE  ~Further(lot, TriggerBehind(lot, MarkAt(lot, lot.entry)), TrailPrice(lot))
      BY <1>6, <1>7, <1>p, <2>a, <3>6, <3>8, FurtherIsOrder DEF behind
    <3>9. lot.activated => lot.dir = 1 \/ TriggerBehind(lot, lot.water) > 0
      BY <1>3, <1>6, <1>p, <2>a, <3>4 DEF behind
    <3>. QED BY <1>6, <3>2, <3>4, <3>5, <3>7, <3>8, <3>9
  <2>. QED BY <2>1, <2>b, <2>3 DEF TrailOK
<1>10. OfEntry(lot)
  BY <1>1 DEF OfEntry
<1>11. Armed(lot)
  BY <1>2, <1>6 DEF Armed, Legs
<1>12. Sized(lot)
  BY <1>3, <1>6, TrailsAlike DEF Sized
<1>. QED BY <1>3, <1>6, <1>7, <1>8, <1>9, <1>10, <1>11, <1>12 DEF lot

\* Every lot has the id of one of the lots before.
NoNewIds(after, before) ==
  \A a \in DOMAIN after : \E i \in DOMAIN before : after[a].id = before[i].id

\* Closing a part of the lots leaves the others as they are.
LEMMA ReduceSound ==
  ASSUME NEW book, Sound(book), NEW dir \in {1, -1}, NEW quantity \in Nat
  PROVE  /\ Sound(Reduce(book, dir, quantity))
         /\ NoNewIds(Reduce(book, dir, quantity).lots, book.lots)
<1>. DEFINE after == Reduce(book, dir, quantity)
<1>1. after \in [lots : Seq(Lot), position : Int] /\ Balanced(after)
  BY ReduceBalanced DEF Sound
<1>2. \A i \in DOMAIN book.lots : book.lots[i] \in Lot
  BY DEF Sound
<1>3. CutFrom(after.lots, book.lots)
  BY ReduceLots DEF Sound
<1>. HIDE DEF after
<1>4. ASSUME NEW a \in DOMAIN after.lots
      PROVE  \E i \in DOMAIN book.lots :
                /\ after.lots[a].id = book.lots[i].id
                /\ after.lots[a].dir = book.lots[i].dir
                /\ Sized(after.lots[a])
                /\ TrailOK(after.lots[a])
                /\ Armed(after.lots[a])
                /\ OfEntry(after.lots[a])
  <2>1. PICK i \in DOMAIN book.lots : \E r \in Int :
           after.lots[a] = [book.lots[i] EXCEPT !.remaining = r]
    BY <1>3 DEF CutFrom
  <2>2. PICK r \in Int : after.lots[a] = [book.lots[i] EXCEPT !.remaining = r]
    BY <2>1
  <2>3. /\ book.lots[i] \in Lot /\ Sized(book.lots[i])
        /\ TrailOK(book.lots[i]) /\ Armed(book.lots[i])
    BY <1>2 DEF Sound
  <2>4. TrailOK(after.lots[a]) /\ Armed(after.lots[a])
    BY <2>2, <2>3, TrailOfReduced
  <2>5. /\ after.lots[a].id = book.lots[i].id
        /\ after.lots[a].dir = book.lots[i].dir
        /\ after.lots[a].entry = book.lots[i].entry
        /\ after.lots[a].plan = book.lots[i].plan
    BY <2>2, <2>3, LessRemaining
  <2>6. OfEntry(after.lots[a])
    BY <2>5 DEF Sound, OfEntry
  <2>7. Sized(after.lots[a])
    BY <2>3, <2>5, TrailsAlike
  <2>. QED BY <2>4, <2>5, <2>6, <2>7
<1>5. OneSided(after.lots)
  BY <1>4 DEF Sound, OneSided
<1>6. NoNewIds(after.lots, book.lots)
  BY <1>4 DEF NoNewIds
<1>. QED BY <1>1, <1>4, <1>5, <1>6 DEF Sound, after

\* A lot that holds nothing in a direction does not lie in it.
LEMMA NothingHeld ==
  ASSUME NEW book, LotsOK(book), NEW dir \in {1, -1}, OpenQuantity(book, -dir) = 0
  PROVE  \A i \in DOMAIN book : book[i].dir = dir
<1>1. ASSUME NEW i \in DOMAIN book PROVE book[i].dir = dir
  <2>1. Solid(book)
    BY LotsOKIsWithin, WithinIsSolid
  <2>2. Holds(book[i], -dir) <= 0
    BY <2>1, LotWithinSum
  <2>3. book[i] \in Lot /\ book[i].remaining \in 1 .. book[i].original
    BY DEF LotsOK, WellFormed
  <2>4. book[i].remaining \in Int /\ book[i].dir \in {1, -1} /\ book[i].original \in Int
    BY <2>3, LotFields
  <2>5. book[i].remaining > 0
    BY <2>3, <2>4
  <2>6. book[i].dir # -dir
    BY <2>2, <2>4, <2>5 DEF Holds
  <2>. QED BY <2>4, <2>6
<1>. QED BY <1>1

\* What lots of one side come to.
LEMMA LotsOfOneSide ==
  ASSUME NEW book, Within(book), OneSided(book), NEW i \in DOMAIN book
  PROVE  /\ book[i].dir \in {1, -1}
         /\ OpenQuantity(book, book[i].dir) \in Nat
         /\ OpenQuantity(book, -book[i].dir) = 0
         /\ Exposure(book) = book[i].dir * OpenQuantity(book, book[i].dir)
         /\ book[i].remaining \in Nat
         /\ book[i].remaining <= OpenQuantity(book, book[i].dir)
<1>. DEFINE dir == book[i].dir
            N == Len(book)
            sum == Quantities(book, -dir)
            zero == {0}
<1>1. Solid(book) /\ book \in Seq(Lot)
  BY WithinIsSolid DEF Within, WellFormed
<1>2. /\ N \in Nat
      /\ DOMAIN book = 1 .. N
      /\ \A n \in 1 .. N : book[n] \in Lot /\ book[n].dir = dir
  BY <1>1 DEF OneSided
<1>3. dir \in {1, -1}
  BY <1>2, LotFields
<1>4. sum[0] \in zero
  BY <1>1, QuantitiesStep
<1>5. \A n \in 1 .. N : sum[n - 1] \in zero => sum[n] \in zero
  <2>1. \A n \in 1 .. N : Holds(book[n], -dir) = 0
    BY <1>2, <1>3 DEF Holds
  <2>2. \A n \in 1 .. N : sum[n] = sum[n - 1] + Holds(book[n], -dir)
    BY <1>1, QuantitiesStep
  <2>. HIDE DEF sum, N, dir
  <2>. QED BY <2>1, <2>2
<1>6. \A n \in 0 .. N : sum[n] \in zero
  <2>. HIDE DEF sum, zero, N
  <2>. QED BY <1>2, <1>4, <1>5, RecursionTyped, Zenon
<1>7. OpenQuantity(book, -dir) = 0
  <2>1. N \in 0 .. N
    BY <1>2
  <2>. QED BY <1>6, <2>1 DEF OpenQuantity
<1>8. OpenQuantity(book, dir) \in Nat
  <2>1. N \in 0 .. N
    BY <1>2
  <2>. QED BY <1>1, <2>1, SumsNatural DEF OpenQuantity
<1>9. Exposure(book) = dir * OpenQuantity(book, dir)
  <2>1. CASE dir = 1
    BY <1>7, <1>8, <2>1 DEF Exposure
  <2>2. CASE dir = -1
    BY <1>7, <1>8, <2>2 DEF Exposure
  <2>. QED BY <1>3, <2>1, <2>2
<1>10. Holds(book[i], dir) = book[i].remaining
  BY DEF Holds
<1>11. Holds(book[i], dir) <= OpenQuantity(book, dir)
  BY <1>1, LotWithinSum
<1>12. book[i].remaining \in Nat
  <2>1. book[i].remaining \in 0 .. book[i].original /\ book[i].original \in Int
    BY <1>1, <1>2, LotFields DEF Within
  <2>. QED BY <2>1
<1>. QED BY <1>3, <1>7, <1>8, <1>9, <1>10, <1>11, <1>12

\* An entry closes what lies the other way before it opens a lot, so that a sound
\* book stays sound (_replay_order).
LEMMA ReplayEntrySound ==
  ASSUME NEW book, Sound(book), NEW entry \in Entries,
         \A i \in DOMAIN book.lots : book.lots[i].id # entry.id
  PROVE  /\ Sound(ReplayEntry(book, entry))
         /\ \A a \in DOMAIN ReplayEntry(book, entry).lots :
               \/ ReplayEntry(book, entry).lots[a].id = entry.id
               \/ \E i \in DOMAIN book.lots :
                     ReplayEntry(book, entry).lots[a].id = book.lots[i].id
<1>. DEFINE dir == entry.dir
            netted == Least(Bought(entry), OpenQuantity(book.lots, -dir))
            opened == Bought(entry) - netted
            after == Reduce(book, -dir, netted)
            lot == OpenLot(entry, opened)
            new == [lots |-> Append(after.lots, lot), position |-> Opened(dir, after.position, opened)]
            final == ReplayEntry(book, entry)
<1>1. final = IF opened = 0 THEN after ELSE new
  BY DEF ReplayEntry
<1>2. dir \in {1, -1} /\ -dir \in {1, -1} /\ -(-dir) = dir /\ Bought(entry) \in Nat \ {0}
  BY EntryFields
<1>3. OpenQuantity(book.lots, -dir) \in Nat
  BY SumOK DEF Sound, Balanced
<1>4. netted \in Nat /\ opened \in Nat /\ netted <= OpenQuantity(book.lots, -dir)
      /\ (opened # 0 => netted = OpenQuantity(book.lots, -dir))
  BY <1>2, <1>3 DEF Least
<1>. HIDE DEF netted, opened, dir
<1>5. /\ Sound(after)
      /\ NoNewIds(after.lots, book.lots)
  BY <1>2, <1>4, ReduceSound
<1>6. OpenQuantity(after.lots, -dir) = Most(0, OpenQuantity(book.lots, -dir) - netted)
  <2>. DEFINE other == -dir
  <2>1. other \in {1, -1} /\ netted \in Nat /\ Balanced(book)
    BY <1>2, <1>4 DEF Sound
  <2>. HIDE DEF other
  <2>2. OpenQuantity(Reduce(book, other, netted).lots, other)
          = Most(0, OpenQuantity(book.lots, other) - netted)
    BY <2>1, ReduceBalanced
  <2>. QED BY <2>2 DEF other
<1>. HIDE DEF after, final
<1>7. CASE opened = 0
  BY <1>1, <1>5, <1>7 DEF final, NoNewIds
<1>8. CASE opened # 0
  <2>0. opened \in Nat \ {0}
    BY <1>4, <1>8
  <2>1. /\ lot \in Lot
        /\ OneEach(lot)
        /\ TrailOK(lot)
        /\ Armed(lot)
        /\ lot.id = entry.id
        /\ lot.dir = dir
        /\ Sized(lot)
        /\ lot.original = opened
        /\ lot.remaining = opened
        /\ OfEntry(lot)
    BY <2>0, OpenLotOK DEF dir
  <2>. HIDE DEF lot
  <2>2. OpenQuantity(after.lots, -dir) = 0
    BY <1>3, <1>4, <1>6, <1>8 DEF Most
  <2>3. /\ LotsOK(after.lots)
        /\ after.lots \in Seq(Lot)
        /\ after.position = Exposure(after.lots)
    BY <1>5 DEF Sound, Balanced, LotsOK, WellFormed
  <2>4. \A i \in DOMAIN after.lots : after.lots[i].dir = dir
    BY <1>2, <2>2, <2>3, NothingHeld
  <2>. DEFINE s == after.lots
              t == Append(s, lot)
  <2>5. /\ t \in Seq(Lot)
        /\ \A a \in DOMAIN t :
              \/ a \in DOMAIN s /\ t[a] = s[a]
              \/ a = Len(s) + 1 /\ t[a] = lot
    <3>. HIDE DEF s
    <3>. QED BY <2>1, <2>3 DEF s
  <2>6. \A i \in DOMAIN s : s[i].id # entry.id
    BY <1>5 DEF NoNewIds
  <2>7. OpenQuantity(t, dir) = OpenQuantity(s, dir) + opened
        /\ OpenQuantity(t, -dir) = 0
    <3>1. dir # -dir
      BY <1>2
    <3>2. Holds(lot, dir) = opened /\ Holds(lot, -dir) = 0
      BY <2>1, <3>1 DEF Holds
    <3>. QED BY <2>1, <2>2, <2>3, <3>2, SumAppended
  <2>8. OpenQuantity(s, dir) \in Nat
    BY <2>3, SumOK
  <2>. HIDE DEF s, t
  <2>9. LotsOK(t)
    <3>1. \A a \in DOMAIN t : OneEach(t[a]) /\ t[a].remaining \in 1 .. t[a].original
      <4>1. lot.remaining \in 1 .. lot.original
        BY <2>0, <2>1
      <4>. QED BY <2>1, <2>3, <2>5, <4>1 DEF LotsOK, WellFormed, s
    <3>2. \A a, b \in DOMAIN t : t[a].id = t[b].id => a = b
      BY <2>1, <2>3, <2>5, <2>6 DEF LotsOK, WellFormed, s
    <3>. QED BY <2>5, <3>1, <3>2 DEF LotsOK, WellFormed
  <2>10. Opened(dir, after.position, opened) = Exposure(t)
    <3>1. CASE dir = 1
      BY <2>0, <2>2, <2>3, <2>7, <2>8, <3>1 DEF Opened, Exposure, Most, s
    <3>2. CASE dir = -1
      <4>1. OpenQuantity(s, 1) = 0 /\ OpenQuantity(t, 1) = 0
        BY <2>2, <2>7, <3>2 DEF s
      <4>. QED BY <2>0, <2>3, <2>7, <2>8, <3>2, <4>1 DEF Opened, Exposure, Most, s
    <3>. QED BY <1>2, <3>1, <3>2
  <2>11. new.lots = t /\ new.position = Exposure(t) /\ Exposure(t) \in Int
         /\ new \in [lots : Seq(Lot), position : Int]
    <3>1. OpenQuantity(t, 1) \in Nat /\ OpenQuantity(t, -1) \in Nat
      BY <2>9, SumOK
    <3>. QED BY <2>5, <2>10, <3>1 DEF t, s, Exposure
  <2>. HIDE DEF new
  <2>12. OneSided(t)
    BY <2>1, <2>4, <2>5 DEF OneSided, s
  <2>13. \A a \in DOMAIN t : Sized(t[a]) /\ TrailOK(t[a]) /\ Armed(t[a]) /\ OfEntry(t[a])
    BY <1>5, <2>1, <2>5 DEF Sound, s
  <2>14. Sound(new)
    BY <2>9, <2>11, <2>12, <2>13 DEF Sound, Balanced
  <2>15. \A a \in DOMAIN new.lots :
            \/ new.lots[a].id = entry.id
            \/ \E i \in DOMAIN book.lots : new.lots[a].id = book.lots[i].id
    BY <1>5, <2>1, <2>5, <2>11 DEF s, NoNewIds
  <2>16. final = new
    BY <1>1, <1>8
  <2>. QED BY <2>14, <2>15, <2>16 DEF final
<1>. QED BY <1>7, <1>8

\* The state an order history can be replayed to.
Books == [lots : Seq(Lot), position : Int]

\* An exchange before its first order.
LEMMA EmptyBookSound ==
  /\ Sound([lots |-> <<>>, position |-> 0])
  /\ \A dir : OpenQuantity(<<>>, dir) = 0
<1>1. <<>> \in Seq(Lot) /\ Len(<<>>) = 0 /\ DOMAIN <<>> = {}
  OBVIOUS
<1>2. \A dir : OpenQuantity(<<>>, dir) = 0
  BY <1>1, QuantitiesStep DEF OpenQuantity
<1>3. Exposure(<<>>) = 0
  BY <1>2 DEF Exposure
<1>4. LotsOK(<<>>) /\ OneSided(<<>>)
  BY <1>1 DEF LotsOK, WellFormed, OneSided
<1>. QED BY <1>1, <1>2, <1>3, <1>4 DEF Sound, Balanced

\* The book a recorded history replays to.
LEMMA ReplaySound ==
  ASSUME NEW history \in Histories
  PROVE  Sound(Replay(history))
<1>. DEFINE N == Len(history)
            empty == [lots |-> <<>>, position |-> 0]
            Known(b, n) == \A i \in DOMAIN b.lots : \E k \in 1 .. n : b.lots[i].id = history[k].id
            inv == [n \in 0 .. N |-> {b \in Books : Sound(b) /\ Known(b, n)}]
            step == [n \in 1 .. N |-> [b \in Books |-> ReplayEntry(b, history[n])]]
            Body(g) == [n \in 0 .. N |-> IF n = 0 THEN empty
                                         ELSE ReplayEntry(g[n - 1], history[n])]
            book == CHOOSE h : h = Body(h)
<1>1. /\ history \in Seq(Entries)
      /\ N \in Nat
      /\ \A n \in 1 .. N : history[n] \in Entries
      /\ \A i, j \in 1 .. N : history[i].id = history[j].id => i = j
  <2>1. /\ history \in Seq(Entries)
        /\ \A i, j \in DOMAIN history : history[i].id = history[j].id => i = j
    BY BracketAssumption
  <2>. QED BY <2>1
<1>2. Replay(history) = book[N]
  BY DEF Replay
<1>. HIDE DEF N, book, Known
<1>3. empty \in inv[0]
  <2>1. Sound(empty) /\ empty \in Books
    BY EmptyBookSound DEF Sound, Books
  <2>2. Known(empty, 0)
    BY DEF Known
  <2>. HIDE DEF empty
  <2>. QED BY <1>1, <2>1, <2>2
<1>4. ASSUME NEW n \in 1 .. N, NEW b \in inv[n - 1]
      PROVE  ReplayEntry(b, history[n]) \in inv[n]
  <2>1. Sound(b) /\ Known(b, n - 1) /\ n - 1 \in 0 .. N /\ n \in 0 .. N
    BY <1>1
  <2>2. history[n] \in Entries
    BY <1>1
  <2>3. \A i \in DOMAIN b.lots : b.lots[i].id # history[n].id
    <3>1. ASSUME NEW i \in DOMAIN b.lots PROVE b.lots[i].id # history[n].id
      <4>1. PICK k \in 1 .. n - 1 : b.lots[i].id = history[k].id
        BY <2>1 DEF Known
      <4>2. k \in 1 .. N /\ k # n
        BY <1>1
      <4>. QED BY <1>1, <4>1, <4>2
    <3>. QED BY <3>1
  <2>. DEFINE after == ReplayEntry(b, history[n])
  <2>4. /\ Sound(after)
        /\ \A a \in DOMAIN after.lots :
              \/ after.lots[a].id = history[n].id
              \/ \E i \in DOMAIN b.lots : after.lots[a].id = b.lots[i].id
    BY <2>1, <2>2, <2>3, ReplayEntrySound
  <2>. HIDE DEF after
  <2>5. Known(after, n)
    <3>1. \A k \in 1 .. n - 1 : k \in 1 .. n
      OBVIOUS
    <3>. QED BY <2>1, <2>4, <3>1 DEF Known
  <2>6. after \in Books
    BY <2>4 DEF Sound, Books
  <2>. QED BY <2>1, <2>4, <2>5, <2>6 DEF after
<1>. HIDE DEF empty
<1>5. inv \in [0 .. N -> SUBSET Books]
  OBVIOUS
<1>6. Advances(N, inv, step)
  <2>1. ASSUME NEW n \in 1 .. N, NEW x \in inv[n - 1] PROVE step[n][x] \in inv[n]
    <3>1. x \in Books
      BY <1>1
    <3>2. step[n][x] = ReplayEntry(x, history[n])
      BY <3>1
    <3>. QED BY <1>4, <3>2
  <2>. QED BY <2>1 DEF Advances
<1>. HIDE DEF inv
<1>7. PICK g : Guided(g, N, Books, inv, empty, step)
  <2>. HIDE DEF step
  <2>. QED BY <1>1, <1>3, <1>5, <1>6, GuidedRecursion
<1>8. g = Body(g)
  <2>1. \A n \in 1 .. N : g[n - 1] \in Books
    BY <1>1, <1>7 DEF Guided
  <2>2. \A n \in 1 .. N : g[n] = ReplayEntry(g[n - 1], history[n])
    BY <1>7, <2>1 DEF Guided
  <2>. HIDE DEF step
  <2>. QED BY <1>1, <1>7, <2>2 DEF Guided
<1>9. book = Body(book)
  <2>. HIDE DEF Body
  <2>. QED BY <1>8 DEF book
<1>10. /\ book[0] = empty
       /\ \A n \in 1 .. N : book[n] = ReplayEntry(book[n - 1], history[n])
  BY <1>1, <1>9
<1>11. \A n \in 0 .. N : book[n] \in inv[n]
  <2>1. book[0] \in inv[0]
    BY <1>3, <1>10
  <2>2. \A n \in 1 .. N : book[n - 1] \in inv[n - 1] => book[n] \in inv[n]
    BY <1>4, <1>10
  <2>. QED BY <1>1, <2>1, <2>2, GuidedInduction
<1>12. book[N] \in inv[N]
  BY <1>1, <1>11
<1>. QED BY <1>1, <1>2, <1>12 DEF inv

-----------------------------------------------------------------------------
(***************************************************************************)
(* The trailing stop of a lot.                                             *)
(***************************************************************************)

\* The numbers a trailing stop is placed with.
LEMMA LotNumbers ==
  ASSUME NEW lot \in Lot
  PROVE  /\ lot.dir \in {1, -1}
         /\ lot.entry \in Int
         /\ lot.water \in {NoWater} \cup Int
         /\ lot.activated \in BOOLEAN
         /\ lot.plan.trailPrice \in Nat
         /\ MarkAt(lot, lot.entry) \in Int
         /\ TriggerBehind(lot, MarkAt(lot, lot.entry)) \in Int
<1>1. /\ lot.dir \in {1, -1}
      /\ lot.entry \in Int
      /\ lot.plan \in Plan
      /\ lot.water \in {NoWater} \cup Int
      /\ lot.activated \in BOOLEAN
  BY DEF Lot
<1>2. lot.plan.trailPrice \in Nat
  BY <1>1 DEF Plan
<1>3. MarkAt(lot, lot.entry) \in Int
  BY <1>1, LotTrails, Distances
<1>4. TriggerBehind(lot, MarkAt(lot, lot.entry)) \in Int
  BY <1>3, LotTrails, Distances
<1>. QED BY <1>1, <1>2, <1>3, <1>4

\* The legs of a kind come from legs of the lot that were no nearer.
Follows(lot, after, kind) ==
  \A b \in Legs(after, kind) : \E a \in Legs(lot, kind) :
     ~Further(lot, lot.exits[a].price, after.exits[b].price)

\* A leg has a price.
LEMMA LegPrice ==
  ASSUME NEW lot \in Lot, NEW kind, NEW i \in Legs(lot, kind)
  PROVE  lot.exits[i].price \in Int
BY LegOfLot DEF Legs

\* A maintenance that keeps each leg of the protection, or moves it nearer.
LEMMA KeptFollows ==
  ASSUME NEW lot, NEW after, Kept(lot, after), NEW kind \in Protective
  PROVE  Follows(lot, after, kind)
<1>1. ASSUME NEW b \in Legs(after, kind)
      PROVE  b \in Legs(lot, kind) /\ ~Further(lot, lot.exits[b].price, after.exits[b].price)
  BY DEF Kept, Legs
<1>. QED BY <1>1 DEF Follows

\* The legs of a lot follow themselves.
LEMMA FollowsItself ==
  ASSUME NEW lot \in Lot, NEW after, after.exits = lot.exits, NEW kind
  PROVE  Follows(lot, after, kind)
<1>1. Legs(after, kind) = Legs(lot, kind)
  BY DEF Legs
<1>2. \A i \in Legs(lot, kind) : ~Further(lot, lot.exits[i].price, lot.exits[i].price)
  BY LegPrice, FurtherIsOrder
<1>. QED BY <1>1, <1>2 DEF Follows

\* Legs that follow legs that follow a lot's.
LEMMA FollowsIsTransitive ==
  ASSUME NEW lot \in Lot, NEW middle \in Lot, NEW after \in Lot, middle.dir = lot.dir,
         NEW kind, Follows(lot, middle, kind), Follows(middle, after, kind)
  PROVE  Follows(lot, after, kind)
<1>1. ASSUME NEW c \in Legs(after, kind)
      PROVE  \E a \in Legs(lot, kind) : ~Further(lot, lot.exits[a].price, after.exits[c].price)
  <2>1. PICK b \in Legs(middle, kind) :
           ~Further(middle, middle.exits[b].price, after.exits[c].price)
    BY DEF Follows
  <2>2. PICK a \in Legs(lot, kind) : ~Further(lot, lot.exits[a].price, middle.exits[b].price)
    BY DEF Follows
  <2>3. ~Further(lot, middle.exits[b].price, after.exits[c].price)
    BY <2>1, SameDirection
  <2>4. lot.exits[a].price \in Int /\ middle.exits[b].price \in Int
        /\ after.exits[c].price \in Int
    BY LegPrice
  <2>. QED BY <2>2, <2>3, <2>4, NotFurtherIsTransitive
<1>. QED BY <1>1 DEF Follows

\* With one leg of a kind, legs that follow are not looser.
LEMMA FollowsIsNotLoosened ==
  ASSUME NEW lot, NEW after, OneEach(lot),
         \A kind \in Protective : Follows(lot, after, kind)
  PROVE  NotLoosened(lot, after)
<1>1. ASSUME NEW kind \in Protective, NEW a \in Legs(lot, kind), NEW b \in Legs(after, kind)
      PROVE  ~Further(lot, lot.exits[a].price, after.exits[b].price)
  <2>1. PICK c \in Legs(lot, kind) : ~Further(lot, lot.exits[c].price, after.exits[b].price)
    BY DEF Follows
  <2>2. c = a
    BY DEF OneEach
  <2>. QED BY <2>1, <2>2
<1>. QED BY <1>1 DEF NotLoosened

\* The price of the trailing stop of a lot that has one.
LEMMA TrailLegs ==
  ASSUME NEW lot \in Lot, OneEach(lot), Legs(lot, "trailing_stop") # {}
  PROVE  /\ TrailPrice(lot) \in Int
         /\ \A i \in Legs(lot, "trailing_stop") : lot.exits[i].price = TrailPrice(lot)
<1>1. \A i \in Legs(lot, "trailing_stop") : lot.exits[i].price = TrailPrice(lot)
  BY TrailLeg
<1>2. PICK i \in Legs(lot, "trailing_stop") : TRUE
  OBVIOUS
<1>. QED BY <1>1, <1>2, LegPrice

\* A trigger lies less than a step behind the best one.
Near(lot, best, trigger) ==
  100 * (lot.dir * (best - trigger)) < Most(Step(lot, trigger), 100)

\* The best trigger of a short lot is positive, unless the trigger has reached it.
Sane(lot, best, trigger) == lot.dir = 1 \/ best > 0 \/ ~Further(lot, best, trigger)

\* What TrailOK says of the trailing stop of an armed lot.
LEMMA ArmedTrail ==
  ASSUME NEW lot
  PROVE  /\ Near(lot, TriggerBehind(lot, lot.water), TrailPrice(lot)) <=>
              100 * Lag(lot) < Most(Step(lot, TrailPrice(lot)), 100)
         /\ Sane(lot, TriggerBehind(lot, lot.water), TrailPrice(lot)) <=>
              \/ lot.dir = 1
              \/ TriggerBehind(lot, lot.water) > 0
              \/ ~Further(lot, TriggerBehind(lot, lot.water), TrailPrice(lot))
BY DEF Near, Sane, Lag

\* A trigger at the best one or past it is near.
LEMMA ReachedIsNear ==
  ASSUME NEW lot \in Lot, NEW c \in Int, NEW p \in Int, ~Further(lot, c, p)
  PROVE  Near(lot, c, p) /\ Sane(lot, c, p)
<1>1. lot.dir \in {1, -1}
  BY LotNumbers
<1>2. lot.dir * (c - p) \in Int /\ lot.dir * (c - p) <= 0
  BY <1>1 DEF Further
<1>3. Step(lot, p) \in Int
  BY StepOfLot
<1>4. Most(Step(lot, p), 100) \in Int /\ Most(Step(lot, p), 100) >= 100
  BY <1>3 DEF Most
<1>5. \A lag \in Int, most \in Int : lag <= 0 /\ most >= 100 => 100 * lag < most
  OBVIOUS
<1>6. Near(lot, c, p)
  BY <1>2, <1>4, <1>5 DEF Near
<1>. QED BY <1>6 DEF Sane

\* A product is no less for a factor that is no less.
LEMMA ProductsInOrder ==
  ASSUME NEW k \in Nat, NEW a \in Int, NEW b \in Int, a <= b
  PROVE  k * a \in Int /\ k * b \in Int /\ k * a <= k * b
<1>1. k * (b - a) \in Int /\ k * (b - a) >= 0
  OBVIOUS
<1>2. k * (b - a) = k * b - k * a
  OBVIOUS
<1>. QED BY <1>1, <1>2

\* A trigger that tightens, while the best one does not, stays less than a step
\* behind it, although a step that is a share of the trigger of a short lot
\* becomes smaller.
LEMMA NearKept ==
  ASSUME NEW lot \in Lot, NEW c \in Int, NEW p \in Int, NEW e \in Int, NEW q \in Int,
         ~Further(lot, p, q), ~Further(lot, e, c), Near(lot, c, p), Sane(lot, c, p)
  PROVE  Near(lot, e, q) /\ Sane(lot, e, q)
<1>. DEFINE k == lot.plan.stepPct
            n == lot.plan.step
<1>1. n \in Nat /\ k \in Nat
  BY LotTrails, PlanNumbers
<1>2. Step(lot, p) = (IF n # 0 THEN 100 * n ELSE k * p)
      /\ Step(lot, q) = (IF n # 0 THEN 100 * n ELSE k * q)
  BY DEF Step
<1>. HIDE DEF k, n
<1>3. k * p \in Int /\ k * q \in Int
  BY <1>1
<1>4. CASE ~Further(lot, e, q)
  BY <1>4, ReachedIsNear
<1>5. CASE Further(lot, e, q) /\ lot.dir = 1
  <2>1. p <= q /\ e <= c /\ e > q /\ 100 * (c - p) < Most(Step(lot, p), 100)
    BY <1>5 DEF Further, Near
  <2>2. k * p <= k * q
    BY <1>1, <2>1, ProductsInOrder
  <2>3. 100 * (e - q) < Most(Step(lot, q), 100)
    BY <1>1, <1>2, <1>3, <2>1, <2>2 DEF Most
  <2>. QED BY <1>5, <2>3 DEF Near, Sane
<1>6. CASE Further(lot, e, q) /\ lot.dir = -1
  <2>1. q <= p /\ c <= e /\ e < q
    BY <1>6 DEF Further
  <2>2. 100 * (p - c) < Most(Step(lot, p), 100)
    BY <1>6 DEF Near
  <2>3. c > 0
    BY <1>6, <2>1 DEF Sane, Further
  <2>4. 100 * (q - e) < Most(Step(lot, q), 100)
    <3>1. CASE n # 0
      BY <1>1, <1>2, <2>1, <2>2, <3>1 DEF Most
    <3>2. CASE n = 0 /\ k < 100
      <4>1. (100 - k) * q <= (100 - k) * p
        BY <1>1, <2>1, <3>2, ProductsInOrder
      <4>2. (100 - k) * q = 100 * q - k * q /\ (100 - k) * p = 100 * p - k * p
        BY <1>1
      <4>3. 100 * (p - c) < k * p
        BY <1>2, <1>3, <2>1, <2>2, <3>2 DEF Most
      <4>4. 100 * (q - e) < k * q
        BY <1>3, <2>1, <4>1, <4>2, <4>3
      <4>. QED BY <1>2, <1>3, <3>2, <4>4 DEF Most
    <3>3. CASE n = 0 /\ k >= 100
      <4>1. (k - 100) * q >= 0
        BY <1>1, <2>1, <2>3, <3>3
      <4>2. (k - 100) * q = k * q - 100 * q
        BY <1>1
      <4>3. 100 * (q - e) < k * q
        BY <1>3, <2>1, <2>3, <4>1, <4>2
      <4>. QED BY <1>2, <1>3, <3>3, <4>3 DEF Most
    <3>. QED BY <1>1, <3>1, <3>2, <3>3
  <2>5. e > 0
    BY <2>1, <2>3
  <2>. QED BY <1>6, <2>4, <2>5 DEF Near, Sane
<1>. QED BY <1>4, <1>5, <1>6, DirectionOfLot

\* A lot whose trailing stop has moved up, its water mark as it was.
LEMMA TrailStays ==
  ASSUME NEW lot \in Lot, OneEach(lot), TrailOK(lot), NEW after \in Lot, OneEach(after),
         after.dir = lot.dir, after.entry = lot.entry, after.plan = lot.plan,
         after.water = lot.water, after.activated = lot.activated,
         Follows(lot, after, "trailing_stop")
  PROVE  TrailOK(after)
<1>1. CASE Legs(after, "trailing_stop") = {}
  BY <1>1 DEF TrailOK
<1>2. CASE Legs(after, "trailing_stop") # {}
  <2>. DEFINE p == TrailPrice(lot)
              q == TrailPrice(after)
              c == TriggerBehind(lot, lot.water)
              e == TriggerBehind(lot, MarkAt(lot, lot.entry))
  <2>1. PICK b \in Legs(after, "trailing_stop") : TRUE
    BY <1>2
  <2>2. PICK a \in Legs(lot, "trailing_stop") :
           ~Further(lot, lot.exits[a].price, after.exits[b].price)
    BY <2>1 DEF Follows
  <2>3. lot.exits[a].price = p /\ after.exits[b].price = q /\ p \in Int /\ q \in Int
    BY <2>1, <2>2, TrailLegs
  <2>4. ~Further(lot, p, q)
    BY <2>2, <2>3
  <2>5. /\ lot.water \in {NoWater} \cup Int
        /\ lot.activated \in BOOLEAN
        /\ e \in Int
    BY LotNumbers
  <2>6. /\ Trails(lot.plan)
        /\ lot.activated => lot.water # NoWater
        /\ lot.activated => AtStart(lot) \/ Near(lot, c, p)
        /\ lot.activated => Sane(lot, c, p)
        /\ ~lot.activated /\ lot.plan.trailPrice = 0 => ~Further(lot, e, p)
        /\ ~lot.activated => lot.water = NoWater
        /\ lot.dir = 1 /\ lot.water # NoWater => lot.water > 0
    BY <2>2, ArmedTrail DEF TrailOK
  <2>7. /\ \A x : TriggerBehind(after, x) = TriggerBehind(lot, x)
        /\ \A x : MarkAt(after, x) = MarkAt(lot, x)
        /\ \A x : Step(after, x) = Step(lot, x)
    BY TrailsAlike
  <2>8. \A x, y : /\ Further(after, x, y) <=> Further(lot, x, y)
                  /\ Near(after, x, y) <=> Near(lot, x, y)
                  /\ Sane(after, x, y) <=> Sane(lot, x, y)
    BY <2>7 DEF Further, Near, Sane
  <2>9. AtStart(after) <=> AtStart(lot)
    BY <2>7 DEF AtStart
  <2>. HIDE DEF p, q, e
  <2>10. ASSUME lot.activated
         PROVE  (AtStart(lot) \/ Near(lot, c, q)) /\ Sane(lot, c, q)
    <3>1. c \in Int
      BY <2>5, <2>6, <2>10, LotTrails, Distances
    <3>. HIDE DEF c
    <3>2. ~Further(lot, c, c)
      BY <3>1, FurtherIsOrder
    <3>3. CASE Near(lot, c, p)
      BY <2>3, <2>4, <2>6, <2>10, <3>1, <3>2, <3>3, NearKept
    <3>4. CASE AtStart(lot)
      <4>1. Sane(lot, c, p)
        BY <2>6, <2>10
      <4>2. ~Further(lot, c, p) => ~Further(lot, c, q)
        BY <2>3, <2>4, <3>1, FurtherIsOrder
      <4>. QED BY <3>4, <4>1, <4>2 DEF Sane
    <3>. QED BY <2>6, <2>10, <3>3, <3>4
  <2>11. ~lot.activated /\ lot.plan.trailPrice = 0 => ~Further(lot, e, q)
    <3>1. ~Further(lot, e, p) => ~Further(lot, e, q)
      BY <2>3, <2>4, <2>5, NotFurtherIsTransitive
    <3>. QED BY <2>6, <3>1
  <2>12. /\ TriggerBehind(after, after.water) = c
         /\ TriggerBehind(after, MarkAt(after, after.entry)) = e
    BY <2>7 DEF e
  <2>. HIDE DEF c
  <2>13. /\ 100 * Lag(after) < Most(Step(after, q), 100) <=> Near(after, c, q)
         /\ Sane(after, c, q) <=>
              lot.dir = 1 \/ c > 0 \/ ~Further(after, c, q)
    BY <2>12, ArmedTrail DEF q, Sane
  <2>14. after.activated =>
            /\ AtStart(after) \/ 100 * Lag(after) < Most(Step(after, q), 100)
            /\ lot.dir = 1 \/ c > 0 \/ ~Further(after, c, q)
    BY <2>8, <2>9, <2>10, <2>13
  <2>. QED BY <2>6, <2>8, <2>11, <2>12, <2>14 DEF TrailOK, q
<1>. QED BY <1>1, <1>2

\* A lot whose trailing stop lies near what trails its water mark.
LEMMA TrailPlaced ==
  ASSUME NEW after \in Lot, OneEach(after), after.activated,
         after.water \in Int, after.dir = 1 => after.water > 0,
         NEW trigger \in Int,
         \A i \in Legs(after, "trailing_stop") : after.exits[i].price = trigger,
         Legs(after, "trailing_stop") # {} =>
            /\ Trails(after.plan)
            /\ AtStart(after) \/ Near(after, TriggerBehind(after, after.water), trigger)
            /\ Sane(after, TriggerBehind(after, after.water), trigger)
  PROVE  TrailOK(after)
<1>1. after.water # NoWater
  BY WaterAssumption
<1>2. Legs(after, "trailing_stop") # {} => TrailPrice(after) = trigger
  BY TrailLegs
<1>. QED BY <1>1, <1>2, ArmedTrail DEF TrailOK

\* A trailing stop that lies where its water mark puts it.
LEMMA TrailAtWater ==
  ASSUME NEW after \in Lot, OneEach(after), after.activated,
         after.water \in Int, after.dir = 1 => after.water > 0,
         NEW trigger \in Int, trigger = TriggerBehind(after, after.water),
         \A i \in Legs(after, "trailing_stop") : after.exits[i].price = trigger,
         Legs(after, "trailing_stop") # {} => Trails(after.plan)
  PROVE  TrailOK(after)
<1>1. ~Further(after, trigger, trigger)
  BY FurtherIsOrder
<1>. QED BY <1>1, ReachedIsNear, TrailPlaced

\* A lot whose trailing stop was armed or moved up to a trigger, with the water
\* mark synchronised (_sync_trailing_water_mark).
LEMMA TrailSynced ==
  ASSUME NEW lot \in Lot, OneEach(lot), TrailOK(lot), Sized(lot),
         NEW trigger \in Int, Legs(lot, "trailing_stop") # {},
         Further(lot, trigger, TrailPrice(lot)),
         NEW moved \in Lot, OneEach(moved), SameLot(lot, moved),
         moved.water = lot.water, moved.activated = lot.activated,
         \A i \in Legs(moved, "trailing_stop") : moved.exits[i].price = trigger
  PROVE  TrailOK(SyncWater(moved, trigger))
<1>. DEFINE after == SyncWater(moved, trigger)
            w == Water(lot)
            p == TrailPrice(lot)
            start == MarkAt(lot, lot.entry)
            there == ImpliedBy(lot, trigger)
            water == Furthest(lot, there, w)
            Behind(x) == TriggerBehind(lot, x)
<1>1. /\ lot.dir \in {1, -1}
      /\ lot.water \in {NoWater} \cup Int
      /\ lot.activated \in BOOLEAN
      /\ start \in Int
      /\ p \in Int
      /\ w \in Int
  BY LotNumbers, TrailLegs, WaterOfLot
<1>2. /\ Trails(lot.plan)
      /\ lot.activated => lot.water # NoWater
      /\ lot.activated => AtStart(lot) \/ Near(lot, Behind(lot.water), p)
      /\ lot.activated => Sane(lot, Behind(lot.water), p)
      /\ ~lot.activated /\ lot.plan.trailPrice = 0 => ~Further(lot, Behind(start), p)
      /\ ~lot.activated => lot.water = NoWater
      /\ lot.dir = 1 /\ lot.water # NoWater => lot.water > 0
  BY ArmedTrail DEF TrailOK
<1>3. \A x \in Int : Behind(x) \in Int
  BY LotTrails, Distances
<1>4. /\ \A x : TriggerBehind(moved, x) = Behind(x)
      /\ \A x : ImpliedBy(moved, x) = ImpliedBy(lot, x)
      /\ \A x : MarkAt(moved, x) = MarkAt(lot, x)
  BY TrailsAlike DEF SameLot
<1>5. /\ after \in Lot
      /\ after.exits = moved.exits
      /\ after.plan = lot.plan
      /\ after.dir = lot.dir
      /\ after.entry = lot.entry
      /\ after.activated
      /\ after.water = water
  <2>1. /\ after \in Lot
        /\ after.exits = moved.exits
        /\ SameLot(moved, after)
        /\ after.activated = TRUE
        /\ after.water = IF Trails(moved.plan)
                         THEN Furthest(moved, ImpliedBy(moved, trigger), Water(moved))
                         ELSE moved.water
    BY SyncWaterKeepsLegs
  <2>2. moved.plan = lot.plan /\ moved.dir = lot.dir /\ moved.entry = lot.entry
    BY DEF SameLot
  <2>3. Water(moved) = w
    BY <1>4, <2>2 DEF Water
  <2>4. Furthest(moved, there, w) = water
    BY <2>2 DEF Furthest, Further
  <2>. QED BY <1>2, <1>4, <2>1, <2>2, <2>3, <2>4 DEF SameLot
<1>6. OneEach(after) /\ Legs(after, "trailing_stop") = Legs(moved, "trailing_stop")
  BY <1>5 DEF OneEach, Legs
<1>7. there \in Int /\ Behind(there) = trigger
  BY LotTrails, Distances
<1>8. start > 0 /\ (lot.dir = -1 => Behind(start) > 0)
  BY LotTrails, LotNumbers, MarkIsPositive DEF Sized
<1>9. w = IF lot.water \in {NoWater, 0} THEN start ELSE lot.water
  BY DEF Water
<1>10. lot.dir = 1 => w > 0
  BY <1>2, <1>8, <1>9
<1>11. /\ \A x : TriggerBehind(after, x) = Behind(x)
       /\ \A x : MarkAt(after, x) = MarkAt(lot, x)
       /\ \A x : Step(after, x) = Step(lot, x)
  BY <1>5, TrailsAlike
<1>12. \A x, y : /\ Near(after, x, y) <=> Near(lot, x, y)
                 /\ Sane(after, x, y) <=> Sane(lot, x, y)
  BY <1>5, <1>11 DEF Further, Near, Sane
<1>13. water \in Int /\ water \in {there, w} /\ (lot.dir = 1 => water > 0)
  BY <1>1, <1>7, <1>10 DEF Furthest, Further
<1>14. ~Further(lot, p, trigger)
  BY <1>1, FurtherIsOrder
<1>15. /\ AtStart(after) \/ Near(lot, Behind(water), trigger)
       /\ Sane(lot, Behind(water), trigger)
  <2>. HIDE DEF after, w, p, start, there, Behind
  <2>1. CASE water = there
    <3>1. Behind(water) = trigger /\ ~Further(lot, trigger, trigger)
      BY <1>7, <2>1, FurtherIsOrder
    <3>. QED BY <3>1, ReachedIsNear
  <2>2. CASE water # there /\ lot.activated /\ lot.water # 0
    <3>1. water = lot.water /\ lot.water \in Int
      BY <1>1, <1>2, <1>9, <1>13, <2>2
    <3>. DEFINE c == Behind(lot.water)
    <3>2. c \in Int /\ Sane(lot, c, p) /\ (AtStart(lot) \/ Near(lot, c, p))
      BY <1>2, <1>3, <2>2, <3>1
    <3>. HIDE DEF c
    <3>3. ~Further(lot, c, c)
      BY <3>2, FurtherIsOrder
    <3>4. CASE Near(lot, c, p)
      BY <1>1, <1>14, <3>1, <3>2, <3>3, <3>4, NearKept DEF c
    <3>5. CASE AtStart(lot)
      <4>1. AtStart(after)
        BY <1>5, <1>11, <3>1, <3>5 DEF AtStart
      <4>2. Sane(lot, c, trigger)
        BY <1>1, <1>14, <3>2, FurtherIsOrder DEF Sane
      <4>. QED BY <3>1, <4>1, <4>2 DEF c
    <3>. QED BY <3>2, <3>4, <3>5
  <2>3. CASE water # there /\ lot.activated /\ lot.water = 0
    <3>1. water = start /\ ~AtStart(lot) /\ lot.dir = -1
      BY <1>1, <1>2, <1>8, <1>9, <1>13, <2>3 DEF AtStart, start
    <3>2. 0 \in Int /\ ~Further(lot, start, 0)
      BY <1>1, <1>8, <3>1 DEF Further
    <3>3. ~Further(lot, Behind(start), Behind(0))
      BY <1>1, <3>2, TriggersInOrder DEF Behind
    <3>4. Behind(0) \in Int /\ Behind(start) \in Int
      BY <1>1, <1>3
    <3>5. Near(lot, Behind(0), p) /\ Sane(lot, Behind(0), p)
      BY <1>2, <2>3, <3>1
    <3>. QED BY <1>1, <1>14, <3>1, <3>3, <3>4, <3>5, NearKept
  <2>4. CASE water # there /\ ~lot.activated
    <3>1. water = start
      BY <1>2, <1>9, <1>13, <2>4
    <3>2. Behind(start) \in Int
      BY <1>1, <1>3
    <3>3. CASE lot.plan.trailPrice # 0
      <4>1. AtStart(after)
        BY <1>5, <1>11, <3>1, <3>3 DEF AtStart, start
      <4>. QED BY <1>1, <1>8, <3>1, <4>1 DEF Sane
    <3>4. CASE lot.plan.trailPrice = 0
      <4>1. ~Further(lot, Behind(start), trigger)
        BY <1>1, <1>2, <1>14, <2>4, <3>2, <3>4, FurtherIsOrder
      <4>. QED BY <3>1, <3>2, <4>1, ReachedIsNear
    <3>. QED BY <3>3, <3>4
  <2>. QED BY <1>1, <2>1, <2>2, <2>3, <2>4
<1>16. /\ AtStart(after) \/ Near(after, TriggerBehind(after, after.water), trigger)
       /\ Sane(after, TriggerBehind(after, after.water), trigger)
  BY <1>5, <1>11, <1>12, <1>15
<1>. HIDE DEF after, water
<1>17. TrailOK(after)
  BY <1>2, <1>5, <1>6, <1>13, <1>16, TrailPlaced
<1>. QED BY <1>17 DEF after

-----------------------------------------------------------------------------
(***************************************************************************)
(* What a mark does to the protection of a lot.                            *)
(***************************************************************************)

\* A lot that is fit to be held: its trailing stop keeps up.
Fit(lot) ==
  /\ lot \in Lot
  /\ OneEach(lot)
  /\ Sized(lot)
  /\ TrailOK(lot)
  /\ Armed(lot)

\* A lot is armed if it is activated, or if its open trailing legs were open before.
LEMMA ArmedAgain ==
  ASSUME NEW lot, NEW after,
         \/ after.activated
         \/ /\ Armed(lot) /\ after.activated = lot.activated /\ after.plan = lot.plan
            /\ \A i \in Legs(after, "trailing_stop") : \E k \in Legs(lot, "trailing_stop") :
                  after.exits[i].status = lot.exits[k].status
  PROVE  Armed(after)
BY DEF Armed

\* A lot whose legs, water mark and activation are those of a fit one.
LEMMA FitAgain ==
  ASSUME NEW lot, Fit(lot), NEW after \in Lot, SameLot(lot, after),
         after.exits = lot.exits, after.water = lot.water, after.activated = lot.activated
  PROVE  Fit(after)
<1>1. OneEach(after)
  BY DEF Fit, OneEach, Legs
<1>2. Follows(lot, after, "trailing_stop")
  BY FollowsItself DEF Fit
<1>3. TrailOK(after)
  BY <1>1, <1>2, TrailStays DEF Fit, SameLot
<1>4. Armed(after)
  BY DEF Fit, Armed, Legs, SameLot
<1>. QED BY <1>1, <1>3, <1>4, SameSized DEF Fit

\* A lot whose legs have been kept, with its water mark as it was.
LEMMA FitKept ==
  ASSUME NEW lot, Fit(lot), NEW after \in Lot, SameLot(lot, after), Kept(lot, after),
         after.water = lot.water, after.activated = lot.activated, Armed(after)
  PROVE  Fit(after)
<1>1. OneEach(after)
  BY OneEachKept DEF Fit
<1>2. Follows(lot, after, "trailing_stop")
  BY KeptFollows DEF Protective
<1>3. TrailOK(after)
  BY <1>1, <1>2, TrailStays DEF Fit, SameLot
<1>. QED BY <1>1, <1>3, SameSized DEF Fit

\* The lot a mark moves to breakeven (_apply_breakeven).
LEMMA BreakevenFit ==
  ASSUME NEW lot, Fit(lot), NEW price \in Int
  PROVE  /\ Fit(ApplyBreakeven(lot, price))
         /\ SameLot(lot, ApplyBreakeven(lot, price))
         /\ Kept(lot, ApplyBreakeven(lot, price))
<1>1. /\ ApplyBreakeven(lot, price) \in Lot
      /\ SameLot(lot, ApplyBreakeven(lot, price))
      /\ ApplyBreakeven(lot, price).water = lot.water
      /\ ApplyBreakeven(lot, price).activated = lot.activated
      /\ Kept(lot, ApplyBreakeven(lot, price))
  BY BreakevenMoves DEF Fit
<1>2. Armed(ApplyBreakeven(lot, price))
  <2>1. \A i \in Legs(ApplyBreakeven(lot, price), "trailing_stop") :
           /\ i \in Legs(lot, "trailing_stop")
           /\ ApplyBreakeven(lot, price).exits[i].status = lot.exits[i].status
    BY <1>1, BreakevenLegs DEF Fit, Legs, Kept
  <2>. QED BY <1>1, <2>1, ArmedAgain DEF Fit, SameLot
<1>. QED BY <1>1, <1>2, FitKept

\* The trailing stop placed at its distance from a price (_update_trailing_stop,
\* _release_trailing_after_take_profit).
LEMMA PlacedAtPrice ==
  ASSUME NEW lot, Fit(lot), NEW price \in Int, price > 0, Trails(lot.plan)
  PROVE  LET armed == [lot EXCEPT !.activated = TRUE, !.water = MarkAt(lot, price)]
             after == Retrailed(armed, TriggerBehind(lot, MarkAt(lot, price)))
         IN  Fit(after) /\ SameLot(lot, after) /\ SameLegs(lot, after)
<1>. DEFINE mark == MarkAt(lot, price)
            armed == [lot EXCEPT !.activated = TRUE, !.water = mark]
            trigger == TriggerBehind(lot, mark)
            after == Retrailed(armed, trigger)
<1>1. lot \in Lot /\ OneEach(lot) /\ Sized(lot)
  BY DEF Fit
<1>2. mark \in Int /\ mark > 0 /\ trigger \in Int
  BY <1>1, LotTrails, Distances, MarkIsPositive DEF Sized
<1>a. \A x : SameLot(lot, x) => TriggerBehind(x, mark) = trigger
  BY TrailsAlike DEF SameLot
<1>. HIDE DEF mark, trigger
<1>3. /\ armed \in Lot
      /\ SameLot(lot, armed)
      /\ armed.exits = lot.exits
      /\ armed.activated = TRUE
      /\ armed.water = mark
  BY <1>1, <1>2 DEF Lot, SameLot
<1>. HIDE DEF armed
<1>4. OneEach(armed)
  BY <1>1, <1>3 DEF OneEach, Legs
<1>6. /\ after \in Lot
      /\ SameLot(armed, after)
      /\ after.water = mark
      /\ after.activated = TRUE
      /\ Legs(after, "trailing_stop") = Legs(armed, "trailing_stop")
      /\ \A i \in Legs(armed, "trailing_stop") : after.exits[i].price = trigger
      /\ OneEach(after)
      /\ SameLegs(armed, after)
  BY <1>2, <1>3, <1>4, RetrailedMoves
<1>. HIDE DEF after
<1>10. SameLegs(lot, after)
  BY <1>3, <1>6 DEF SameLegs
<1>7. SameLot(lot, after)
  BY <1>3, <1>6 DEF SameLot
<1>8. TrailOK(after)
  <2>1. Trails(after.plan)
    BY <1>7 DEF SameLot
  <2>2. trigger = TriggerBehind(after, after.water)
    BY <1>6, <1>7, <1>a
  <2>. QED BY <1>2, <1>6, <2>1, <2>2, TrailAtWater
<1>9. Fit(after)
  BY <1>1, <1>6, <1>7, <1>8, SameSized, ArmedAgain DEF Fit, SameLot
<1>. QED BY <1>7, <1>9, <1>10 DEF after, armed, trigger, mark

\* A mark arms the trailing stop, moves it or leaves it (_update_trailing_stop).
LEMMA UpdateTrailingFit ==
  ASSUME NEW lot, Fit(lot), NEW price \in Int, price > 0
  PROVE  /\ Fit(UpdateTrailing(lot, price))
         /\ SameLot(lot, UpdateTrailing(lot, price))
         /\ Kept(lot, UpdateTrailing(lot, price))
<1>. DEFINE mark == MarkAt(lot, price)
            water == IF lot.water = NoWater THEN MarkAt(lot, lot.entry) ELSE lot.water
            p == TrailPrice(lot)
            trigger == TriggerBehind(lot, mark)
            armed == [lot EXCEPT !.activated = TRUE, !.water = mark]
            after == UpdateTrailing(lot, price)
<1>1. lot \in Lot /\ OneEach(lot) /\ Sized(lot) /\ TrailOK(lot)
  BY DEF Fit
<1>2. after \in Lot /\ SameLot(lot, after) /\ Kept(lot, after)
  BY <1>1, UpdateTrailingType, UpdateTrailingKeeps
<1>3. /\ lot.dir \in {1, -1}
      /\ lot.water \in {NoWater} \cup Int
      /\ lot.activated \in BOOLEAN
      /\ MarkAt(lot, lot.entry) \in Int /\ MarkAt(lot, lot.entry) > 0
  BY <1>1, LotNumbers, LotTrails, MarkIsPositive DEF Sized
<1>a. /\ mark \in Int /\ mark > 0 /\ trigger \in Int
      /\ lot.dir = -1 => trigger > 0
  BY <1>1, LotTrails, Distances, MarkIsPositive DEF Sized
<1>4. \/ after = lot
      \/ lot.activated /\ after = [lot EXCEPT !.water = water]
      \/ Trails(lot.plan) /\ ~Ratchets(lot, trigger) /\ after = armed
      \/ Trails(lot.plan) /\ after = Retrailed(armed, trigger)
  BY DEF UpdateTrailing, Dormant
<1>. SUFFICES Fit(after)
  BY <1>2
<1>. HIDE DEF after
<1>5. CASE after = lot
  BY <1>2, <1>5
<1>6. CASE lot.activated /\ after = [lot EXCEPT !.water = water]
  <2>1. water \in Int /\ (lot.water # NoWater => water = lot.water)
    BY <1>3
  <2>2. lot.dir = 1 => water > 0
    BY <1>1, <1>3 DEF TrailOK
  <2>. HIDE DEF water
  <2>3. /\ after.water = water
        /\ after.exits = lot.exits
        /\ after.activated = lot.activated
    BY <1>1, <1>6 DEF Lot
  <2>4. CASE lot.water # NoWater
    BY <1>2, <2>1, <2>3, <2>4, FitAgain
  <2>5. CASE lot.water = NoWater
    <3>1. Legs(lot, "trailing_stop") = {}
      BY <1>1, <1>6, <2>5 DEF TrailOK
    <3>2. Legs(after, "trailing_stop") = {} /\ OneEach(after)
      BY <1>1, <2>3, <3>1 DEF Legs, OneEach
    <3>3. TrailOK(after)
      BY <1>2, <1>6, <2>2, <2>3, <3>2 DEF TrailOK, SameLot
    <3>4. Armed(after)
      <4>1. StartsActivated(lot.plan) => lot.activated
        BY DEF Fit, Armed
      <4>. QED BY <1>2, <2>3, <3>2, <4>1 DEF SameLot, Armed
    <3>. QED BY <1>1, <1>2, <3>2, <3>3, <3>4, SameSized DEF Fit
  <2>. QED BY <2>4, <2>5
<1>7. CASE Trails(lot.plan) /\ ~Ratchets(lot, trigger) /\ after = armed
  <2>. HIDE DEF mark, trigger
  <2>1. /\ after.water = mark
        /\ after.exits = lot.exits
        /\ after.activated = TRUE
    BY <1>1, <1>7 DEF Lot
  <2>. HIDE DEF armed
  <2>2. OneEach(after) /\ Legs(after, "trailing_stop") = Legs(lot, "trailing_stop")
    BY <1>1, <2>1 DEF OneEach, Legs
  <2>3. Legs(lot, "trailing_stop") # {}
    BY <1>7 DEF Ratchets
  <2>4. p \in Int /\ \A i \in Legs(after, "trailing_stop") : after.exits[i].price = p
    BY <1>1, <2>1, <2>2, <2>3, TrailLegs
  <2>5. ~Further(lot, trigger, p) \/ ~StepReached(lot, p, trigger)
    BY <1>7 DEF Ratchets
  <2>. HIDE DEF p
  <2>6. Near(lot, trigger, p) /\ Sane(lot, trigger, p)
    <3>1. CASE ~Further(lot, trigger, p)
      BY <1>1, <1>a, <2>4, <3>1, ReachedIsNear
    <3>2. CASE ~StepReached(lot, p, trigger)
      <4>1. Step(lot, p) \in Int
        BY <1>1, <2>4, StepOfLot
      <4>2. 100 * lot.dir * (trigger - p) < Step(lot, p)
        BY <1>3, <1>a, <2>4, <3>2, <4>1 DEF StepReached
      <4>3. 100 * lot.dir * (trigger - p) = 100 * (lot.dir * (trigger - p))
        BY <1>3, <1>a, <2>4
      <4>4. 100 * (lot.dir * (trigger - p)) \in Int
        BY <1>3, <1>a, <2>4
      <4>5. Near(lot, trigger, p)
        BY <4>1, <4>2, <4>3, <4>4 DEF Near, Most
      <4>. QED BY <1>3, <1>a, <4>5 DEF Sane
    <3>. QED BY <2>5, <3>1, <3>2
  <2>7. /\ Trails(after.plan)
        /\ after.dir = lot.dir
        /\ TriggerBehind(after, after.water) = trigger
        /\ Near(after, trigger, p) /\ Sane(after, trigger, p)
    <3>1. after.plan = lot.plan /\ after.dir = lot.dir
      BY <1>2 DEF SameLot
    <3>2. TriggerBehind(after, mark) = trigger /\ Step(after, p) = Step(lot, p)
      BY <3>1, TrailsAlike DEF trigger
    <3>. QED BY <1>7, <2>1, <2>6, <3>1, <3>2 DEF Near, Sane, Further
  <2>8. TrailOK(after)
    BY <1>2, <1>a, <2>1, <2>2, <2>4, <2>7, TrailPlaced
  <2>. QED BY <1>1, <1>2, <2>1, <2>2, <2>8, SameSized, ArmedAgain DEF Fit, SameLot
<1>8. CASE Trails(lot.plan) /\ after = Retrailed(armed, trigger)
  BY <1>8, PlacedAtPrice
<1>. QED BY <1>4, <1>5, <1>6, <1>7, <1>8

\* Protection moved to a price, with the water mark synchronised.
LEMMA ProtectFit ==
  ASSUME NEW lot, Fit(lot), NEW price \in Int
  PROVE  /\ Fit(Protect(lot, price))
         /\ SameLot(lot, Protect(lot, price))
         /\ Kept(lot, Protect(lot, price))
<1>. DEFINE exits == [i \in DOMAIN lot.exits |->
                        IF i \in Looser(lot, price)
                        THEN [lot.exits[i] EXCEPT !.price = price, !.status = "open"]
                        ELSE lot.exits[i]]
            moved == [lot EXCEPT !.exits = exits]
            after == Protect(lot, price)
            trails == Looser(lot, price) \cap Legs(lot, "trailing_stop")
<1>1. lot \in Lot /\ OneEach(lot) /\ Sized(lot) /\ TrailOK(lot)
  BY DEF Fit
<1>2. after \in Lot /\ SameLot(lot, after) /\ after.exits = exits /\ Kept(lot, after)
  BY <1>1, ProtectMoves, ProtectKeeps
<1>3. after = IF trails = {} THEN moved ELSE SyncWater(moved, price)
  BY DEF Protect
<1>. SUFFICES Fit(after)
  BY <1>2
<1>. HIDE DEF after
<1>4. exits \in Seq(Leg)
  BY <1>2 DEF Lot
<1>5. /\ moved \in Lot
      /\ moved.exits = exits
      /\ SameLot(lot, moved)
      /\ moved.water = lot.water
      /\ moved.activated = lot.activated
  <2>. HIDE DEF exits
  <2>. QED BY <1>1, <1>4, LegsMoved
<1>. HIDE DEF moved
<1>6. CASE trails = {}
  <2>1. after = moved
    BY <1>3, <1>6
  <2>2. ASSUME NEW i \in Legs(moved, "trailing_stop")
        PROVE  i \in Legs(lot, "trailing_stop") /\ moved.exits[i] = lot.exits[i]
    <3>1. i \in Legs(lot, "trailing_stop")
      BY <1>2, <1>5, <2>2 DEF Kept, Legs
    <3>. QED BY <1>5, <1>6, <3>1 DEF Legs
  <2>3. Armed(moved)
    BY <1>2, <1>5, <2>2, ArmedAgain DEF Fit, SameLot
  <2>. QED BY <1>2, <1>5, <2>1, <2>3, FitKept
<1>7. CASE trails # {}
  <2>1. PICK i \in Legs(lot, "trailing_stop") : i \in Looser(lot, price)
    BY <1>7
  <2>2. Further(lot, price, lot.exits[i].price)
    BY <2>1 DEF Looser
  <2>3. lot.exits[i].price = TrailPrice(lot)
    BY <1>1, <2>1, TrailLegs
  <2>4. Kept(lot, moved)
    BY <1>2, <1>5 DEF Kept
  <2>5. OneEach(moved)
    BY <1>1, <2>4, OneEachKept
  <2>6. ASSUME NEW k \in Legs(moved, "trailing_stop") PROVE moved.exits[k].price = price
    <3>1. k \in Legs(lot, "trailing_stop")
      BY <2>4, <2>6 DEF Kept, Legs
    <3>2. k = i
      BY <1>1, <2>1, <3>1 DEF OneEach, Protective
    <3>3. i \in DOMAIN lot.exits /\ lot.exits[i] \in Leg
      BY <1>1, <2>1, LegOfLot DEF Legs
    <3>4. moved.exits[k] = [lot.exits[i] EXCEPT !.price = price, !.status = "open"]
      BY <1>5, <2>1, <3>2, <3>3
    <3>. QED BY <3>3, <3>4 DEF Leg
  <2>7. TrailOK(SyncWater(moved, price))
    <3>. HIDE DEF exits, trails
    <3>1. Legs(lot, "trailing_stop") # {}
      BY <2>1
    <3>. QED BY <1>1, <1>5, <2>2, <2>3, <2>5, <2>6, <3>1, TrailSynced
  <2>8. after = SyncWater(moved, price)
    BY <1>3, <1>7
  <2>9. OneEach(after)
    BY <1>1, <1>2, OneEachKept
  <2>10. after.activated
    <3>. HIDE DEF exits, trails
    <3>. QED BY <1>5, <2>8, SyncWaterKeepsLegs
  <2>. QED BY <1>1, <1>2, <2>7, <2>8, <2>9, <2>10, SameSized, ArmedAgain DEF Fit
<1>. QED BY <1>6, <1>7

-----------------------------------------------------------------------------
(***************************************************************************)
(* What operators do to a lot.                                             *)
(***************************************************************************)

\* The trailing stop an operator moves (amend_bracket_trailing_stop).
LEMMA AmendTrailFit ==
  ASSUME NEW lot, Fit(lot), NEW price \in Int, TrailAllowed(lot, price)
  PROVE  Fit(AmendTrail(lot, price)) /\ Maintains(lot, AmendTrail(lot, price))
<1>. DEFINE moved == Retrailed(lot, price)
            after == AmendTrail(lot, price)
<1>1. lot \in Lot /\ OneEach(lot) /\ Sized(lot) /\ TrailOK(lot)
  BY DEF Fit
<1>2. /\ Legs(lot, "trailing_stop") # {}
      /\ Further(lot, price, TrailPrice(lot))
  BY DEF TrailAllowed
<1>3. Maintains(lot, after)
  BY <1>1, AmendTrailKeeps, KeptMaintains
<1>4. /\ moved \in Lot
      /\ SameLot(lot, moved)
      /\ moved.water = lot.water
      /\ moved.activated = lot.activated
      /\ Legs(moved, "trailing_stop") = Legs(lot, "trailing_stop")
      /\ \A i \in Legs(lot, "trailing_stop") : moved.exits[i].price = price
      /\ OneEach(moved)
  BY <1>1, RetrailedMoves
<1>5. after = SyncWater(moved, price)
  BY DEF AmendTrail
<1>. HIDE DEF moved, after
<1>6. TrailOK(after)
  BY <1>1, <1>2, <1>4, <1>5, TrailSynced
<1>8. after.activated
  BY <1>4, <1>5, SyncWaterKeepsLegs
<1>7. Fit(after)
  BY <1>1, <1>3, <1>6, <1>8, SameSized, ArmedAgain DEF Fit, Maintains
<1>. QED BY <1>3, <1>7 DEF after

\* The trailing stop an operator ratchets to the mark (tighten_bracket_trailing_stop_to_mark).
LEMMA TightenFit ==
  ASSUME NEW lot, Fit(lot), NEW mark \in Int, mark > 0, TightenAllowed(lot, mark)
  PROVE  Fit(Tighten(lot, mark)) /\ Maintains(lot, Tighten(lot, mark))
<1>. DEFINE v == WaterAt(lot, mark)
            trigger == Candidate(lot, mark)
            there == ImpliedBy(lot, trigger)
            wet == [lot EXCEPT !.water = v]
            moved == Retrailed(wet, trigger)
            after == Tighten(lot, mark)
<1>1. lot \in Lot /\ OneEach(lot) /\ Sized(lot) /\ TrailOK(lot)
  BY DEF Fit
<1>2. Maintains(lot, after)
  BY <1>1, TightenKeeps, KeptMaintains
<1>3. /\ lot.dir \in {1, -1}
      /\ lot.water \in {NoWater} \cup Int
      /\ MarkAt(lot, lot.entry) \in Int /\ MarkAt(lot, lot.entry) > 0
      /\ MarkAt(lot, mark) \in Int /\ MarkAt(lot, mark) > 0
  BY <1>1, LotNumbers, LotTrails, Distances, MarkIsPositive DEF Sized
<1>4. Trails(lot.plan)
  BY DEF TightenAllowed
<1>5. after = SyncWater(moved, trigger)
  BY DEF Tighten, AmendTrail
<1>6. trigger = TriggerBehind(lot, v)
  BY DEF Candidate
<1>7. Water(lot) \in Int /\ Water(lot) # 0 /\ (lot.dir = 1 => Water(lot) > 0)
  BY <1>1, <1>3, WaterOfLot DEF Water, TrailOK
<1>8. v \in Int /\ v # 0 /\ (lot.dir = 1 => v > 0)
  BY <1>3, <1>7 DEF WaterAt, Furthest
<1>. HIDE DEF v, trigger, after
<1>9. /\ trigger \in Int
      /\ there \in Int
      /\ TriggerBehind(lot, there) = trigger
  <2>1. trigger \in Int
    BY <1>1, <1>6, <1>8, LotTrails, Distances
  <2>. QED BY <1>1, <2>1, LotTrails, Distances
<1>10. /\ wet \in Lot
       /\ SameLot(lot, wet)
       /\ wet.exits = lot.exits
       /\ wet.water = v
  BY <1>1, <1>8 DEF Lot, SameLot
<1>. HIDE DEF wet
<1>11. OneEach(wet) /\ Legs(wet, "trailing_stop") = Legs(lot, "trailing_stop")
  BY <1>1, <1>10 DEF OneEach, Legs
<1>12. /\ moved \in Lot
       /\ SameLot(wet, moved)
       /\ moved.water = v
       /\ Legs(moved, "trailing_stop") = Legs(wet, "trailing_stop")
       /\ \A i \in Legs(wet, "trailing_stop") : moved.exits[i].price = trigger
       /\ OneEach(moved)
  BY <1>9, <1>10, <1>11, RetrailedMoves
<1>. HIDE DEF moved
<1>13. Water(moved) = v
  BY <1>8, <1>12, WaterAssumption DEF Water
<1>14. /\ after \in Lot
       /\ after.exits = moved.exits
       /\ SameLot(moved, after)
       /\ after.activated = TRUE
       /\ after.water \in {there, v}
       /\ lot.dir = 1 => after.water > 0
  <2>1. moved.plan = lot.plan /\ moved.dir = lot.dir
    BY <1>10, <1>12 DEF SameLot
  <2>2. ImpliedBy(moved, trigger) = there
    BY <2>1, TrailsAlike
  <2>3. /\ after \in Lot
        /\ after.exits = moved.exits
        /\ SameLot(moved, after)
        /\ after.activated = TRUE
        /\ after.water = IF Trails(moved.plan)
                         THEN Furthest(moved, ImpliedBy(moved, trigger), Water(moved))
                         ELSE moved.water
    BY <1>5, <1>9, <1>12, SyncWaterKeepsLegs
  <2>. HIDE DEF there
  <2>4. after.water = Furthest(moved, there, v)
    BY <1>4, <1>13, <2>1, <2>2, <2>3
  <2>. QED BY <1>8, <1>9, <2>1, <2>3, <2>4 DEF Furthest, Further
<1>. HIDE DEF there
<1>15. TrailOK(after)
  <2>1. after.plan = lot.plan /\ after.dir = lot.dir
    BY <1>2 DEF Maintains, SameLot
  <2>2. \A i \in Legs(after, "trailing_stop") : after.exits[i].price = trigger
    BY <1>12, <1>14 DEF Legs
  <2>3. after.water \in Int /\ trigger = TriggerBehind(after, after.water)
    BY <1>6, <1>8, <1>9, <1>14, <2>1, TrailsAlike
  <2>. QED BY <1>2, <1>4, <1>9, <1>14, <2>1, <2>2, <2>3, TrailAtWater DEF Maintains
<1>16. Fit(after)
  BY <1>1, <1>2, <1>14, <1>15, SameSized, ArmedAgain DEF Fit, Maintains, SameLot
<1>. QED BY <1>2, <1>16 DEF after

\* An amended stop leaves the trailing stop alone.
LEMMA AmendStopTrail ==
  ASSUME NEW lot \in Lot, NEW price \in Int
  PROVE  /\ Follows(lot, AmendStop(lot, price), "trailing_stop")
         /\ AmendStop(lot, price).water = lot.water
         /\ AmendStop(lot, price).activated = lot.activated
         /\ \A b \in Legs(AmendStop(lot, price), "trailing_stop") :
               \E a \in Legs(lot, "trailing_stop") :
                  AmendStop(lot, price).exits[b] = lot.exits[a]
<1>. DEFINE stop == Exit("stop_loss", price, 100, "open")
            front == <<stop>> \o lot.exits
            inside == [i \in DOMAIN lot.exits |->
                         IF lot.exits[i].kind = "stop_loss" THEN stop ELSE lot.exits[i]]
            after == AmendStop(lot, price)
<1>1. stop.kind = "stop_loss"
  BY DEF Exit
<1>2. lot.exits \in Seq(Leg)
  BY DEF Lot
<1>3. after = [lot EXCEPT !.exits = front] \/ after = [lot EXCEPT !.exits = inside]
  BY DEF AmendStop
<1>. HIDE DEF stop, after
<1>4. \A i \in DOMAIN front : \/ front[i] = stop
                              \/ i - 1 \in DOMAIN lot.exits /\ front[i] = lot.exits[i - 1]
  BY <1>2
<1>5. \A i \in DOMAIN inside : i \in DOMAIN lot.exits
                               /\ (inside[i] = stop \/ inside[i] = lot.exits[i])
  OBVIOUS
<1>. HIDE DEF front, inside
<1>6. /\ after.water = lot.water
      /\ after.activated = lot.activated
      /\ after.exits = front \/ after.exits = inside
  BY <1>3 DEF Lot
<1>7. ASSUME NEW b \in Legs(after, "trailing_stop")
      PROVE  \E a \in Legs(lot, "trailing_stop") :
                /\ ~Further(lot, lot.exits[a].price, after.exits[b].price)
                /\ after.exits[b] = lot.exits[a]
  <2>1. \E a \in Legs(lot, "trailing_stop") : after.exits[b] = lot.exits[a]
    BY <1>1, <1>4, <1>5, <1>6 DEF Legs
  <2>2. PICK a \in Legs(lot, "trailing_stop") : after.exits[b] = lot.exits[a]
    BY <2>1
  <2>3. ~Further(lot, lot.exits[a].price, lot.exits[a].price)
    BY LegPrice, FurtherIsOrder
  <2>. QED BY <2>2, <2>3
<1>. QED BY <1>6, <1>7 DEF Follows, after

\* The stop an operator moves (amend_bracket_stop).
LEMMA AmendStopFit ==
  ASSUME NEW lot, Fit(lot), NEW price \in Int, StopAllowed(lot, price)
  PROVE  Fit(AmendStop(lot, price)) /\ Maintains(lot, AmendStop(lot, price))
<1>. DEFINE after == AmendStop(lot, price)
<1>1. lot \in Lot /\ OneEach(lot) /\ Sized(lot) /\ TrailOK(lot)
  BY DEF Fit
<1>2. Maintains(lot, after)
  BY <1>1, AmendStopMaintains
<1>3. /\ Follows(lot, after, "trailing_stop")
      /\ after.water = lot.water
      /\ after.activated = lot.activated
      /\ \A b \in Legs(after, "trailing_stop") : \E a \in Legs(lot, "trailing_stop") :
            after.exits[b] = lot.exits[a]
  BY <1>1, AmendStopTrail
<1>. HIDE DEF after
<1>4. after \in Lot /\ OneEach(after) /\ SameLot(lot, after)
  BY <1>2 DEF Maintains
<1>5. TrailOK(after)
  BY <1>1, <1>3, <1>4, TrailStays DEF SameLot
<1>7. Armed(after)
  BY <1>3, <1>4, ArmedAgain DEF Fit, SameLot
<1>6. Fit(after)
  BY <1>1, <1>4, <1>5, <1>7, SameSized DEF Fit
<1>. QED BY <1>2, <1>6 DEF after

\* The stop an operator moves to breakeven (move_bracket_to_breakeven).
LEMMA BreakevenRouteFit ==
  ASSUME NEW lot, Fit(lot)
  PROVE  Fit(ReplayBreakeven(lot)) /\ Maintains(lot, ReplayBreakeven(lot))
<1>. DEFINE protected == Protect(lot, lot.entry)
            after == ReplayBreakeven(lot)
<1>1. lot \in Lot /\ OneEach(lot) /\ lot.entry \in Int
  BY DEF Fit, Lot
<1>2. Fit(protected) /\ SameLot(lot, protected) /\ Kept(lot, protected)
  BY <1>1, ProtectFit
<1>3. after = lot \/ after = [protected EXCEPT !.breakeven = TRUE]
  BY DEF ReplayBreakeven
<1>. HIDE DEF protected
<1>4. CASE after = lot
  <2>1. Kept(lot, lot) /\ SameLot(lot, lot)
    BY <1>1, KeptItself DEF SameLot
  <2>. QED BY <1>1, <1>4, <2>1, KeptMaintains
<1>5. CASE after = [protected EXCEPT !.breakeven = TRUE]
  <2>1. /\ after \in Lot
        /\ SameLot(protected, after)
        /\ after.exits = protected.exits
        /\ after.water = protected.water
        /\ after.activated = protected.activated
    BY <1>2, <1>5 DEF Fit, Lot, SameLot
  <2>. HIDE DEF after
  <2>2. Fit(after)
    BY <1>2, <2>1, FitAgain
  <2>3. Kept(lot, after) /\ SameLot(lot, after)
    BY <1>2, <2>1 DEF Kept, SameLot
  <2>4. Maintains(lot, after)
    BY <1>1, <2>1, <2>3, KeptMaintains
  <2>. QED BY <2>2, <2>4 DEF after
<1>. QED BY <1>3, <1>4, <1>5

\* The target an operator moves (amend_bracket_take_profit).
LEMMA AmendTargetFit ==
  ASSUME NEW lot, Fit(lot), NEW index \in Int, NEW price \in Int
  PROVE  /\ Fit(AmendTarget(lot, index, price))
         /\ Maintains(lot, AmendTarget(lot, index, price))
<1>. DEFINE after == AmendTarget(lot, index, price)
            exits == [i \in DOMAIN lot.exits |->
                        IF i \in Target(lot, index)
                        THEN [lot.exits[i] EXCEPT !.price = price, !.status = "open"]
                        ELSE lot.exits[i]]
<1>1. lot \in Lot /\ OneEach(lot) /\ Sized(lot) /\ TrailOK(lot)
  BY DEF Fit
<1>2. Maintains(lot, after)
  BY <1>1, AmendTargetMaintains
<1>3. after = [lot EXCEPT !.exits = exits]
  BY DEF AmendTarget
<1>. HIDE DEF after
<1>4. /\ after.exits = exits
      /\ after.water = lot.water
      /\ after.activated = lot.activated
  <2>. HIDE DEF exits
  <2>. QED BY <1>1, <1>3 DEF Lot
<1>5. /\ Follows(lot, after, "trailing_stop")
      /\ \A b \in Legs(after, "trailing_stop") :
            b \in Legs(lot, "trailing_stop") /\ after.exits[b] = lot.exits[b]
  <2>1. \A i \in Target(lot, index) : lot.exits[i].kind = "take_profit"
    BY DEF Target, Legs
  <2>2. ASSUME NEW b \in Legs(after, "trailing_stop")
        PROVE  /\ b \in Legs(lot, "trailing_stop")
               /\ ~Further(lot, lot.exits[b].price, after.exits[b].price)
               /\ after.exits[b] = lot.exits[b]
    <3>1. b \in DOMAIN lot.exits /\ exits[b].kind = "trailing_stop"
      BY <1>4, <2>2 DEF Legs
    <3>2. lot.exits[b] \in Leg
      BY <1>1, <3>1, LegOfLot
    <3>3. b \notin Target(lot, index)
      <4>1. ASSUME b \in Target(lot, index) PROVE FALSE
        <5>1. exits[b] = [lot.exits[b] EXCEPT !.price = price, !.status = "open"]
          BY <3>1, <4>1
        <5>2. exits[b].kind = lot.exits[b].kind
          BY <3>2, <5>1 DEF Leg
        <5>. QED BY <2>1, <3>1, <4>1, <5>2
      <4>. QED BY <4>1
    <3>4. exits[b] = lot.exits[b]
      BY <3>1, <3>3
    <3>5. b \in Legs(lot, "trailing_stop")
      BY <3>1, <3>4 DEF Legs
    <3>. QED BY <1>1, <1>4, <3>4, <3>5, LegPrice, FurtherIsOrder
  <2>. QED BY <2>2 DEF Follows
<1>6. after \in Lot /\ OneEach(after) /\ SameLot(lot, after)
  BY <1>2 DEF Maintains
<1>7. TrailOK(after)
  BY <1>1, <1>4, <1>5, <1>6, TrailStays DEF SameLot
<1>9. Armed(after)
  BY <1>4, <1>5, <1>6, ArmedAgain DEF Fit, SameLot
<1>8. Fit(after)
  BY <1>1, <1>6, <1>7, <1>9, SameSized DEF Fit
<1>. QED BY <1>2, <1>8 DEF after

\* The bracket an operator cancels (cancel_bracket).
LEMMA CancelFit ==
  ASSUME NEW lot, Fit(lot)
  PROVE  Fit([lot EXCEPT !.exits = <<>>]) /\ Maintains(lot, [lot EXCEPT !.exits = <<>>])
<1>. DEFINE after == [lot EXCEPT !.exits = <<>>]
<1>1. lot \in Lot /\ OneEach(lot) /\ Sized(lot) /\ TrailOK(lot)
  BY DEF Fit
<1>2. Maintains(lot, after)
  BY <1>1, CancelMaintains
<1>3. after.exits = <<>> /\ after.water = lot.water /\ after.activated = lot.activated
  BY <1>1 DEF Lot
<1>. HIDE DEF after
<1>4. after \in Lot /\ OneEach(after) /\ SameLot(lot, after)
  BY <1>2 DEF Maintains
<1>5. Legs(after, "trailing_stop") = {}
  BY <1>3 DEF Legs
<1>6. TrailOK(after)
  BY <1>1, <1>3, <1>4, <1>5 DEF TrailOK, SameLot
<1>7. Fit(after)
  BY <1>1, <1>3, <1>4, <1>5, <1>6, SameSized DEF Fit, SameLot, Armed
<1>. QED BY <1>2, <1>7 DEF after

-----------------------------------------------------------------------------
(***************************************************************************)
(* The exits a mark sets off.                                              *)
(***************************************************************************)

\* The first of some legs is one of them.
LEMMA FirstLegOf ==
  ASSUME NEW legs \in SUBSET Nat, legs # {}
  PROVE  FirstLeg(legs) \in legs
<1>. DEFINE R == {p \in Nat \X Nat : p[1] < p[2]}
<1>1. IsWellFoundedOn(R, Nat)
  BY NatLessThanWellFounded DEF OpToRel
<1>2. PICK x \in legs : \A y \in legs : ~(<<y, x>> \in R)
  <2>. HIDE DEF R
  <2>. QED BY <1>1, WFMin
<1>3. \A y \in legs : x <= y
  <2>1. ASSUME NEW y \in legs, y < x PROVE FALSE
    <3>1. <<y, x>> \in R
      BY <2>1
    <3>. QED BY <1>2, <3>1
  <2>2. \A y \in legs : y \in Nat /\ x \in Nat
    OBVIOUS
  <2>. QED BY <2>1, <2>2
<1>. QED BY <1>3 DEF FirstLeg

\* Among some legs there is a nearest one.
LEMMA NearestLegOf ==
  ASSUME NEW lot \in Lot, NEW legs \in SUBSET DOMAIN lot.exits, legs # {}
  PROVE  /\ NearestLeg(lot, legs) \in legs
         /\ \A j \in legs :
               ~Further(lot, lot.exits[j].price, lot.exits[NearestLeg(lot, legs)].price)
<1>. DEFINE N == Len(lot.exits)
            price(i) == lot.exits[i].price
            Best(i, m) == i <= m /\ \A j \in legs : j <= m => ~Further(lot, price(j), price(i))
            T == {m \in 0 .. N : (\A i \in legs : ~(i <= m)) \/ \E i \in legs : Best(i, m)}
            nearest == {i \in legs : \A j \in legs : ~Further(lot, price(j), price(i))}
<1>1. /\ N \in Nat
      /\ legs \subseteq 1 .. N
      /\ \A i \in legs : price(i) \in Int
  <2>1. lot.exits \in Seq(Leg)
    BY DEF Lot
  <2>. QED BY <2>1, LegOfLot
<1>. HIDE DEF N, price
<1>2. 0 \in T
  BY <1>1
<1>3. ASSUME NEW m \in 1 .. N, m - 1 \in T PROVE m \in T
  <2>0. \A j \in legs : j \in Int /\ (j <= m <=> j <= m - 1 \/ j = m)
    BY <1>1
  <2>1. CASE m \notin legs
    <3>1. \A j \in legs : j <= m <=> j <= m - 1
      BY <2>0, <2>1
    <3>. QED BY <1>1, <1>3, <3>1
  <2>2. CASE m \in legs /\ \A i \in legs : ~(i <= m - 1)
    <3>1. \A j \in legs : j <= m => j = m
      BY <2>0, <2>2
    <3>2. Best(m, m)
      <4>1. m <= m /\ price(m) \in Int
        BY <1>1, <2>2
      <4>2. ~Further(lot, price(m), price(m))
        BY <4>1, FurtherIsOrder
      <4>. QED BY <3>1, <4>1, <4>2
    <3>. QED BY <2>2, <3>2
  <2>3. CASE m \in legs /\ \E i \in legs : Best(i, m - 1)
    <3>1. PICK i \in legs : Best(i, m - 1)
      BY <2>3
    <3>2. price(i) \in Int /\ price(m) \in Int
      BY <1>1, <2>3
    <3>3. CASE Further(lot, price(m), price(i))
      <4>1. ASSUME NEW j \in legs, j <= m PROVE ~Further(lot, price(j), price(m))
        <5>1. CASE j = m
          BY <3>2, <5>1, FurtherIsOrder
        <5>2. CASE j <= m - 1
          <6>1. ~Further(lot, price(j), price(i)) /\ price(j) \in Int
            BY <1>1, <3>1, <5>2
          <6>2. ~Further(lot, price(i), price(m))
            BY <3>2, <3>3, FurtherIsOrder
          <6>. QED BY <3>2, <6>1, <6>2, NotFurtherIsTransitive
        <5>. QED BY <2>0, <4>1, <5>1, <5>2
      <4>2. Best(m, m)
        BY <4>1
      <4>. QED BY <2>3, <4>2
    <3>4. CASE ~Further(lot, price(m), price(i))
      <4>1. Best(i, m)
        BY <2>0, <3>1, <3>4
      <4>. QED BY <4>1
    <3>. QED BY <3>3, <3>4
  <2>. QED BY <1>3, <2>1, <2>2, <2>3
<1>4. \A m \in 0 .. N : m \in T
  <2>. HIDE DEF T
  <2>. QED BY <1>1, <1>2, <1>3, IntervalInduction, Zenon
<1>5. N \in T
  BY <1>1, <1>4
<1>6. nearest # {}
  <2>1. \A i \in legs : i <= N
    BY <1>1
  <2>. QED BY <1>5, <2>1
<1>7. nearest \in SUBSET Nat
  BY <1>1
<1>8. NearestLeg(lot, legs) = FirstLeg(nearest)
  BY DEF NearestLeg, price
<1>9. FirstLeg(nearest) \in nearest
  <2>. HIDE DEF nearest
  <2>. QED BY <1>6, <1>7, FirstLegOf
<1>. QED BY <1>8, <1>9 DEF price

\* A mark that triggers sets off a leg, or the time exit.
LEMMA TriggeredLeg ==
  ASSUME NEW lot \in Lot, NEW price
  PROVE  \/ /\ TriggeredExit(lot, price) = 0
            /\ TriggeredKind(lot, TriggeredExit(lot, price)) = "time_exit"
         \/ /\ TriggeredExit(lot, price) \in DOMAIN lot.exits
            /\ TriggeredExit(lot, price) \in Nat \ {0}
            /\ TriggeredKind(lot, TriggeredExit(lot, price))
                 = lot.exits[TriggeredExit(lot, price)].kind
<1>. DEFINE leg == TriggeredExit(lot, price)
<1>1. DOMAIN lot.exits \subseteq Nat \ {0}
  <2>1. lot.exits \in Seq(Leg)
    BY DEF Lot
  <2>. QED BY <2>1
<1>2. CASE Crossed(lot, price) # {}
  <2>1. Crossed(lot, price) \in SUBSET DOMAIN lot.exits
    BY DEF Crossed
  <2>2. leg \in DOMAIN lot.exits
    BY <1>2, <2>1, NearestLegOf DEF TriggeredExit
  <2>. HIDE DEF leg
  <2>3. leg # 0
    BY <1>1, <2>2
  <2>. QED BY <1>1, <2>2, <2>3 DEF TriggeredKind, leg
<1>3. CASE Crossed(lot, price) = {} /\ Reached(lot, price) # {}
  <2>1. Reached(lot, price) \in SUBSET Nat
    BY <1>1 DEF Reached, Legs
  <2>2. leg \in DOMAIN lot.exits
    BY <1>3, <2>1, FirstLegOf DEF TriggeredExit, Reached, Legs
  <2>. HIDE DEF leg
  <2>3. leg # 0
    BY <1>1, <2>2
  <2>. QED BY <1>1, <2>2, <2>3 DEF TriggeredKind, leg
<1>4. CASE Crossed(lot, price) = {} /\ Reached(lot, price) = {}
  BY <1>4 DEF TriggeredExit, TriggeredKind
<1>. QED BY <1>2, <1>3, <1>4

\* An exit closes no more than the lot has left.
LEMMA QuantityOfExit ==
  ASSUME NEW lot \in Lot, lot.remaining \in Nat, lot.original \in Nat, NEW price
  PROVE  ExitQuantity(lot, TriggeredExit(lot, price)) \in 0 .. lot.remaining
<1>. DEFINE leg == TriggeredExit(lot, price)
            x == lot.original * lot.exits[leg].pct
<1>1. CASE /\ TriggeredKind(lot, leg) \in {"take_profit", "trailing_stop"}
           /\ x < 100 * lot.remaining
  <2>1. leg \in DOMAIN lot.exits
    BY <1>1, TriggeredLeg
  <2>2. lot.exits[leg] \in Leg
    BY <2>1, LegOfLot
  <2>3. lot.exits[leg].pct \in Nat
    BY <2>2 DEF Leg
  <2>. HIDE DEF leg
  <2>4. x \in Nat
    BY <2>3
  <2>. HIDE DEF x
  <2>5. x \div 100 \in 0 .. lot.remaining
    BY <1>1, <2>4
  <2>. QED BY <1>1, <2>5 DEF ExitQuantity, x, leg
<1>2. CASE ~(/\ TriggeredKind(lot, leg) \in {"take_profit", "trailing_stop"}
             /\ x < 100 * lot.remaining)
  BY <1>2 DEF ExitQuantity
<1>. QED BY <1>1, <1>2

\* The lot is of the same signal, whatever it has left.
SameSignal(lot, after) ==
  /\ after.id = lot.id
  /\ after.dir = lot.dir
  /\ after.entry = lot.entry
  /\ after.plan = lot.plan
  /\ after.original = lot.original

\* A lot of which some is closed.
LEMMA FitLess ==
  ASSUME NEW lot, Fit(lot), NEW r \in Int
  PROVE  /\ Fit([lot EXCEPT !.remaining = r])
         /\ SameSignal(lot, [lot EXCEPT !.remaining = r])
         /\ [lot EXCEPT !.remaining = r].remaining = r
         /\ [lot EXCEPT !.remaining = r].exits = lot.exits
<1>1. lot \in Lot /\ OneEach(lot) /\ Sized(lot) /\ TrailOK(lot) /\ Armed(lot)
  BY DEF Fit
<1>2. TrailOK([lot EXCEPT !.remaining = r]) /\ Armed([lot EXCEPT !.remaining = r])
  BY <1>1, TrailOfReduced
<1>3. Sized([lot EXCEPT !.remaining = r])
  <2>. DEFINE after == [lot EXCEPT !.remaining = r]
  <2>1. after.dir = lot.dir /\ after.plan = lot.plan /\ after.entry = lot.entry
    BY <1>1, LessRemaining
  <2>. HIDE DEF after
  <2>2. Sized(after)
    BY <1>1, <2>1, TrailsAlike
  <2>. QED BY <2>2 DEF after
<1>. QED BY <1>1, <1>2, <1>3, LessRemaining DEF Fit, SameSignal

\* One sequence after another.
LEMMA Joined ==
  ASSUME NEW S, NEW a \in Seq(S), NEW b \in Seq(S)
  PROVE  /\ a \o b \in Seq(S)
         /\ Len(a \o b) = Len(a) + Len(b)
         /\ \A k \in 1 .. Len(a) + Len(b) : (a \o b)[k] = IF k <= Len(a) THEN a[k] ELSE b[k - Len(a)]
OBVIOUS

\* The legs of a bracket without the one that filled.
LEMMA WithoutLegOf ==
  ASSUME NEW S, NEW s \in Seq(S), NEW i \in DOMAIN s
  PROVE  /\ WithoutLeg(s, i) \in Seq(S)
         /\ DOMAIN WithoutLeg(s, i) = 1 .. Len(s) - 1
         /\ \A k \in 1 .. Len(s) - 1 :
               WithoutLeg(s, i)[k] = IF k < i THEN s[k] ELSE s[k + 1]
<1>. DEFINE N == Len(s)
            a == SubSeq(s, 1, i - 1)
            b == SubSeq(s, i + 1, N)
<1>1. N \in Nat /\ i \in 1 .. N /\ \A k \in 1 .. N : s[k] \in S
  OBVIOUS
<1>2. a \in Seq(S) /\ Len(a) = i - 1 /\ \A k \in 1 .. i - 1 : a[k] = s[k]
  OBVIOUS
<1>3. b \in Seq(S) /\ Len(b) = N - i /\ \A k \in 1 .. N - i : b[k] = s[k + i]
  <2>1. Len(b) = N - i
    BY <1>1
  <2>2. \A k \in 1 .. N - i : b[k] = s[k + i]
    BY <1>1
  <2>3. b \in Seq(S)
    BY <1>1
  <2>. QED BY <2>1, <2>2, <2>3
<1>. HIDE DEF a, b
<1>4. /\ a \o b \in Seq(S)
      /\ Len(a \o b) = N - 1
      /\ \A k \in 1 .. N - 1 : (a \o b)[k] = IF k <= i - 1 THEN a[k] ELSE b[k - (i - 1)]
  <2>1. a \in Seq(S) /\ b \in Seq(S) /\ Len(a) = i - 1 /\ Len(b) = N - i
    BY <1>2, <1>3
  <2>2. a \o b \in Seq(S) /\ Len(a \o b) = Len(a) + Len(b)
    BY <2>1, Joined
  <2>3. \A k \in 1 .. Len(a) + Len(b) : (a \o b)[k] = IF k <= Len(a) THEN a[k] ELSE b[k - Len(a)]
    BY <2>1, Joined
  <2>4. Len(a) + Len(b) = N - 1
    BY <1>1, <2>1
  <2>. QED BY <2>1, <2>2, <2>3, <2>4
<1>5. \A k \in 1 .. N - 1 : (a \o b)[k] = IF k < i THEN s[k] ELSE s[k + 1]
  <2>1. ASSUME NEW k \in 1 .. N - 1
        PROVE  (a \o b)[k] = IF k < i THEN s[k] ELSE s[k + 1]
    <3>1. CASE k < i
      <4>1. k <= i - 1 /\ k \in 1 .. i - 1
        BY <1>1, <3>1
      <4>. QED BY <1>2, <1>4, <3>1, <4>1
    <3>2. CASE ~(k < i)
      <4>1. ~(k <= i - 1) /\ k - (i - 1) \in 1 .. N - i /\ k - (i - 1) + i = k + 1
        BY <1>1, <3>2
      <4>. QED BY <1>3, <1>4, <3>2, <4>1
    <3>. QED BY <3>1, <3>2
  <2>. QED BY <2>1
<1>6. DOMAIN (a \o b) = 1 .. N - 1
  BY <1>1, <1>4
<1>7. WithoutLeg(s, i) = a \o b
  BY DEF WithoutLeg, a, b
<1>. QED BY <1>4, <1>5, <1>6, <1>7

-----------------------------------------------------------------------------
(***************************************************************************)
(* The lot after an exit.                                                  *)
(***************************************************************************)

\* The lot of which a leg filled: the other legs are as they were.
LEMMA FitWithoutLeg ==
  ASSUME NEW lot, Fit(lot), NEW i \in DOMAIN lot.exits
  PROVE  /\ Fit([lot EXCEPT !.exits = WithoutLeg(@, i)])
         /\ SameLot(lot, [lot EXCEPT !.exits = WithoutLeg(@, i)])
         /\ \A kind : Follows(lot, [lot EXCEPT !.exits = WithoutLeg(@, i)], kind)
         /\ DOMAIN [lot EXCEPT !.exits = WithoutLeg(@, i)].exits = 1 .. Len(lot.exits) - 1
         /\ lot.exits[i].kind = "trailing_stop" =>
               Legs([lot EXCEPT !.exits = WithoutLeg(@, i)], "trailing_stop") = {}
<1>. DEFINE exits == WithoutLeg(lot.exits, i)
            after == [lot EXCEPT !.exits = exits]
            from(k) == IF k < i THEN k ELSE k + 1
            N == Len(lot.exits)
<1>1. lot \in Lot /\ OneEach(lot) /\ Sized(lot) /\ TrailOK(lot) /\ lot.exits \in Seq(Leg)
  BY DEF Fit, Lot
<1>2. /\ exits \in Seq(Leg)
      /\ DOMAIN exits = 1 .. N - 1
      /\ \A k \in 1 .. N - 1 : exits[k] = IF k < i THEN lot.exits[k] ELSE lot.exits[k + 1]
  BY <1>1, WithoutLegOf
<1>3. N \in Nat /\ i \in 1 .. N /\ DOMAIN lot.exits = 1 .. N
  BY <1>1
<1>. HIDE DEF exits, N
<1>4. /\ after \in Lot
      /\ after.exits = exits
      /\ SameLot(lot, after)
      /\ after.water = lot.water
      /\ after.activated = lot.activated
  BY <1>1, <1>2, LegsMoved
<1>. HIDE DEF after
<1>5. ASSUME NEW k \in DOMAIN exits
      PROVE  from(k) \in DOMAIN lot.exits /\ exits[k] = lot.exits[from(k)] /\ from(k) # i
  BY <1>2, <1>3
<1>6. \A k, m \in DOMAIN exits : from(k) = from(m) => k = m
  BY <1>2, <1>3
<1>. HIDE DEF from
<1>7. \A kind : \A k \in Legs(after, kind) : from(k) \in Legs(lot, kind)
  BY <1>4, <1>5 DEF Legs
<1>8. OneEach(after)
  BY <1>1, <1>4, <1>6, <1>7 DEF OneEach, Legs
<1>9. ASSUME NEW kind PROVE Follows(lot, after, kind)
  <2>1. ASSUME NEW k \in Legs(after, kind)
        PROVE  \E a \in Legs(lot, kind) : ~Further(lot, lot.exits[a].price, after.exits[k].price)
    <3>1. from(k) \in Legs(lot, kind) /\ after.exits[k] = lot.exits[from(k)]
      BY <1>4, <1>5, <1>7 DEF Legs
    <3>2. ~Further(lot, lot.exits[from(k)].price, lot.exits[from(k)].price)
      BY <1>1, <3>1, LegPrice, FurtherIsOrder
    <3>. QED BY <3>1, <3>2
  <2>. QED BY <2>1 DEF Follows
<1>10. TrailOK(after)
  BY <1>1, <1>4, <1>8, <1>9, TrailStays DEF SameLot
<1>14. Armed(after)
  <2>1. \A k \in Legs(after, "trailing_stop") :
           from(k) \in Legs(lot, "trailing_stop") /\ after.exits[k] = lot.exits[from(k)]
    BY <1>4, <1>5, <1>7 DEF Legs
  <2>. QED BY <1>4, <1>8, <2>1, ArmedAgain DEF Fit, SameLot
<1>11. Fit(after)
  BY <1>1, <1>4, <1>8, <1>10, <1>14, SameSized DEF Fit
<1>12. [lot EXCEPT !.exits = WithoutLeg(@, i)] = after
  BY DEF after, exits
<1>13. lot.exits[i].kind = "trailing_stop" => Legs(after, "trailing_stop") = {}
  <2>1. ASSUME lot.exits[i].kind = "trailing_stop", NEW k \in Legs(after, "trailing_stop")
        PROVE  FALSE
    <3>1. from(k) \in Legs(lot, "trailing_stop") /\ from(k) # i
      BY <1>4, <1>5, <1>7 DEF Legs
    <3>2. i \in Legs(lot, "trailing_stop")
      BY <2>1 DEF Legs
    <3>. QED BY <1>1, <3>1, <3>2 DEF OneEach, Protective
  <2>. QED BY <2>1
<1>. QED BY <1>2, <1>4, <1>9, <1>11, <1>12, <1>13 DEF N

\* The first target arms a trailing stop that waited for it
\* (_release_trailing_after_take_profit).
LEMMA ReleaseFit ==
  ASSUME NEW lot, Fit(lot), NEW price \in Int, price > 0
  PROVE  /\ Fit(ReleaseTrailing(lot, price))
         /\ SameLot(lot, ReleaseTrailing(lot, price))
         /\ SameLegs(lot, ReleaseTrailing(lot, price))
         /\ ~lot.plan.afterTp => ReleaseTrailing(lot, price) = lot
<1>. DEFINE after == ReleaseTrailing(lot, price)
            exits == [i \in DOMAIN lot.exits |->
                        IF lot.exits[i].kind = "trailing_stop"
                        THEN [lot.exits[i] EXCEPT !.status = "pending_activation"]
                        ELSE lot.exits[i]]
            waiting == [lot EXCEPT !.exits = exits]
            placed == Retrailed([lot EXCEPT !.activated = TRUE, !.water = MarkAt(lot, price)],
                                TriggerBehind(lot, MarkAt(lot, price)))
<1>1. lot \in Lot /\ OneEach(lot) /\ lot.exits \in Seq(Leg)
  BY DEF Fit, Lot
<1>2. \/ after = lot
      \/ after = waiting
      \/ Trails(lot.plan) /\ after = placed
  BY DEF ReleaseTrailing
<1>3. ~lot.plan.afterTp => after = lot
  BY DEF ReleaseTrailing
<1>4. SameLot(lot, lot) /\ SameLegs(lot, lot)
  BY DEF SameLot, SameLegs
<1>5. ASSUME NEW i \in DOMAIN lot.exits
      PROVE  /\ exits[i] \in Leg
             /\ exits[i].kind = lot.exits[i].kind
             /\ exits[i].price = lot.exits[i].price
             /\ exits[i].kind = "trailing_stop" => exits[i].status # "open"
  <2>1. lot.exits[i] \in Leg
    BY <1>1, LegOfLot
  <2>. QED BY <2>1 DEF Leg, Statuses
<1>6. exits \in Seq(Leg) /\ DOMAIN exits = DOMAIN lot.exits
  <2>1. DOMAIN lot.exits = 1 .. Len(lot.exits) /\ Len(lot.exits) \in Nat
    BY <1>1
  <2>2. exits \in [1 .. Len(lot.exits) -> Leg]
    BY <1>5, <2>1
  <2>. QED BY <2>1, <2>2, FunctionIsSequence
<1>. HIDE DEF exits, after
<1>7. /\ waiting \in Lot
      /\ waiting.exits = exits
      /\ SameLot(lot, waiting)
      /\ waiting.water = lot.water
      /\ waiting.activated = lot.activated
  BY <1>1, <1>6, LegsMoved
<1>. HIDE DEF waiting
<1>8. Kept(lot, waiting)
  BY <1>1, <1>5, <1>6, <1>7, LegOfLot, FurtherIsOrder DEF Kept
<1>13. Armed(waiting)
  BY <1>5, <1>6, <1>7 DEF Fit, Armed, Legs, SameLot
<1>9. Fit(waiting)
  BY <1>7, <1>8, <1>13, FitKept
<1>10. Trails(lot.plan) =>
          Fit(placed) /\ SameLot(lot, placed) /\ SameLegs(lot, placed)
  BY PlacedAtPrice
<1>. HIDE DEF placed
<1>12. SameLegs(lot, waiting)
  BY <1>5, <1>6, <1>7 DEF SameLegs
<1>11. Fit(after) /\ SameLot(lot, after) /\ SameLegs(lot, after)
  BY <1>2, <1>4, <1>7, <1>9, <1>10, <1>12
<1>. QED BY <1>3, <1>11 DEF after

\* The lot whose profit is locked after a target (_apply_take_profit_protective_lock).
LEMMA LockFit ==
  ASSUME NEW lot, Fit(lot)
  PROVE  /\ Fit(LockAfterTp(lot))
         /\ SameLot(lot, LockAfterTp(lot))
         /\ Kept(lot, LockAfterTp(lot))
<1>. DEFINE at == IF lot.plan.lockAt # 0 THEN lot.plan.lockAt ELSE lot.entry
            protected == Protect(lot, at)
            after == LockAfterTp(lot)
<1>1. lot \in Lot /\ at \in Int
  BY DEF Fit, Lot, Plan
<1>2. after \in Lot /\ SameLot(lot, after) /\ Kept(lot, after)
  BY <1>1, LockAfterTpKeeps
<1>3. after = lot \/ after = [protected EXCEPT !.breakeven = TRUE]
  BY DEF LockAfterTp
<1>. SUFFICES Fit(after)
  BY <1>2
<1>. HIDE DEF at, after
<1>4. Fit(protected) /\ SameLot(lot, protected)
  BY <1>1, ProtectFit
<1>. HIDE DEF protected
<1>5. CASE after = [protected EXCEPT !.breakeven = TRUE]
  <2>1. /\ SameLot(protected, after)
        /\ after.exits = protected.exits
        /\ after.water = protected.water
        /\ after.activated = protected.activated
    BY <1>4, <1>5 DEF Fit, Lot, SameLot
  <2>. QED BY <1>2, <1>4, <2>1, FitAgain
<1>. QED BY <1>3, <1>5

\* The closing orders a mark records.
Fills == [dir : {1, -1}, quantity : Nat]

\* One lot in the loop of update_price over its exits.
Runs == [lot : Lot, position : Int, fills : Seq(Fills), done : BOOLEAN]

\* A round closes some of the lot, off the position as well, and records it.
Closes(run, after, quantity) ==
  /\ quantity \in 0 .. run.lot.remaining
  /\ after.lot.remaining = run.lot.remaining - quantity
  /\ after.position = run.position - run.lot.dir * quantity
  /\ after.fills = Append(run.fills, [dir |-> run.lot.dir, quantity |-> quantity])

\* No leg of the protection is looser, unless a target releases it.
Tightens(lot, after) ==
  ~lot.plan.afterTp => \A kind \in Protective : Follows(lot, after, kind)

\* A lot whose breakeven and activation are not taken back.
Remembers(lot, after) ==
  (lot.breakeven => after.breakeven) /\ (lot.activated => after.activated)

\* Nothing a target does takes them back.
LEMMA TargetRemembers ==
  ASSUME NEW lot \in Lot, NEW price
  PROVE  Remembers(lot, ReleaseTrailing(lot, price)) /\ Remembers(lot, LockAfterTp(lot))
<1>1. ASSUME NEW exits
      PROVE  /\ [lot EXCEPT !.exits = exits].breakeven = lot.breakeven
             /\ [lot EXCEPT !.exits = exits].activated = lot.activated
             /\ [lot EXCEPT !.exits = exits].plan = lot.plan
  BY DEF Lot
<1>2. Remembers(lot, ReleaseTrailing(lot, price))
  <2>. DEFINE armed == [lot EXCEPT !.activated = TRUE, !.water = MarkAt(lot, price)]
              trigger == TriggerBehind(lot, MarkAt(lot, price))
              waiting == [i \in DOMAIN lot.exits |->
                            IF lot.exits[i].kind = "trailing_stop"
                            THEN [lot.exits[i] EXCEPT !.status = "pending_activation"]
                            ELSE lot.exits[i]]
              placed == [i \in DOMAIN armed.exits |->
                            IF armed.exits[i].kind = "trailing_stop"
                            THEN [armed.exits[i] EXCEPT !.price = trigger, !.status = "open"]
                            ELSE armed.exits[i]]
  <2>1. armed.breakeven = lot.breakeven /\ armed.activated = TRUE
    BY DEF Lot
  <2>2. ReleaseTrailing(lot, price)
          \in {lot, [lot EXCEPT !.exits = waiting], [armed EXCEPT !.exits = placed]}
    BY DEF ReleaseTrailing, Retrailed, Lot
  <2>3. [armed EXCEPT !.exits = placed].breakeven = armed.breakeven
        /\ [armed EXCEPT !.exits = placed].activated = armed.activated
    <3>. HIDE DEF placed
    <3>. QED BY DEF Lot
  <2>. HIDE DEF armed, placed, waiting
  <2>. QED BY <1>1, <2>1, <2>2, <2>3 DEF Remembers
<1>3. Remembers(lot, LockAfterTp(lot))
  <2>. DEFINE at == IF lot.plan.lockAt # 0 THEN lot.plan.lockAt ELSE lot.entry
              exits == [i \in DOMAIN lot.exits |->
                          IF i \in Looser(lot, at)
                          THEN [lot.exits[i] EXCEPT !.price = at, !.status = "open"]
                          ELSE lot.exits[i]]
              moved == [lot EXCEPT !.exits = exits]
              protected == Protect(lot, at)
  <2>1. LockAfterTp(lot) \in {lot, [protected EXCEPT !.breakeven = TRUE]}
    BY DEF LockAfterTp
  <2>. HIDE DEF at
  <2>2. protected \in {moved, SyncWater(moved, at)}
    BY DEF Protect
  <2>. HIDE DEF exits, protected
  <2>3. moved.activated = lot.activated /\ SyncWater(moved, at).activated = TRUE
        /\ [moved EXCEPT !.breakeven = TRUE].activated = lot.activated
        /\ [moved EXCEPT !.breakeven = TRUE].breakeven = TRUE
        /\ [SyncWater(moved, at) EXCEPT !.breakeven = TRUE].activated = TRUE
        /\ [SyncWater(moved, at) EXCEPT !.breakeven = TRUE].breakeven = TRUE
    <3>. DEFINE water == IF Trails(moved.plan)
                         THEN Furthest(moved, ImpliedBy(moved, at), Water(moved))
                         ELSE moved.water
    <3>1. SyncWater(moved, at) = [moved EXCEPT !.activated = TRUE, !.water = water]
      BY DEF SyncWater, Lot
    <3>. HIDE DEF water
    <3>. QED BY <3>1 DEF Lot
  <2>. HIDE DEF moved
  <2>. QED BY <2>1, <2>2, <2>3 DEF Remembers
<1>. QED BY <1>2, <1>3

\* A lot after one of its targets filled, before its remaining quantity is cut.
Targeted(lot, i, price) ==
  LockAfterTp(ReleaseTrailing(
     [[lot EXCEPT !.exits = WithoutLeg(@, i)] EXCEPT !.tpFilled = TRUE], price))

\* What is left of a lot after a target: its bracket goes on without that leg,
\* with the trailing stop released and the profit locked.
LEMMA AfterTarget ==
  ASSUME NEW lot, Fit(lot), NEW i \in DOMAIN lot.exits, NEW price \in Int, price > 0
  PROVE  /\ Fit(Targeted(lot, i, price))
         /\ SameLot(lot, Targeted(lot, i, price))
         /\ Tightens(lot, Targeted(lot, i, price))
         /\ DOMAIN Targeted(lot, i, price).exits = 1 .. Len(lot.exits) - 1
         /\ Remembers(lot, Targeted(lot, i, price))
         /\ Legs(Targeted(lot, i, price), "trailing_stop") # {} =>
               Legs(lot, "trailing_stop") # {}
<1>. DEFINE filled == [lot EXCEPT !.exits = WithoutLeg(@, i)]
            told == [filled EXCEPT !.tpFilled = TRUE]
            released == ReleaseTrailing(told, price)
            after == LockAfterTp(released)
<1>1. /\ Fit(filled)
      /\ SameLot(lot, filled)
      /\ \A kind : Follows(lot, filled, kind)
      /\ DOMAIN filled.exits = 1 .. Len(lot.exits) - 1
  BY FitWithoutLeg
<1>12. filled.breakeven = lot.breakeven /\ filled.activated = lot.activated
  BY DEF Fit, Lot
<1>. HIDE DEF filled
<1>2. /\ told \in Lot
      /\ SameLot(filled, told)
      /\ told.exits = filled.exits
      /\ told.water = filled.water
      /\ told.activated = filled.activated
      /\ told.breakeven = filled.breakeven
  BY <1>1 DEF Fit, Lot, SameLot
<1>. HIDE DEF told
<1>3. Fit(told)
  BY <1>1, <1>2, FitAgain
<1>4. /\ Fit(released)
      /\ SameLot(told, released)
      /\ SameLegs(told, released)
      /\ ~told.plan.afterTp => released = told
  BY <1>3, ReleaseFit
<1>13. Remembers(told, released) /\ Remembers(released, after)
  <2>1. released \in Lot
    BY <1>4 DEF Fit
  <2>. HIDE DEF released
  <2>2. Remembers(released, after)
    BY <2>1, TargetRemembers
  <2>. QED BY <1>2, <2>2, TargetRemembers DEF released
<1>. HIDE DEF released
<1>5. Fit(after) /\ SameLot(released, after) /\ Kept(released, after)
  BY <1>4, LockFit
<1>. HIDE DEF after
<1>6. SameLot(lot, after)
  BY <1>1, <1>2, <1>4, <1>5 DEF SameLot
<1>7. ASSUME ~lot.plan.afterTp, NEW kind \in Protective
      PROVE  Follows(lot, after, kind)
  <2>1. released = told
    BY <1>1, <1>2, <1>4, <1>7 DEF SameLot
  <2>2. Follows(filled, told, kind)
    BY <1>1, <1>2, FollowsItself DEF Fit
  <2>3. Follows(told, after, kind)
    BY <1>5, <2>1, KeptFollows
  <2>4. Follows(lot, filled, kind)
    BY <1>1
  <2>5. Follows(lot, told, kind)
    BY <1>1, <1>2, <2>2, <2>4, FollowsIsTransitive DEF Fit, SameLot
  <2>. QED BY <1>1, <1>2, <1>5, <2>3, <2>5, FollowsIsTransitive DEF Fit, SameLot
<1>8. Tightens(lot, after)
  BY <1>7 DEF Tightens
<1>9. SameLegs(filled, after)
  BY <1>2, <1>4, <1>5 DEF SameLegs, Kept
<1>10. Legs(after, "trailing_stop") # {} => Legs(lot, "trailing_stop") # {}
  <2>1. Legs(after, "trailing_stop") = Legs(filled, "trailing_stop")
    BY <1>9 DEF SameLegs, Legs
  <2>. QED BY <1>1, <2>1 DEF Follows
<1>11. DOMAIN after.exits = 1 .. Len(lot.exits) - 1
  BY <1>1, <1>9 DEF SameLegs
<1>14. Remembers(lot, after)
  BY <1>2, <1>12, <1>13 DEF Remembers
<1>. QED BY <1>5, <1>6, <1>8, <1>10, <1>11, <1>14 DEF after, released, told, filled, Targeted

-----------------------------------------------------------------------------
(***************************************************************************)
(* One round of the loop over the exits of a lot.                          *)
(***************************************************************************)

\* A round changes nothing any more.
Ended(run, price) ==
  run.done \/ run.lot.remaining = 0 \/ ~Triggers(run.lot, price)

\* A round closes the lot, or it takes the trailing stop and ends the loop, or it
\* leaves one leg less.
Exhausts(run, after) ==
  /\ \/ after.lot.remaining = 0
     \/ /\ after.done
        /\ Legs(run.lot, "trailing_stop") # {}
        /\ Legs(after.lot, "trailing_stop") = {}
     \/ /\ ~after.done
        /\ Len(after.lot.exits) = Len(run.lot.exits) - 1
  /\ Legs(after.lot, "trailing_stop") # {} => Legs(run.lot, "trailing_stop") # {}

\* What the loop leaves of a lot, with no leg looser: its legs as they were and its
\* trailing stop armed as it was, or fewer legs.
Passed(lot, after) ==
  /\ Remembers(lot, after)
  /\ \/ after.exits = lot.exits /\ after.activated = lot.activated
     \/ Len(after.exits) < Len(lot.exits)

\* Two rounds of it.
LEMMA PassedIsTransitive ==
  ASSUME NEW lot \in Lot, NEW middle \in Lot, NEW after \in Lot,
         Passed(lot, middle), Passed(middle, after)
  PROVE  Passed(lot, after)
<1>1. lot.exits \in Seq(Leg) /\ middle.exits \in Seq(Leg) /\ after.exits \in Seq(Leg)
  BY DEF Lot
<1>2. Len(lot.exits) \in Nat /\ Len(middle.exits) \in Nat /\ Len(after.exits) \in Nat
  BY <1>1
<1>3. Remembers(lot, after)
  BY DEF Passed, Remembers
<1>. QED BY <1>2, <1>3 DEF Passed

\* A round of update_price's loop over the exits of a lot that the position covers.
LEMMA NextExitCloses ==
  ASSUME NEW run \in Runs, NEW price \in Int, price > 0, Fit(run.lot),
         run.lot.remaining \in 0 .. run.lot.original,
         run.lot.dir * run.position >= run.lot.remaining
  PROVE  \/ Ended(run, price) /\ NextExit(run, price) = run
         \/ /\ NextExit(run, price) \in Runs
            /\ Fit(NextExit(run, price).lot)
            /\ SameSignal(run.lot, NextExit(run, price).lot)
            /\ Tightens(run.lot, NextExit(run, price).lot)
            /\ Passed(run.lot, NextExit(run, price).lot)
            /\ \E quantity \in Nat : Closes(run, NextExit(run, price), quantity)
            /\ Exhausts(run, NextExit(run, price))
<1>. DEFINE lot == run.lot
            leg == TriggeredExit(lot, price)
            kind == TriggeredKind(lot, leg)
            quantity == ExitQuantity(lot, leg)
            taken == Taken(lot, run.position, quantity)
            closed == [lot EXCEPT !.remaining = @ - taken]
            filled == [closed EXCEPT !.exits = WithoutLeg(@, leg)]
            left == IF closed.remaining = 0 THEN [closed EXCEPT !.exits = <<>>]
                    ELSE IF kind = "take_profit"
                    THEN LockAfterTp(ReleaseTrailing([filled EXCEPT !.tpFilled = TRUE], price))
                    ELSE IF kind = "trailing_stop" THEN filled
                    ELSE closed
            after == NextExit(run, price)
<1>1. /\ lot \in Lot
      /\ run.position \in Int
      /\ run.fills \in Seq(Fills)
  BY DEF Runs
<1>2. lot.dir \in {1, -1} /\ lot.remaining \in Nat /\ lot.original \in Nat
  BY <1>1, LotFields
<1>3. quantity \in 0 .. lot.remaining
  BY <1>1, <1>2, QuantityOfExit
<1>4. \/ Ended(run, price) /\ after = run
      \/ after = [lot |-> left, position |-> run.position - lot.dir * taken,
                  fills |-> Append(run.fills, [dir |-> lot.dir, quantity |-> quantity]),
                  done |-> EndsLoop(kind)]
  BY DEF NextExit, Ended
<1>5. \/ leg = 0 /\ kind = "time_exit"
      \/ leg \in DOMAIN lot.exits /\ kind = lot.exits[leg].kind
  BY <1>1, TriggeredLeg
<1>. HIDE DEF after, quantity, leg, kind
<1>6. taken = quantity
  <2>1. CASE lot.dir = 1
    BY <1>1, <1>2, <1>3, <2>1 DEF Taken, Held, Least
  <2>2. CASE lot.dir = -1
    BY <1>1, <1>2, <1>3, <2>2 DEF Taken, Held, Least
  <2>. QED BY <1>2, <2>1, <2>2
<1>. HIDE DEF taken
<1>7. /\ Fit(closed)
      /\ SameSignal(lot, closed)
      /\ closed.remaining = lot.remaining - quantity
      /\ closed.exits = lot.exits
      /\ closed.breakeven = lot.breakeven
      /\ closed.activated = lot.activated
  <2>1. lot.remaining - taken \in Int
    BY <1>2, <1>3, <1>6
  <2>2. closed.breakeven = lot.breakeven /\ closed.activated = lot.activated
    <3>. HIDE DEF taken
    <3>. QED BY <1>1 DEF Lot
  <2>. QED BY <1>6, <2>1, <2>2, FitLess
<1>. HIDE DEF closed
<1>8. Fit(left) /\ SameLot(closed, left) /\ Tightens(closed, left)
  <2>1. CASE closed.remaining = 0
    <3>1. Fit([closed EXCEPT !.exits = <<>>]) /\ Maintains(closed, [closed EXCEPT !.exits = <<>>])
      BY <1>7, CancelFit
    <3>2. [closed EXCEPT !.exits = <<>>].exits = <<>>
      BY <1>7 DEF Fit, Lot
    <3>3. left = [closed EXCEPT !.exits = <<>>]
      BY <2>1
    <3>. HIDE DEF left
    <3>4. Tightens(closed, left)
      BY <3>2, <3>3 DEF Tightens, Follows, Legs
    <3>. QED BY <3>1, <3>3, <3>4 DEF Maintains
  <2>2. CASE closed.remaining # 0 /\ kind = "take_profit"
    <3>1. leg \in DOMAIN closed.exits
      BY <1>5, <1>7, <2>2
    <3>2. left = Targeted(closed, leg, price)
      BY <2>2 DEF Targeted
    <3>. HIDE DEF left
    <3>. QED BY <1>7, <3>1, <3>2, AfterTarget
  <2>3. CASE closed.remaining # 0 /\ kind = "trailing_stop"
    <3>1. leg \in DOMAIN closed.exits
      BY <1>5, <1>7, <2>3
    <3>2. left = filled
      BY <2>3
    <3>3. Fit(filled) /\ SameLot(closed, filled) /\ \A k : Follows(closed, filled, k)
      BY <1>7, <3>1, FitWithoutLeg
    <3>. HIDE DEF left, filled
    <3>. QED BY <3>2, <3>3 DEF Tightens
  <2>4. CASE closed.remaining # 0 /\ kind \notin {"take_profit", "trailing_stop"}
    <3>1. left = closed
      BY <2>4
    <3>2. SameLot(closed, closed) /\ \A k : Follows(closed, closed, k)
      BY <1>7, FollowsItself DEF Fit, SameLot
    <3>. HIDE DEF left
    <3>. QED BY <1>7, <3>1, <3>2 DEF Tightens
  <2>. QED BY <2>1, <2>2, <2>3, <2>4
<1>. HIDE DEF left
<1>9. Tightens(lot, left)
  <2>1. closed \in Lot /\ left \in Lot
    BY <1>7, <1>8 DEF Fit
  <2>2. \A k : Follows(lot, closed, k)
    BY <1>1, <1>7, FollowsItself
  <2>3. closed.dir = lot.dir /\ closed.plan = lot.plan
    BY <1>7 DEF SameSignal
  <2>. HIDE DEF lot
  <2>. QED BY <1>1, <1>8, <2>1, <2>2, <2>3, FollowsIsTransitive DEF Tightens
<1>10. SameSignal(lot, left) /\ left.remaining = lot.remaining - quantity
  BY <1>7, <1>8 DEF SameSignal, SameLot
<1>12. kind \notin {"take_profit", "trailing_stop"} => quantity = lot.remaining
  BY DEF quantity, kind, leg, ExitQuantity
<1>13. /\ \/ left.remaining = 0
          \/ /\ EndsLoop(kind)
             /\ Legs(lot, "trailing_stop") # {}
             /\ Legs(left, "trailing_stop") = {}
          \/ /\ ~EndsLoop(kind)
             /\ Len(left.exits) = Len(lot.exits) - 1
       /\ Legs(left, "trailing_stop") # {} => Legs(lot, "trailing_stop") # {}
       /\ Passed(lot, left)
  <2>1. CASE closed.remaining = 0
    <3>1. left.exits = <<>> /\ left.breakeven = lot.breakeven /\ left.activated = lot.activated
      BY <1>7, <2>1 DEF left, Fit, Lot
    <3>2. left.remaining = 0
      BY <1>8, <2>1 DEF SameLot
    <3>3. lot.exits = <<>> \/ Len(<<>>) < Len(lot.exits)
      <4>1. lot.exits \in Seq(Leg)
        BY <1>1 DEF Lot
      <4>. QED BY <4>1
    <3>. QED BY <3>1, <3>2, <3>3 DEF Legs, Passed, Remembers
  <2>2. CASE closed.remaining # 0 /\ kind = "take_profit"
    <3>1. leg \in DOMAIN closed.exits
      BY <1>5, <1>7, <2>2
    <3>2. left = Targeted(closed, leg, price)
      BY <2>2 DEF Targeted, left, filled
    <3>3. /\ DOMAIN left.exits = 1 .. Len(closed.exits) - 1
          /\ Remembers(closed, left)
          /\ Legs(left, "trailing_stop") # {} => Legs(closed, "trailing_stop") # {}
      BY <1>7, <3>1, <3>2, AfterTarget
    <3>4. left.exits \in Seq(Leg) /\ closed.exits \in Seq(Leg)
      BY <1>7, <1>8 DEF Fit, Lot
    <3>5. Len(left.exits) = Len(closed.exits) - 1
      <4>1. Len(closed.exits) \in Nat /\ leg \in 1 .. Len(closed.exits)
        BY <3>1, <3>4
      <4>2. DOMAIN left.exits = 1 .. Len(left.exits) /\ Len(left.exits) \in Nat
        BY <3>4
      <4>. QED BY <3>3, <4>1, <4>2
    <3>6. ~EndsLoop(kind)
      BY <2>2 DEF EndsLoop
    <3>7. Len(left.exits) < Len(lot.exits)
      <4>1. Len(closed.exits) \in Nat
        BY <3>4
      <4>. QED BY <1>7, <3>5, <4>1
    <3>. QED BY <1>7, <3>3, <3>5, <3>6, <3>7 DEF Legs, Passed, Remembers
  <2>3. CASE closed.remaining # 0 /\ kind = "trailing_stop"
    <3>1. leg \in DOMAIN closed.exits /\ closed.exits[leg].kind = "trailing_stop"
      BY <1>5, <1>7, <2>3
    <3>2. left = filled
      BY <2>3 DEF left
    <3>3. Legs(filled, "trailing_stop") = {}
      BY <1>7, <3>1, FitWithoutLeg
    <3>4. leg \in Legs(lot, "trailing_stop")
      BY <1>7, <3>1 DEF Legs
    <3>5. filled.breakeven = lot.breakeven /\ filled.activated = lot.activated
      BY <1>7 DEF filled, Fit, Lot
    <3>6. Len(filled.exits) < Len(lot.exits)
      <4>1. Fit(filled) /\ DOMAIN filled.exits = 1 .. Len(closed.exits) - 1
        BY <1>7, <3>1, FitWithoutLeg
      <4>2. filled.exits \in Seq(Leg) /\ closed.exits \in Seq(Leg)
        BY <1>7, <4>1 DEF Fit, Lot
      <4>3. /\ Len(closed.exits) \in Nat /\ leg \in 1 .. Len(closed.exits)
            /\ DOMAIN filled.exits = 1 .. Len(filled.exits) /\ Len(filled.exits) \in Nat
        BY <3>1, <4>2
      <4>. QED BY <1>7, <4>1, <4>3
    <3>. QED BY <2>3, <3>2, <3>3, <3>4, <3>5, <3>6 DEF EndsLoop, Passed, Remembers
  <2>4. CASE closed.remaining # 0 /\ kind \notin {"take_profit", "trailing_stop"}
    <3>1. left = closed
      BY <2>4 DEF left
    <3>2. Passed(lot, left)
      BY <1>7, <3>1 DEF Passed, Remembers
    <3>. QED BY <1>2, <1>7, <1>12, <2>4, <3>2
  <2>. QED BY <2>1, <2>2, <2>3, <2>4
<1>11. CASE after = [lot |-> left, position |-> run.position - lot.dir * taken,
                     fills |-> Append(run.fills, [dir |-> lot.dir, quantity |-> quantity]),
                     done |-> EndsLoop(kind)]
  <2>1. after.lot = left
    BY <1>11
  <2>2. Closes(run, after, quantity)
    BY <1>3, <1>6, <1>10, <1>11 DEF Closes
  <2>3. after \in Runs
    <3>1. run.position - lot.dir * taken \in Int
      BY <1>1, <1>2, <1>3, <1>6
    <3>2. [dir |-> lot.dir, quantity |-> quantity] \in Fills
      BY <1>2, <1>3 DEF Fills
    <3>3. Append(run.fills, [dir |-> lot.dir, quantity |-> quantity]) \in Seq(Fills)
      BY <1>1, <3>2
    <3>4. EndsLoop(kind) \in BOOLEAN
      BY DEF EndsLoop
    <3>5. left \in Lot
      BY <1>8 DEF Fit
    <3>. QED BY <1>11, <3>1, <3>3, <3>4, <3>5 DEF Runs
  <2>4. quantity \in Nat
    BY <1>2, <1>3
  <2>5. /\ Fit(after.lot)
        /\ SameSignal(run.lot, after.lot)
        /\ Tightens(run.lot, after.lot)
        /\ Passed(run.lot, after.lot)
    BY <1>8, <1>9, <1>10, <1>13, <2>1
  <2>6. Exhausts(run, after)
    BY <1>11, <1>13, <2>1 DEF Exhausts
  <2>. QED BY <2>2, <2>3, <2>4, <2>5, <2>6 DEF after
<1>. QED BY <1>4, <1>11 DEF after

-----------------------------------------------------------------------------
(***************************************************************************)
(* Recorded closing orders replayed.                                       *)
(***************************************************************************)

\* Books that make up their position.
BalancedBooks == {book \in Books : Balanced(book)}

\* The recorded closing orders replayed one at a time.
LEMMA ReplayFillsStep ==
  ASSUME NEW book \in BalancedBooks, NEW fills \in Seq(Fills)
  PROVE  \E after :
            /\ after \in [0 .. Len(fills) -> BalancedBooks]
            /\ after[0] = book
            /\ \A n \in 1 .. Len(fills) :
                  after[n] = Reduce(after[n - 1], fills[n].dir, fills[n].quantity)
            /\ ReplayFills(book, fills) = after[Len(fills)]
<1>. DEFINE N == Len(fills)
            Next1(n, x) == Reduce(x, fills[n].dir, fills[n].quantity)
            S == BalancedBooks
            step == [n \in 1 .. N |-> [x \in S |-> Next1(n, x)]]
            Body(g) == [n \in 0 .. N |-> IF n = 0 THEN book ELSE Next1(n, g[n - 1])]
            after == CHOOSE h : h = Body(h)
<1>1. N \in Nat /\ \A n \in 1 .. N : \A x \in S : Next1(n, x) \in S
  <2>1. ASSUME NEW n \in 1 .. N, NEW x \in S PROVE Next1(n, x) \in S
    <3>1. fills[n] \in Fills
      OBVIOUS
    <3>2. fills[n].dir \in {1, -1} /\ fills[n].quantity \in Nat
      BY <3>1 DEF Fills
    <3>3. Balanced(x)
      BY DEF BalancedBooks
    <3>. QED BY <3>2, <3>3, ReduceBalanced DEF BalancedBooks, Books
  <2>. QED BY <2>1
<1>0. book \in S
  OBVIOUS
<1>. HIDE DEF Next1, S
<1>2. step \in [1 .. N -> [S -> S]]
  BY <1>1
<1>3. PICK g : Iterates(g, N, S, book, step)
  <2>. HIDE DEF N, step
  <2>. QED BY <1>0, <1>1, <1>2, RecursionExists, Zenon
<1>. HIDE DEF N
<1>4. \A n \in 1 .. N : g[n] = Next1(n, g[n - 1])
  <2>1. \A n \in 1 .. N : \A x \in S : step[n][x] = Next1(n, x)
    OBVIOUS
  <2>. HIDE DEF step
  <2>. QED BY <1>3, <2>1 DEF Iterates
<1>5. g = Body(g)
  BY <1>1, <1>3, <1>4 DEF Iterates
<1>6. ReplayFills(book, fills) = after[N]
  BY DEF ReplayFills, Next1, N
<1>7. after = Body(after)
  <2>. HIDE DEF Body
  <2>. QED BY <1>5
<1>. HIDE DEF after
<1>8. after[0] = book /\ \A n \in 1 .. N : after[n] = Next1(n, after[n - 1])
  BY <1>1, <1>7
<1>9. \A n \in 0 .. N : after[n] \in S
  <2>1. after[0] \in S
    BY <1>0, <1>8
  <2>2. \A n \in 1 .. N : after[n - 1] \in S => after[n] \in S
    BY <1>1, <1>8
  <2>. QED BY <1>1, <2>1, <2>2, RecursionTyped, Zenon
<1>10. after \in [0 .. N -> S]
  BY <1>7, <1>9
<1>. QED BY <1>6, <1>8, <1>10 DEF N, S, Next1

\* Replaying one exit more.
LEMMA ReplayFillsAppended ==
  ASSUME NEW book \in BalancedBooks, NEW fills \in Seq(Fills), NEW fill \in Fills
  PROVE  /\ ReplayFills(book, <<>>) = book
         /\ ReplayFills(book, fills) \in BalancedBooks
         /\ ReplayFills(book, Append(fills, fill))
              = Reduce(ReplayFills(book, fills), fill.dir, fill.quantity)
<1>1. ReplayFills(book, <<>>) = book
  <2>1. <<>> \in Seq(Fills) /\ Len(<<>>) = 0
    OBVIOUS
  <2>. DEFINE none == <<>>
  <2>. HIDE DEF none
  <2>2. PICK after : after[0] = book /\ ReplayFills(book, none) = after[Len(none)]
    BY <2>1, ReplayFillsStep DEF none
  <2>. QED BY <2>1, <2>2 DEF none
<1>. DEFINE N == Len(fills)
            more == Append(fills, fill)
<1>2. /\ N \in Nat
      /\ more \in Seq(Fills)
      /\ Len(more) = N + 1
      /\ \A n \in 1 .. N : more[n] = fills[n]
      /\ more[N + 1] = fill
  OBVIOUS
<1>. HIDE DEF more
<1>3. PICK a : /\ a \in [0 .. N -> BalancedBooks]
               /\ a[0] = book
               /\ \A n \in 1 .. N : a[n] = Reduce(a[n - 1], fills[n].dir, fills[n].quantity)
               /\ ReplayFills(book, fills) = a[N]
  BY ReplayFillsStep
<1>4. PICK b : /\ b \in [0 .. N + 1 -> BalancedBooks]
               /\ b[0] = book
               /\ \A n \in 1 .. N + 1 : b[n] = Reduce(b[n - 1], more[n].dir, more[n].quantity)
               /\ ReplayFills(book, more) = b[N + 1]
  BY <1>2, ReplayFillsStep
<1>. HIDE DEF N
<1>. DEFINE T == {n \in 0 .. N : b[n] = a[n]}
<1>5. 0 \in T
  BY <1>2, <1>3, <1>4
<1>6. ASSUME NEW n \in 1 .. N, n - 1 \in T PROVE n \in T
  <2>1. n \in 1 .. N + 1 /\ more[n] = fills[n]
    BY <1>2
  <2>2. b[n] = Reduce(b[n - 1], more[n].dir, more[n].quantity)
    BY <1>4, <2>1
  <2>. QED BY <1>3, <1>6, <2>1, <2>2
<1>7. \A n \in 0 .. N : n \in T
  <2>. HIDE DEF T
  <2>. QED BY <1>2, <1>5, <1>6, IntervalInduction, Zenon
<1>8. b[N] = a[N]
  BY <1>2, <1>7
<1>9. b[N + 1] = Reduce(b[N], fill.dir, fill.quantity)
  <2>1. N + 1 \in 1 .. N + 1 /\ N + 1 - 1 = N
    BY <1>2
  <2>. QED BY <1>2, <1>4, <2>1
<1>10. ReplayFills(book, fills) \in BalancedBooks
  BY <1>2, <1>3
<1>. QED BY <1>1, <1>3, <1>4, <1>8, <1>9, <1>10 DEF more

-----------------------------------------------------------------------------
(***************************************************************************)
(* The rounds of the loop.                                                 *)
(***************************************************************************)

\* Where the loop over the exits of a lot can be after n rounds.
Looped(first, run, n, price, book) ==
  /\ run \in Runs
  /\ Fit(run.lot)
  /\ SameSignal(first.lot, run.lot)
  /\ Tightens(first.lot, run.lot)
  /\ Passed(first.lot, run.lot)
  /\ run.lot.remaining \in 0 .. first.lot.remaining
  /\ run.position = first.position - first.lot.dir * (first.lot.remaining - run.lot.remaining)
  /\ Legs(run.lot, "trailing_stop") # {} => Legs(first.lot, "trailing_stop") # {}
  /\ run.done => \/ run.lot.remaining = 0
                 \/ /\ Legs(first.lot, "trailing_stop") # {}
                    /\ Legs(run.lot, "trailing_stop") = {}
  /\ Ended(run, price) \/ Len(run.lot.exits) + n <= Len(first.lot.exits)
  /\ ReplayFills(book, run.fills).position = run.position

\* The loop starts on a lot that the position covers.
Covered(first, book) ==
  /\ first \in Runs
  /\ Fit(first.lot)
  /\ first.lot.remaining \in 0 .. first.lot.original
  /\ first.lot.dir * first.position >= first.lot.remaining
  /\ ~first.done
  /\ ReplayFills(book, first.fills).position = first.position

\* What the lots of a side hold covers the position on that side.
LEMMA SideCovers ==
  ASSUME NEW book \in BalancedBooks, NEW dir \in {1, -1}
  PROVE  /\ OpenQuantity(book.lots, dir) \in Nat
         /\ OpenQuantity(book.lots, dir) >= dir * book.position
<1>1. LotsOK(book.lots) /\ book.position = Exposure(book.lots)
  BY DEF BalancedBooks, Balanced
<1>2. OpenQuantity(book.lots, 1) \in Nat /\ OpenQuantity(book.lots, -1) \in Nat
  BY <1>1, SumOK
<1>3. CASE dir = 1
  BY <1>1, <1>2, <1>3 DEF Exposure
<1>4. CASE dir = -1
  BY <1>1, <1>2, <1>4 DEF Exposure
<1>. QED BY <1>3, <1>4

\* Two rounds of the loop, neither of which loosens the protection.
LEMMA TightensIsTransitive ==
  ASSUME NEW lot, Fit(lot), NEW middle, Fit(middle), NEW after, Fit(after),
         SameSignal(lot, middle), Tightens(lot, middle), Tightens(middle, after)
  PROVE  Tightens(lot, after)
BY FollowsIsTransitive DEF Fit, SameSignal, Tightens

\* What has left a lot has left the position.
TakenFrom(dir, before, held, after, left) == after = before - dir * (held - left)

\* Another quantity that leaves both.
LEMMA TakenOff ==
  ASSUME NEW dir \in {1, -1}, NEW before \in Int, NEW held \in Int, NEW left \in Int,
         NEW quantity \in Int, NEW after, TakenFrom(dir, before, held, after, left)
  PROVE  TakenFrom(dir, before, held, after - dir * quantity, left - quantity)
<1>1. CASE dir = 1
  BY <1>1 DEF TakenFrom
<1>2. CASE dir = -1
  BY <1>2 DEF TakenFrom
<1>. QED BY <1>1, <1>2

\* During the loop the position covers what is left of the lot.
LEMMA LoopCovers ==
  ASSUME NEW book, NEW price, NEW first, Covered(first, book), NEW n,
         NEW run, Looped(first, run, n, price, book)
  PROVE  /\ run.lot.remaining \in 0 .. run.lot.original
         /\ run.lot.dir * run.position >= run.lot.remaining
<1>1. /\ first.lot \in Lot
      /\ first.position \in Int
      /\ first.lot.remaining \in 0 .. first.lot.original
      /\ first.lot.dir * first.position >= first.lot.remaining
  BY DEF Covered, Runs
<1>2. /\ first.lot.dir \in {1, -1}
      /\ first.lot.remaining \in Nat
      /\ first.lot.original \in Nat
  BY <1>1, LotFields
<1>3. /\ run.lot.dir = first.lot.dir
      /\ run.lot.original = first.lot.original
      /\ run.lot.remaining \in 0 .. first.lot.remaining
      /\ run.position = first.position
                          - first.lot.dir * (first.lot.remaining - run.lot.remaining)
  BY DEF Looped, SameSignal
<1>4. run.lot.remaining \in 0 .. run.lot.original
  BY <1>1, <1>2, <1>3
<1>5. CASE first.lot.dir = 1
  BY <1>1, <1>2, <1>3, <1>4, <1>5
<1>6. CASE first.lot.dir = -1
  BY <1>1, <1>2, <1>3, <1>4, <1>6
<1>. QED BY <1>2, <1>5, <1>6

\* What is left of what was left is left of all.
LEMMA LeavesLess ==
  ASSUME NEW all \in Nat, NEW left \in 0 .. all, NEW quantity \in 0 .. left
  PROVE  left - quantity \in 0 .. all
OBVIOUS

\* A round of the loop.
LEMMA LoopGoesOn ==
  ASSUME NEW book \in BalancedBooks, NEW price \in Int, price > 0,
         NEW first, Covered(first, book), NEW n \in Nat,
         NEW run, Looped(first, run, n, price, book)
  PROVE  Looped(first, NextExit(run, price), n + 1, price, book)
<1>. DEFINE after == NextExit(run, price)
<1>1. /\ first \in Runs
      /\ first.lot \in Lot
      /\ first.position \in Int
      /\ first.lot.dir \in {1, -1}
      /\ first.lot.remaining \in Nat
      /\ first.lot.original \in Nat
      /\ first.lot.exits \in Seq(Leg)
  <2>1. first \in Runs /\ first.lot \in Lot /\ first.position \in Int
    BY DEF Covered, Runs
  <2>2. first.lot.remaining \in 0 .. first.lot.original
    BY DEF Covered
  <2>. QED BY <2>1, <2>2, LotFields
<1>2. /\ run \in Runs
      /\ Fit(run.lot)
      /\ SameSignal(first.lot, run.lot)
      /\ run.lot.remaining \in 0 .. first.lot.remaining
      /\ run.position = first.position
                          - first.lot.dir * (first.lot.remaining - run.lot.remaining)
      /\ run.fills \in Seq(Fills)
      /\ ReplayFills(book, run.fills).position = run.position
      /\ run.lot.exits \in Seq(Leg)
      /\ run.lot \in Lot
  BY DEF Looped, Runs, Fit, Lot
<1>3. run.lot.dir = first.lot.dir /\ run.lot.original = first.lot.original
  BY <1>2 DEF SameSignal
<1>4. run.lot.remaining \in 0 .. run.lot.original
  BY LoopCovers
<1>5. first.lot.dir * run.position >= run.lot.remaining
  BY <1>3, LoopCovers
<1>6. \/ Ended(run, price) /\ after = run
      \/ /\ after \in Runs
         /\ Fit(after.lot)
         /\ SameSignal(run.lot, after.lot)
         /\ Tightens(run.lot, after.lot)
         /\ Passed(run.lot, after.lot)
         /\ \E quantity \in Nat : Closes(run, after, quantity)
         /\ Exhausts(run, after)
  BY <1>2, <1>3, <1>4, <1>5, NextExitCloses
<1>9. Ended(run, price) => after = run
  BY DEF Ended, NextExit
<1>. HIDE DEF after
<1>7. CASE Ended(run, price) /\ after = run
  BY <1>7 DEF Looped, after
<1>8. CASE /\ after \in Runs
           /\ Fit(after.lot)
           /\ SameSignal(run.lot, after.lot)
           /\ Tightens(run.lot, after.lot)
           /\ Passed(run.lot, after.lot)
           /\ \E quantity \in Nat : Closes(run, after, quantity)
           /\ Exhausts(run, after)
           /\ ~Ended(run, price)
  <2>1. PICK quantity \in Nat : Closes(run, after, quantity)
    BY <1>8
  <2>2. /\ quantity \in 0 .. run.lot.remaining
        /\ after.lot.remaining = run.lot.remaining - quantity
        /\ after.position = run.position - run.lot.dir * quantity
        /\ after.fills = Append(run.fills, [dir |-> run.lot.dir, quantity |-> quantity])
    BY <2>1 DEF Closes
  <2>3. SameSignal(first.lot, after.lot)
    BY <1>2, <1>8 DEF SameSignal
  <2>4. Tightens(first.lot, after.lot)
    BY <1>2, <1>8, TightensIsTransitive DEF Covered, Looped
  <2>5. after.lot.remaining \in 0 .. first.lot.remaining
    <3>1. /\ first.lot.remaining \in Nat
          /\ run.lot.remaining \in 0 .. first.lot.remaining
          /\ quantity \in 0 .. run.lot.remaining
      BY <1>1, <1>2, <2>2
    <3>2. run.lot.remaining - quantity \in 0 .. first.lot.remaining
      BY <3>1, LeavesLess
    <3>. QED BY <2>2, <3>2
  <2>6. after.position = first.position
                           - first.lot.dir * (first.lot.remaining - after.lot.remaining)
    <3>1. /\ first.lot.dir \in {1, -1}
          /\ first.position \in Int
          /\ first.lot.remaining \in Int
          /\ run.lot.remaining \in Int
          /\ quantity \in Int
          /\ run.position = first.position
                              - first.lot.dir * (first.lot.remaining - run.lot.remaining)
      BY <1>1, <1>2
    <3>2. TakenFrom(first.lot.dir, first.position, first.lot.remaining, run.position,
                 run.lot.remaining)
      BY <3>1 DEF TakenFrom
    <3>3. TakenFrom(first.lot.dir, first.position, first.lot.remaining,
                 run.position - first.lot.dir * quantity, run.lot.remaining - quantity)
      BY <3>1, <3>2, TakenOff
    <3>. QED BY <1>3, <2>2, <3>3 DEF TakenFrom
  <2>7. Legs(after.lot, "trailing_stop") # {} => Legs(first.lot, "trailing_stop") # {}
    BY <1>8 DEF Looped, Exhausts
  <2>8. after.done => \/ after.lot.remaining = 0
                      \/ /\ Legs(first.lot, "trailing_stop") # {}
                         /\ Legs(after.lot, "trailing_stop") = {}
    BY <1>8 DEF Looped, Exhausts
  <2>9. Ended(after, price) \/ Len(after.lot.exits) + (n + 1) <= Len(first.lot.exits)
    <3>1. Len(run.lot.exits) + n <= Len(first.lot.exits)
      BY <1>8 DEF Looped
    <3>2. after.lot.remaining = 0 \/ after.done \/ Len(after.lot.exits) = Len(run.lot.exits) - 1
      BY <1>8 DEF Exhausts
    <3>3. Len(run.lot.exits) \in Nat /\ Len(first.lot.exits) \in Nat
      BY <1>1, <1>2
    <3>4. CASE after.lot.remaining = 0 \/ after.done
      BY <3>4 DEF Ended
    <3>5. CASE Len(after.lot.exits) = Len(run.lot.exits) - 1
      <4>. DEFINE a == Len(after.lot.exits)
                  b == Len(run.lot.exits)
                  c == Len(first.lot.exits)
      <4>2. a = b - 1 /\ b + n <= c /\ b \in Nat /\ c \in Nat /\ n \in Nat
        BY <3>1, <3>3, <3>5
      <4>. HIDE DEF a, b, c
      <4>3. a + (n + 1) <= c
        BY <4>2
      <4>1. Len(after.lot.exits) + (n + 1) <= Len(first.lot.exits)
        BY <4>3 DEF a, c
      <4>. QED BY <4>1
    <3>. QED BY <3>2, <3>4, <3>5
  <2>10. ReplayFills(book, after.fills).position = after.position
    <3>. DEFINE fill == [dir |-> run.lot.dir, quantity |-> quantity]
                before == ReplayFills(book, run.fills)
    <3>1. fill \in Fills
      BY <1>1, <1>3 DEF Fills
    <3>2. /\ before \in BalancedBooks
          /\ ReplayFills(book, after.fills) = Reduce(before, fill.dir, fill.quantity)
      BY <1>2, <2>2, <3>1, ReplayFillsAppended
    <3>3. before.position = run.position
      BY <1>2
    <3>. HIDE DEF before
    <3>4. OpenQuantity(before.lots, first.lot.dir) \in Nat
          /\ OpenQuantity(before.lots, first.lot.dir) >= first.lot.dir * before.position
      BY <1>1, <3>2, SideCovers
    <3>5. Least(quantity, OpenQuantity(before.lots, first.lot.dir)) = quantity
      <4>1. run.lot.remaining \in Int /\ quantity <= run.lot.remaining
        BY <1>1, <1>2, <2>2
      <4>2. first.lot.dir * run.position \in Int
        <5>1. run.position \in Int
          BY <1>2 DEF Runs
        <5>. QED BY <1>1, <5>1
      <4>. QED BY <1>5, <3>3, <3>4, <4>1, <4>2 DEF Least
    <3>6. Reduce(before, first.lot.dir, quantity).position
            = before.position - first.lot.dir * Least(quantity, OpenQuantity(before.lots, first.lot.dir))
      BY <1>1, <3>2, ReduceBalanced DEF BalancedBooks
    <3>7. fill.dir = first.lot.dir /\ fill.quantity = quantity
      BY <1>3
    <3>. HIDE DEF fill
    <3>. QED BY <1>3, <2>2, <3>2, <3>3, <3>5, <3>6, <3>7
  <2>11. Passed(first.lot, after.lot)
    <3>1. Passed(first.lot, run.lot) /\ Passed(run.lot, after.lot)
      BY <1>8 DEF Looped
    <3>2. after.lot \in Lot
      BY <1>8 DEF Runs
    <3>. QED BY <1>1, <1>2, <3>1, <3>2, PassedIsTransitive
  <2>. QED BY <1>8, <2>3, <2>4, <2>5, <2>6, <2>7, <2>8, <2>9, <2>10, <2>11 DEF Looped, after
<1>. QED BY <1>6, <1>7, <1>8, <1>9

\* A lot as the loop over its exits finds it.
Moved(lot, price) ==
  [UpdateTrailing(ApplyBreakeven(lot, price), price) EXCEPT !.marks = @ + 1]

\* What a mark does to a lot, at a position it shares: it stays in order, holds no
\* more, what leaves it leaves the position, and its exits are exhausted.
MarkedLot(lot, position0, run, price, book) ==
  /\ run \in Runs
  /\ Fit(run.lot)
  /\ SameSignal(lot, run.lot)
  /\ Tightens(lot, run.lot)
  /\ Tightens(Moved(lot, price), run.lot)
  /\ Passed(Moved(lot, price), run.lot)
  /\ run.lot.remaining \in 0 .. lot.remaining
  /\ TakenFrom(lot.dir, position0, lot.remaining, run.position, run.lot.remaining)
  /\ ReplayFills(book, run.fills).position = run.position
  /\ \/ run.lot.remaining = 0
     \/ /\ Legs(lot, "trailing_stop") # {}
        /\ Legs(run.lot, "trailing_stop") = {}
     \/ ~Triggers(run.lot, price)

\* A mark counts for the time exit.
LEMMA MarksFit ==
  ASSUME NEW lot, Fit(lot)
  PROVE  /\ Fit([lot EXCEPT !.marks = @ + 1])
         /\ SameLot(lot, [lot EXCEPT !.marks = @ + 1])
         /\ [lot EXCEPT !.marks = @ + 1].exits = lot.exits
<1>. DEFINE after == [lot EXCEPT !.marks = @ + 1]
<1>1. lot \in Lot
  BY DEF Fit
<1>2. lot.marks + 1 \in Int
  BY <1>1 DEF Lot
<1>3. /\ after \in Lot
      /\ SameLot(lot, after)
      /\ after.exits = lot.exits
      /\ after.water = lot.water
      /\ after.activated = lot.activated
  BY <1>1, <1>2 DEF Lot, SameLot
<1>. HIDE DEF after
<1>4. Fit(after)
  BY <1>3, FitAgain
<1>. QED BY <1>3, <1>4 DEF after

\* Breakeven and the trailing stop leave a lot in order.
LEMMA MovedLot ==
  ASSUME NEW lot, Fit(lot), NEW price \in Int, price > 0
  PROVE  LET moved == [UpdateTrailing(ApplyBreakeven(lot, price), price) EXCEPT !.marks = @ + 1]
         IN  /\ Fit(moved)
             /\ SameLot(lot, moved)
             /\ DOMAIN moved.exits = DOMAIN lot.exits
             /\ Tightens(lot, moved)
             /\ Legs(moved, "trailing_stop") = Legs(lot, "trailing_stop")
<1>. DEFINE even == ApplyBreakeven(lot, price)
            trailed == UpdateTrailing(even, price)
            moved == [trailed EXCEPT !.marks = @ + 1]
<1>1. Fit(even) /\ SameLot(lot, even) /\ Kept(lot, even)
  BY BreakevenFit
<1>. HIDE DEF even
<1>2. Fit(trailed) /\ SameLot(even, trailed) /\ Kept(even, trailed)
  BY <1>1, UpdateTrailingFit
<1>. HIDE DEF trailed
<1>3. Fit(moved) /\ SameLot(trailed, moved) /\ moved.exits = trailed.exits
  BY <1>2, MarksFit
<1>. HIDE DEF moved
<1>4. SameLot(lot, moved)
  BY <1>1, <1>2, <1>3 DEF SameLot
<1>5. Kept(lot, trailed)
  BY <1>1, <1>2, KeptIsTransitive DEF Fit, SameLot
<1>6. Kept(lot, moved)
  BY <1>3, <1>5 DEF Kept
<1>7. DOMAIN moved.exits = DOMAIN lot.exits
  BY <1>6 DEF Kept
<1>8. Tightens(lot, moved)
  BY <1>6, KeptFollows DEF Tightens
<1>9. Legs(moved, "trailing_stop") = Legs(lot, "trailing_stop")
  BY <1>6 DEF Kept, Legs
<1>. QED BY <1>3, <1>4, <1>7, <1>8, <1>9 DEF moved, trailed, even

\* The rounds of update_price's loop over the exits of a lot, of which it has as many.
Loop(first, rounds, price) ==
  LET run[n \in 0 .. rounds] == IF n = 0 THEN first ELSE NextExit(run[n - 1], price)
  IN  run[rounds]

\* The whole loop over the exits of a lot that the position covers.
LEMMA LoopRuns ==
  ASSUME NEW book \in BalancedBooks, NEW price \in Int, price > 0,
         NEW first, Covered(first, book), NEW rounds \in Nat,
         rounds = Len(first.lot.exits) + 1
  PROVE  \E run : /\ Loop(first, rounds, price) = run[rounds]
                  /\ run[0] = first
                  /\ \A n \in 1 .. rounds : run[n] = NextExit(run[n - 1], price)
                  /\ \A n \in 0 .. rounds : Looped(first, run[n], n, price, book)
<1>. DEFINE Body(g) == [n \in 0 .. rounds |-> IF n = 0 THEN first ELSE NextExit(g[n - 1], price)]
            run == CHOOSE h : h = Body(h)
            inv == [n \in 0 .. rounds |-> {x \in Runs : Looped(first, x, n, price, book)}]
            step == [n \in 1 .. rounds |-> [x \in Runs |-> NextExit(x, price)]]
<1>0. Loop(first, rounds, price) = run[rounds]
  BY DEF Loop
<1>. HIDE DEF run
<1>1. first \in inv[0]
  <2>1. /\ first \in Runs
        /\ first.lot \in Lot
        /\ first.lot.dir \in {1, -1}
        /\ first.lot.exits \in Seq(Leg)
        /\ first.position \in Int
        /\ first.lot.remaining \in Nat
    <3>1. first \in Runs /\ first.lot \in Lot /\ first.position \in Int
      BY DEF Covered, Runs
    <3>2. first.lot.remaining \in 0 .. first.lot.original
      BY DEF Covered
    <3>. QED BY <3>1, <3>2, LotFields
  <2>2. SameSignal(first.lot, first.lot)
    BY DEF SameSignal
  <2>3. Tightens(first.lot, first.lot)
    BY <2>1, FollowsItself DEF Tightens
  <2>4. first.position = first.position
           - first.lot.dir * (first.lot.remaining - first.lot.remaining)
    <3>1. first.lot.remaining - first.lot.remaining = 0
      BY <2>1
    <3>2. first.lot.dir * 0 = 0
      BY <2>1
    <3>. QED BY <2>1, <3>1, <3>2
  <2>5. Len(first.lot.exits) + 0 <= Len(first.lot.exits)
    BY <2>1
  <2>6. Looped(first, first, 0, price, book)
    BY <2>1, <2>2, <2>3, <2>4, <2>5 DEF Looped, Covered, Passed, Remembers
  <2>. QED BY <2>1, <2>6
<1>2. ASSUME NEW n \in 1 .. rounds, NEW x \in inv[n - 1]
      PROVE  NextExit(x, price) \in inv[n]
  <2>1. n - 1 \in 0 .. rounds /\ n \in 0 .. rounds /\ n - 1 \in Nat /\ n - 1 + 1 = n
    OBVIOUS
  <2>2. Looped(first, x, n - 1, price, book)
    BY <2>1
  <2>3. Looped(first, NextExit(x, price), n - 1 + 1, price, book)
    BY <2>1, <2>2, LoopGoesOn
  <2>4. Looped(first, NextExit(x, price), n, price, book)
    BY <2>1, <2>3
  <2>5. NextExit(x, price) \in Runs
    BY <2>4 DEF Looped
  <2>. QED BY <2>1, <2>4, <2>5
<1>3. inv \in [0 .. rounds -> SUBSET Runs]
  OBVIOUS
<1>4. Advances(rounds, inv, step)
  <2>1. ASSUME NEW n \in 1 .. rounds, NEW x \in inv[n - 1] PROVE step[n][x] \in inv[n]
    <3>1. x \in Runs
      <4>1. n - 1 \in 0 .. rounds
        OBVIOUS
      <4>. QED BY <4>1
    <3>2. step[n][x] = NextExit(x, price)
      BY <3>1
    <3>. QED BY <1>2, <3>2
  <2>. QED BY <2>1 DEF Advances
<1>5. PICK g : Guided(g, rounds, Runs, inv, first, step)
  <2>. HIDE DEF step, inv
  <2>. QED BY <1>1, <1>3, <1>4, GuidedRecursion
<1>6. g = Body(g)
  <2>1. \A n \in 1 .. rounds : g[n - 1] \in Runs
    <3>. HIDE DEF step, inv, Body
    <3>1. g \in [0 .. rounds -> Runs]
      BY <1>5 DEF Guided
    <3>2. \A n \in 1 .. rounds : n - 1 \in 0 .. rounds
      OBVIOUS
    <3>. QED BY <3>1, <3>2
  <2>2. \A n \in 1 .. rounds : g[n] = NextExit(g[n - 1], price)
    <3>1. \A n \in 1 .. rounds : g[n] = step[n][g[n - 1]]
      <4>. HIDE DEF step, inv
      <4>. QED BY <1>5 DEF Guided
    <3>2. \A n \in 1 .. rounds : \A x \in Runs : step[n][x] = NextExit(x, price)
      OBVIOUS
    <3>. HIDE DEF step
    <3>. QED BY <2>1, <3>1, <3>2
  <2>3. g \in [0 .. rounds -> Runs] /\ g[0] = first
    <3>. HIDE DEF step, inv
    <3>. QED BY <1>5 DEF Guided
  <2>. HIDE DEF step, inv
  <2>. QED BY <2>2, <2>3
<1>7. run = Body(run)
  <2>. HIDE DEF Body
  <2>. QED BY <1>6 DEF run
<1>8. run[0] = first /\ \A n \in 1 .. rounds : run[n] = NextExit(run[n - 1], price)
  <2>. HIDE DEF step, inv
  <2>1. \A n \in 0 .. rounds :
           run[n] = IF n = 0 THEN first ELSE NextExit(run[n - 1], price)
    BY <1>7, Zenon
  <2>. HIDE DEF Body
  <2>2. 0 \in 0 .. rounds /\ \A n \in 1 .. rounds : n \in 0 .. rounds /\ n # 0
    OBVIOUS
  <2>. QED BY <2>1, <2>2
<1>9. \A n \in 0 .. rounds : run[n] \in inv[n]
  <2>1. run[0] \in inv[0]
    BY <1>1, <1>8
  <2>2. \A n \in 1 .. rounds : run[n - 1] \in inv[n - 1] => run[n] \in inv[n]
    <3>. HIDE DEF inv
    <3>. QED BY <1>2, <1>8
  <2>. HIDE DEF inv
  <2>. QED BY <2>1, <2>2, GuidedInduction
<1>10. \A n \in 0 .. rounds : Looped(first, run[n], n, price, book)
  <2>. SUFFICES ASSUME NEW n \in 0 .. rounds PROVE Looped(first, run[n], n, price, book)
    OBVIOUS
  <2>1. run[n] \in inv[n]
    <3>. HIDE DEF inv
    <3>. QED BY <1>9
  <2>. QED BY <2>1
<1>. HIDE DEF step, inv, Body
<1>. QED BY <1>0, <1>8, <1>10

\* A lot that a mark comes to, with the position its book has then, and what has
\* been recorded so far.
Faced(before, i, book) ==
  /\ before.lots \in Seq(Lot)
  /\ before.position \in Int
  /\ before.fills \in Seq(Fills)
  /\ ReplayFills(book, before.fills).position = before.position
  /\ i \in DOMAIN before.lots
  /\ Fit(before.lots[i])
  /\ before.lots[i].remaining \in 0 .. before.lots[i].original
  /\ before.lots[i].dir * before.position >= before.lots[i].remaining

\* What the loop over its exits starts with.
Entered(before, i, price) ==
  [lot |-> Moved(before.lots[i], price), position |-> before.position,
   fills |-> before.fills, done |-> FALSE]

\* The loop over the exits of such a lot.
LEMMA LoopStarts ==
  ASSUME NEW before, NEW i, NEW book, Faced(before, i, book), NEW price \in Int, price > 0
  PROVE  LET first == Entered(before, i, price)
             rounds == Len(before.lots[i].exits) + 1
         IN  /\ Covered(first, book)
             /\ rounds \in Nat
             /\ rounds = Len(first.lot.exits) + 1
             /\ MarkLot(before, i, price) = Loop(first, rounds, price)
<1>. DEFINE lot == before.lots[i]
            moved == Moved(lot, price)
            first == Entered(before, i, price)
            rounds == Len(lot.exits) + 1
<1>1. Fit(moved) /\ SameLot(lot, moved) /\ DOMAIN moved.exits = DOMAIN lot.exits
  BY MovedLot DEF Faced, Moved
<1>4. MarkLot(before, i, price) = Loop(first, rounds, price)
  BY DEF MarkLot, Loop, Entered, Moved
<1>2. lot.exits \in Seq(Leg) /\ moved.exits \in Seq(Leg) /\ moved \in Lot /\ lot \in Lot
  <2>. HIDE DEF moved
  <2>. QED BY <1>1 DEF Faced, Fit, Lot
<1>. HIDE DEF moved, lot
<1>3. Len(moved.exits) = Len(lot.exits) /\ rounds \in Nat
  <2>1. DOMAIN moved.exits = 1 .. Len(moved.exits) /\ DOMAIN lot.exits = 1 .. Len(lot.exits)
        /\ Len(moved.exits) \in Nat /\ Len(lot.exits) \in Nat
    BY <1>2
  <2>. DEFINE a == Len(moved.exits)
              b == Len(lot.exits)
  <2>2. a \in Nat /\ b \in Nat /\ 1 .. a = 1 .. b
    BY <1>1, <2>1
  <2>. HIDE DEF a, b
  <2>3. a = b /\ b + 1 \in Nat
    BY <2>2
  <2>. QED BY <2>3 DEF a, b
<1>5. moved.remaining = lot.remaining /\ moved.original = lot.original /\ moved.dir = lot.dir
  BY <1>1 DEF SameLot
<1>6. /\ first \in Runs
      /\ first.lot = moved /\ first.position = before.position
      /\ first.fills = before.fills /\ ~first.done
  BY <1>2 DEF Runs, Entered, Faced, moved, lot
<1>. HIDE DEF first
<1>7. Covered(first, book)
  BY <1>1, <1>5, <1>6 DEF Covered, Faced, lot
<1>8. rounds = Len(first.lot.exits) + 1
  BY <1>3, <1>6
<1>. QED BY <1>3, <1>4, <1>7, <1>8 DEF first, lot

\* A lot after a mark (_close_lot's callers in update_price).
LEMMA LotMarked ==
  ASSUME NEW book \in BalancedBooks, NEW before, NEW i, Faced(before, i, book),
         NEW price \in Int, price > 0
  PROVE  MarkedLot(before.lots[i], before.position, MarkLot(before, i, price), price, book)
<1>. DEFINE lot == before.lots[i]
            moved == Moved(lot, price)
            first == Entered(before, i, price)
            rounds == Len(lot.exits) + 1
            run == MarkLot(before, i, price)
<1>1. /\ Fit(lot)
      /\ Fit(moved)
      /\ SameLot(lot, moved)
      /\ Tightens(lot, moved)
      /\ Legs(moved, "trailing_stop") = Legs(lot, "trailing_stop")
  BY MovedLot DEF Faced, Moved
<1>2. /\ Covered(first, book)
      /\ rounds \in Nat
      /\ rounds = Len(first.lot.exits) + 1
      /\ run = Loop(first, rounds, price)
  BY LoopStarts
<1>3. first.lot = moved /\ first.position = before.position
  BY DEF Entered
<1>. HIDE DEF run, first, rounds
<1>4. Looped(first, run, rounds, price, book)
  <2>1. PICK r : /\ Loop(first, rounds, price) = r[rounds]
                 /\ \A n \in 0 .. rounds : Looped(first, r[n], n, price, book)
    BY <1>2, LoopRuns
  <2>2. rounds \in 0 .. rounds
    BY <1>2
  <2>. QED BY <1>2, <2>1, <2>2
<1>5. moved.remaining = lot.remaining /\ moved.dir = lot.dir
  BY <1>1 DEF SameLot
<1>. HIDE DEF moved, lot
<1>6. /\ run \in Runs
      /\ Fit(run.lot)
      /\ SameSignal(moved, run.lot)
      /\ Tightens(moved, run.lot)
      /\ Passed(moved, run.lot)
      /\ run.lot.remaining \in 0 .. lot.remaining
      /\ run.position = before.position - lot.dir * (lot.remaining - run.lot.remaining)
      /\ ReplayFills(book, run.fills).position = run.position
  BY <1>3, <1>4, <1>5 DEF Looped
<1>7. SameSignal(lot, run.lot) /\ SameSignal(lot, moved)
  BY <1>1, <1>6 DEF SameSignal, SameLot
<1>8. Tightens(lot, run.lot)
  BY <1>1, <1>6, <1>7, TightensIsTransitive
<1>9. Ended(run, price)
  <2>1. ~(Len(run.lot.exits) + rounds <= Len(first.lot.exits))
    <3>1. Len(run.lot.exits) \in Nat /\ Len(first.lot.exits) \in Nat
      <4>1. run.lot.exits \in Seq(Leg) /\ first.lot.exits \in Seq(Leg)
        BY <1>1, <1>3, <1>6 DEF Fit, Lot
      <4>. QED BY <4>1
    <3>. DEFINE a == Len(run.lot.exits)
                b == Len(first.lot.exits)
    <3>2. a \in Nat /\ b \in Nat /\ rounds = b + 1
      BY <1>2, <3>1
    <3>. HIDE DEF a, b
    <3>3. ~(a + rounds <= b)
      BY <3>2
    <3>. QED BY <3>3 DEF a, b
  <2>. QED BY <1>4, <2>1 DEF Looped
<1>10. \/ run.lot.remaining = 0
       \/ /\ Legs(lot, "trailing_stop") # {}
          /\ Legs(run.lot, "trailing_stop") = {}
       \/ ~Triggers(run.lot, price)
  BY <1>1, <1>3, <1>4, <1>9 DEF Looped, Ended
<1>11. MarkedLot(lot, before.position, run, price, book)
  BY <1>6, <1>7, <1>8, <1>10 DEF MarkedLot, TakenFrom, moved
<1>. QED BY <1>11 DEF run, lot

\* What a round makes of a lot of which it takes so much.
Round(lot, taken, price) ==
  LET leg == TriggeredExit(lot, price)
      closed == [lot EXCEPT !.remaining = @ - taken]
      filled == [closed EXCEPT !.exits = WithoutLeg(@, leg)]
  IN  IF closed.remaining = 0 THEN [closed EXCEPT !.exits = <<>>]
      ELSE IF TriggeredKind(lot, leg) = "take_profit"
      THEN LockAfterTp(ReleaseTrailing([filled EXCEPT !.tpFilled = TRUE], price))
      ELSE IF TriggeredKind(lot, leg) = "trailing_stop" THEN filled
      ELSE closed

\* What a round makes of a lot that the position covers does not depend on the rest
\* of the position.
LEMMA RoundsAlike ==
  ASSUME NEW a \in Runs, NEW b \in Runs, a.lot = b.lot, a.done = b.done,
         a.lot.remaining \in 0 .. a.lot.original,
         a.lot.dir * a.position >= a.lot.remaining,
         b.lot.dir * b.position >= b.lot.remaining,
         NEW price
  PROVE  /\ NextExit(a, price).lot = NextExit(b, price).lot
         /\ NextExit(a, price).done = NextExit(b, price).done
<1>. DEFINE lot == a.lot
            quantity == ExitQuantity(lot, TriggeredExit(lot, price))
<1>1. /\ lot \in Lot
      /\ lot.dir \in {1, -1}
      /\ lot.remaining \in Nat
      /\ a.position \in Int /\ b.position \in Int
  <2>1. lot \in Lot /\ a.position \in Int /\ b.position \in Int
    BY DEF Runs
  <2>. QED BY <2>1, LotFields
<1>2. quantity \in 0 .. lot.remaining
  <2>1. lot.original \in Nat
    BY <1>1, LotFields
  <2>. QED BY <1>1, <2>1, QuantityOfExit
<1>. HIDE DEF quantity
<1>3. ASSUME NEW held \in Int, lot.dir * held >= lot.remaining
      PROVE  Taken(lot, held, quantity) = quantity
  <2>1. CASE lot.dir = 1
    BY <1>1, <1>2, <1>3, <2>1 DEF Taken, Held, Least
  <2>2. CASE lot.dir = -1
    BY <1>1, <1>2, <1>3, <2>2 DEF Taken, Held, Least
  <2>. QED BY <1>1, <2>1, <2>2
<1>4. Taken(lot, a.position, quantity) = Taken(lot, b.position, quantity)
  BY <1>1, <1>3
<1>. HIDE DEF lot
<1>5. Taken(a.lot, a.position, ExitQuantity(a.lot, TriggeredExit(a.lot, price)))
        = Taken(b.lot, b.position, ExitQuantity(b.lot, TriggeredExit(b.lot, price)))
  BY <1>4 DEF lot, quantity
<1>6. ASSUME NEW run \in Runs
      PROVE  LET taken == Taken(run.lot, run.position,
                                ExitQuantity(run.lot, TriggeredExit(run.lot, price)))
             IN  IF Ended(run, price) THEN NextExit(run, price) = run
                 ELSE /\ NextExit(run, price).lot = Round(run.lot, taken, price)
                      /\ NextExit(run, price).done
                           = EndsLoop(TriggeredKind(run.lot, TriggeredExit(run.lot, price)))
  BY DEF NextExit, Ended, Round
<1>7. Ended(a, price) <=> Ended(b, price)
  BY DEF Ended
<1>. QED BY <1>5, <1>6, <1>7

\* The loop leaves the same of a lot, whatever else the position holds.
LEMMA LoopsAlike ==
  ASSUME NEW book \in BalancedBooks, NEW price \in Int, price > 0,
         NEW a, Covered(a, book), NEW b, Covered(b, book), a.lot = b.lot,
         NEW rounds \in Nat, rounds = Len(a.lot.exits) + 1
  PROVE  Loop(a, rounds, price).lot = Loop(b, rounds, price).lot
<1>1. PICK r : /\ Loop(a, rounds, price) = r[rounds]
               /\ r[0] = a
               /\ \A n \in 1 .. rounds : r[n] = NextExit(r[n - 1], price)
               /\ \A n \in 0 .. rounds : Looped(a, r[n], n, price, book)
  BY LoopRuns
<1>2. PICK s : /\ Loop(b, rounds, price) = s[rounds]
               /\ s[0] = b
               /\ \A n \in 1 .. rounds : s[n] = NextExit(s[n - 1], price)
               /\ \A n \in 0 .. rounds : Looped(b, s[n], n, price, book)
  BY LoopRuns
<1>. DEFINE T == {n \in 0 .. rounds : r[n].lot = s[n].lot /\ r[n].done = s[n].done}
<1>3. 0 \in T
  <2>1. a.done = b.done
    BY DEF Covered, Runs
  <2>2. r[0].lot = s[0].lot /\ r[0].done = s[0].done
    BY <1>1, <1>2, <2>1
  <2>. QED BY <2>2
<1>4. ASSUME NEW n \in 1 .. rounds, n - 1 \in T PROVE n \in T
  <2>1. n - 1 \in 0 .. rounds /\ n \in 0 .. rounds
    OBVIOUS
  <2>2. Looped(a, r[n - 1], n - 1, price, book) /\ Looped(b, s[n - 1], n - 1, price, book)
    BY <1>1, <1>2, <2>1
  <2>3. /\ r[n - 1].lot.remaining \in 0 .. r[n - 1].lot.original
        /\ r[n - 1].lot.dir * r[n - 1].position >= r[n - 1].lot.remaining
        /\ s[n - 1].lot.dir * s[n - 1].position >= s[n - 1].lot.remaining
    BY <2>2, LoopCovers
  <2>4. r[n - 1] \in Runs /\ s[n - 1] \in Runs
    BY <2>2 DEF Looped
  <2>5. /\ NextExit(r[n - 1], price).lot = NextExit(s[n - 1], price).lot
        /\ NextExit(r[n - 1], price).done = NextExit(s[n - 1], price).done
    BY <1>4, <2>3, <2>4, RoundsAlike
  <2>. QED BY <1>1, <1>2, <2>1, <2>5
<1>5. \A n \in 0 .. rounds : n \in T
  <2>. HIDE DEF T
  <2>. QED BY <1>3, <1>4, IntervalInduction
<1>6. rounds \in T
  <2>. HIDE DEF T
  <2>. QED BY <1>5
<1>. QED BY <1>1, <1>2, <1>6

\* A mark leaves the same of a lot in every book whose position covers it.
LEMMA MarksAlike ==
  ASSUME NEW book \in BalancedBooks, NEW price \in Int, price > 0,
         NEW a, NEW i, Faced(a, i, book), NEW b, NEW j, Faced(b, j, book),
         a.lots[i] = b.lots[j]
  PROVE  MarkLot(a, i, price).lot = MarkLot(b, j, price).lot
<1>. DEFINE first == Entered(a, i, price)
            other == Entered(b, j, price)
            rounds == Len(a.lots[i].exits) + 1
<1>1. /\ Covered(first, book)
      /\ rounds \in Nat
      /\ rounds = Len(first.lot.exits) + 1
      /\ MarkLot(a, i, price) = Loop(first, rounds, price)
  BY LoopStarts
<1>2. Covered(other, book) /\ MarkLot(b, j, price) = Loop(other, rounds, price)
  BY LoopStarts
<1>3. first.lot = other.lot
  BY DEF Entered
<1>. HIDE DEF first, other, rounds
<1>. QED BY <1>1, <1>2, <1>3, LoopsAlike

-----------------------------------------------------------------------------
(***************************************************************************)
(* A mark visits the lots one after the other.                             *)
(***************************************************************************)

\* A lot that a mark finds in order: open, on the side of the others.
Markable(book) ==
  /\ LotsOK(book)
  /\ OneSided(book)
  /\ \A i \in DOMAIN book : Fit(book[i])

\* A mark has exhausted the exits of a lot.
Exhausted(lot, after, price) ==
  \/ after.remaining = 0
  \/ /\ Legs(lot, "trailing_stop") # {}
     /\ Legs(after, "trailing_stop") = {}
  \/ ~Triggers(after, price)

\* What a mark leaves of a lot.
Less(lot, after) ==
  /\ Fit(after)
  /\ SameSignal(lot, after)
  /\ Tightens(lot, after)
  /\ after.remaining \in 0 .. lot.remaining

\* A lot, and nothing else, with the position of a book.
Single(lot, book) == [lots |-> <<lot>>, position |-> book.position, fills |-> <<>>]

\* What a mark leaves of such a lot.
Alone(lot, book, price) == MarkLot(Single(lot, book), 1, price).lot

\* Nothing recorded replays nothing.
LEMMA NoFills ==
  ASSUME NEW book \in BalancedBooks
  PROVE  ReplayFills(book, <<>>) = book
<1>1. <<>> \in Seq(Fills) /\ [dir |-> 1, quantity |-> 0] \in Fills
  BY DEF Fills
<1>. QED BY <1>1, ReplayFillsAppended

\* A lot of a book comes to a mark alone as it does among the others.
LEMMA SingleFaced ==
  ASSUME NEW book \in BalancedBooks, NEW lots0, Markable(lots0),
         book.position = Exposure(lots0), NEW i \in DOMAIN lots0
  PROVE  /\ Faced(Single(lots0[i], book), 1, book)
         /\ Single(lots0[i], book).lots[1] = lots0[i]
<1>. DEFINE lot == lots0[i]
            before == Single(lot, book)
<1>1. /\ lots0 \in Seq(Lot)
      /\ Within(lots0)
      /\ OneSided(lots0)
      /\ lot \in Lot
      /\ Fit(lot)
      /\ lot.remaining \in 0 .. lot.original
  BY LotsOKIsWithin DEF Markable, LotsOK, WellFormed, Within
<1>2. /\ lot.dir \in {1, -1}
      /\ Exposure(lots0) = lot.dir * OpenQuantity(lots0, lot.dir)
      /\ OpenQuantity(lots0, lot.dir) \in Nat
      /\ lot.remaining <= OpenQuantity(lots0, lot.dir)
  BY <1>1, LotsOfOneSide
<1>3. /\ <<lot>> \in Seq(Lot) /\ <<>> \in Seq(Fills)
      /\ 1 \in DOMAIN <<lot>> /\ <<lot>>[1] = lot
  BY <1>1
<1>. HIDE DEF lot
<1>4. book.position \in Int /\ lot.dir * book.position >= lot.remaining
  <2>1. lot.remaining \in Int
    BY <1>1 DEF Lot
  <2>2. CASE lot.dir = 1
    BY <1>2, <2>1, <2>2
  <2>3. CASE lot.dir = -1
    BY <1>2, <2>1, <2>3
  <2>. QED BY <1>2, <2>2, <2>3
<1>5. before.lots = <<lot>> /\ before.position = book.position /\ before.fills = <<>>
  BY DEF Single
<1>. HIDE DEF before
<1>6. Faced(before, 1, book) /\ before.lots[1] = lot
  BY <1>1, <1>3, <1>4, <1>5, NoFills DEF Faced
<1>. QED BY <1>6 DEF before, lot

\* What a mark has done when it has visited some of the lots.
Visits == [lots : Seq(Lot), position : Int, fills : Seq(Fills)]

\* How far a mark can be when it has visited the first n lots.
Visiting(before, v, n, price, book) ==
  /\ v \in Visits
  /\ DOMAIN v.lots = DOMAIN before
  /\ \A i \in DOMAIN before : Less(before[i], v.lots[i])
  /\ \A i \in DOMAIN before : i <= n => /\ Exhausted(before[i], v.lots[i], price)
                                       /\ v.lots[i] = Alone(before[i], book, price)
  /\ \A i \in DOMAIN before : i > n => v.lots[i] = before[i]
  /\ v.position = Exposure(v.lots)
  /\ \A dir \in {1, -1} : OpenQuantity(v.lots, dir) <= OpenQuantity(before, dir)
  /\ ReplayFills(book, v.fills).position = v.position

\* A lot the mark has not visited.
LEMMA LessThanItself ==
  ASSUME NEW lot, Fit(lot), lot.remaining \in Nat
  PROVE  Less(lot, lot)
<1>1. Tightens(lot, lot)
  BY FollowsItself DEF Tightens, Fit
<1>. QED BY <1>1 DEF Less, SameSignal

\* The lots during a mark, closed ones among them.
LEMMA VisitedLots ==
  ASSUME NEW before, Markable(before), NEW v, v \in Seq(Lot),
         DOMAIN v = DOMAIN before, \A i \in DOMAIN before : Less(before[i], v[i])
  PROVE  Within(v) /\ OneSided(v)
<1>1. ASSUME NEW i \in DOMAIN v
      PROVE  OneEach(v[i]) /\ v[i].remaining \in 0 .. v[i].original
  <2>1. /\ OneEach(v[i])
        /\ v[i].original = before[i].original
        /\ v[i].remaining \in 0 .. before[i].remaining
    BY DEF Less, Fit, SameSignal
  <2>2. before[i].remaining \in 1 .. before[i].original /\ before[i] \in Lot
    BY DEF Markable, LotsOK, Fit
  <2>3. before[i].remaining \in Int /\ before[i].original \in Int
    BY <2>2, LotFields
  <2>. QED BY <2>1, <2>2, <2>3
<1>2. \A i, j \in DOMAIN v : v[i].id = v[j].id => i = j
  BY DEF Less, SameSignal, Markable, LotsOK, WellFormed
<1>3. OneSided(v)
  BY DEF Less, SameSignal, Markable, OneSided
<1>. QED BY <1>1, <1>2, <1>3 DEF Within, WellFormed

\* What a lot less of its quantity does to the sums of its book.
LEMMA VisitedSums ==
  ASSUME NEW lots0 \in Seq(Lot), NEW i \in DOMAIN lots0, NEW lot \in Lot,
         lots0[i].dir \in {1, -1}, lot.dir = lots0[i].dir,
         lots0[i].remaining \in Nat, lot.remaining \in 0 .. lots0[i].remaining
  PROVE  LET after == [lots0 EXCEPT ![i] = lot]
         IN  /\ \A dir \in {1, -1} : OpenQuantity(after, dir) <= OpenQuantity(lots0, dir)
             /\ TakenFrom(lots0[i].dir, Exposure(lots0), lots0[i].remaining,
                          Exposure(after), lot.remaining)
<1>. DEFINE after == [lots0 EXCEPT ![i] = lot]
            dir == lots0[i].dir
            gone == lots0[i].remaining - lot.remaining
<1>1. gone \in Nat /\ dir \in {1, -1}
  OBVIOUS
<1>2. ASSUME NEW d \in {1, -1}
      PROVE  /\ OpenQuantity(lots0, d) \in Int
             /\ OpenQuantity(after, d)
                  = IF d = dir THEN OpenQuantity(lots0, d) - gone ELSE OpenQuantity(lots0, d)
  <2>1. OpenQuantity(lots0, d) \in Int
    BY OpenQuantityIsSum
  <2>2. OpenQuantity(after, d) = OpenQuantity(lots0, d) + Holds(lot, d) - Holds(lots0[i], d)
    BY SumReplaced
  <2>3. CASE d = dir
    <3>1. Holds(lot, d) = lot.remaining /\ Holds(lots0[i], d) = lots0[i].remaining
      BY <2>3 DEF Holds
    <3>. HIDE DEF after
    <3>. QED BY <2>1, <2>2, <2>3, <3>1
  <2>4. CASE d # dir
    <3>1. Holds(lot, d) = 0 /\ Holds(lots0[i], d) = 0
      BY <2>4 DEF Holds
    <3>. HIDE DEF after
    <3>. QED BY <2>1, <2>2, <2>4, <3>1
  <2>. QED BY <2>1, <2>3, <2>4
<1>3. lots0[i].remaining - lot.remaining = gone
  OBVIOUS
<1>. HIDE DEF after, gone, dir
<1>4. \A d \in {1, -1} : OpenQuantity(after, d) <= OpenQuantity(lots0, d)
  BY <1>1, <1>2
<1>5. Exposure(after) = Exposure(lots0) - dir * gone
  <2>0. OpenQuantity(lots0, 1) \in Int /\ OpenQuantity(lots0, -1) \in Int
    BY <1>2
  <2>1. CASE dir = 1
    <3>1. /\ OpenQuantity(after, 1) = OpenQuantity(lots0, 1) - gone
          /\ OpenQuantity(after, -1) = OpenQuantity(lots0, -1)
      BY <1>2, <2>1
    <3>. QED BY <1>1, <2>0, <2>1, <3>1 DEF Exposure
  <2>2. CASE dir = -1
    <3>1. /\ OpenQuantity(after, -1) = OpenQuantity(lots0, -1) - gone
          /\ OpenQuantity(after, 1) = OpenQuantity(lots0, 1)
      BY <1>2, <2>2
    <3>. QED BY <1>1, <2>0, <2>2, <3>1 DEF Exposure
  <2>. QED BY <1>1, <2>1, <2>2
<1>. QED BY <1>3, <1>4, <1>5 DEF TakenFrom, after, dir

\* A mark visits the next lot.
LEMMA VisitGoesOn ==
  ASSUME NEW book \in BalancedBooks, NEW price \in Int, price > 0,
         NEW before, Markable(before), book.position = Exposure(before),
         NEW n \in DOMAIN before, NEW v, Visiting(before, v, n - 1, price, book)
  PROVE  LET run == MarkLot(v, n, price)
         IN  Visiting(before, [lots |-> [v.lots EXCEPT ![n] = run.lot],
                               position |-> run.position, fills |-> run.fills],
                      n, price, book)
<1>. DEFINE run == MarkLot(v, n, price)
            new == [v.lots EXCEPT ![n] = run.lot]
            w == [lots |-> new, position |-> run.position, fills |-> run.fills]
<1>1. /\ v \in Visits
      /\ DOMAIN v.lots = DOMAIN before
      /\ \A i \in DOMAIN before : Less(before[i], v.lots[i])
      /\ v.lots[n] = before[n]
      /\ v.position = Exposure(v.lots)
      /\ v.lots \in Seq(Lot) /\ v.position \in Int /\ v.fills \in Seq(Fills)
      /\ ReplayFills(book, v.fills).position = v.position
  <2>1. n > n - 1
    <3>1. before \in Seq(Lot)
      BY DEF Markable, LotsOK, WellFormed
    <3>. QED BY <3>1
  <2>. QED BY <2>1 DEF Visiting, Visits
<1>2. Within(v.lots) /\ OneSided(v.lots)
  BY <1>1, VisitedLots
<1>3. /\ before[n] \in Lot
      /\ Fit(before[n])
      /\ before[n].dir \in {1, -1}
      /\ before[n].remaining \in Nat
      /\ before[n].remaining \in 0 .. before[n].original
  <2>1. Fit(before[n]) /\ before[n] \in Lot /\ before[n].remaining \in 1 .. before[n].original
    BY DEF Markable, LotsOK, Fit
  <2>2. before[n].dir \in {1, -1} /\ before[n].original \in Int /\ before[n].remaining \in Int
    BY <2>1, LotFields
  <2>. QED BY <2>1, <2>2
<1>4. before[n].dir * v.position >= before[n].remaining
  <2>1. /\ Exposure(v.lots) = before[n].dir * OpenQuantity(v.lots, before[n].dir)
        /\ OpenQuantity(v.lots, before[n].dir) \in Nat
        /\ before[n].remaining <= OpenQuantity(v.lots, before[n].dir)
    BY <1>1, <1>2, LotsOfOneSide
  <2>2. CASE before[n].dir = 1
    BY <1>1, <1>3, <2>1, <2>2
  <2>3. CASE before[n].dir = -1
    BY <1>1, <1>3, <2>1, <2>3
  <2>. QED BY <1>3, <2>2, <2>3
<1>15. Faced(v, n, book)
  BY <1>1, <1>3, <1>4 DEF Faced
<1>5. MarkedLot(before[n], v.position, run, price, book)
  BY <1>1, <1>15, LotMarked
<1>16. run.lot = Alone(before[n], book, price)
  <2>1. Faced(Single(before[n], book), 1, book) /\ Single(before[n], book).lots[1] = before[n]
    BY SingleFaced
  <2>. QED BY <1>1, <1>15, <2>1, MarksAlike DEF Alone
<1>. HIDE DEF run
<1>6. /\ run \in Runs /\ run.lot \in Lot /\ run.position \in Int /\ run.fills \in Seq(Fills)
      /\ Less(before[n], run.lot)
      /\ Exhausted(before[n], run.lot, price)
      /\ TakenFrom(before[n].dir, v.position, before[n].remaining, run.position,
                   run.lot.remaining)
      /\ ReplayFills(book, run.fills).position = run.position
  BY <1>5 DEF MarkedLot, Runs, Less, Exhausted
<1>7. /\ new \in Seq(Lot)
      /\ DOMAIN new = DOMAIN before
      /\ \A i \in DOMAIN before : new[i] = IF i = n THEN run.lot ELSE v.lots[i]
  BY <1>1, <1>6
<1>8. /\ \A dir \in {1, -1} : OpenQuantity(new, dir) <= OpenQuantity(v.lots, dir)
      /\ TakenFrom(before[n].dir, Exposure(v.lots), before[n].remaining, Exposure(new),
                   run.lot.remaining)
  <2>1. run.lot.dir = before[n].dir /\ run.lot.remaining \in 0 .. before[n].remaining
    BY <1>6 DEF Less, SameSignal
  <2>. QED BY <1>1, <1>3, <1>6, <2>1, VisitedSums
<1>. HIDE DEF new
<1>9. run.position = Exposure(new)
  BY <1>1, <1>6, <1>8 DEF TakenFrom
<1>10. \A dir \in {1, -1} : OpenQuantity(new, dir) <= OpenQuantity(before, dir)
  <2>1. ASSUME NEW dir \in {1, -1} PROVE OpenQuantity(new, dir) <= OpenQuantity(before, dir)
    <3>1. /\ OpenQuantity(new, dir) <= OpenQuantity(v.lots, dir)
          /\ OpenQuantity(v.lots, dir) <= OpenQuantity(before, dir)
      BY <1>8 DEF Visiting
    <3>2. before \in Seq(Lot)
      BY DEF Markable, LotsOK, WellFormed
    <3>3. /\ OpenQuantity(new, dir) \in Int
          /\ OpenQuantity(v.lots, dir) \in Int
          /\ OpenQuantity(before, dir) \in Int
      BY <1>1, <1>7, <3>2, OpenQuantityIsSum
    <3>. QED BY <3>1, <3>3
  <2>. QED BY <2>1
<1>11. ASSUME NEW i \in DOMAIN before
       PROVE  /\ Less(before[i], new[i])
              /\ i <= n => /\ Exhausted(before[i], new[i], price)
                           /\ new[i] = Alone(before[i], book, price)
              /\ i > n => new[i] = before[i]
  <2>1. CASE i = n
    <3>1. i \in Int
      <4>1. before \in Seq(Lot)
        BY DEF Markable, LotsOK, WellFormed
      <4>. QED BY <4>1
    <3>. QED BY <1>6, <1>7, <1>16, <2>1, <3>1
  <2>2. CASE i # n
    <3>1. i \in Int /\ n \in Int
      <4>1. before \in Seq(Lot)
        BY DEF Markable, LotsOK, WellFormed
      <4>. QED BY <4>1
    <3>2. (i <= n => i <= n - 1) /\ (i > n => i > n - 1)
      BY <2>2, <3>1
    <3>. QED BY <1>1, <1>7, <2>2, <3>2 DEF Visiting
  <2>. QED BY <2>1, <2>2
<1>12. w \in Visits
  BY <1>6, <1>7 DEF Visits
<1>13. w.lots = new /\ w.position = run.position /\ w.fills = run.fills
  OBVIOUS
<1>. HIDE DEF w
<1>14. Visiting(before, w, n, price, book)
  BY <1>6, <1>7, <1>9, <1>10, <1>11, <1>12, <1>13 DEF Visiting
<1>. QED BY <1>14 DEF w, new, run

\* A book a mark can be applied to, and a book that replays to its position.
Ready(before, book) ==
  /\ before \in [lots : Seq(Lot), position : Int]
  /\ Markable(before.lots)
  /\ before.position = Exposure(before.lots)
  /\ book \in BalancedBooks
  /\ book.position = before.position

\* Before a mark visits the first lot.
LEMMA VisitStarts ==
  ASSUME NEW before, NEW book, Ready(before, book), NEW price
  PROVE  Visiting(before.lots,
                  [lots |-> before.lots, position |-> before.position, fills |-> <<>>],
                  0, price, book)
<1>. DEFINE v == [lots |-> before.lots, position |-> before.position, fills |-> <<>>]
<1>1. /\ before.lots \in Seq(Lot)
      /\ before.position \in Int
      /\ Markable(before.lots)
      /\ book \in BalancedBooks
  BY DEF Ready
<1>2. v \in Visits
  <2>1. <<>> \in Seq(Fills)
    OBVIOUS
  <2>. QED BY <1>1, <2>1 DEF Visits
<1>3. ASSUME NEW i \in DOMAIN before.lots PROVE Less(before.lots[i], before.lots[i])
  <2>1. Fit(before.lots[i]) /\ before.lots[i] \in Lot
        /\ before.lots[i].remaining \in 1 .. before.lots[i].original
    BY <1>1 DEF Markable, LotsOK, Fit
  <2>2. before.lots[i].original \in Int
    BY <2>1, LotFields
  <2>3. before.lots[i].remaining \in Nat
    BY <2>1, <2>2
  <2>. QED BY <2>1, <2>3, LessThanItself
<1>4. \A i \in DOMAIN before.lots : ~(i <= 0) /\ i > 0
  BY <1>1
<1>5. \A dir \in {1, -1} : OpenQuantity(before.lots, dir) <= OpenQuantity(before.lots, dir)
  BY <1>1, OpenQuantityIsSum
<1>6. ReplayFills(book, <<>>) = book
  BY <1>1, NoFills
<1>7. v.lots = before.lots /\ v.position = before.position /\ v.fills = <<>>
  OBVIOUS
<1>. HIDE DEF v
<1>8. Visiting(before.lots, v, 0, price, book)
  BY <1>2, <1>3, <1>4, <1>5, <1>6, <1>7 DEF Visiting, Ready
<1>. QED BY <1>8 DEF v

\* A mark that has visited every lot.
LEMMA VisitEnds ==
  ASSUME NEW before, NEW book, Ready(before, book), NEW price \in Int, price > 0
  PROVE  Visiting(before.lots, Visited(before, price)[Len(before.lots)],
                  Len(before.lots), price, book)
<1>. DEFINE N == Len(before.lots)
            start == [lots |-> before.lots, position |-> before.position, fills |-> <<>>]
            Visit(n, x) == [lots |-> [x.lots EXCEPT ![n] = MarkLot(x, n, price).lot],
                            position |-> MarkLot(x, n, price).position,
                            fills |-> MarkLot(x, n, price).fills]
            Body(g) == [n \in 0 .. N |-> IF n = 0 THEN start ELSE Visit(n, g[n - 1])]
            after == CHOOSE h : h = Body(h)
            inv == [n \in 0 .. N |-> {x \in Visits : Visiting(before.lots, x, n, price, book)}]
            step == [n \in 1 .. N |-> [x \in Visits |-> Visit(n, x)]]
<1>0. Visited(before, price) = after
  BY DEF Visited
<1>1. /\ before.lots \in Seq(Lot)
      /\ N \in Nat
      /\ DOMAIN before.lots = 1 .. N
      /\ Markable(before.lots)
      /\ book \in BalancedBooks
      /\ book.position = Exposure(before.lots)
  BY DEF Ready
<1>2. start \in inv[0]
  <2>1. Visiting(before.lots, start, 0, price, book)
    BY VisitStarts
  <2>2. start \in Visits
    <3>. HIDE DEF start
    <3>. QED BY <2>1 DEF Visiting
  <2>. HIDE DEF start
  <2>. QED BY <1>1, <2>1, <2>2
<1>3. ASSUME NEW n \in 1 .. N, NEW x \in inv[n - 1]
      PROVE  Visit(n, x) \in inv[n]
  <2>1. n - 1 \in 0 .. N /\ n \in 0 .. N /\ n \in DOMAIN before.lots
    BY <1>1
  <2>2. Visiting(before.lots, x, n - 1, price, book)
    BY <2>1
  <2>3. Visiting(before.lots, Visit(n, x), n, price, book)
    BY <1>1, <2>1, <2>2, VisitGoesOn
  <2>. HIDE DEF Visit
  <2>4. Visit(n, x) \in Visits
    BY <2>3 DEF Visiting
  <2>. QED BY <2>1, <2>3, <2>4
<1>. HIDE DEF Visit, start, N, after
<1>4. inv \in [0 .. N -> SUBSET Visits]
  OBVIOUS
<1>5. Advances(N, inv, step)
  <2>1. ASSUME NEW n \in 1 .. N, NEW x \in inv[n - 1] PROVE step[n][x] \in inv[n]
    <3>1. x \in Visits
      <4>1. n - 1 \in 0 .. N
        BY <1>1
      <4>. QED BY <4>1
    <3>2. step[n][x] = Visit(n, x)
      BY <3>1
    <3>. QED BY <1>3, <3>2
  <2>. QED BY <2>1 DEF Advances
<1>6. PICK g : Guided(g, N, Visits, inv, start, step)
  <2>. HIDE DEF step, inv
  <2>. QED BY <1>1, <1>2, <1>4, <1>5, GuidedRecursion
<1>7. g = Body(g)
  <2>1. g \in [0 .. N -> Visits] /\ g[0] = start
        /\ \A n \in 1 .. N : g[n] = step[n][g[n - 1]]
    <3>. HIDE DEF step, inv
    <3>. QED BY <1>6 DEF Guided
  <2>2. \A n \in 1 .. N : g[n - 1] \in Visits
    <3>. HIDE DEF step, inv
    <3>. QED BY <1>1, <2>1
  <2>3. \A n \in 1 .. N : \A x \in Visits : step[n][x] = Visit(n, x)
    OBVIOUS
  <2>. HIDE DEF step, inv
  <2>. QED BY <1>1, <2>1, <2>2, <2>3
<1>8. after = Body(after)
  <2>. HIDE DEF Body
  <2>. QED BY <1>7 DEF after
<1>9. after[0] = start /\ \A n \in 1 .. N : after[n] = Visit(n, after[n - 1])
  <2>. HIDE DEF step, inv
  <2>. QED BY <1>1, <1>8
<1>10. \A n \in 0 .. N : after[n] \in inv[n]
  <2>. HIDE DEF inv
  <2>1. after[0] \in inv[0]
    BY <1>2, <1>9
  <2>2. \A n \in 1 .. N : after[n - 1] \in inv[n - 1] => after[n] \in inv[n]
    BY <1>3, <1>9
  <2>. QED BY <1>1, <2>1, <2>2, GuidedInduction
<1>11. after[N] \in inv[N]
  <2>. HIDE DEF inv
  <2>. QED BY <1>1, <1>10
<1>12. Visiting(before.lots, after[N], N, price, book)
  BY <1>1, <1>11
<1>. QED BY <1>0, <1>12 DEF N

\* Of exposure to exposure: on its side of zero and no larger.
Shrinks(before, after) == after * before >= 0 /\ after * after <= before * before

\* Holding less on the one side that is held.
LEMMA SideShrinks ==
  ASSUME NEW dir \in {1, -1}, NEW before \in Nat, NEW after \in Nat, after <= before
  PROVE  Shrinks(dir * before, dir * after)
<1>1. after * before >= 0
  OBVIOUS
<1>2. after * after <= after * before
  OBVIOUS
<1>3. after * before <= before * before
  OBVIOUS
<1>4. after * after <= before * before
  BY <1>2, <1>3
<1>5. CASE dir = 1
  <2>1. dir * before = before /\ dir * after = after
    BY <1>5
  <2>. QED BY <1>1, <1>4, <2>1 DEF Shrinks
<1>6. CASE dir = -1
  <2>1. dir * before = -before /\ dir * after = -after
    BY <1>6
  <2>2. (-after) * (-before) = after * before
    OBVIOUS
  <2>3. (-after) * (-after) = after * after /\ (-before) * (-before) = before * before
    OBVIOUS
  <2>. QED BY <1>1, <1>4, <2>1, <2>2, <2>3 DEF Shrinks
<1>. QED BY <1>5, <1>6

\* What is left after a mark, and where it comes from.
LeftBy(before, after, price) ==
  \A j \in DOMAIN after : \E i \in DOMAIN before :
     /\ Less(before[i], after[j])
     /\ after[j].remaining # 0
     /\ Exhausted(before[i], after[j], price)

\* A whole mark (update_price).
LEMMA BookMarked ==
  ASSUME NEW before, NEW book, Ready(before, book), before.position # 0,
         NEW price \in Int, price > 0
  PROVE  LET after == Marked(before, price)
         IN  /\ after.lots \in Seq(Lot)
             /\ after.position \in Int
             /\ Markable(after.lots)
             /\ after.position = Exposure(after.lots)
             /\ ReplayFills(book, after.fills) \in BalancedBooks
             /\ ReplayFills(book, after.fills).position = after.position
             /\ Shrinks(before.position, after.position)
             /\ LeftBy(before.lots, after.lots, price)
<1>. DEFINE v == Visited(before, price)[Len(before.lots)]
            after == Marked(before, price)
            s == before.lots
            t == v.lots
<1>1. Visiting(s, v, Len(s), price, book)
  BY VisitEnds
<1>2. after = [v EXCEPT !.lots = Open(t)]
  BY DEF Marked
<1>. HIDE DEF v, after
<1>3. /\ v \in Visits /\ t \in Seq(Lot) /\ v.position \in Int /\ v.fills \in Seq(Fills)
      /\ DOMAIN t = DOMAIN s
      /\ \A i \in DOMAIN s : Less(s[i], t[i])
      /\ v.position = Exposure(t)
      /\ \A dir \in {1, -1} : OpenQuantity(t, dir) <= OpenQuantity(s, dir)
      /\ ReplayFills(book, v.fills).position = v.position
  BY <1>1 DEF Visiting, Visits
<1>4. /\ s \in Seq(Lot)
      /\ Markable(s)
      /\ Within(s)
      /\ OneSided(s)
      /\ before.position = Exposure(s)
      /\ book \in BalancedBooks
  BY LotsOKIsWithin DEF Ready, Markable
<1>5. \A i \in DOMAIN s : Exhausted(s[i], t[i], price)
  BY <1>1, <1>4 DEF Visiting
<1>6. Within(t) /\ OneSided(t)
  BY <1>3, <1>4, VisitedLots
<1>7. after.lots = Open(t) /\ after.position = v.position /\ after.fills = v.fills
  BY <1>2, <1>3 DEF Visits
<1>8. Open(t) \in Seq(Lot)
      /\ \A a \in DOMAIN Open(t) :
            \E i \in DOMAIN t : Open(t)[a] = t[i] /\ t[i].remaining > 0
  BY <1>3, <1>6, OpenKeeps DEF Within, WellFormed
<1>9. Markable(Open(t))
  <2>1. LotsOK(Open(t))
    BY <1>6, OpenWithin
  <2>2. OneSided(Open(t))
    BY <1>6, <1>8 DEF OneSided
  <2>3. \A i \in DOMAIN t : Fit(t[i])
    BY <1>3 DEF Less
  <2>. QED BY <1>8, <2>1, <2>2, <2>3 DEF Markable
<1>10. v.position = Exposure(Open(t))
  BY <1>3, <1>6, WithinIsSolid, SumOfOpen DEF Exposure
<1>11. LeftBy(s, Open(t), price)
  <2>1. ASSUME NEW j \in DOMAIN Open(t)
        PROVE  \E i \in DOMAIN s :
                  /\ Less(s[i], Open(t)[j])
                  /\ Open(t)[j].remaining # 0
                  /\ Exhausted(s[i], Open(t)[j], price)
    <3>1. PICK i \in DOMAIN t : Open(t)[j] = t[i] /\ t[i].remaining > 0
      BY <1>8
    <3>. QED BY <1>3, <1>5, <3>1
  <2>. QED BY <2>1 DEF LeftBy
<1>12. ReplayFills(book, v.fills) \in BalancedBooks
  <2>1. [dir |-> 1, quantity |-> 0] \in Fills
    BY DEF Fills
  <2>. QED BY <1>3, <1>4, <2>1, ReplayFillsAppended
<1>13. Shrinks(before.position, v.position)
  <2>1. PICK i : i \in DOMAIN s
    <3>1. CASE DOMAIN s = {}
      <4>1. Len(s) = 0 /\ s = <<>>
        BY <1>4, <3>1
      <4>2. Exposure(s) = 0
        BY <4>1, EmptyBookSound DEF Exposure
      <4>. QED BY <1>4, <4>2
    <3>. QED BY <3>1
  <2>. DEFINE dir == s[i].dir
  <2>2. /\ dir \in {1, -1}
        /\ Exposure(s) = dir * OpenQuantity(s, dir)
        /\ OpenQuantity(s, dir) \in Nat
    BY <1>4, <2>1, LotsOfOneSide
  <2>3. t[i].dir = dir
    BY <1>3, <2>1 DEF Less, SameSignal
  <2>4. /\ Exposure(t) = dir * OpenQuantity(t, dir)
        /\ OpenQuantity(t, dir) \in Nat
    BY <1>3, <1>6, <2>1, <2>3, LotsOfOneSide
  <2>. HIDE DEF dir
  <2>. QED BY <1>3, <1>4, <2>2, <2>4, SideShrinks
<1>. QED BY <1>3, <1>7, <1>8, <1>9, <1>10, <1>11, <1>12, <1>13 DEF after

-----------------------------------------------------------------------------
(***************************************************************************)
(* The invariant and the steps.                                            *)
(***************************************************************************)

\* Nothing is bought or sold at no price.
LEMMA EntryIsSized ==
  ASSUME NEW lot, OfEntry(lot)
  PROVE  Sized(lot)
<1>1. PICK entry \in Entries :
         lot.dir = entry.dir /\ lot.entry = entry.price /\ lot.plan = entry.plan
  BY DEF OfEntry
<1>2. entry.price \in Nat \ {0} /\ Scale(entry) > 0
  BY EntryFields
<1>3. Scale(lot) = Scale(entry)
  BY <1>1, TrailsAlike
<1>. QED BY <1>1, <1>2, <1>3 DEF Sized

\* What the invariant says of the lots, and of the recorded orders.
LEMMA BookReady ==
  ASSUME IInv
  PROVE  /\ lots \in Seq(Lot)
         /\ Within(lots)
         /\ Markable(lots)
         /\ position = Exposure(lots)
         /\ position \in Int
         /\ replayed \in BalancedBooks
         /\ \A i \in DOMAIN lots : lots[i] \in Lot /\ Fit(lots[i]) /\ OfEntry(lots[i])
         /\ lots # <<>> => restarts = 0 /\ Ready([lots |-> lots, position |-> position], replayed)
<1>1. /\ LotsOK(lots) /\ lots \in Seq(Lot) /\ OneSided(lots)
      /\ position \in Int /\ position = Exposure(lots)
      /\ \A i \in DOMAIN lots : OfEntry(lots[i]) /\ TrailOK(lots[i]) /\ Armed(lots[i])
  BY DEF IInv, TypeOK, LotsOK, WellFormed, PositionMatchesLots
<1>2. \A i \in DOMAIN lots : lots[i] \in Lot /\ Fit(lots[i])
  BY <1>1, EntryIsSized DEF Fit, LotsOK, WellFormed
<1>3. Markable(lots) /\ Within(lots)
  BY <1>1, <1>2, LotsOKIsWithin DEF Markable
<1>4. replayed \in BalancedBooks
  BY DEF IInv, TypeOK, BalancedBooks, Balanced, Books
<1>5. ASSUME lots # <<>>
      PROVE  restarts = 0 /\ Ready([lots |-> lots, position |-> position], replayed)
  <2>1. restarts = 0 /\ replayed.position = position
    BY <1>5 DEF IInv
  <2>2. [lots |-> lots, position |-> position] \in [lots : Seq(Lot), position : Int]
    BY <1>1
  <2>. QED BY <1>1, <1>3, <1>4, <2>1, <2>2 DEF Ready
<1>. QED BY <1>1, <1>2, <1>3, <1>4, <1>5

\* The invariant of a state whose lots are sound and replay to its position.
Renewed(s, p, book, before) ==
  /\ s \in Seq(Lot)
  /\ Markable(s)
  /\ p \in Int
  /\ p = Exposure(s)
  /\ book \in BalancedBooks
  /\ book.position = p
  /\ \A j \in DOMAIN s : \E i \in DOMAIN before : SameSignal(before[i], s[j])

\* New lots that descend from the old ones and make up the recorded position keep
\* the invariant.
LEMMA RenewedIsInv ==
  ASSUME IInv, lots # <<>>, UNCHANGED restarts, Renewed(lots', position', replayed', lots)
  PROVE  IInv'
<1>1. restarts' = 0 /\ restarts \in 0 .. MaxRestarts
  BY BookReady DEF IInv, TypeOK
<1>2. /\ LotsOK(lots') /\ OneSided(lots') /\ \A i \in DOMAIN lots' : Fit(lots'[i])
      /\ position' \in Int /\ position' = Exposure(lots')
      /\ replayed' \in [lots : Seq(Lot), position : Int]
      /\ LotsOK(replayed'.lots)
      /\ replayed'.position = Exposure(replayed'.lots)
      /\ replayed'.position = position'
  BY DEF Renewed, Markable, BalancedBooks, Balanced, Books
<1>3. \A i \in DOMAIN lots' : OfEntry(lots'[i]) /\ TrailOK(lots'[i]) /\ Armed(lots'[i])
  <2>1. ASSUME NEW j \in DOMAIN lots' PROVE OfEntry(lots'[j])
    <3>1. PICK i \in DOMAIN lots : SameSignal(lots[i], lots'[j])
      BY DEF Renewed
    <3>2. OfEntry(lots[i])
      BY BookReady
    <3>. QED BY <3>1, <3>2 DEF OfEntry, SameSignal
  <2>. QED BY <1>2, <2>1 DEF Fit
<1>4. TypeOK'
  BY <1>1, <1>2 DEF TypeOK
<1>5. PositionMatchesLots'
  BY <1>2 DEF PositionMatchesLots
<1>. QED BY <1>1, <1>2, <1>3, <1>4, <1>5 DEF IInv

\* An exchange built from any recorded history satisfies the invariant
\* (from_order_history).
LEMMA InitInv ==
  Init => IInv
<1>. SUFFICES ASSUME Init PROVE IInv
  OBVIOUS
<1>1. PICK history \in Histories :
        /\ lots = Replay(history).lots
        /\ position = Replay(history).position
        /\ replayed = Replay(history)
  BY DEF Init
<1>2. Sound(Replay(history)) /\ restarts = 0 /\ 0 \in 0 .. MaxRestarts
  BY ReplaySound, BracketAssumption DEF Init
<1>. QED BY <1>1, <1>2 DEF IInv, TypeOK, PositionMatchesLots, Sound, Balanced

-----------------------------------------------------------------------------

\* A mark keeps the invariant, adds no exposure, and finishes its work on every lot
\* it leaves open (update_price).
LEMMA MarkStep ==
  ASSUME IInv, NEW price \in Prices, Mark(price)
  PROVE  /\ IInv'
         /\ Shrinks(position, position')
         /\ LeftBy(lots, lots', price)
<1>. DEFINE before == [lots |-> lots, position |-> position]
            after == Marked(before, price)
<1>1. /\ position # 0
      /\ lots' = after.lots
      /\ position' = after.position
      /\ replayed' = ReplayFills(replayed, after.fills)
      /\ UNCHANGED restarts
  BY DEF Mark
<1>2. lots # <<>>
  <2>1. ASSUME lots = <<>> PROVE FALSE
    <3>1. Exposure(<<>>) = 0
      BY EmptyBookSound DEF Exposure
    <3>. QED BY <1>1, <2>1, <3>1, BookReady
  <2>. QED BY <2>1
<1>3. price \in Int /\ price > 0
  BY BracketAssumption
<1>4. Ready(before, replayed) /\ before.position # 0 /\ before.lots = lots
      /\ before.position = position
  BY <1>1, <1>2, BookReady
<1>. HIDE DEF before
<1>5. /\ after.lots \in Seq(Lot)
      /\ after.position \in Int
      /\ Markable(after.lots)
      /\ after.position = Exposure(after.lots)
      /\ ReplayFills(replayed, after.fills) \in BalancedBooks
      /\ ReplayFills(replayed, after.fills).position = after.position
      /\ Shrinks(before.position, after.position)
      /\ LeftBy(before.lots, after.lots, price)
  BY <1>3, <1>4, BookMarked
<1>. HIDE DEF after
<1>6. \A j \in DOMAIN lots' : \E i \in DOMAIN lots : SameSignal(lots[i], lots'[j])
  BY <1>1, <1>4, <1>5 DEF LeftBy, Less
<1>7. Renewed(lots', position', replayed', lots)
  BY <1>1, <1>5, <1>6 DEF Renewed
<1>8. IInv'
  BY <1>1, <1>2, <1>7, RenewedIsInv
<1>. QED BY <1>1, <1>4, <1>5, <1>8

\* Lots with other exits and nothing else changed.
Updated(book, after) ==
  /\ after \in Seq(Lot)
  /\ DOMAIN after = DOMAIN book
  /\ \A i \in DOMAIN book : SameLot(book[i], after[i]) /\ OneEach(after[i])

\* A book with the same quantities holds the same on either side.
LEMMA UpdatedKeeps ==
  ASSUME NEW book, LotsOK(book), NEW after, Updated(book, after)
  PROVE  /\ LotsOK(after)
         /\ Exposure(after) = Exposure(book)
         /\ OneSided(book) => OneSided(after)
<1>1. book \in Seq(Lot) /\ after \in Seq(Lot)
  BY DEF LotsOK, WellFormed, Updated
<1>2. Len(after) = Len(book) /\ Len(book) \in Nat /\ DOMAIN book = 1 .. Len(book)
  BY <1>1 DEF Updated
<1>3. \A i \in DOMAIN book :
         /\ after[i].id = book[i].id
         /\ after[i].dir = book[i].dir
         /\ after[i].original = book[i].original
         /\ after[i].remaining = book[i].remaining
         /\ OneEach(after[i])
  BY DEF Updated, SameLot
<1>4. LotsOK(after)
  BY <1>1, <1>3 DEF LotsOK, WellFormed, Updated
<1>5. ASSUME NEW dir PROVE OpenQuantity(after, dir) = OpenQuantity(book, dir)
  <2>1. \A n \in 1 .. Len(book) : Holds(after[n], dir) = Holds(book[n], dir)
    BY <1>2, <1>3 DEF Holds
  <2>2. \A n \in 0 .. Len(book) : Quantities(after, dir)[n] = Quantities(book, dir)[n]
    BY <1>1, <1>2, <2>1, SumsAgree
  <2>3. Len(book) \in 0 .. Len(book)
    BY <1>2
  <2>. QED BY <1>2, <2>2, <2>3 DEF OpenQuantity
<1>6. OneSided(book) => OneSided(after)
  BY <1>3 DEF OneSided, Updated
<1>. QED BY <1>4, <1>5, <1>6 DEF Exposure

\* A book in which a maintenance route has been replayed.
ReplayedOn(book, after) ==
  /\ after \in Books
  /\ after.position = book.position
  /\ Updated(book.lots, after.lots)

\* A maintenance route replays to a book that makes up the same position.
LEMMA ReplayedOnBalanced ==
  ASSUME NEW book \in BalancedBooks, NEW after, ReplayedOn(book, after)
  PROVE  after \in BalancedBooks
BY UpdatedKeeps DEF ReplayedOn, BalancedBooks, Balanced

\* Lots with the same quantities, in the book that is replayed.
LEMMA LotReplayed ==
  ASSUME NEW book \in BalancedBooks, NEW lots2 \in [DOMAIN book.lots -> Lot],
         \A i \in DOMAIN book.lots : SameLot(book.lots[i], lots2[i]) /\ OneEach(lots2[i])
  PROVE  ReplayedOn(book, [book EXCEPT !.lots = lots2])
<1>. DEFINE after == [book EXCEPT !.lots = lots2]
<1>1. book \in [lots : Seq(Lot), position : Int] /\ book.lots \in Seq(Lot)
  BY DEF BalancedBooks, Books
<1>2. lots2 \in Seq(Lot) /\ DOMAIN lots2 = DOMAIN book.lots
  <2>1. DOMAIN book.lots = 1 .. Len(book.lots) /\ Len(book.lots) \in Nat
    BY <1>1
  <2>. QED BY <2>1, FunctionIsSequence
<1>3. after \in Books /\ after.lots = lots2 /\ after.position = book.position
  BY <1>1, <1>2 DEF Books
<1>. HIDE DEF after
<1>4. ReplayedOn(book, after)
  BY <1>2, <1>3 DEF ReplayedOn, Updated
<1>. QED BY <1>4 DEF after

\* A route changes its lot and replays on the recorded one.
RouteStep ==
  \E i \in DOMAIN lots : \E lot :
     /\ Maintained(i, lot)
     /\ Fit(lot)
     /\ Maintains(lots[i], lot)
     /\ ReplayedOn(replayed, replayed')

\* A route keeps the invariant and the position, and loosens no protection.
LEMMA RouteKeepsInv ==
  ASSUME IInv, RouteStep
  PROVE  /\ IInv'
         /\ position' = position
         /\ \A k \in DOMAIN lots, j \in DOMAIN lots' :
               lots[k].id = lots'[j].id => NotLoosened(lots[k], lots'[j])
<1>1. PICK i \in DOMAIN lots : \E lot :
        /\ Maintained(i, lot)
        /\ Fit(lot)
        /\ Maintains(lots[i], lot)
        /\ ReplayedOn(replayed, replayed')
  BY DEF RouteStep
<1>2. PICK lot :
        /\ Maintained(i, lot)
        /\ Fit(lot)
        /\ Maintains(lots[i], lot)
        /\ ReplayedOn(replayed, replayed')
  BY <1>1
<1>3. /\ lots \in Seq(Lot) /\ Markable(lots) /\ LotsOK(lots) /\ OneSided(lots)
      /\ position = Exposure(lots) /\ position \in Int
      /\ replayed \in BalancedBooks
      /\ \A k \in DOMAIN lots : lots[k] \in Lot /\ Fit(lots[k])
      /\ lots # <<>>
  BY BookReady DEF Markable
<1>4. BookOK
  BY <1>3 DEF BookOK, LotsOK
<1>5. \A k \in DOMAIN lots, j \in DOMAIN lots' :
         lots[k].id = lots'[j].id => NotLoosened(lots[k], lots'[j])
  BY <1>2, <1>4, BookMaintained
<1>6. lots' = [lots EXCEPT ![i] = lot] /\ UNCHANGED <<position, restarts>>
  BY <1>2 DEF Maintained
<1>7. lot \in Lot /\ SameLot(lots[i], lot) /\ OneEach(lot)
  BY <1>2 DEF Maintains
<1>8. /\ lots' \in Seq(Lot)
      /\ DOMAIN lots' = DOMAIN lots
      /\ \A k \in DOMAIN lots : lots'[k] = IF k = i THEN lot ELSE lots[k]
  BY <1>3, <1>6, <1>7
<1>9. \A k \in DOMAIN lots : Fit(lots'[k]) /\ SameLot(lots[k], lots'[k]) /\ OneEach(lots'[k])
  <2>1. \A k \in DOMAIN lots : SameLot(lots[k], lots[k])
    BY DEF SameLot
  <2>2. \A k \in DOMAIN lots : OneEach(lots[k])
    BY <1>3 DEF Fit
  <2>. QED BY <1>2, <1>3, <1>7, <1>8, <2>1, <2>2
<1>10. Updated(lots, lots')
  BY <1>8, <1>9 DEF Updated
<1>11. LotsOK(lots') /\ Exposure(lots') = Exposure(lots) /\ OneSided(lots')
  BY <1>3, <1>10, UpdatedKeeps
<1>12. Markable(lots')
  BY <1>8, <1>9, <1>11 DEF Markable
<1>13. replayed' \in BalancedBooks /\ replayed'.position = position'
  <2>1. replayed.position = position
    BY <1>3, BookReady DEF Ready
  <2>. QED BY <1>2, <1>3, <1>6, <2>1, ReplayedOnBalanced DEF ReplayedOn
<1>14. \A j \in DOMAIN lots' : SameSignal(lots[j], lots'[j])
  BY <1>8, <1>9 DEF SameSignal, SameLot
<1>15. Renewed(lots', position', replayed', lots)
  BY <1>3, <1>6, <1>8, <1>11, <1>12, <1>13, <1>14 DEF Renewed
<1>16. IInv'
  BY <1>3, <1>6, <1>15, RenewedIsInv
<1>. QED BY <1>5, <1>6, <1>16

-----------------------------------------------------------------------------
(***************************************************************************)
(* The maintenance routes (app.py) and their replay.                       *)
(***************************************************************************)

\* A book with new lots for one signal.
OnSignal(book, id, after) ==
  [i \in DOMAIN book.lots |-> IF book.lots[i].id = id THEN after[i] ELSE book.lots[i]]

\* A maintenance that keeps every lot's quantities can be replayed.
LEMMA SignalReplayed ==
  ASSUME NEW book \in BalancedBooks, NEW id, NEW after,
         \A i \in DOMAIN book.lots : Maintains(book.lots[i], after[i])
  PROVE  ReplayedOn(book, [book EXCEPT !.lots = OnSignal(book, id, after)])
<1>. DEFINE lots2 == OnSignal(book, id, after)
<1>1. \A i \in DOMAIN book.lots : book.lots[i] \in Lot /\ OneEach(book.lots[i])
  BY DEF BalancedBooks, Balanced, LotsOK, WellFormed
<1>2. \A i \in DOMAIN book.lots : SameLot(book.lots[i], book.lots[i])
  BY DEF SameLot
<1>3. /\ lots2 \in [DOMAIN book.lots -> Lot]
      /\ \A i \in DOMAIN book.lots : SameLot(book.lots[i], lots2[i]) /\ OneEach(lots2[i])
  BY <1>1, <1>2 DEF OnSignal, Maintains
<1>. HIDE DEF lots2
<1>4. ReplayedOn(book, [book EXCEPT !.lots = lots2])
  BY <1>3, LotReplayed
<1>. QED BY <1>4 DEF lots2

\* The lots of the replayed book are fit for maintenance.
LEMMA LotsToReplay ==
  ASSUME NEW book \in BalancedBooks, NEW i \in DOMAIN book.lots
  PROVE  /\ book.lots[i] \in Lot
         /\ OneEach(book.lots[i])
         /\ Maintains(book.lots[i], book.lots[i])
<1>1. book.lots[i] \in Lot /\ OneEach(book.lots[i])
  BY DEF BalancedBooks, Balanced, LotsOK, WellFormed
<1>2. SameLot(book.lots[i], book.lots[i])
  BY DEF SameLot
<1>3. Kept(book.lots[i], book.lots[i])
  BY <1>1, KeptItself
<1>. QED BY <1>1, <1>2, <1>3, KeptMaintains

\* amend_bracket_stop is such a route.
LEMMA StopRoute ==
  ASSUME IInv, NEW id \in Ids, NEW price \in Prices,
         AmendBracketStop(id, price)
  PROVE  RouteStep
<1>. DEFINE after == [k \in DOMAIN replayed.lots |-> ReplayStop(replayed.lots[k], price)]
<1>1. PICK i \in Active(id) :
        /\ StopAllowed(lots[i], price)
        /\ Maintained(i, AmendStop(lots[i], price))
        /\ replayed' = ReplayOn(replayed, id, LAMBDA lot : ReplayStop(lot, price))
  BY DEF AmendBracketStop
<1>2. /\ i \in DOMAIN lots
      /\ lots[i] \in Lot
      /\ Fit(lots[i])
      /\ replayed \in BalancedBooks
  BY <1>1, BookReady DEF Active
<1>7. price \in Int /\ price > 0
  BY BracketAssumption
<1>3. Fit(AmendStop(lots[i], price)) /\ Maintains(lots[i], AmendStop(lots[i], price))
  BY <1>1, <1>2, <1>7, AmendStopFit
<1>4. \A k \in DOMAIN replayed.lots : Maintains(replayed.lots[k], after[k])
  <2>1. ASSUME NEW k \in DOMAIN replayed.lots PROVE Maintains(replayed.lots[k], after[k])
    BY <1>2, <1>7, LotsToReplay, AmendStopMaintains DEF ReplayStop
  <2>. QED BY <2>1
<1>5. replayed' = [replayed EXCEPT !.lots = OnSignal(replayed, id, after)]
  BY <1>1 DEF ReplayOn, OnSignal
<1>. HIDE DEF after
<1>6. ReplayedOn(replayed, replayed')
  BY <1>2, <1>4, <1>5, SignalReplayed
<1>. QED BY <1>1, <1>2, <1>3, <1>6 DEF RouteStep

\* amend_bracket_trailing_stop is such a route.
LEMMA TrailRoute ==
  ASSUME IInv, NEW id \in Ids, NEW price \in Prices,
         AmendBracketTrailingStop(id, price)
  PROVE  RouteStep
<1>. DEFINE after == [k \in DOMAIN replayed.lots |-> ReplayTrail(replayed.lots[k], price)]
<1>1. PICK i \in Active(id) :
        /\ TrailAllowed(lots[i], price)
        /\ Maintained(i, AmendTrail(lots[i], price))
        /\ replayed' = ReplayOn(replayed, id, LAMBDA lot : ReplayTrail(lot, price))
  BY DEF AmendBracketTrailingStop
<1>2. /\ i \in DOMAIN lots
      /\ lots[i] \in Lot
      /\ Fit(lots[i])
      /\ replayed \in BalancedBooks
  BY <1>1, BookReady DEF Active
<1>7. price \in Int /\ price > 0
  BY BracketAssumption
<1>3. Fit(AmendTrail(lots[i], price)) /\ Maintains(lots[i], AmendTrail(lots[i], price))
  BY <1>1, <1>2, <1>7, AmendTrailFit
<1>4. \A k \in DOMAIN replayed.lots : Maintains(replayed.lots[k], after[k])
  <2>1. ASSUME NEW k \in DOMAIN replayed.lots PROVE Maintains(replayed.lots[k], after[k])
    BY <1>2, <1>7, LotsToReplay, AmendTrailKeeps, KeptMaintains DEF ReplayTrail
  <2>. QED BY <2>1
<1>5. replayed' = [replayed EXCEPT !.lots = OnSignal(replayed, id, after)]
  BY <1>1 DEF ReplayOn, OnSignal
<1>. HIDE DEF after
<1>6. ReplayedOn(replayed, replayed')
  BY <1>2, <1>4, <1>5, SignalReplayed
<1>. QED BY <1>1, <1>2, <1>3, <1>6 DEF RouteStep

\* amend_bracket_take_profit is such a route.
LEMMA TargetRoute ==
  ASSUME IInv, NEW id \in Ids, NEW index \in {0, 1}, NEW price \in Prices,
         AmendBracketTakeProfit(id, index, price)
  PROVE  RouteStep
<1>. DEFINE after == [k \in DOMAIN replayed.lots |-> ReplayTarget(replayed.lots[k], index, price)]
<1>1. PICK i \in Active(id) :
        /\ TargetAllowed(lots[i], index, price)
        /\ Maintained(i, AmendTarget(lots[i], index, price))
        /\ replayed' = ReplayOn(replayed, id, LAMBDA lot : ReplayTarget(lot, index, price))
  BY DEF AmendBracketTakeProfit
<1>2. /\ i \in DOMAIN lots
      /\ lots[i] \in Lot
      /\ Fit(lots[i])
      /\ replayed \in BalancedBooks
  BY <1>1, BookReady DEF Active
<1>7. price \in Int /\ price > 0 /\ index \in Int
  BY BracketAssumption
<1>3. Fit(AmendTarget(lots[i], index, price)) /\ Maintains(lots[i], AmendTarget(lots[i], index, price))
  BY <1>1, <1>2, <1>7, AmendTargetFit
<1>4. \A k \in DOMAIN replayed.lots : Maintains(replayed.lots[k], after[k])
  <2>1. ASSUME NEW k \in DOMAIN replayed.lots PROVE Maintains(replayed.lots[k], after[k])
    BY <1>2, <1>7, LotsToReplay, AmendTargetMaintains DEF ReplayTarget
  <2>. QED BY <2>1
<1>5. replayed' = [replayed EXCEPT !.lots = OnSignal(replayed, id, after)]
  BY <1>1 DEF ReplayOn, OnSignal
<1>. HIDE DEF after
<1>6. ReplayedOn(replayed, replayed')
  BY <1>2, <1>4, <1>5, SignalReplayed
<1>. QED BY <1>1, <1>2, <1>3, <1>6 DEF RouteStep

\* lock_bracket_profit is such a route.
LEMMA LockRoute ==
  ASSUME IInv, NEW id \in Ids, NEW price \in Prices,
         LockBracketProfit(id, price)
  PROVE  RouteStep
<1>. DEFINE after == [k \in DOMAIN replayed.lots |-> Protect(replayed.lots[k], price)]
<1>1. PICK i \in Active(id) :
        /\ Maintained(i, Protect(lots[i], price))
        /\ replayed' = ReplayOn(replayed, id, LAMBDA lot : Protect(lot, price))
  BY DEF LockBracketProfit
<1>2. /\ i \in DOMAIN lots
      /\ lots[i] \in Lot
      /\ Fit(lots[i])
      /\ replayed \in BalancedBooks
  BY <1>1, BookReady DEF Active
<1>7. price \in Int /\ price > 0
  BY BracketAssumption
<1>3. Fit(Protect(lots[i], price)) /\ Maintains(lots[i], Protect(lots[i], price))
  BY <1>1, <1>2, <1>7, ProtectFit, KeptMaintains DEF Fit
<1>4. \A k \in DOMAIN replayed.lots : Maintains(replayed.lots[k], after[k])
  <2>1. ASSUME NEW k \in DOMAIN replayed.lots PROVE Maintains(replayed.lots[k], after[k])
    BY <1>2, <1>7, LotsToReplay, ProtectMoves, ProtectKeeps, KeptMaintains
  <2>. QED BY <2>1
<1>5. replayed' = [replayed EXCEPT !.lots = OnSignal(replayed, id, after)]
  BY <1>1 DEF ReplayOn, OnSignal
<1>. HIDE DEF after
<1>6. ReplayedOn(replayed, replayed')
  BY <1>2, <1>4, <1>5, SignalReplayed
<1>. QED BY <1>1, <1>2, <1>3, <1>6 DEF RouteStep

\* move_bracket_to_breakeven is such a route.
LEMMA BreakevenRoute ==
  ASSUME IInv, NEW id \in Ids,
         MoveBracketToBreakeven(id)
  PROVE  RouteStep
<1>. DEFINE after == [k \in DOMAIN replayed.lots |-> ReplayBreakeven(replayed.lots[k])]
<1>1. PICK i \in Active(id) :
        /\ Maintained(i, ReplayBreakeven(lots[i]))
        /\ replayed' = ReplayOn(replayed, id, ReplayBreakeven)
  BY DEF MoveBracketToBreakeven
<1>2. /\ i \in DOMAIN lots
      /\ lots[i] \in Lot
      /\ Fit(lots[i])
      /\ replayed \in BalancedBooks
  BY <1>1, BookReady DEF Active
<1>3. Fit(ReplayBreakeven(lots[i])) /\ Maintains(lots[i], ReplayBreakeven(lots[i]))
  BY <1>1, <1>2, BreakevenRouteFit
<1>4. \A k \in DOMAIN replayed.lots : Maintains(replayed.lots[k], after[k])
  <2>1. ASSUME NEW k \in DOMAIN replayed.lots PROVE Maintains(replayed.lots[k], after[k])
    <3>1. CASE Looser(replayed.lots[k], replayed.lots[k].entry) # {}
      BY <1>2, <3>1, LotsToReplay, BreakevenMaintains
    <3>2. CASE Looser(replayed.lots[k], replayed.lots[k].entry) = {}
      BY <1>2, <3>2, LotsToReplay DEF ReplayBreakeven
    <3>. QED BY <3>1, <3>2
  <2>. QED BY <2>1
<1>5. replayed' = [replayed EXCEPT !.lots = OnSignal(replayed, id, after)]
  BY <1>1 DEF ReplayOn, OnSignal
<1>. HIDE DEF after
<1>6. ReplayedOn(replayed, replayed')
  BY <1>2, <1>4, <1>5, SignalReplayed
<1>. QED BY <1>1, <1>2, <1>3, <1>6 DEF RouteStep

\* cancel_bracket is such a route.
LEMMA CancelRoute ==
  ASSUME IInv, NEW id \in Ids,
         CancelBracket(id)
  PROVE  RouteStep
<1>. DEFINE after == [k \in DOMAIN replayed.lots |-> [replayed.lots[k] EXCEPT !.exits = <<>>]]
<1>1. PICK i \in Active(id) :
        /\ Maintained(i, [lots[i] EXCEPT !.exits = <<>>])
        /\ replayed' = ReplayOn(replayed, id, LAMBDA lot : [lot EXCEPT !.exits = <<>>])
  BY DEF CancelBracket
<1>2. /\ i \in DOMAIN lots
      /\ lots[i] \in Lot
      /\ Fit(lots[i])
      /\ replayed \in BalancedBooks
  BY <1>1, BookReady DEF Active
<1>3. Fit([lots[i] EXCEPT !.exits = <<>>]) /\ Maintains(lots[i], [lots[i] EXCEPT !.exits = <<>>])
  BY <1>1, <1>2, CancelFit
<1>4. \A k \in DOMAIN replayed.lots : Maintains(replayed.lots[k], after[k])
  <2>1. ASSUME NEW k \in DOMAIN replayed.lots PROVE Maintains(replayed.lots[k], after[k])
    BY <1>2, LotsToReplay, CancelMaintains
  <2>. QED BY <2>1
<1>5. replayed' = [replayed EXCEPT !.lots = OnSignal(replayed, id, after)]
  BY <1>1 DEF ReplayOn, OnSignal
<1>. HIDE DEF after
<1>6. ReplayedOn(replayed, replayed')
  BY <1>2, <1>4, <1>5, SignalReplayed
<1>. QED BY <1>1, <1>2, <1>3, <1>6 DEF RouteStep

\* What the trailing stop of a lot would move to is a price.
LEMMA CandidateIsWhole ==
  ASSUME NEW lot \in Lot, NEW mark \in Int
  PROVE  WaterAt(lot, mark) \in Int /\ Candidate(lot, mark) \in Int
<1>1. MarkAt(lot, mark) \in Int /\ Water(lot) \in Int
  BY LotTrails, Distances, WaterOfLot
<1>2. WaterAt(lot, mark) \in Int
  BY <1>1 DEF WaterAt, Furthest
<1>. QED BY <1>2, LotTrails, Distances DEF Candidate

\* tighten_bracket_trailing_stop_to_mark is such a route.
LEMMA TightenRoute ==
  ASSUME IInv, NEW id \in Ids, NEW mark \in Prices,
         TightenBracketTrailingStop(id, mark)
  PROVE  RouteStep
<1>1. PICK i \in Active(id) :
        /\ TightenAllowed(lots[i], mark)
        /\ Maintained(i, Tighten(lots[i], mark))
        /\ replayed' = ReplayOn(replayed, id, LAMBDA lot : ReplayTrail(lot, Candidate(lots[i], mark)))
  BY DEF TightenBracketTrailingStop
<1>2. /\ i \in DOMAIN lots
      /\ lots[i] \in Lot
      /\ Fit(lots[i])
      /\ replayed \in BalancedBooks
  BY <1>1, BookReady DEF Active
<1>7. mark \in Int /\ mark > 0
  BY BracketAssumption
<1>3. Fit(Tighten(lots[i], mark)) /\ Maintains(lots[i], Tighten(lots[i], mark))
  BY <1>1, <1>2, <1>7, TightenFit
<1>. DEFINE price == Candidate(lots[i], mark)
            after == [k \in DOMAIN replayed.lots |-> ReplayTrail(replayed.lots[k], price)]
<1>8. price \in Int
  BY <1>2, <1>7, CandidateIsWhole
<1>. HIDE DEF price
<1>4. \A k \in DOMAIN replayed.lots : Maintains(replayed.lots[k], after[k])
  <2>1. ASSUME NEW k \in DOMAIN replayed.lots PROVE Maintains(replayed.lots[k], after[k])
    BY <1>2, <1>8, LotsToReplay, AmendTrailKeeps, KeptMaintains DEF ReplayTrail
  <2>. QED BY <2>1
<1>5. replayed' = [replayed EXCEPT !.lots = OnSignal(replayed, id, after)]
  BY <1>1 DEF ReplayOn, OnSignal, price
<1>. HIDE DEF after
<1>6. ReplayedOn(replayed, replayed')
  BY <1>2, <1>4, <1>5, SignalReplayed
<1>. QED BY <1>1, <1>2, <1>3, <1>6 DEF RouteStep

-----------------------------------------------------------------------------
(***************************************************************************)
(* The remaining steps and the theorems.                                   *)
(***************************************************************************)

\* An operator closes some of a lot at the market.
LEMMA CloseStep ==
  ASSUME IInv, NEW i \in DOMAIN lots, NEW quantity \in CloseQuantities(lots[i]),
         Close(i, quantity)
  PROVE  /\ IInv'
         /\ Shrinks(position, position')
         /\ \A j \in DOMAIN lots' : \E k \in DOMAIN lots :
               lots'[j].id = lots[k].id /\ lots'[j].dir = lots[k].dir
                 /\ lots'[j].exits = lots[k].exits
<1>. DEFINE lot == lots[i]
            taken == Taken(lot, position, quantity)
            cut == [lot EXCEPT !.remaining = lot.remaining - quantity]
            book == [lots EXCEPT ![i] = cut]
<1>1. /\ lots \in Seq(Lot) /\ Within(lots) /\ Markable(lots) /\ LotsOK(lots) /\ OneSided(lots)
      /\ position = Exposure(lots) /\ position \in Int
      /\ replayed \in BalancedBooks /\ Balanced(replayed) /\ replayed.position = position
      /\ \A k \in DOMAIN lots : lots[k] \in Lot /\ Fit(lots[k])
      /\ lots # <<>>
  BY BookReady DEF Markable, Ready, BalancedBooks
<1>2. /\ lot.dir \in {1, -1}
      /\ OpenQuantity(lots, lot.dir) \in Nat
      /\ Exposure(lots) = lot.dir * OpenQuantity(lots, lot.dir)
      /\ lot.remaining \in Nat
      /\ lot.remaining <= OpenQuantity(lots, lot.dir)
  BY <1>1, LotsOfOneSide
<1>3. quantity \in 0 .. lot.remaining
  <2>1. \A amount \in Amounts : Least(lot.remaining, amount) \in 0 .. lot.remaining
    BY <1>2, BracketAssumption DEF Least
  <2>2. lot.remaining \in 0 .. lot.remaining
    BY <1>2
  <2>. QED BY <2>1, <2>2 DEF CloseQuantities
<1>4. lot.dir * position = OpenQuantity(lots, lot.dir)
  <2>1. CASE lot.dir = 1
    BY <1>1, <1>2, <2>1
  <2>2. CASE lot.dir = -1
    BY <1>1, <1>2, <2>2
  <2>. QED BY <1>2, <2>1, <2>2
<1>5. taken = quantity
  <2>1. CASE lot.dir = 1
    BY <1>1, <1>2, <1>3, <1>4, <2>1 DEF Taken, Held, Least
  <2>2. CASE lot.dir = -1
    BY <1>1, <1>2, <1>3, <1>4, <2>2 DEF Taken, Held, Least
  <2>. QED BY <1>2, <2>1, <2>2
<1>6. /\ lots' = Open([lots EXCEPT ![i].remaining = @ - taken])
      /\ position' = position - lot.dir * taken
      /\ replayed' = Reduce(replayed, lot.dir, quantity)
      /\ UNCHANGED restarts
  BY DEF Close
<1>. HIDE DEF taken
<1>7. [lots EXCEPT ![i].remaining = @ - taken] = book
  BY <1>1, <1>5
<1>8. lot.remaining - quantity \in Int /\ lot.remaining - quantity \in 0 .. lot.remaining
  BY <1>2, <1>3
<1>9. /\ cut \in Lot
      /\ Fit(cut)
      /\ SameSignal(lot, cut)
      /\ cut.remaining = lot.remaining - quantity
      /\ cut.exits = lot.exits
  BY <1>1, <1>8, FitLess DEF Fit
<1>. HIDE DEF cut
<1>10. /\ book \in Seq(Lot)
       /\ DOMAIN book = DOMAIN lots
       /\ \A k \in DOMAIN lots : book[k] = IF k = i THEN cut ELSE lots[k]
  BY <1>1, <1>9
<1>11. \A k \in DOMAIN lots :
          /\ Fit(book[k])
          /\ SameSignal(lots[k], book[k])
          /\ book[k].exits = lots[k].exits
          /\ book[k].remaining \in 0 .. lots[k].remaining
  <2>1. ASSUME NEW k \in DOMAIN lots
        PROVE  /\ Fit(book[k])
               /\ SameSignal(lots[k], book[k])
               /\ book[k].exits = lots[k].exits
               /\ book[k].remaining \in 0 .. lots[k].remaining
    <3>1. CASE k = i
      BY <1>8, <1>9, <1>10, <3>1
    <3>2. CASE k # i
      <4>1. book[k] = lots[k]
        BY <1>10, <3>2
      <4>2. lots[k].remaining \in 0 .. lots[k].remaining
        <5>1. lots[k].remaining \in 1 .. lots[k].original /\ lots[k].original \in Int
          BY <1>1, LotFields DEF LotsOK
        <5>. QED BY <5>1
      <4>. QED BY <1>1, <4>1, <4>2 DEF SameSignal
    <3>. QED BY <3>1, <3>2
  <2>. QED BY <2>1
<1>12. TakenFrom(lot.dir, Exposure(lots), lot.remaining, Exposure(book), cut.remaining)
       /\ \A dir \in {1, -1} : OpenQuantity(book, dir) <= OpenQuantity(lots, dir)
  <2>1. cut.dir = lot.dir /\ cut.remaining \in 0 .. lot.remaining
    BY <1>8, <1>9 DEF SameSignal
  <2>. QED BY <1>1, <1>2, <1>9, <2>1, VisitedSums
<1>. HIDE DEF book
<1>13. Within(book) /\ OneSided(book)
  <2>1. \A k \in DOMAIN book : OneEach(book[k]) /\ book[k].remaining \in 0 .. book[k].original
    <3>1. ASSUME NEW k \in DOMAIN lots
          PROVE  OneEach(book[k]) /\ book[k].remaining \in 0 .. book[k].original
      <4>1. lots[k].remaining \in 0 .. lots[k].original /\ lots[k].original \in Int
            /\ lots[k].remaining \in Int
        BY <1>1, LotFields DEF Within
      <4>2. book[k].original = lots[k].original /\ book[k].remaining \in 0 .. lots[k].remaining
        BY <1>11 DEF SameSignal
      <4>. QED BY <1>11, <4>1, <4>2 DEF Fit
    <3>. QED BY <1>10, <3>1
  <2>2. \A k, m \in DOMAIN book : book[k].id = book[m].id => k = m
    BY <1>1, <1>10, <1>11 DEF SameSignal, LotsOK, WellFormed
  <2>3. OneSided(book)
    BY <1>1, <1>10, <1>11 DEF SameSignal, OneSided
  <2>. QED BY <1>10, <2>1, <2>2, <2>3 DEF Within, WellFormed
<1>14. lots' = Open(book)
  BY <1>6, <1>7
<1>15. /\ lots' \in Seq(Lot)
       /\ \A a \in DOMAIN lots' : \E k \in DOMAIN lots : lots'[a] = book[k]
       /\ LotsOK(lots')
  BY <1>10, <1>13, <1>14, OpenKeeps, OpenWithin DEF Within, WellFormed
<1>16. Exposure(lots') = Exposure(book)
  BY <1>13, <1>14, WithinIsSolid, SumOfOpen DEF Exposure
<1>17. position' = Exposure(book) /\ position' = position - lot.dir * quantity
  <2>1. lot.remaining - cut.remaining = quantity
    BY <1>2, <1>3, <1>9
  <2>. QED BY <1>1, <1>5, <1>6, <1>12, <2>1 DEF TakenFrom
<1>18. position' \in Int
  <2>1. lot.dir * quantity \in Int
    BY <1>2, <1>3
  <2>. QED BY <1>1, <1>17, <2>1
<1>19. Markable(lots')
  <2>1. OneSided(lots')
    BY <1>10, <1>13, <1>15 DEF OneSided
  <2>. QED BY <1>11, <1>15, <2>1 DEF Markable
<1>20. replayed' \in BalancedBooks /\ replayed'.position = position'
  <2>1. quantity \in Nat
    BY <1>2, <1>3
  <2>5. LET after == Reduce(replayed, lot.dir, quantity)
        IN  /\ after \in [lots : Seq(Lot), position : Int]
            /\ Balanced(after)
            /\ after.position
                 = replayed.position
                     - lot.dir * Least(quantity, OpenQuantity(replayed.lots, lot.dir))
    BY <1>1, <1>2, <2>1, ReduceBalanced
  <2>2. /\ replayed' \in BalancedBooks
        /\ replayed'.position
             = position - lot.dir * Least(quantity, OpenQuantity(replayed.lots, lot.dir))
    BY <1>1, <1>6, <2>5 DEF BalancedBooks, Books
  <2>3. /\ OpenQuantity(replayed.lots, lot.dir) \in Nat
        /\ OpenQuantity(replayed.lots, lot.dir) >= lot.dir * replayed.position
    BY <1>1, <1>2, SideCovers
  <2>4. Least(quantity, OpenQuantity(replayed.lots, lot.dir)) = quantity
    BY <1>1, <1>2, <1>3, <1>4, <2>3 DEF Least
  <2>. QED BY <1>17, <2>2, <2>4
<1>21. \A j \in DOMAIN lots' : \E k \in DOMAIN lots : SameSignal(lots[k], lots'[j])
  BY <1>11, <1>15
<1>22. Renewed(lots', position', replayed', lots)
  BY <1>15, <1>16, <1>17, <1>18, <1>19, <1>20, <1>21 DEF Renewed
<1>23. IInv'
  BY <1>1, <1>6, <1>22, RenewedIsInv
<1>24. Shrinks(position, position')
  <2>1. book[i].dir = lot.dir
    BY <1>11 DEF SameSignal
  <2>2. /\ Exposure(book) = lot.dir * OpenQuantity(book, lot.dir)
        /\ OpenQuantity(book, lot.dir) \in Nat
    BY <1>10, <1>13, <2>1, LotsOfOneSide
  <2>3. OpenQuantity(book, lot.dir) <= OpenQuantity(lots, lot.dir)
    BY <1>2, <1>12
  <2>. HIDE DEF lot
  <2>. QED BY <1>1, <1>2, <1>17, <2>2, <2>3, SideShrinks
<1>25. \A j \in DOMAIN lots' : \E k \in DOMAIN lots :
          lots'[j].id = lots[k].id /\ lots'[j].dir = lots[k].dir
            /\ lots'[j].exits = lots[k].exits
  BY <1>11, <1>15 DEF SameSignal
<1>. QED BY <1>23, <1>24, <1>25

\* A crash after an order leaves an exchange without lots until it is rebuilt.
LEMMA RestartStep ==
  ASSUME IInv, Restart
  PROVE  IInv' /\ position' = 0 /\ lots' = <<>>
<1>1. /\ lots' = <<>> /\ position' = 0 /\ replayed' = replayed
      /\ restarts' = restarts + 1 /\ restarts < MaxRestarts
  BY DEF Restart
<1>2. restarts' \in 0 .. MaxRestarts /\ restarts' # 0
  BY <1>1, BracketAssumption DEF IInv, TypeOK
<1>3. LotsOK(<<>>) /\ OneSided(<<>>) /\ Exposure(<<>>) = 0
  BY EmptyBookSound DEF Sound, Balanced, Exposure
<1>4. TypeOK'
  BY <1>1, <1>2, <1>3 DEF IInv, TypeOK
<1>. QED BY <1>1, <1>2, <1>3, <1>4 DEF IInv, PositionMatchesLots

\* Each step is a mark, a maintenance of one lot, a close, or a restart.
LEMMA Steps ==
  ASSUME IInv, Next
  PROVE  \/ \E price \in Prices : Mark(price)
         \/ RouteStep
         \/ \E i \in DOMAIN lots : \E quantity \in CloseQuantities(lots[i]) : Close(i, quantity)
         \/ Restart
<1>. DEFINE closes == \E i \in DOMAIN lots : \E quantity \in CloseQuantities(lots[i]) :
                         Close(i, quantity)
<1>0. \A id : \A i \in Active(id) : i \in DOMAIN lots
  BY DEF Active
<1>1. ASSUME NEW id \in Ids, NEW price \in Prices,
             \/ AmendBracketStop(id, price)
             \/ AmendBracketTrailingStop(id, price)
             \/ TightenBracketTrailingStop(id, price)
             \/ \E index \in {0, 1} : AmendBracketTakeProfit(id, index, price)
             \/ LockBracketProfit(id, price)
      PROVE  RouteStep
  BY <1>1, StopRoute, TrailRoute, TightenRoute, TargetRoute, LockRoute
<1>2. ASSUME NEW id \in Ids, MoveBracketToBreakeven(id) \/ CancelBracket(id)
      PROVE  RouteStep
  BY <1>2, BreakevenRoute, CancelRoute
<1>3. ASSUME NEW id \in Ids, CloseBracket(id) \/ CloseBracketAtProtectiveExit(id)
      PROVE  closes
  <2>1. CASE CloseBracket(id)
    BY <1>0, <2>1 DEF CloseBracket
  <2>2. CASE CloseBracketAtProtectiveExit(id)
    BY <1>0, <2>2 DEF CloseBracketAtProtectiveExit
  <2>. QED BY <1>3, <2>1, <2>2
<1>. HIDE DEF closes
<1>4. (\E price \in Prices : Mark(price)) \/ RouteStep \/ closes \/ Restart
  BY <1>1, <1>2, <1>3 DEF Next
<1>. QED BY <1>4 DEF closes

\* Every step keeps the invariant and adds no exposure.
LEMMA StepInv ==
  ASSUME IInv, Next
  PROVE  IInv' /\ Shrinks(position, position')
<1>0. position \in Int
  BY BookReady
<1>1. CASE \E price \in Prices : Mark(price)
  <2>1. PICK price \in Prices : Mark(price)
    BY <1>1
  <2>. QED BY <2>1, MarkStep
<1>2. CASE RouteStep
  <2>1. IInv' /\ position' = position
    BY <1>2, RouteKeepsInv
  <2>2. Shrinks(position, position)
    BY <1>0 DEF Shrinks
  <2>. QED BY <2>1, <2>2
<1>3. CASE \E i \in DOMAIN lots : \E quantity \in CloseQuantities(lots[i]) : Close(i, quantity)
  <2>1. PICK i \in DOMAIN lots : \E quantity \in CloseQuantities(lots[i]) : Close(i, quantity)
    BY <1>3
  <2>2. PICK quantity \in CloseQuantities(lots[i]) : Close(i, quantity)
    BY <2>1
  <2>. QED BY <2>2, CloseStep
<1>4. CASE Restart
  <2>1. IInv' /\ position' = 0
    BY <1>4, RestartStep
  <2>2. position * position >= 0 /\ 0 * position = 0
    BY <1>0
  <2>. QED BY <2>1, <2>2 DEF Shrinks
<1>. QED BY <1>1, <1>2, <1>3, <1>4, Steps

\* Whatever the recorded history, the marks and the amendments: the lots of the
\* exchange are well formed, all on one side and make up its position, their
\* trailing stops keep up, and what has been recorded replays to that position.
THEOREM Invariance == Spec => []IInv
<1>1. Init => IInv
  BY InitInv
<1>2. IInv /\ [Next]_vars => IInv'
  <2>. SUFFICES ASSUME IInv, [Next]_vars PROVE IInv'
    OBVIOUS
  <2>1. CASE Next
    BY <2>1, StepInv
  <2>2. CASE UNCHANGED vars
    BY <2>2 DEF vars, IInv, TypeOK, PositionMatchesLots
  <2>. QED BY <2>1, <2>2
<1>. QED BY <1>1, <1>2, PTL DEF Spec

\* The position holds exactly what the lots hold (execution.py keeps both).
THEOREM PositionIsItsLots == Spec => []PositionMatchesLots
<1>1. IInv => PositionMatchesLots
  BY DEF IInv
<1>. QED BY <1>1, Invariance, PTL

\* An exchange built from the recorded orders has the position of the one that
\* recorded them, and its own lots make that position up (from_order_history).
THEOREM RecordsReplayToThePosition == Spec => []ReplayRestoresPosition
<1>1. IInv => ReplayRestoresPosition
  BY DEF IInv, ReplayRestoresPosition
<1>. QED BY <1>1, Invariance, PTL

\* An armed trailing stop lies less than one step behind the trigger of its water
\* mark, whatever arms it and whatever moves it (_update_trailing_stop and its
\* callers, _sync_trailing_water_mark); one that has a price of its own does so
\* from the first new best price on.
THEOREM TrailingStopsKeepUp == Spec => []TrailKeepsUp
<1>1. IInv => TrailKeepsUp
  BY DEF IInv, TrailOK, TrailKeepsUp
<1>. QED BY <1>1, Invariance, PTL

\* Neither a mark nor a bracket route adds exposure or turns the position.
THEOREM NothingAddsExposure == Spec => ExposureOnlyShrinks
<1>1. ASSUME IInv, [Next]_vars
      PROVE  [/\ position' * position >= 0
              /\ position' * position' <= position * position]_vars
  BY <1>1, StepInv DEF Shrinks
<1>. QED BY <1>1, Invariance, PTL DEF Spec, ExposureOnlyShrinks

\* A mark that leaves a lot open leaves no exit of it triggered, but for a lot
\* whose trailing stop it has just taken (update_price's loop over the exits).
THEOREM MarksFinishTheirWork == Spec => NothingDueIsLeft
<1>. DEFINE A == \A price \in Prices : Mark(price) =>
                    \A i \in DOMAIN lots, j \in DOMAIN lots' :
                       /\ lots[i].id = lots'[j].id
                       /\ Legs(lots[i], "trailing_stop") # {} => Legs(lots'[j], "trailing_stop") # {}
                       => ~Triggers(lots'[j], price)
<1>1. ASSUME IInv, [Next]_vars PROVE [A]_vars
  <2>1. ASSUME NEW price \in Prices, Mark(price), NEW i \in DOMAIN lots, NEW j \in DOMAIN lots',
               lots[i].id = lots'[j].id,
               Legs(lots[i], "trailing_stop") # {} => Legs(lots'[j], "trailing_stop") # {}
        PROVE  ~Triggers(lots'[j], price)
    <3>1. PICK k \in DOMAIN lots :
            /\ Less(lots[k], lots'[j])
            /\ lots'[j].remaining # 0
            /\ Exhausted(lots[k], lots'[j], price)
      BY <1>1, <2>1, MarkStep DEF LeftBy
    <3>2. k = i
      BY <1>1, <2>1, <3>1 DEF Less, SameSignal, IInv, TypeOK, LotsOK, WellFormed
    <3>. QED BY <2>1, <3>1, <3>2 DEF Exhausted
  <2>2. A
    BY <2>1
  <2>. QED BY <2>2
<1>. QED BY <1>1, Invariance, PTL DEF Spec, NothingDueIsLeft

\* "protective exits only tighten risk" (README.md:43), for marks and routes alike,
\* unless the plan of an entry releases its trailing stop after a target, which
\* may place it lower.
THEOREM ProtectionTightens ==
  ASSUME \A entry \in Entries : ~entry.plan.afterTp
  PROVE  Spec => ProtectionOnlyTightens
<1>. DEFINE A == \A i \in DOMAIN lots, j \in DOMAIN lots' :
                    lots[i].id = lots'[j].id =>
                       \A kind \in Protective :
                          \A a \in Legs(lots[i], kind), b \in Legs(lots'[j], kind) :
                             ~Further(lots[i], lots[i].exits[a].price, lots'[j].exits[b].price)
<1>1. ASSUME IInv, Next, NEW i \in DOMAIN lots, NEW j \in DOMAIN lots',
             lots[i].id = lots'[j].id
      PROVE  NotLoosened(lots[i], lots'[j])
  <2>1. /\ \A k \in DOMAIN lots : lots[k].id = lots[i].id => k = i
        /\ lots[i] \in Lot
        /\ OneEach(lots[i])
        /\ ~lots[i].plan.afterTp
    BY <1>1, BookReady DEF Fit, OfEntry, IInv, TypeOK, LotsOK, WellFormed
  <2>2. CASE \E price \in Prices : Mark(price)
    <3>1. PICK price \in Prices : Mark(price)
      BY <2>2
    <3>2. PICK k \in DOMAIN lots : Less(lots[k], lots'[j])
      BY <1>1, <3>1, MarkStep DEF LeftBy
    <3>3. k = i
      BY <1>1, <2>1, <3>2 DEF Less, SameSignal
    <3>. QED BY <2>1, <3>2, <3>3, FollowsIsNotLoosened DEF Less, Tightens
  <2>3. CASE RouteStep
    BY <1>1, <2>3, RouteKeepsInv
  <2>4. CASE \E k \in DOMAIN lots : \E quantity \in CloseQuantities(lots[k]) : Close(k, quantity)
    <3>1. PICK k \in DOMAIN lots : lots'[j].id = lots[k].id /\ lots'[j].exits = lots[k].exits
      BY <1>1, <2>4, CloseStep
    <3>2. k = i
      BY <1>1, <2>1, <3>1
    <3>. QED BY <2>1, <3>1, <3>2, KeptItself, KeptIsNotLoosened
  <2>5. CASE Restart
    <3>1. lots' = <<>>
      BY <1>1, <2>5, RestartStep
    <3>. QED BY <1>1, <3>1
  <2>. QED BY <1>1, <2>2, <2>3, <2>4, <2>5, Steps
<1>2. ASSUME IInv, [Next]_vars PROVE [A]_vars
  <2>1. CASE Next
    <3>1. A
      BY <1>1, <1>2, <2>1 DEF NotLoosened
    <3>. QED BY <3>1
  <2>2. CASE UNCHANGED vars
    BY <2>2
  <2>. QED BY <1>2, <2>1, <2>2
<1>. QED BY <1>2, Invariance, PTL DEF Spec, ProtectionOnlyTightens
-----------------------------------------------------------------------------
(***************************************************************************)
(* A book of one lot, which is what a preview marks.                       *)
(***************************************************************************)

\* Functions that step alike from the same start are the same.
LEMMA SameRecursion ==
  ASSUME NEW N \in Nat, NEW f, NEW g, f[0] = g[0],
         \A n \in 1 .. N : f[n - 1] = g[n - 1] => f[n] = g[n]
  PROVE  \A n \in 0 .. N : f[n] = g[n]
<1>. DEFINE T == {n \in 0 .. N : f[n] = g[n]}
<1>1. 0 \in T
  OBVIOUS
<1>2. ASSUME NEW n \in 1 .. N, n - 1 \in T PROVE n \in T
  BY <1>2
<1>3. \A n \in 0 .. N : n \in T
  <2>. HIDE DEF T
  <2>. QED BY <1>1, <1>2, IntervalInduction
<1>. QED BY <1>3

\* A signal has one lot in a book (_preview_lots_for_signal).
LEMMA LotsOfSignal ==
  ASSUME NEW book \in Seq(Lot), NEW i \in DOMAIN book,
         \A j \in DOMAIN book : book[j].id = book[i].id => j = i
  PROVE  OfSignal(book, book[i].id) = <<book[i]>>
<1>. DEFINE N == Len(book)
            lot == book[i]
            Next1(n, x) == IF book[n].id = lot.id THEN Append(x, book[n]) ELSE x
            Body(g) == [n \in 0 .. N |-> IF n = 0 THEN <<>> ELSE Next1(n, g[n - 1])]
            kept == CHOOSE h : h = Body(h)
            g == [n \in 0 .. N |-> IF n < i THEN <<>> ELSE <<lot>>]
<1>1. N \in Nat /\ i \in 1 .. N /\ DOMAIN book = 1 .. N
  OBVIOUS
<1>2. OfSignal(book, lot.id) = kept[N]
  BY DEF OfSignal
<1>3. \A n \in 1 .. N : Next1(n, g[n - 1]) = g[n]
  <2>. SUFFICES ASSUME NEW n \in 1 .. N PROVE Next1(n, g[n - 1]) = g[n]
    OBVIOUS
  <2>0. n - 1 \in 0 .. N /\ n \in 0 .. N /\ n \in Int /\ i \in Int
    BY <1>1
  <2>1. g[n - 1] = (IF n - 1 < i THEN <<>> ELSE <<lot>>)
        /\ g[n] = (IF n < i THEN <<>> ELSE <<lot>>)
    <3>. HIDE DEF lot, N
    <3>. QED BY <2>0
  <2>2. CASE n = i
    <3>1. n - 1 < i /\ ~(n < i)
      BY <2>0, <2>2
    <3>2. Next1(n, <<>>) = Append(<<>>, lot)
      BY <2>2
    <3>3. Append(<<>>, lot) = <<lot>>
      <4>. HIDE DEF lot
      <4>. QED OBVIOUS
    <3>. HIDE DEF g, lot, Next1
    <3>. QED BY <2>1, <3>1, <3>2, <3>3
  <2>3. CASE n # i
    <3>1. n - 1 < i <=> n < i
      BY <2>0, <2>3
    <3>2. Next1(n, g[n - 1]) = g[n - 1]
      BY <1>1, <2>3
    <3>. HIDE DEF g, lot, Next1
    <3>. QED BY <2>1, <3>1, <3>2
  <2>. QED BY <2>2, <2>3
<1>4. g[0] = <<>> /\ g[N] = <<lot>>
  <2>1. 0 \in 0 .. N /\ N \in 0 .. N /\ 0 < i /\ ~(N < i)
    BY <1>1
  <2>. HIDE DEF lot, N
  <2>. QED BY <2>1
<1>. HIDE DEF Next1
<1>5. g = Body(g)
  <2>1. \A n \in 0 .. N : g[n] = IF n = 0 THEN <<>> ELSE Next1(n, g[n - 1])
    <3>. HIDE DEF g, N
    <3>. QED BY <1>1, <1>3, <1>4
  <2>. HIDE DEF lot, N
  <2>. QED BY <2>1
<1>. HIDE DEF g, lot, N
<1>6. kept = Body(kept)
  <2>. HIDE DEF Body
  <2>. QED BY <1>5
<1>. HIDE DEF kept
<1>7. kept[0] = <<>> /\ \A n \in 1 .. N : kept[n] = Next1(n, kept[n - 1])
  BY <1>1, <1>6
<1>8. \A n \in 1 .. N : kept[n - 1] = g[n - 1] => kept[n] = g[n]
  BY <1>3, <1>7
<1>9. kept[N] = g[N]
  <2>1. \A n \in 0 .. N : kept[n] = g[n]
    <3>. DEFINE T == {n \in 0 .. N : kept[n] = g[n]}
    <3>1. 0 \in T /\ N \in Nat
      BY <1>1, <1>4, <1>7
    <3>2. \A n \in 1 .. N : n - 1 \in T => n \in T
      BY <1>1, <1>8
    <3>3. \A n \in 0 .. N : n \in T
      <4>. HIDE DEF T
      <4>. QED BY <3>1, <3>2, IntervalInduction, Zenon
    <3>. QED BY <3>3
  <2>. QED BY <1>1, <2>1
<1>. QED BY <1>2, <1>4, <1>9 DEF lot

\* Of a single lot what is left, if anything.
LEMMA OpenOfOne ==
  ASSUME NEW lot \in Lot
  PROVE  Open(<<lot>>) = IF lot.remaining > 0 THEN <<lot>> ELSE <<>>
<1>1. <<lot>> \in Seq(Lot) /\ Len(<<lot>>) = 1 /\ <<lot>>[1] = lot
  OBVIOUS
<1>2. PICK kept :
        /\ kept[0] = <<>>
        /\ \A n \in 1 .. 1 :
              kept[n] = IF <<lot>>[n].remaining > 0 THEN Append(kept[n - 1], <<lot>>[n])
                        ELSE kept[n - 1]
        /\ Open(<<lot>>) = kept[1]
  BY <1>1, OpenStep
<1>3. kept[1] = IF lot.remaining > 0 THEN Append(kept[0], lot) ELSE kept[0]
  <2>1. 1 \in 1 .. 1 /\ 1 - 1 = 0
    OBVIOUS
  <2>. QED BY <1>1, <1>2, <2>1
<1>4. Append(<<>>, lot) = <<lot>>
  OBVIOUS
<1>. QED BY <1>2, <1>3, <1>4

\* Nothing is left of nothing.
LEMMA OpenOfNone == Open(<<>>) = <<>>
<1>1. <<>> \in Seq(Lot) /\ Len(<<>>) = 0
  OBVIOUS
<1>. QED BY <1>1, OpenStep

\* What the loop over the exits of a lot starts with.
Started(lot, position0, price) ==
  [lot |-> [UpdateTrailing(ApplyBreakeven(lot, price), price) EXCEPT !.marks = @ + 1],
   position |-> position0, fills |-> <<>>, done |-> FALSE]

\* The loop over the exits of a lot of a bracket that ends after its first round.
LEMMA LoopOfOneRound ==
  ASSUME NEW lot \in Lot, NEW position0 \in Int, NEW price,
         Ended(NextExit(Started(lot, position0, price), price), price)
  PROVE  MarkLot([lots |-> <<lot>>, position |-> position0, fills |-> <<>>], 1, price)
           = NextExit(Started(lot, position0, price), price)
<1>. DEFINE book == [lots |-> <<lot>>, position |-> position0, fills |-> <<>>]
            rounds == Len(lot.exits) + 1
            first == Started(lot, position0, price)
            round == NextExit(first, price)
            Body(g) == [n \in 0 .. rounds |-> IF n = 0 THEN first ELSE NextExit(g[n - 1], price)]
            run == CHOOSE h : h = Body(h)
            g == [n \in 0 .. rounds |-> IF n = 0 THEN first ELSE round]
<1>1. rounds \in Nat /\ rounds >= 1
  <2>1. lot.exits \in Seq(Leg)
    BY DEF Lot
  <2>. QED BY <2>1
<1>2. MarkLot(book, 1, price) = run[rounds]
  <2>1. book.lots[1] = lot /\ book.position = position0 /\ book.fills = <<>>
    OBVIOUS
  <2>. HIDE DEF book
  <2>. QED BY <2>1 DEF MarkLot, Started
<1>3. NextExit(round, price) = round
  <2>. HIDE DEF round
  <2>1. Ended(round, price)
    BY DEF round
  <2>. QED BY <2>1 DEF Ended, NextExit
<1>. HIDE DEF first, rounds
<1>11. g[0] = first
  <2>1. 0 \in 0 .. rounds
    BY <1>1
  <2>. QED BY <2>1
<1>4. \A n \in 1 .. rounds : g[n] = round /\ NextExit(g[n - 1], price) = round
  <2>. SUFFICES ASSUME NEW n \in 1 .. rounds
                PROVE  g[n] = round /\ NextExit(g[n - 1], price) = round
    OBVIOUS
  <2>1. n \in 0 .. rounds /\ n - 1 \in 0 .. rounds /\ n # 0
    BY <1>1
  <2>2. g[n] = round
    BY <2>1
  <2>3. g[n - 1] = first \/ g[n - 1] = round
    BY <2>1
  <2>. HIDE DEF g
  <2>. QED BY <1>3, <2>2, <2>3 DEF round
<1>. HIDE DEF round
<1>5. g = Body(g)
  <2>1. \A n \in 0 .. rounds : g[n] = IF n = 0 THEN first ELSE NextExit(g[n - 1], price)
    <3>. HIDE DEF g
    <3>. QED BY <1>1, <1>4, <1>11
  <2>. QED BY <2>1
<1>. HIDE DEF g
<1>6. run = Body(run)
  <2>. HIDE DEF Body
  <2>. QED BY <1>5
<1>. HIDE DEF run
<1>7. run[0] = first /\ \A n \in 1 .. rounds : run[n] = NextExit(run[n - 1], price)
  BY <1>1, <1>6
<1>8. \A n \in 1 .. rounds : run[n - 1] = g[n - 1] => run[n] = g[n]
  BY <1>4, <1>7
<1>9. run[rounds] = g[rounds]
  <2>1. \A n \in 0 .. rounds : run[n] = g[n]
    BY <1>1, <1>7, <1>8, <1>11, SameRecursion
  <2>. QED BY <1>1, <2>1
<1>10. rounds \in 1 .. rounds
  BY <1>1
<1>. QED BY <1>2, <1>4, <1>9, <1>10 DEF round, first, book

\* A mark visits the only lot there is.
LEMMA OneVisited ==
  ASSUME NEW book, NEW lot \in Lot, book.lots = <<lot>>, NEW price
  PROVE  LET run == MarkLot([lots |-> <<lot>>, position |-> book.position, fills |-> <<>>],
                            1, price)
         IN  Visited(book, price)[Len(book.lots)]
               = [lots |-> <<run.lot>>, position |-> run.position, fills |-> run.fills]
<1>. DEFINE start == [lots |-> book.lots, position |-> book.position, fills |-> <<>>]
            run(x, n) == MarkLot(x, n, price)
            Visit(n, x) == [lots |-> [x.lots EXCEPT ![n] = run(x, n).lot],
                            position |-> run(x, n).position, fills |-> run(x, n).fills]
            Body(g) == [n \in 0 .. Len(book.lots) |->
                          IF n = 0 THEN start ELSE Visit(n, g[n - 1])]
            after == CHOOSE h : h = Body(h)
            g == [n \in 0 .. 1 |-> IF n = 0 THEN start ELSE Visit(1, start)]
<1>1. Visited(book, price) = after
  BY DEF Visited
<1>2. Len(book.lots) = 1
  OBVIOUS
<1>. HIDE DEF Visit, start
<1>3. g = Body(g)
  <2>1. g[0] = start /\ g[1] = Visit(1, start)
    OBVIOUS
  <2>2. 0 .. 1 = {0, 1}
    OBVIOUS
  <2>3. \A n \in 0 .. 1 : g[n] = IF n = 0 THEN start ELSE Visit(n, g[n - 1])
    <3>1. 1 - 1 = 0
      OBVIOUS
    <3>. HIDE DEF g
    <3>. QED BY <2>1, <2>2, <3>1
  <2>. QED BY <1>2, <2>3
<1>4. after = Body(after)
  <2>. HIDE DEF Body, g
  <2>. QED BY <1>3
<1>. HIDE DEF after
<1>5. after[0] = start /\ after[1] = Visit(1, after[0])
  <2>1. 0 \in 0 .. 1 /\ 1 \in 0 .. 1 /\ 1 - 1 = 0
    OBVIOUS
  <2>. QED BY <1>2, <1>4, <2>1
<1>6. start = [lots |-> <<lot>>, position |-> book.position, fills |-> <<>>]
  BY DEF start
<1>7. \A x : [<<lot>> EXCEPT ![1] = x] = <<x>>
  OBVIOUS
<1>8. start.lots = <<lot>>
  BY <1>6
<1>9. after[1] = [lots |-> <<run(start, 1).lot>>, position |-> run(start, 1).position,
                  fills |-> run(start, 1).fills]
  <2>. HIDE DEF run
  <2>. QED BY <1>5, <1>7, <1>8 DEF Visit
<1>. QED BY <1>1, <1>2, <1>6, <1>9

-----------------------------------------------------------------------------
(***************************************************************************)
(* What a mark at the last of the protective triggers does to a lot.       *)
(***************************************************************************)

\* A mark moves and opens trailing legs and leaves the other legs alone
\* (_update_trailing_stop).
LEMMA TrailingLegs ==
  ASSUME NEW lot \in Lot, NEW price \in Int
  PROVE  LET after == UpdateTrailing(lot, price)
         IN  /\ lot.activated => after.activated
             /\ \A i \in DOMAIN lot.exits :
                   /\ after.exits[i].pct = lot.exits[i].pct
                   /\ lot.exits[i].status = "open" => after.exits[i].status = "open"
                   /\ lot.exits[i].kind # "trailing_stop" => after.exits[i] = lot.exits[i]
<1>. DEFINE water == IF lot.water = NoWater THEN MarkAt(lot, lot.entry) ELSE lot.water
            trigger == TriggerBehind(lot, MarkAt(lot, price))
            armed == [lot EXCEPT !.activated = TRUE, !.water = MarkAt(lot, price)]
            exits == [i \in DOMAIN lot.exits |->
                        IF lot.exits[i].kind = "trailing_stop"
                        THEN [lot.exits[i] EXCEPT !.price = trigger, !.status = "open"]
                        ELSE lot.exits[i]]
            after == UpdateTrailing(lot, price)
<1>1. after \in {lot, [lot EXCEPT !.water = water], armed, Retrailed(armed, trigger)}
  BY DEF UpdateTrailing
<1>2. /\ armed.exits = lot.exits /\ armed.activated = TRUE
      /\ [lot EXCEPT !.water = water].exits = lot.exits
      /\ [lot EXCEPT !.water = water].activated = lot.activated
  BY DEF Lot
<1>3. Retrailed(armed, trigger) = [armed EXCEPT !.exits = exits]
  <2>. HIDE DEF armed, trigger
  <2>. QED BY <1>2 DEF Retrailed
<1>4. Retrailed(armed, trigger).exits = exits /\ Retrailed(armed, trigger).activated = TRUE
  <2>. HIDE DEF exits
  <2>. QED BY <1>3 DEF Lot
<1>5. ASSUME NEW i \in DOMAIN lot.exits
      PROVE  /\ exits[i].pct = lot.exits[i].pct
             /\ lot.exits[i].status = "open" => exits[i].status = "open"
             /\ lot.exits[i].kind # "trailing_stop" => exits[i] = lot.exits[i]
  <2>1. lot.exits[i] \in Leg
    BY LegOfLot
  <2>. HIDE DEF trigger
  <2>. QED BY <2>1 DEF Leg
<1>. HIDE DEF after, exits, armed, trigger
<1>. QED BY <1>1, <1>2, <1>4, <1>5 DEF after

\* A lot as the loop over its exits finds it, whatever the mark: its legs are the
\* ones it had, the protection no further from the market, what was open still open.
StillHeld(lot, moved) ==
  /\ moved \in Lot
  /\ SameLot(lot, moved)
  /\ Kept(lot, moved)
  /\ lot.activated => moved.activated
  /\ \A i \in DOMAIN lot.exits :
        /\ moved.exits[i].pct = lot.exits[i].pct
        /\ lot.exits[i].status = "open" => moved.exits[i].status = "open"
        /\ lot.exits[i].kind = "stop_loss" => moved.exits[i].status = lot.exits[i].status
        /\ lot.exits[i].kind \notin Protective => moved.exits[i] = lot.exits[i]

\* A mark leaves every lot so.
LEMMA LotStillHeld ==
  ASSUME NEW lot \in Lot, OneEach(lot), NEW price \in Int
  PROVE  StillHeld(lot, [UpdateTrailing(ApplyBreakeven(lot, price), price) EXCEPT !.marks = @ + 1])
<1>. DEFINE even == ApplyBreakeven(lot, price)
            trailed == UpdateTrailing(even, price)
            moved == [trailed EXCEPT !.marks = @ + 1]
<1>1. /\ even \in Lot
      /\ SameLot(lot, even)
      /\ even.activated = lot.activated
      /\ Kept(lot, even)
  BY BreakevenMoves
<1>2. \A i \in DOMAIN lot.exits :
         /\ even.exits[i].status = lot.exits[i].status
         /\ even.exits[i].pct = lot.exits[i].pct
         /\ lot.exits[i].kind \notin Protective => even.exits[i] = lot.exits[i]
  BY BreakevenLegs
<1>. HIDE DEF even
<1>3. OneEach(even)
  BY <1>1, OneEachKept
<1>4. trailed \in Lot /\ SameLot(even, trailed) /\ Kept(even, trailed)
  BY <1>1, <1>3, UpdateTrailingType, UpdateTrailingKeeps
<1>5. /\ even.activated => trailed.activated
      /\ \A i \in DOMAIN even.exits :
            /\ trailed.exits[i].pct = even.exits[i].pct
            /\ even.exits[i].status = "open" => trailed.exits[i].status = "open"
            /\ even.exits[i].kind # "trailing_stop" => trailed.exits[i] = even.exits[i]
  BY <1>1, TrailingLegs
<1>. HIDE DEF trailed
<1>6. /\ moved \in Lot
      /\ SameLot(trailed, moved)
      /\ moved.exits = trailed.exits
      /\ moved.activated = trailed.activated
  <2>1. trailed.marks + 1 \in Int
    BY <1>4 DEF Lot
  <2>. QED BY <1>4, <2>1 DEF Lot, SameLot
<1>. HIDE DEF moved
<1>7. Kept(lot, moved)
  <2>1. Kept(lot, trailed)
    BY <1>1, <1>4, KeptIsTransitive DEF SameLot
  <2>. QED BY <1>6, <2>1 DEF Kept
<1>8. SameLot(lot, moved)
  BY <1>1, <1>4, <1>6 DEF SameLot
<1>9. DOMAIN even.exits = DOMAIN lot.exits
      /\ \A i \in DOMAIN lot.exits : even.exits[i].kind = lot.exits[i].kind
  BY <1>1 DEF Kept
<1>10. \A i \in DOMAIN lot.exits :
        /\ moved.exits[i].pct = lot.exits[i].pct
        /\ lot.exits[i].status = "open" => moved.exits[i].status = "open"
        /\ lot.exits[i].kind = "stop_loss" => moved.exits[i].status = lot.exits[i].status
        /\ lot.exits[i].kind \notin Protective => moved.exits[i] = lot.exits[i]
  BY <1>2, <1>5, <1>6, <1>9 DEF Protective
<1>. QED BY <1>1, <1>5, <1>6, <1>7, <1>8, <1>10 DEF StillHeld, moved, trailed, even

\* A lot that a mark at this price finds at its protection: the price is at or past
\* the trigger of every open protective leg.
AtProtection(lot, position0, price) ==
  /\ lot \in Lot
  /\ OneEach(lot)
  /\ Armed(lot)
  /\ lot.remaining > 0
  /\ lot.original >= 0
  /\ lot.dir * position0 >= lot.remaining
  /\ \A i \in OpenProtection(lot) : ~Further(lot, price, lot.exits[i].price)

\* The lot with one leg less and this quantity left.
CutDown(lot, i, rest) ==
  [[lot EXCEPT !.remaining = rest] EXCEPT !.exits = WithoutLeg(@, i)]

\* What such a mark takes of the lot: leg i all of it, or its share and itself.
TakenBy(lot, position0, run, i, moved) ==
  \/ /\ ClosesAll(lot, i)
     /\ run.lot.remaining = 0
     /\ run.lot \in Lot
  \/ /\ ~ClosesAll(lot, i)
     /\ lot.exits[i].kind = "trailing_stop"
     /\ run.done
     /\ run.lot.remaining > 0
     /\ run.lot.dir * run.position >= run.lot.remaining
     /\ run.position \in Int
     /\ \E rest \in Int : run.lot = CutDown(moved, i, rest)

\* An open protective leg that is at its trigger is taken first.
LEMMA ProtectionStrikes ==
  ASSUME NEW lot, NEW position0 \in Int, NEW price \in Int,
         AtProtection(lot, position0, price), OpenProtection(lot) # {}
  PROVE  LET first == Started(lot, position0, price)
             run == NextExit(first, price)
         IN  \E i \in DOMAIN lot.exits :
                /\ lot.exits[i].kind \in Protective
                /\ lot.exits[i].kind = "stop_loss" => lot.exits[i].status = "open"
                /\ TakenBy(lot, position0, run, i, first.lot)
<1>. DEFINE first == Started(lot, position0, price)
            moved == first.lot
            run == NextExit(first, price)
            leg == TriggeredExit(moved, price)
            kind == TriggeredKind(moved, leg)
            quantity == ExitQuantity(moved, leg)
            taken == Taken(moved, position0, quantity)
            closed == [moved EXCEPT !.remaining = @ - taken]
            filled == [closed EXCEPT !.exits = WithoutLeg(@, leg)]
<1>1. /\ lot \in Lot
      /\ OneEach(lot)
      /\ Armed(lot)
      /\ lot.dir \in {1, -1}
      /\ lot.remaining \in Int
      /\ lot.remaining > 0
      /\ lot.original \in Nat
      /\ lot.dir * position0 >= lot.remaining
  BY LotFields DEF AtProtection
<1>2. StillHeld(lot, moved)
  BY <1>1, LotStillHeld DEF Started
<1>3. first.position = position0 /\ ~first.done
  BY DEF Started
<1>. HIDE DEF first
<1>4. /\ moved \in Lot
      /\ SameLot(lot, moved)
      /\ moved.dir = lot.dir /\ moved.remaining = lot.remaining /\ moved.original = lot.original
      /\ DOMAIN moved.exits = DOMAIN lot.exits
      /\ \A i \in DOMAIN lot.exits : moved.exits[i].kind = lot.exits[i].kind
  BY <1>2 DEF StillHeld, SameLot, Kept
<1>5. Crossed(moved, price) # {}
  <2>1. PICK i \in DOMAIN lot.exits :
           lot.exits[i].kind \in Protective /\ lot.exits[i].status = "open"
    BY DEF OpenProtection
  <2>2. ~Further(lot, price, lot.exits[i].price)
    BY <2>1 DEF AtProtection, OpenProtection
  <2>3. ~Further(lot, lot.exits[i].price, moved.exits[i].price)
    BY <1>2, <2>1 DEF StillHeld, Kept
  <2>4. ~Further(lot, price, moved.exits[i].price)
    BY <1>1, <1>4, <2>2, <2>3, LegOfLot, NotFurtherIsTransitive
  <2>5. ~Further(moved, price, moved.exits[i].price)
    BY <1>4, <2>4, SameDirection
  <2>6. moved.exits[i].status = "open"
    BY <1>2, <2>1 DEF StillHeld
  <2>7. lot.exits[i].kind = "trailing_stop" => moved.activated
    BY <1>1, <1>2, <2>1 DEF Armed, Legs, StillHeld
  <2>8. i \in Crossed(moved, price)
    BY <1>4, <2>1, <2>5, <2>6, <2>7 DEF Crossed, Protective
  <2>. QED BY <2>8
<1>6. leg \in Crossed(moved, price)
  <2>1. Crossed(moved, price) \in SUBSET DOMAIN moved.exits
    BY DEF Crossed
  <2>. QED BY <1>4, <1>5, <2>1, NearestLegOf DEF TriggeredExit
<1>7. /\ leg \in DOMAIN lot.exits
      /\ moved.exits[leg].status = "open"
      /\ lot.exits[leg].kind \in Protective
      /\ moved.exits[leg].kind = lot.exits[leg].kind
      /\ moved.exits[leg].pct = lot.exits[leg].pct
  BY <1>2, <1>4, <1>6 DEF Crossed, Protective, StillHeld
<1>8. lot.exits[leg].kind = "stop_loss" => lot.exits[leg].status = "open"
  BY <1>2, <1>7 DEF StillHeld
<1>9. kind = lot.exits[leg].kind
  <2>1. leg # 0
    <3>1. lot.exits \in Seq(Leg)
      BY <1>1, LegOfLot, <1>7
    <3>2. DOMAIN lot.exits \subseteq Nat \ {0}
      BY <3>1
    <3>. HIDE DEF leg
    <3>. QED BY <1>7, <3>2
  <2>. HIDE DEF leg
  <2>. QED BY <1>7, <2>1 DEF TriggeredKind
<1>10. Triggers(moved, price)
  BY <1>5 DEF Triggers
<1>11. run = [lot |-> IF closed.remaining = 0 THEN [closed EXCEPT !.exits = <<>>]
                      ELSE IF kind = "take_profit"
                      THEN LockAfterTp(ReleaseTrailing([filled EXCEPT !.tpFilled = TRUE], price))
                      ELSE IF kind = "trailing_stop" THEN filled
                      ELSE closed,
              position |-> position0 - moved.dir * taken,
              fills |-> Append(first.fills, [dir |-> moved.dir, quantity |-> quantity]),
              done |-> EndsLoop(kind)]
  BY <1>1, <1>3, <1>4, <1>10 DEF NextExit
<1>12. quantity = IF kind = "trailing_stop" /\ lot.original * lot.exits[leg].pct < 100 * lot.remaining
                  THEN (lot.original * lot.exits[leg].pct) \div 100 ELSE lot.remaining
  <2>. HIDE DEF leg, moved
  <2>. QED BY <1>4, <1>7, <1>9 DEF ExitQuantity, Protective
<1>. DEFINE share == lot.original * lot.exits[leg].pct
<1>13. share \in Nat
  <2>1. lot.exits[leg] \in Leg
    BY <1>1, <1>7, LegOfLot
  <2>2. lot.exits[leg].pct \in Nat
    BY <2>1 DEF Leg
  <2>. HIDE DEF leg
  <2>. QED BY <1>1, <2>2
<1>14. ClosesAll(lot, leg) <=> kind = "stop_loss" \/ share >= 100 * lot.remaining
  BY <1>9 DEF ClosesAll
<1>15. kind \in {"stop_loss", "trailing_stop"}
  BY <1>7, <1>9 DEF Protective
<1>. HIDE DEF share, kind, leg, moved, quantity
<1>16. /\ quantity \in 0 .. lot.remaining
       /\ quantity = lot.remaining <=> ClosesAll(lot, leg)
  <2>1. CASE kind = "trailing_stop" /\ share < 100 * lot.remaining
    <3>1. share \div 100 \in 0 .. lot.remaining /\ share \div 100 < lot.remaining
      BY <1>1, <1>13, <2>1
    <3>2. quantity = share \div 100
      BY <1>12, <2>1 DEF share
    <3>3. ~ClosesAll(lot, leg)
      BY <1>1, <1>13, <1>14, <2>1
    <3>. QED BY <1>1, <3>1, <3>2, <3>3
  <2>2. CASE ~(kind = "trailing_stop" /\ share < 100 * lot.remaining)
    <3>1. quantity = lot.remaining
      BY <1>12, <2>2 DEF share
    <3>2. ClosesAll(lot, leg)
      BY <1>1, <1>13, <1>14, <1>15, <2>2
    <3>. QED BY <1>1, <3>1, <3>2
  <2>. QED BY <2>1, <2>2
<1>17. taken = quantity
  <2>1. CASE lot.dir = 1
    BY <1>1, <1>4, <1>16, <2>1 DEF Taken, Held, Least
  <2>2. CASE lot.dir = -1
    BY <1>1, <1>4, <1>16, <2>2 DEF Taken, Held, Least
  <2>. QED BY <1>1, <2>1, <2>2
<1>. HIDE DEF taken
<1>18. closed \in Lot /\ closed.remaining = lot.remaining - quantity /\ closed.dir = lot.dir
  <2>1. lot.remaining - taken \in Int
    BY <1>1, <1>16, <1>17
  <2>. QED BY <1>4, <1>17, <2>1 DEF Lot
<1>19. CASE ClosesAll(lot, leg)
  <2>1. closed.remaining = 0
    BY <1>1, <1>16, <1>18, <1>19
  <2>2. run.lot = [closed EXCEPT !.exits = <<>>]
    BY <1>11, <2>1
  <2>. HIDE DEF closed, run
  <2>3. run.lot \in Lot /\ run.lot.remaining = 0
    <3>1. <<>> \in Seq(Leg)
      OBVIOUS
    <3>. QED BY <1>18, <2>1, <2>2, <3>1 DEF Lot
  <2>4. TakenBy(lot, position0, run, leg, moved)
    BY <1>19, <2>3 DEF TakenBy
  <2>. QED BY <1>7, <1>8, <2>4 DEF run, moved, first
<1>20. CASE ~ClosesAll(lot, leg)
  <2>1. closed.remaining # 0 /\ closed.remaining > 0
    BY <1>1, <1>16, <1>18, <1>20
  <2>2. kind = "trailing_stop"
    BY <1>14, <1>15, <1>20
  <2>3. run.lot = filled /\ run.position = position0 - lot.dir * quantity /\ run.done
    <3>1. kind # "take_profit" /\ EndsLoop(kind)
      BY <2>2 DEF EndsLoop
    <3>. HIDE DEF filled, closed, run
    <3>2. run.lot = filled /\ run.position = position0 - moved.dir * taken /\ run.done = EndsLoop(kind)
      BY <1>11, <2>1, <2>2, <3>1
    <3>. QED BY <1>4, <1>17, <3>1, <3>2
  <2>4. filled.remaining = closed.remaining /\ filled.dir = lot.dir
    BY <1>18 DEF Lot
  <2>5. filled = CutDown(moved, leg, lot.remaining - quantity)
    BY <1>4, <1>17 DEF CutDown
  <2>6. lot.dir * (position0 - lot.dir * quantity) >= lot.remaining - quantity
        /\ position0 - lot.dir * quantity \in Int
    <3>1. CASE lot.dir = 1
      BY <1>1, <1>16, <3>1
    <3>2. CASE lot.dir = -1
      BY <1>1, <1>16, <3>2
    <3>. QED BY <1>1, <3>1, <3>2
  <2>7. lot.remaining - quantity \in Int
    BY <1>1, <1>16
  <2>8. lot.exits[leg].kind = "trailing_stop"
    BY <1>9, <2>2
  <2>. HIDE DEF filled, closed, run
  <2>9. TakenBy(lot, position0, run, leg, moved)
    BY <1>18, <1>20, <2>1, <2>3, <2>4, <2>5, <2>6, <2>7, <2>8 DEF TakenBy
  <2>. QED BY <1>7, <1>8, <2>9 DEF run, moved, first
<1>. QED BY <1>19, <1>20

\* A lot without its trailing leg: the others are the same.
LEMMA TrailingTaken ==
  ASSUME NEW lot \in Lot, OneEach(lot), NEW t \in Legs(lot, "trailing_stop"), NEW rest \in Int,
         NEW cut, cut = CutDown(lot, t, rest)
  PROVE  /\ cut \in Lot
         /\ OneEach(cut)
         /\ Legs(cut, "trailing_stop") = {}
         /\ cut.remaining = rest
         /\ cut.dir = lot.dir
         /\ cut.plan = lot.plan
         /\ cut.original = lot.original
         /\ cut.activated = lot.activated
         /\ \A k \in DOMAIN cut.exits :
               \E j \in DOMAIN lot.exits : j # t /\ cut.exits[k] = lot.exits[j]
         /\ \A j \in DOMAIN lot.exits :
               j # t => \E k \in DOMAIN cut.exits : cut.exits[k] = lot.exits[j]
<1>. DEFINE exits == WithoutLeg(lot.exits, t)
            from(k) == IF k < t THEN k ELSE k + 1
            to(j) == IF j < t THEN j ELSE j - 1
            N == Len(lot.exits)
<1>1. lot.exits \in Seq(Leg) /\ t \in DOMAIN lot.exits
  BY DEF Lot, Legs
<1>2. /\ exits \in Seq(Leg)
      /\ DOMAIN exits = 1 .. N - 1
      /\ \A k \in 1 .. N - 1 : exits[k] = IF k < t THEN lot.exits[k] ELSE lot.exits[k + 1]
  BY <1>1, WithoutLegOf
<1>3. N \in Nat /\ t \in 1 .. N /\ DOMAIN lot.exits = 1 .. N
  BY <1>1
<1>4. cut = [[lot EXCEPT !.remaining = rest] EXCEPT !.exits = exits]
  BY DEF Lot, CutDown
<1>. HIDE DEF exits, N
<1>5. /\ cut \in Lot
      /\ cut.exits = exits
      /\ cut.remaining = rest
      /\ cut.dir = lot.dir
      /\ cut.plan = lot.plan
      /\ cut.original = lot.original
      /\ cut.activated = lot.activated
  BY <1>2, <1>4 DEF Lot
<1>6. ASSUME NEW k \in DOMAIN exits
      PROVE  from(k) \in DOMAIN lot.exits /\ exits[k] = lot.exits[from(k)] /\ from(k) # t
  BY <1>2, <1>3
<1>7. \A k, m \in DOMAIN exits : from(k) = from(m) => k = m
  BY <1>2, <1>3
<1>8. ASSUME NEW j \in DOMAIN lot.exits, j # t
      PROVE  to(j) \in DOMAIN exits /\ exits[to(j)] = lot.exits[j]
  <2>1. CASE j < t
    <3>1. to(j) = j /\ j \in 1 .. N - 1
      BY <1>3, <2>1
    <3>. QED BY <1>2, <2>1, <3>1
  <2>2. CASE ~(j < t)
    <3>1. to(j) = j - 1 /\ j - 1 \in 1 .. N - 1 /\ ~(j - 1 < t) /\ j - 1 + 1 = j
      BY <1>3, <1>8, <2>2
    <3>. HIDE DEF to
    <3>. QED BY <1>2, <3>1
  <2>. QED BY <2>1, <2>2
<1>. HIDE DEF from, to
<1>9. \A kind : \A k \in Legs(cut, kind) : from(k) \in Legs(lot, kind) /\ from(k) # t
  BY <1>5, <1>6 DEF Legs
<1>10. OneEach(cut)
  BY <1>5, <1>7, <1>9 DEF OneEach, Legs
<1>11. Legs(cut, "trailing_stop") = {}
  BY <1>9 DEF OneEach, Protective
<1>12. \A k \in DOMAIN cut.exits :
          \E j \in DOMAIN lot.exits : j # t /\ cut.exits[k] = lot.exits[j]
  BY <1>5, <1>6
<1>13. \A j \in DOMAIN lot.exits :
          j # t => \E k \in DOMAIN cut.exits : cut.exits[k] = lot.exits[j]
  BY <1>5, <1>8
<1>. QED BY <1>5, <1>10, <1>11, <1>12, <1>13

\* A mark on a book of one lot (update_price).
LEMMA MarkOfOne ==
  ASSUME NEW book, NEW lot \in Lot, book.lots = <<lot>>, book.position \in Int,
         book.position # 0, NEW price,
         Ended(NextExit(Started(lot, book.position, price), price), price),
         NextExit(Started(lot, book.position, price), price).lot \in Lot
  PROVE  LET run == NextExit(Started(lot, book.position, price), price)
         IN  /\ Marked(book, price).lots = IF run.lot.remaining > 0 THEN <<run.lot>> ELSE <<>>
             /\ Marked(book, price).position = run.position
<1>. DEFINE run == NextExit(Started(lot, book.position, price), price)
            after == [lots |-> <<run.lot>>, position |-> run.position, fills |-> run.fills]
<1>1. run = MarkLot([lots |-> <<lot>>, position |-> book.position, fills |-> <<>>], 1, price)
  BY LoopOfOneRound
<1>. HIDE DEF run
<1>2. Visited(book, price)[Len(book.lots)] = after
  <2>1. MarkLot([lots |-> <<lot>>, position |-> book.position, fills |-> <<>>], 1, price) = run
    BY <1>1
  <2>2. Visited(book, price)[Len(book.lots)]
          = LET round == MarkLot([lots |-> <<lot>>, position |-> book.position, fills |-> <<>>],
                                 1, price)
            IN  [lots |-> <<round.lot>>, position |-> round.position, fills |-> round.fills]
    BY OneVisited, ZenonT(30)
  <2>. QED BY <2>1, <2>2
<1>3. Marked(book, price) = [after EXCEPT !.lots = Open(@)]
  <2>. HIDE DEF after
  <2>. QED BY <1>2 DEF Marked
<1>4. Marked(book, price).lots = Open(<<run.lot>>) /\ Marked(book, price).position = run.position
  BY <1>3
<1>. QED BY <1>4, OpenOfOne DEF run

\* A mark on a book of none.
LEMMA MarkOfNone ==
  ASSUME NEW book, book.lots = <<>>, NEW price
  PROVE  Marked(book, price).lots = <<>>
<1>. DEFINE start == [lots |-> book.lots, position |-> book.position, fills |-> <<>>]
            Visit(n, x) == LET run == MarkLot(x, n, price)
                           IN  [lots |-> [x.lots EXCEPT ![n] = run.lot],
                                position |-> run.position, fills |-> run.fills]
            Body(g) == [n \in 0 .. Len(book.lots) |->
                          IF n = 0 THEN start ELSE Visit(n, g[n - 1])]
            after == CHOOSE h : h = Body(h)
            g == [n \in 0 .. 0 |-> start]
<1>1. Visited(book, price) = after
  BY DEF Visited
<1>2. Len(book.lots) = 0 /\ 0 .. 0 = {0}
  OBVIOUS
<1>. HIDE DEF Visit, start
<1>3. g = Body(g)
  BY <1>2
<1>4. after = Body(after)
  <2>. HIDE DEF Body, g
  <2>. QED BY <1>3
<1>. HIDE DEF after
<1>5. after[0] = start
  BY <1>2, <1>4
<1>6. Visited(book, price)[Len(book.lots)] = start
  BY <1>1, <1>2, <1>5
<1>7. Marked(book, price).lots \in {book.lots, Open(book.lots)}
  BY <1>6 DEF Marked, start
<1>. QED BY <1>7, OpenOfNone

\* The last of the open protective triggers is one of them, and no other lies
\* behind it.
LEMMA LastOfProtection ==
  ASSUME NEW lot \in Lot, OpenProtection(lot) # {}
  PROVE  /\ LastProtection(lot) \in Int
         /\ \A i \in OpenProtection(lot) : ~Further(lot, LastProtection(lot), lot.exits[i].price)
<1>. DEFINE legs == OpenProtection(lot)
            turned == [lot EXCEPT !.dir = -lot.dir]
            last == NearestLeg(turned, legs)
            Outermost(i) == \A j \in legs : ~Further(lot, lot.exits[i].price, lot.exits[j].price)
<1>1. lot.dir \in {1, -1}
  BY LotFields
<1>2. turned \in Lot /\ turned.exits = lot.exits /\ turned.dir = -lot.dir
  <2>1. -lot.dir \in {1, -1}
    BY <1>1
  <2>. QED BY <2>1 DEF Lot
<1>. HIDE DEF turned
<1>3. legs \in SUBSET DOMAIN lot.exits /\ legs # {}
  BY DEF OpenProtection
<1>4. last \in legs /\ \A j \in legs : ~Further(turned, lot.exits[j].price, lot.exits[last].price)
  <2>. HIDE DEF legs
  <2>1. legs \in SUBSET DOMAIN turned.exits
    BY <1>2, <1>3
  <2>. QED BY <1>2, <1>3, <2>1, NearestLegOf
<1>5. \A i, j \in legs : lot.exits[i].price \in Int /\ lot.exits[j].price \in Int
  BY <1>3, LegOfLot
<1>6. ASSUME NEW a \in Int, NEW b \in Int, ~Further(turned, b, a) PROVE ~Further(lot, a, b)
  <2>1. CASE lot.dir = 1
    BY <1>2, <1>6, <2>1 DEF Further
  <2>2. CASE lot.dir = -1
    BY <1>2, <1>6, <2>2 DEF Further
  <2>. QED BY <1>1, <2>1, <2>2
<1>. HIDE DEF last, legs
<1>7. Outermost(last)
  BY <1>4, <1>5, <1>6
<1>8. \E i \in legs : Outermost(i)
  BY <1>4, <1>7
<1>. DEFINE chosen == CHOOSE i \in legs : Outermost(i)
<1>9. chosen \in legs /\ Outermost(chosen)
  <2>. HIDE DEF Outermost
  <2>. QED BY <1>8
<1>10. LastProtection(lot) = lot.exits[chosen].price
  BY DEF LastProtection, legs
<1>. HIDE DEF chosen
<1>. QED BY <1>5, <1>9, <1>10 DEF legs

\* What is left of a lot after a mark that took only its trailing stop.
AfterTrailing(lot, lot1, position1, price) ==
  /\ AtProtection(lot1, position1, price)
  /\ position1 # 0
  /\ lot1.plan = lot.plan
  /\ Legs(lot1, "trailing_stop") = {}
  /\ \A i \in OpenProtection(lot) :
        lot.exits[i].kind = "stop_loss" => OpenProtection(lot1) # {}
  /\ OpenProtection(lot1) # {} =>
        \E i \in OpenProtection(lot) : lot.exits[i].kind = "stop_loss"
  /\ Reached(lot1, price) # {} => Reached(lot, price) # {}

\* What a mark at the protection leaves of a book of one lot.
Struck(lot, after, price) ==
  \E i \in DOMAIN lot.exits :
     /\ lot.exits[i].kind \in Protective
     /\ lot.exits[i].kind = "stop_loss" => lot.exits[i].status = "open"
     /\ \/ /\ ClosesAll(lot, i)
           /\ after.lots = <<>>
        \/ /\ ~ClosesAll(lot, i)
           /\ lot.exits[i].kind = "trailing_stop"
           /\ \E lot1 : after.lots = <<lot1>> /\ AfterTrailing(lot, lot1, after.position, price)
           /\ after.position \in Int

\* A mark at the protection of the only lot there is closes the lot, or it takes
\* the trailing stop and leaves the rest of the bracket as it was.
LEMMA FirstMark ==
  ASSUME NEW book, NEW lot, book.lots = <<lot>>, book.position \in Int, NEW price \in Int,
         AtProtection(lot, book.position, price), OpenProtection(lot) # {}
  PROVE  Struck(lot, Marked(book, price), price)
<1>. DEFINE first == Started(lot, book.position, price)
            moved == first.lot
            run == NextExit(first, price)
            after == Marked(book, price)
<1>1. /\ lot \in Lot
      /\ OneEach(lot)
      /\ lot.dir \in {1, -1}
      /\ lot.remaining \in Int
      /\ lot.remaining > 0
      /\ lot.original \in Nat
      /\ lot.dir * book.position >= lot.remaining
      /\ \A i \in OpenProtection(lot) : ~Further(lot, price, lot.exits[i].price)
  BY LotFields DEF AtProtection
<1>2. StillHeld(lot, moved)
  BY <1>1, LotStillHeld DEF Started
<1>3. book.position # 0
  <2>1. lot.dir * 0 = 0
    BY <1>1
  <2>. QED BY <1>1, <2>1
<1>4. PICK t \in DOMAIN lot.exits :
         /\ lot.exits[t].kind \in Protective
         /\ lot.exits[t].kind = "stop_loss" => lot.exits[t].status = "open"
         /\ TakenBy(lot, book.position, run, t, moved)
  BY ProtectionStrikes
<1>5. /\ run.lot \in Lot /\ Ended(run, price) => 
            /\ after.lots = IF run.lot.remaining > 0 THEN <<run.lot>> ELSE <<>>
            /\ after.position = run.position
  BY <1>1, <1>3, MarkOfOne
<1>. HIDE DEF after, run, first
<1>6. CASE ClosesAll(lot, t)
  <2>1. run.lot \in Lot /\ run.lot.remaining = 0
    BY <1>4, <1>6 DEF TakenBy
  <2>2. after.lots = <<>>
    BY <1>5, <2>1 DEF Ended
  <2>. QED BY <1>4, <1>6, <2>2 DEF after, Struck
<1>7. CASE ~ClosesAll(lot, t)
  <2>1. PICK rest \in Int : run.lot = CutDown(moved, t, rest)
    BY <1>4, <1>7 DEF TakenBy
  <2>2. /\ lot.exits[t].kind = "trailing_stop"
        /\ run.done
        /\ run.lot.remaining > 0
        /\ run.lot.dir * run.position >= run.lot.remaining
        /\ run.position \in Int
    BY <1>4, <1>7 DEF TakenBy
  <2>3. /\ moved \in Lot
        /\ OneEach(moved)
        /\ moved.dir = lot.dir /\ moved.plan = lot.plan /\ moved.original = lot.original
        /\ lot.activated => moved.activated
        /\ DOMAIN moved.exits = DOMAIN lot.exits
        /\ \A j \in DOMAIN lot.exits : moved.exits[j].kind = lot.exits[j].kind
    BY <1>1, <1>2, OneEachKept DEF StillHeld, SameLot, Kept
  <2>4. t \in Legs(moved, "trailing_stop")
    BY <2>2, <2>3 DEF Legs
  <2>. DEFINE lot1 == run.lot
  <2>5. /\ lot1 \in Lot
        /\ OneEach(lot1)
        /\ Legs(lot1, "trailing_stop") = {}
        /\ lot1.dir = moved.dir
        /\ lot1.plan = moved.plan
        /\ lot1.original = moved.original
        /\ lot1.activated = moved.activated
        /\ \A k \in DOMAIN lot1.exits :
              \E j \in DOMAIN moved.exits : j # t /\ lot1.exits[k] = moved.exits[j]
        /\ \A j \in DOMAIN moved.exits :
              j # t => \E k \in DOMAIN lot1.exits : lot1.exits[k] = moved.exits[j]
    <3>. HIDE DEF moved
    <3>. QED BY <2>1, <2>3, <2>4, TrailingTaken
  <2>6. after.lots = <<lot1>> /\ after.position = run.position
    BY <1>5, <2>2, <2>5 DEF Ended
  <2>. HIDE DEF lot1, moved
  <2>7. ASSUME NEW k \in OpenProtection(lot1)
        PROVE  \E i \in OpenProtection(lot) :
                  /\ lot.exits[i].kind = "stop_loss"
                  /\ ~Further(lot1, price, lot1.exits[k].price)
    <3>1. k \in DOMAIN lot1.exits /\ lot1.exits[k].kind \in Protective /\ lot1.exits[k].status = "open"
      BY DEF OpenProtection
    <3>2. PICK j \in DOMAIN lot.exits : j # t /\ lot1.exits[k] = moved.exits[j]
      BY <2>3, <2>5, <3>1
    <3>3. lot.exits[j].kind = "stop_loss"
      <4>1. lot1.exits[k].kind # "trailing_stop"
        BY <2>5, <3>1 DEF Legs
      <4>. QED BY <2>3, <3>1, <3>2, <4>1 DEF Protective
    <3>4. j \in OpenProtection(lot)
      BY <1>2, <3>1, <3>2, <3>3 DEF StillHeld, OpenProtection, Protective
    <3>5. ~Further(lot, price, lot.exits[j].price)
      BY <1>1, <3>4
    <3>6. ~Further(lot, lot.exits[j].price, moved.exits[j].price)
      BY <1>2, <3>3 DEF StillHeld, Kept, Protective
    <3>7. lot.exits[j].price \in Int /\ moved.exits[j].price \in Int
      BY <1>1, <2>3, LegOfLot
    <3>8. ~Further(lot, price, moved.exits[j].price)
      BY <1>1, <3>5, <3>6, <3>7, NotFurtherIsTransitive
    <3>9. ~Further(lot1, price, moved.exits[j].price)
      BY <2>3, <2>5, <3>8, SameDirection
    <3>. QED BY <3>2, <3>3, <3>4, <3>9
  <2>8. Armed(lot1)
    <3>1. StartsActivated(lot.plan) => lot.activated
      BY DEF AtProtection, Armed
    <3>. QED BY <2>3, <2>5, <3>1 DEF Armed
  <2>9. AtProtection(lot1, after.position, price)
    BY <1>1, <2>2, <2>3, <2>5, <2>6, <2>7, <2>8 DEF AtProtection, lot1
  <2>10. after.position # 0
    <3>1. lot1.dir * 0 = 0
      BY <1>1, <2>3, <2>5
    <3>2. lot1.remaining \in Int
      BY <2>5, LotFields
    <3>. QED BY <2>2, <2>6, <3>1, <3>2 DEF lot1
  <2>11. ASSUME NEW i \in OpenProtection(lot), lot.exits[i].kind = "stop_loss"
         PROVE  OpenProtection(lot1) # {}
    <3>1. i \in DOMAIN lot.exits /\ i # t /\ moved.exits[i].status = "open"
      BY <1>2, <2>2, <2>11 DEF OpenProtection, StillHeld
    <3>2. PICK k \in DOMAIN lot1.exits : lot1.exits[k] = moved.exits[i]
      BY <2>3, <2>5, <3>1
    <3>3. k \in OpenProtection(lot1)
      BY <2>3, <2>11, <3>1, <3>2 DEF OpenProtection, Protective
    <3>. QED BY <3>3
  <2>12. ASSUME NEW k \in Reached(lot1, price)
         PROVE  Reached(lot, price) # {}
    <3>1. /\ k \in DOMAIN lot1.exits
          /\ lot1.exits[k].kind = "take_profit"
          /\ lot1.exits[k].status = "open"
          /\ ~Further(lot1, lot1.exits[k].price, price)
      BY DEF Reached, Legs
    <3>2. PICK j \in DOMAIN lot.exits : j # t /\ lot1.exits[k] = moved.exits[j]
      BY <2>3, <2>5, <3>1
    <3>3. moved.exits[j] = lot.exits[j]
      BY <1>2, <2>3, <3>1, <3>2 DEF StillHeld, Protective
    <3>4. ~Further(lot, lot.exits[j].price, price)
      BY <2>3, <2>5, <3>1, <3>2, <3>3, SameDirection
    <3>5. j \in Reached(lot, price)
      BY <3>1, <3>2, <3>3, <3>4 DEF Reached, Legs
    <3>. QED BY <3>5
  <2>13. AfterTrailing(lot, lot1, after.position, price)
    BY <2>3, <2>5, <2>7, <2>9, <2>10, <2>11, <2>12 DEF AfterTrailing
  <2>14. after.position \in Int
    BY <2>2, <2>6
  <2>. QED BY <1>4, <1>7, <2>2, <2>6, <2>13, <2>14 DEF after, Struck
<1>. QED BY <1>6, <1>7

\* Without a trigger a mark leaves the lot (update_price).
LEMMA QuietMark ==
  ASSUME NEW book, NEW lot, NEW lot1, book.lots = <<lot1>>, book.position \in Int,
         NEW price \in Int, AfterTrailing(lot, lot1, book.position, price),
         OpenProtection(lot1) = {}, Reached(lot, price) = {}, lot.plan.maxHold = 0
  PROVE  Marked(book, price).lots # <<>>
<1>. DEFINE first == Started(lot1, book.position, price)
            moved == first.lot
<1>1. /\ lot1 \in Lot
      /\ OneEach(lot1)
      /\ lot1.remaining > 0
      /\ Reached(lot1, price) = {}
      /\ Legs(lot1, "trailing_stop") = {}
      /\ lot1.plan = lot.plan
      /\ book.position # 0
  BY DEF AfterTrailing, AtProtection
<1>2. StillHeld(lot1, moved)
  BY <1>1, LotStillHeld DEF Started
<1>3. ~first.done
  BY DEF Started
<1>4. Ended(NextExit(first, price), price) /\ NextExit(first, price).lot \in Lot =>
         Marked(book, price).lots = IF NextExit(first, price).lot.remaining > 0
                                    THEN <<NextExit(first, price).lot>> ELSE <<>>
  BY <1>1, MarkOfOne
<1>. HIDE DEF first
<1>5. /\ moved \in Lot /\ moved.dir = lot1.dir /\ moved.plan = lot1.plan
      /\ moved.remaining = lot1.remaining
      /\ DOMAIN moved.exits = DOMAIN lot1.exits
      /\ \A j \in DOMAIN lot1.exits : moved.exits[j].kind = lot1.exits[j].kind
  BY <1>2 DEF StillHeld, SameLot, Kept
<1>6. Crossed(moved, price) = {}
  <2>1. ASSUME NEW i \in Crossed(moved, price) PROVE FALSE
    <3>1. i \in DOMAIN lot1.exits /\ moved.exits[i].status = "open"
          /\ lot1.exits[i].kind \in Protective
      BY <1>5 DEF Crossed, Protective
    <3>2. lot1.exits[i].kind = "stop_loss"
      BY <1>1, <3>1 DEF Legs, Protective
    <3>3. lot1.exits[i].status = "open"
      BY <1>2, <3>1, <3>2 DEF StillHeld
    <3>4. i \in OpenProtection(lot1)
      BY <3>1, <3>3 DEF OpenProtection
    <3>. QED BY <3>4
  <2>. QED BY <2>1
<1>7. Reached(moved, price) = {}
  <2>1. ASSUME NEW i \in Reached(moved, price) PROVE FALSE
    <3>1. /\ i \in DOMAIN lot1.exits
          /\ moved.exits[i].kind = "take_profit"
          /\ moved.exits[i].status = "open"
          /\ ~Further(moved, moved.exits[i].price, price)
          /\ lot1.exits[i].kind = "take_profit"
      BY <1>5 DEF Reached, Legs
    <3>2. moved.exits[i] = lot1.exits[i]
      BY <1>2, <3>1 DEF StillHeld, Protective
    <3>3. ~Further(lot1, lot1.exits[i].price, price)
      BY <1>5, <3>1, <3>2, SameDirection
    <3>4. i \in Reached(lot1, price)
      BY <3>1, <3>2, <3>3 DEF Reached, Legs
    <3>. QED BY <1>1, <3>4
  <2>. QED BY <2>1
<1>8. ~Triggers(moved, price)
  BY <1>1, <1>5, <1>6, <1>7 DEF Triggers, HeldTooLong
<1>. HIDE DEF moved
<1>9. NextExit(first, price) = first
  BY <1>8 DEF NextExit, moved
<1>10. Ended(first, price)
  BY <1>8 DEF Ended, moved
<1>11. Marked(book, price).lots = IF moved.remaining > 0 THEN <<moved>> ELSE <<>>
  BY <1>4, <1>5, <1>9, <1>10 DEF moved
<1>. QED BY <1>1, <1>5, <1>11

\* Marks at the last of the open protective triggers, one for each of them, close a
\* fully protected lot and leave another one that nothing else closes.
LEMMA TwoMarks ==
  ASSUME NEW book, NEW lot, book.lots = <<lot>>, book.position \in Int, NEW price \in Int,
         AtProtection(lot, book.position, price), OpenProtection(lot) # {}
  PROVE  LET left == Marked(Marked(book, price), price).lots
         IN  IF HasFullProtectiveExit(lot) THEN left = <<>>
             ELSE left = <<>> => lot.plan.maxHold # 0 \/ Reached(lot, price) # {}
<1>. DEFINE book1 == Marked(book, price)
            left == Marked(book1, price).lots
<1>0. OneEach(lot)
  BY DEF AtProtection
<1>1. PICK t \in DOMAIN lot.exits :
            /\ lot.exits[t].kind \in Protective
            /\ lot.exits[t].kind = "stop_loss" => lot.exits[t].status = "open"
            /\ \/ /\ ClosesAll(lot, t)
                  /\ book1.lots = <<>>
               \/ /\ ~ClosesAll(lot, t)
                  /\ lot.exits[t].kind = "trailing_stop"
                  /\ \E lot1 : /\ book1.lots = <<lot1>>
                               /\ AfterTrailing(lot, lot1, book1.position, price)
                  /\ book1.position \in Int
  <2>1. Struck(lot, book1, price)
    BY FirstMark
  <2>. HIDE DEF book1
  <2>. QED BY <2>1 DEF Struck
<1>. HIDE DEF book1
<1>2. ASSUME NEW i \in OpenProtection(lot), lot.exits[i].kind # "stop_loss",
             lot.exits[t].kind # "stop_loss"
      PROVE  i = t
  BY <1>0, <1>1, <1>2 DEF OpenProtection, OneEach, Legs, Protective
<1>3. ASSUME ClosesAll(lot, t) PROVE HasFullProtectiveExit(lot)
  <2>1. CASE lot.exits[t].kind = "stop_loss"
    <3>1. t \in OpenProtection(lot)
      BY <1>1, <2>1 DEF OpenProtection
    <3>. QED BY <1>3, <3>1 DEF HasFullProtectiveExit
  <2>2. CASE lot.exits[t].kind # "stop_loss"
    <3>1. PICK i \in OpenProtection(lot) : TRUE
      OBVIOUS
    <3>2. CASE lot.exits[i].kind = "stop_loss"
      BY <3>1, <3>2 DEF HasFullProtectiveExit, ClosesAll
    <3>3. CASE lot.exits[i].kind # "stop_loss"
      BY <1>2, <1>3, <2>2, <3>1, <3>3 DEF HasFullProtectiveExit
    <3>. QED BY <3>2, <3>3
  <2>. QED BY <2>1, <2>2
<1>4. CASE ClosesAll(lot, t)
  <2>1. left = <<>>
    BY <1>1, <1>4, MarkOfNone
  <2>. QED BY <1>3, <1>4, <2>1 DEF book1
<1>5. CASE ~ClosesAll(lot, t)
  <2>1. PICK lot1 : book1.lots = <<lot1>> /\ AfterTrailing(lot, lot1, book1.position, price)
    BY <1>1, <1>5
  <2>2. book1.position \in Int /\ lot.exits[t].kind = "trailing_stop"
    BY <1>1, <1>5
  <2>3. HasFullProtectiveExit(lot) <=> OpenProtection(lot1) # {}
    <3>1. ASSUME HasFullProtectiveExit(lot) PROVE OpenProtection(lot1) # {}
      <4>1. PICK i \in OpenProtection(lot) : ClosesAll(lot, i)
        BY <3>1 DEF HasFullProtectiveExit
      <4>2. lot.exits[i].kind = "stop_loss"
        BY <1>2, <1>5, <2>2, <4>1
      <4>. QED BY <2>1, <4>1, <4>2 DEF AfterTrailing
    <3>2. ASSUME OpenProtection(lot1) # {} PROVE HasFullProtectiveExit(lot)
      BY <2>1, <3>2 DEF AfterTrailing, HasFullProtectiveExit, ClosesAll
    <3>. QED BY <3>1, <3>2
  <2>4. CASE HasFullProtectiveExit(lot)
    <3>1. AtProtection(lot1, book1.position, price) /\ Legs(lot1, "trailing_stop") = {}
      BY <2>1 DEF AfterTrailing
    <3>2. OpenProtection(lot1) # {}
      BY <2>3, <2>4
    <3>3. Struck(lot1, Marked(book1, price), price)
      BY <2>1, <2>2, <3>1, <3>2, FirstMark
    <3>4. left = <<>>
      BY <3>1, <3>3 DEF Legs, Struck
    <3>. QED BY <2>4, <3>4 DEF book1
  <2>5. CASE ~HasFullProtectiveExit(lot)
    <3>1. lot.plan.maxHold = 0 /\ Reached(lot, price) = {} => left # <<>>
      BY <2>1, <2>2, <2>3, <2>5, QuietMark
    <3>. QED BY <2>5, <3>1 DEF book1
  <2>. QED BY <2>4, <2>5
<1>. QED BY <1>4, <1>5

\* Two prices previewed are two marks in turn (preview-path).
LEMMA PathOfTwo ==
  ASSUME NEW id, NEW price
  PROVE  PreviewPath(id, <<price, price>>) = Marked(Marked(Sandbox(id), price), price)
<1>. DEFINE prices == <<price, price>>
            step(x) == Marked(x, price)
            Body(g) == [n \in 0 .. Len(prices) |->
                          IF n = 0 THEN Sandbox(id) ELSE Marked(g[n - 1], prices[n])]
            path == CHOOSE h : h = Body(h)
            g == [n \in 0 .. 2 |-> IF n = 0 THEN Sandbox(id)
                                   ELSE IF n = 1 THEN step(Sandbox(id))
                                   ELSE step(step(Sandbox(id)))]
<1>1. PreviewPath(id, prices) = path[Len(prices)]
  BY DEF PreviewPath
<1>2. Len(prices) = 2 /\ prices[1] = price /\ prices[2] = price
      /\ 0 .. 2 = {0, 1, 2} /\ 1 - 1 = 0 /\ 2 - 1 = 1
  OBVIOUS
<1>. HIDE DEF prices
<1>3. g[0] = Sandbox(id) /\ g[1] = Marked(g[0], price) /\ g[2] = Marked(g[1], price)
  OBVIOUS
<1>4. g = Body(g)
  <2>1. \A n \in 0 .. 2 : g[n] = IF n = 0 THEN Sandbox(id) ELSE Marked(g[n - 1], prices[n])
    <3>. HIDE DEF g
    <3>. QED BY <1>2, <1>3
  <2>. QED BY <1>2, <2>1
<1>. HIDE DEF g
<1>5. path = Body(path)
  <2>. HIDE DEF Body
  <2>. QED BY <1>4
<1>. HIDE DEF path
<1>6. /\ path[0] = Sandbox(id)
      /\ path[1] = Marked(path[0], price)
      /\ path[2] = Marked(path[1], price)
  <2>1. 0 \in 0 .. 2 /\ 1 \in 0 .. 2 /\ 2 \in 0 .. 2
    OBVIOUS
  <2>2. \A n \in 0 .. 2 : path[n] = IF n = 0 THEN Sandbox(id) ELSE Marked(path[n - 1], prices[n])
    BY <1>2, <1>5
  <2>3. path[0] = Sandbox(id)
    BY <2>1, <2>2
  <2>4. path[1] = Marked(path[1 - 1], prices[1])
    BY <2>1, <2>2
  <2>5. path[2] = Marked(path[2 - 1], prices[2])
    BY <2>1, <2>2
  <2>. QED BY <1>2, <2>3, <2>4, <2>5
<1>. QED BY <1>1, <1>2, <1>6 DEF prices

\* "fully protected" is what a bracket is that does not outlive its protection
\* (has_full_protective_exit), in every reachable state and for every plan: the
\* marks of a preview at the last of the open triggers close it, or else leave it.
THEOREM FullProtectionIsExact == Spec => []FullProtectionCloses
<1>1. IInv => FullProtectionCloses
  <2>. SUFFICES ASSUME IInv, NEW i \in DOMAIN lots, OpenProtection(lots[i]) # {}
                PROVE  LET last == LastProtection(lots[i])
                           left == PreviewPath(lots[i].id, <<last, last>>).lots
                       IN  IF HasFullProtectiveExit(lots[i]) THEN left = <<>>
                           ELSE left = <<>> => lots[i].plan.maxHold # 0
                                               \/ Reached(lots[i], last) # {}
    BY DEF FullProtectionCloses
  <2>. DEFINE lot == lots[i]
              last == LastProtection(lot)
              book == Sandbox(lot.id)
  <2>1. /\ lots \in Seq(Lot)
        /\ Within(lots)
        /\ Markable(lots)
        /\ position = Exposure(lots)
        /\ position \in Int
        /\ lot \in Lot
        /\ Fit(lot)
    BY BookReady
  <2>2. last \in Int /\ \A k \in OpenProtection(lot) : ~Further(lot, last, lot.exits[k].price)
    BY <2>1, LastOfProtection
  <2>3. \A j \in DOMAIN lots : lots[j].id = lot.id => j = i
    BY <2>1 DEF Within, WellFormed
  <2>4. book.lots = <<lot>> /\ book.position = position
    BY <2>1, <2>3, LotsOfSignal DEF Sandbox
  <2>5. lot.remaining > 0 /\ lot.original >= 0 /\ lot.dir * position >= lot.remaining
    <3>1. /\ lot.dir \in {1, -1}
          /\ OpenQuantity(lots, lot.dir) \in Nat
          /\ position = lot.dir * OpenQuantity(lots, lot.dir)
          /\ lot.remaining <= OpenQuantity(lots, lot.dir)
      BY <2>1, LotsOfOneSide DEF Markable
    <3>2. lot.remaining \in 1 .. lot.original /\ lot.original \in Int
      BY <2>1, LotFields DEF Markable, LotsOK
    <3>. HIDE DEF lot
    <3>3. lot.dir * position = OpenQuantity(lots, lot.dir)
      <4>1. CASE lot.dir = 1
        BY <3>1, <4>1
      <4>2. CASE lot.dir = -1
        BY <3>1, <4>2
      <4>. QED BY <3>1, <4>1, <4>2
    <3>4. lot.dir * position >= lot.remaining
      BY <3>1, <3>2, <3>3
    <3>. QED BY <3>2, <3>4
  <2>6. AtProtection(lot, book.position, last)
    BY <2>1, <2>2, <2>4, <2>5 DEF AtProtection, Fit
  <2>7. PreviewPath(lot.id, <<last, last>>) = Marked(Marked(book, last), last)
    BY PathOfTwo
  <2>. HIDE DEF book, last, lot
  <2>8. LET left == Marked(Marked(book, last), last).lots
        IN  IF HasFullProtectiveExit(lot) THEN left = <<>>
            ELSE left = <<>> => lot.plan.maxHold # 0 \/ Reached(lot, last) # {}
    BY <2>1, <2>2, <2>4, <2>6, TwoMarks DEF lot
  <2>. QED BY <2>7, <2>8 DEF lot, last
<1>. QED BY <1>1, Invariance, PTL

-----------------------------------------------------------------------------
(***************************************************************************)
(* A preview keeps the one lot of its signal, and the marks of the others  *)
(* are no business of a lot: what it foretells is what a mark does.  The   *)
(* telemetry is compared with the ratchet of a mark alone first, and then  *)
(* with what the exits of the same mark leave of it.                       *)
(***************************************************************************)

-----------------------------------------------------------------------------
(***************************************************************************)
(* What a preview shows is what the mark leaves.                           *)
(***************************************************************************)

\* A lot with something left stays in the book.
LEMMA OpenHolds ==
  ASSUME NEW book \in Seq(Lot), NEW i \in DOMAIN book, book[i].remaining > 0
  PROVE  \E a \in DOMAIN Open(book) : Open(book)[a] = book[i]
<1>1. PICK kept :
        /\ kept \in [0 .. Len(book) -> Seq(Lot)]
        /\ \A n \in 1 .. Len(book) :
              kept[n] = IF book[n].remaining > 0 THEN Append(kept[n - 1], book[n])
                        ELSE kept[n - 1]
        /\ Open(book) = kept[Len(book)]
  BY OpenStep
<1>. DEFINE N == Len(book)
            In(n) == \E a \in DOMAIN kept[n] : kept[n][a] = book[i]
            T == {n \in 0 .. N : n >= i => In(n)}
<1>2. N \in Nat /\ i \in 1 .. N /\ i \in Int
  OBVIOUS
<1>3. \A n \in 0 .. N : kept[n] \in Seq(Lot)
  BY <1>1
<1>4. 0 \in T
  BY <1>2
<1>5. ASSUME NEW n \in 1 .. N, n - 1 \in T PROVE n \in T
  <2>1. n - 1 \in 0 .. N /\ n \in 0 .. N /\ n \in Int
    BY <1>2
  <2>2. CASE n = i
    <3>1. kept[n] = Append(kept[n - 1], book[i])
      BY <1>1, <2>2
    <3>2. kept[n - 1] \in Seq(Lot)
      BY <1>3, <2>1
    <3>. DEFINE x == kept[n - 1]
                lot == book[i]
    <3>3. x \in Seq(Lot) /\ kept[n] = Append(x, lot)
      BY <3>1, <3>2
    <3>. HIDE DEF x, lot
    <3>4. Len(x) + 1 \in DOMAIN Append(x, lot) /\ Append(x, lot)[Len(x) + 1] = lot
      BY <3>3
    <3>5. In(n)
      BY <3>3, <3>4 DEF lot
    <3>. QED BY <2>1, <3>5
  <2>3. CASE n > i
    <3>1. In(n - 1)
      BY <1>2, <1>5, <2>1, <2>3
    <3>2. PICK a \in DOMAIN kept[n - 1] : kept[n - 1][a] = book[i]
      BY <3>1
    <3>. DEFINE x == kept[n - 1]
                lot == book[n]
    <3>3. x \in Seq(Lot) /\ a \in DOMAIN x
      BY <1>3, <2>1, <3>2
    <3>4. kept[n] = Append(x, lot) \/ kept[n] = x
      BY <1>1
    <3>. HIDE DEF lot
    <3>6. a \in DOMAIN Append(x, lot) /\ Append(x, lot)[a] = x[a]
      <4>. HIDE DEF x
      <4>. QED BY <3>3
    <3>5. In(n)
      BY <3>2, <3>3, <3>4, <3>6
    <3>. QED BY <2>1, <3>5
  <2>4. CASE n < i
    BY <1>2, <2>1, <2>4
  <2>. QED BY <1>2, <2>1, <2>2, <2>3, <2>4
<1>6. \A n \in 0 .. N : n \in T
  <2>. HIDE DEF T
  <2>. QED BY <1>2, <1>4, <1>5, IntervalInduction
<1>7. N \in T /\ N >= i
  <2>. HIDE DEF T
  <2>. QED BY <1>2, <1>6
<1>. QED BY <1>1, <1>7 DEF N

\* A signal without a lot (_preview_lots_for_signal).
LEMMA NoLotsOfSignal ==
  ASSUME NEW book \in Seq(Lot), NEW id, \A j \in DOMAIN book : book[j].id # id
  PROVE  OfSignal(book, id) = <<>>
<1>. DEFINE N == Len(book)
            Body(g) == [n \in 0 .. N |->
                          IF n = 0 THEN <<>>
                          ELSE IF book[n].id = id THEN Append(g[n - 1], book[n]) ELSE g[n - 1]]
            kept == CHOOSE h : h = Body(h)
            g == [n \in 0 .. N |-> <<>>]
<1>1. N \in Nat /\ DOMAIN book = 1 .. N
  OBVIOUS
<1>2. OfSignal(book, id) = kept[N]
  BY DEF OfSignal
<1>. HIDE DEF N
<1>3. g = Body(g)
  <2>1. \A n \in 0 .. N : n # 0 => n - 1 \in 0 .. N /\ n \in 1 .. N
    BY <1>1
  <2>. QED BY <1>1, <2>1
<1>4. kept = Body(kept)
  <2>. HIDE DEF Body, g
  <2>. QED BY <1>3
<1>. HIDE DEF kept
<1>5. kept[0] = <<>> /\ \A n \in 1 .. N : kept[n] = kept[n - 1]
  <2>1. \A n \in 1 .. N : n \in 0 .. N /\ n # 0 /\ n \in DOMAIN book
    BY <1>1
  <2>2. \A n \in 0 .. N :
           kept[n] = IF n = 0 THEN <<>>
                     ELSE IF book[n].id = id THEN Append(kept[n - 1], book[n]) ELSE kept[n - 1]
    BY <1>4, Zenon
  <2>3. \A n \in 1 .. N : book[n].id # id
    BY <1>1
  <2>4. 0 \in 0 .. N
    BY <1>1
  <2>. QED BY <2>1, <2>2, <2>3, <2>4
<1>. DEFINE T == {n \in 0 .. N : kept[n] = <<>>}
<1>6. 0 \in T
  BY <1>1, <1>5
<1>7. \A n \in 1 .. N : n - 1 \in T => n \in T
  BY <1>1, <1>5
<1>8. \A n \in 0 .. N : n \in T
  <2>. HIDE DEF T
  <2>. QED BY <1>1, <1>6, <1>7, IntervalInduction
<1>9. N \in T
  <2>. HIDE DEF T
  <2>. QED BY <1>1, <1>8
<1>. QED BY <1>2, <1>9

\* What is left of the lot of a signal.
LEMMA OpenOfSignal ==
  ASSUME NEW book, Within(book), NEW i \in DOMAIN book
  PROVE  OfSignal(Open(book), book[i].id) = IF book[i].remaining > 0 THEN <<book[i]>> ELSE <<>>
<1>1. /\ book \in Seq(Lot)
      /\ \A j, k \in DOMAIN book : book[j].id = book[k].id => j = k
  BY DEF Within, WellFormed
<1>2. /\ Open(book) \in Seq(Lot)
      /\ \A a \in DOMAIN Open(book) :
            \E j \in DOMAIN book : Open(book)[a] = book[j] /\ book[j].remaining > 0
      /\ \A a, b \in DOMAIN Open(book) : Open(book)[a].id = Open(book)[b].id => a = b
  BY <1>1, OpenKeeps
<1>3. CASE book[i].remaining > 0
  <2>1. PICK a \in DOMAIN Open(book) : Open(book)[a] = book[i]
    BY <1>1, <1>3, OpenHolds
  <2>2. OfSignal(Open(book), Open(book)[a].id) = <<Open(book)[a]>>
    BY <1>2, <2>1, LotsOfSignal
  <2>. QED BY <1>3, <2>1, <2>2
<1>4. CASE ~(book[i].remaining > 0)
  <2>1. \A a \in DOMAIN Open(book) : Open(book)[a].id # book[i].id
    BY <1>1, <1>2, <1>4
  <2>. QED BY <1>2, <1>4, <2>1, NoLotsOfSignal
<1>. QED BY <1>3, <1>4

\* One price previewed is one mark (preview_bracket_exchange).
LEMMA PathOfOne ==
  ASSUME NEW id, NEW price
  PROVE  Preview(id, price) = Marked(Sandbox(id), price).lots
<1>. DEFINE prices == <<price>>
            Body(g) == [n \in 0 .. Len(prices) |->
                          IF n = 0 THEN Sandbox(id) ELSE Marked(g[n - 1], prices[n])]
            path == CHOOSE h : h = Body(h)
            g == [n \in 0 .. 1 |-> IF n = 0 THEN Sandbox(id) ELSE Marked(Sandbox(id), price)]
<1>1. Preview(id, price) = path[Len(prices)].lots
  BY DEF Preview, PreviewPath
<1>2. Len(prices) = 1 /\ prices[1] = price /\ 0 .. 1 = {0, 1} /\ 1 - 1 = 0
  OBVIOUS
<1>. HIDE DEF prices
<1>3. g[0] = Sandbox(id) /\ g[1] = Marked(g[0], price)
  OBVIOUS
<1>4. g = Body(g)
  <2>1. \A n \in 0 .. 1 : g[n] = IF n = 0 THEN Sandbox(id) ELSE Marked(g[n - 1], prices[n])
    <3>. HIDE DEF g
    <3>. QED BY <1>2, <1>3
  <2>. QED BY <1>2, <2>1
<1>. HIDE DEF g
<1>5. path = Body(path)
  <2>. HIDE DEF Body
  <2>. QED BY <1>4
<1>. HIDE DEF path
<1>6. path[0] = Sandbox(id) /\ path[1] = Marked(path[0], price)
  <2>1. 0 \in 0 .. 1 /\ 1 \in 0 .. 1
    OBVIOUS
  <2>2. \A n \in 0 .. 1 : path[n] = IF n = 0 THEN Sandbox(id) ELSE Marked(path[n - 1], prices[n])
    BY <1>2, <1>5
  <2>3. path[0] = Sandbox(id)
    BY <2>1, <2>2
  <2>4. path[1] = Marked(path[1 - 1], prices[1])
    BY <2>1, <2>2
  <2>. QED BY <1>2, <2>3, <2>4
<1>. QED BY <1>1, <1>2, <1>6

\* What a preview shows is what a mark leaves of the lot alone.
LEMMA PreviewOfOne ==
  ASSUME IInv, position # 0, NEW i \in DOMAIN lots, NEW price \in Int, price > 0
  PROVE  LET left == Alone(lots[i], replayed, price)
         IN  Preview(lots[i].id, price) = IF left.remaining > 0 THEN <<left>> ELSE <<>>
<1>. DEFINE lot == lots[i]
            book == Sandbox(lot.id)
            run == MarkLot([lots |-> <<lot>>, position |-> book.position, fills |-> <<>>],
                           1, price)
<1>1. /\ lots \in Seq(Lot)
      /\ Within(lots)
      /\ Markable(lots)
      /\ position = Exposure(lots)
      /\ replayed \in BalancedBooks
      /\ replayed.position = position
      /\ lot \in Lot
  BY BookReady DEF Ready
<1>2. \A j \in DOMAIN lots : lots[j].id = lot.id => j = i
  BY <1>1 DEF Within, WellFormed
<1>3. book.lots = <<lot>> /\ book.position = position
  BY <1>1, <1>2, LotsOfSignal DEF Sandbox
<1>4. run = MarkLot(Single(lot, replayed), 1, price)
  BY <1>1, <1>3 DEF Single
<1>5. run.lot = Alone(lot, replayed, price)
  BY <1>4 DEF Alone
<1>6. run.lot \in Lot
  <2>1. Faced(Single(lot, replayed), 1, replayed)
    BY <1>1, SingleFaced
  <2>2. MarkLot(Single(lot, replayed), 1, price) \in Runs
    BY <1>1, <2>1, LotMarked DEF MarkedLot
  <2>. HIDE DEF run
  <2>. QED BY <1>4, <2>2 DEF Runs
<1>7. Visited(book, price)[Len(book.lots)]
        = [lots |-> <<run.lot>>, position |-> run.position, fills |-> run.fills]
  <2>. HIDE DEF book, lot
  <2>. QED BY <1>1, <1>3, OneVisited
<1>. HIDE DEF run, lot
<1>8. Marked(book, price).lots = Open(<<run.lot>>)
  <2>1. book.position # 0
    BY <1>3
  <2>. HIDE DEF book
  <2>. QED BY <1>7, <2>1 DEF Marked
<1>9. Preview(lot.id, price) = Marked(book, price).lots
  BY PathOfOne
<1>. HIDE DEF book
<1>. QED BY <1>5, <1>6, <1>8, <1>9, OpenOfOne DEF lot

\* A mark leaves of each lot what it leaves of it alone.
LEMMA MarkIsAlone ==
  ASSUME IInv, NEW price \in Prices, Mark(price)
  PROVE  \E v : /\ lots' = Open(v)
                /\ Within(v)
                /\ DOMAIN v = DOMAIN lots
                /\ \A i \in DOMAIN lots : v[i] = Alone(lots[i], replayed, price)
<1>. DEFINE before == [lots |-> lots, position |-> position]
            visited == Visited(before, price)[Len(lots)]
<1>1. position # 0 /\ lots' = Marked(before, price).lots
  BY DEF Mark
<1>2. lots # <<>>
  <2>1. ASSUME lots = <<>> PROVE FALSE
    <3>1. Exposure(<<>>) = 0
      BY EmptyBookSound DEF Exposure
    <3>. QED BY <1>1, <2>1, <3>1, BookReady
  <2>. QED BY <2>1
<1>3. price \in Int /\ price > 0
  BY BracketAssumption
<1>4. /\ Ready(before, replayed) /\ before.lots = lots /\ before.position = position
      /\ Markable(lots)
  BY <1>2, BookReady
<1>. HIDE DEF before
<1>5. Visiting(lots, visited, Len(lots), price, replayed)
  BY <1>3, <1>4, VisitEnds
<1>6. lots' = Open(visited.lots)
  <2>1. Marked(before, price) = [visited EXCEPT !.lots = Open(@)]
    BY <1>1, <1>4 DEF Marked
  <2>2. visited \in Visits
    BY <1>5 DEF Visiting
  <2>. HIDE DEF visited
  <2>. QED BY <1>1, <2>1, <2>2 DEF Visits
<1>. HIDE DEF visited
<1>7. /\ visited.lots \in Seq(Lot)
      /\ DOMAIN visited.lots = DOMAIN lots
      /\ \A i \in DOMAIN lots : Less(lots[i], visited.lots[i])
  BY <1>5 DEF Visiting, Visits
<1>8. Within(visited.lots)
  BY <1>4, <1>7, VisitedLots
<1>9. \A i \in DOMAIN lots : i <= Len(lots)
  <2>1. lots \in Seq(Lot)
    BY BookReady
  <2>. QED BY <2>1
<1>10. \A i \in DOMAIN lots : visited.lots[i] = Alone(lots[i], replayed, price)
  BY <1>5, <1>9 DEF Visiting
<1>. QED BY <1>6, <1>7, <1>8, <1>10

\* Breakeven changes a lot only once.
LEMMA BreakevenOnce ==
  ASSUME NEW lot \in Lot, NEW price \in Int
  PROVE  LET even == ApplyBreakeven(lot, price)
         IN  \/ even = lot
             \/ even.breakeven /\ ~lot.breakeven
<1>. DEFINE exits == [i \in DOMAIN lot.exits |->
                        IF lot.exits[i].kind \in Protective
                        THEN [lot.exits[i] EXCEPT
                                !.price = Furthest(lot, lot.exits[i].price, lot.entry)]
                        ELSE lot.exits[i]]
            moved == [lot EXCEPT !.breakeven = TRUE, !.exits = exits]
<1>1. \/ ApplyBreakeven(lot, price) = lot
      \/ ApplyBreakeven(lot, price) = moved /\ ~lot.breakeven
  BY DEF ApplyBreakeven
<1>. HIDE DEF exits
<1>2. moved.breakeven
  BY DEF Lot
<1>. QED BY <1>1, <1>2

\* Where a mark puts the trailing stop of a lot, and what it arms
\* (_update_trailing_stop).
TrailMoved(lot, after, price) ==
  LET water == IF lot.water = NoWater THEN MarkAt(lot, lot.entry) ELSE lot.water
      trigger == TriggerBehind(lot, MarkAt(lot, price))
  IN  /\ after.breakeven = lot.breakeven
      /\ IF Dormant(lot, price)
         THEN after.activated = lot.activated /\ TrailPrice(after) = TrailPrice(lot)
         ELSE /\ after.activated
              /\ TrailPrice(after)
                   = IF (lot.activated => Further(lot, MarkAt(lot, price), water)) /\ Ratchets(lot, trigger)
                     THEN trigger ELSE TrailPrice(lot)

\* It does so.
LEMMA TrailIsMoved ==
  ASSUME NEW lot \in Lot, OneEach(lot), Legs(lot, "trailing_stop") # {}, NEW price \in Int
  PROVE  TrailMoved(lot, UpdateTrailing(lot, price), price)
<1>. DEFINE water == IF lot.water = NoWater THEN MarkAt(lot, lot.entry) ELSE lot.water
            trigger == TriggerBehind(lot, MarkAt(lot, price))
            armed == [lot EXCEPT !.activated = TRUE, !.water = MarkAt(lot, price)]
            wet == [lot EXCEPT !.water = water]
            exits == [i \in DOMAIN armed.exits |->
                        IF armed.exits[i].kind = "trailing_stop"
                        THEN [armed.exits[i] EXCEPT !.price = trigger, !.status = "open"]
                        ELSE armed.exits[i]]
            placed == [armed EXCEPT !.exits = exits]
            after == UpdateTrailing(lot, price)
<1>1. MarkAt(lot, price) \in Int
  BY LotTrails, Distances
<1>2. trigger \in Int
  BY <1>1, LotTrails, Distances
<1>3. \/ Dormant(lot, price) /\ after = lot
      \/ /\ ~Dormant(lot, price)
         /\ lot.activated /\ ~Further(lot, MarkAt(lot, price), water)
         /\ after = wet
      \/ /\ ~Dormant(lot, price)
         /\ lot.activated => Further(lot, MarkAt(lot, price), water)
         /\ Ratchets(lot, trigger)
         /\ after = placed
      \/ /\ ~Dormant(lot, price)
         /\ lot.activated => Further(lot, MarkAt(lot, price), water)
         /\ ~Ratchets(lot, trigger)
         /\ after = armed
  BY DEF UpdateTrailing, Retrailed
<1>. HIDE DEF after, trigger, water
<1>4. /\ armed \in Lot
      /\ armed.exits = lot.exits
      /\ armed.activated
      /\ armed.breakeven = lot.breakeven
      /\ wet.exits = lot.exits
      /\ wet.activated = lot.activated
      /\ wet.breakeven = lot.breakeven
  BY <1>1 DEF Lot
<1>5. placed.activated = armed.activated /\ placed.breakeven = armed.breakeven
  <2>. HIDE DEF exits
  <2>. QED BY <1>4 DEF Lot
<1>. HIDE DEF wet
<1>6. TrailPrice(wet) = TrailPrice(lot) /\ TrailPrice(armed) = TrailPrice(lot)
  BY <1>4 DEF TrailPrice, Legs
<1>7. TrailPrice(placed) = trigger
  <2>1. placed = Retrailed(armed, trigger)
    BY DEF Retrailed
  <2>2. OneEach(armed) /\ Legs(armed, "trailing_stop") = Legs(lot, "trailing_stop")
    BY <1>4 DEF OneEach, Legs
  <2>. HIDE DEF armed, placed
  <2>3. /\ placed \in Lot
        /\ OneEach(placed)
        /\ Legs(placed, "trailing_stop") = Legs(lot, "trailing_stop")
        /\ \A i \in Legs(lot, "trailing_stop") : placed.exits[i].price = trigger
    BY <1>2, <1>4, <2>1, <2>2, RetrailedMoves
  <2>. QED BY <2>3, TrailLegs
<1>. HIDE DEF armed, placed
<1>8. TrailMoved(lot, after, price)
  BY <1>3, <1>4, <1>5, <1>6, <1>7 DEF TrailMoved, water, trigger
<1>. QED BY <1>8 DEF after

\* The trigger the telemetry of an armed trailing stop announces: a new best price
\* moves the stop there, and at any other it lies less than a step from it, unless
\* the stop has a price of its own.
LEMMA RatchetAnnounced ==
  ASSUME NEW lot, Fit(lot), Legs(lot, "trailing_stop") # {}, lot.activated,
         NEW price \in Int, price > 0
  PROVE  LET C == Candidate(lot, price)
             M == MarkAt(lot, price)
             P == TrailPrice(lot)
         IN  /\ C \in Int
             /\ Further(lot, M, lot.water) => C = TriggerBehind(lot, M)
             /\ ~Further(lot, M, lot.water) => AtStart(lot) \/ Near(lot, C, P)
             /\ Sane(lot, C, P)
<1>. DEFINE C == Candidate(lot, price)
            M == MarkAt(lot, price)
            E == MarkAt(lot, lot.entry)
            P == TrailPrice(lot)
            w == lot.water
<1>1. /\ lot \in Lot /\ Trailer(lot)
      /\ lot.dir \in {1, -1}
      /\ lot.entry \in Int /\ lot.entry > 0 /\ Scale(lot) > 0
      /\ P \in Int
      /\ w \in Int
  <2>1. lot \in Lot /\ Sized(lot) /\ w # NoWater
    BY DEF Fit, TrailOK
  <2>2. P \in Int
    BY <2>1, TrailLegs DEF Fit
  <2>. QED BY <2>1, <2>2, LotNumbers, LotTrails DEF Sized
<1>2. /\ lot.dir = 1 => w > 0
      /\ AtStart(lot) \/ Near(lot, TriggerBehind(lot, w), P)
      /\ Sane(lot, TriggerBehind(lot, w), P)
  BY <1>1, ArmedTrail, WaterAssumption DEF Fit, TrailOK
<1>3. /\ M \in Int /\ M > 0 /\ E \in Int /\ E > 0
      /\ lot.dir = -1 => TriggerBehind(lot, M) > 0 /\ TriggerBehind(lot, E) > 0
  BY <1>1, Distances, MarkIsPositive
<1>4. C \in Int
  BY <1>1, CandidateIsWhole
<1>5. C = TriggerBehind(lot, Furthest(lot, M, Water(lot)))
  BY DEF Candidate, WaterAt
<1>6. AtStart(lot) => w = E
  BY DEF AtStart
<1>. HIDE DEF C, M, E, P, w
<1>7. CASE w # 0
  <2>1. Water(lot) = w
    BY <1>1, <1>7, WaterAssumption DEF Water, w
  <2>2. C = TriggerBehind(lot, IF Further(lot, M, w) THEN M ELSE w)
    BY <1>5, <2>1 DEF Furthest
  <2>3. CASE Further(lot, M, w)
    <3>1. C = TriggerBehind(lot, M)
      BY <2>2, <2>3
    <3>2. Sane(lot, C, P)
      BY <1>1, <1>3, <3>1 DEF Sane
    <3>. QED BY <1>4, <2>3, <3>1, <3>2 DEF C, M, P, w
  <2>4. CASE ~Further(lot, M, w)
    <3>1. C = TriggerBehind(lot, w)
      BY <2>2, <2>4
    <3>. QED BY <1>2, <1>4, <2>4, <3>1 DEF C, M, P, w
  <2>. QED BY <2>3, <2>4
<1>8. CASE w = 0
  <2>1. lot.dir = -1
    BY <1>1, <1>2, <1>8
  <2>2. Water(lot) = E
    BY <1>8 DEF Water, E, w
  <2>. DEFINE W == Furthest(lot, M, E)
              best == TriggerBehind(lot, w)
  <2>3. W \in {M, E} /\ W \in Int /\ W > 0
    BY <1>3 DEF Furthest
  <2>4. C = TriggerBehind(lot, W)
    BY <1>5, <2>2
  <2>5. C > 0
    BY <1>3, <2>1, <2>3, <2>4
  <2>. HIDE DEF W
  <2>6. ~Further(lot, M, w) /\ ~Further(lot, W, w)
    BY <1>1, <1>3, <1>8, <2>1, <2>3, FurtherByDirection
  <2>7. ~Further(lot, C, best)
    BY <1>1, <2>3, <2>4, <2>6, TriggersInOrder
  <2>8. Near(lot, best, P) /\ Sane(lot, best, P) /\ best \in Int
    BY <1>1, <1>2, <1>3, <1>6, <1>8, Distances
  <2>. HIDE DEF best
  <2>9. ~Further(lot, P, P)
    BY <1>1, FurtherIsOrder
  <2>10. Near(lot, C, P) /\ Sane(lot, C, P)
    BY <1>1, <1>4, <2>7, <2>8, <2>9, NearKept
  <2>. QED BY <1>4, <2>6, <2>10 DEF C, M, P, w
<1>. QED BY <1>7, <1>8

\* What the telemetry reads of a trailing stop is the state of its one leg.
LEMMA TrailLegOf ==
  ASSUME NEW lot \in Lot, OneEach(lot), NEW t \in Legs(lot, "trailing_stop")
  PROVE  /\ TrailStatus(lot) = lot.exits[t].status
         /\ TrailPrice(lot) = lot.exits[t].price
<1>1. Legs(lot, "trailing_stop") \in SUBSET Nat
  BY DEF Lot, Legs
<1>2. FirstLeg(Legs(lot, "trailing_stop")) \in Legs(lot, "trailing_stop")
  BY <1>1, FirstLegOf
<1>3. FirstLeg(Legs(lot, "trailing_stop")) = t
  BY <1>2 DEF OneEach, Protective
<1>. QED BY <1>3 DEF TrailStatus, TrailPrice

\* The trailing stop of a lot as the telemetry finds it, and as breakeven leaves it
\* to the ratchet of the same mark.
Evened(lot, even) ==
  /\ SameLot(lot, even)
  /\ even \in Lot
  /\ OneEach(even)
  /\ Legs(even, "trailing_stop") = Legs(lot, "trailing_stop")
  /\ even.water = lot.water
  /\ even.activated = lot.activated
  /\ \/ even = lot
     \/ even.breakeven /\ ~lot.breakeven

\* Breakeven leaves it so.
LEMMA BreakevenEvens ==
  ASSUME NEW lot, Fit(lot), NEW price \in Int
  PROVE  Evened(lot, ApplyBreakeven(lot, price))
<1>1. lot \in Lot /\ OneEach(lot)
  BY DEF Fit
<1>2. /\ ApplyBreakeven(lot, price) \in Lot
      /\ SameLot(lot, ApplyBreakeven(lot, price))
      /\ ApplyBreakeven(lot, price).water = lot.water
      /\ ApplyBreakeven(lot, price).activated = lot.activated
      /\ Kept(lot, ApplyBreakeven(lot, price))
  BY <1>1, BreakevenMoves
<1>3. OneEach(ApplyBreakeven(lot, price))
  BY <1>1, <1>2, OneEachKept
<1>4. Legs(ApplyBreakeven(lot, price), "trailing_stop") = Legs(lot, "trailing_stop")
  BY <1>2 DEF Kept, Legs
<1>5. \/ ApplyBreakeven(lot, price) = lot
      \/ ApplyBreakeven(lot, price).breakeven /\ ~lot.breakeven
  BY <1>1, BreakevenOnce
<1>. QED BY <1>2, <1>3, <1>4, <1>5 DEF Evened

\* A mark leaves what the ratchet does.
LEMMA MarksLeave ==
  ASSUME NEW lot \in Lot
  PROVE  /\ [lot EXCEPT !.marks = @ + 1].exits = lot.exits
         /\ [lot EXCEPT !.marks = @ + 1].breakeven = lot.breakeven
         /\ [lot EXCEPT !.marks = @ + 1].activated = lot.activated
BY DEF Lot

\* An armed trailing stop: the mark ratchets it to the announced trigger, and
\* otherwise leaves it.
LEMMA ArmedForetold ==
  ASSUME NEW lot, Fit(lot), Legs(lot, "trailing_stop") # {}, ~lot.plan.afterTp,
         NEW price \in Int, price > 0, lot.activated,
         NEW even, Evened(lot, even), NEW after, TrailMoved(even, after, price)
  PROVE  /\ RatchetReady(lot, price) /\ ~NotYetFollowed(lot, price) =>
               \/ ~Further(lot, Candidate(lot, price), TrailPrice(after))
               \/ /\ after.breakeven /\ ~lot.breakeven
                  /\ ~StepReached(lot, TrailPrice(after), Candidate(lot, price))
         /\ TrailStatus(lot) = "open" /\ ~RatchetReady(lot, price) =>
               \/ TrailPrice(after) = TrailPrice(lot)
               \/ after.breakeven /\ ~lot.breakeven
<1>. DEFINE C == Candidate(lot, price)
            M == MarkAt(lot, price)
            T == TriggerBehind(lot, M)
            P == TrailPrice(lot)
            nearer == Further(lot, M, lot.water)
<1>1. /\ lot \in Lot /\ OneEach(lot)
      /\ Trails(lot.plan)
      /\ lot.water # NoWater
  BY DEF Fit, TrailOK
<1>2. /\ C \in Int
      /\ nearer => C = T
      /\ ~nearer => AtStart(lot) \/ Near(lot, C, P)
  BY RatchetAnnounced
<1>3. P \in Int /\ Step(lot, P) \in Int /\ lot.dir \in {1, -1}
  BY <1>1, TrailLegs, LotNumbers, StepOfLot
<1>4. even.dir = lot.dir /\ even.plan = lot.plan /\ even.entry = lot.entry
      /\ even.water = lot.water /\ even.activated
  BY DEF Evened, SameLot
<1>5. ~Dormant(even, price)
  BY <1>1, <1>4 DEF Dormant
<1>6. /\ after.breakeven = even.breakeven
      /\ TrailPrice(after) = IF nearer /\ Ratchets(even, T) THEN T ELSE TrailPrice(even)
  <2>1. MarkAt(even, price) = M /\ TriggerBehind(even, M) = T
    BY <1>4, TrailsAlike
  <2>2. Further(even, M, lot.water) <=> nearer
    BY <1>4, SameDirection
  <2>. QED BY <1>1, <1>4, <1>5, <2>1, <2>2 DEF TrailMoved
<1>7. Ratchets(even, T) <=> /\ Further(lot, T, TrailPrice(even))
                            /\ StepReached(lot, TrailPrice(even), T)
  <2>1. Legs(even, "trailing_stop") # {}
    BY DEF Evened
  <2>2. Further(even, T, TrailPrice(even)) <=> Further(lot, T, TrailPrice(even))
    BY <1>4, SameDirection
  <2>3. StepReached(even, TrailPrice(even), T) <=> StepReached(lot, TrailPrice(even), T)
    BY <1>4, TrailsAlike DEF StepReached
  <2>. QED BY <2>1, <2>2, <2>3 DEF Ratchets
<1>. HIDE DEF nearer, C, M, P, T
<1>. DEFINE lead == lot.dir * (C - P)
<1>8. /\ lead \in Int
      /\ 100 * lot.dir * (C - P) = 100 * lead
      /\ Further(lot, C, P) <=> lead > 0
  <2>1. lot.dir * (C - P) \in Int /\ 100 * lot.dir * (C - P) = 100 * (lot.dir * (C - P))
    BY <1>2, <1>3
  <2>. QED BY <2>1 DEF Further
<1>13. /\ StepReached(lot, P, C) <=> Step(lot, P) <= 0 \/ 100 * lead >= Step(lot, P)
       /\ Near(lot, C, P) <=> 100 * lead < Most(Step(lot, P), 100)
       /\ RatchetReady(lot, price) <=> /\ TrailStatus(lot) = "open"
                                       /\ lead > 0
                                       /\ 100 * lead >= Step(lot, P)
  BY <1>8 DEF StepReached, Near, RatchetReady, C, P
<1>. HIDE DEF lead
<1>14. RatchetReady(lot, price) <=> /\ TrailStatus(lot) = "open"
                                    /\ Further(lot, C, P)
                                    /\ StepReached(lot, P, C)
  BY <1>3, <1>8, <1>13
<1>9. \/ even = lot
      \/ even.breakeven /\ ~lot.breakeven
  BY DEF Evened
<1>10. RatchetReady(lot, price) /\ ~NotYetFollowed(lot, price) => nearer
  <2>1. lead > 0 /\ 100 * lead >= Step(lot, P) => ~Near(lot, C, P)
    BY <1>3, <1>8, <1>13 DEF Most
  <2>2. ~nearer => NotYetFollowed(lot, price) \/ Near(lot, C, P)
    BY <1>2 DEF NotYetFollowed, nearer, M
  <2>. QED BY <1>13, <2>1, <2>2
<1>11. ASSUME RatchetReady(lot, price), ~NotYetFollowed(lot, price)
       PROVE  \/ ~Further(lot, C, TrailPrice(after))
              \/ /\ after.breakeven /\ ~lot.breakeven
                 /\ ~StepReached(lot, TrailPrice(after), C)
  <2>1. nearer /\ C = T
    BY <1>2, <1>10, <1>11
  <2>2. CASE Ratchets(even, T)
    <3>1. TrailPrice(after) = C
      BY <1>6, <2>1, <2>2
    <3>2. ~Further(lot, C, C)
      BY <1>1, <1>2, FurtherIsOrder
    <3>. QED BY <3>1, <3>2
  <2>3. CASE ~Ratchets(even, T)
    <3>1. TrailPrice(after) = TrailPrice(even)
      BY <1>6, <2>3
    <3>2. ~Further(lot, C, TrailPrice(even)) \/ ~StepReached(lot, TrailPrice(even), C)
      BY <1>7, <2>1, <2>3
    <3>3. ASSUME even = lot PROVE FALSE
      BY <1>11, <1>14, <3>2, <3>3 DEF P
    <3>. QED BY <1>6, <1>9, <3>1, <3>2, <3>3
  <2>. QED BY <2>2, <2>3
<1>12. ASSUME TrailStatus(lot) = "open", ~RatchetReady(lot, price)
       PROVE  \/ TrailPrice(after) = P
              \/ after.breakeven /\ ~lot.breakeven
  <2>1. CASE even = lot
    <3>1. ~(nearer /\ Ratchets(even, T))
      BY <1>2, <1>7, <1>12, <1>14, <2>1 DEF P
    <3>. QED BY <1>6, <2>1, <3>1 DEF P
  <2>2. CASE even.breakeven /\ ~lot.breakeven
    BY <1>6, <2>2
  <2>. QED BY <1>9, <2>1, <2>2
<1>. QED BY <1>11, <1>12 DEF C, P

\* A mark that moves a lot does to its trailing stop what the telemetry has told.
LEMMA MovedForetold ==
  ASSUME NEW lot, Fit(lot), Legs(lot, "trailing_stop") # {}, ~lot.plan.afterTp,
         NEW price \in Int, price > 0
  PROVE  Foretold(lot, Moved(lot, price), price)
<1>. DEFINE even == ApplyBreakeven(lot, price)
            trailed == UpdateTrailing(even, price)
            moved == Moved(lot, price)
<1>1. Evened(lot, even) /\ Fit(even)
  BY BreakevenEvens, BreakevenFit
<1>. HIDE DEF even
<1>2. TrailMoved(even, trailed, price) /\ trailed \in Lot
  BY <1>1, TrailIsMoved, UpdateTrailingFit DEF Evened, Fit
<1>3. /\ moved.exits = trailed.exits
      /\ moved.breakeven = trailed.breakeven
      /\ moved.activated = trailed.activated
  BY <1>2, MarksLeave DEF Moved, even
<1>. HIDE DEF trailed, moved
<1>4. TrailPrice(moved) = TrailPrice(trailed)
  BY <1>3 DEF TrailPrice, Legs
<1>5. TrailMoved(even, moved, price)
  BY <1>2, <1>3, <1>4 DEF TrailMoved
<1>6. lot \in Lot /\ OneEach(lot) /\ Armed(lot) /\ Trails(lot.plan)
  BY DEF Fit, TrailOK
<1>7. TrailStatus(lot) = "open" => lot.activated
  BY <1>6, TrailLegOf DEF Armed
<1>8. ASSUME ~lot.activated
      PROVE  moved.activated <=> ActivationReady(lot, price)
  <2>1. lot.plan.activation # 0
    BY <1>6, <1>8 DEF Armed, StartsActivated
  <2>2. even.plan = lot.plan /\ even.dir = lot.dir /\ ~even.activated
    BY <1>1, <1>8 DEF Evened, SameLot
  <2>3. Dormant(even, price) <=> Further(even, lot.plan.activation, price)
    BY <1>6, <2>1, <2>2 DEF Dormant, ActivationPrice
  <2>4. Further(even, lot.plan.activation, price) <=> Further(lot, lot.plan.activation, price)
    BY <2>2, SameDirection
  <2>5. moved.activated <=> ~Dormant(even, price)
    BY <1>5, <2>2 DEF TrailMoved
  <2>. QED BY <2>1, <2>3, <2>4, <2>5 DEF ActivationReady
<1>9. CASE lot.activated
  BY <1>1, <1>5, <1>9, ArmedForetold DEF Foretold, moved
<1>10. CASE ~lot.activated
  BY <1>7, <1>8, <1>10 DEF Foretold, RatchetReady, moved
<1>. QED BY <1>9, <1>10

\* The trailing stop of a lot that is no looser.
LEMMA TrailNoLooser ==
  ASSUME NEW lot \in Lot, OneEach(lot), NEW after \in Lot, OneEach(after),
         Legs(after, "trailing_stop") # {}, Follows(lot, after, "trailing_stop")
  PROVE  ~Further(lot, TrailPrice(lot), TrailPrice(after))
<1>1. PICK b \in Legs(after, "trailing_stop") : TRUE
  OBVIOUS
<1>2. PICK a \in Legs(lot, "trailing_stop") :
        ~Further(lot, lot.exits[a].price, after.exits[b].price)
  BY DEF Follows
<1>. QED BY <1>2, TrailLegOf

\* A trigger no looser than one that is less than a step short of a price is less
\* than a step short of it too, or past it.
LEMMA StepStaysShort ==
  ASSUME NEW lot \in Lot, NEW a \in Int, NEW b \in Int, NEW c \in Int,
         ~Further(lot, a, b), lot.dir = 1 \/ c > 0, ~StepReached(lot, a, c)
  PROVE  ~Further(lot, c, b) \/ ~StepReached(lot, b, c)
<1>1. lot.dir \in {1, -1} /\ Step(lot, a) \in Int /\ Step(lot, b) \in Int
  BY LotNumbers, StepOfLot
<1>2. ASSUME NEW x \in Int
      PROVE  /\ lot.dir * (c - x) \in Int
             /\ 100 * lot.dir * (c - x) = 100 * (lot.dir * (c - x))
  BY <1>1
<1>3. Near(lot, c, a)
  <2>. DEFINE lead == lot.dir * (c - a)
  <2>1. lead \in Int /\ Step(lot, a) > 0 /\ 100 * lead < Step(lot, a)
    BY <1>1, <1>2 DEF StepReached
  <2>. HIDE DEF lead
  <2>2. 100 * lead < Most(Step(lot, a), 100)
    BY <1>1, <2>1 DEF Most
  <2>. QED BY <2>2 DEF Near, lead
<1>4. ~Further(lot, c, c) /\ Sane(lot, c, a)
  BY FurtherIsOrder DEF Sane
<1>5. Near(lot, c, b)
  BY <1>3, <1>4, NearKept
<1>6. ASSUME Further(lot, c, b)
      PROVE  ~StepReached(lot, b, c)
  <2>. DEFINE lead == lot.dir * (c - b)
  <2>1. lead \in Int /\ lead > 0 /\ 100 * lead < Most(Step(lot, b), 100)
    BY <1>2, <1>5, <1>6 DEF Further, Near
  <2>2. 100 * lot.dir * (c - b) = 100 * lead
    BY <1>2
  <2>. HIDE DEF lead
  <2>3. Step(lot, b) > 0 /\ 100 * lead < Step(lot, b)
    BY <1>1, <2>1 DEF Most
  <2>. QED BY <1>1, <2>1, <2>2, <2>3 DEF StepReached
<1>. QED BY <1>6

\* What the telemetry has told of a lot that a mark moves holds of what its exits
\* leave of it.
LEMMA PassedForetold ==
  ASSUME NEW lot \in Lot, NEW middle \in Lot, OneEach(middle), NEW after \in Lot, OneEach(after),
         middle.dir = lot.dir, middle.plan = lot.plan, ~lot.plan.afterTp,
         Len(middle.exits) = Len(lot.exits), Legs(middle, "trailing_stop") # {},
         Legs(after, "trailing_stop") # {},
         NEW price \in Int, Candidate(lot, price) \in Int,
         RatchetReady(lot, price) => lot.dir = 1 \/ Candidate(lot, price) > 0,
         Passed(middle, after), Tightens(middle, after), Foretold(lot, middle, price)
  PROVE  Foretold(lot, after, price)
<1>. DEFINE C == Candidate(lot, price)
            fewer == Len(after.exits) < Len(lot.exits)
<1>1. /\ middle.breakeven => after.breakeven
      /\ middle.activated => after.activated
      /\ \/ after.exits = middle.exits /\ after.activated = middle.activated
         \/ fewer
  BY DEF Passed, Remembers
<1>2. Follows(middle, after, "trailing_stop")
  BY DEF Tightens, Protective
<1>3. TrailPrice(middle) \in Int /\ TrailPrice(after) \in Int
  BY TrailLegs
<1>4. ~Further(lot, TrailPrice(middle), TrailPrice(after))
  BY <1>2, TrailNoLooser, SameDirection
<1>5. ASSUME RatchetReady(lot, price), ~NotYetFollowed(lot, price)
      PROVE  \/ ~Further(lot, C, TrailPrice(after))
             \/ /\ after.breakeven /\ ~lot.breakeven
                /\ ~StepReached(lot, TrailPrice(after), C)
  <2>1. CASE ~Further(lot, C, TrailPrice(middle))
    BY <1>3, <1>4, <2>1, NotFurtherIsTransitive
  <2>2. CASE /\ middle.breakeven /\ ~lot.breakeven
             /\ ~StepReached(lot, TrailPrice(middle), C)
    <3>1. ~Further(lot, C, TrailPrice(after)) \/ ~StepReached(lot, TrailPrice(after), C)
      BY <1>3, <1>4, <1>5, <2>2, StepStaysShort
    <3>. QED BY <1>1, <2>2, <3>1
  <2>. QED BY <1>5, <2>1, <2>2 DEF Foretold
<1>6. Len(middle.exits) < Len(lot.exits) => FALSE
  <2>1. lot.exits \in Seq(Leg)
    BY DEF Lot
  <2>. QED BY <2>1
<1>7. ASSUME TrailStatus(lot) = "open", ~RatchetReady(lot, price)
      PROVE  \/ TrailPrice(after) = TrailPrice(lot)
             \/ after.breakeven /\ ~lot.breakeven
             \/ fewer
  <2>1. \/ TrailPrice(middle) = TrailPrice(lot)
        \/ middle.breakeven /\ ~lot.breakeven
    BY <1>6, <1>7 DEF Foretold
  <2>2. after.exits = middle.exits => TrailPrice(after) = TrailPrice(middle)
    BY DEF TrailPrice, Legs
  <2>. QED BY <1>1, <2>1, <2>2
<1>8. ASSUME ~lot.activated
      PROVE  /\ ActivationReady(lot, price) => after.activated
             /\ after.activated => ActivationReady(lot, price) \/ fewer
  <2>1. /\ ActivationReady(lot, price) => middle.activated
        /\ middle.activated => ActivationReady(lot, price)
    BY <1>6, <1>8 DEF Foretold
  <2>. QED BY <1>1, <2>1
<1>. QED BY <1>5, <1>7, <1>8 DEF Foretold

\* So does a mark as a whole, whatever else the position holds.
LEMMA AloneForetold ==
  ASSUME NEW book \in BalancedBooks, NEW lot, Fit(lot), lot.remaining \in 0 .. lot.original,
         Faced(Single(lot, book), 1, book), NEW price \in Int, price > 0,
         ~lot.plan.afterTp, Legs(lot, "trailing_stop") # {},
         Legs(Alone(lot, book, price), "trailing_stop") # {}
  PROVE  Foretold(lot, Alone(lot, book, price), price)
<1>. DEFINE after == Alone(lot, book, price)
            moved == Moved(lot, price)
<1>1. Single(lot, book).lots[1] = lot
  BY DEF Single
<1>2. MarkedLot(lot, Single(lot, book).position, MarkLot(Single(lot, book), 1, price), price, book)
  BY <1>1, LotMarked
<1>3. Fit(after) /\ Tightens(moved, after) /\ Passed(moved, after)
  BY <1>2 DEF MarkedLot, Alone
<1>4. /\ Fit(moved)
      /\ SameLot(lot, moved)
      /\ DOMAIN moved.exits = DOMAIN lot.exits
      /\ Legs(moved, "trailing_stop") = Legs(lot, "trailing_stop")
  BY MovedLot DEF Moved
<1>5. Foretold(lot, moved, price)
  BY MovedForetold
<1>. HIDE DEF moved, after
<1>6. Len(moved.exits) = Len(lot.exits)
  <2>1. moved.exits \in Seq(Leg) /\ lot.exits \in Seq(Leg)
    BY <1>4 DEF Fit, Lot
  <2>. QED BY <1>4, <2>1
<1>7. /\ Candidate(lot, price) \in Int
      /\ RatchetReady(lot, price) => lot.dir = 1 \/ Candidate(lot, price) > 0
  <2>1. Candidate(lot, price) \in Int
    BY CandidateIsWhole DEF Fit
  <2>2. TrailStatus(lot) = "open" => lot.activated
    BY TrailLegOf DEF Fit, Armed
  <2>3. lot.activated => Sane(lot, Candidate(lot, price), TrailPrice(lot))
    BY RatchetAnnounced
  <2>. QED BY <2>1, <2>2, <2>3 DEF RatchetReady, Sane
<1>8. /\ lot \in Lot /\ moved \in Lot /\ OneEach(moved) /\ after \in Lot /\ OneEach(after)
      /\ moved.dir = lot.dir /\ moved.plan = lot.plan
      /\ Legs(moved, "trailing_stop") # {} /\ Legs(after, "trailing_stop") # {}
  BY <1>3, <1>4 DEF Fit, SameLot, after
<1>. QED BY <1>3, <1>5, <1>6, <1>7, <1>8, PassedForetold DEF after

\* The operator is shown what will happen: a mark leaves the lots of a bracket as
\* its preview said (_preview_lots_for_signal), and its trailing stop as the
\* telemetry announced (api/bracket_views.py).
THEOREM ViewsAreTrue == Spec => ViewsForetellMarks
<1>1. ASSUME IInv, NEW price \in Prices, Mark(price), NEW i \in DOMAIN lots
      PROVE  /\ Previewable(lots[i]) =>
                   Preview(lots[i].id, price) = OfSignal(lots', lots[i].id)
             /\ \A j \in DOMAIN lots' :
                   /\ lots[i].id = lots'[j].id
                   /\ ~lots[i].plan.afterTp
                   /\ Legs(lots[i], "trailing_stop") # {}
                   /\ Legs(lots'[j], "trailing_stop") # {}
                   => Foretold(lots[i], lots'[j], price)
  <2>1. position # 0 /\ price \in Int /\ price > 0
    BY <1>1, BracketAssumption DEF Mark
  <2>2. PICK v :
          /\ lots' = Open(v)
          /\ Within(v)
          /\ DOMAIN v = DOMAIN lots
          /\ \A k \in DOMAIN lots : v[k] = Alone(lots[k], replayed, price)
    BY <1>1, MarkIsAlone
  <2>3. /\ replayed \in BalancedBooks /\ Markable(lots)
        /\ replayed.position = Exposure(lots)
    <3>1. lots # <<>>
      BY <1>1
    <3>. QED BY <1>1, <3>1, BookReady DEF Ready
  <2>4. ASSUME NEW k \in DOMAIN lots
        PROVE  /\ Fit(lots[k]) /\ lots[k].remaining \in 0 .. lots[k].original
               /\ Faced(Single(lots[k], replayed), 1, replayed)
               /\ v[k].id = lots[k].id
    <3>1. /\ Faced(Single(lots[k], replayed), 1, replayed)
          /\ Single(lots[k], replayed).lots[1] = lots[k]
      BY <2>3, SingleFaced
    <3>2. SameSignal(lots[k], Alone(lots[k], replayed, price))
      BY <2>1, <2>3, <3>1, LotMarked DEF MarkedLot, Alone
    <3>. QED BY <2>2, <3>1, <3>2 DEF Faced, SameSignal
  <2>5. Preview(lots[i].id, price) = OfSignal(lots', lots[i].id)
    <3>. DEFINE left == Alone(lots[i], replayed, price)
    <3>1. Preview(lots[i].id, price) = IF left.remaining > 0 THEN <<left>> ELSE <<>>
      BY <1>1, <2>1, PreviewOfOne
    <3>2. v[i] = left /\ v[i].id = lots[i].id /\ i \in DOMAIN v
      BY <1>1, <2>2, <2>4
    <3>. HIDE DEF left
    <3>3. OfSignal(lots', v[i].id) = IF v[i].remaining > 0 THEN <<v[i]>> ELSE <<>>
      BY <2>2, <3>2, OpenOfSignal
    <3>. QED BY <3>1, <3>2, <3>3
  <2>6. ASSUME NEW j \in DOMAIN lots', lots[i].id = lots'[j].id, ~lots[i].plan.afterTp,
               Legs(lots[i], "trailing_stop") # {}, Legs(lots'[j], "trailing_stop") # {}
        PROVE  Foretold(lots[i], lots'[j], price)
    <3>1. v \in Seq(Lot) /\ \A k, l \in DOMAIN v : v[k].id = v[l].id => k = l
      BY <2>2 DEF Within, WellFormed
    <3>2. PICK k \in DOMAIN v : lots'[j] = v[k]
      BY <2>2, <2>6, <3>1, OpenKeeps
    <3>3. k = i
      BY <1>1, <2>2, <2>4, <2>6, <3>1, <3>2
    <3>4. lots'[j] = Alone(lots[i], replayed, price)
      BY <2>2, <3>2, <3>3
    <3>. QED BY <1>1, <2>1, <2>3, <2>4, <2>6, <3>4, AloneForetold
  <2>. QED BY <2>5, <2>6
<1>2. ASSUME IInv, [Next]_vars
      PROVE  [\A price \in Prices : Mark(price) =>
                  \A i \in DOMAIN lots :
                     /\ Previewable(lots[i]) =>
                           Preview(lots[i].id, price) = OfSignal(lots', lots[i].id)
                     /\ \A j \in DOMAIN lots' :
                           /\ lots[i].id = lots'[j].id
                           /\ ~lots[i].plan.afterTp
                           /\ Legs(lots[i], "trailing_stop") # {} /\ Legs(lots'[j], "trailing_stop") # {}
                           => Foretold(lots[i], lots'[j], price)]_vars
  BY <1>1, <1>2
<1>. QED BY <1>2, Invariance, PTL DEF Spec, ViewsForetellMarks
=============================================================================
