---------------------------- MODULE PaperBrackets ----------------------------
(***************************************************************************)
(* The paper exchange on one symbol (execution.py): its position, its lots *)
(* with their synthetic brackets, the routes that mark prices and maintain *)
(* brackets (app.py), and the replay of the recorded orders.               *)
(*                                                                         *)
(* Submission to the paper exchange has been removed, so lots come from a  *)
(* recorded history of bracketed entries that is replayed into the         *)
(* exchange an application is created on.  From there on marks and         *)
(* operator amendments change them, in any order, each recording an order. *)
(*                                                                         *)
(* `replayed` is the book that from_order_history builds from all orders   *)
(* recorded so far.  Every handler is a single step of the event loop.     *)
(* Signal ids are claimed once, so an id has at most one lot.              *)
(***************************************************************************)
EXTENDS Brackets, SequencesExt

CONSTANTS
    Histories,     \* histories an application starts on: sequences of entries
    Prices,        \* marks, and triggers operators ask for
    Amounts,       \* quantities operators ask to close
    MaxMarks,      \* bound: marks a lot sees
    MaxRestarts    \* bound: process restarts in a behaviour

Entries == UNION {ToSet(history) : history \in Histories}
Ids == {entry.id : entry \in Entries}

Plan ==
    [stop : Int, targets : Seq([price : Int, pct : Nat]), distance : Nat, distancePct : Nat,
     trailPrice : Nat, step : Nat, stepPct : Nat, trailPct : Nat, activation : Int,
     afterTp : BOOLEAN, breakevenAt : Int, breakevenAfterTp : BOOLEAN, lockAt : Int,
     maxHold : Nat]

\* What an entry buys or sells for its notional.
Bought(entry) == entry.notional \div entry.price

\* Prices and quantities are positive, and an entry has a bracket and a signal id
\* of its own.  Quantities are in a step in which what an entry buys is whole: the
\* code's quotients have 28 digits.  A long lot does not trail by its whole price:
\* its trigger would lie at zero, and the code divides by what is left of the price.
ASSUME BracketAssumption ==
    /\ \A history \in Histories :
          /\ history \in Seq(Entries)
          /\ \A i, j \in DOMAIN history : history[i].id = history[j].id => i = j
    /\ \A entry \in Entries :
          /\ entry.dir \in {1, -1}
          /\ entry.notional \in Nat \ {0}
          /\ entry.price \in Nat \ {0}
          /\ Bought(entry) * entry.price = entry.notional
          /\ entry.plan \in Plan
          /\ entry.dir = 1 => entry.plan.distancePct < 100
          /\ BuildExits(entry) # <<>>
    /\ Prices \subseteq Nat \ {0}
    /\ Amounts \subseteq Nat \ {0}
    /\ MaxRestarts \in Nat

VARIABLES
    lots,       \* PaperExchange.lots, in the order they were opened
    position,   \* PaperPosition.quantity, negative when short
    replayed,   \* the book the recorded orders replay to     (history)
    restarts    \* process restarts so far

vars == <<lots, position, replayed, restarts>>

Kinds == {"stop_loss", "take_profit", "trailing_stop", "time_exit"}
Statuses == {"open", "waiting", "pending_activation", "pending_take_profit"}

Leg == [kind : Kinds, price : Int, pct : Nat, status : Statuses]

Lot ==
    [id : Ids, dir : {1, -1}, entry : Int, plan : Plan, original : Int, remaining : Int,
     exits : Seq(Leg), activated : BOOLEAN, tpFilled : BOOLEAN, breakeven : BOOLEAN,
     water : {NoWater} \cup Int, marks : Int]

\* A lot has one stop and one trailing stop at most.
OneEach(lot) ==
    \A kind \in Protective : \A a, b \in Legs(lot, kind) : a = b

\* Lots with exits of their kinds, one lot for each signal.
WellFormed(book) ==
    /\ book \in Seq(Lot)
    /\ \A i \in DOMAIN book : OneEach(book[i])
    /\ \A i, j \in DOMAIN book : book[i].id = book[j].id => i = j

LotsOK(book) ==
    /\ WellFormed(book)
    /\ \A i \in DOMAIN book : book[i].remaining \in 1 .. book[i].original

TypeOK ==
    /\ LotsOK(lots)
    /\ position \in Int
    /\ replayed \in [lots : Seq(Lot), position : Int]
    /\ LotsOK(replayed.lots)
    /\ restarts \in 0 .. MaxRestarts

-----------------------------------------------------------------------------
(***************************************************************************)
(* Quantities.  What is computed along a sequence of lots, entries or fills *)
(* is a function of how many of them have been taken.                      *)
(***************************************************************************)

Least(a, b) == IF a < b THEN a ELSE b
Most(a, b) == IF a > b THEN a ELSE b

\* Mutant of Open: a canceled bracket is dropped with its lot.
OpenBracketed(book) == SelectSeq(book, LAMBDA lot : lot.remaining > 0 /\ lot.exits # <<>>)

\* Mutant of Open: closed lots are kept.
OpenAll(book) == book

\* lots without the ones that are closed.
Open(book) ==
    LET kept[n \in 0 .. Len(book)] ==
            IF n = 0 THEN <<>>
            ELSE IF book[n].remaining > 0 THEN Append(kept[n - 1], book[n]) ELSE kept[n - 1]
    IN  kept[Len(book)]

\* What a lot holds in direction dir.
Holds(lot, dir) == IF lot.dir = dir THEN lot.remaining ELSE 0

\* What the first n lots hold in direction dir, for each n.
Quantities(book, dir) ==
    LET sum[n \in 0 .. Len(book)] == IF n = 0 THEN 0 ELSE sum[n - 1] + Holds(book[n], dir)
    IN  sum

\* _open_lot_quantity.
OpenQuantity(book, dir) == Quantities(book, dir)[Len(book)]

\* What the lots of a book come to.
Exposure(book) == OpenQuantity(book, 1) - OpenQuantity(book, -1)

\* Mutant of Held: the quantity of a short is taken with its sign.
HeldSigned(dir, quantity) == quantity

\* The quantity a position holds in direction dir.
Held(dir, quantity) == IF dir = 1 THEN quantity ELSE IF quantity < 0 THEN -quantity ELSE quantity

\* Mutant of Reduced: a reduction starts with the newest lot and stops there.
ReducedNewest(book, dir, quantity) ==
    [i \in DOMAIN book |->
        IF book[i].dir = dir /\ i = Len(book)
        THEN [book[i] EXCEPT !.remaining = @ - Least(@, quantity)]
        ELSE book[i]]

\* The lots after a reduction of the lots in direction dir, oldest first.
Reduced(book, dir, quantity) ==
    [i \in DOMAIN book |->
        IF book[i].dir # dir THEN book[i]
        ELSE LET left == Most(0, quantity - Quantities(book, dir)[i - 1])
             IN  [book[i] EXCEPT !.remaining = @ - Least(@, left)]]

\* _sell_quantity and _buy_quantity.  What exceeds the lots is taken off a long
\* position, and off a short one not at all.
Reduce(book, dir, quantity) ==
    LET fromLots == Least(quantity, OpenQuantity(book.lots, dir))
        rest == quantity - fromLots
        after == book.position - dir * fromLots
    IN  [lots |-> Open(Reduced(book.lots, dir, quantity)),
         position |-> IF dir = 1 /\ after > 0 THEN after - Least(rest, after) ELSE after]

\* PaperPosition.buy and sell_short.
Opened(dir, quantity, amount) ==
    IF dir = 1 THEN Most(0, quantity + amount) ELSE -(Most(0, -quantity) + amount)

-----------------------------------------------------------------------------
(***************************************************************************)
(* Replay: PaperExchange._replay_order of what has been recorded.          *)
(***************************************************************************)

\* An entry closes lots of the other direction before it opens one.
ReplayEntry(book, entry) ==
    LET netted == Least(Bought(entry), OpenQuantity(book.lots, -entry.dir))
        opened == Bought(entry) - netted
        after == Reduce(book, -entry.dir, netted)
    IN  IF opened = 0 THEN after
        ELSE [lots |-> Append(after.lots, OpenLot(entry, opened)),
              position |-> Opened(entry.dir, after.position, opened)]

\* from_order_history of entries alone.
Replay(history) ==
    LET book[n \in 0 .. Len(history)] ==
            IF n = 0 THEN [lots |-> <<>>, position |-> 0]
            ELSE ReplayEntry(book[n - 1], history[n])
    IN  book[Len(history)]

\* The reduce-only orders of exits; fills are [dir, quantity] of the lots they close.
ReplayFills(book, fills) ==
    LET after[n \in 0 .. Len(fills)] ==
            IF n = 0 THEN book
            ELSE Reduce(after[n - 1], fills[n].dir, fills[n].quantity)
    IN  after[Len(fills)]

\* An amendment or cancellation is applied to the lot of its signal id.
ReplayOn(book, id, Update(_)) ==
    [book EXCEPT !.lots = [i \in DOMAIN @ |->
        IF @[i].id = id THEN Update(@[i]) ELSE @[i]]]

ReplayStop(lot, price) == IF StopAllowed(lot, price) THEN AmendStop(lot, price) ELSE lot

ReplayTrail(lot, price) == IF TrailAllowed(lot, price) THEN AmendTrail(lot, price) ELSE lot

ReplayTarget(lot, index, price) ==
    IF TargetAllowed(lot, index, price) THEN AmendTarget(lot, index, price) ELSE lot

ReplayBreakeven(lot) ==
    IF Looser(lot, lot.entry) = {} THEN lot
    ELSE [Protect(lot, lot.entry) EXCEPT !.breakeven = TRUE]

Init ==
    /\ \E history \in Histories :
          LET book == Replay(history)
          IN  /\ lots = book.lots
              /\ position = book.position
              /\ replayed = book
    /\ restarts = 0

-----------------------------------------------------------------------------
(***************************************************************************)
(* POST /market/price: TradingEngine.mark_price, PaperExchange.update_price.*)
(***************************************************************************)

\* Mutant of EndsLoop: one exit for each mark.
EndsLoopAlways(kind) == TRUE

\* A partial take-profit goes on to the next exit, every other exit ends the loop.
EndsLoop(kind) == kind # "take_profit"

\* _close_lot: the quantity that leaves the lot and the position.
Taken(lot, held, quantity) ==
    Least(Least(quantity, lot.remaining), Held(lot.dir, held))

\* One round of update_price's loop over the triggered exits of a lot.
NextExit(run, price) ==
    IF run.done \/ run.lot.remaining = 0 \/ ~Triggers(run.lot, price) THEN run
    ELSE LET leg == TriggeredExit(run.lot, price)
             kind == TriggeredKind(run.lot, leg)
             quantity == ExitQuantity(run.lot, leg)
             taken == Taken(run.lot, run.position, quantity)
             closed == [run.lot EXCEPT !.remaining = @ - taken]
             filled == [closed EXCEPT !.exits = WithoutLeg(@, leg)]
         IN  [lot |-> IF closed.remaining = 0 THEN [closed EXCEPT !.exits = <<>>]
                      ELSE IF kind = "take_profit"
                      THEN LockAfterTp(ReleaseTrailing([filled EXCEPT !.tpFilled = TRUE], price))
                      ELSE IF kind = "trailing_stop" THEN filled
                      ELSE closed,
              position |-> run.position - run.lot.dir * taken,
              fills |-> Append(run.fills, [dir |-> run.lot.dir, quantity |-> quantity]),
              done |-> EndsLoop(kind)]

\* What a mark does to lot i of a book: breakeven, trailing stop, then its exits,
\* of which each round removes one or ends the loop.
MarkLot(book, i, price) ==
    LET moved == UpdateTrailing(ApplyBreakeven(book.lots[i], price), price)
        rounds == Len(book.lots[i].exits) + 1
        run[n \in 0 .. rounds] ==
            IF n = 0
            THEN [lot |-> [moved EXCEPT !.marks = @ + 1], position |-> book.position,
                  fills |-> book.fills, done |-> FALSE]
            ELSE NextExit(run[n - 1], price)
    IN  run[rounds]

\* The lots of a book after a mark has visited the first n of them, for each n;
\* they share the position.
Visited(book, price) ==
    LET after[n \in 0 .. Len(book.lots)] ==
            IF n = 0 THEN [lots |-> book.lots, position |-> book.position, fills |-> <<>>]
            ELSE LET run == MarkLot(after[n - 1], n, price)
                 IN  [lots |-> [after[n - 1].lots EXCEPT ![n] = run.lot],
                      position |-> run.position, fills |-> run.fills]
    IN  after

\* update_price: without a position nothing happens.
Marked(book, price) ==
    LET after == Visited(book, price)[Len(book.lots)]
    IN  IF book.position = 0 THEN [lots |-> book.lots, position |-> 0, fills |-> <<>>]
        ELSE [after EXCEPT !.lots = Open(@)]

Mark(price) ==
    /\ position # 0
    /\ \A i \in DOMAIN lots : lots[i].marks < MaxMarks
    /\ LET after == Marked([lots |-> lots, position |-> position], price)
       IN  /\ lots' = after.lots
           /\ position' = after.position
           /\ replayed' = ReplayFills(replayed, after.fills)
    /\ UNCHANGED restarts

-----------------------------------------------------------------------------
(***************************************************************************)
(* The bracket routes.                                                     *)
(***************************************************************************)

\* The lots a bracket route works on: those of the signal with a leg left.
Active(id) == {i \in DOMAIN lots : lots[i].id = id /\ lots[i].exits # <<>>}

\* A maintained bracket changes its lot and no quantity.
Maintained(i, lot) ==
    /\ lots' = [lots EXCEPT ![i] = lot]
    /\ UNCHANGED <<position, restarts>>

\* POST /brackets/{signal_id}/stop.
AmendBracketStop(id, price) ==
    \E i \in Active(id) :
        /\ StopAllowed(lots[i], price)
        /\ Maintained(i, AmendStop(lots[i], price))
        /\ replayed' = ReplayOn(replayed, id, LAMBDA lot : ReplayStop(lot, price))

\* POST /brackets/{signal_id}/trailing-stop.
AmendBracketTrailingStop(id, price) ==
    \E i \in Active(id) :
        /\ TrailAllowed(lots[i], price)
        /\ Maintained(i, AmendTrail(lots[i], price))
        /\ replayed' = ReplayOn(replayed, id, LAMBDA lot : ReplayTrail(lot, price))

\* POST /brackets/{signal_id}/trailing-stop/mark.
TightenBracketTrailingStop(id, mark) ==
    \E i \in Active(id) :
        /\ TightenAllowed(lots[i], mark)
        /\ Maintained(i, Tighten(lots[i], mark))
        /\ replayed' = ReplayOn(replayed, id,
                          LAMBDA lot : ReplayTrail(lot, Candidate(lots[i], mark)))

\* POST /brackets/{signal_id}/take-profit.
AmendBracketTakeProfit(id, index, price) ==
    \E i \in Active(id) :
        /\ TargetAllowed(lots[i], index, price)
        /\ Maintained(i, AmendTarget(lots[i], index, price))
        /\ replayed' = ReplayOn(replayed, id, LAMBDA lot : ReplayTarget(lot, index, price))

\* POST /brackets/{signal_id}/breakeven.
MoveBracketToBreakeven(id) ==
    \E i \in Active(id) :
        /\ Looser(lots[i], lots[i].entry) # {}
        /\ Maintained(i, ReplayBreakeven(lots[i]))
        /\ replayed' = ReplayOn(replayed, id, ReplayBreakeven)

\* POST /brackets/{signal_id}/lock-profit, at the price the percentage comes to.
LockBracketProfit(id, price) ==
    \E i \in Active(id) :
        /\ Further(lots[i], price, lots[i].entry)
        /\ Looser(lots[i], price) # {}
        /\ Maintained(i, Protect(lots[i], price))
        /\ replayed' = ReplayOn(replayed, id, LAMBDA lot : Protect(lot, price))

\* POST /brackets/{signal_id}/cancel.
CancelBracket(id) ==
    \E i \in Active(id) :
        /\ Maintained(i, [lots[i] EXCEPT !.exits = <<>>])
        /\ replayed' = ReplayOn(replayed, id, LAMBDA lot : [lot EXCEPT !.exits = <<>>])

\* close_bracket of a quantity of lot i.
Close(i, quantity) ==
    LET taken == Taken(lots[i], position, quantity)
    IN  /\ lots' = Open([lots EXCEPT ![i].remaining = @ - taken])
        /\ position' = position - lots[i].dir * taken
        /\ replayed' = Reduce(replayed, lots[i].dir, quantity)
        /\ UNCHANGED restarts

\* _bracket_close_quantity: all of the lot, or the share or amount asked for.
CloseQuantities(lot) == {lot.remaining} \cup {Least(lot.remaining, amount) : amount \in Amounts}

\* POST /brackets/{signal_id}/close.
CloseBracket(id) ==
    \E i \in Active(id) : \E quantity \in CloseQuantities(lots[i]) : Close(i, quantity)

\* POST /brackets/{signal_id}/close-protective: at the nearest open protective
\* trigger, whatever the market is.
CloseBracketAtProtectiveExit(id) ==
    \E i \in Active(id) :
        /\ HasProtection(lots[i])
        /\ \E quantity \in CloseQuantities(lots[i]) : Close(i, quantity)

\* A crash and a new create_app, on an empty paper exchange.
Restart ==
    /\ restarts < MaxRestarts
    /\ restarts' = restarts + 1
    /\ lots' = <<>>
    /\ position' = 0
    /\ UNCHANGED replayed

Next ==
    \/ \E price \in Prices : Mark(price)
    \/ \E id \in Ids, price \in Prices :
          \/ AmendBracketStop(id, price)
          \/ AmendBracketTrailingStop(id, price)
          \/ TightenBracketTrailingStop(id, price)
          \/ \E index \in {0, 1} : AmendBracketTakeProfit(id, index, price)
          \/ LockBracketProfit(id, price)
    \/ \E id \in Ids :
          \/ MoveBracketToBreakeven(id)
          \/ CancelBracket(id)
          \/ CloseBracket(id)
          \/ CloseBracketAtProtectiveExit(id)
    \/ Restart

Spec == Init /\ [][Next]_vars

-----------------------------------------------------------------------------
(***************************************************************************)
(* Properties.                                                             *)
(***************************************************************************)

\* The position holds exactly what its lots hold, through partial targets,
\* trailing reductions, manual closes and netted reversals.
PositionMatchesLots == position = Exposure(lots)

\* Nothing but a recorded entry adds exposure: a mark or a bracket route leaves
\* the position on its side of zero and no larger ("reduce-only").
ExposureOnlyShrinks ==
    [][/\ position' * position >= 0
       /\ position' * position' <= position * position]_vars

\* "protective exits only tighten risk" (README.md:43): whatever moves the
\* trigger of a stop or of a trailing stop, a mark, an amendment, breakeven or a
\* profit lock, moves it in the lot's favour.
ProtectionOnlyTightens ==
    [][\A i \in DOMAIN lots, j \in DOMAIN lots' :
          lots[i].id = lots'[j].id =>
             \A kind \in Protective :
                \A a \in Legs(lots[i], kind), b \in Legs(lots'[j], kind) :
                   ~Further(lots[i], lots[i].exits[a].price, lots'[j].exits[b].price)]_vars

\* A mark leaves nothing undone: a lot it leaves open has no exit that this mark
\* triggers, unless a partial trailing stop has just reduced it, which ends the
\* loop over its exits until the next mark.
NothingDueIsLeft ==
    [][\A price \in Prices : Mark(price) =>
          \A i \in DOMAIN lots, j \in DOMAIN lots' :
             /\ lots[i].id = lots'[j].id
             /\ Legs(lots[i], "trailing_stop") # {} => Legs(lots'[j], "trailing_stop") # {}
             => ~Triggers(lots'[j], price)]_vars

\* A trailing stop at a price of its own that nothing has moved the water mark of.
AtStart(lot) == lot.plan.trailPrice # 0 /\ lot.water = MarkAt(lot, lot.entry)

\* How far an armed trailing stop lags the trigger of its water mark.
Lag(lot) == lot.dir * (TriggerBehind(lot, lot.water) - TrailPrice(lot))

\* An armed trailing stop keeps up with the best price it has seen: it lags the
\* trigger that lies its distance behind by less than one step.  One that the
\* signal started at a price of its own ("sets only the starting paper trigger",
\* README.md:270) may lie further behind, until the water mark leaves the entry
\* price.
TrailKeepsUp ==
    \A i \in DOMAIN lots :
        lots[i].activated /\ Legs(lots[i], "trailing_stop") # {} /\ ~AtStart(lots[i]) =>
           100 * Lag(lots[i]) < Most(Step(lots[i], TrailPrice(lots[i])), 100)

\* The recorded orders replay to the position they describe.
ReplayRestoresPosition ==
    restarts = 0 =>
        replayed.position = position /\ Exposure(replayed.lots) = position

-----------------------------------------------------------------------------
(***************************************************************************)
(* The inductive invariant.                                                *)
(***************************************************************************)

\* The trailing stop of a lot.  Until it is armed it has no water mark, and unless
\* it has a price of its own it lies where the entry put it or nearer.  The water
\* mark of a long lot is positive; so is the trigger behind that of a short one,
\* unless the trailing stop lies there or nearer.
TrailOK(lot) ==
    /\ ~lot.activated => lot.water = NoWater
    /\ lot.dir = 1 /\ lot.water # NoWater => lot.water > 0
    /\ Legs(lot, "trailing_stop") # {} =>
          /\ Trails(lot.plan)
          /\ lot.activated =>
                /\ lot.water # NoWater
                /\ AtStart(lot) \/ 100 * Lag(lot) < Most(Step(lot, TrailPrice(lot)), 100)
                /\ \/ lot.dir = 1
                   \/ TriggerBehind(lot, lot.water) > 0
                   \/ ~Further(lot, TriggerBehind(lot, lot.water), TrailPrice(lot))
          /\ ~lot.activated /\ lot.plan.trailPrice = 0 =>
                ~Further(lot, TriggerBehind(lot, MarkAt(lot, lot.entry)), TrailPrice(lot))

\* A trailing leg that is open is armed, and so is one that waits for nothing.
Armed(lot) ==
    /\ \A i \in Legs(lot, "trailing_stop") : lot.exits[i].status = "open" => lot.activated
    /\ StartsActivated(lot.plan) => lot.activated

\* All lots are long or all are short: an entry closes the others first.
OneSided(book) == \A i, j \in DOMAIN book : book[i].dir = book[j].dir

\* A lot is what is left of an entry and keeps to its plan.
OfEntry(lot) ==
    \E entry \in Entries :
        lot.id = entry.id /\ lot.dir = entry.dir /\ lot.entry = entry.price /\ lot.plan = entry.plan

IInv ==
    /\ TypeOK
    /\ PositionMatchesLots
    /\ replayed.position = Exposure(replayed.lots)
    /\ restarts = 0 => replayed.position = position
    /\ restarts # 0 => lots = <<>>
    /\ OneSided(lots)
    /\ \A i \in DOMAIN lots : OfEntry(lots[i]) /\ TrailOK(lots[i]) /\ Armed(lots[i])
=============================================================================
