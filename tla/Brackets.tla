------------------------------ MODULE Brackets ------------------------------
(***************************************************************************)
(* The synthetic exits of one paper lot, as operators on the lot           *)
(* (execution.py).  A lot is what is left of one entry; its exits are an   *)
(* ordered list of legs, of which the first matching one counts.           *)
(*                                                                         *)
(* The code writes every rule twice, for long and for short lots.  Here a  *)
(* lot has a direction, 1 or -1, and a rule compares prices by how far     *)
(* they lie in the lot's favour.                                           *)
(*                                                                         *)
(* Prices are integers, in cents or whatever step the code's rounding of a *)
(* trigger keeps, and quantities in the smallest step the instance tells   *)
(* apart.  The percentages of a signal that are taken of its entry price   *)
(* enter as the prices they come to; the trailing stop's percentages are   *)
(* taken of prices that move.  0 stands for a field of a plan that is None.*)
(***************************************************************************)
EXTENDS Integers, Sequences, FiniteSets

CONSTANT NoWater    \* high_water_mark and low_water_mark while they are None

ASSUME WaterAssumption == NoWater \notin Int

Protective == {"stop_loss", "trailing_stop"}

Exit(kind, price, pct, status) ==
    [kind |-> kind, price |-> price, pct |-> pct, status |-> status]

\* Price a lies further in the lot's favour than price b.
Further(lot, a, b) == lot.dir * (a - b) > 0

Furthest(lot, a, b) == IF Further(lot, a, b) THEN a ELSE b

Legs(lot, kind) == {i \in DOMAIN lot.exits : lot.exits[i].kind = kind}

FirstLeg(legs) == CHOOSE i \in legs : \A j \in legs : i <= j

\* The first of the legs whose trigger lies furthest in the lot's favour.
NearestLeg(lot, legs) ==
    FirstLeg({i \in legs :
        \A j \in legs : ~Further(lot, lot.exits[j].price, lot.exits[i].price)})

WithoutLeg(exits, i) == SubSeq(exits, 1, i - 1) \o SubSeq(exits, i + 1, Len(exits))

-----------------------------------------------------------------------------
(***************************************************************************)
(* How far a trailing stop trails.  A distance is an amount or else a      *)
(* percentage of the price it trails, so a trigger is a hundredth of       *)
(* Scale times that price, less the amount, rounded to a whole price.      *)
(* Water marks are kept times Scale: this makes the one a trigger implies, *)
(* a quotient in the code, whole.  All that is used of x, a lot or an      *)
(* entry, is its direction and its plan.                                   *)
(***************************************************************************)

\* _has_trailing_distance.
Trails(plan) == plan.distance # 0 \/ plan.distancePct # 0

Scale(x) == IF x.plan.distance # 0 THEN 100 ELSE 100 - x.dir * x.plan.distancePct

\* The water mark that a price sets.
MarkAt(x, price) == Scale(x) * price

\* _money of hundredths, half up.
Money(hundredths) == (hundredths + 50) \div 100

\* The trigger that lies _trailing_distance behind a water mark.
TriggerBehind(x, water) == Money(water - 100 * x.dir * x.plan.distance)

\* The water mark that a trigger implies.
ImpliedBy(x, trigger) == 100 * (trigger + x.dir * x.plan.distance)

-----------------------------------------------------------------------------
(***************************************************************************)
(* Opening a lot.  An entry has an id, a direction, a price and a plan:    *)
(*   stop                      price of the stop-loss                      *)
(*   targets                   take-profit targets [price, pct]            *)
(*   distance, distancePct     of the trailing stop, amount or percentage  *)
(*   trailPrice                where it starts, if not at its distance     *)
(*   step, stepPct             least ratchet, amount or share of trigger   *)
(*   trailPct                  share of the lot the trailing stop closes   *)
(*   activation, afterTp       what arms the trailing stop                 *)
(*   breakevenAt               price that moves the protection to entry    *)
(*   breakevenAfterTp, lockAt  what a partial take-profit moves it to      *)
(*   maxHold                   marks after which the lot is closed         *)
(***************************************************************************)

\* build_exit_orders.
BuildExits(entry) ==
    LET plan == entry.plan
        stop == Exit("stop_loss", plan.stop, 100, "open")
        start == IF plan.trailPrice # 0 THEN plan.trailPrice
                 ELSE TriggerBehind(entry, MarkAt(entry, entry.price))
        trail == Exit("trailing_stop", start, plan.trailPct,
                      IF plan.afterTp THEN "pending_take_profit"
                      ELSE IF plan.activation # 0 THEN "pending_activation" ELSE "open")
    IN  (IF plan.stop = 0 THEN <<>> ELSE <<stop>>)
          \o [i \in DOMAIN plan.targets |->
                Exit("take_profit", plan.targets[i].price, plan.targets[i].pct, "open")]
          \o (IF Trails(plan) THEN <<trail>> ELSE <<>>)
          \o (IF plan.maxHold = 0 THEN <<>>
              ELSE <<Exit("time_exit", entry.price, 100, "waiting")>>)

\* _trailing_starts_activated.
StartsActivated(plan) == ~plan.afterTp /\ plan.activation = 0

\* _open_long_lot and _open_short_lot.
OpenLot(entry, quantity) ==
    [id |-> entry.id, dir |-> entry.dir, entry |-> entry.price, plan |-> entry.plan,
     original |-> quantity, remaining |-> quantity, exits |-> BuildExits(entry),
     activated |-> StartsActivated(entry.plan), tpFilled |-> FALSE, breakeven |-> FALSE,
     water |-> IF Trails(entry.plan) /\ StartsActivated(entry.plan)
               THEN MarkAt(entry, entry.price) ELSE NoWater,
     marks |-> 0]

-----------------------------------------------------------------------------
(***************************************************************************)
(* Which exit a mark triggers.                                             *)
(***************************************************************************)

\* Open protective legs at or past their trigger (_triggered_protective_exit).
Crossed(lot, price) ==
    {i \in DOMAIN lot.exits :
        /\ lot.exits[i].status = "open"
        /\ \/ lot.exits[i].kind = "stop_loss"
           \/ lot.exits[i].kind = "trailing_stop" /\ lot.activated
        /\ ~Further(lot, price, lot.exits[i].price)}

Reached(lot, price) ==
    {i \in Legs(lot, "take_profit") :
        lot.exits[i].status = "open" /\ ~Further(lot, lot.exits[i].price, price)}

HeldTooLong(lot) == lot.plan.maxHold # 0 /\ lot.marks >= lot.plan.maxHold

Triggers(lot, price) ==
    Crossed(lot, price) # {} \/ Reached(lot, price) # {} \/ HeldTooLong(lot)

\* _triggered_exit: the leg a triggering mark sets off, 0 for the time exit.
TriggeredExit(lot, price) ==
    IF Crossed(lot, price) # {} THEN NearestLeg(lot, Crossed(lot, price))
    ELSE IF Reached(lot, price) # {} THEN FirstLeg(Reached(lot, price))
    ELSE 0

TriggeredKind(lot, i) == IF i = 0 THEN "time_exit" ELSE lot.exits[i].kind

\* _exit_quantity: targets and trailing stops close a share of the original lot.
ExitQuantity(lot, i) ==
    IF TriggeredKind(lot, i) \in {"take_profit", "trailing_stop"}
       /\ lot.original * lot.exits[i].pct < 100 * lot.remaining
    THEN (lot.original * lot.exits[i].pct) \div 100
    ELSE lot.remaining

-----------------------------------------------------------------------------
(***************************************************************************)
(* Moving the protection.                                                  *)
(***************************************************************************)

\* `high_water_mark or entry_price`: a mark of zero counts as none.
Water(lot) == IF lot.water \in {NoWater, 0} THEN MarkAt(lot, lot.entry) ELSE lot.water

\* _sync_trailing_water_mark: arms the trailing stop and moves its water mark to
\* where it would have set this trigger.
SyncWater(lot, trigger) ==
    [lot EXCEPT
        !.activated = TRUE,
        !.water = IF Trails(lot.plan) THEN Furthest(lot, ImpliedBy(lot, trigger), Water(lot))
                  ELSE @]

\* Protective legs that a move to this price would tighten.
Looser(lot, price) ==
    {i \in DOMAIN lot.exits :
        lot.exits[i].kind \in Protective /\ Further(lot, price, lot.exits[i].price)}

\* _protective_exit_price_amendments and, at the entry price,
\* _breakeven_exit_amendments, with the synchronisation their callers do.
Protect(lot, price) ==
    LET moved == [lot EXCEPT !.exits = [i \in DOMAIN @ |->
                     IF i \in Looser(lot, price)
                     THEN [@[i] EXCEPT !.price = price, !.status = "open"] ELSE @[i]]]
    IN  IF Looser(lot, price) \cap Legs(lot, "trailing_stop") = {}
        THEN moved ELSE SyncWater(moved, price)

\* _replace_or_append_trailing_stop with an open leg: all trailing legs move.
Retrailed(lot, trigger) ==
    [lot EXCEPT !.exits = [i \in DOMAIN @ |->
        IF @[i].kind = "trailing_stop"
        THEN [@[i] EXCEPT !.price = trigger, !.status = "open"] ELSE @[i]]]

\* _trailing_step, in hundredths.
Step(lot, current) == IF lot.plan.step # 0 THEN 100 * lot.plan.step ELSE lot.plan.stepPct * current

\* Mutant of StepReached: the step has to be exceeded.
StepExceeded(lot, current, trigger) ==
    Step(lot, current) <= 0 \/ 100 * lot.dir * (trigger - current) > Step(lot, current)

\* _trailing_step_reached.
StepReached(lot, current, trigger) ==
    Step(lot, current) <= 0 \/ 100 * lot.dir * (trigger - current) >= Step(lot, current)

TrailPrice(lot) == lot.exits[FirstLeg(Legs(lot, "trailing_stop"))].price

\* A ratchet moves the trailing stop, which must tighten it by a whole step.
Ratchets(lot, trigger) ==
    Legs(lot, "trailing_stop") # {} =>
        Further(lot, trigger, TrailPrice(lot)) /\ StepReached(lot, TrailPrice(lot), trigger)

\* _trailing_activation_price.
ActivationPrice(lot) ==
    IF lot.plan.activation # 0 THEN lot.plan.activation ELSE lot.entry

\* The trailing stop waits for a target to fill, or for its activation price.
Dormant(lot, price) ==
    \/ ~Trails(lot.plan)
    \/ lot.plan.afterTp /\ ~lot.tpFilled
    \/ ~lot.activated /\ Further(lot, ActivationPrice(lot), price)

\* Mutant of UpdateTrailing: the trigger follows the mark in both directions.
UpdateTrailingFollows(lot, price) ==
    IF Dormant(lot, price) THEN lot
    ELSE Retrailed([lot EXCEPT !.activated = TRUE, !.water = MarkAt(lot, price)],
                   TriggerBehind(lot, MarkAt(lot, price)))

\* _update_trailing_stop and _update_short_trailing_stop.
UpdateTrailing(lot, price) ==
    LET water == IF lot.water = NoWater THEN MarkAt(lot, lot.entry) ELSE lot.water
        trigger == TriggerBehind(lot, MarkAt(lot, price))
        armed == [lot EXCEPT !.activated = TRUE, !.water = MarkAt(lot, price)]
    IN  IF Dormant(lot, price) THEN lot
        ELSE IF lot.activated /\ ~Further(lot, MarkAt(lot, price), water)
        THEN [lot EXCEPT !.water = water]
        ELSE IF Ratchets(lot, trigger) THEN Retrailed(armed, trigger)
        ELSE armed

\* _apply_breakeven: unlike an amendment it leaves the status of a leg alone.
ApplyBreakeven(lot, price) ==
    IF lot.plan.breakevenAt = 0 \/ lot.breakeven \/ Further(lot, lot.plan.breakevenAt, price)
    THEN lot
    ELSE [lot EXCEPT
            !.breakeven = TRUE,
            !.exits = [i \in DOMAIN @ |->
                IF @[i].kind \in Protective
                THEN [@[i] EXCEPT !.price = Furthest(lot, lot.exits[i].price, lot.entry)]
                ELSE @[i]]]

\* _release_trailing_after_take_profit.
ReleaseTrailing(lot, price) ==
    IF ~lot.plan.afterTp \/ ~Trails(lot.plan) \/ Legs(lot, "trailing_stop") = {} THEN lot
    ELSE IF lot.plan.activation # 0 /\ Further(lot, lot.plan.activation, price)
    THEN [lot EXCEPT !.exits = [i \in DOMAIN @ |->
            IF @[i].kind = "trailing_stop"
            THEN [@[i] EXCEPT !.status = "pending_activation"] ELSE @[i]]]
    ELSE Retrailed([lot EXCEPT !.activated = TRUE, !.water = MarkAt(lot, price)],
                   TriggerBehind(lot, MarkAt(lot, price)))

\* _apply_take_profit_protective_lock.
LockAfterTp(lot) ==
    LET at == IF lot.plan.lockAt # 0 THEN lot.plan.lockAt ELSE lot.entry
    IN  IF \/ lot.plan.lockAt = 0 /\ (~lot.plan.breakevenAfterTp \/ lot.breakeven)
           \/ Looser(lot, at) = {}
        THEN lot
        ELSE [Protect(lot, at) EXCEPT !.breakeven = TRUE]

-----------------------------------------------------------------------------
(***************************************************************************)
(* What operators may change.                                              *)
(***************************************************************************)

\* _protective_stop_amendment returns a stop.
StopAllowed(lot, price) ==
    Legs(lot, "stop_loss") # {} =>
        Further(lot, price, lot.exits[FirstLeg(Legs(lot, "stop_loss"))].price)

\* _replace_or_append_stop: a bracket without a stop gets one in front.
AmendStop(lot, price) ==
    LET stop == Exit("stop_loss", price, 100, "open")
    IN  IF Legs(lot, "stop_loss") = {} THEN [lot EXCEPT !.exits = <<stop>> \o @]
        ELSE [lot EXCEPT !.exits = [i \in DOMAIN @ |->
                IF @[i].kind = "stop_loss" THEN stop ELSE @[i]]]

\* Mutant of TrailAllowed: any trigger will do.
TrailAllowedLoose(lot, price) == Legs(lot, "trailing_stop") # {}

\* _protective_trailing_amendment returns a stop.
TrailAllowed(lot, price) ==
    Legs(lot, "trailing_stop") # {} /\ Further(lot, price, TrailPrice(lot))

AmendTrail(lot, price) == SyncWater(Retrailed(lot, price), price)

\* The water mark a favourable mark would set.
WaterAt(lot, mark) == Furthest(lot, MarkAt(lot, mark), Water(lot))

\* _candidate_trailing_trigger.
Candidate(lot, mark) == TriggerBehind(lot, WaterAt(lot, mark))

\* tighten_bracket_trailing_stop_to_mark changes the lot.
TightenAllowed(lot, mark) ==
    /\ Trails(lot.plan)
    /\ lot.plan.afterTp => lot.tpFilled
    /\ ~lot.activated /\ lot.plan.activation # 0 => ~Further(lot, lot.plan.activation, mark)
    /\ TrailAllowed(lot, Candidate(lot, mark))
    /\ StepReached(lot, TrailPrice(lot), Candidate(lot, mark))

Tighten(lot, mark) ==
    AmendTrail([lot EXCEPT !.water = WaterAt(lot, mark)], Candidate(lot, mark))

\* The leg of the take-profit target with this index, counted from 0.
Target(lot, index) ==
    {i \in Legs(lot, "take_profit") :
        Cardinality({j \in Legs(lot, "take_profit") : j < i}) = index}

\* _take_profit_amendment returns a target.
TargetAllowed(lot, index, price) ==
    /\ Further(lot, price, lot.entry)
    /\ \E i \in Target(lot, index) : Further(lot, price, lot.exits[i].price)

\* _replace_take_profit.
AmendTarget(lot, index, price) ==
    [lot EXCEPT !.exits = [i \in DOMAIN @ |->
        IF i \in Target(lot, index)
        THEN [@[i] EXCEPT !.price = price, !.status = "open"] ELSE @[i]]]

\* _nearest_protective_exit finds a leg.
HasProtection(lot) ==
    \E i \in DOMAIN lot.exits :
        lot.exits[i].kind \in Protective /\ lot.exits[i].status = "open"
=============================================================================
