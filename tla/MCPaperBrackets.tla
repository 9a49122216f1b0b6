--------------------------- MODULE MCPaperBrackets ---------------------------
(***************************************************************************)
(* Small instances of PaperBrackets, around an entry at 10.  A plan is     *)
(* written for a long lot and mirrored for a short one.                    *)
(***************************************************************************)
EXTENDS BracketViews

NoPlan ==
    [stop |-> 0, targets |-> <<>>, distance |-> 0, distancePct |-> 0, trailPrice |-> 0,
     step |-> 0, stepPct |-> 0, trailPct |-> 100, activation |-> 0, afterTp |-> FALSE,
     breakevenAt |-> 0, breakevenAfterTp |-> FALSE, lockAt |-> 0, maxHold |-> 0]

Mirror(price) == IF price = 0 THEN 0 ELSE 20 - price

MirrorPlan(plan) ==
    [plan EXCEPT !.stop = Mirror(@), !.trailPrice = Mirror(@), !.activation = Mirror(@),
                 !.breakevenAt = Mirror(@), !.lockAt = Mirror(@),
                 !.targets = [i \in DOMAIN @ |-> [@[i] EXCEPT !.price = Mirror(@)]]]

Long(id, quantity, plan) ==
    [id |-> id, dir |-> 1, notional |-> 10 * quantity, price |-> 10, plan |-> plan]

Short(id, quantity, plan) ==
    [id |-> id, dir |-> -1, notional |-> 10 * quantity, price |-> 10, plan |-> MirrorPlan(plan)]

HalfAt(price) == [price |-> price, pct |-> 50]

\* A stop, two targets, and the first of them moves the stop to entry.
Staged == [NoPlan EXCEPT !.stop = 8, !.targets = <<HalfAt(11), HalfAt(12)>>,
                         !.breakevenAfterTp = TRUE]

\* A trailing stop that closes half, beside a hard stop and a time stop.
Trailed == [NoPlan EXCEPT !.stop = 7, !.distance = 2, !.trailPct = 50, !.maxHold = 3]

\* A stepped trailing stop that an activation price arms, or a target before it.
Activated == [NoPlan EXCEPT !.distance = 3, !.step = 2, !.activation = 12, !.stop = 8,
                            !.targets = <<HalfAt(11)>>, !.breakevenAfterTp = TRUE]

\* A stepped trailing stop beside a breakeven rule.
Guarded == [NoPlan EXCEPT !.distance = 1, !.step = 2, !.breakevenAt = 12]

\* A trailing stop that closes half and a target for the other half.
Halved == [NoPlan EXCEPT !.targets = <<HalfAt(12)>>, !.distance = 2, !.trailPct = 50]

\* A partial target that locks profit.
Locked == [NoPlan EXCEPT !.stop = 8, !.targets = <<HalfAt(12)>>, !.lockAt = 11,
                         !.breakevenAt = 11]

\* A trailing stop that starts far behind its distance.
Placed == [NoPlan EXCEPT !.distance = 2, !.trailPrice = 6, !.stop = 7]

\* One that starts nearer than its distance, when it is armed.
PlacedNear == [NoPlan EXCEPT !.distance = 3, !.trailPrice = 9, !.activation = 11]

\* A distance and a step that change with the price.
Shared == [NoPlan EXCEPT !.distancePct = 20, !.stepPct = 15, !.breakevenAt = 12]

\* A trailing stop released by the first target.
Released == [NoPlan EXCEPT !.distance = 2, !.afterTp = TRUE, !.targets = <<HalfAt(11)>>]

\* A stop with a time stop.
Timed == [NoPlan EXCEPT !.stop = 8, !.maxHold = 2]

Plain == [NoPlan EXCEPT !.stop = 8]

OneLot == {<<Long("a", 4, plan)>> : plan \in {Staged, Trailed, Activated, Locked}}
            \cup {<<Short("a", 4, plan)>> : plan \in {Staged, Trailed, Activated, Locked}}
            \cup {<<Long("a", 4, Halved)>>, <<Short("a", 4, Guarded)>>}
            \cup {<<Long("a", 4, plan)>> : plan \in {Placed, Shared}}
            \cup {<<Short("a", 4, plan)>> : plan \in {PlacedNear, Shared}}

TwoLots == {<<Long("a", 2, Staged), Long("b", 2, Timed)>>,
            <<Short("a", 2, Staged), Long("b", 4, Locked)>>,
            <<Long("a", 2, Plain), Short("b", 1, Plain)>>}

Books == OneLot \cup TwoLots

ReleasedLot == {<<Long("a", 4, Released)>>}
=============================================================================
