---------------------------- MODULE BracketViews ----------------------------
(***************************************************************************)
(* What an operator is shown about a bracket before acting on it: the      *)
(* previews of a mark or a path of marks (app.py, execution.py), the       *)
(* trailing telemetry of the decision support (api/bracket_views.py) and   *)
(* the coverage report (brackets.py).  None of them changes the exchange,  *)
(* so they are operators on the state of PaperBrackets.                    *)
(*                                                                         *)
(* The previews run update_price on a copy of the exchange.  Telemetry and *)
(* coverage compute the rules of the exchange a second time.               *)
(***************************************************************************)
EXTENDS PaperBrackets

-----------------------------------------------------------------------------
(***************************************************************************)
(* Previews.                                                               *)
(***************************************************************************)

\* The lots of one signal.
OfSignal(book, id) ==
    LET kept[n \in 0 .. Len(book)] ==
            IF n = 0 THEN <<>>
            ELSE IF book[n].id = id THEN Append(kept[n - 1], book[n]) ELSE kept[n - 1]
    IN  kept[Len(book)]

\* _preview_lots_for_signal: the copy keeps the lots of one signal, and the
\* position of all of them.
Sandbox(id) == [lots |-> OfSignal(lots, id), position |-> position]

\* POST /brackets/{signal_id}/preview-path; with one price, preview_bracket_exchange.
PreviewPath(id, prices) ==
    LET path[n \in 0 .. Len(prices)] ==
            IF n = 0 THEN Sandbox(id) ELSE Marked(path[n - 1], prices[n])
    IN  path[Len(prices)]

\* A bracket that has exits left is found by the preview routes.
Previewable(lot) == lot.exits # <<>>

\* POST /brackets/{signal_id}/preview: the lots the preview leaves.
Preview(id, price) == PreviewPath(id, <<price>>).lots

-----------------------------------------------------------------------------
(***************************************************************************)
(* Trailing telemetry.                                                     *)
(***************************************************************************)

TrailStatus(lot) == lot.exits[FirstLeg(Legs(lot, "trailing_stop"))].status

\* trailing_activation_ready_at_mark.
ActivationReady(lot, mark) ==
    lot.plan.activation # 0 /\ ~Further(lot, lot.plan.activation, mark)

\* Mutant of RatchetReady: the step has to be exceeded.
RatchetReadyExceeded(lot, mark) ==
    /\ TrailStatus(lot) = "open"
    /\ Further(lot, Candidate(lot, mark), TrailPrice(lot))
    /\ 100 * lot.dir * (Candidate(lot, mark) - TrailPrice(lot)) > Step(lot, TrailPrice(lot))

\* trailing_ratchet_ready_at_mark.
RatchetReady(lot, mark) ==
    /\ TrailStatus(lot) = "open"
    /\ Further(lot, Candidate(lot, mark), TrailPrice(lot))
    /\ 100 * lot.dir * (Candidate(lot, mark) - TrailPrice(lot)) >= Step(lot, TrailPrice(lot))

\* A mark that a trailing stop with a price of its own does not follow yet: its
\* trigger lies further than its distance behind a price that is no new best one.
NotYetFollowed(lot, mark) ==
    AtStart(lot) /\ ~Further(lot, MarkAt(lot, mark), lot.water)

\* What the telemetry has told of the trailing stop a mark leaves.
Foretold(lot, after, mark) ==
    /\ RatchetReady(lot, mark) /\ ~NotYetFollowed(lot, mark) =>
          \/ ~Further(lot, Candidate(lot, mark), TrailPrice(after))
          \/ /\ after.breakeven /\ ~lot.breakeven
             /\ ~StepReached(lot, TrailPrice(after), Candidate(lot, mark))
    /\ TrailStatus(lot) = "open" /\ ~RatchetReady(lot, mark) =>
          \/ TrailPrice(after) = TrailPrice(lot)
          \/ after.breakeven /\ ~lot.breakeven
          \/ Len(after.exits) < Len(lot.exits)
    /\ ~lot.activated =>
          /\ ActivationReady(lot, mark) => after.activated
          /\ after.activated =>
                ActivationReady(lot, mark) \/ Len(after.exits) < Len(lot.exits)

-----------------------------------------------------------------------------
(***************************************************************************)
(* Coverage.                                                               *)
(***************************************************************************)

OpenProtection(lot) ==
    {i \in DOMAIN lot.exits :
        lot.exits[i].kind \in Protective /\ lot.exits[i].status = "open"}

\* Mutant of ClosesAll: a share closes the lot only if it is all of the original.
ClosesAllByShare(lot, i) == lot.exits[i].pct >= 100

\* exit_close_quantity is all that is left: the stop closes it whatever its
\* share, the trailing stop if its share of the original lot does.
ClosesAll(lot, i) ==
    \/ lot.exits[i].kind = "stop_loss"
    \/ lot.original * lot.exits[i].pct >= 100 * lot.remaining

\* has_full_protective_exit.
HasFullProtectiveExit(lot) == \E i \in OpenProtection(lot) : ClosesAll(lot, i)

-----------------------------------------------------------------------------
(***************************************************************************)
(* Properties.                                                             *)
(***************************************************************************)

\* The operator is shown what will happen ("without mutating paper state").
\* A mark leaves the lots of a bracket as its preview at that price said, although
\* the preview has left out the other lots that share the position.  A mark that
\* leaves an open trailing stop in place has moved it to the next trigger the
\* telemetry announced, and, if it announced none, has moved it only by a
\* breakeven or a target.  The telemetry does not foresee a breakeven, which can
\* take the stop to within a step of the announced trigger, nor that a trailing stop
\* with a price of its own stays where it is until there is a new best price.  And
\* a trailing stop that waits for its activation price is armed by the marks that
\* the telemetry calls ready, and otherwise only by the profit lock of a target.
\* A lot without exits has no preview, although its time stop can still close it.
\* A trailing stop that waits for a target is not covered: an operator can open it
\* before, and it is then announced as ready but not moved.
ViewsForetellMarks ==
    [][\A price \in Prices : Mark(price) =>
          \A i \in DOMAIN lots :
             /\ Previewable(lots[i]) =>
                   Preview(lots[i].id, price) = OfSignal(lots', lots[i].id)
             /\ \A j \in DOMAIN lots' :
                   /\ lots[i].id = lots'[j].id
                   /\ ~lots[i].plan.afterTp
                   /\ Legs(lots[i], "trailing_stop") # {} /\ Legs(lots'[j], "trailing_stop") # {}
                   => Foretold(lots[i], lots'[j], price)]_vars

\* The furthest of the open protective triggers against a lot.
LastProtection(lot) ==
    LET legs == OpenProtection(lot)
    IN  lot.exits[CHOOSE i \in legs :
            \A j \in legs : ~Further(lot, lot.exits[i].price, lot.exits[j].price)].price

\* A bracket is reported as fully protected exactly if it does not outlive its
\* protection: marks at the last of its open protective triggers, one for each of
\* them, close the whole lot, whatever partial exits, activations, amended
\* triggers and reductions led there.  A time stop or a target that is due at
\* that price may close a lot that is not fully protected.
FullProtectionCloses ==
    \A i \in DOMAIN lots :
        OpenProtection(lots[i]) # {} =>
            LET last == LastProtection(lots[i])
                left == PreviewPath(lots[i].id, <<last, last>>).lots
            IN  IF HasFullProtectiveExit(lots[i]) THEN left = <<>>
                ELSE left = <<>> => lots[i].plan.maxHold # 0 \/ Reached(lots[i], last) # {}
=============================================================================
