---------------------------- MODULE OrderPlanner ----------------------------
(***************************************************************************)
(* The exchange plan (exchanges/order_planner.py): how the exits of a       *)
(* signal would be carried out at a venue, given what the venue advertises. *)
(* The paper venue is left out: no signal names it (normalize_signal).      *)
(***************************************************************************)
EXTENDS Orders

HasBracket(exits) == {"stop_loss", "take_profit"} \subseteq Kinds(exits)
HasTrail(exits) == "trailing_stop" \in Kinds(exits)

NonPortable(exits) ==
    \/ Cardinality(OfKind(exits, "take_profit")) > 1
    \/ \E e \in ToSet(exits) : \/ e.kind \in {"take_profit", "trailing_stop"} /\ e.close_pct < 100
                               \/ e.kind = "time_exit"
                               \/ e.kind = "trailing_stop" /\ e.status = "pending_take_profit"

\* Mutant of Strategy: a mixed bracket asks for one of the two features.
StrategyOfEither(exits, venue) ==
    IF exits = <<>> THEN "single_order"
    ELSE IF NonPortable(exits) THEN "paper_required_for_staged_or_partial_bracket"
    ELSE IF HasBracket(exits) /\ HasTrail(exits)
    THEN IF {"attached_tp_sl", "trailing_order"} \cap venue # {} THEN "attached_bracket_with_trailing"
         ELSE "paper_required_for_mixed_bracket_trailing"
    ELSE IF HasBracket(exits)
    THEN IF "attached_tp_sl" \in venue THEN "attached_stop_loss_take_profit"
         ELSE IF "oco" \in venue THEN "entry_then_oco_after_fill" ELSE "paper_required_for_bracket"
    ELSE IF HasTrail(exits)
    THEN IF "trailing_order" \in venue THEN "entry_then_trailing_stop" ELSE "paper_required_for_trailing_stop"
    ELSE "entry_then_conditional_exit"

\* venue is the set of the features it advertises.
Strategy(exits, venue) ==
    IF exits = <<>> THEN "single_order"
    ELSE IF NonPortable(exits) THEN "paper_required_for_staged_or_partial_bracket"
    ELSE IF HasBracket(exits) /\ HasTrail(exits)
    THEN IF {"attached_tp_sl", "trailing_order"} \subseteq venue THEN "attached_bracket_with_trailing"
         ELSE "paper_required_for_mixed_bracket_trailing"
    ELSE IF HasBracket(exits)
    THEN IF "attached_tp_sl" \in venue THEN "attached_stop_loss_take_profit"
         ELSE IF "oco" \in venue THEN "entry_then_oco_after_fill" ELSE "paper_required_for_bracket"
    ELSE IF HasTrail(exits)
    THEN IF "trailing_order" \in venue THEN "entry_then_trailing_stop" ELSE "paper_required_for_trailing_stop"
    ELSE "entry_then_conditional_exit"

PaperRequired(strategy) ==
    strategy \in {"paper_required_for_staged_or_partial_bracket", "paper_required_for_mixed_bracket_trailing",
                  "paper_required_for_bracket", "paper_required_for_trailing_stop"}

\* What a leg of the plan is said to need.
Family(exit, exits, venue) ==
    IF exit.kind = "time_exit" THEN "paper_time_stop"
    ELSE IF NonPortable(exits) THEN "paper_or_custom_native_mapping"
    ELSE IF exit.kind # "trailing_stop" /\ HasBracket(exits)
    THEN IF "attached_tp_sl" \in venue THEN "attached_take_profit_stop_loss"
         ELSE IF "oco" \in venue THEN "entry_then_oco" ELSE "paper_or_custom_native_mapping"
    ELSE IF exit.kind = "trailing_stop"
    THEN IF "trailing_order" \in venue THEN "standalone_trailing_stop" ELSE "paper_or_custom_native_mapping"
    ELSE "standalone_conditional"

\* The venue features the steps after the fill use; none when paper tracks the exits.
FeaturesUsed(exits, venue) ==
    LET strategy == Strategy(exits, venue) IN
    CASE strategy = "single_order" \/ PaperRequired(strategy) -> {}
      [] strategy = "attached_stop_loss_take_profit" -> {"attached_tp_sl"}
      [] strategy = "entry_then_oco_after_fill" -> {"oco"}
      [] strategy = "attached_bracket_with_trailing" -> {"attached_tp_sl", "trailing_order"}
      [] strategy = "entry_then_trailing_stop" -> {"trailing_order"}
      [] OTHER -> {"conditional_order"}

Warnings(s, venue) ==
    LET exits == ExitOrders(s)
        Waiting(status) == \E e \in ToSet(exits) : e.kind = "trailing_stop" /\ e.status = status
        holds ==
          [trailing_order_not_advertised |-> HasTrail(exits) /\ "trailing_order" \notin venue,
           native_bracket_not_advertised |-> HasBracket(exits) /\ {"attached_tp_sl", "oco"} \cap venue = {},
           create_order_not_advertised |-> exits # <<>> /\ "create_order" \notin venue,
           trailing_stop_starts_pending_activation |-> Waiting("pending_activation"),
           trailing_stop_waits_for_take_profit |-> Waiting("pending_take_profit"),
           staged_or_partial_exits_require_paper_or_custom_native_mapping |-> NonPortable(exits),
           time_stop_is_paper_only |-> "time_exit" \in Kinds(exits),
           reduce_only_signal_ignores_bracket_exit_fields |->
             /\ s.reduce_only /\ exits = <<>>
             /\ \/ s.take_profit_targets # <<>>
                \/ DOMAIN s \cap {"stop_loss_pct", "stop_loss_price", "take_profit_price", "trailing_stop_pct",
                                  "trailing_stop_amount", "trailing_stop_price", "trailing_activation_price",
                                  "breakeven_trigger_pct", "max_hold_marks"} # {}]
    IN {w \in DOMAIN holds : holds[w]}
=============================================================================
