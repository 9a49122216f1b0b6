--------------------------- MODULE RuntimeControls ---------------------------
(***************************************************************************)
(* The pre-trade gates of Sentinel Chain as pure functions of a signal and *)
(* of the stored control state (runtime_controls.py, protections.py,       *)
(* market_state.py).  Nothing here has state: TradingDesk holds the rules, *)
(* the cooling symbols and the account stop, and the live-order and intake *)
(* modules call these operators where the code calls the Python functions. *)
(*                                                                         *)
(* A signal is a record with the fields the gates look at:                 *)
(*   id, exchange, symbol, strategy   names, compared for equality only    *)
(*   reduce_only                      TRUE for a closing order             *)
(*   market_state                     the policy limits that the snapshot  *)
(*                                    in the signal's raw payload breaches *)
(*                                    ({} when it carries no snapshot)     *)
(*   futures_ok, futures_ok_default   verdict of assess_futures_trade with *)
(*                                    and without the raw payload's own    *)
(*                                    futures context                      *)
(*   risk_ok                          verdict of the checks of             *)
(*                                    evaluate_signal that depend on the   *)
(*                                    signal and the configuration alone   *)
(*   native                           the order maps to one exchange order *)
(*   leverage                         the leverage asked for               *)
(***************************************************************************)
EXTENDS Integers, FiniteSets

\* Limits whose breach closes the market to entries (market_state.py).
HaltReasons == {"exchange_degraded", "market_data_stale", "liquidation_buffer_danger"}

\* Limits whose breach only asks for an operator's approval.
StressReasons == {"high_volatility", "wide_spread", "thin_liquidity", "funding_window"}

ProtectionModes == {"no_new_entries", "close_only", "hard_block"}

ProtectionScopes == {"global", "exchange", "symbol", "strategy"}

-----------------------------------------------------------------------------
(***************************************************************************)
(* Protection rules.                                                       *)
(***************************************************************************)

\* ProtectionRule.matches.
Matches(rule, signal) ==
    \/ rule.scope = "global"
    \/ rule.scope = "exchange" /\ rule.target = signal.exchange
    \/ rule.scope = "symbol"   /\ rule.target = signal.symbol
    \/ rule.scope = "strategy" /\ rule.target = signal.strategy

\* MODE_PRIORITY.
ModePriority == [no_new_entries |-> 1, close_only |-> 2, hard_block |-> 3]

\* The mode that decides among several matching rules.
StrictestMode(modes) ==
    CHOOSE mode \in modes : \A other \in modes : ModePriority[other] <= ModePriority[mode]

\* evaluate_protections: the strictest mode of the matching active rules decides;
\* hard_block refuses everything, the two other modes refuse entries.
ProtectionsAllow(rules, signal) ==
    LET modes == {rule.mode : rule \in {rule \in rules : Matches(rule, signal)}}
    IN  modes # {} => StrictestMode(modes) # "hard_block" /\ signal.reduce_only

\* ProtectionState.with_rule: a rule replaces the one with its rule_id.
WithRule(rules, rule) == {r \in rules : r.rule_id # rule.rule_id} \cup {rule}

\* ProtectionState.without_rule.
WithoutRule(rules, id) == {r \in rules : r.rule_id # id}

-----------------------------------------------------------------------------
(***************************************************************************)
(* Market state.                                                           *)
(***************************************************************************)

\* evaluate_market_state, from the limits a snapshot breaches.
MarketStateName(breaches) ==
    IF breaches \cap HaltReasons # {} THEN "halted"
    ELSE IF breaches \cap StressReasons # {} THEN "stressed"
    ELSE "normal"

-----------------------------------------------------------------------------
(***************************************************************************)
(* The summary every gate reads.                                           *)
(***************************************************************************)

\* The families of reason codes that runtime_control_summary collects for a
\* signal under the active rules and the symbols still cooling down.
RuntimeReasons(signal, rules, cooling) ==
    {family \in {"protection", "reentry_cooldown", "market_state", "futures_risk"} :
        \/ family = "protection" /\ ~ProtectionsAllow(rules, signal)
        \/ ~signal.reduce_only /\ family = "reentry_cooldown" /\ signal.symbol \in cooling
        \/ ~signal.reduce_only /\ family = "market_state"
             /\ MarketStateName(signal.market_state) = "halted"
        \/ ~signal.reduce_only /\ family = "futures_risk" /\ ~signal.futures_ok}

\* The approval_required flag of the summary.
ApprovalRequired(signal) ==
    ~signal.reduce_only /\ MarketStateName(signal.market_state) = "stressed"

\* How signal intake reads the summary: any reason code rejects
\* (RuntimeControlDecision.rejected).
IntakeBlocked(signal, rules, cooling) == RuntimeReasons(signal, rules, cooling) # {}

\* How both live-order previews read it: reason codes block only a signal
\* whose market state does not already ask for approval.
LiveBlocked(signal, rules, cooling) ==
    RuntimeReasons(signal, rules, cooling) # {} /\ ~ApprovalRequired(signal)

\* What is left of a signal after signal_to_dict and normalize_signal: the raw
\* payload, and with it the market snapshot and the futures context, is gone.
Reserialized(signal) ==
    [signal EXCEPT !.market_state = {}, !.futures_ok = signal.futures_ok_default]
=============================================================================
