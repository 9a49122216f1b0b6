-------------------------------- MODULE Risk --------------------------------
(***************************************************************************)
(* The risk engine's verdict on a signal (risk.py): which reason codes it   *)
(* gives and what the order is worth, from the signal, the limits of the    *)
(* configuration (0 switches a limit off) and the state of the account.     *)
(* Exit distances are in basis points of the entry price.                   *)
(***************************************************************************)
EXTENDS Signals

Priced(s) == "price" \in DOMAIN s
Trails(s) == DOMAIN s \cap {"trailing_stop_pct", "trailing_stop_amount"} # {}

Opens(s) ==
    /\ ~s.reduce_only
    /\ \/ s.side = "buy"
       \/ s.take_profit_targets # <<>>
       \/ DOMAIN s \cap {"stop_loss_pct", "stop_loss_price", "take_profit_price", "trailing_stop_pct",
                         "trailing_stop_amount", "trailing_stop_price", "trailing_activation_price",
                         "breakeven_trigger_pct", "profit_lock_after_take_profit_pct"} # {}
       \/ Flag(s, "breakeven_after_take_profit")

\* The prices among those of a field that are on the losing, or profitable, side.
Losing(s, prices) == {p \in prices : Priced(s) /\ Gain(s.side, p) < 0}
Winning(s, prices) == {p \in prices : Priced(s) /\ Gain(s.side, p) > 0}
DistancesOf(s, prices) == {IF p < Entry THEN Entry - p ELSE p - Entry : p \in prices}

\* Mutant of StopPct: a short's stop as a share of the stop price.
StopPctOfStop(s) ==
    IF s.reduce_only THEN {}
    ELSE IF "stop_loss_pct" \in DOMAIN s THEN Field(s, "stop_loss_pct")
    ELSE {IF p < Entry THEN Entry - p ELSE ((p - Entry) * Entry) \div p :
            p \in Losing(s, Field(s, "stop_loss_price"))}

\* The percentage counts before the price; closing orders have no bracket.
StopPct(s) ==
    IF s.reduce_only THEN {}
    ELSE IF "stop_loss_pct" \in DOMAIN s THEN Field(s, "stop_loss_pct")
    ELSE DistancesOf(s, Losing(s, Field(s, "stop_loss_price")))

TakeProfitPrice(s) ==
    IF "take_profit_price" \in DOMAIN s THEN Field(s, "take_profit_price")
    ELSE IF s.take_profit_targets = <<>> THEN {}
    ELSE Field(Head(s.take_profit_targets), "trigger_price")

TakeProfitPct(s) ==
    IF s.reduce_only THEN {}
    ELSE IF "take_profit_pct" \in DOMAIN s THEN Field(s, "take_profit_pct")
    ELSE DistancesOf(s, Winning(s, TakeProfitPrice(s)))

\* A trigger price on the losing side overrides the percentage, an amount both.
TrailingPct(s) ==
    LET losing == Losing(s, Field(s, "trailing_stop_price"))
        amount == IF Priced(s) THEN Field(s, "trailing_stop_amount") ELSE {}
    IN IF s.reduce_only THEN {}
       ELSE IF "trailing_stop_price" \in DOMAIN s
       THEN IF losing = {} THEN Field(s, "trailing_stop_pct")
            ELSE IF amount # {} THEN amount ELSE DistancesOf(s, losing)
       ELSE IF "trailing_stop_pct" \in DOMAIN s THEN Field(s, "trailing_stop_pct") ELSE amount

\* Budget of a signal sized by what it may lose.
RiskBudget(s, account) ==
    IF "risk_amount" \in DOMAIN s THEN Field(s, "risk_amount")
    ELSE {(account.equity * r) \div 10000 : r \in Field(s, "risk_pct")}

\* Mutant of Notional: sizes by the stop and the trail together.
NotionalByNearest(s, account) ==
    IF "quote_amount" \in DOMAIN s THEN Field(s, "quote_amount")
    ELSE IF "base_amount" \in DOMAIN s THEN IF Priced(s) THEN Field(s, "base_amount") ELSE {}
    ELSE {(b * 10000) \div d : b \in RiskBudget(s, account),
             d \in {d \in StopPct(s) \union TrailingPct(s) :
                      StopPct(s) # {} /\ \A e \in StopPct(s) \union TrailingPct(s) : d <= e}}

\* The quote amount counts before the base amount, both before a risk budget.
Notional(s, account) ==
    IF "quote_amount" \in DOMAIN s THEN Field(s, "quote_amount")
    ELSE IF "base_amount" \in DOMAIN s THEN IF Priced(s) THEN Field(s, "base_amount") ELSE {}
    ELSE {(b * 10000) \div d : b \in RiskBudget(s, account), d \in StopPct(s)}

\* What the targets bring in all, in basis points of the entry times percent closed.
TargetPct(s, t) == IF "pct" \in DOMAIN t THEN t.pct ELSE Gain(s.side, t.trigger_price)
Reward(s, t) == IF TargetPct(s, t) > 0 THEN TargetPct(s, t) * t.close_pct ELSE 0
TotalReward(s) == Total([k \in DOMAIN s.take_profit_targets |-> Reward(s, s.take_profit_targets[k])])

\* Some value of a set is beyond a limit that is switched on.
Exceeds(values, limit) == limit > 0 /\ \E v \in values : v > limit

Activation(s) == DOMAIN s \cap {"trailing_activation_pct", "trailing_activation_price"}
HasPendingTrail(s) ==
    /\ Trails(s) \/ "trailing_stop_price" \in DOMAIN s
    /\ Flag(s, "trail_after_take_profit") \/ Activation(s) # {}

\* Reasons about the shape of the signal alone.
ShapeReasons(s) ==
    LET evaluated == ~s.reduce_only
        guarded == StopPct(s) # {} \/ TrailingPct(s) # {}
        step == DOMAIN s \cap {"trailing_step_pct", "trailing_step_amount"} # {}
        targetPrices == UNION {Field(t, "trigger_price") : t \in ToSet(s.take_profit_targets)}
        breakeven == \/ "breakeven_trigger_pct" \in DOMAIN s
                     \/ Flag(s, "breakeven_after_take_profit")
        holds ==
          [price_required_for_stop_loss_price |->
             evaluated /\ ~Priced(s) /\ "stop_loss_price" \in DOMAIN s /\ "stop_loss_pct" \notin DOMAIN s,
           invalid_stop_loss_price |->
             /\ evaluated /\ Priced(s) /\ "stop_loss_pct" \notin DOMAIN s
             /\ Field(s, "stop_loss_price") # Losing(s, Field(s, "stop_loss_price")),
           price_required_for_take_profit_price |->
             /\ evaluated /\ ~Priced(s)
             /\ s.take_profit_targets # <<>> \/ ("take_profit_pct" \notin DOMAIN s /\ TakeProfitPrice(s) # {}),
           invalid_take_profit_price |->
             /\ evaluated /\ Priced(s)
             /\ \/ Winning(s, targetPrices) # targetPrices
                \/ /\ "take_profit_pct" \notin DOMAIN s
                   /\ Winning(s, TakeProfitPrice(s)) # TakeProfitPrice(s),
           price_required_for_trailing_stop_price |->
             evaluated /\ ~Priced(s) /\ "trailing_stop_price" \in DOMAIN s,
           price_required_for_trailing_stop_amount |->
             /\ evaluated /\ ~Priced(s) /\ "trailing_stop_amount" \in DOMAIN s
             /\ DOMAIN s \cap {"trailing_stop_pct", "trailing_stop_price"} = {},
           invalid_trailing_stop_price |->
             /\ evaluated /\ Priced(s)
             /\ Field(s, "trailing_stop_price") # Losing(s, Field(s, "trailing_stop_price")),
           price_required_for_base_amount |->
             "quote_amount" \notin DOMAIN s /\ "base_amount" \in DOMAIN s /\ ~Priced(s),
           risk_sizing_requires_stop_loss |->
             DOMAIN s \cap {"quote_amount", "base_amount"} = {} /\ StopPct(s) = {},
           trailing_stop_required_for_activation |-> Activation(s) # {} /\ ~Trails(s),
           trailing_stop_required_for_take_profit_delay |-> Flag(s, "trail_after_take_profit") /\ ~Trails(s),
           trail_after_take_profit_requires_take_profit |->
             Flag(s, "trail_after_take_profit") /\ s.take_profit_targets = <<>>,
           duplicate_trailing_activation |-> Cardinality(Activation(s)) = 2,
           trailing_stop_pct_required_for_price |-> "trailing_stop_price" \in DOMAIN s /\ ~Trails(s),
           invalid_trailing_stop_close_pct |-> s.trailing_stop_close_pct > 100,
           trailing_stop_required_for_close_pct |-> s.trailing_stop_close_pct # 100 /\ ~Trails(s),
           trailing_stop_required_for_step |-> step /\ ~Trails(s),
           price_required_for_trailing_activation_price |->
             ~Priced(s) /\ "trailing_activation_price" \in DOMAIN s,
           invalid_trailing_activation_price |->
             /\ Priced(s)
             /\ Field(s, "trailing_activation_price") # Winning(s, Field(s, "trailing_activation_price")),
           breakeven_requires_protective_exit |-> breakeven /\ ~guarded,
           breakeven_after_take_profit_requires_take_profit |->
             Flag(s, "breakeven_after_take_profit") /\ s.take_profit_targets = <<>>,
           profit_lock_requires_protective_exit |->
             "profit_lock_after_take_profit_pct" \in DOMAIN s /\ ~guarded,
           profit_lock_after_take_profit_requires_take_profit |->
             "profit_lock_after_take_profit_pct" \in DOMAIN s /\ s.take_profit_targets = <<>>]
    IN {reason \in DOMAIN holds : holds[reason]}

\* What a new position would lose at its fixed stop, in basis points of the quote currency.
NewTradeRisk(s, account) ==
    {n * d : n \in IF Opens(s) THEN Notional(s, account) ELSE {}, d \in StopPct(s)}

\* Reasons of the limits.
LimitReasons(s, config, account) ==
    LET notional == Notional(s, account)
        opened == IF Opens(s) THEN notional ELSE {}
        risk == NewTradeRisk(s, account)
        holds ==
          [symbol_not_allowed |-> config.allowed_symbols # {} /\ s.symbol \notin config.allowed_symbols,
           symbol_blocked |-> s.symbol \in config.blocked_symbols,
           exchange_not_allowed |-> config.allowed_exchanges # {} /\ s.exchange \notin config.allowed_exchanges,
           stop_loss_required |-> config.require_stop_loss /\ Opens(s) /\ StopPct(s) = {},
           max_order_notional_exceeded |-> Exceeds(notional, config.max_order_notional),
           max_open_notional_exceeded |->
             Exceeds({account.open_notional + n : n \in opened}, config.max_open_notional),
           max_symbol_open_notional_exceeded |->
             Exceeds({account.symbol_open_notional + n : n \in opened}, config.max_symbol_open_notional),
           max_open_risk_amount_exceeded |->
             Exceeds({account.open_risk_amount * 10000 + r : r \in risk}, config.max_open_risk_amount * 10000),
           max_open_risk_equity_pct_exceeded |->
             account.equity > 0 /\ Exceeds({account.open_risk_amount * 10000 + r : r \in risk},
                                           account.equity * config.max_open_risk_equity_pct),
           max_position_equity_pct_exceeded |->
             account.equity > 0 /\ Exceeds({n * 10000 : n \in notional},
                                           account.equity * config.max_position_equity_pct),
           max_risk_per_trade_pct_exceeded |-> Exceeds(Field(s, "risk_pct"), config.max_risk_per_trade_pct),
           max_risk_amount_exceeded |-> Exceeds(risk, config.max_risk_amount * 10000),
           max_entry_volatility_pct_exceeded |->
             Exceeds(Field(s, "volatility_pct"), config.max_entry_volatility_pct),
           max_leverage_exceeded |-> Exceeds({s.leverage}, config.max_leverage),
           pending_trailing_requires_fixed_stop |->
             config.require_fixed_stop_for_pending_trailing /\ HasPendingTrail(s) /\ StopPct(s) = {},
           daily_loss_limit_exceeded |->
             config.max_daily_loss > 0 /\ account.daily_pnl <= -config.max_daily_loss,
           consecutive_loss_limit_exceeded |->
             /\ config.max_consecutive_losses > 0
             /\ account.consecutive_losses >= config.max_consecutive_losses,
           max_stop_loss_pct_exceeded |-> Exceeds(StopPct(s), config.max_stop_loss_pct),
           max_trailing_stop_pct_exceeded |-> Exceeds(TrailingPct(s), config.max_trailing_stop_pct),
           min_reward_risk_ratio_not_met |->
             \E d \in StopPct(s), t \in TakeProfitPct(s) : t < d * config.min_reward_risk_ratio,
           min_total_reward_risk_ratio_not_met |->
             \E d \in StopPct(s) : /\ Priced(s) \/ \A t \in ToSet(s.take_profit_targets) : "pct" \in DOMAIN t
                                   /\ TotalReward(s) > 0
                                   /\ TotalReward(s) < d * 100 * config.min_total_reward_risk_ratio,
           max_take_profit_targets_exceeded |->
             Exceeds({Len(s.take_profit_targets)}, config.max_take_profit_targets),
           max_slippage_exceeded |-> s.max_slippage_bps > config.max_slippage_bps]
    IN {reason \in DOMAIN holds : holds[reason]}

EvaluateSignal(s, config, account) == ShapeReasons(s) \union LimitReasons(s, config, account)
=============================================================================
