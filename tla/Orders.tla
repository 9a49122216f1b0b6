------------------------------- MODULE Orders -------------------------------
(***************************************************************************)
(* What a signal becomes: the exits of its bracket (execution.py), the      *)
(* futures assessment of the runtime controls (futures_risk.py), the native *)
(* Bitunix order and its leverage setting (live_execution.py), the generic  *)
(* CCXT order (app.py) and the bracket figures of a preview                 *)
(* (api/serializers.py).  Prices are in basis points of the entry price and *)
(* a worth is in the quote currency at that price.                          *)
(***************************************************************************)
EXTENDS Risk, RuntimeControls

CONSTANT
    LeastOrder    \* what 0.00000001 of the base asset, to a multiple of which a quantity
                  \* is rounded down, is worth at an entry price of 100

FuturesMarkets == {"future", "futures", "perp", "perpetual", "swap"}

\* Trigger prices are rounded half up to the cent.
Money(s, p) == ((2 * p + s.price) \div (2 * s.price)) * s.price

Below(s, distance) == IF s.side = "buy" THEN Entry - distance ELSE Entry + distance
Above(s, distance) == IF s.side = "buy" THEN Entry + distance ELSE Entry - distance
-----------------------------------------------------------------------------
(* The exits of the bracket: here the price counts before the percentage *)

HasExitPlan(s) ==
    \/ s.take_profit_targets # <<>>
    \/ DOMAIN s \cap {"stop_loss_pct", "stop_loss_price", "take_profit_price", "trailing_stop_pct",
                      "trailing_stop_amount", "trailing_stop_price", "trailing_activation_price",
                      "breakeven_trigger_pct", "profit_lock_after_take_profit_pct", "max_hold_marks"} # {}

HasExits(s) == Priced(s) /\ ~s.reduce_only /\ (s.side = "buy" \/ HasExitPlan(s))

Exit(s, kind, price, close, status) ==
    [kind |-> kind, trigger |-> Money(s, price), close_pct |-> close, status |-> status]

StopPrice(s) ==
    IF "stop_loss_price" \in DOMAIN s THEN Field(s, "stop_loss_price")
    ELSE {Below(s, d) : d \in Field(s, "stop_loss_pct")}

StopTrigger(s) == IF HasExits(s) THEN {Money(s, p) : p \in StopPrice(s)} ELSE {}

TargetTrigger(s, t) ==
    Money(s, IF "trigger_price" \in DOMAIN t THEN t.trigger_price ELSE Above(s, t.pct))

TrailPrice(s) ==
    IF "trailing_stop_price" \in DOMAIN s THEN s.trailing_stop_price
    ELSE IF "trailing_stop_amount" \in DOMAIN s THEN Below(s, s.trailing_stop_amount)
    ELSE Below(s, s.trailing_stop_pct)

TrailStatus(s) ==
    IF Flag(s, "trail_after_take_profit") THEN "pending_take_profit"
    ELSE IF Activation(s) # {} THEN "pending_activation"
    ELSE "open"

ExitOrders(s) ==
    LET stop == SetToSeq({[kind |-> "stop_loss", trigger |-> t, close_pct |-> 100, status |-> "open"] :
                            t \in StopTrigger(s)})
        targets == [k \in DOMAIN s.take_profit_targets |->
                      [kind |-> "take_profit", trigger |-> TargetTrigger(s, s.take_profit_targets[k]),
                       close_pct |-> s.take_profit_targets[k].close_pct, status |-> "open"]]
        trail == IF Trails(s)
                 THEN << Exit(s, "trailing_stop", TrailPrice(s), s.trailing_stop_close_pct, TrailStatus(s)) >>
                 ELSE <<>>
        time == IF "max_hold_marks" \in DOMAIN s
                THEN << Exit(s, "time_exit", Entry, 100, "waiting") >> ELSE <<>>
    IN IF HasExits(s) THEN stop \o targets \o trail \o time ELSE <<>>

Kinds(exits) == {e.kind : e \in ToSet(exits)}
OfKind(exits, kind) == {k \in DOMAIN exits : exits[k].kind = kind}
Triggers(exits, kind) == {exits[k].trigger : k \in OfKind(exits, kind)}
-----------------------------------------------------------------------------
(* The futures assessment, with its default limits *)

Leveraged(s) == s.market_type \in FuturesMarkets /\ ~s.reduce_only
Margin(s) == 100000 \div s.leverage      \* in basis points of the entry price
Maintenance == 50

LiquidationPrice(s) == Money(s, Below(s, Margin(s) - Maintenance))

StopBeforeLiquidation(s, stop) ==
    IF s.side = "buy" THEN stop > LiquidationPrice(s) ELSE stop < LiquidationPrice(s)

AdverseFunding(s) ==
    LET rate == IF "funding_rate_bps" \in DOMAIN s.raw THEN s.raw.funding_rate_bps ELSE 0
        paid == IF s.side = "buy" THEN rate ELSE -rate
    IN IF paid > 0 THEN paid ELSE 0

\* Mutant of Missing: a position without a stop is assessed like any other.
MissingButStop(s, account) ==
    (IF Priced(s) THEN {} ELSE {"futures_price_required"})
    \union (IF Notional(s, account) = {} THEN {"futures_notional_required"} ELSE {})

\* What the assessment needs and the signal lacks.
Missing(s, account) ==
    (IF Priced(s) THEN {} ELSE {"futures_price_required"})
    \union (IF Notional(s, account) = {} THEN {"futures_notional_required"} ELSE {})
    \union (IF "stop_loss_price" \in DOMAIN s \/ (Priced(s) /\ "stop_loss_pct" \in DOMAIN s)
            THEN {} ELSE {"futures_stop_loss_required"})

Assessed(s) ==
    LET adverse == AdverseFunding(s) > 10
        holds ==
          [max_leverage_exceeded |-> s.leverage > 100,
           stop_loss_beyond_liquidation |-> \E p \in StopPrice(s) : ~StopBeforeLiquidation(s, p),
           liquidation_buffer_too_narrow |-> -Gain(s.side, LiquidationPrice(s)) < 500,
           funding_rate_too_adverse |-> adverse,
           funding_window_risk |-> adverse /\ \E m \in Field(s.raw, "minutes_to_funding") : m <= 15]
    IN {reason \in DOMAIN holds : holds[reason]}

FuturesReasons(s, account) ==
    IF ~Leveraged(s) THEN {} ELSE IF Missing(s, account) # {} THEN Missing(s, account) ELSE Assessed(s)

\* The signal as the runtime controls look at it, with no protection rule and no
\* symbol cooling down.
ControlView(s, account) ==
    [reduce_only |-> s.reduce_only, symbol |-> s.symbol, exchange |-> s.exchange, strategy |-> "manual",
     market_state |-> IF "market_state" \in DOMAIN s.raw THEN s.raw.market_state ELSE {},
     futures_ok |-> FuturesReasons(s, account) = {}]

RuntimeBlocked(s, account) == LiveBlocked(ControlView(s, account), {}, {})
Stressed(s) == ApprovalRequired([reduce_only |-> s.reduce_only,
                                 market_state |-> IF "market_state" \in DOMAIN s.raw
                                                  THEN s.raw.market_state ELSE {}])
-----------------------------------------------------------------------------
(* The native Bitunix order *)

\* What the ordered quantity is worth at the entry price: the base amount counts
\* before the notional, which needs a price.
Worth(s, account) ==
    IF ~Priced(s) THEN {}
    ELSE IF "base_amount" \in DOMAIN s THEN Field(s, "base_amount") ELSE Notional(s, account)

\* A base amount is ordered as it is given, a notional as the quantity it buys, which
\* may round down to nothing.
BitunixQuantity(s, account) ==
    \/ "base_amount" \in DOMAIN s
    \/ \E w \in Worth(s, account) : w * s.price >= LeastOrder

\* Exits that one native order cannot carry.
NeedsManager(s) ==
    LET exits == ExitOrders(s) IN
    \/ {"trailing_stop", "time_exit"} \cap Kinds(exits) # {}
    \/ Cardinality(OfKind(exits, "take_profit")) > 1
    \/ \E k \in OfKind(exits, "take_profit") : exits[k].close_pct < 100

LeverageSettable(s) == Leveraged(s) => s.leverage % 10 = 0 /\ s.leverage \in 10..2000

\* With live execution enabled and credentials set.
BitunixSafe(s, config, account) ==
    /\ s.exchange = "bitunix" /\ s.market_type \in FuturesMarkets
    /\ ~RuntimeBlocked(s, account)
    /\ EvaluateSignal(s, config, account) = {}
    /\ BitunixQuantity(s, account)
    /\ LeverageSettable(s)
    /\ ~NeedsManager(s)

BitunixOrder(s) ==
    [side |-> s.side, trade |-> IF s.reduce_only THEN "CLOSE" ELSE "OPEN",
     type |-> IF Priced(s) THEN "LIMIT" ELSE "MARKET",
     stop |-> Triggers(ExitOrders(s), "stop_loss"),
     target |-> Triggers(ExitOrders(s), "take_profit")]
-----------------------------------------------------------------------------
(* The figures of a preview, worth times distance in basis points *)

WorstCaseLoss(s, account) ==
    {n * (-Gain(s.side, t)) : n \in Notional(s, account), t \in {t \in StopTrigger(s) : Gain(s.side, t) < 0}}

\* Mutant of TargetReward: every target closes the whole position.
TargetRewardWhole(s, exit) ==
    IF Gain(s.side, exit.trigger) > 0 THEN Gain(s.side, exit.trigger) * 100 ELSE 0

TargetReward(s, exit) ==
    IF Gain(s.side, exit.trigger) > 0 THEN Gain(s.side, exit.trigger) * exit.close_pct ELSE 0
TotalTargetReward(s, account) ==
    LET exits == ExitOrders(s) IN
    {n * Total([k \in DOMAIN exits |-> IF exits[k].kind = "take_profit" THEN TargetReward(s, exits[k]) ELSE 0]) :
       n \in Notional(s, account)}
=============================================================================
