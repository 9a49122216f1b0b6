----------------------------- MODULE SignalPlan -----------------------------
(***************************************************************************)
(* The signal routes (app.py): an alert arrives as a payload, over a        *)
(* bracket template or a strategy preset, or as text, and is refused, which *)
(* leaves nothing behind, or becomes a signal.  Everything then shown to    *)
(* the operator or sent to an exchange is computed from that signal, the    *)
(* risk configuration and the state of the account, which change between    *)
(* alerts.                                                                  *)
(***************************************************************************)
EXTENDS OrderPlanner

CONSTANTS
    Payloads,     \* JSON payloads
    Alerts,       \* payloads without exits, sent over a template or a preset
    Overrides,    \* overrides sent with them
    Texts,        \* what the text grammar reads from a message
    Configs,      \* risk configurations
    Accounts,     \* states of the account
    Venues,       \* sets of features a venue advertises
    Nothing

\* Amounts are numbers, those of a list of targets included.
Numbers ==
    TopAmounts \union ExitAmounts \union {"take_profit_close_pct", "funding_rate_bps", "max_slippage_bps"}
Typed(fields) ==
    /\ \A f \in DOMAIN fields \cap Numbers : fields[f] \in Int
    /\ \A list \in Field(fields, "take_profit_targets") :
         /\ Len(list) \in Nat
         /\ DOMAIN list = 1 .. Len(list)
         /\ \A t \in ToSet(list) : /\ DOMAIN t \subseteq {"pct", "trigger_price", "close_pct"}
                                   /\ \A f \in DOMAIN t : t[f] \in Int

TypedPayload(p) ==
    /\ p = [top |-> p.top, bracket |-> p.bracket, legs |-> p.legs]
    /\ Typed(p.top) /\ Typed(p.bracket) /\ Typed(p.legs)

ASSUME SignalPlanAssumption ==
    /\ \A p \in Payloads \union Alerts : TypedPayload(p)
    /\ \A fields \in Overrides \union Texts : Typed(fields)
    /\ \A c \in Configs : c.max_risk_amount \in Nat
    /\ \A a \in Accounts : a.equity \in Nat
    /\ LeastOrder \in Nat \ {0}

VARIABLES
    signal,       \* the signal under way, Nothing between two
    config, account

vars == <<signal, config, account>>

\* normalize_signal, first of all the routes do.
Receive(p) ==
    /\ signal = Nothing
    /\ ~Refused(p)
    /\ signal' = Normalize(p)
    /\ UNCHANGED <<config, account>>

\* POST /signals/preview, submit, exchange-plan and the webhook
ReceiveSignal == \E p \in Payloads : Receive(p)

\* POST /signals/preview-template, submit-template
ReceiveTemplate ==
    \E p \in Alerts, t \in DOMAIN BracketTemplates, o \in Overrides : Receive(WithTemplate(p, t, o))

\* POST /signals/preview-strategy
ReceiveStrategy ==
    \E p \in Alerts, t \in DOMAIN StrategyPresets, o \in Overrides : Receive(WithStrategy(p, t, o))

\* POST /signals/parse-text, preview-text, submit-text and the Discord bot
ReceiveText == \E t \in Texts : Receive(FromText(t))

\* The alert is answered.
Answer ==
    /\ signal # Nothing
    /\ signal' = Nothing
    /\ UNCHANGED <<config, account>>

\* An order fills or an operator reconfigures.
DeskMoves ==
    /\ config' \in Configs /\ account' \in Accounts
    /\ UNCHANGED signal

Init == signal = Nothing /\ config \in Configs /\ account \in Accounts

Next == ReceiveSignal \/ ReceiveTemplate \/ ReceiveStrategy \/ ReceiveText \/ Answer \/ DeskMoves

Spec == Init /\ [][Next]_vars
-----------------------------------------------------------------------------
SignalFields ==
    {"side", "reduce_only", "exchange", "symbol", "market_type", "max_slippage_bps", "leverage",
     "trailing_stop_close_pct", "take_profit_targets", "raw"}

\* What the routes may take for granted of a signal.
SignalOK(s) ==
    /\ SignalFields \subseteq DOMAIN s
    /\ s.side \in {"buy", "sell"}
    /\ s.reduce_only \in BOOLEAN
    /\ DOMAIN s \cap Sizes # {}
    /\ \A f \in DOMAIN s \cap (TopAmounts \union ExitAmounts) : s[f] \in Nat \ {0}
    /\ s.max_slippage_bps \in Nat
    /\ Field(s.raw, "funding_rate_bps") \subseteq Int
    /\ s.take_profit_targets \in Seq(Target)
    /\ ~WrongSide(s)

\* What a second normalisation of a signal relies on: it has the fields of a signal and
\* no others, and its targets come in the order of their keys, close no more than the
\* position and have passed their first percentage on.
Settled(s) ==
    LET targets == s.take_profit_targets
        Key(k) == SortKey(s.side, "price" \in DOMAIN s, targets[k])
    IN /\ s = [f \in DOMAIN s |-> s[f]]
       /\ DOMAIN s \subseteq SignalFields \union TopAmounts \union ExitAmounts \union Flags
       /\ s.exchange \notin PaperNames
       /\ \A j, k \in DOMAIN targets : j < k => Key(j) <= Key(k)
       /\ Total([k \in DOMAIN targets |-> targets[k].close_pct]) <= 100
       /\ targets # <<>> /\ "pct" \in DOMAIN targets[1] => "take_profit_pct" \in DOMAIN s

TypeOK ==
    /\ config \in Configs /\ account \in Accounts
    /\ signal # Nothing => SignalOK(signal) /\ Settled(signal)

Accepted == signal # Nothing
Approved == Accepted /\ EvaluateSignal(signal, config, account) = {}

\* At an entry price of 100 a cent is a basis point and prices are exact.
Exact(s) == Field(s, "price") = {1}

\* An entry whose size and whose stop are each given in one form.
GivenOnce(s) ==
    /\ ~({"quote_amount", "base_amount"} \subseteq DOMAIN s)
    /\ ~({"stop_loss_pct", "stop_loss_price"} \subseteq DOMAIN s)
    /\ Exact(s)

\* What the order would lose at its stop, in basis points of the quote currency.
LossAtStop(s) == {w * (-Gain(s.side, t)) : w \in Worth(s, account), t \in StopTrigger(s)}

\* An approved entry loses no more at the stop it is placed with than the cap on a
\* trade's risk, nor, if it is sized by risk, than its budget (risk.evaluate_signal
\* against execution.build_exit_orders and the ordered quantity).
LossWithinCap ==
    Approved /\ HasExits(signal) /\ GivenOnce(signal) =>
        \A loss \in LossAtStop(signal) :
            /\ config.max_risk_amount > 0 => loss <= config.max_risk_amount * 10000
            /\ DOMAIN signal \cap {"quote_amount", "base_amount"} = {} =>
                   \A budget \in RiskBudget(signal, account) : loss <= budget * 10000

\* A Bitunix order that is called safe and opens a position, without a stressed
\* market, carries one stop on its losing side, short of liquidation
\* (risk, the runtime controls and live_execution together).
LiveEntriesAreProtected ==
    Accepted /\ BitunixSafe(signal, config, account) /\ ~Stressed(signal) =>
        LET order == BitunixOrder(signal) IN
        order.trade = "OPEN" /\ Exact(signal) =>
            \E stop \in order.stop : /\ order.stop = {stop} /\ Gain(order.side, stop) < 0
                                     /\ StopBeforeLiquidation(signal, stop)

\* The same trade on the other side.
Across(price) == 2 * Entry - price
MirrorTarget(t) == [f \in DOMAIN t |-> IF f = "trigger_price" THEN Across(t[f]) ELSE t[f]]
Mirror(s) ==
    [f \in DOMAIN s |->
        CASE f = "side" -> IF s.side = "buy" THEN "sell" ELSE "buy"
          [] f \in {"stop_loss_price", "take_profit_price", "trailing_stop_price",
                    "trailing_activation_price"} -> Across(s[f])
          [] f = "take_profit_targets" -> [k \in DOMAIN s[f] |-> MirrorTarget(s[f][k])]
          [] f = "raw" /\ "funding_rate_bps" \in DOMAIN s.raw -> [s.raw EXCEPT !.funding_rate_bps = -@]
          [] OTHER -> s[f]]

\* A long and the short that mirrors it get the same verdict, reason by reason, from
\* the risk engine and, where prices are not rounded, from the futures assessment, and
\* mirrored stops and targets.
SidesMirror ==
    Accepted /\ Opens(Mirror(signal)) /\ Opens(signal) =>
        /\ EvaluateSignal(Mirror(signal), config, account) = EvaluateSignal(signal, config, account)
        /\ Exact(signal) =>
             /\ FuturesReasons(Mirror(signal), account) = FuturesReasons(signal, account)
             /\ [k \in DOMAIN ExitOrders(Mirror(signal)) |-> ExitOrders(Mirror(signal))[k].trigger]
                = [k \in DOMAIN ExitOrders(signal) |-> Across(ExitOrders(signal)[k].trigger)]

\* A signal written to the approval queue or into a ticket and normalised again is the
\* same signal, but for what only the raw payload carries and for a trail that closes
\* a part (serializers.signal_to_dict, repository._signal_to_dict).
ParkedSignalIsTheSame ==
    Accepted /\ signal.trailing_stop_close_pct = 100 =>
        /\ ~Refused(ToPayload(signal))
        /\ Normalize(ToPayload(signal)) = [signal EXCEPT !.raw = <<>>]

\* The preview of a native order and the exchange plan judge the exits alike: what the
\* first sends whole, the second finds portable and free of a trail; and a plan that
\* does not leave the exits to paper uses what the venue advertises, leg by leg,
\* while one that does says what the venue lacks or the exits need, unless the venue
\* has both OCO and trailing orders
\* (live_execution.bitunix_live_order_preview, order_planner.plan_bracket_execution).
ShapesAgree ==
    Accepted => LET exits == ExitOrders(signal) IN
        /\ NeedsManager(signal) <=> NonPortable(exits) \/ HasTrail(exits)
        /\ \A venue \in Venues :
             /\ FeaturesUsed(exits, venue) \subseteq venue \union {"conditional_order"}
             /\ ~PaperRequired(Strategy(exits, venue)) =>
                  \A e \in ToSet(exits) : Family(e, exits, venue) \notin {"paper_or_custom_native_mapping",
                                                                         "paper_time_stop"}
             /\ PaperRequired(Strategy(exits, venue)) /\ ~({"oco", "trailing_order"} \subseteq venue) =>
                  Warnings(signal, venue \union {"create_order"}) # {}

\* The figures shown beside an approved signal are those the verdict rests on: the loss
\* at the stop and, with each target in one form, the reward of all targets
\* (serializers.bracket_plan_to_dict against risk.evaluate_signal).
PreviewMatchesVerdict ==
    Approved /\ HasExits(signal) /\ GivenOnce(signal) =>
        /\ WorstCaseLoss(signal, account) = NewTradeRisk(signal, account)
        /\ (\A t \in ToSet(signal.take_profit_targets) : ~({"pct", "trigger_price"} \subseteq DOMAIN t)) =>
              TotalTargetReward(signal, account) = {n * TotalReward(signal) : n \in Notional(signal, account)}

\* README: AUTO_CRYPTO_MAX_RISK_AMOUNT caps the loss at the fixed stop of any bracket
\* entry, however it is sized.
CapHoldsForEveryEntry ==
    Approved /\ HasExits(signal) /\ config.max_risk_amount > 0 /\ Exact(signal) =>
        \A loss \in LossAtStop(signal) : loss <= config.max_risk_amount * 10000
=============================================================================
