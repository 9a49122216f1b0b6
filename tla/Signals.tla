------------------------------ MODULE Signals ------------------------------
(***************************************************************************)
(* How an alert becomes a signal (signals.py), from a JSON payload, a       *)
(* bracket template, a strategy preset or a line of text.                   *)
(*                                                                          *)
(* A payload has the fields of its top level, those of its bracket object   *)
(* and those of the legs nested in the bracket, under one name for all the  *)
(* aliases the code accepts; a signal is a record.  A field not given is    *)
(* not in the domain, nor is a size or price given as 0, which the code      *)
(* passes over; Field reads a field as a set of at most one value.           *)
(*                                                                          *)
(* Prices of exits are in basis points of the entry price, so a percentage  *)
(* is a distance; the price itself is known by how many of these a cent is. *)
(* Amounts are in some unit of the quote currency, and an amount of the     *)
(* base asset stands for its worth at the entry price.  Leverage is in      *)
(* tenths.                                                                  *)
(***************************************************************************)
EXTENDS Integers, Sequences, SequencesExt, FiniteSets

Entry == 10000

Field(r, f) == IF f \in DOMAIN r THEN {r[f]} ELSE {}
Flag(r, f) == TRUE \in Field(r, f)
Only(r, fields) == [f \in DOMAIN r \cap fields |-> r[f]]

\* The fields of r, and of d those that r lacks.
r ++ d == [f \in DOMAIN r \union DOMAIN d |-> IF f \in DOMAIN r THEN r[f] ELSE d[f]]
-----------------------------------------------------------------------------
Buying == {"buy", "long", "entry", "open_long", "buy_to_open"}
Selling == {"sell", "short", "open_short", "sell_short", "sell_to_open"}
ClosingLong == {"close", "close_long", "sell_to_close", "reduce_long"}
ClosingShort == {"close_short", "buy_to_cover", "cover_short", "reduce_short"}

Sizes == {"quote_amount", "base_amount", "risk_amount", "risk_pct"}
TopAmounts == Sizes \union {"price", "volatility_pct", "leverage"}
ExitAmounts ==
    {"stop_loss_pct", "stop_loss_price", "take_profit_pct", "take_profit_price", "trailing_stop_pct",
     "trailing_stop_amount", "trailing_stop_price", "trailing_stop_close_pct", "trailing_step_pct",
     "trailing_step_amount", "trailing_activation_pct", "trailing_activation_price",
     "breakeven_trigger_pct", "profit_lock_after_take_profit_pct", "max_hold_marks"}
Flags == {"trail_after_take_profit", "breakeven_after_take_profit"}

\* What only the raw payload carries, for the runtime controls.
RawFields == {"market_state", "funding_rate_bps", "minutes_to_funding"}

\* Names of the paper venue, which no signal may ask for.
PaperNames == {"paper", "sandbox", "demo", "test"}

\* The top level wins over the bracket, the bracket over its legs.
Given(p) == p.top ++ p.bracket ++ p.legs

\* One target made of the fields of a single take-profit.
SingleTarget(r) ==
    LET name == [pct |-> "take_profit_pct", trigger_price |-> "take_profit_price",
                 close_pct |-> "take_profit_close_pct"]
    IN [f \in {f \in DOMAIN name : name[f] \in DOMAIN r} |-> r[name[f]]]

\* A target of a signal.
Positive == Nat \ {0}
Target ==
    [pct : Positive, close_pct : 1 .. 100] \union [trigger_price : Positive, close_pct : 1 .. 100]
    \union [pct : Positive, trigger_price : Positive, close_pct : 1 .. 100]

\* A list of targets, or the take-profit leg whatever it gives, or the single
\* take-profit fields.
RawTargets(p) ==
    LET single == {"take_profit_pct", "take_profit_price"}
        leg == single \union {"take_profit_close_pct"} IN
    IF "take_profit_targets" \in DOMAIN Given(p) THEN Given(p).take_profit_targets
    ELSE IF leg \cap DOMAIN p.legs # {} THEN << SingleTarget(p.legs) >>
    ELSE IF single \cap DOMAIN Given(p) # {} THEN << SingleTarget(Only(Given(p), single)) >>
    ELSE <<>>

Targets(p) == [k \in DOMAIN RawTargets(p) |-> RawTargets(p)[k] ++ [close_pct |-> 100]]

Side(p) == IF p.top.side \in Buying \union ClosingShort THEN "buy" ELSE "sell"
ReduceOnly(p) == Flag(p.top, "reduce_only") \/ p.top.side \in ClosingLong \union ClosingShort

\* How far a price is on the profitable side of the entry.
Gain(side, price) == IF side = "buy" THEN price - Entry ELSE Entry - price

\* With an entry price the percentage counts before the price.
SortKey(side, priced, target) ==
    LET sign == IF side = "buy" THEN 1 ELSE -1 IN
    IF priced /\ "pct" \in DOMAIN target THEN sign * Entry + target.pct
    ELSE IF "trigger_price" \in DOMAIN target THEN sign * target.trigger_price
    ELSE sign * target.pct

\* A stable sort: a target comes after those with a smaller key, and after those
\* with the same key that are given before it.
SortedTargets(p) ==
    LET targets == Targets(p)
        Key(k) == SortKey(Side(p), "price" \in DOMAIN p.top, targets[k])
        Before(k) == {j \in DOMAIN targets : Key(j) < Key(k) \/ (Key(j) = Key(k) /\ j < k)}
    IN [n \in DOMAIN targets |->
           targets[CHOOSE k \in DOMAIN targets : Cardinality(Before(k)) = n - 1]]

\* The sum of a sequence of numbers.
Total(parts) ==
    LET sum[n \in 0 .. Len(parts)] == IF n = 0 THEN 0 ELSE sum[n - 1] + parts[n]
    IN sum[Len(parts)]

\* Absolute exit prices on the wrong side of the entry.
WrongSide(s) ==
    /\ ~s.reduce_only /\ "price" \in DOMAIN s
    /\ \/ \E p \in Field(s, "stop_loss_price") \union Field(s, "trailing_stop_price") : Gain(s.side, p) >= 0
       \/ \E p \in Field(s, "trailing_activation_price")
                \union UNION {Field(t, "trigger_price") : t \in ToSet(s.take_profit_targets)} :
             Gain(s.side, p) <= 0

\* The first target's percentage stands for a take_profit_pct not given.
FirstPct(targets) ==
    IF targets = <<>> THEN <<>> ELSE [f \in DOMAIN Head(targets) \cap {"pct"} |-> Head(targets).pct]

TakeProfitPctGiven(g, targets) ==
    IF "take_profit_pct" \in DOMAIN g \/ DOMAIN FirstPct(targets) = {} THEN <<>>
    ELSE [take_profit_pct |-> FirstPct(targets)["pct"]]

Normalize(p) ==
    LET g == Given(p) IN
    [side |-> Side(p), reduce_only |-> ReduceOnly(p), exchange |-> p.top.exchange,
     symbol |-> p.top.symbol, take_profit_targets |-> SortedTargets(p), raw |-> Only(p.top, RawFields)]
    ++ Only(p.top, {"market_type", "max_slippage_bps"})
    ++ Only(p.top, TopAmounts) ++ Only(g, ExitAmounts \union Flags)
    ++ TakeProfitPctGiven(g, SortedTargets(p))
    ++ [trailing_stop_close_pct |-> 100, leverage |-> 10, max_slippage_bps |-> 100, market_type |-> "spot"]

\* What normalize_signal raises on.
Refused(p) ==
    \/ "side" \notin DOMAIN p.top
    \/ p.top.side \notin Buying \union Selling \union ClosingLong \union ClosingShort
    \/ "symbol" \notin DOMAIN p.top \/ DOMAIN p.top \cap Sizes = {}
    \/ \E f \in DOMAIN p.top \cap TopAmounts : p.top[f] <= 0
    \/ \E b \in Field(p.top, "max_slippage_bps") : b < 0
    \/ \E f \in DOMAIN Given(p) \cap ExitAmounts : Given(p)[f] <= 0
    \/ \E t \in ToSet(Targets(p)) : \/ DOMAIN t \cap {"pct", "trigger_price"} = {}
                                    \/ t.close_pct > 100
                                    \/ \E f \in DOMAIN t : t[f] <= 0
    \/ Total([k \in DOMAIN Targets(p) |-> Targets(p)[k].close_pct]) > 100
    \/ "exchange" \notin DOMAIN p.top
    \/ p.top.exchange \in PaperNames
    \/ WrongSide(Normalize(p))
-----------------------------------------------------------------------------
Flat(fields) == [top |-> fields, bracket |-> <<>>, legs |-> <<>>]

\* Mutant of ToPayload: what starts the trail is not written down.
ToPayloadArmed(s) == Flat(Only(s, DOMAIN s \ {"trailing_stop_close_pct", "raw", "trail_after_take_profit"}))

\* signal_to_dict, which the approval queue and the preview tickets keep a signal as.
ToPayload(s) == Flat(Only(s, DOMAIN s \ {"trailing_stop_close_pct", "raw"}))

BracketTemplates ==
    [fixed_bracket |-> [stop_loss_pct |-> 200, take_profit_pct |-> 400],
     activation_trailer |-> [stop_loss_pct |-> 400, take_profit_pct |-> 800, trailing_stop_pct |-> 300,
                             trailing_activation_pct |-> 200, trailing_step_pct |-> 50],
     staged_runner |-> [stop_loss_pct |-> 300,
                        take_profit_targets |-> << [pct |-> 400, close_pct |-> 50],
                                                   [pct |-> 800, close_pct |-> 50] >>,
                        trailing_stop_pct |-> 300, trailing_stop_close_pct |-> 50,
                        trail_after_take_profit |-> TRUE, breakeven_after_take_profit |-> TRUE],
     vcp_structure_runner |-> [stop_loss_pct |-> 300,
                               take_profit_targets |-> << [pct |-> 450, close_pct |-> 50],
                                                          [pct |-> 960, close_pct |-> 50] >>,
                               breakeven_after_take_profit |-> TRUE]]

\* Overrides win over the alert, the alert over the template: field by field, at the top level.
WithTemplate(p, name, overrides) == [p EXCEPT !.top = overrides ++ @ ++ BracketTemplates[name]]

Preset(side, template) ==
    [defaults |-> [side |-> side, market_type |-> "swap", max_slippage_bps |-> 100], template |-> template]
StrategyPresets ==
    [momentum_breakout |-> Preset("buy", "activation_trailer"),
     dip_reclaim |-> Preset("buy", "fixed_bracket"),
     range_reversion_short |-> Preset("sell", "fixed_bracket"),
     short_reject_swing |-> [Preset("sell", "vcp_structure_runner")
                             EXCEPT !.defaults = @ ++ [leverage |-> 50]]]

WithStrategy(p, name, overrides) ==
    WithTemplate([p EXCEPT !.top = overrides ++ @ ++ StrategyPresets[name].defaults],
                 StrategyPresets[name].template, <<>>)

\* parse_text_signal: of several forms of one thing, the first that the text gives.
Overshadowed(t) ==
    UNION {IF {f[1]} \cap DOMAIN t # {} THEN {f[2]} ELSE {} :
             f \in {<<"take_profit_targets", "take_profit_pct">>, <<"take_profit_targets", "take_profit_price">>,
                    <<"take_profit_pct", "take_profit_price">>, <<"trailing_stop_pct", "trailing_stop_price">>,
                    <<"trailing_stop_pct", "trailing_stop_amount">>,
                    <<"trailing_stop_price", "trailing_stop_amount">>,
                    <<"trailing_activation_pct", "trailing_activation_price">>}}
FromText(t) == Flat(Only(t, DOMAIN t \ Overshadowed(t)))
=============================================================================
