---------------------------- MODULE MCSignalPlan ----------------------------
(***************************************************************************)
(* Payloads that give every field in each of its forms and in the           *)
(* combinations the code tells apart: how the order is sized, its price     *)
(* (100, 0.10 or none), its stop, its targets, its trail and the rest.      *)
(***************************************************************************)
EXTENDS SignalPlan

Top(fields) == fields @@ [symbol |-> "BTC/USDT", exchange |-> "bitunix", market_type |-> "futures"]
Sides == {"buy", "sell", "close_long", "cover_short"}
Prices == {[price |-> 1], [price |-> 1000], <<>>}
SizeForms == {[quote_amount |-> 1000], [base_amount |-> 1000], [risk_amount |-> 20], [risk_pct |-> 100],
              [quote_amount |-> 400, base_amount |-> 1000], <<>>}
Stops == {<<>>, [stop_loss_pct |-> 200], [stop_loss_pct |-> 1000], [stop_loss_price |-> 9500],
          [stop_loss_price |-> 10500], [stop_loss_pct |-> 200, stop_loss_price |-> 9500], [stop_loss_pct |-> 0]}

Pct(d, close) == [pct |-> d, close_pct |-> close]
At(p, close) == [trigger_price |-> p, close_pct |-> close]
Profits == {<<>>, [take_profit_pct |-> 400], [take_profit_price |-> 9400],
            [take_profit_targets |-> << Pct(600, 50), Pct(300, 50) >>],
            [take_profit_targets |-> << At(10800, 40), At(10400, 60) >>],
            [take_profit_targets |-> << At(9000, 30), At(9600, 30) >>],
            [take_profit_targets |-> << At(9200, 50), Pct(300, 50) >>],
            [take_profit_targets |-> << Pct(300, 60), Pct(400, 60) >>]}

Trails_ == {<<>>, [trailing_stop_pct |-> 300], [trailing_stop_amount |-> 250, trailing_activation_pct |-> 100],
            [trailing_stop_pct |-> 300, trailing_stop_price |-> 9700, trailing_activation_price |-> 10200],
            [trailing_stop_pct |-> 300, trail_after_take_profit |-> TRUE],
            [trailing_stop_pct |-> 300, trailing_stop_close_pct |-> 40], [trailing_stop_price |-> 10300],
            [trailing_step_pct |-> 50]}
Rest == {<<>>, [max_hold_marks |-> 3], [breakeven_after_take_profit |-> TRUE],
         [profit_lock_after_take_profit_pct |-> 100, leverage |-> 100], [leverage |-> 25],
         [leverage |-> 200, market_state |-> {"wide_spread"}], [market_state |-> {"market_data_stale"}],
         [funding_rate_bps |-> 20, minutes_to_funding |-> 10, breakeven_trigger_pct |-> 100]}

Sized == {Flat(Top(side @@ size @@ price @@ stop @@ profit)) :
            side \in {[side |-> s] : s \in Sides}, size \in SizeForms, price \in Prices, stop \in Stops,
            profit \in Profits}
Guarded == {Flat(Top([side |-> side, quote_amount |-> 500, price |-> 1] @@ stop @@ profit @@ trail @@ rest)) :
              side \in {"buy", "sell"}, stop \in Stops, profit \in Profits, trail \in Trails_, rest \in Rest}
Trailed == {Flat(Top([side |-> side, price |-> 1] @@ size @@ stop @@ trail)) :
              side \in {"buy", "sell"}, size \in SizeForms, stop \in Stops, trail \in Trails_}

\* Exits in the bracket object and in its legs, with or without a rival at the top.
Nested == {[top |-> Top(top @@ [side |-> "short", quote_amount |-> 500, price |-> 1]),
            bracket |-> [stop_loss_pct |-> 200] @@ hold,
            legs |-> [stop_loss_price |-> 10500, take_profit_pct |-> 400, take_profit_close_pct |-> close]] :
              top \in {<<>>, [take_profit_pct |-> 900], [stop_loss_pct |-> 100]}, close \in {50, 100},
              hold \in {<<>>, [max_hold_marks |-> 5]}}
Odd == {Flat(Top([side |-> "buy", quote_amount |-> 1, max_slippage_bps |-> -1])),
        [Flat(Top([side |-> "buy", quote_amount |-> 1])) EXCEPT !.legs = [take_profit_close_pct |-> 50]],
        Flat(Top([side |-> "withdraw", quote_amount |-> 1])),
        Flat([side |-> "buy", symbol |-> "BTC/USDT", quote_amount |-> 1]),
        Flat(Top([side |-> "buy", quote_amount |-> 1]) @@ [exchange |-> "paper"])}
MCPayloads == Sized \union Guarded \union Trailed \union Nested \union Odd

MCAlerts == {Flat(Top([quote_amount |-> 500, price |-> 1] @@ side)) :
               side \in {<<>>, [side |-> "buy"], [side |-> "sell"]}}
MCOverrides == {<<>>, [stop_loss_price |-> 9000], [take_profit_targets |-> <<>>], [risk_amount |-> 20]}
MCTexts == {[side |-> "long", symbol |-> "BTC/USDT", price |-> 1, quote_amount |-> 100] @@ stop @@ profit @@ trail :
              stop \in Stops, profit \in Profits, trail \in Trails_}

Off == [max_order_notional |-> 0, max_open_notional |-> 0, max_symbol_open_notional |-> 0,
        max_open_risk_amount |-> 0, max_open_risk_equity_pct |-> 0, max_position_equity_pct |-> 0,
        max_risk_amount |-> 0, max_risk_per_trade_pct |-> 0, max_entry_volatility_pct |-> 0,
        max_leverage |-> 0, max_daily_loss |-> 0, max_consecutive_losses |-> 0, require_stop_loss |-> FALSE,
        max_stop_loss_pct |-> 0, max_trailing_stop_pct |-> 0, min_reward_risk_ratio |-> 0,
        min_total_reward_risk_ratio |-> 0, max_take_profit_targets |-> 0, max_slippage_bps |-> 100,
        allowed_exchanges |-> {}, allowed_symbols |-> {}, blocked_symbols |-> {},
        require_fixed_stop_for_pending_trailing |-> FALSE]
Standard == [Off EXCEPT !.max_order_notional = 1000, !.max_risk_amount = 40, !.max_leverage = 100,
                        !.max_daily_loss = 500, !.require_stop_loss = TRUE, !.allowed_exchanges = {"bitunix"},
                        !.require_fixed_stop_for_pending_trailing = TRUE]
Strict == [Standard EXCEPT !.max_risk_amount = 10, !.max_open_notional = 900, !.max_open_risk_amount = 30,
                           !.max_position_equity_pct = 600, !.min_reward_risk_ratio = 1,
                           !.min_total_reward_risk_ratio = 1, !.max_stop_loss_pct = 500,
                           !.max_trailing_stop_pct = 250, !.max_consecutive_losses = 2]
MCConfigs == {Off, Standard, Strict}

Fresh == [equity |-> 10000, daily_pnl |-> 0, open_notional |-> 0, symbol_open_notional |-> 0,
          open_risk_amount |-> 0, consecutive_losses |-> 0]
MCAccounts == {Fresh, [Fresh EXCEPT !.open_notional = 500, !.open_risk_amount = 20, !.consecutive_losses = 1]}

MCVenues == SUBSET {"attached_tp_sl", "oco", "trailing_order"}
=============================================================================
