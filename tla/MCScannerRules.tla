-------------------------- MODULE MCScannerRules --------------------------
(***************************************************************************)
(* Windows of six candles out of six, with one candle on each side of a    *)
(* pivot: a window holds two pivots of a kind, and a close that crosses    *)
(* one of them with or without the other above it.  Prices lie closer than *)
(* a grain: an ATR is a small part of one, one or several.                 *)
(***************************************************************************)
EXTENDS ScannerRules

U == 30000
Bar(open, high, low, close) == [open |-> open * U, high |-> high * U, low |-> low * U, close |-> close * U]
Flat(p) == Bar(p, p, p, p)

MCCandles == {Flat(50), Flat(52), Flat(70), Flat(90), Bar(60, 90, 50, 55), Bar(60, 65, 40, 64)}

Quiet == [volume_ratio |-> 100, contraction_count |-> 2, range_compression |-> 80, rsi |-> 60,
          ema_stack_bullish |-> 0, ema_stack_bearish |-> 0, trend_pullback_long |-> 0,
          trend_pullback_short |-> 0, macd_bullish |-> 0, macd_bearish |-> 0]
Busy == [Quiet EXCEPT !.volume_ratio = 200, !.ema_stack_bullish = 1, !.trend_pullback_long = 1,
                      !.macd_bullish = 1] @@ [spread_pct |-> 10, vwap |-> 55 * U, bid_ask_imbalance |-> 30]
Thin == [Quiet EXCEPT !.volume_ratio = 150,
                      !.macd_bearish = 1] @@ [spread_pct |-> 30, funding_rate |-> 20, open_interest_change_pct |-> 200]
MCReadings == {Quiet, Busy, Thin}

\* A rule of an operator that leaves its side open.
Watch == [Preset("watch", "auto", 5000,
             << May("close", "crosses_above", Number(60 * U), 100), Prefer("support_break", 50),
                May("spread_pct", "near", Number(30), 49),
                May("rsi", "between", Pair(45, 78), 20), Prefer("near_resistance", 100) >>)
          EXCEPT !.hints = {}, !.symbols = {"*"}, !.timeframes = {}]
\* A rule for another timeframe, which never matches.
Hourly == [Watch EXCEPT !.id = "hourly", !.timeframes = {"1h"}]
MCRules == PresetRules \union {Watch, Hourly}
MCContext == [symbol |-> "BTCUSDT", timeframe |-> "15m"]
=============================================================================
