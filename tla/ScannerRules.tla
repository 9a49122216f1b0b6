---------------------------- MODULE ScannerRules ----------------------------
(***************************************************************************)
(* The scanner's rules (scanner/scanner_rules.py): which levels a window of *)
(* candles has, which events its last candle makes of them, which rules     *)
(* match and what ticket a match suggests.  Candles close one after the     *)
(* other; everything else is a function of the window.                      *)
(*                                                                          *)
(* Prices are in a unit in which the averages and ATR shares below come out *)
(* whole, percentages in hundredths, weights and scores in hundredths of a  *)
(* point.  A feature whose value is None is left out of the feature record; *)
(* an optional value is a set of at most one element.  The moving-average   *)
(* and oscillator features, volume and spread are inputs (Readings).        *)
(***************************************************************************)
EXTENDS Integers, Sequences, SequencesExt, FiniteSetsExt, TLC

CONSTANTS
    Candles,      \* candles that may close: open, high, low, close
    Window,       \* candles a scan request carries at most
    Reach,        \* candles on each side of a pivot (3 in the code)
    Readings,     \* feature records of the indicators that are not modelled
    Rules,        \* rules that are evaluated
    Context,      \* the symbol and timeframe of the candles
    Grain         \* units in a hundred-millionth, to which a ticket's prices are rounded

Prices == UNION {{c.open, c.high, c.low, c.close} : c \in Candles}

ASSUME RulesAssumption ==
    /\ Window \in Nat \ {0, 1}
    /\ Reach \in Nat \ {0}
    /\ Candles \subseteq [open : Nat, high : Nat, low : Nat, close : Nat]
    /\ \A c \in Candles : c.low <= c.open /\ c.low <= c.close
                       /\ c.open <= c.high /\ c.close <= c.high
    /\ \A rule \in Rules :
          LET conditions == rule.conditions IN
          /\ Len(conditions) \in Nat /\ DOMAIN conditions = 1..Len(conditions)
          /\ \A k \in DOMAIN conditions : conditions[k].weight \in Int
          /\ rule.min_score \in Int
    /\ Grain \in Nat \ {0}

\* The code's prices are fractions: the averages and shares of them that it computes are
\* not rounded, and an ATR is never 0.  The unit is chosen small enough for that: any
\* finitely many positive prices are a hundred units apart, and 3500 of them high, in
\* some unit.  It is no tick of the exchange, and what the code does round is rounded to
\* Grain, which may be any number of units.
ASSUME UnitAssumption ==
    \A p, q \in Prices : p >= 3500 /\ (p < q => q - p >= 100)

VARIABLE candles

Distance(a, b) == IF a < b THEN b - a ELSE a - b
Larger(a, b) == IF a < b THEN b ELSE a
Smaller(a, b) == IF a < b THEN a ELSE b
Only(S) == CHOOSE x \in S : TRUE
LastOf(w, n) == SubSeq(w, Larger(1, Len(w) - n + 1), Len(w))

\* The fields of r, and those of d that r leaves open.
r ++ d == [f \in DOMAIN r \union DOMAIN d |-> IF f \in DOMAIN r THEN r[f] ELSE d[f]]

Total(parts) ==
    LET sum[n \in 0..Len(parts)] == IF n = 0 THEN 0 ELSE sum[n - 1] + parts[n]
    IN sum[Len(parts)]

\* A stable sort: the arguments of key in the order of its values.
Sorted(key) ==
    LET Before(k) == {j \in DOMAIN key : key[j] < key[k] \/ (key[j] = key[k] /\ j < k)}
    IN [n \in 1..Cardinality(DOMAIN key) |->
           CHOOSE k \in DOMAIN key : Cardinality(Before(k)) = n - 1]
-----------------------------------------------------------------------------
(* Levels *)

TrueRange(w, i) ==
    LET c == w[i] IN
    IF i = 1 THEN c.high - c.low
    ELSE Max({c.high - c.low, Distance(c.high, w[i - 1].close),
              Distance(c.low, w[i - 1].close)})

Atr(w) ==
    LET n == Smaller(14, Len(w))
        ranges == [i \in 1..Len(w) |-> TrueRange(w, i)]
        last == w[Len(w)]
        mean == Total(LastOf(ranges, n)) \div n
    IN IF mean > 0 THEN mean
       ELSE Larger(last.high - last.low, last.close \div 500)

Around(w, i) == ((i - Reach)..(i + Reach)) \ {i}
Inner(w) == (Reach + 1)..(Len(w) - Reach)

PivotHighs(w) == {i \in Inner(w) : \A j \in Around(w, i) : w[i].high >= w[j].high}
PivotLows(w) == {i \in Inner(w) : \A j \in Around(w, i) : w[i].low <= w[j].low}

\* price[i] is the price of the pivot at candle i.  From the lowest up, a price goes to
\* the first cluster that is near, or starts one.
Joined(c, i, price) ==
    [level |-> (c.level * c.touches + price[i]) \div (c.touches + 1),
     touches |-> c.touches + 1, last |-> Larger(c.last, i - 1)]

Placed(clusters, i, price, tolerance) ==
    LET near == {k \in DOMAIN clusters : Distance(price[i], clusters[k].level) <= tolerance}
    IN IF near = {} THEN Append(clusters, [level |-> price[i], touches |-> 1, last |-> i - 1])
       ELSE [clusters EXCEPT ![Min(near)] = Joined(@, i, price)]

Cluster(price, close, atr) ==
    LET tolerance == Larger(close \div 400, (6 * atr) \div 10)
        order == Sorted(price)
        placed[n \in 0..Len(order)] ==
            IF n = 0 THEN <<>> ELSE Placed(placed[n - 1], order[n], price, tolerance)
    IN placed[Len(order)]

\* How the code ranks clusters; only the best one is ever read for its rank.
Rank(c, price, count) ==
    18000 * c.touches + Larger(0, 30000 - (500 * Distance(c.level, price)) \div (price \div 1000))
        + (10000 * c.last) \div Larger(1, count)

Levels(w, price) ==
    LET close == w[Len(w)].close
        clusters == Cluster(price, close, Atr(w))
        order == Sorted([k \in DOMAIN clusters |-> -Rank(clusters[k], close, Cardinality(DOMAIN price))])
    IN [n \in 1..Smaller(6, Len(clusters)) |-> clusters[order[n]]]

HighLevels(w) == Levels(w, [i \in PivotHighs(w) |-> w[i].high])
LowLevels(w) == Levels(w, [i \in PivotLows(w) |-> w[i].low])

AllLevels(w) == {level.level : level \in ToSet(HighLevels(w) \o LowLevels(w))}

\* The nearest of the levels on one side of the price, if there is one.
NearestLevel(side, price) ==
    {l \in side : \A m \in side : Distance(l, price) <= Distance(m, price)}

FirstLevel(levels) == IF levels = <<>> THEN {} ELSE {Head(levels).level}

PivotHigh(w) == IF PivotHighs(w) # {} THEN w[Max(PivotHighs(w))].high
                ELSE Max({c.high : c \in ToSet(LastOf(w, 20))})
PivotLow(w) == IF PivotLows(w) # {} THEN w[Max(PivotLows(w))].low
               ELSE Min({c.low : c \in ToSet(LastOf(w, 20))})

Preferred(found, standIn) == IF found # {} THEN Only(found) ELSE standIn

\* Mutant of Resistance: the resistance of the candle before.
ResistanceBefore(w) ==
    LET close == w[Len(w) - 1].close
    IN Preferred(NearestLevel({l \in AllLevels(w) : l >= close}, close),
                 Preferred(FirstLevel(HighLevels(w)), PivotHigh(w)))

\* Highs and lows alike are candidates; with none on the side wanted, the best of
\* the side's own kind stands in, whichever side of the price it is on.
Resistance(w) ==
    LET close == w[Len(w)].close
    IN Preferred(NearestLevel({l \in AllLevels(w) : l >= close}, close),
                 Preferred(FirstLevel(HighLevels(w)), PivotHigh(w)))

Support(w) ==
    LET close == w[Len(w)].close
    IN Preferred(NearestLevel({l \in AllLevels(w) : l <= close}, close),
                 Preferred(FirstLevel(LowLevels(w)), PivotLow(w)))
-----------------------------------------------------------------------------
(* Events of the last candle *)

Flag(p) == IF p THEN 1 ELSE 0
Near(level, w) ==
    LET close == w[Len(w)].close
    IN Distance(level, close) <= Larger((7 * Atr(w)) \div 10, close \div 400)

\* The share of a candle's range that lies beyond its body, in per cent.
UpperWickPct(c) == (100 * (c.high - Larger(c.open, c.close))) \div Larger(c.high - c.low, 1)
LowerWickPct(c) == (100 * (Smaller(c.open, c.close) - c.low)) \div Larger(c.high - c.low, 1)

HigherLows(w) ==
    LET lows == Sorted([i \in PivotLows(w) |-> i])
        n == Len(lows)
    IN n >= 3 /\ w[lows[n]].low > w[lows[n - 1]].low /\ w[lows[n - 1]].low > w[lows[n - 2]].low

\* compute_features, the part that reads the window.
Structure(w) ==
    LET last == w[Len(w)]
        prev == w[Len(w) - 1]
        resistance == Resistance(w)
        support == Support(w)
        nearResistance == Near(resistance, w)
        nearSupport == Near(support, w)
    IN [open |-> last.open, high |-> last.high, low |-> last.low, close |-> last.close,
        prev_close |-> prev.close, atr |-> Atr(w),
        price_change_pct |-> (10 * (last.close - prev.close)) \div (prev.close \div 1000),
        pivot_high |-> PivotHigh(w), pivot_low |-> PivotLow(w),
        support |-> support, resistance |-> resistance,
        near_support |-> Flag(nearSupport), near_resistance |-> Flag(nearResistance),
        breakout_above_resistance |-> Flag(prev.close <= resistance /\ last.close > resistance),
        support_break |-> Flag(prev.close >= support /\ last.close < support),
        rejection_at_resistance |->
            Flag(nearResistance /\ UpperWickPct(last) > 45 /\ last.close < last.open),
        rejection_at_support |->
            Flag(nearSupport /\ LowerWickPct(last) > 45 /\ last.close > last.open),
        lower_wick_pct |-> LowerWickPct(last), higher_lows |-> Flag(HigherLows(w))]

VcpScore(s, r) ==
    Smaller(4500, 1500 * r.contraction_count) + 2000 * Flag(r.range_compression < 80)
        + 1500 * Flag(r.volume_ratio < 90) + 1000 * s.higher_lows + 1000 * s.near_resistance

Features(s, r) == [vcp_score |-> VcpScore(s, r)] ++ s ++ r
-----------------------------------------------------------------------------
(* Conditions and score *)

Actual(field, f) == IF field \in DOMAIN f THEN {f[field]} ELSE {}

\* The value a condition compares with: a number, a pair of numbers, a feature, or
\* a list of two numbers, which is no number.
Number(n) == [kind |-> "number", low |-> n, high |-> n, name |-> ""]
Pair(n, m) == [kind |-> "number", low |-> n, high |-> m, name |-> ""]
Feature(name) == [kind |-> "feature", low |-> 0, high |-> 0, name |-> name]
Range2(n, m) == [kind |-> "list", low |-> n, high |-> m, name |-> ""]

Expected(v, f) ==
    CASE v.kind = "number" -> {v.low}
      [] v.kind = "feature" -> Actual(v.name, f)
      [] v.kind = "list" -> {}

Within(a, v, b) ==
    IF v.kind = "list" THEN v.low <= a /\ a <= v.high
    ELSE Smaller(b, v.high) <= a /\ a <= Larger(b, v.high)

\* 0.35 per cent of the expected value.
Close(a, b) == Distance(a, b) <= (35 * Distance(b, 0)) \div 10000

\* Neither side may be missing, except to the operators that ask about that.
Compare(actual, op, v, f) ==
    LET expected == Expected(v, f) IN
    CASE op = "truthy" -> \E a \in actual : a # 0
      [] op = "falsy" -> \A a \in actual : a = 0
      [] op = "==" -> v.kind # "list" /\ actual = expected
      [] op = "!=" -> v.kind = "list" \/ actual # expected
      [] OTHER -> \E a \in actual, b \in expected :
            CASE op = ">" -> a > b
              [] op = ">=" -> a >= b
              [] op = "<" -> a < b
              [] op = "<=" -> a <= b
              [] op = "between" -> Within(a, v, b)
              [] op = "outside" -> ~Within(a, v, b)
              [] op = "near" -> Close(a, b)
              [] op = "not_near" -> ~Close(a, b)

\* The only earlier value kept is the close: every field crosses from there.
Passes(c, f) ==
    LET now == Actual(c.field, f)
        before == Actual("prev_close", f)
    IN CASE c.op = "crosses_above" -> Compare(before, "<=", c.value, f) /\ Compare(now, ">", c.value, f)
         [] c.op = "crosses_below" -> Compare(before, ">=", c.value, f) /\ Compare(now, "<", c.value, f)
         [] OTHER -> Compare(now, c.op, c.value, f)

\* What the conditions at some places weigh together.
Weight(conditions, places) ==
    Total([k \in DOMAIN conditions |-> IF k \in places THEN Larger(0, conditions[k].weight) ELSE 0])

BaseScore(rule, f) ==
    LET conditions == rule.conditions
        total == Weight(conditions, DOMAIN conditions)
        passed == Weight(conditions, {k \in DOMAIN conditions : Passes(conditions[k], f)})
    IN (10000 * passed) \div (IF total = 0 THEN 100 ELSE total)

\* Mutant of Adjusted: the bonus is a share of what is missing.
AdjustedByShare(score, f) ==
    LET lifted == IF \E v \in Actual("volume_ratio", f) : v >= 150
                  THEN score + (10000 - score) \div 4 ELSE score
    IN IF \E s \in Actual("spread_pct", f) : s > 25 THEN Larger(0, lifted - 600) ELSE lifted

\* Three points for volume, then six off for a wide spread.
Adjusted(score, f) ==
    LET lifted == IF \E v \in Actual("volume_ratio", f) : v >= 150
                  THEN Smaller(10000, score + 300) ELSE score
    IN IF \E s \in Actual("spread_pct", f) : s > 25 THEN Larger(0, lifted - 600) ELSE lifted

Score(rule, f) == Adjusted(BaseScore(rule, f), f)

\* The rule is for the candles it is shown; an empty list is for all.
AppliesTo(rule, context) ==
    /\ rule.symbols = {} \/ rule.symbols \cap {context.symbol, "*"} # {}
    /\ rule.timeframes = {} \/ context.timeframe \in rule.timeframes

Matches(rule, f) ==
    /\ rule.enabled
    /\ AppliesTo(rule, Context)
    /\ \A k \in DOMAIN rule.conditions :
          rule.conditions[k].required => Passes(rule.conditions[k], f)
    /\ Score(rule, f) >= rule.min_score

Confidence(score) ==
    CASE score >= 9000 -> "very_high" [] score >= 7800 -> "high"
      [] score >= 6200 -> "medium" [] OTHER -> "low"

LongVotes(rule, f) ==
    20 * f.breakout_above_resistance + 15 * f.rejection_at_support + 12 * f.ema_stack_bullish
    + 10 * f.trend_pullback_long + 5 * f.macd_bullish
    + 6 * Flag(\E b \in Actual("bid_ask_imbalance", f) : b > 15)
    + 10 * Flag("long" \in rule.hints)

ShortVotes(rule, f) ==
    20 * f.support_break + 15 * f.rejection_at_resistance + 12 * f.ema_stack_bearish
    + 10 * f.trend_pullback_short + 5 * f.macd_bearish
    + 6 * Flag(\E b \in Actual("bid_ask_imbalance", f) : b < -15)
    + 10 * Flag("short" \in rule.hints)

InferSide(rule, f) ==
    IF rule.side_bias \in {"long", "short"} THEN rule.side_bias
    ELSE IF LongVotes(rule, f) = ShortVotes(rule, f) THEN "neutral"
    ELSE IF LongVotes(rule, f) > ShortVotes(rule, f) THEN "long" ELSE "short"
-----------------------------------------------------------------------------
(* Ticket and hit *)

\* Mutant of LongStop: the nearest of the three marks.
LongStopNearest(f) == Larger(Larger(f.support, f.pivot_low), f.close - (23 * f.atr) \div 20)
                          - (3 * f.atr) \div 20
LongStop(f) == Smaller(Smaller(f.support, f.pivot_low), f.close - (23 * f.atr) \div 20)
                   - (3 * f.atr) \div 20
ShortStop(f) == Larger(Larger(f.resistance, f.pivot_high), f.close + (23 * f.atr) \div 20)
                    + (3 * f.atr) \div 20

\* round(x, 8): the nearest hundred-millionth.
Rounded(x) == Grain * ((x + Grain \div 2) \div Grain)

\* Targets at 1.5, 2.5 and 4 times the distance of the stop, before rounding.
BuildTicket(side, f) ==
    LET entry == f.close
        away == IF side = "short" THEN -1 ELSE 1
        stop == IF side = "short" THEN ShortStop(f) ELSE LongStop(f)
        risk == Larger(away * (entry - stop), (9 * f.atr) \div 20)
    IN [side |-> side, entry |-> Rounded(entry), stop |-> Rounded(stop),
        targets |-> << Rounded(entry + away * ((3 * risk) \div 2)),
                       Rounded(entry + away * ((5 * risk) \div 2)),
                       Rounded(entry + away * 4 * risk) >>]

Hit(rule, f) ==
    LET side == InferSide(rule, f) IN
    [rule |-> rule.id, side |-> side, score |-> Score(rule, f), confidence |-> Confidence(Score(rule, f)),
     ticket |-> IF side = "neutral" THEN {} ELSE {BuildTicket(side, f)}]

\* evaluate_rule: no hit or one.
EvaluateRule(rule, s, r) ==
    {Hit(rule, f) : f \in {f \in {Features(s, r)} : Matches(rule, f)}}
-----------------------------------------------------------------------------
(* The presets *)

Must(field, op, v, weight) ==
    [field |-> field, op |-> op, value |-> v, weight |-> weight, required |-> TRUE]
May(field, op, v, weight) == [Must(field, op, v, weight) EXCEPT !.required = FALSE]
On(field, weight) == Must(field, "truthy", Number(0), weight)
Prefer(field, weight) == May(field, "truthy", Number(0), weight)

\* The names hold words that _infer_side counts, though no preset leaves its side open.
Preset(id, side, min, conditions) ==
    [id |-> id, enabled |-> TRUE, side_bias |-> side, min_score |-> min,
     hints |-> {side}, conditions |-> conditions,
     symbols |-> {"BTCUSDT", "ETHUSDT", "SOLUSDT"}, timeframes |-> {"15m"}]

PresetRules == {
    Preset("preset_volume_spike_long", "long", 7200,
        << Must("volume_ratio", ">=", Number(200), 200), Must("price_change_pct", ">", Number(15), 100),
           May("close", ">", Feature("vwap"), 100), May("spread_pct", "<", Number(20), 100) >>),
    Preset("preset_breakout_long", "long", 7000,
        << On("breakout_above_resistance", 250), Must("volume_ratio", ">=", Number(125), 150),
           Prefer("ema_stack_bullish", 100), May("rsi", "between", Range2(45, 78), 75) >>),
    Preset("preset_vcp_breakout_watch", "long", 7000,
        << Must("contraction_count", ">=", Number(2), 150), Must("range_compression", "<", Number(92), 125),
           Must("volume_ratio", "<", Number(125), 100), Prefer("near_resistance", 100),
           Prefer("higher_lows", 80) >>),
    Preset("preset_rejection_short", "short", 7200,
        << On("rejection_at_resistance", 200), May("volume_ratio", ">=", Number(110), 100),
           May("rsi", ">", Number(55), 80), Prefer("macd_bearish", 80) >>),
    Preset("preset_trend_continuation_long", "long", 7000,
        << On("ema_stack_bullish", 150), On("trend_pullback_long", 150),
           May("rsi", "between", Range2(42, 72), 75), May("close", ">", Feature("vwap"), 75) >>),
    Preset("preset_liquidation_risk_short", "short", 7000,
        << May("funding_rate", ">", Number(15), 100), May("open_interest_change_pct", ">", Number(100), 100),
           Prefer("rejection_at_resistance", 150), Prefer("support_break", 150),
           May("volume_ratio", ">=", Number(120), 80) >>),
    Preset("preset_support_reclaim_long", "long", 7200,
        << On("rejection_at_support", 200), Must("lower_wick_pct", ">=", Number(42), 100),
           Must("close", ">", Feature("open"), 100), May("volume_ratio", ">=", Number(100), 60) >>) }
-----------------------------------------------------------------------------
Init == candles = <<>>

CandleCloses(c) ==
    candles' = LastOf(Append(candles, c), Window)

Next == \E c \in Candles : CandleCloses(c)
Spec == Init /\ [][Next]_candles
-----------------------------------------------------------------------------
(* Properties *)

\* What is read from the window; two candles are needed for any feature.
Scanned == IF Len(candles) >= 2 THEN {Structure(candles)} ELSE {}
Mapped == ToSet(HighLevels(candles)) \union ToSet(LowLevels(candles))

\* A breakout is reported only by a close above every mapped level, of highs and of
\* lows, and a support break by a close below every one.  (compute_features looks for
\* the resistance on the far side of the new close, so a level that has just been
\* crossed is replaced by the next one beyond, if there is one.)
BreaksClearEveryLevel ==
    \A s \in Scanned : \A l \in Mapped :
        /\ s.breakout_above_resistance = 1 => s.close > l.level
        /\ s.support_break = 1 => s.close < l.level

\* Whatever the structure around the price, a suggested ticket stops out beyond the
\* level and the last pivot it leans on, at least 1.3 ATR away, and its targets lie in
\* order on the other side, the second one at 2.5 times the risk.  The rounding of low
\* prices may let them fall together, but does not reverse them, and leaves them apart
\* when 0.15 ATR come to a hundred-millionth.
TicketsAreOrdered ==
    \A s \in Scanned, rule \in Rules, r \in Readings :
        \A h \in EvaluateRule(rule, s, r) : \A t \in h.ticket :
            LET away == IF t.side = "short" THEN -1 ELSE 1
                stop == away * (t.entry - t.stop)
                beyond == IF t.side = "short" THEN t.stop - Larger(s.resistance, s.pivot_high)
                                              ELSE Smaller(s.support, s.pivot_low) - t.stop
                reward == [k \in 1..3 |-> away * (t.targets[k] - t.entry)]
            IN /\ stop >= 0 /\ stop + Grain >= (13 * s.atr) \div 10
               /\ 2 * beyond >= -Grain
               /\ 0 <= reward[1] /\ reward[1] <= reward[2] /\ reward[2] <= reward[3]
               /\ Distance(2 * reward[2], 5 * stop) < 7 * Grain
               /\ 3 * s.atr >= 20 * Grain =>
                     /\ stop > 0 /\ beyond > 0
                     /\ 0 < reward[1] /\ reward[1] < reward[2] /\ reward[2] < reward[3]

\* A small contextual bonus "without letting weak rules fake a setup": a match of a rule
\* that asks for anything has passed conditions worth its minimum but for three points,
\* and six points more when the spread is wide.
BonusMakesNoSetup ==
    \A s \in Scanned, rule \in Rules, r \in Readings :
        rule.min_score > 0 /\ EvaluateRule(rule, s, r) # {} =>
            BaseScore(rule, Features(s, r))
                >= rule.min_score - 300 + (IF \E p \in Actual("spread_pct", r) : p > 25 THEN 600 ELSE 0)
=============================================================================
