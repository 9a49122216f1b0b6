-------------------------- MODULE SignalPlanProofs --------------------------
(***************************************************************************)
(* Signals and what becomes of them: a signal that was accepted is          *)
(* well-formed, loses no more than it may, mirrors the opposite trade,      *)
(* survives the approval queue, and is judged and shown alike by all who    *)
(* look at it.                                                              *)
(*                                                                          *)
(* TypeOK is the inductive invariant: the routes keep nothing but the       *)
(* signal, so all of it rests on what normalisation makes of a payload. The *)
(* other properties follow from it state by state; each of the sections     *)
(* below compares two readings of one signal, by two parts of the code or   *)
(* by one part on two occasions.                                            *)
(***************************************************************************)
EXTENDS SignalPlan, FiniteSetTheorems, Recursion
-----------------------------------------------------------------------------
(* The exchange plan and the native order. *)

\* The two verdicts on the exits as a whole agree (bitunix_live_order_preview against
\* plan_bracket_execution).
LEMMA ManagerIsPlanner ==
  ASSUME NEW s
  PROVE  NeedsManager(s) <=> NonPortable(ExitOrders(s)) \/ HasTrail(ExitOrders(s))
<1>. DEFINE exits == ExitOrders(s)
<1>1. \A kind : kind \in Kinds(exits) <=> \E k \in DOMAIN exits : exits[k].kind = kind
  BY DEF Kinds, ToSet
<1>2. \A k : k \in OfKind(exits, "take_profit") <=> k \in DOMAIN exits /\ exits[k].kind = "take_profit"
  BY DEF OfKind
<1>3. NonPortable(exits) <=>
        \/ Cardinality(OfKind(exits, "take_profit")) > 1
        \/ \E k \in DOMAIN exits :
             \/ exits[k].kind \in {"take_profit", "trailing_stop"} /\ exits[k].close_pct < 100
             \/ exits[k].kind = "time_exit"
             \/ exits[k].kind = "trailing_stop" /\ exits[k].status = "pending_take_profit"
  BY DEF NonPortable, ToSet
<1>4. NeedsManager(s) <=>
        \/ \E k \in DOMAIN exits : exits[k].kind \in {"trailing_stop", "time_exit"}
        \/ Cardinality(OfKind(exits, "take_profit")) > 1
        \/ \E k \in DOMAIN exits : exits[k].kind = "take_profit" /\ exits[k].close_pct < 100
  BY <1>1, <1>2 DEF NeedsManager
<1>5. HasTrail(exits) <=> \E k \in DOMAIN exits : exits[k].kind = "trailing_stop"
  BY <1>1 DEF HasTrail
<1>. HIDE DEF exits
<1>. QED BY <1>3, <1>4, <1>5 DEF exits

\* The steps after the fill use what the strategy found advertised.
LEMMA FeaturesAdvertised ==
  ASSUME NEW exits, NEW venue
  PROVE  FeaturesUsed(exits, venue) \subseteq venue \union {"conditional_order"}
<1>. DEFINE strategy == Strategy(exits, venue)
<1>1. /\ strategy = "attached_stop_loss_take_profit" => "attached_tp_sl" \in venue
      /\ strategy = "entry_then_oco_after_fill" => "oco" \in venue
      /\ strategy = "attached_bracket_with_trailing" => {"attached_tp_sl", "trailing_order"} \subseteq venue
      /\ strategy = "entry_then_trailing_stop" => "trailing_order" \in venue
  BY DEF Strategy
<1>. HIDE DEF strategy
<1>. QED BY <1>1 DEF FeaturesUsed, strategy

\* In a strategy that leaves nothing to paper, each leg has a native order.
LEMMA FamiliesMapped ==
  ASSUME NEW exits, NEW venue, ~PaperRequired(Strategy(exits, venue)), exits # <<>>,
         NEW e \in ToSet(exits)
  PROVE  Family(e, exits, venue) \notin {"paper_or_custom_native_mapping", "paper_time_stop"}
<1>. DEFINE strategy == Strategy(exits, venue)
<1>1. ~NonPortable(exits)
  BY DEF Strategy, PaperRequired
<1>2. e.kind # "time_exit"
  BY <1>1 DEF NonPortable
<1>3. e.kind = "trailing_stop" => HasTrail(exits)
  BY DEF HasTrail, Kinds
<1>4. /\ HasTrail(exits) => "trailing_order" \in venue
      /\ HasBracket(exits) => "attached_tp_sl" \in venue \/ "oco" \in venue
  BY <1>1 DEF Strategy, PaperRequired
<1>. QED BY <1>1, <1>2, <1>3, <1>4 DEF Family

\* A strategy that leaves exits to paper comes with a warning.
LEMMA PaperWarned ==
  ASSUME NEW s, NEW venue, PaperRequired(Strategy(ExitOrders(s), venue)),
         ~({"oco", "trailing_order"} \subseteq venue)
  PROVE  Warnings(s, venue \union {"create_order"}) # {}
<1>. DEFINE exits == ExitOrders(s)
            more == venue \union {"create_order"}
<1>1. NonPortable(exits) =>
        "staged_or_partial_exits_require_paper_or_custom_native_mapping" \in Warnings(s, more)
  BY DEF Warnings
<1>2. HasTrail(exits) /\ "trailing_order" \notin venue =>
        "trailing_order_not_advertised" \in Warnings(s, more)
  BY DEF Warnings
<1>3. HasBracket(exits) /\ {"attached_tp_sl", "oco"} \cap venue = {} =>
        "native_bracket_not_advertised" \in Warnings(s, more)
  BY DEF Warnings
<1>4. \/ NonPortable(exits)
      \/ /\ HasBracket(exits) /\ HasTrail(exits)
         /\ ~({"attached_tp_sl", "trailing_order"} \subseteq venue)
      \/ HasBracket(exits) /\ "attached_tp_sl" \notin venue /\ "oco" \notin venue
      \/ HasTrail(exits) /\ "trailing_order" \notin venue
  BY DEF Strategy, PaperRequired
<1>. HIDE DEF exits, more
<1>. QED BY <1>1, <1>2, <1>3, <1>4 DEF more

\* The preview of a native order and the exchange plan judge the exits of every signal
\* alike, whatever the venue advertises (bitunix_live_order_preview,
\* plan_bracket_execution).
THEOREM PlansAgree == Spec => []ShapesAgree
<1>1. ShapesAgree
  <2>1. ASSUME NEW venue \in Venues
        PROVE  LET exits == ExitOrders(signal) IN
               ~PaperRequired(Strategy(exits, venue)) =>
                  \A e \in ToSet(exits) : Family(e, exits, venue) \notin {"paper_or_custom_native_mapping",
                                                                         "paper_time_stop"}
    <3>1. ToSet(<<>>) = {}
      BY DEF ToSet
    <3>. QED BY <3>1, FamiliesMapped
  <2>. QED BY <2>1, ManagerIsPlanner, FeaturesAdvertised, PaperWarned DEF ShapesAgree
<1>. QED BY <1>1, PTL

-----------------------------------------------------------------------------
(* Payloads hold numbers. *)

\* Of two sets of numbers laid over each other all fields are numbers.
LEMMA TypedOver ==
  ASSUME NEW a, NEW b, Typed(a), Typed(b)
  PROVE  Typed(a ++ b)
<1>. DEFINE r == a ++ b
<1>1. /\ DOMAIN r = DOMAIN a \union DOMAIN b
      /\ \A f \in DOMAIN r : (f \in DOMAIN a /\ r[f] = a[f]) \/ (f \in DOMAIN b /\ r[f] = b[f])
  BY DEF ++
<1>. HIDE DEF r
<1>2. \A f \in DOMAIN r \cap Numbers : r[f] \in Int
  BY <1>1 DEF Typed
<1>3. Field(r, "take_profit_targets") \subseteq Field(a, "take_profit_targets") \union Field(b, "take_profit_targets")
  BY <1>1 DEF Field
<1>4. Typed(r)
  BY <1>2, <1>3 DEF Typed
<1>. QED BY <1>4 DEF r

\* So are some of the fields.
LEMMA TypedOnly ==
  ASSUME NEW a, NEW fields, Typed(a)
  PROVE  Typed(Only(a, fields))
BY DEF Typed, Only, Field

\* No fields at all are numbers.
LEMMA TypedNothing == Typed(<<>>)
BY DEF Typed, Field

\* The bracket templates hold numbers.
LEMMA TypedTemplates == \A t \in DOMAIN BracketTemplates : Typed(BracketTemplates[t])
<1>1. ASSUME NEW r, "take_profit_targets" \notin DOMAIN r,
             \A f \in DOMAIN r : f \notin Flags => r[f] \in Int
      PROVE  Typed(r)
  BY <1>1 DEF Typed, Numbers, Field, Flags, TopAmounts, ExitAmounts, Sizes
<1>2. Typed(BracketTemplates["fixed_bracket"])
  BY <1>1 DEF BracketTemplates
<1>3. Typed(BracketTemplates["activation_trailer"])
  BY <1>1 DEF BracketTemplates
<1>4. ASSUME NEW a \in Int, NEW b \in Int, NEW c \in Int, NEW d \in Int
      PROVE  LET list == << [pct |-> a, close_pct |-> b], [pct |-> c, close_pct |-> d] >>
             IN /\ Len(list) \in Nat
                /\ DOMAIN list = 1 .. Len(list)
                /\ \A t \in ToSet(list) : /\ DOMAIN t \subseteq {"pct", "trigger_price", "close_pct"}
                                          /\ \A f \in DOMAIN t : t[f] \in Int
  BY DEF ToSet
<1>5. Typed(BracketTemplates["staged_runner"])
  BY <1>4 DEF BracketTemplates, Typed, Numbers, Field, Flags, TopAmounts, ExitAmounts, Sizes
<1>6. Typed(BracketTemplates["vcp_structure_runner"])
  BY <1>4 DEF BracketTemplates, Typed, Numbers, Field, Flags, TopAmounts, ExitAmounts, Sizes
<1>7. DOMAIN BracketTemplates =
        {"fixed_bracket", "activation_trailer", "staged_runner", "vcp_structure_runner"}
  BY DEF BracketTemplates
<1>. QED BY <1>2, <1>3, <1>5, <1>6, <1>7

\* So do the strategy presets, each of which names a template.
LEMMA TypedPresets ==
  \A t \in DOMAIN StrategyPresets :
     /\ Typed(StrategyPresets[t].defaults)
     /\ StrategyPresets[t].template \in DOMAIN BracketTemplates
<1>1. Typed([side |-> "buy", market_type |-> "swap", max_slippage_bps |-> 100])
  BY DEF Typed, Numbers, Field, TopAmounts, ExitAmounts, Sizes
<1>2. Typed([side |-> "sell", market_type |-> "swap", max_slippage_bps |-> 100])
  BY DEF Typed, Numbers, Field, TopAmounts, ExitAmounts, Sizes
<1>3. Typed([leverage |-> 50])
  BY DEF Typed, Numbers, Field, TopAmounts, ExitAmounts, Sizes
<1>4. Typed([side |-> "sell", market_type |-> "swap", max_slippage_bps |-> 100] ++ [leverage |-> 50])
  BY <1>2, <1>3, TypedOver
<1>5. Typed(StrategyPresets["momentum_breakout"].defaults) /\ Typed(StrategyPresets["dip_reclaim"].defaults)
  BY <1>1 DEF StrategyPresets, Preset
<1>6. Typed(StrategyPresets["range_reversion_short"].defaults)
  BY <1>2 DEF StrategyPresets, Preset
<1>7. Typed(StrategyPresets["short_reject_swing"].defaults)
  BY <1>4 DEF StrategyPresets, Preset
<1>8. \A t \in DOMAIN StrategyPresets : StrategyPresets[t].template \in DOMAIN BracketTemplates
  BY DEF StrategyPresets, Preset, BracketTemplates
<1>9. DOMAIN StrategyPresets = {"momentum_breakout", "dip_reclaim", "range_reversion_short", "short_reject_swing"}
  BY DEF StrategyPresets
<1>. QED BY <1>5, <1>6, <1>7, <1>8, <1>9

\* Other numbers at the top level of a payload.
LEMMA TypedTop ==
  ASSUME NEW p, TypedPayload(p), NEW top, Typed(top)
  PROVE  TypedPayload([p EXCEPT !.top = top]) /\ [p EXCEPT !.top = top].top = top
BY DEF TypedPayload

\* A payload over a bracket template is a payload (_apply_bracket_template).
LEMMA TypedWithTemplate ==
  ASSUME NEW p, TypedPayload(p), NEW t \in DOMAIN BracketTemplates, NEW o, Typed(o)
  PROVE  TypedPayload(WithTemplate(p, t, o))
<1>1. Typed(p.top)
  BY DEF TypedPayload
<1>2. Typed(BracketTemplates[t])
  BY TypedTemplates
<1>3. Typed(o ++ p.top ++ BracketTemplates[t])
  BY <1>1, <1>2, TypedOver
<1>. QED BY <1>3, TypedTop DEF WithTemplate

\* So is one over a strategy preset (_apply_strategy_preset).
LEMMA TypedWithStrategy ==
  ASSUME NEW p, TypedPayload(p), NEW t \in DOMAIN StrategyPresets, NEW o, Typed(o)
  PROVE  TypedPayload(WithStrategy(p, t, o))
<1>1. Typed(p.top)
  BY DEF TypedPayload
<1>2. Typed(StrategyPresets[t].defaults) /\ StrategyPresets[t].template \in DOMAIN BracketTemplates
  BY TypedPresets
<1>3. Typed(o ++ p.top ++ StrategyPresets[t].defaults)
  BY <1>1, <1>2, TypedOver
<1>4. TypedPayload([p EXCEPT !.top = o ++ @ ++ StrategyPresets[t].defaults])
  BY <1>3, TypedTop
<1>. QED BY <1>2, <1>4, TypedNothing, TypedWithTemplate DEF WithStrategy

\* So is what a text alert is read as (parse_text_signal).
LEMMA TypedFromText ==
  ASSUME NEW t, Typed(t)
  PROVE  TypedPayload(FromText(t))
<1>. DEFINE top == Only(t, DOMAIN t \ Overshadowed(t))
<1>1. Typed(top)
  BY TypedOnly
<1>. HIDE DEF top
<1>2. TypedPayload([top |-> top, bracket |-> <<>>, legs |-> <<>>])
  BY <1>1, TypedNothing DEF TypedPayload
<1>. QED BY <1>2 DEF FromText, Flat, top

\* The fields of a payload taken together.
LEMMA TypedGiven ==
  ASSUME NEW p, TypedPayload(p)
  PROVE  Typed(Given(p))
BY TypedOver DEF Given, TypedPayload

\* The fields of a target, as a payload gives them.
TargetFields == {"pct", "trigger_price", "close_pct"}
\* A target as it is given: some of these fields, with numbers.
TargetGiven(t) == DOMAIN t \subseteq TargetFields /\ \A f \in DOMAIN t : t[f] \in Int

\* The target made of the single take-profit fields.
LEMMA SingleTyped ==
  ASSUME NEW r, Typed(r)
  PROVE  TargetGiven(SingleTarget(r))
<1>. DEFINE name == [pct |-> "take_profit_pct", trigger_price |-> "take_profit_price",
                     close_pct |-> "take_profit_close_pct"]
            t == SingleTarget(r)
<1>1. DOMAIN name = TargetFields
  BY DEF TargetFields
<1>2. \A f \in TargetFields : name[f] \in Numbers
  BY DEF TargetFields, ExitAmounts, Numbers
<1>3. t = [f \in {f \in DOMAIN name : name[f] \in DOMAIN r} |-> r[name[f]]]
  BY DEF SingleTarget
<1>. HIDE DEF name, t
<1>4. TargetGiven(t)
  BY <1>1, <1>2, <1>3 DEF TargetGiven, Typed
<1>. QED BY <1>4 DEF t

\* The targets as they are given are a list.
LEMMA RawTargetsTyped ==
  ASSUME NEW p, TypedPayload(p)
  PROVE  /\ Len(RawTargets(p)) \in Nat
         /\ DOMAIN RawTargets(p) = 1 .. Len(RawTargets(p))
         /\ \A k \in DOMAIN RawTargets(p) : TargetGiven(RawTargets(p)[k])
<1>. DEFINE single == {"take_profit_pct", "take_profit_price"}
            one == SingleTarget(p.legs)
            other == SingleTarget(Only(Given(p), single))
<1>1. Typed(Given(p)) /\ Typed(p.legs) /\ Typed(Only(Given(p), single))
  BY TypedGiven, TypedOnly DEF TypedPayload
<1>2. TargetGiven(one) /\ TargetGiven(other)
  BY <1>1, SingleTyped
<1>3. \/ /\ "take_profit_targets" \in DOMAIN Given(p)
         /\ RawTargets(p) = Given(p).take_profit_targets
      \/ RawTargets(p) = << one >>
      \/ RawTargets(p) = << other >>
      \/ RawTargets(p) = <<>>
  BY DEF RawTargets
<1>4. CASE /\ "take_profit_targets" \in DOMAIN Given(p)
           /\ RawTargets(p) = Given(p).take_profit_targets
  <2>1. RawTargets(p) \in Field(Given(p), "take_profit_targets")
    BY <1>4 DEF Field
  <2>. QED BY <1>1, <2>1 DEF Typed, ToSet, TargetGiven, TargetFields
<1>. HIDE DEF one, other
<1>5. CASE RawTargets(p) = << one >>
  BY <1>2, <1>5
<1>6. CASE RawTargets(p) = << other >>
  BY <1>2, <1>6
<1>7. CASE RawTargets(p) = <<>>
  BY <1>7
<1>. QED BY <1>3, <1>4, <1>5, <1>6, <1>7

\* The targets of a payload that is not refused.
LEMMA TargetForm ==
  ASSUME NEW t, t = [f \in DOMAIN t |-> t[f]], TargetGiven(t), "close_pct" \in DOMAIN t,
         DOMAIN t \cap {"pct", "trigger_price"} # {}, t.close_pct <= 100,
         \A f \in DOMAIN t : ~(t[f] <= 0)
  PROVE  t \in Target
<1>1. \A f \in DOMAIN t : t[f] \in Positive
  BY DEF TargetGiven, Positive
<1>2. t["close_pct"] \in 1 .. 100
  BY <1>1 DEF Positive
<1>3. \/ DOMAIN t = {"pct", "close_pct"}
      \/ DOMAIN t = {"trigger_price", "close_pct"}
      \/ DOMAIN t = {"pct", "trigger_price", "close_pct"}
  BY DEF TargetGiven, TargetFields
<1>4. CASE DOMAIN t = {"pct", "close_pct"}
  <2>1. t = [pct |-> t["pct"], close_pct |-> t["close_pct"]]
    BY <1>4
  <2>. QED BY <1>1, <1>2, <1>4, <2>1 DEF Target
<1>5. CASE DOMAIN t = {"trigger_price", "close_pct"}
  <2>1. t = [trigger_price |-> t["trigger_price"], close_pct |-> t["close_pct"]]
    BY <1>5
  <2>. QED BY <1>1, <1>2, <1>5, <2>1 DEF Target
<1>6. CASE DOMAIN t = {"pct", "trigger_price", "close_pct"}
  <2>1. t = [pct |-> t["pct"], trigger_price |-> t["trigger_price"], close_pct |-> t["close_pct"]]
    BY <1>6
  <2>. QED BY <1>1, <1>2, <1>6, <2>1 DEF Target
<1>. QED BY <1>3, <1>4, <1>5, <1>6

\* The targets of a payload that is not refused are a sequence of targets.
LEMMA TargetsTyped ==
  ASSUME NEW p, TypedPayload(p), ~Refused(p)
  PROVE  Targets(p) \in Seq(Target)
<1>. DEFINE raw == RawTargets(p)
            n == Len(raw)
            all == [close_pct |-> 100]
<1>1. n \in Nat /\ DOMAIN raw = 1 .. n /\ \A k \in 1 .. n : TargetGiven(raw[k])
  BY RawTargetsTyped
<1>2. Targets(p) = [k \in 1 .. n |-> raw[k] ++ all]
  BY <1>1 DEF Targets
<1>3. ASSUME NEW k \in 1 .. n PROVE raw[k] ++ all \in Target
  <2>. DEFINE t == raw[k] ++ all
  <2>1. /\ t = [f \in DOMAIN t |-> t[f]]
        /\ DOMAIN t = DOMAIN raw[k] \union {"close_pct"}
        /\ \A f \in DOMAIN t : t[f] = IF f \in DOMAIN raw[k] THEN raw[k][f] ELSE 100
    BY DEF ++
  <2>2. t \in ToSet(Targets(p))
    BY <1>2 DEF ToSet
  <2>. HIDE DEF t
  <2>3. /\ DOMAIN t \cap {"pct", "trigger_price"} # {}
        /\ ~(t.close_pct > 100)
        /\ \A f \in DOMAIN t : ~(t[f] <= 0)
    BY <2>2 DEF Refused
  <2>4. TargetGiven(t)
    BY <1>1, <1>3, <2>1 DEF TargetGiven, TargetFields
  <2>5. t.close_pct \in Int
    BY <2>1, <2>4 DEF TargetGiven
  <2>6. t.close_pct <= 100
    BY <2>3, <2>5
  <2>7. t = [f \in DOMAIN t |-> t[f]]
    BY <2>1
  <2>8. "close_pct" \in DOMAIN t
    BY <2>1
  <2>9. t \in Target
    BY <2>3, <2>4, <2>6, <2>7, <2>8, TargetForm
  <2>. QED BY <2>9 DEF t
<1>. HIDE DEF raw, n, all
<1>. QED BY <1>1, <1>2, <1>3

-----------------------------------------------------------------------------
(* Normalisation makes a signal. *)

\* The fields of a target.
LEMMA TargetOf ==
  ASSUME NEW t \in Target
  PROVE  /\ t = [f \in DOMAIN t |-> t[f]]
         /\ "close_pct" \in DOMAIN t /\ t.close_pct \in 1 .. 100 /\ t.close_pct \in Int
         /\ "pct" \in DOMAIN t => t.pct \in Positive
         /\ "trigger_price" \in DOMAIN t => t.trigger_price \in Positive
         /\ DOMAIN t \cap {"pct", "trigger_price"} # {}
         /\ DOMAIN t \subseteq TargetFields
<1>1. CASE t \in [pct : Positive, close_pct : 1 .. 100]
  BY <1>1 DEF TargetFields
<1>2. CASE t \in [trigger_price : Positive, close_pct : 1 .. 100]
  BY <1>2 DEF TargetFields
<1>3. CASE t \in [pct : Positive, trigger_price : Positive, close_pct : 1 .. 100]
  BY <1>3 DEF TargetFields
<1>. QED BY <1>1, <1>2, <1>3 DEF Target

\* A target's key is a number.
LEMMA KeyIsNumber ==
  ASSUME NEW t \in Target, NEW side, NEW priced \in BOOLEAN
  PROVE  SortKey(side, priced, t) \in Int
<1>1. /\ "pct" \in DOMAIN t => t.pct \in Int
      /\ "trigger_price" \in DOMAIN t => t.trigger_price \in Int
      /\ "pct" \in DOMAIN t \/ "trigger_price" \in DOMAIN t
  BY DEF Target, Positive
<1>. DEFINE sign == IF side = "buy" THEN 1 ELSE -1
<1>2. sign * Entry \in Int /\ \A x \in Int : sign * x \in Int
  BY DEF Entry
<1>. HIDE DEF sign
<1>3. sign * Entry + t.pct \in Int \/ "pct" \notin DOMAIN t
  BY <1>1, <1>2
<1>. QED BY <1>1, <1>2, <1>3 DEF SortKey, sign

\* The targets of a signal are those given, in the order of their keys.
LEMMA TargetsOrdered ==
  ASSUME NEW p, Targets(p) \in Seq(Target)
  PROVE  LET n == Len(Targets(p))
             sorted == SortedTargets(p)
             Key(t) == SortKey(Side(p), "price" \in DOMAIN p.top, t)
         IN \E order \in Injection(1 .. n, 1 .. n) :
              /\ sorted = [m \in 1 .. n |-> Targets(p)[order[m]]]
              /\ \A j, k \in 1 .. n : j < k => Key(sorted[j]) <= Key(sorted[k])
<1>. DEFINE targets == Targets(p)
            n == Len(targets)
            KeyOf(t) == SortKey(Side(p), "price" \in DOMAIN p.top, t)
            Key(k) == SortKey(Side(p), "price" \in DOMAIN p.top, targets[k])
            key == [k \in 1 .. n |-> Key(k)]
            at(m) == CHOOSE k \in 1 .. n : Cardinality(Earlier(1 .. n, key, k)) = m - 1
            order == [m \in 1 .. n |-> at(m)]
<1>1. n \in Nat /\ DOMAIN targets = 1 .. n /\ \A k \in 1 .. n : targets[k] \in Target
  OBVIOUS
<1>2. key \in [1 .. n -> Int]
  <2>1. ASSUME NEW k \in 1 .. n PROVE Key(k) \in Int
    <3>1. targets[k] \in Target /\ ("price" \in DOMAIN p.top) \in BOOLEAN
      BY <1>1
    <3>. HIDE DEF targets
    <3>. QED BY <3>1, KeyIsNumber
  <2>. HIDE DEF Key
  <2>. QED BY <2>1
<1>3. \A k \in 1 .. n :
        {j \in DOMAIN targets : Key(j) < Key(k) \/ (Key(j) = Key(k) /\ j < k)} = Earlier(1 .. n, key, k)
  BY <1>1 DEF Earlier
<1>4. SortedTargets(p) = [m \in 1 .. n |-> targets[at(m)]]
  <2>1. SortedTargets(p) =
          [m \in DOMAIN targets |->
             targets[CHOOSE k \in DOMAIN targets :
                Cardinality({j \in DOMAIN targets : Key(j) < Key(k) \/ (Key(j) = Key(k) /\ j < k)}) = m - 1]]
    BY DEF SortedTargets
  <2>. HIDE DEF targets, n, key, Key
  <2>. QED BY <1>1, <1>3, <2>1, ZenonT(30)
<1>11. 1 .. n \subseteq Int /\ IsFiniteSet(1 .. n) /\ Cardinality(1 .. n) = n
  <2>. HIDE DEF n
  <2>. QED BY <1>1, FS_Interval
<1>5. \A m \in 1 .. n : at(m) \in 1 .. n /\ Cardinality(Earlier(1 .. n, key, at(m))) = m - 1
  <2>. HIDE DEF key, n
  <2>1. \A m \in 1 .. n : \E k \in 1 .. n : Cardinality(Earlier(1 .. n, key, k)) = m - 1
    BY <1>2, <1>11, PlacesTaken
  <2>. QED BY <2>1
<1>6. \A k \in 1 .. n : key[k] = KeyOf(targets[k])
  OBVIOUS
<1>. HIDE DEF targets, n, key, Key, at, KeyOf
<1>7. order \in Injection(1 .. n, 1 .. n)
  <2>1. order \in [1 .. n -> 1 .. n]
    BY <1>5
  <2>2. ASSUME NEW j \in 1 .. n, NEW k \in 1 .. n, order[j] = order[k] PROVE j = k
    <3>1. at(j) = at(k)
      BY <2>2
    <3>2. j - 1 = k - 1
      BY <1>5, <3>1
    <3>. QED BY <1>1, <3>2
  <2>. HIDE DEF order
  <2>. QED BY <2>1, <2>2 DEF Injection, IsInjective
<1>8. SortedTargets(p) = [m \in 1 .. n |-> targets[order[m]]]
  BY <1>4
<1>9. ASSUME NEW j \in 1 .. n, NEW k \in 1 .. n, j < k
      PROVE  KeyOf(SortedTargets(p)[j]) <= KeyOf(SortedTargets(p)[k])
  <2>1. /\ at(j) \in 1 .. n /\ Cardinality(Earlier(1 .. n, key, at(j))) = j - 1
        /\ at(k) \in 1 .. n /\ Cardinality(Earlier(1 .. n, key, at(k))) = k - 1
    BY <1>5
  <2>2. at(k) \notin Earlier(1 .. n, key, at(j))
    <3>1. SUFFICES ASSUME at(k) \in Earlier(1 .. n, key, at(j)) PROVE FALSE
      OBVIOUS
    <3>2. Cardinality(Earlier(1 .. n, key, at(k))) < Cardinality(Earlier(1 .. n, key, at(j)))
      BY <1>2, <1>11, <2>1, <3>1, EarlierGrows
    <3>. QED BY <1>1, <1>9, <2>1, <3>2
  <2>3. ~(key[at(k)] < key[at(j)])
    BY <2>1, <2>2 DEF Earlier
  <2>4. key[at(j)] <= key[at(k)]
    BY <1>2, <2>1, <2>3
  <2>5. SortedTargets(p)[j] = targets[at(j)] /\ SortedTargets(p)[k] = targets[at(k)]
    BY <1>4
  <2>. QED BY <1>6, <2>1, <2>4, <2>5
<1>. HIDE DEF order
<1>10. \E o \in Injection(1 .. n, 1 .. n) :
         /\ SortedTargets(p) = [m \in 1 .. n |-> targets[o[m]]]
         /\ \A j, k \in 1 .. n : j < k => KeyOf(SortedTargets(p)[j]) <= KeyOf(SortedTargets(p)[k])
  BY <1>7, <1>8, <1>9
<1>. QED BY <1>10 DEF targets, n, KeyOf

\* Sorting the targets keeps them targets, as many as there were.
LEMMA TargetsSorted ==
  ASSUME NEW p, Targets(p) \in Seq(Target)
  PROVE  SortedTargets(p) \in Seq(Target) /\ Len(SortedTargets(p)) = Len(Targets(p))
<1>. DEFINE targets == Targets(p)
            n == Len(targets)
<1>1. n \in Nat /\ \A k \in 1 .. n : targets[k] \in Target
  OBVIOUS
<1>2. PICK order \in Injection(1 .. n, 1 .. n) : SortedTargets(p) = [m \in 1 .. n |-> targets[order[m]]]
  BY TargetsOrdered
<1>3. \A m \in 1 .. n : order[m] \in 1 .. n
  BY DEF Injection
<1>. HIDE DEF targets, n
<1>4. SortedTargets(p) \in Seq(Target) /\ Len(SortedTargets(p)) = n
  BY <1>1, <1>2, <1>3
<1>. QED BY <1>4 DEF n, targets

\* Where each field of two sets laid over each other is from.
LEMMA Sourced ==
  ASSUME NEW r, NEW d
  PROVE  /\ DOMAIN (r ++ d) = DOMAIN r \union DOMAIN d
         /\ \A f \in DOMAIN r : (r ++ d)[f] = r[f]
         /\ \A f \in DOMAIN (r ++ d) :
               \/ (f \in DOMAIN r /\ (r ++ d)[f] = r[f])
               \/ (f \in DOMAIN d /\ (r ++ d)[f] = d[f])
BY DEF ++

\* The parts a signal is put together from (normalize_signal).
NamedPart(p) ==
  [side |-> Side(p), reduce_only |-> ReduceOnly(p), exchange |-> p.top.exchange,
   symbol |-> p.top.symbol, take_profit_targets |-> SortedTargets(p), raw |-> Only(p.top, RawFields)]
\* The terms of the order, as given.
TermsPart(p) == Only(p.top, {"market_type", "max_slippage_bps"})
\* Its size, price and leverage.
AmountsPart(p) == Only(p.top, TopAmounts)
\* Its exits.
ExitsPart(p) == Only(Given(p), ExitAmounts \union Flags)
\* The percentage its first target passes on.
FirstPart(p) == TakeProfitPctGiven(Given(p), SortedTargets(p))
\* What the code fills in.
DefaultsPart ==
  [trailing_stop_close_pct |-> 100, leverage |-> 10, max_slippage_bps |-> 100, market_type |-> "spot"]

\* A signal is made of these parts and nothing else; its named fields are those of the
\* first.
LEMMA NormalForm ==
  ASSUME NEW p
  PROVE  LET s == Normalize(p)
         IN /\ s = [f \in DOMAIN s |-> s[f]]
            /\ DOMAIN s = DOMAIN NamedPart(p) \union DOMAIN TermsPart(p) \union DOMAIN AmountsPart(p)
                          \union DOMAIN ExitsPart(p) \union DOMAIN FirstPart(p) \union DOMAIN DefaultsPart
            /\ \A f \in DOMAIN NamedPart(p) : s[f] = NamedPart(p)[f]
            /\ \A f \in DOMAIN s :
                  \/ (f \in DOMAIN NamedPart(p) /\ s[f] = NamedPart(p)[f])
                  \/ (f \in DOMAIN TermsPart(p) /\ s[f] = TermsPart(p)[f])
                  \/ (f \in DOMAIN AmountsPart(p) /\ s[f] = AmountsPart(p)[f])
                  \/ (f \in DOMAIN ExitsPart(p) /\ s[f] = ExitsPart(p)[f])
                  \/ (f \in DOMAIN FirstPart(p) /\ s[f] = FirstPart(p)[f])
                  \/ /\ f \in DOMAIN DefaultsPart /\ s[f] = DefaultsPart[f]
                     /\ f \notin DOMAIN TermsPart(p) \union DOMAIN AmountsPart(p) \union DOMAIN ExitsPart(p)
<1>. DEFINE a == NamedPart(p)
            b == TermsPart(p)
            c == AmountsPart(p)
            d == ExitsPart(p)
            e == FirstPart(p)
            z == DefaultsPart
            s == Normalize(p)
            s1 == a ++ b
            s2 == s1 ++ c
            s3 == s2 ++ d
            s4 == s3 ++ e
<1>1. s = s4 ++ z
  BY DEF Normalize, NamedPart, TermsPart, AmountsPart, ExitsPart, FirstPart, DefaultsPart
<1>. HIDE DEF a, b, c, d, e, z, s
<1>2. /\ DOMAIN s1 = DOMAIN a \union DOMAIN b
      /\ \A f \in DOMAIN a : s1[f] = a[f]
      /\ \A f \in DOMAIN s1 : (f \in DOMAIN a /\ s1[f] = a[f]) \/ (f \in DOMAIN b /\ s1[f] = b[f])
  BY Sourced
<1>. HIDE DEF s1
<1>3. /\ DOMAIN s2 = DOMAIN s1 \union DOMAIN c
      /\ \A f \in DOMAIN s1 : s2[f] = s1[f]
      /\ \A f \in DOMAIN s2 : (f \in DOMAIN s1 /\ s2[f] = s1[f]) \/ (f \in DOMAIN c /\ s2[f] = c[f])
  BY Sourced
<1>. HIDE DEF s2
<1>4. /\ DOMAIN s3 = DOMAIN s2 \union DOMAIN d
      /\ \A f \in DOMAIN s2 : s3[f] = s2[f]
      /\ \A f \in DOMAIN s3 : (f \in DOMAIN s2 /\ s3[f] = s2[f]) \/ (f \in DOMAIN d /\ s3[f] = d[f])
  BY Sourced
<1>. HIDE DEF s3
<1>5. /\ DOMAIN s4 = DOMAIN s3 \union DOMAIN e
      /\ \A f \in DOMAIN s3 : s4[f] = s3[f]
      /\ \A f \in DOMAIN s4 : (f \in DOMAIN s3 /\ s4[f] = s3[f]) \/ (f \in DOMAIN e /\ s4[f] = e[f])
  BY Sourced
<1>. HIDE DEF s4
<1>6. /\ s = [f \in DOMAIN s |-> s[f]]
      /\ DOMAIN s = DOMAIN s4 \union DOMAIN z
      /\ \A f \in DOMAIN s4 : s[f] = s4[f]
      /\ \A f \in DOMAIN s : (f \in DOMAIN s4 /\ s[f] = s4[f]) \/ (f \in DOMAIN z \ DOMAIN s4 /\ s[f] = z[f])
  BY <1>1 DEF ++
<1>7. DOMAIN s = DOMAIN a \union DOMAIN b \union DOMAIN c \union DOMAIN d \union DOMAIN e \union DOMAIN z
  BY <1>2, <1>3, <1>4, <1>5, <1>6
<1>8. \A f \in DOMAIN a : s[f] = a[f]
  BY <1>2, <1>3, <1>4, <1>5, <1>6
<1>9. \A f \in DOMAIN s :
        \/ (f \in DOMAIN a /\ s[f] = a[f])
        \/ (f \in DOMAIN b /\ s[f] = b[f])
        \/ (f \in DOMAIN c /\ s[f] = c[f])
        \/ (f \in DOMAIN d /\ s[f] = d[f])
        \/ (f \in DOMAIN e /\ s[f] = e[f])
        \/ (f \in DOMAIN z /\ s[f] = z[f] /\ f \notin DOMAIN b \union DOMAIN c \union DOMAIN d)
  BY <1>2, <1>3, <1>4, <1>5, <1>6
<1>. QED BY <1>6, <1>7, <1>8, <1>9 DEF a, b, c, d, e, z, s

\* The fields of the parts.
LEMMA PartFields ==
  ASSUME NEW p
  PROVE  /\ DOMAIN NamedPart(p) = {"side", "reduce_only", "exchange", "symbol", "take_profit_targets", "raw"}
         /\ DOMAIN DefaultsPart = {"trailing_stop_close_pct", "leverage", "max_slippage_bps", "market_type"}
         /\ DOMAIN TermsPart(p) \subseteq {"market_type", "max_slippage_bps"}
         /\ DOMAIN AmountsPart(p) = DOMAIN p.top \cap TopAmounts
         /\ DOMAIN ExitsPart(p) = DOMAIN Given(p) \cap (ExitAmounts \union Flags)
         /\ NamedPart(p).side \in {"buy", "sell"}
         /\ NamedPart(p).reduce_only \in BOOLEAN
         /\ NamedPart(p).take_profit_targets = SortedTargets(p)
         /\ NamedPart(p).raw = Only(p.top, RawFields)
         /\ DOMAIN NamedPart(p) \cap (TopAmounts \union ExitAmounts) = {}
         /\ {"market_type", "max_slippage_bps"} \cap (TopAmounts \union ExitAmounts) = {}
         /\ Flags \cap (TopAmounts \union ExitAmounts) = {}
<1>1. /\ DOMAIN NamedPart(p) = {"side", "reduce_only", "exchange", "symbol", "take_profit_targets", "raw"}
      /\ NamedPart(p).side \in {"buy", "sell"}
      /\ NamedPart(p).reduce_only \in BOOLEAN
      /\ NamedPart(p).take_profit_targets = SortedTargets(p)
      /\ NamedPart(p).raw = Only(p.top, RawFields)
  BY DEF NamedPart, Side, ReduceOnly, Flag
<1>2. DOMAIN DefaultsPart = {"trailing_stop_close_pct", "leverage", "max_slippage_bps", "market_type"}
  BY DEF DefaultsPart
<1>3. /\ DOMAIN TermsPart(p) \subseteq {"market_type", "max_slippage_bps"}
      /\ DOMAIN AmountsPart(p) = DOMAIN p.top \cap TopAmounts
      /\ DOMAIN ExitsPart(p) = DOMAIN Given(p) \cap (ExitAmounts \union Flags)
  BY DEF TermsPart, AmountsPart, ExitsPart, Only
<1>4. /\ DOMAIN NamedPart(p) \cap (TopAmounts \union ExitAmounts) = {}
      /\ {"market_type", "max_slippage_bps"} \cap (TopAmounts \union ExitAmounts) = {}
      /\ Flags \cap (TopAmounts \union ExitAmounts) = {}
  BY <1>1 DEF TopAmounts, ExitAmounts, Sizes, Flags
<1>. QED BY <1>1, <1>2, <1>3, <1>4

\* A take_profit_pct that a signal has of its first target.
LEMMA FirstFields ==
  ASSUME NEW p, SortedTargets(p) \in Seq(Target)
  PROVE  /\ \A f \in DOMAIN FirstPart(p) : f = "take_profit_pct" /\ FirstPart(p)[f] \in Positive
         /\ /\ SortedTargets(p) # <<>>
            /\ "pct" \in DOMAIN SortedTargets(p)[1]
            => "take_profit_pct" \in DOMAIN Given(p) \union DOMAIN FirstPart(p)
<1>. DEFINE sorted == SortedTargets(p)
            first == FirstPct(sorted)
<1>1. CASE sorted = <<>>
  <2>1. DOMAIN first = {}
    BY <1>1 DEF FirstPct
  <2>2. DOMAIN FirstPart(p) = {}
    BY <2>1 DEF FirstPart, TakeProfitPctGiven
  <2>. QED BY <1>1, <2>2
<1>2. CASE sorted # <<>>
  <2>1. Head(sorted) \in Target /\ Head(sorted) = sorted[1]
    BY <1>2
  <2>2. first = [f \in DOMAIN Head(sorted) \cap {"pct"} |-> Head(sorted).pct]
    BY <1>2 DEF FirstPct
  <2>3. /\ DOMAIN first = DOMAIN sorted[1] \cap {"pct"}
        /\ "pct" \in DOMAIN sorted[1] => first["pct"] \in Positive
    BY <2>1, <2>2 DEF Target
  <2>. HIDE DEF sorted, first
  <2>4. FirstPart(p) = IF "take_profit_pct" \in DOMAIN Given(p) \/ DOMAIN first = {} THEN <<>>
                       ELSE [take_profit_pct |-> first["pct"]]
    BY DEF FirstPart, TakeProfitPctGiven, first, sorted
  <2>. QED BY <2>3, <2>4 DEF sorted
<1>. QED BY <1>1, <1>2

\* What normalisation does not refuse is a well-formed signal (normalize_signal).
LEMMA NormalizeOK ==
  ASSUME NEW p, TypedPayload(p), ~Refused(p)
  PROVE  SignalOK(Normalize(p))
<1>. DEFINE g == Given(p)
            s == Normalize(p)
            Amounts == TopAmounts \union ExitAmounts
<1>1. SortedTargets(p) \in Seq(Target)
  BY TargetsTyped, TargetsSorted
<1>2. \A f \in DOMAIN AmountsPart(p) : AmountsPart(p)[f] \in Positive
  <2>1. \A f \in DOMAIN p.top \cap TopAmounts : p.top[f] \in Int /\ ~(p.top[f] <= 0)
    BY DEF TypedPayload, Typed, Numbers, Refused
  <2>. QED BY <2>1 DEF AmountsPart, Only, Positive
<1>3. \A f \in DOMAIN ExitsPart(p) \cap Amounts : ExitsPart(p)[f] \in Positive
  <2>1. \A f \in DOMAIN g \cap ExitAmounts : g[f] \in Int /\ ~(g[f] <= 0)
    BY TypedGiven DEF Typed, Numbers, Refused
  <2>2. ExitAmounts \cap TopAmounts = {}
    BY DEF TopAmounts, ExitAmounts, Sizes
  <2>3. DOMAIN ExitsPart(p) \cap Amounts \subseteq DOMAIN g \cap ExitAmounts
    BY <2>2, PartFields
  <2>4. \A f \in DOMAIN ExitsPart(p) : ExitsPart(p)[f] = g[f]
    BY DEF ExitsPart, Only
  <2>. QED BY <2>1, <2>3, <2>4 DEF Positive
<1>4. \A f \in DOMAIN FirstPart(p) : FirstPart(p)[f] \in Positive
  BY <1>1, FirstFields
<1>5. \A f \in DOMAIN DefaultsPart \cap Amounts : DefaultsPart[f] \in Positive
  <2>1. DefaultsPart.trailing_stop_close_pct \in Positive /\ DefaultsPart.leverage \in Positive
    BY DEF DefaultsPart, Positive
  <2>. QED BY <2>1, PartFields
<1>6. DOMAIN p.top \cap Sizes # {} /\ ~WrongSide(s)
  BY DEF Refused
<1>7. \A r \in Field(Only(p.top, RawFields), "funding_rate_bps") : r \in Int
  BY DEF TypedPayload, Typed, Numbers, Field, Only
<1>. HIDE DEF g, s, Amounts
<1>8. \A f \in DOMAIN s \cap Amounts : s[f] \in Positive
  BY <1>2, <1>3, <1>4, <1>5, NormalForm, PartFields DEF s, Amounts
<1>0. /\ DOMAIN s = DOMAIN NamedPart(p) \union DOMAIN TermsPart(p) \union DOMAIN AmountsPart(p)
                    \union DOMAIN ExitsPart(p) \union DOMAIN FirstPart(p) \union DOMAIN DefaultsPart
      /\ \A f \in DOMAIN NamedPart(p) : s[f] = NamedPart(p)[f]
  BY NormalForm DEF s
<1>9. /\ s.side \in {"buy", "sell"} /\ s.reduce_only \in BOOLEAN
      /\ s.take_profit_targets = SortedTargets(p)
      /\ s.raw = Only(p.top, RawFields)
  BY <1>0, PartFields
<1>10. DOMAIN s \cap Sizes # {} /\ SignalFields \subseteq DOMAIN s
  <2>1. DOMAIN s \cap Sizes # {}
    BY <1>0, <1>6, PartFields, ZenonT(30) DEF TopAmounts
  <2>. QED BY <1>0, <2>1, PartFields, ZenonT(30) DEF SignalFields
<1>11. s.max_slippage_bps \in Nat
  <2>. DEFINE bps == "max_slippage_bps"
  <2>1. bps \in DOMAIN s
    BY <1>10 DEF SignalFields
  <2>2. bps \notin DOMAIN NamedPart(p) \union DOMAIN AmountsPart(p) \union DOMAIN ExitsPart(p)
                   \union DOMAIN FirstPart(p)
    <3>1. bps \notin TopAmounts \union ExitAmounts \union Flags
      BY DEF TopAmounts, ExitAmounts, Sizes, Flags
    <3>2. bps \notin DOMAIN FirstPart(p)
      BY DEF FirstPart, TakeProfitPctGiven
    <3>3. bps \notin DOMAIN NamedPart(p)
      BY DEF NamedPart
    <3>4. /\ DOMAIN AmountsPart(p) \subseteq TopAmounts
          /\ DOMAIN ExitsPart(p) \subseteq ExitAmounts \union Flags
      BY DEF AmountsPart, ExitsPart, Only
    <3>. HIDE DEF bps
    <3>. QED BY <3>1, <3>2, <3>3, <3>4
  <2>3. \/ bps \in DOMAIN TermsPart(p) /\ s[bps] = TermsPart(p)[bps]
        \/ s[bps] = DefaultsPart[bps]
    BY <2>1, <2>2, NormalForm DEF s
  <2>4. bps \in DOMAIN TermsPart(p) => TermsPart(p)[bps] \in Nat
    <3>. SUFFICES ASSUME bps \in DOMAIN TermsPart(p) PROVE TermsPart(p)[bps] \in Nat
      OBVIOUS
    <3>1. bps \in DOMAIN p.top /\ TermsPart(p)[bps] = p.top[bps]
      BY DEF TermsPart, Only
    <3>2. p.top[bps] \in Int /\ ~(p.top[bps] < 0)
      BY <3>1 DEF TypedPayload, Typed, Numbers, Refused, Field
    <3>. QED BY <3>1, <3>2
  <2>5. DefaultsPart[bps] \in Nat
    BY DEF DefaultsPart
  <2>6. s[bps] \in Nat
    BY <2>3, <2>4, <2>5
  <2>. QED BY <2>6
<1>12. SignalOK(s)
  BY <1>1, <1>6, <1>7, <1>8, <1>9, <1>10, <1>11 DEF SignalOK, Amounts, Positive
<1>. QED BY <1>12 DEF s

-----------------------------------------------------------------------------
(* Sums. *)

\* Total is the last of the running sums.
LEMMA TotalIsSum ==
  ASSUME NEW parts \in Seq(Int)
  PROVE  \E g : Sums(parts, g) /\ Total(parts) = g[Len(parts)]
<1>1. Total(parts) = SumUpTo(parts)[Len(parts)]
  BY DEF Total, SumUpTo
<1>. QED BY <1>1, SumsUp

\* Zeroes around a sequence of numbers leave its sum alone.
LEMMA TotalPadded ==
  ASSUME NEW parts \in Seq(Int), NEW padded \in Seq(Int), NEW o \in Nat,
         o + Len(parts) <= Len(padded),
         \A k \in 1 .. Len(parts) : padded[o + k] = parts[k],
         \A k \in 1 .. Len(padded) : k <= o \/ k > o + Len(parts) => padded[k] = 0
  PROVE  Total(padded) = Total(parts)
<1>. DEFINE m == Len(parts)
            N == Len(padded)
<1>1. PICK h : Sums(parts, h) /\ Total(parts) = h[m]
  BY TotalIsSum
<1>2. PICK g : Sums(padded, g) /\ Total(padded) = g[N]
  BY TotalIsSum
<1>3. m \in Nat /\ N \in Nat /\ o + m <= N
  OBVIOUS
<1>4. h \in [0 .. m -> Int] /\ h[0] = 0 /\ \A k \in 1 .. m : h[k] = h[k - 1] + parts[k]
  BY <1>1 DEF Sums
<1>5. g \in [0 .. N -> Int] /\ g[0] = 0 /\ \A k \in 1 .. N : g[k] = g[k - 1] + padded[k]
  BY <1>2 DEF Sums
<1>. HIDE DEF m, N
<1>. DEFINE Value(k) == IF k <= o THEN 0 ELSE IF k <= o + m THEN h[k - o] ELSE h[m]
            T == {k \in 0 .. N : g[k] = Value(k)}
<1>6. 0 \in T
  BY <1>3, <1>5
<1>7. ASSUME NEW k \in 1 .. N, k - 1 \in T PROVE k \in T
  <2>1. g[k] = g[k - 1] + padded[k] /\ g[k - 1] = Value(k - 1) /\ k \in 0 .. N
    BY <1>5, <1>7
  <2>2. CASE k <= o
    <3>1. padded[k] = 0
      BY <2>2 DEF N, m
    <3>. QED BY <1>3, <2>1, <2>2, <3>1
  <2>3. CASE k > o /\ k <= o + m
    <3>1. k - o \in 1 .. m /\ o + (k - o) = k /\ (k - o) - 1 = (k - 1) - o
      BY <1>3, <2>3
    <3>2. padded[k] = parts[k - o]
      BY <3>1 DEF m
    <3>3. h[k - o] = h[(k - 1) - o] + parts[k - o]
      BY <1>4, <3>1
    <3>4. Value(k - 1) = h[(k - 1) - o]
      <4>1. CASE k - 1 = o
        <5>1. (k - 1) - o = 0 /\ k - 1 <= o
          BY <1>3, <4>1
        <5>. QED BY <1>4, <5>1
      <4>2. CASE k - 1 > o
        BY <1>3, <2>3, <4>2
      <4>. QED BY <1>3, <2>3, <4>1, <4>2
    <3>. QED BY <2>1, <2>3, <3>2, <3>3, <3>4
  <2>4. CASE k > o + m
    <3>1. padded[k] = 0
      BY <2>4 DEF N, m
    <3>2. Value(k - 1) = h[m] /\ h[m] \in Int
      BY <1>3, <1>4, <2>4
    <3>. QED BY <1>3, <2>1, <2>4, <3>1, <3>2
  <2>. QED BY <1>3, <2>2, <2>3, <2>4
<1>8. \A k \in 0 .. N : k \in T
  <2>. HIDE DEF T
  <2>. QED BY <1>3, <1>6, <1>7, IntervalInduction, Zenon
<1>9. g[N] = Value(N) /\ Value(N) = h[m]
  BY <1>3, <1>4, <1>8
<1>. QED BY <1>1, <1>2, <1>9

\* A function on an interval from one is a sequence.
LEMMA NumberedSeq ==
  ASSUME NEW S, NEW n \in Nat, NEW f \in [1 .. n -> S]
  PROVE  f \in Seq(S) /\ Len(f) = n
OBVIOUS

\* A number taken out of a sequence is taken off its sum.
Without(parts, j) == [k \in 1 .. Len(parts) - 1 |-> IF k < j THEN parts[k] ELSE parts[k + 1]]

\* The sum with the number and without it.
LEMMA TotalWithout ==
  ASSUME NEW parts \in Seq(Int), NEW j \in 1 .. Len(parts)
  PROVE  Without(parts, j) \in Seq(Int) /\ Total(parts) = Total(Without(parts, j)) + parts[j]
<1>. DEFINE n == Len(parts)
            less == Without(parts, j)
<1>1. n \in Nat /\ n >= 1 /\ parts \in [1 .. n -> Int] /\ n - 1 \in Nat
  OBVIOUS
<1>2. less \in [1 .. n - 1 -> Int] /\ \A k \in 1 .. n - 1 : less[k] = IF k < j THEN parts[k] ELSE parts[k + 1]
  BY <1>1 DEF Without
<1>. HIDE DEF less
<1>3. less \in Seq(Int) /\ Len(less) = n - 1
  <2>. HIDE DEF n
  <2>. QED BY <1>1, <1>2, NumberedSeq
<1>4. PICK g : Sums(parts, g) /\ Total(parts) = g[n]
  BY TotalIsSum
<1>5. PICK h : Sums(less, h) /\ Total(less) = h[n - 1]
  BY <1>3, TotalIsSum
<1>6. g \in [0 .. n -> Int] /\ g[0] = 0 /\ \A k \in 1 .. n : g[k] = g[k - 1] + parts[k]
  BY <1>4 DEF Sums
<1>7. h \in [0 .. n - 1 -> Int] /\ h[0] = 0 /\ \A k \in 1 .. n - 1 : h[k] = h[k - 1] + less[k]
  BY <1>3, <1>5 DEF Sums
<1>. HIDE DEF n
<1>. DEFINE T == {k \in 0 .. n - 1 : h[k] = IF k < j THEN g[k] ELSE g[k + 1] - parts[j]}
<1>8. j \in 1 .. n
  BY DEF n
<1>9. 0 \in T
  <2>1. 0 < j
    BY <1>8
  <2>. QED BY <1>1, <1>6, <1>7, <2>1
<1>10. ASSUME NEW k \in 1 .. n - 1, k - 1 \in T PROVE k \in T
  <2>1. /\ h[k] = h[k - 1] + less[k]
        /\ h[k - 1] = IF k - 1 < j THEN g[k - 1] ELSE g[k] - parts[j]
        /\ g[k] = g[k - 1] + parts[k]
        /\ g[k + 1] = g[k] + parts[k + 1]
        /\ k \in 1 .. n /\ k + 1 \in 1 .. n /\ k \in 0 .. n - 1
    <3>1. k \in 1 .. n /\ k + 1 \in 1 .. n /\ k \in 0 .. n - 1 /\ (k - 1) + 1 = k /\ (k + 1) - 1 = k
      BY <1>1
    <3>. QED BY <1>6, <1>7, <1>10, <3>1
  <2>2. g[k - 1] \in Int /\ g[k] \in Int /\ g[k + 1] \in Int /\ parts[k] \in Int /\ parts[k + 1] \in Int
        /\ parts[j] \in Int
    BY <1>1, <1>6, <1>8, <2>1
  <2>3. CASE k < j
    BY <1>2, <1>8, <2>1, <2>2, <2>3
  <2>4. CASE k = j
    <3>1. less[k] = parts[k + 1] /\ h[k - 1] = g[k - 1] /\ parts[j] = parts[k]
      BY <1>1, <1>2, <2>1, <2>4
    <3>2. h[k] = g[k - 1] + parts[k + 1]
      BY <2>1, <3>1
    <3>3. g[k + 1] - parts[j] = g[k - 1] + parts[k + 1]
      <4>1. \A a, b, c \in Int : ((a + b) + c) - b = a + c
        OBVIOUS
      <4>2. g[k + 1] = (g[k - 1] + parts[k]) + parts[k + 1]
        BY <2>1
      <4>. QED BY <2>2, <3>1, <4>1, <4>2, SMTT(30)
    <3>4. ~(k < j) /\ h[k] = g[k + 1] - parts[j]
      BY <1>1, <2>4, <3>2, <3>3
    <3>. QED BY <2>1, <3>4
  <2>5. CASE k > j
    <3>1. less[k] = parts[k + 1] /\ h[k - 1] = g[k] - parts[j] /\ ~(k < j) /\ ~(k - 1 < j)
      BY <1>2, <1>8, <2>1, <2>5
    <3>2. h[k] = (g[k] - parts[j]) + parts[k + 1]
      BY <2>1, <3>1
    <3>3. (g[k] - parts[j]) + parts[k + 1] = (g[k] + parts[k + 1]) - parts[j]
      BY <2>2
    <3>4. h[k] = g[k + 1] - parts[j]
      BY <2>1, <3>2, <3>3
    <3>. QED BY <2>1, <3>1, <3>4
  <2>. QED BY <1>1, <1>8, <2>3, <2>4, <2>5
<1>11. \A k \in 0 .. n - 1 : k \in T
  <2>. HIDE DEF T
  <2>. QED BY <1>1, <1>9, <1>10, IntervalInduction, Zenon
<1>12. h[n - 1] = IF n - 1 < j THEN g[n - 1] ELSE g[n] - parts[j]
  <2>1. n - 1 \in T /\ (n - 1) + 1 = n
    BY <1>1, <1>11
  <2>. QED BY <2>1
<1>13. g[n] = h[n - 1] + parts[j]
  <2>1. g[n] = g[n - 1] + parts[n] /\ g[n - 1] \in Int /\ g[n] \in Int /\ parts[n] \in Int /\ parts[j] \in Int
    BY <1>1, <1>6, <1>8
  <2>2. CASE n - 1 < j
    <3>1. j = n
      BY <1>1, <1>8, <2>2
    <3>. QED BY <1>12, <2>1, <2>2, <3>1
  <2>3. CASE ~(n - 1 < j)
    BY <1>12, <2>1, <2>3
  <2>. QED BY <2>2, <2>3
<1>. QED BY <1>3, <1>4, <1>5, <1>13 DEF less

\* A sum does not depend on the order of its parts.
LEMMA TotalReordered ==
  ASSUME NEW n \in Nat, NEW parts \in [1 .. n -> Int], NEW order \in Injection(1 .. n, 1 .. n)
  PROVE  Total([k \in 1 .. n |-> parts[order[k]]]) = Total(parts)
<1>. DEFINE Holds(m) == \A w \in [1 .. m -> Int], o \in Injection(1 .. m, 1 .. m) :
                           Total([k \in 1 .. m |-> w[o[k]]]) = Total(w)
            T == {m \in 0 .. n : Holds(m)}
<1>1. 0 \in T
  <2>1. ASSUME NEW w \in [1 .. 0 -> Int], NEW o \in Injection(1 .. 0, 1 .. 0)
        PROVE  Total([k \in 1 .. 0 |-> w[o[k]]]) = Total(w)
    <3>1. [k \in 1 .. 0 |-> w[o[k]]] = w
      OBVIOUS
    <3>. QED BY <3>1
  <2>. QED BY <2>1
<1>2. ASSUME NEW m \in 1 .. n, m - 1 \in T PROVE m \in T
  <2>1. Holds(m - 1)
    BY <1>2
  <2>2. ASSUME NEW w \in [1 .. m -> Int], NEW o \in Injection(1 .. m, 1 .. m)
        PROVE  Total([k \in 1 .. m |-> w[o[k]]]) = Total(w)
    <3>. DEFINE x == [k \in 1 .. m |-> w[o[k]]]
    <3>1. m \in Nat /\ m - 1 \in Nat /\ m \in 1 .. m
      OBVIOUS
    <3>2. o \in [1 .. m -> 1 .. m] /\ \A a, b \in 1 .. m : o[a] = o[b] => a = b
      BY DEF Injection, IsInjective
    <3>3. PICK j \in 1 .. m : o[j] = m
      <4>1. o \in Surjection(1 .. m, 1 .. m)
        BY <3>1, FS_Interval, FS_Injection
      <4>. QED BY <3>1, <4>1 DEF Surjection
    <3>. DEFINE At(k) == IF k < j THEN k ELSE k + 1
                p == [k \in 1 .. m - 1 |-> o[At(k)]]
                v == [k \in 1 .. m - 1 |-> w[k]]
    <3>4. /\ \A k \in 1 .. m - 1 : At(k) \in 1 .. m /\ At(k) # j
          /\ \A a, b \in 1 .. m - 1 : At(a) = At(b) => a = b
      BY <3>1
    <3>. HIDE DEF At
    <3>5. \A k \in 1 .. m - 1 : p[k] = o[At(k)] /\ p[k] \in 1 .. m - 1
      <4>. TAKE k \in 1 .. m - 1
      <4>1. p[k] = o[At(k)] /\ o[At(k)] \in 1 .. m /\ o[At(k)] # m
        BY <3>2, <3>3, <3>4
      <4>. QED BY <4>1
    <3>6. \A a, b \in 1 .. m - 1 : p[a] = p[b] => a = b
      BY <3>2, <3>4, <3>5
    <3>7. p \in Injection(1 .. m - 1, 1 .. m - 1)
      <4>1. p \in [1 .. m - 1 -> 1 .. m - 1]
        BY <3>5
      <4>. HIDE DEF p
      <4>. QED BY <3>6, <4>1 DEF Injection, IsInjective
    <3>8. v \in [1 .. m - 1 -> Int]
      BY <3>1
    <3>9. Total([k \in 1 .. m - 1 |-> v[p[k]]]) = Total(v)
      BY <2>1, <3>7, <3>8
    <3>10. x \in [1 .. m -> Int] /\ x \in Seq(Int) /\ Len(x) = m
      <4>1. x \in [1 .. m -> Int]
        BY <3>2
      <4>. HIDE DEF x
      <4>. QED BY <3>1, <4>1, NumberedSeq
    <3>11. w \in Seq(Int) /\ Len(w) = m
      BY <3>1
    <3>12. Without(x, j) = [k \in 1 .. m - 1 |-> v[p[k]]]
      <4>1. ASSUME NEW k \in 1 .. m - 1 PROVE (IF k < j THEN x[k] ELSE x[k + 1]) = v[p[k]]
        <5>1. (IF k < j THEN x[k] ELSE x[k + 1]) = x[At(k)]
          BY DEF At
        <5>2. x[At(k)] = w[o[At(k)]] /\ v[p[k]] = w[p[k]] /\ p[k] = o[At(k)]
          BY <3>4, <3>5
        <5>. QED BY <5>1, <5>2
      <4>. HIDE DEF x, v, p
      <4>. QED BY <3>10, <4>1 DEF Without
    <3>13. Without(w, m) = v
      BY <3>1, <3>11 DEF Without
    <3>14. Total(x) = Total(Without(x, j)) + x[j] /\ Total(w) = Total(Without(w, m)) + w[m]
      <4>. HIDE DEF x
      <4>. QED BY <3>1, <3>10, <3>11, TotalWithout
    <3>15. x[j] = w[m]
      BY <3>3
    <3>. HIDE DEF x, v, p
    <3>16. Total(x) = Total(w)
      BY <3>9, <3>12, <3>13, <3>14, <3>15
    <3>. QED BY <3>16 DEF x
  <2>3. Holds(m)
    BY <2>2
  <2>4. m \in 0 .. n
    OBVIOUS
  <2>. HIDE DEF Holds
  <2>. QED BY <2>3, <2>4
<1>3. \A m \in 0 .. n : m \in T
  <2>. HIDE DEF T
  <2>. QED BY <1>1, <1>2, IntervalInduction
<1>4. Holds(n)
  <2>1. n \in T
    BY <1>3
  <2>. HIDE DEF Holds
  <2>. QED BY <2>1
<1>. QED BY <1>4

-----------------------------------------------------------------------------
(* A signal is settled. *)

\* Sorting the targets leaves what they close together as it was.
LEMMA ClosesSorted ==
  ASSUME NEW p, TypedPayload(p), ~Refused(p)
  PROVE  LET sorted == SortedTargets(p)
         IN Total([k \in DOMAIN sorted |-> sorted[k].close_pct]) <= 100
<1>. DEFINE targets == Targets(p)
            n == Len(targets)
            sorted == SortedTargets(p)
            closes == [k \in DOMAIN targets |-> targets[k].close_pct]
<1>1. targets \in Seq(Target)
  BY TargetsTyped
<1>2. n \in Nat /\ DOMAIN targets = 1 .. n /\ \A k \in 1 .. n : targets[k] \in Target
  BY <1>1
<1>3. ~(Total(closes) > 100)
  BY DEF Refused
<1>4. PICK order \in Injection(1 .. n, 1 .. n) : sorted = [m \in 1 .. n |-> targets[order[m]]]
  BY <1>1, TargetsOrdered
<1>5. \A m \in 1 .. n : order[m] \in 1 .. n
  BY DEF Injection
<1>. HIDE DEF targets, n, sorted
<1>6. closes \in [1 .. n -> Int] /\ \A k \in 1 .. n : closes[k] = targets[k].close_pct
  <2>1. \A t \in Target : t.close_pct \in Int
    BY TargetOf
  <2>. QED BY <1>2, <2>1
<1>7. [k \in DOMAIN sorted |-> sorted[k].close_pct] = [k \in 1 .. n |-> closes[order[k]]]
  BY <1>4, <1>5, <1>6
<1>8. Total([k \in 1 .. n |-> closes[order[k]]]) = Total(closes)
  <2>. HIDE DEF closes
  <2>. QED BY <1>2, <1>6, TotalReordered
<1>9. Total(closes) \in Int
  <2>. HIDE DEF closes
  <2>1. closes \in Seq(Int)
    BY <1>2, <1>6, NumberedSeq
  <2>2. PICK g : Sums(closes, g) /\ Total(closes) = g[Len(closes)]
    BY <2>1, TotalIsSum
  <2>. QED BY <2>1, <2>2 DEF Sums
<1>10. Total(closes) <= 100
  <2>. HIDE DEF closes
  <2>1. ~(Total(closes) > 100)
    BY <1>3 DEF closes, targets
  <2>. QED BY <1>9, <2>1
<1>. HIDE DEF closes
<1>. QED BY <1>7, <1>8, <1>10 DEF sorted

\* And a settled one.
LEMMA NormalizeSettled ==
  ASSUME NEW p, TypedPayload(p), ~Refused(p)
  PROVE  Settled(Normalize(p))
<1>. DEFINE s == Normalize(p)
            sorted == SortedTargets(p)
            Key(t) == SortKey(Side(p), "price" \in DOMAIN p.top, t)
            n == Len(sorted)
<1>1. Targets(p) \in Seq(Target)
  BY TargetsTyped
<1>2. sorted \in Seq(Target) /\ n = Len(Targets(p)) /\ DOMAIN sorted = 1 .. n
  BY <1>1, TargetsSorted
<1>3. \A j, k \in 1 .. n : j < k => Key(sorted[j]) <= Key(sorted[k])
  BY <1>1, <1>2, TargetsOrdered
<1>4. Total([k \in DOMAIN sorted |-> sorted[k].close_pct]) <= 100
  BY ClosesSorted
<1>5. p.top.exchange \notin PaperNames
  BY DEF Refused
<1>6. /\ \A f \in DOMAIN FirstPart(p) : f = "take_profit_pct"
      /\ sorted # <<>> /\ "pct" \in DOMAIN sorted[1] => "take_profit_pct" \in DOMAIN Given(p) \union DOMAIN FirstPart(p)
  BY <1>2, FirstFields
<1>. HIDE DEF s
<1>7. /\ s = [f \in DOMAIN s |-> s[f]]
      /\ DOMAIN s = DOMAIN NamedPart(p) \union DOMAIN TermsPart(p) \union DOMAIN AmountsPart(p)
                    \union DOMAIN ExitsPart(p) \union DOMAIN FirstPart(p) \union DOMAIN DefaultsPart
      /\ \A f \in DOMAIN NamedPart(p) : s[f] = NamedPart(p)[f]
  BY NormalForm DEF s
<1>0. /\ DOMAIN NamedPart(p) = {"side", "reduce_only", "exchange", "symbol", "take_profit_targets", "raw"}
      /\ DOMAIN DefaultsPart = {"trailing_stop_close_pct", "leverage", "max_slippage_bps", "market_type"}
      /\ DOMAIN TermsPart(p) \subseteq {"market_type", "max_slippage_bps"}
      /\ DOMAIN AmountsPart(p) = DOMAIN p.top \cap TopAmounts
      /\ DOMAIN ExitsPart(p) = DOMAIN Given(p) \cap (ExitAmounts \union Flags)
      /\ NamedPart(p).take_profit_targets = SortedTargets(p)
  BY PartFields
<1>8. NamedPart(p).side = Side(p) /\ NamedPart(p).exchange = p.top.exchange
  BY DEF NamedPart
<1>9. s.side = Side(p) /\ s.exchange = p.top.exchange /\ s.take_profit_targets = sorted
  BY <1>0, <1>7, <1>8
<1>10. DOMAIN s \subseteq SignalFields \union TopAmounts \union ExitAmounts \union Flags
  <2>1. "take_profit_pct" \in ExitAmounts
    BY DEF ExitAmounts
  <2>. QED BY <1>0, <1>6, <1>7, <2>1 DEF SignalFields
<1>11. "price" \in DOMAIN s <=> "price" \in DOMAIN p.top
  <2>1. /\ "price" \in TopAmounts
        /\ "price" \notin ExitAmounts \union Flags
        /\ "price" \notin {"market_type", "max_slippage_bps"}
    BY DEF TopAmounts, ExitAmounts, Flags
  <2>2. "price" \notin DOMAIN NamedPart(p) \union DOMAIN DefaultsPart \union DOMAIN TermsPart(p)
    BY <1>0
  <2>3. "price" \notin DOMAIN ExitsPart(p) \union DOMAIN FirstPart(p)
    BY <1>0, <1>6, <2>1
  <2>4. "price" \in DOMAIN AmountsPart(p) <=> "price" \in DOMAIN p.top
    BY <1>0, <2>1
  <2>. QED BY <1>7, <2>2, <2>3, <2>4
<1>12. sorted # <<>> /\ "pct" \in DOMAIN sorted[1] => "take_profit_pct" \in DOMAIN s
  <2>1. "take_profit_pct" \in ExitAmounts
    BY DEF ExitAmounts
  <2>. HIDE DEF sorted
  <2>. QED BY <1>0, <1>6, <1>7, <2>1
<1>13. \A j, k \in DOMAIN sorted : j < k =>
          SortKey(s.side, "price" \in DOMAIN s, sorted[j]) <= SortKey(s.side, "price" \in DOMAIN s, sorted[k])
  <2>1. ("price" \in DOMAIN s) = ("price" \in DOMAIN p.top)
    BY <1>11
  <2>. QED BY <1>2, <1>3, <1>9, <2>1
<1>. HIDE DEF sorted, Key, n
<1>14. Settled(s)
  BY <1>4, <1>5, <1>7, <1>9, <1>10, <1>12, <1>13 DEF Settled
<1>. QED BY <1>14 DEF s

\* Whatever a route receives is well-formed and settled.
LEMMA ReceivedOK ==
  ASSUME NEW p, TypedPayload(p), Receive(p), TypeOK
  PROVE  TypeOK'
<1>1. SignalOK(Normalize(p)) /\ Settled(Normalize(p))
  BY NormalizeOK, NormalizeSettled DEF Receive
<1>. QED BY <1>1 DEF Receive, TypeOK

\* Every signal under way is well-formed and settled, whatever payloads, templates,
\* presets and texts came in (normalize_signal and all the routes).
THEOREM TypeCorrect == Spec => []TypeOK
<1>1. Init => TypeOK
  BY DEF Init, TypeOK
<1>2. TypeOK /\ [Next]_vars => TypeOK'
  <2>. SUFFICES ASSUME TypeOK, [Next]_vars PROVE TypeOK'
    OBVIOUS
  <2>1. CASE ReceiveSignal
    <3>1. PICK p \in Payloads : Receive(p)
      BY <2>1 DEF ReceiveSignal
    <3>. QED BY <3>1, SignalPlanAssumption, ReceivedOK
  <2>2. CASE ReceiveTemplate
    <3>1. PICK p \in Alerts, t \in DOMAIN BracketTemplates, o \in Overrides : Receive(WithTemplate(p, t, o))
      BY <2>2 DEF ReceiveTemplate
    <3>2. TypedPayload(WithTemplate(p, t, o))
      BY SignalPlanAssumption, TypedWithTemplate
    <3>. QED BY <3>1, <3>2, ReceivedOK
  <2>3. CASE ReceiveStrategy
    <3>1. PICK p \in Alerts, t \in DOMAIN StrategyPresets, o \in Overrides : Receive(WithStrategy(p, t, o))
      BY <2>3 DEF ReceiveStrategy
    <3>2. TypedPayload(WithStrategy(p, t, o))
      BY SignalPlanAssumption, TypedWithStrategy
    <3>. QED BY <3>1, <3>2, ReceivedOK
  <2>4. CASE ReceiveText
    <3>1. PICK t \in Texts : Receive(FromText(t))
      BY <2>4 DEF ReceiveText
    <3>2. TypedPayload(FromText(t))
      BY SignalPlanAssumption, TypedFromText
    <3>. QED BY <3>1, <3>2, ReceivedOK
  <2>5. CASE Answer
    BY <2>5 DEF Answer, TypeOK
  <2>6. CASE DeskMoves
    BY <2>6 DEF DeskMoves, TypeOK
  <2>7. CASE UNCHANGED vars
    BY <2>7 DEF vars, TypeOK
  <2>. QED BY <2>1, <2>2, <2>3, <2>4, <2>5, <2>6, <2>7 DEF Next
<1>. QED BY <1>1, <1>2, PTL DEF Spec

-----------------------------------------------------------------------------
(* The loss at the stop. *)

\* At a price of 100 rounding to the cent does nothing.
LEMMA ExactMoney ==
  ASSUME NEW s, Exact(s), NEW p \in Int
  PROVE  Money(s, p) = p
<1>1. s.price = 1
  BY DEF Exact, Field
<1>2. (2 * p + 1) \div 2 = p
  OBVIOUS
<1>. QED BY <1>1, <1>2 DEF Money

\* Division rounds down.
LEMMA DivisionFloors ==
  ASSUME NEW x \in Nat, NEW d \in Positive
  PROVE  (x \div d) \in Nat /\ (x \div d) * d <= x
<1>1. x \div d \in Nat /\ x = (d * (x \div d)) + (x % d) /\ x % d \in Nat
  BY DEF Positive
<1>. QED BY <1>1 DEF Positive

\* Stops and sizes are positive numbers.
LEMMA StopAmounts ==
  ASSUME NEW s, SignalOK(s)
  PROVE  /\ \A p \in Field(s, "stop_loss_price") \union Field(s, "stop_loss_pct") : p \in Positive
         /\ \A p \in Field(s, "quote_amount") \union Field(s, "base_amount") \union Field(s, "risk_amount")
                     \union Field(s, "risk_pct") : p \in Positive
BY DEF SignalOK, Field, Positive, TopAmounts, ExitAmounts, Sizes

\* StopPct
LEMMA StopDistance ==
  ASSUME NEW s, SignalOK(s), HasExits(s), GivenOnce(s), NEW t \in StopTrigger(s)
  PROVE  /\ Gain(s.side, t) < 0
         /\ -Gain(s.side, t) \in Positive
         /\ StopPct(s) = {-Gain(s.side, t)}
         /\ Opens(s)
<1>1. Exact(s) /\ Priced(s) /\ ~s.reduce_only /\ s.side \in {"buy", "sell"}
  BY DEF GivenOnce, HasExits, SignalOK
<1>2. t \in {Money(s, p) : p \in StopPrice(s)}
  BY DEF StopTrigger
<1>3. CASE "stop_loss_price" \in DOMAIN s
  <2>. DEFINE p == s.stop_loss_price
  <2>1. p \in Positive /\ Field(s, "stop_loss_price") = {p}
    BY <1>3, StopAmounts DEF Field
  <2>2. t = p
    BY <1>1, <1>2, <1>3, <2>1, ExactMoney DEF StopPrice, Positive
  <2>3. ~(Gain(s.side, p) >= 0)
    BY <1>1, <2>1 DEF SignalOK, WrongSide, Priced
  <2>4. Losing(s, Field(s, "stop_loss_price")) = {p}
    BY <1>1, <2>1, <2>3 DEF Losing, Gain, Entry, Positive
  <2>5. StopPct(s) = {IF p < Entry THEN Entry - p ELSE p - Entry}
    BY <1>1, <1>3, <2>4 DEF StopPct, GivenOnce, DistancesOf
  <2>. QED BY <1>1, <1>3, <2>1, <2>2, <2>3, <2>5 DEF Gain, Entry, Positive, Opens
<1>4. CASE "stop_loss_price" \notin DOMAIN s
  <2>1. "stop_loss_pct" \in DOMAIN s
    BY <1>2, <1>4 DEF StopPrice, Field
  <2>. DEFINE d == s.stop_loss_pct
  <2>2. d \in Positive /\ Field(s, "stop_loss_pct") = {d}
    BY <2>1, StopAmounts DEF Field
  <2>3. t = Below(s, d)
    BY <1>1, <1>2, <1>4, <2>2, ExactMoney DEF StopPrice, Positive, Below, Entry
  <2>4. StopPct(s) = {d}
    BY <1>1, <2>1, <2>2 DEF StopPct
  <2>. QED BY <1>1, <2>1, <2>2, <2>3, <2>4 DEF Gain, Below, Entry, Positive, Opens
<1>. QED BY <1>3, <1>4

\* A signal has one risk budget.
LEMMA BudgetIsOne ==
  ASSUME NEW s, SignalOK(s), account.equity \in Nat,
         NEW b \in RiskBudget(s, account), NEW c \in RiskBudget(s, account)
  PROVE  b \in Nat /\ b = c
<1>1. CASE "risk_amount" \in DOMAIN s
  BY <1>1, StopAmounts DEF RiskBudget, Field, Positive
<1>2. CASE "risk_amount" \notin DOMAIN s
  <2>1. PICK r \in Field(s, "risk_pct") : b = (account.equity * r) \div 10000
    BY <1>2 DEF RiskBudget
  <2>2. r \in Nat /\ Field(s, "risk_pct") = {r} /\ c = b
    BY <1>2, <2>1, StopAmounts DEF RiskBudget, Field, Positive
  <2>3. account.equity * r \in Nat
    BY <2>2
  <2>. QED BY <2>1, <2>2, <2>3
<1>. QED BY <1>1, <1>2

\* A risk beyond the cap is a reason to refuse (max_risk_amount_exceeded).
LEMMA CapReason ==
  ASSUME NEW s, Exceeds(NewTradeRisk(s, account), config.max_risk_amount * 10000)
  PROVE  EvaluateSignal(s, config, account) # {}
<1>1. "max_risk_amount_exceeded" \in LimitReasons(s, config, account)
  BY DEF LimitReasons
<1>. QED BY <1>1 DEF EvaluateSignal

\* With size and stop in one form each, what the order loses at its stop is the risk the
\* risk engine computed, and no more than the budget it was sized by.
LEMMA LossIsTheRisk ==
  ASSUME NEW s, SignalOK(s), HasExits(s), GivenOnce(s), account.equity \in Nat,
         NEW w \in Worth(s, account), NEW t \in StopTrigger(s)
  PROVE  /\ w \in Nat
         /\ w * (-Gain(s.side, t)) \in NewTradeRisk(s, account)
         /\ DOMAIN s \cap {"quote_amount", "base_amount"} = {} =>
              \A b \in RiskBudget(s, account) :
                 b \in Nat /\ w = (b * 10000) \div (-Gain(s.side, t))
<1>. DEFINE d == -Gain(s.side, t)
<1>1. d \in Positive /\ StopPct(s) = {d} /\ Opens(s)
  BY StopDistance
<1>. HIDE DEF d
<1>2. w \in Notional(s, account)
  BY DEF Worth, Notional, GivenOnce
<1>3. w * d \in NewTradeRisk(s, account)
  BY <1>1, <1>2 DEF NewTradeRisk
<1>4. CASE DOMAIN s \cap {"quote_amount", "base_amount"} = {}
  <2>1. PICK b \in RiskBudget(s, account) : w = (b * 10000) \div d
    BY <1>1, <1>2, <1>4 DEF Notional
  <2>2. \A c \in RiskBudget(s, account) : c = b /\ b \in Nat
    BY BudgetIsOne
  <2>3. b * 10000 \in Nat
    BY <2>2
  <2>4. w \in Nat
    BY <1>1, <2>1, <2>3, DivisionFloors
  <2>. QED BY <1>3, <2>1, <2>2, <2>4 DEF d
<1>5. CASE DOMAIN s \cap {"quote_amount", "base_amount"} # {}
  <2>1. w \in Field(s, "quote_amount") \union Field(s, "base_amount")
    BY <1>2, <1>5 DEF Notional
  <2>2. w \in Nat
    BY <2>1, StopAmounts DEF Positive
  <2>. QED BY <1>3, <1>5, <2>2 DEF d
<1>. QED BY <1>4, <1>5

\* An approved entry loses no more at its stop than the cap on a trade's risk and the
\* budget it was sized by (risk.evaluate_signal against execution.build_exit_orders).
THEOREM LossStaysWithinTheCap == Spec => []LossWithinCap
<1>1. TypeOK => LossWithinCap
  <2>. SUFFICES ASSUME TypeOK, Approved, HasExits(signal), GivenOnce(signal),
                       NEW loss \in LossAtStop(signal)
                PROVE  /\ config.max_risk_amount > 0 => loss <= config.max_risk_amount * 10000
                       /\ DOMAIN signal \cap {"quote_amount", "base_amount"} = {} =>
                            \A budget \in RiskBudget(signal, account) : loss <= budget * 10000
    BY DEF LossWithinCap
  <2>1. /\ SignalOK(signal) /\ EvaluateSignal(signal, config, account) = {}
        /\ account.equity \in Nat /\ config.max_risk_amount \in Nat
    BY SignalPlanAssumption DEF TypeOK, Approved, Accepted
  <2>2. PICK w \in Worth(signal, account), t \in StopTrigger(signal) : loss = w * (-Gain(signal.side, t))
    BY DEF LossAtStop
  <2>. DEFINE d == -Gain(signal.side, t)
  <2>3. d \in Positive
    BY <2>1, StopDistance
  <2>4. /\ w \in Nat /\ loss \in NewTradeRisk(signal, account)
        /\ DOMAIN signal \cap {"quote_amount", "base_amount"} = {} =>
             \A b \in RiskBudget(signal, account) : b \in Nat /\ w = (b * 10000) \div d
    BY <2>1, <2>2, LossIsTheRisk
  <2>5. loss = w * d
    BY <2>2
  <2>. HIDE DEF d
  <2>6. loss \in Nat
    BY <2>3, <2>4, <2>5 DEF Positive
  <2>7. ASSUME config.max_risk_amount > 0 PROVE loss <= config.max_risk_amount * 10000
    <3>1. ~Exceeds(NewTradeRisk(signal, account), config.max_risk_amount * 10000)
      BY <2>1, CapReason
    <3>. QED BY <2>1, <2>4, <2>6, <2>7, <3>1 DEF Exceeds
  <2>8. ASSUME DOMAIN signal \cap {"quote_amount", "base_amount"} = {},
               NEW budget \in RiskBudget(signal, account)
        PROVE  loss <= budget * 10000
    <3>1. budget * 10000 \in Nat /\ w = (budget * 10000) \div d
      BY <2>4, <2>8
    <3>. QED BY <2>3, <2>5, <3>1, DivisionFloors
  <2>. QED BY <2>7, <2>8
<1>. QED BY <1>1, TypeCorrect, PTL

-----------------------------------------------------------------------------
(* The exits, position by position. *)

\* The four parts of ExitOrders.
StopLeg(s) == SetToSeq({[kind |-> "stop_loss", trigger |-> t, close_pct |-> 100, status |-> "open"] :
                          t \in StopTrigger(s)})
\* The leg of one target.
TargetLeg(s, t) == [kind |-> "take_profit", trigger |-> TargetTrigger(s, t), close_pct |-> t.close_pct,
                    status |-> "open"]
\* The legs of all targets.
TargetLegs(s) == [k \in DOMAIN s.take_profit_targets |-> TargetLeg(s, s.take_profit_targets[k])]
\* The trailing stop, if there is one.
TrailLeg(s) ==
  IF Trails(s) THEN << Exit(s, "trailing_stop", TrailPrice(s), s.trailing_stop_close_pct, TrailStatus(s)) >>
  ELSE <<>>
\* The time stop, if there is one.
TimeLeg(s) == IF "max_hold_marks" \in DOMAIN s THEN << Exit(s, "time_exit", Entry, 100, "waiting") >> ELSE <<>>

\* The exits are these legs in this order (build_exit_orders).
LEMMA ExitParts ==
  ASSUME NEW s, HasExits(s)
  PROVE  ExitOrders(s) = StopLeg(s) \o TargetLegs(s) \o TrailLeg(s) \o TimeLeg(s)
BY DEF ExitOrders, StopLeg, TargetLegs, TargetLeg, TrailLeg, TimeLeg

\* A set of one or no element as a sequence.
LEMMA FewToSeq ==
  ASSUME NEW S, NEW x, S \subseteq {x}
  PROVE  /\ SetToSeq(S) \in Seq(S)
         /\ Len(SetToSeq(S)) = IF S = {} THEN 0 ELSE 1
         /\ S # {} => SetToSeq(S)[1] = x
<1>. DEFINE n == IF S = {} THEN 0 ELSE 1
            f == [k \in 1 .. n |-> x]
<1>1. Cardinality(S) = n
  <2>1. S = {} \/ S = {x}
    OBVIOUS
  <2>. QED BY <2>1, FS_EmptySet, FS_Singleton
<1>2. f \in [1 .. n -> S] /\ IsInjective(f)
  BY DEF IsInjective
<1>. HIDE DEF f
<1>3. SetToSeq(S) \in [1 .. n -> S]
  BY <1>1, <1>2 DEF SetToSeq
<1>. QED BY <1>3

\* There is at most one stop price.
LEMMA OnePrice ==
  ASSUME NEW s
  PROVE  \E t : StopTrigger(s) \subseteq {t}
<1>1. \E p : StopPrice(s) \subseteq {p}
  BY DEF StopPrice, Field
<1>2. PICK p : StopPrice(s) \subseteq {p}
  BY <1>1
<1>. QED BY <1>2 DEF StopTrigger

\* The stop leg is there when there is a stop price, and has it.
LEMMA StopLegIs ==
  ASSUME NEW s
  PROVE  /\ Len(StopLeg(s)) \in {0, 1}
         /\ StopLeg(s) \in Seq({[kind |-> "stop_loss", trigger |-> t, close_pct |-> 100, status |-> "open"] :
                                  t \in StopTrigger(s)})
         /\ (Len(StopLeg(s)) = 0 <=> StopTrigger(s) = {})
         /\ \A t \in StopTrigger(s) :
               StopTrigger(s) = {t} /\ StopLeg(s)[1] = [kind |-> "stop_loss", trigger |-> t,
                                                        close_pct |-> 100, status |-> "open"]
<1>1. PICK t : StopTrigger(s) \subseteq {t}
  BY OnePrice
<1>. DEFINE leg(u) == [kind |-> "stop_loss", trigger |-> u, close_pct |-> 100, status |-> "open"]
            S == {leg(u) : u \in StopTrigger(s)}
<1>2. S \subseteq {leg(t)} /\ (S = {} <=> StopTrigger(s) = {})
  BY <1>1
<1>3. StopLeg(s) = SetToSeq(S)
  BY DEF StopLeg
<1>. HIDE DEF S, leg
<1>4. /\ SetToSeq(S) \in Seq(S)
      /\ Len(SetToSeq(S)) = IF S = {} THEN 0 ELSE 1
      /\ S # {} => SetToSeq(S)[1] = leg(t)
  BY <1>2, FewToSeq
<1>5. \A u \in StopTrigger(s) : u = t /\ StopTrigger(s) = {u}
  BY <1>1
<1>6. Len(StopLeg(s)) \in {0, 1} /\ (Len(StopLeg(s)) = 0 <=> StopTrigger(s) = {})
  BY <1>2, <1>3, <1>4
<1>7. StopLeg(s) \in Seq({leg(u) : u \in StopTrigger(s)})
  BY <1>3, <1>4 DEF S
<1>8. \A u \in StopTrigger(s) : StopTrigger(s) = {u} /\ StopLeg(s)[1] = leg(u)
  BY <1>2, <1>3, <1>4, <1>5
<1>. QED BY <1>6, <1>7, <1>8 DEF leg

\* A sequence is one over any set its elements are in.
LEMMA SeqOver ==
  ASSUME NEW S, NEW T, NEW f \in Seq(S), ToSet(f) \subseteq T
  PROVE  f \in Seq(T)
BY DEF ToSet

\* A sequence of none or one.
LEMMA NoneOrOne ==
  ASSUME NEW f, f = <<>> \/ \E e : f = << e >>
  PROVE  /\ DOMAIN f = 1 .. Len(f) /\ Len(f) \in {0, 1}
         /\ f \in Seq(ToSet(f))
<1>1. CASE f = <<>>
  BY <1>1
<1>2. CASE \E e : f = << e >>
  <2>1. PICK e : f = << e >>
    BY <1>2
  <2>2. ToSet(<< e >>) = {e}
    BY DEF ToSet
  <2>. QED BY <2>1, <2>2
<1>. QED BY <1>1, <1>2

\* The exits, position by position.
LEMMA ExitsAt ==
  ASSUME NEW s, NEW T, s.take_profit_targets \in Seq(T), HasExits(s)
  PROVE  LET exits == ExitOrders(s)
             o == Len(StopLeg(s))
             m == Len(s.take_profit_targets)
         IN /\ Len(exits) = o + m + Len(TrailLeg(s)) + Len(TimeLeg(s))
            /\ DOMAIN exits = 1 .. Len(exits)
            /\ \A k \in 1 .. o : exits[k] = StopLeg(s)[k]
            /\ \A k \in 1 .. m : exits[o + k] = TargetLeg(s, s.take_profit_targets[k])
            /\ \A k \in 1 .. Len(TrailLeg(s)) : exits[o + m + k] = TrailLeg(s)[k]
            /\ \A k \in 1 .. Len(TimeLeg(s)) : exits[o + m + Len(TrailLeg(s)) + k] = TimeLeg(s)[k]
<1>. DEFINE a == StopLeg(s)
            b == TargetLegs(s)
            c == TrailLeg(s)
            d == TimeLeg(s)
            E == ToSet(a) \union ToSet(b) \union ToSet(c) \union ToSet(d)
            targets == s.take_profit_targets
<1>1. DOMAIN a = 1 .. Len(a) /\ Len(a) \in Nat
  BY StopLegIs
<1>2. targets \in Seq(T)
  OBVIOUS
<1>3. /\ DOMAIN b = 1 .. Len(targets) /\ Len(targets) \in Nat
      /\ \A k \in 1 .. Len(targets) : b[k] = TargetLeg(s, targets[k])
  BY <1>2 DEF TargetLegs
<1>4. DOMAIN c = 1 .. Len(c) /\ Len(c) \in {0, 1} /\ c \in Seq(ToSet(c))
  <2>1. c = <<>> \/ \E e : c = << e >>
    BY DEF TrailLeg
  <2>. QED BY <2>1, NoneOrOne
<1>5. DOMAIN d = 1 .. Len(d) /\ Len(d) \in {0, 1} /\ d \in Seq(ToSet(d))
  <2>1. d = <<>> \/ \E e : d = << e >>
    BY DEF TimeLeg
  <2>. QED BY <2>1, NoneOrOne
<1>6. a \in Seq(E)
  <2>1. a \in Seq({[kind |-> "stop_loss", trigger |-> t, close_pct |-> 100, status |-> "open"] :
                      t \in StopTrigger(s)})
    BY StopLegIs
  <2>. HIDE DEF a, b, c, d
  <2>. QED BY <2>1, SeqOver
<1>7. b \in Seq(E) /\ Len(b) = Len(targets)
  BY <1>3 DEF ToSet, TargetLegs
<1>8. c \in Seq(E)
  <2>. HIDE DEF a, b, c, d
  <2>. QED BY <1>4, SeqOver
<1>9. d \in Seq(E)
  <2>. HIDE DEF a, b, c, d
  <2>. QED BY <1>5, SeqOver
<1>10. ExitOrders(s) = a \o b \o c \o d
  BY ExitParts
<1>. HIDE DEF a, b, c, d, E, targets
<1>11. /\ a \o b \in Seq(E) /\ Len(a \o b) = Len(a) + Len(b)
       /\ \A k \in 1 .. Len(a) : (a \o b)[k] = a[k]
       /\ \A k \in 1 .. Len(b) : (a \o b)[Len(a) + k] = b[k]
  BY <1>6, <1>7
<1>. DEFINE ab == a \o b
<1>. HIDE DEF ab
<1>12. /\ ab \o c \in Seq(E) /\ Len(ab \o c) = Len(ab) + Len(c)
       /\ \A k \in 1 .. Len(ab) : (ab \o c)[k] = ab[k]
       /\ \A k \in 1 .. Len(c) : (ab \o c)[Len(ab) + k] = c[k]
  BY <1>8, <1>11 DEF ab
<1>. DEFINE abc == ab \o c
<1>. HIDE DEF abc
<1>13. /\ abc \o d \in Seq(E) /\ Len(abc \o d) = Len(abc) + Len(d)
       /\ \A k \in 1 .. Len(abc) : (abc \o d)[k] = abc[k]
       /\ \A k \in 1 .. Len(d) : (abc \o d)[Len(abc) + k] = d[k]
  BY <1>9, <1>12 DEF abc
<1>. DEFINE exits == ExitOrders(s)
<1>14. exits = abc \o d
  BY <1>10 DEF ab, abc
<1>. HIDE DEF exits
<1>15. Len(ab) = Len(a) + Len(targets) /\ Len(abc) = Len(ab) + Len(c)
  BY <1>7, <1>11, <1>12 DEF ab, abc
<1>16. Len(exits) = Len(abc) + Len(d) /\ DOMAIN exits = 1 .. Len(exits)
  BY <1>13, <1>14
<1>17. \A k \in 1 .. Len(a) : exits[k] = a[k]
  <2>. TAKE k \in 1 .. Len(a)
  <2>1. k \in 1 .. Len(ab) /\ k \in 1 .. Len(abc)
    BY <1>1, <1>3, <1>4, <1>15
  <2>. QED BY <2>1, <1>11, <1>12, <1>13, <1>14 DEF ab, abc
<1>18. \A k \in 1 .. Len(targets) : exits[Len(a) + k] = b[k]
  <2>. TAKE k \in 1 .. Len(targets)
  <2>1. Len(a) + k \in 1 .. Len(ab) /\ Len(a) + k \in 1 .. Len(abc) /\ k \in 1 .. Len(b)
    BY <1>1, <1>3, <1>4, <1>7, <1>15
  <2>. QED BY <2>1, <1>11, <1>12, <1>13, <1>14 DEF ab, abc
<1>19. \A k \in 1 .. Len(c) : exits[Len(a) + Len(targets) + k] = c[k]
  <2>. TAKE k \in 1 .. Len(c)
  <2>1. Len(ab) + k \in 1 .. Len(abc)
    BY <1>1, <1>3, <1>4, <1>15
  <2>. QED BY <2>1, <1>12, <1>13, <1>14, <1>15 DEF abc
<1>20. \A k \in 1 .. Len(d) : exits[Len(a) + Len(targets) + Len(c) + k] = d[k]
  BY <1>13, <1>14, <1>15
<1>. QED BY <1>3, <1>15, <1>16, <1>17, <1>18, <1>19, <1>20 DEF exits, a, targets, c, d

\* The stops among the exits are the stop of the signal.
LEMMA StopsOfTheExits ==
  ASSUME NEW s, SignalOK(s)
  PROVE  Triggers(ExitOrders(s), "stop_loss") = StopTrigger(s)
<1>1. CASE ~HasExits(s)
  <2>1. ExitOrders(s) = <<>> /\ StopTrigger(s) = {}
    BY <1>1 DEF ExitOrders, StopTrigger
  <2>. QED BY <2>1 DEF Triggers, OfKind
<1>2. CASE HasExits(s)
  <2>. DEFINE exits == ExitOrders(s)
              o == Len(StopLeg(s))
              m == Len(s.take_profit_targets)
              c == Len(TrailLeg(s))
              d == Len(TimeLeg(s))
  <2>1. /\ Len(exits) = o + m + c + d
        /\ DOMAIN exits = 1 .. Len(exits)
        /\ \A k \in 1 .. o : exits[k] = StopLeg(s)[k]
        /\ \A k \in 1 .. m : exits[o + k] = TargetLeg(s, s.take_profit_targets[k])
        /\ \A k \in 1 .. c : exits[o + m + k] = TrailLeg(s)[k]
        /\ \A k \in 1 .. d : exits[o + m + c + k] = TimeLeg(s)[k]
    <3>1. s.take_profit_targets \in Seq(Target)
      BY DEF SignalOK
    <3>. QED BY <1>2, <3>1, ExitsAt
  <2>2. o \in {0, 1} /\ m \in Nat
    <3>1. s.take_profit_targets \in Seq(Target)
      BY DEF SignalOK
    <3>2. m \in Nat
      BY <3>1
    <3>. QED BY <3>2, StopLegIs
  <2>3. c \in Nat /\ \A k \in 1 .. c : TrailLeg(s)[k].kind = "trailing_stop"
    BY DEF TrailLeg, Exit
  <2>4. d \in Nat /\ \A k \in 1 .. d : TimeLeg(s)[k].kind = "time_exit"
    BY DEF TimeLeg, Exit
  <2>5. \A t : TargetLeg(s, t).kind = "take_profit"
    BY DEF TargetLeg
  <2>. HIDE DEF exits, o, m, c, d
  <2>6. ASSUME NEW k \in DOMAIN exits, exits[k].kind = "stop_loss" PROVE k \in 1 .. o
    <3>1. \/ k \in 1 .. o
          \/ k - o \in 1 .. m
          \/ k - (o + m) \in 1 .. c
          \/ k - (o + m + c) \in 1 .. d
      BY <2>1, <2>2, <2>3, <2>4
    <3>2. k = o + (k - o) /\ k = o + m + (k - (o + m)) /\ k = o + m + c + (k - (o + m + c))
      BY <2>1, <2>2, <2>3, <2>4
    <3>3. k - o \in 1 .. m => exits[k].kind = "take_profit"
      BY <2>1, <2>5, <3>2
    <3>4. k - (o + m) \in 1 .. c => exits[k].kind = "trailing_stop"
      BY <2>1, <2>3, <3>2
    <3>5. k - (o + m + c) \in 1 .. d => exits[k].kind = "time_exit"
      BY <2>1, <2>4, <3>2
    <3>. QED BY <2>6, <3>1, <3>3, <3>4, <3>5
  <2>7. CASE StopTrigger(s) = {}
    <3>1. o = 0
      BY <2>7, StopLegIs DEF o
    <3>2. OfKind(exits, "stop_loss") = {}
      BY <2>6, <3>1 DEF OfKind
    <3>. QED BY <2>7, <3>2 DEF Triggers, exits
  <2>8. CASE StopTrigger(s) # {}
    <3>1. PICK t : t \in StopTrigger(s)
      BY <2>8
    <3>2. o = 1 /\ StopTrigger(s) = {t}
      BY <2>8, <3>1, <2>2, StopLegIs DEF o
    <3>3. 1 \in DOMAIN exits /\ exits[1].kind = "stop_loss" /\ exits[1].trigger = t
      <4>1. 1 \in 1 .. o /\ exits[1] = StopLeg(s)[1]
        BY <2>1, <3>2
      <4>2. Len(exits) >= 1 /\ DOMAIN exits = 1 .. Len(exits) /\ Len(exits) \in Nat
        BY <2>1, <2>2, <2>3, <2>4, <3>2
      <4>3. StopLeg(s)[1] = [kind |-> "stop_loss", trigger |-> t, close_pct |-> 100, status |-> "open"]
        BY <3>1, StopLegIs
      <4>. QED BY <4>1, <4>2, <4>3
    <3>4. OfKind(exits, "stop_loss") = {1}
      BY <2>6, <3>2, <3>3 DEF OfKind
    <3>5. Triggers(exits, "stop_loss") = {t}
      BY <3>3, <3>4 DEF Triggers
    <3>. QED BY <3>2, <3>5 DEF exits
  <2>. QED BY <2>7, <2>8
<1>. QED BY <1>1, <1>2

\* A signal the futures assessment passes has one stop, on its losing side.
LEMMA StopIsPlaced ==
  ASSUME NEW s, SignalOK(s), HasExits(s), Exact(s),
         DOMAIN s \cap {"stop_loss_pct", "stop_loss_price"} # {}
  PROVE  \E p \in StopPrice(s) : StopTrigger(s) = {p} /\ Gain(s.side, p) < 0
<1>1. Priced(s) /\ ~s.reduce_only /\ s.side \in {"buy", "sell"}
  BY DEF HasExits, SignalOK
<1>2. StopTrigger(s) = {Money(s, p) : p \in StopPrice(s)}
  BY DEF StopTrigger
<1>3. CASE "stop_loss_price" \in DOMAIN s
  <2>. DEFINE p == s.stop_loss_price
  <2>1. p \in Positive /\ Field(s, "stop_loss_price") = {p}
    BY <1>3, StopAmounts DEF Field
  <2>2. StopPrice(s) = {p} /\ StopTrigger(s) = {p}
    BY <1>2, <1>3, <2>1, ExactMoney DEF StopPrice, Positive
  <2>3. ~(Gain(s.side, p) >= 0)
    BY <1>1, <2>1 DEF SignalOK, WrongSide, Priced
  <2>. QED BY <1>1, <2>1, <2>2, <2>3 DEF Gain, Entry, Positive
<1>4. CASE "stop_loss_price" \notin DOMAIN s
  <2>. DEFINE d == s.stop_loss_pct
  <2>1. d \in Positive /\ Field(s, "stop_loss_pct") = {d}
    BY <1>4, StopAmounts DEF Field
  <2>2. Below(s, d) \in Int /\ Gain(s.side, Below(s, d)) < 0
    BY <1>1, <2>1 DEF Below, Gain, Entry, Positive
  <2>3. StopPrice(s) = {Below(s, d)} /\ StopTrigger(s) = {Below(s, d)}
    BY <1>2, <1>4, <2>1, <2>2, ExactMoney DEF StopPrice
  <2>. QED BY <2>2, <2>3
<1>. QED BY <1>3, <1>4

\* A safe Bitunix order outside a stressed market passed the futures assessment.
LEMMA SafeIsAssessed ==
  ASSUME NEW s, BitunixSafe(s, config, account), ~Stressed(s), ~s.reduce_only
  PROVE  /\ Priced(s)
         /\ DOMAIN s \cap {"stop_loss_pct", "stop_loss_price"} # {}
         /\ \A p \in StopPrice(s) : StopBeforeLiquidation(s, p)
<1>. DEFINE view == ControlView(s, account)
<1>1. ~ApprovalRequired(view)
  BY DEF Stressed, ApprovalRequired, ControlView
<1>2. RuntimeReasons(view, {}, {}) = {}
  BY <1>1 DEF BitunixSafe, RuntimeBlocked, LiveBlocked
<1>3. view.futures_ok /\ ~view.reduce_only
  BY <1>2 DEF RuntimeReasons, ControlView
<1>4. FuturesReasons(s, account) = {}
  BY <1>3 DEF ControlView
<1>5. Leveraged(s)
  BY DEF BitunixSafe, Leveraged
<1>6. Missing(s, account) = {} /\ Assessed(s) = {}
  BY <1>4, <1>5 DEF FuturesReasons
<1>7. Priced(s) /\ DOMAIN s \cap {"stop_loss_pct", "stop_loss_price"} # {}
  BY <1>6 DEF Missing
<1>8. ASSUME NEW p \in StopPrice(s), ~StopBeforeLiquidation(s, p) PROVE FALSE
  <2>1. "stop_loss_beyond_liquidation" \in Assessed(s)
    BY <1>8 DEF Assessed
  <2>. QED BY <1>6, <2>1
<1>. QED BY <1>7, <1>8

\* A Bitunix order that is called safe carries one stop on its losing side, short of
\* liquidation (risk, the runtime controls and live_execution together).
THEOREM LiveEntriesHaveAStop == Spec => []LiveEntriesAreProtected
<1>1. TypeOK => LiveEntriesAreProtected
  <2>. DEFINE order == BitunixOrder(signal)
  <2>. SUFFICES ASSUME TypeOK, Accepted, BitunixSafe(signal, config, account), ~Stressed(signal),
                       order.trade = "OPEN", Exact(signal)
                PROVE  \E stop \in order.stop : /\ order.stop = {stop} /\ Gain(order.side, stop) < 0
                                                /\ StopBeforeLiquidation(signal, stop)
    BY DEF LiveEntriesAreProtected
  <2>1. SignalOK(signal)
    BY DEF TypeOK, Accepted
  <2>2. ~signal.reduce_only
    BY DEF BitunixOrder
  <2>3. /\ order.side = signal.side
        /\ order.stop = StopTrigger(signal)
    BY <2>1, StopsOfTheExits DEF BitunixOrder
  <2>. HIDE DEF order
  <2>4. /\ Priced(signal)
        /\ DOMAIN signal \cap {"stop_loss_pct", "stop_loss_price"} # {}
        /\ \A p \in StopPrice(signal) : StopBeforeLiquidation(signal, p)
    BY <2>2, SafeIsAssessed
  <2>5. HasExits(signal)
    BY <2>1, <2>2, <2>4 DEF HasExits, HasExitPlan, SignalOK
  <2>6. PICK p \in StopPrice(signal) : StopTrigger(signal) = {p} /\ Gain(signal.side, p) < 0
    BY <2>1, <2>4, <2>5, StopIsPlaced
  <2>. QED BY <2>3, <2>4, <2>6
<1>. QED BY <1>1, TypeCorrect, PTL

-----------------------------------------------------------------------------
(* The figures of a preview. *)

\* A target shown in the preview brings what the risk engine counts for it.
LEMMA RewardOf ==
  ASSUME NEW s, SignalOK(s), Exact(s), NEW t \in Target, ~({"pct", "trigger_price"} \subseteq DOMAIN t)
  PROVE  TargetReward(s, TargetLeg(s, t)) = Reward(s, t) /\ Reward(s, t) \in Int
<1>1. s.side \in {"buy", "sell"}
  BY DEF SignalOK
<1>2. CASE "pct" \in DOMAIN t
  <2>1. t.pct \in Positive /\ t.close_pct \in 1 .. 100 /\ "trigger_price" \notin DOMAIN t
    BY <1>2 DEF Target
  <2>2. Above(s, t.pct) \in Int /\ Gain(s.side, Above(s, t.pct)) = t.pct
    BY <1>1, <2>1 DEF Above, Gain, Entry, Positive
  <2>3. TargetTrigger(s, t) = Above(s, t.pct)
    BY <2>1, <2>2, ExactMoney DEF TargetTrigger
  <2>4. TargetPct(s, t) = t.pct
    BY <1>2 DEF TargetPct
  <2>. QED BY <2>1, <2>2, <2>3, <2>4 DEF TargetReward, TargetLeg, Reward, Positive
<1>3. CASE "pct" \notin DOMAIN t
  <2>1. t.trigger_price \in Positive /\ t.close_pct \in 1 .. 100 /\ "trigger_price" \in DOMAIN t
    BY <1>3 DEF Target
  <2>2. TargetTrigger(s, t) = t.trigger_price
    BY <2>1, ExactMoney DEF TargetTrigger, Positive
  <2>3. TargetPct(s, t) = Gain(s.side, t.trigger_price) /\ Gain(s.side, t.trigger_price) \in Int
    BY <1>1, <1>3, <2>1 DEF TargetPct, Gain, Entry, Positive
  <2>. QED BY <2>1, <2>2, <2>3 DEF TargetReward, TargetLeg, Reward
<1>. QED BY <1>2, <1>3

\* So do all targets together: the other exits bring nothing.
LEMMA RewardsTotal ==
  ASSUME NEW s, SignalOK(s), Exact(s), HasExits(s),
         \A t \in ToSet(s.take_profit_targets) : ~({"pct", "trigger_price"} \subseteq DOMAIN t)
  PROVE  LET exits == ExitOrders(s)
         IN Total([k \in DOMAIN exits |->
                     IF exits[k].kind = "take_profit" THEN TargetReward(s, exits[k]) ELSE 0]) = TotalReward(s)
<1>. DEFINE exits == ExitOrders(s)
            targets == s.take_profit_targets
            o == Len(StopLeg(s))
            m == Len(targets)
            c == Len(TrailLeg(s))
            d == Len(TimeLeg(s))
            parts == [k \in DOMAIN targets |-> Reward(s, targets[k])]
            padded == [k \in DOMAIN exits |->
                         IF exits[k].kind = "take_profit" THEN TargetReward(s, exits[k]) ELSE 0]
<1>1. /\ Len(exits) = o + m + c + d
      /\ DOMAIN exits = 1 .. Len(exits)
      /\ \A k \in 1 .. o : exits[k] = StopLeg(s)[k]
      /\ \A k \in 1 .. m : exits[o + k] = TargetLeg(s, targets[k])
      /\ \A k \in 1 .. c : exits[o + m + k] = TrailLeg(s)[k]
      /\ \A k \in 1 .. d : exits[o + m + c + k] = TimeLeg(s)[k]
  <2>1. s.take_profit_targets \in Seq(Target)
    BY DEF SignalOK
  <2>. QED BY <2>1, ExitsAt
<1>2. targets \in Seq(Target)
  BY DEF SignalOK
<1>3. m \in Nat /\ DOMAIN targets = 1 .. m /\ \A k \in 1 .. m : targets[k] \in Target /\ targets[k] \in ToSet(targets)
  BY <1>2 DEF ToSet
<1>4. o \in Nat /\ \A k \in 1 .. o : StopLeg(s)[k].kind = "stop_loss"
  <2>1. /\ o \in {0, 1}
        /\ StopLeg(s) \in Seq({[kind |-> "stop_loss", trigger |-> t, close_pct |-> 100, status |-> "open"] :
                                 t \in StopTrigger(s)})
    BY StopLegIs
  <2>. HIDE DEF targets
  <2>. QED BY <2>1
<1>5. c \in Nat /\ \A k \in 1 .. c : TrailLeg(s)[k].kind = "trailing_stop"
  BY DEF TrailLeg, Exit
<1>6. d \in Nat /\ \A k \in 1 .. d : TimeLeg(s)[k].kind = "time_exit"
  BY DEF TimeLeg, Exit
<1>7. \A k \in 1 .. m : /\ TargetReward(s, TargetLeg(s, targets[k])) = Reward(s, targets[k])
                        /\ Reward(s, targets[k]) \in Int
  BY <1>3, RewardOf
<1>8. \A t : TargetLeg(s, t).kind = "take_profit"
  BY DEF TargetLeg
<1>9. TotalReward(s) = Total(parts)
  BY DEF TotalReward
<1>. HIDE DEF exits, targets, o, m, c, d
<1>10. Len(exits) \in Nat /\ o + m <= Len(exits)
  BY <1>1, <1>3, <1>4, <1>5, <1>6
<1>11. parts \in Seq(Int) /\ Len(parts) = m /\ \A k \in 1 .. m : parts[k] = Reward(s, targets[k])
  BY <1>3, <1>7
<1>12. \A k \in 1 .. m : o + k \in DOMAIN exits /\ padded[o + k] = parts[k]
  <2>. TAKE k \in 1 .. m
  <2>1. o + k \in DOMAIN exits
    BY <1>1, <1>3, <1>4, <1>10
  <2>. QED BY <1>1, <1>7, <1>8, <1>11, <2>1
<1>13. \A k \in 1 .. Len(exits) : k <= o \/ k > o + m => padded[k] = 0
  <2>. SUFFICES ASSUME NEW k \in 1 .. Len(exits), k <= o \/ k > o + m PROVE exits[k].kind # "take_profit"
    BY <1>1
  <2>1. \/ k \in 1 .. o
        \/ k - (o + m) \in 1 .. c
        \/ k - (o + m + c) \in 1 .. d
    BY <1>1, <1>3, <1>4, <1>5, <1>6
  <2>2. k = o + m + (k - (o + m)) /\ k = o + m + c + (k - (o + m + c))
    BY <1>3, <1>4, <1>5
  <2>3. k - (o + m) \in 1 .. c => exits[k].kind = "trailing_stop"
    BY <1>1, <1>5, <2>2
  <2>4. k - (o + m + c) \in 1 .. d => exits[k].kind = "time_exit"
    BY <1>1, <1>6, <2>2
  <2>. QED BY <1>1, <1>4, <2>1, <2>3, <2>4
<1>14. \A k \in 1 .. Len(exits) : padded[k] \in Int
  <2>. TAKE k \in 1 .. Len(exits)
  <2>1. k <= o \/ k > o + m \/ (k - o \in 1 .. m /\ k = o + (k - o))
    BY <1>3, <1>4
  <2>2. k - o \in 1 .. m /\ k = o + (k - o) => padded[k] = parts[k - o] /\ parts[k - o] \in Int
    BY <1>7, <1>11, <1>12
  <2>3. k <= o \/ k > o + m => padded[k] = 0
    BY <1>13
  <2>. HIDE DEF padded, parts
  <2>. QED BY <2>1, <2>2, <2>3
<1>15. padded \in Seq(Int) /\ Len(padded) = Len(exits)
  BY <1>1, <1>10, <1>14
<1>. HIDE DEF parts, padded
<1>16. Total(padded) = Total(parts)
  BY <1>4, <1>10, <1>11, <1>12, <1>13, <1>15, TotalPadded
<1>. QED BY <1>9, <1>16 DEF padded, exits

\* The loss shown in the preview is the risk the verdict rests on.
LEMMA LossShown ==
  ASSUME NEW s, SignalOK(s), HasExits(s), GivenOnce(s)
  PROVE  WorstCaseLoss(s, account) = NewTradeRisk(s, account)
<1>1. CASE StopTrigger(s) = {}
  <2>1. DOMAIN s \cap {"stop_loss_price", "stop_loss_pct"} = {}
    BY <1>1 DEF StopTrigger, StopPrice, Field
  <2>2. StopPct(s) = {}
    BY <2>1 DEF StopPct, DistancesOf, Losing, Field
  <2>. QED BY <1>1, <2>2 DEF WorstCaseLoss, NewTradeRisk
<1>2. CASE StopTrigger(s) # {}
  <2>1. PICK t : t \in StopTrigger(s)
    BY <1>2
  <2>2. StopTrigger(s) = {t}
    BY <2>1, OnePrice
  <2>. DEFINE d == -Gain(s.side, t)
  <2>3. d \in Positive /\ StopPct(s) = {d} /\ Opens(s)
    BY <2>1, StopDistance
  <2>4. Gain(s.side, t) < 0
    BY <2>1, StopDistance
  <2>5. WorstCaseLoss(s, account) = {n * d : n \in Notional(s, account)}
    BY <2>2, <2>4 DEF WorstCaseLoss
  <2>6. NewTradeRisk(s, account) = {n * d : n \in Notional(s, account)}
    BY <2>3 DEF NewTradeRisk
  <2>. QED BY <2>5, <2>6
<1>. QED BY <1>1, <1>2

\* The figures shown beside an approved signal are those the verdict rests on
\* (bracket_plan_to_dict against risk.evaluate_signal).
THEOREM PreviewsMatchVerdicts == Spec => []PreviewMatchesVerdict
<1>1. TypeOK => PreviewMatchesVerdict
  <2>. SUFFICES ASSUME TypeOK, Approved, HasExits(signal), GivenOnce(signal)
                PROVE  /\ WorstCaseLoss(signal, account) = NewTradeRisk(signal, account)
                       /\ (\A t \in ToSet(signal.take_profit_targets) :
                             ~({"pct", "trigger_price"} \subseteq DOMAIN t)) =>
                            TotalTargetReward(signal, account)
                            = {n * TotalReward(signal) : n \in Notional(signal, account)}
    BY DEF PreviewMatchesVerdict
  <2>1. SignalOK(signal) /\ Exact(signal)
    BY DEF TypeOK, Approved, Accepted, GivenOnce
  <2>2. ASSUME \A t \in ToSet(signal.take_profit_targets) : ~({"pct", "trigger_price"} \subseteq DOMAIN t)
        PROVE  TotalTargetReward(signal, account)
               = {n * TotalReward(signal) : n \in Notional(signal, account)}
    <3>. DEFINE exits == ExitOrders(signal)
                total == Total([k \in DOMAIN exits |->
                                  IF exits[k].kind = "take_profit" THEN TargetReward(signal, exits[k]) ELSE 0])
    <3>1. total = TotalReward(signal)
      BY <2>1, <2>2, RewardsTotal
    <3>2. TotalTargetReward(signal, account) = {n * total : n \in Notional(signal, account)}
      BY DEF TotalTargetReward
    <3>. HIDE DEF total
    <3>. QED BY <3>1, <3>2
  <2>. QED BY <2>1, <2>2, LossShown
<1>. QED BY <1>1, TypeCorrect, PTL

-----------------------------------------------------------------------------
(* Normalising twice. *)

\* Targets in the order of their keys stay where they are.
LEMMA SortedStays ==
  ASSUME NEW p, NEW targets \in Seq(Target), Targets(p) = targets,
         \A j, k \in DOMAIN targets : j < k => SortKey(Side(p), "price" \in DOMAIN p.top, targets[j])
                                               <= SortKey(Side(p), "price" \in DOMAIN p.top, targets[k])
  PROVE  SortedTargets(p) = targets
<1>. DEFINE n == Len(targets)
            Key(k) == SortKey(Side(p), "price" \in DOMAIN p.top, targets[k])
            Before(k) == {j \in DOMAIN targets : Key(j) < Key(k) \/ (Key(j) = Key(k) /\ j < k)}
            at(m) == CHOOSE k \in DOMAIN targets : Cardinality(Before(k)) = m - 1
<1>1. n \in Nat /\ DOMAIN targets = 1 .. n /\ targets = [m \in 1 .. n |-> targets[m]]
  OBVIOUS
<1>2. ASSUME NEW k \in 1 .. n PROVE Key(k) \in Int
  <2>1. targets[k] \in Target
    OBVIOUS
  <2>2. ("price" \in DOMAIN p.top) \in BOOLEAN
    OBVIOUS
  <2>. QED BY <2>1, <2>2, KeyIsNumber
<1>3. \A j, k \in 1 .. n : j < k => Key(j) <= Key(k)
  BY <1>1
<1>4. SortedTargets(p) = [m \in DOMAIN targets |-> targets[at(m)]]
  BY DEF SortedTargets
<1>. HIDE DEF Key, n
<1>5. ASSUME NEW k \in 1 .. n PROVE Before(k) = 1 .. k - 1
  <2>1. ASSUME NEW j \in 1 .. n PROVE Key(j) < Key(k) \/ (Key(j) = Key(k) /\ j < k) <=> j < k
    <3>1. Key(j) \in Int /\ Key(k) \in Int
      BY <1>2
    <3>2. CASE j < k
      BY <1>3, <3>1, <3>2
    <3>3. CASE j = k
      BY <3>1, <3>3
    <3>4. CASE k < j
      BY <1>3, <3>1, <3>4
    <3>. QED BY <1>1, <3>2, <3>3, <3>4
  <2>2. Before(k) = {j \in 1 .. n : j < k}
    BY <1>1, <2>1
  <2>. QED BY <1>1, <2>2
<1>6. ASSUME NEW k \in 1 .. n PROVE Cardinality(Before(k)) = k - 1
  <2>1. Cardinality(1 .. k - 1) = k - 1
    <3>1. 1 \in Int /\ k - 1 \in Int /\ k - 1 \in Nat
      BY <1>1
    <3>2. Cardinality(1 .. k - 1) = IF 1 > k - 1 THEN 0 ELSE (k - 1) - 1 + 1
      BY <3>1, FS_Interval
    <3>. QED BY <3>1, <3>2
  <2>. QED BY <1>5, <2>1
<1>. HIDE DEF Before
<1>7. ASSUME NEW m \in 1 .. n PROVE at(m) = m
  <2>1. \A k \in 1 .. n : Cardinality(Before(k)) = m - 1 <=> k = m
    BY <1>1, <1>6
  <2>. QED BY <1>1, <2>1
<1>. HIDE DEF at
<1>. QED BY <1>1, <1>4, <1>7

\* The close_pct the second normalisation would fill in is there.
LEMMA Padded ==
  ASSUME NEW r, r = [f \in DOMAIN r |-> r[f]], NEW d, DOMAIN d \subseteq DOMAIN r
  PROVE  r ++ d = r
BY DEF ++

\* What a parked signal is read back from.
LEMMA ParkedPayload ==
  ASSUME NEW s, SignalOK(s), Settled(s)
  PROVE  LET q == ToPayload(s)
         IN /\ DOMAIN q.top = DOMAIN s \ {"trailing_stop_close_pct", "raw"}
            /\ \A f \in DOMAIN q.top : q.top[f] = s[f]
            /\ Given(q) = q.top
            /\ Targets(q) = s.take_profit_targets
            /\ SortedTargets(q) = s.take_profit_targets
            /\ Side(q) = s.side /\ ReduceOnly(q) = s.reduce_only
<1>. DEFINE q == ToPayload(s)
            r == Only(s, DOMAIN s \ {"trailing_stop_close_pct", "raw"})
            targets == s.take_profit_targets
<1>1. q = [top |-> r, bracket |-> <<>>, legs |-> <<>>]
  BY DEF ToPayload, Flat
<1>2. /\ r = [f \in DOMAIN r |-> r[f]]
      /\ DOMAIN r = DOMAIN s \ {"trailing_stop_close_pct", "raw"}
      /\ \A f \in DOMAIN r : r[f] = s[f]
  BY DEF Only
<1>3. {"side", "reduce_only", "exchange", "symbol", "take_profit_targets"} \subseteq DOMAIN r
  BY <1>2 DEF SignalOK, SignalFields
<1>4. targets \in Seq(Target) /\ s.side \in {"buy", "sell"} /\ s.reduce_only \in BOOLEAN
  BY DEF SignalOK
<1>. HIDE DEF q, r
<1>5. q.top = r /\ q.bracket = <<>> /\ q.legs = <<>>
  BY <1>1
<1>6. DOMAIN <<>> = {}
  OBVIOUS
<1>7. Given(q) = r
  <2>1. r ++ <<>> = r
    BY <1>2, <1>6, Padded
  <2>. QED BY <1>5, <2>1 DEF Given
<1>8. RawTargets(q) = targets
  BY <1>2, <1>3, <1>7 DEF RawTargets
<1>9. Targets(q) = targets
  <2>1. \A k \in DOMAIN targets : targets[k] ++ [close_pct |-> 100] = targets[k]
    <3>1. \A k \in DOMAIN targets : targets[k] \in Target
      BY <1>4
    <3>2. DOMAIN [close_pct |-> 100] = {"close_pct"}
      OBVIOUS
    <3>. QED BY <3>1, <3>2, TargetOf, Padded
  <2>2. targets = [k \in DOMAIN targets |-> targets[k]]
    BY <1>4
  <2>. HIDE DEF targets
  <2>3. Targets(q) = [k \in DOMAIN targets |-> targets[k] ++ [close_pct |-> 100]]
    BY <1>8 DEF Targets
  <2>. QED BY <2>1, <2>2, <2>3
<1>10. Side(q) = s.side
  <2>1. q.top.side = s.side
    BY <1>2, <1>3, <1>5
  <2>. QED BY <1>4, <2>1 DEF Side, Buying, ClosingShort
<1>11. ReduceOnly(q) = s.reduce_only
  <2>1. q.top.side = s.side /\ "reduce_only" \in DOMAIN q.top /\ q.top.reduce_only = s.reduce_only
    BY <1>2, <1>3, <1>5
  <2>. QED BY <1>4, <2>1 DEF ReduceOnly, Flag, Field, ClosingLong, ClosingShort
<1>12. ("price" \in DOMAIN q.top) = ("price" \in DOMAIN s)
  BY <1>2, <1>5
<1>13. SortedTargets(q) = targets
  <2>1. \A j, k \in DOMAIN targets : j < k => SortKey(Side(q), "price" \in DOMAIN q.top, targets[j])
                                               <= SortKey(Side(q), "price" \in DOMAIN q.top, targets[k])
    BY <1>10, <1>12 DEF Settled
  <2>. HIDE DEF targets
  <2>. QED BY <1>4, <1>9, <2>1, SortedStays
<1>. QED BY <1>2, <1>5, <1>7, <1>9, <1>10, <1>11, <1>13 DEF q

\* Normalised again, a parked signal has every field it had, but for the raw payload.
LEMMA ParkedNormalizes ==
  ASSUME NEW s, SignalOK(s), Settled(s), s.trailing_stop_close_pct = 100
  PROVE  Normalize(ToPayload(s)) = [s EXCEPT !.raw = <<>>]
<1>. DEFINE q == ToPayload(s)
            n == Normalize(q)
<1>1. /\ DOMAIN q.top = DOMAIN s \ {"trailing_stop_close_pct", "raw"}
      /\ \A f \in DOMAIN q.top : q.top[f] = s[f]
      /\ Given(q) = q.top
      /\ SortedTargets(q) = s.take_profit_targets
      /\ Side(q) = s.side /\ ReduceOnly(q) = s.reduce_only
  BY ParkedPayload
<1>2. /\ SignalFields \subseteq DOMAIN s
      /\ DOMAIN s \subseteq SignalFields \union TopAmounts \union ExitAmounts \union Flags
      /\ s = [f \in DOMAIN s |-> s[f]]
      /\ s.take_profit_targets # <<>> /\ "pct" \in DOMAIN s.take_profit_targets[1] =>
           "take_profit_pct" \in DOMAIN s
      /\ s.take_profit_targets \in Seq(Target)
  BY DEF SignalOK, Settled
<1>. HIDE DEF q
<1>3. DOMAIN FirstPart(q) = {}
  <2>1. "take_profit_pct" \in DOMAIN s => "take_profit_pct" \in DOMAIN Given(q)
    BY <1>1
  <2>. DEFINE targets == s.take_profit_targets
  <2>2. targets # <<>> => Head(targets) = targets[1]
    BY <1>2
  <2>3. "take_profit_pct" \in DOMAIN Given(q) \/ DOMAIN FirstPct(targets) = {}
    <3>1. CASE targets = <<>>
      BY <3>1 DEF FirstPct
    <3>2. CASE targets # <<>> /\ "pct" \notin DOMAIN targets[1]
      BY <2>2, <3>2 DEF FirstPct
    <3>3. CASE targets # <<>> /\ "pct" \in DOMAIN targets[1]
      BY <1>2, <2>1, <3>3
    <3>. QED BY <3>1, <3>2, <3>3
  <2>. QED BY <1>1, <2>3 DEF FirstPart, TakeProfitPctGiven
<1>4. DOMAIN q.top \cap RawFields = {}
  <2>1. SignalFields \cap RawFields = {}
    BY DEF SignalFields, RawFields
  <2>2. (TopAmounts \union ExitAmounts \union Flags) \cap RawFields = {}
    BY DEF TopAmounts, Sizes, ExitAmounts, Flags, RawFields
  <2>. QED BY <1>1, <1>2, <2>1, <2>2
<1>5. Only(q.top, RawFields) = <<>>
  BY <1>4 DEF Only
<1>6. /\ DOMAIN NamedPart(q) = {"side", "reduce_only", "exchange", "symbol", "take_profit_targets", "raw"}
      /\ NamedPart(q).raw = <<>>
      /\ \A f \in DOMAIN NamedPart(q) \ {"raw"} : NamedPart(q)[f] = s[f]
  <2>1. "exchange" \in DOMAIN q.top /\ "symbol" \in DOMAIN q.top
    BY <1>1, <1>2 DEF SignalFields
  <2>. QED BY <1>1, <1>5, <2>1 DEF NamedPart
<1>7. /\ DOMAIN TermsPart(q) = {"market_type", "max_slippage_bps"}
      /\ DOMAIN AmountsPart(q) = DOMAIN q.top \cap TopAmounts
      /\ DOMAIN ExitsPart(q) = DOMAIN q.top \cap (ExitAmounts \union Flags)
      /\ \A f \in DOMAIN TermsPart(q) : TermsPart(q)[f] = s[f]
      /\ \A f \in DOMAIN AmountsPart(q) : AmountsPart(q)[f] = s[f]
      /\ \A f \in DOMAIN ExitsPart(q) : ExitsPart(q)[f] = s[f]
  <2>1. {"market_type", "max_slippage_bps"} \subseteq DOMAIN q.top
    BY <1>1, <1>2 DEF SignalFields
  <2>. QED BY <1>1, <2>1 DEF TermsPart, AmountsPart, ExitsPart, Only
<1>8. /\ n = [f \in DOMAIN n |-> n[f]]
      /\ DOMAIN n = DOMAIN NamedPart(q) \union DOMAIN TermsPart(q) \union DOMAIN AmountsPart(q)
                    \union DOMAIN ExitsPart(q) \union DOMAIN FirstPart(q) \union DOMAIN DefaultsPart
      /\ \A f \in DOMAIN NamedPart(q) : n[f] = NamedPart(q)[f]
      /\ \A f \in DOMAIN n :
            \/ (f \in DOMAIN NamedPart(q) /\ n[f] = NamedPart(q)[f])
            \/ (f \in DOMAIN TermsPart(q) /\ n[f] = TermsPart(q)[f])
            \/ (f \in DOMAIN AmountsPart(q) /\ n[f] = AmountsPart(q)[f])
            \/ (f \in DOMAIN ExitsPart(q) /\ n[f] = ExitsPart(q)[f])
            \/ (f \in DOMAIN FirstPart(q) /\ n[f] = FirstPart(q)[f])
            \/ /\ f \in DOMAIN DefaultsPart /\ n[f] = DefaultsPart[f]
               /\ f \notin DOMAIN TermsPart(q) \union DOMAIN AmountsPart(q) \union DOMAIN ExitsPart(q)
  BY NormalForm
<1>9. /\ DOMAIN DefaultsPart = {"trailing_stop_close_pct", "leverage", "max_slippage_bps", "market_type"}
      /\ DefaultsPart["trailing_stop_close_pct"] = 100
  BY DEF DefaultsPart
<1>. HIDE DEF n
<1>10. "leverage" \in DOMAIN AmountsPart(q)
  BY <1>1, <1>2, <1>7 DEF SignalFields, TopAmounts
<1>11. ASSUME NEW f \in DOMAIN n, f # "raw" PROVE n[f] = s[f]
  <2>1. CASE f \in DOMAIN NamedPart(q)
    BY <1>6, <1>8, <1>11, <2>1
  <2>2. CASE f \notin DOMAIN NamedPart(q) /\ f \in DOMAIN DefaultsPart
             /\ f \notin DOMAIN TermsPart(q) \union DOMAIN AmountsPart(q) \union DOMAIN ExitsPart(q)
    <3>1. f = "trailing_stop_close_pct"
      BY <1>7, <1>9, <1>10, <2>2
    <3>. QED BY <1>3, <1>8, <1>9, <2>2, <3>1
  <2>3. CASE n[f] # s[f]
    BY <1>3, <1>7, <1>8, <2>1, <2>2, <2>3
  <2>. QED BY <2>3
<1>12. n["raw"] = <<>>
  BY <1>6, <1>8
<1>13. DOMAIN n = DOMAIN s
  <2>1. DOMAIN n \subseteq DOMAIN s
    BY <1>1, <1>2, <1>3, <1>6, <1>7, <1>8, <1>9 DEF SignalFields
  <2>2. SignalFields \subseteq DOMAIN n
    BY <1>6, <1>7, <1>8, <1>9 DEF SignalFields
  <2>3. DOMAIN s \subseteq DOMAIN n
    BY <1>1, <1>2, <1>7, <1>8, <2>2 DEF SignalFields
  <2>. QED BY <2>1, <2>3
<1>14. n = [s EXCEPT !.raw = <<>>]
  BY <1>2, <1>8, <1>11, <1>12, <1>13
<1>. QED BY <1>14 DEF n, q

\* Nor is it refused.
LEMMA ParkedAccepted ==
  ASSUME NEW s, SignalOK(s), Settled(s), s.trailing_stop_close_pct = 100
  PROVE  ~Refused(ToPayload(s))
<1>. DEFINE q == ToPayload(s)
            targets == s.take_profit_targets
<1>1. /\ DOMAIN q.top = DOMAIN s \ {"trailing_stop_close_pct", "raw"}
      /\ \A f \in DOMAIN q.top : q.top[f] = s[f]
      /\ Given(q) = q.top
      /\ Targets(q) = targets
  BY ParkedPayload
<1>2. Normalize(q) = [s EXCEPT !.raw = <<>>]
  BY ParkedNormalizes
<1>. HIDE DEF q
<1>3. {"side", "symbol", "exchange"} \subseteq DOMAIN q.top
  BY <1>1 DEF SignalOK, SignalFields
<1>4. q.top.side \in Buying \union Selling
  BY <1>1, <1>3 DEF SignalOK, Buying, Selling
<1>5. DOMAIN q.top \cap Sizes # {}
  BY <1>1 DEF SignalOK, Sizes
<1>6. \A f \in DOMAIN q.top \cap (TopAmounts \union ExitAmounts) : q.top[f] \in Nat /\ ~(q.top[f] <= 0)
  BY <1>1 DEF SignalOK
<1>7. ASSUME NEW t \in ToSet(targets)
      PROVE  /\ DOMAIN t \cap {"pct", "trigger_price"} # {}
             /\ ~(t.close_pct > 100)
             /\ ~(\E f \in DOMAIN t : t[f] <= 0)
  <2>1. t \in Target
    BY DEF SignalOK, ToSet
  <2>2. \A f \in DOMAIN t : t[f] \in Nat /\ t[f] > 0
    BY <2>1, TargetOf DEF TargetFields, Positive
  <2>. QED BY <2>1, <2>2, TargetOf
<1>8. Total([k \in DOMAIN targets |-> targets[k].close_pct]) <= 100
  BY DEF Settled
<1>9. ~(Total([k \in DOMAIN targets |-> targets[k].close_pct]) > 100)
  <2>. DEFINE closes == [k \in DOMAIN targets |-> targets[k].close_pct]
  <2>1. targets \in Seq(Target)
    BY DEF SignalOK
  <2>2. closes \in Seq(Int)
    <3>1. \A k \in 1 .. Len(targets) : targets[k].close_pct \in Int
      BY <2>1, TargetOf
    <3>. HIDE DEF targets
    <3>. QED BY <2>1, <3>1
  <2>. HIDE DEF closes
  <2>3. PICK g : Sums(closes, g) /\ Total(closes) = g[Len(closes)]
    BY <2>2, TotalIsSum
  <2>4. Total(closes) \in Int
    BY <2>2, <2>3 DEF Sums
  <2>5. Total(closes) <= 100
    BY <1>8 DEF closes
  <2>6. ~(Total(closes) > 100)
    BY <2>4, <2>5
  <2>. QED BY <2>6 DEF closes
<1>10. q.top.exchange \notin PaperNames
  BY <1>1, <1>3 DEF Settled
<1>11. ~WrongSide(Normalize(q))
  <2>. DEFINE n == [s EXCEPT !.raw = <<>>]
  <2>1. DOMAIN n = DOMAIN s /\ \A f \in DOMAIN s \ {"raw"} : n[f] = s[f]
    OBVIOUS
  <2>2. {"side", "reduce_only", "take_profit_targets"} \subseteq DOMAIN s
    BY DEF SignalOK, SignalFields
  <2>. HIDE DEF n
  <2>3. n.side = s.side /\ n.reduce_only = s.reduce_only /\ n.take_profit_targets = s.take_profit_targets
    BY <2>1, <2>2
  <2>4. /\ Field(n, "stop_loss_price") = Field(s, "stop_loss_price")
        /\ Field(n, "trailing_stop_price") = Field(s, "trailing_stop_price")
        /\ Field(n, "trailing_activation_price") = Field(s, "trailing_activation_price")
        /\ "price" \in DOMAIN n <=> "price" \in DOMAIN s
    BY <2>1 DEF Field
  <2>5. ~WrongSide(s)
    BY DEF SignalOK
  <2>6. ~WrongSide(n)
    BY <2>3, <2>4, <2>5 DEF WrongSide
  <2>. QED BY <1>2, <2>6 DEF n
<1>12. \A b \in Field(q.top, "max_slippage_bps") : ~(b < 0)
  <2>1. s.max_slippage_bps \in Nat
    BY DEF SignalOK
  <2>. QED BY <1>1, <2>1 DEF Field
<1>13. ~Refused(q)
  BY <1>1, <1>3, <1>4, <1>5, <1>6, <1>7, <1>9, <1>10, <1>11, <1>12 DEF Refused
<1>. QED BY <1>13 DEF q

\* A signal written to the approval queue and normalised again is the same signal
\* (signal_to_dict, normalize_signal).
THEOREM ParkedSignalsKeep == Spec => []ParkedSignalIsTheSame
<1>1. TypeOK => ParkedSignalIsTheSame
  BY ParkedAccepted, ParkedNormalizes DEF TypeOK, Accepted, ParkedSignalIsTheSame
<1>. QED BY <1>1, TypeCorrect, PTL

-----------------------------------------------------------------------------
(* Long and short. *)

\* The exits given as prices.
ExitPrices == {"stop_loss_price", "take_profit_price", "trailing_stop_price", "trailing_activation_price"}

\* A set of prices on the other side of the entry.
Crossed(prices) == {Across(p) : p \in prices}

\* Crossing the entry and back loses nothing.
LEMMA CrossedSets ==
  ASSUME NEW P, NEW Q, P \subseteq Int, Q \subseteq Int
  PROVE  /\ Crossed(P) = Crossed(Q) <=> P = Q
         /\ Crossed(P) = {} <=> P = {}
         /\ Crossed(P \union Q) = Crossed(P) \union Crossed(Q)
<1>1. \A p \in Int : Across(p) \in Int /\ Across(Across(p)) = p
  BY DEF Across, Entry
<1>2. \A p \in P : Across(p) \in Crossed(P)
  BY DEF Crossed
<1>3. \A p \in Q : Across(p) \in Crossed(Q)
  BY DEF Crossed
<1>4. ASSUME Crossed(P) = Crossed(Q) PROVE P = Q
  <2>1. \A p \in P : \E q \in Q : Across(p) = Across(q)
    BY <1>2, <1>4 DEF Crossed
  <2>2. \A q \in Q : \E p \in P : Across(q) = Across(p)
    BY <1>3, <1>4 DEF Crossed
  <2>3. \A p, q \in Int : Across(p) = Across(q) => p = q
    BY <1>1
  <2>4. \A p \in P : p \in Q
    BY <2>1, <2>3
  <2>5. \A q \in Q : q \in P
    BY <2>2, <2>3
  <2>. QED BY <2>4, <2>5
<1>5. Crossed(P) = {} <=> P = {}
  BY DEF Crossed
<1>6. Crossed(P \union Q) = Crossed(P) \union Crossed(Q)
  BY DEF Crossed
<1>. QED BY <1>4, <1>5, <1>6

\* Field by field, the mirror of a signal.
LEMMA MirrorFields ==
  ASSUME NEW s, SignalOK(s)
  PROVE  LET m == Mirror(s)
         IN /\ DOMAIN m = DOMAIN s
            /\ m.side \in {"buy", "sell"} /\ m.side # s.side
            /\ \A f \in DOMAIN s \ (ExitPrices \union {"side", "take_profit_targets", "raw"}) : m[f] = s[f]
            /\ \A f \in DOMAIN s \cap ExitPrices : m[f] = Across(s[f])
            /\ m.take_profit_targets = [k \in DOMAIN s.take_profit_targets |-> MirrorTarget(s.take_profit_targets[k])]
            /\ m.raw = IF "funding_rate_bps" \in DOMAIN s.raw
                       THEN [s.raw EXCEPT !.funding_rate_bps = -@] ELSE s.raw
<1>. DEFINE m == Mirror(s)
<1>1. {"side", "take_profit_targets", "raw"} \subseteq DOMAIN s /\ s.side \in {"buy", "sell"}
  BY DEF SignalOK, SignalFields
<1>2. DOMAIN m = DOMAIN s
  BY DEF Mirror
<1>3. m.side = IF s.side = "buy" THEN "sell" ELSE "buy"
  BY <1>1 DEF Mirror
<1>4. \A f \in DOMAIN s \ (ExitPrices \union {"side", "take_profit_targets", "raw"}) : m[f] = s[f]
  BY DEF Mirror, ExitPrices
<1>5. \A f \in DOMAIN s \cap ExitPrices : m[f] = Across(s[f])
  BY DEF Mirror, ExitPrices
<1>6. m.take_profit_targets = [k \in DOMAIN s.take_profit_targets |-> MirrorTarget(s.take_profit_targets[k])]
  BY <1>1 DEF Mirror
<1>7. m.raw = IF "funding_rate_bps" \in DOMAIN s.raw THEN [s.raw EXCEPT !.funding_rate_bps = -@] ELSE s.raw
  BY <1>1 DEF Mirror
<1>. HIDE DEF m
<1>. QED BY <1>1, <1>2, <1>3, <1>4, <1>5, <1>6, <1>7 DEF m

\* What the reasons are computed from is the same on both sides, or crossed.
Mirrors(s, m) ==
  /\ DOMAIN m = DOMAIN s
  /\ s.side \in {"buy", "sell"} /\ m.side \in {"buy", "sell"} /\ m.side # s.side
  /\ m.reduce_only = s.reduce_only
  /\ m.trailing_stop_close_pct = s.trailing_stop_close_pct
  /\ m.symbol = s.symbol /\ m.exchange = s.exchange /\ m.leverage = s.leverage
  /\ m.market_type = s.market_type /\ m.max_slippage_bps = s.max_slippage_bps
  /\ \A f \in (TopAmounts \union ExitAmounts \union Flags) \ ExitPrices : Field(m, f) = Field(s, f)
  /\ \A f \in ExitPrices : Field(m, f) = Crossed(Field(s, f)) /\ Field(s, f) \subseteq Int

\* The mirror of a signal mirrors it field by field,
LEMMA MirrorMirrors ==
  ASSUME NEW s, SignalOK(s)
  PROVE  Mirrors(s, Mirror(s))
<1>. DEFINE m == Mirror(s)
<1>1. /\ DOMAIN m = DOMAIN s
      /\ m.side \in {"buy", "sell"} /\ m.side # s.side
      /\ \A f \in DOMAIN s \ (ExitPrices \union {"side", "take_profit_targets", "raw"}) : m[f] = s[f]
      /\ \A f \in DOMAIN s \cap ExitPrices : m[f] = Across(s[f])
  BY MirrorFields
<1>. HIDE DEF m
<1>2. {"reduce_only", "trailing_stop_close_pct", "symbol", "exchange", "leverage", "market_type",
       "max_slippage_bps"} \subseteq DOMAIN s \ (ExitPrices \union {"side", "take_profit_targets", "raw"})
  BY DEF SignalOK, SignalFields, ExitPrices
<1>3. /\ m.reduce_only = s.reduce_only
      /\ m.trailing_stop_close_pct = s.trailing_stop_close_pct
      /\ m.symbol = s.symbol /\ m.exchange = s.exchange /\ m.leverage = s.leverage
      /\ m.market_type = s.market_type /\ m.max_slippage_bps = s.max_slippage_bps
  BY <1>1, <1>2
<1>4. \A f \in (TopAmounts \union ExitAmounts \union Flags) : f \notin {"side", "take_profit_targets", "raw"}
  BY DEF TopAmounts, Sizes, ExitAmounts, Flags
<1>5. \A f \in (TopAmounts \union ExitAmounts \union Flags) \ ExitPrices : Field(m, f) = Field(s, f)
  BY <1>1, <1>4 DEF Field
<1>6. ASSUME NEW f \in ExitPrices PROVE Field(m, f) = Crossed(Field(s, f)) /\ Field(s, f) \subseteq Int
  <2>1. CASE f \in DOMAIN s
    <3>1. s[f] \in Int
      BY <2>1 DEF SignalOK, ExitPrices, ExitAmounts
    <3>2. Field(m, f) = {Across(s[f])} /\ Field(s, f) = {s[f]}
      BY <1>1, <2>1 DEF Field
    <3>. QED BY <3>1, <3>2 DEF Crossed
  <2>2. CASE f \notin DOMAIN s
    BY <1>1, <2>2 DEF Field, Crossed
  <2>. QED BY <2>1, <2>2
<1>7. s.side \in {"buy", "sell"}
  BY DEF SignalOK
<1>8. Mirrors(s, m)
  BY <1>1, <1>3, <1>5, <1>6, <1>7 DEF Mirrors
<1>. QED BY <1>8 DEF m

\* target by target,
LEMMA MirrorTargets ==
  ASSUME NEW s, SignalOK(s)
  PROVE  LET m == Mirror(s)
             targets == s.take_profit_targets
         IN /\ Len(m.take_profit_targets) = Len(targets)
            /\ DOMAIN m.take_profit_targets = 1 .. Len(targets) /\ DOMAIN targets = 1 .. Len(targets)
            /\ m.take_profit_targets \in Seq({MirrorTarget(t) : t \in Target})
            /\ m.take_profit_targets = <<>> <=> targets = <<>>
            /\ \A k \in 1 .. Len(targets) : m.take_profit_targets[k] = MirrorTarget(targets[k])
            /\ targets # <<>> => Head(m.take_profit_targets) = MirrorTarget(Head(targets))
            /\ \A k \in 1 .. Len(targets) : targets[k] \in Target
<1>. DEFINE targets == s.take_profit_targets
            mirrored == Mirror(s).take_profit_targets
            n == Len(targets)
<1>1. targets \in Seq(Target)
  BY DEF SignalOK
<1>2. mirrored = [k \in DOMAIN targets |-> MirrorTarget(targets[k])]
  BY MirrorFields
<1>. HIDE DEF targets, mirrored
<1>3. n \in Nat /\ DOMAIN targets = 1 .. n /\ \A k \in 1 .. n : targets[k] \in Target
  BY <1>1
<1>4. DOMAIN mirrored = 1 .. n /\ \A k \in 1 .. n : mirrored[k] = MirrorTarget(targets[k])
  BY <1>2, <1>3
<1>5. mirrored \in Seq({MirrorTarget(t) : t \in Target}) /\ Len(mirrored) = n
  BY <1>2, <1>3
<1>6. mirrored = <<>> <=> targets = <<>>
  BY <1>1, <1>5
<1>7. targets # <<>> => Head(mirrored) = MirrorTarget(Head(targets))
  <2>. SUFFICES ASSUME targets # <<>> PROVE Head(mirrored) = MirrorTarget(Head(targets))
    OBVIOUS
  <2>1. Head(targets) = targets[1] /\ 1 \in 1 .. n
    BY <1>1, <1>3
  <2>2. Head(mirrored) = mirrored[1]
    BY <1>5, <1>6
  <2>. QED BY <1>4, <2>1, <2>2
<1>. HIDE DEF n
<1>. QED BY <1>3, <1>4, <1>5, <1>6, <1>7 DEF targets, mirrored, n

\* and inside each target.
LEMMA MirrorTargetFields ==
  ASSUME NEW t \in Target
  PROVE  /\ DOMAIN MirrorTarget(t) = DOMAIN t
         /\ MirrorTarget(t).close_pct = t.close_pct
         /\ "pct" \in DOMAIN t => MirrorTarget(t).pct = t.pct /\ t.pct \in Int
         /\ "trigger_price" \in DOMAIN t => MirrorTarget(t).trigger_price = Across(t.trigger_price)
                                            /\ t.trigger_price \in Int
         /\ Field(MirrorTarget(t), "trigger_price") = Crossed(Field(t, "trigger_price"))
         /\ Field(t, "trigger_price") \subseteq Int
<1>1. /\ "close_pct" \in DOMAIN t
      /\ "pct" \in DOMAIN t => t.pct \in Int
      /\ "trigger_price" \in DOMAIN t => t.trigger_price \in Int
  BY TargetOf DEF Positive
<1>2. /\ DOMAIN MirrorTarget(t) = DOMAIN t
      /\ \A f \in DOMAIN t : MirrorTarget(t)[f] = IF f = "trigger_price" THEN Across(t[f]) ELSE t[f]
  BY DEF MirrorTarget
<1>3. Field(MirrorTarget(t), "trigger_price") = Crossed(Field(t, "trigger_price"))
  BY <1>2 DEF Field, Crossed
<1>. QED BY <1>1, <1>2, <1>3 DEF Field

\* What does not depend on the side.
LEMMA SameFields ==
  ASSUME NEW s, NEW m, Mirrors(s, m)
  PROVE  /\ Priced(m) <=> Priced(s)
         /\ Trails(m) <=> Trails(s)
         /\ \A f \in Flags : Flag(m, f) = Flag(s, f)
         /\ Activation(m) = Activation(s)
<1>1. \A f \in Flags : f \notin ExitPrices
  BY DEF Flags, ExitPrices
<1>. QED BY <1>1 DEF Mirrors, Priced, Trails, Flag, Activation

\* Gains and losses look alike from the other side.
LEMMA PricesCross ==
  ASSUME NEW s, NEW m, Mirrors(s, m), NEW P, P \subseteq Int
  PROVE  /\ \A p \in Int : Gain(m.side, Across(p)) = Gain(s.side, p)
         /\ Losing(m, Crossed(P)) = Crossed(Losing(s, P))
         /\ Winning(m, Crossed(P)) = Crossed(Winning(s, P))
         /\ DistancesOf(m, Crossed(P)) = DistancesOf(s, P)
         /\ Losing(s, P) \subseteq Int /\ Winning(s, P) \subseteq Int
<1>0. s.side \in {"buy", "sell"} /\ m.side \in {"buy", "sell"} /\ m.side # s.side
  BY DEF Mirrors
<1>1. \A p \in Int : Gain(m.side, Across(p)) = Gain(s.side, p)
  BY <1>0 DEF Gain, Across, Entry
<1>6. Priced(m) <=> Priced(s)
  BY SameFields DEF Priced
<1>2. Losing(m, Crossed(P)) = Crossed(Losing(s, P))
  BY <1>1, <1>6 DEF Losing, Crossed
<1>3. Winning(m, Crossed(P)) = Crossed(Winning(s, P))
  BY <1>1, <1>6 DEF Winning, Crossed
<1>4. DistancesOf(m, Crossed(P)) = DistancesOf(s, P)
  <2>. DEFINE D(p) == IF p < Entry THEN Entry - p ELSE p - Entry
  <2>1. \A p \in Int : D(Across(p)) = D(p)
    BY DEF Across, Entry
  <2>2. DistancesOf(m, Crossed(P)) = {D(q) : q \in Crossed(P)} /\ DistancesOf(s, P) = {D(p) : p \in P}
    BY DEF DistancesOf
  <2>. HIDE DEF D
  <2>3. {D(q) : q \in Crossed(P)} = {D(p) : p \in P}
    BY <2>1 DEF Crossed
  <2>. QED BY <2>2, <2>3
<1>5. Losing(s, P) \subseteq Int /\ Winning(s, P) \subseteq Int
  BY DEF Losing, Winning
<1>. QED BY <1>1, <1>2, <1>3, <1>4, <1>5

\* The stop is as far away (_stop_loss_pct).
LEMMA StopPctSame ==
  ASSUME NEW s, NEW m, Mirrors(s, m)
  PROVE  StopPct(m) = StopPct(s)
<1>. DEFINE P == Field(s, "stop_loss_price")
<1>1. Field(m, "stop_loss_price") = Crossed(P) /\ P \subseteq Int
  BY DEF Mirrors, ExitPrices
<1>2. Field(m, "stop_loss_pct") = Field(s, "stop_loss_pct")
  BY DEF Mirrors, ExitPrices, ExitAmounts
<1>. HIDE DEF P
<1>3. Losing(m, Crossed(P)) = Crossed(Losing(s, P)) /\ Losing(s, P) \subseteq Int
  BY <1>1, PricesCross, ZenonT(30)
<1>5. DistancesOf(m, Losing(m, Crossed(P))) = DistancesOf(s, Losing(s, P))
  BY <1>3, PricesCross
<1>4. "stop_loss_pct" \in DOMAIN m <=> "stop_loss_pct" \in DOMAIN s
  BY DEF Mirrors
<1>. QED BY <1>1, <1>2, <1>4, <1>5 DEF StopPct, Mirrors, P

\* So is the trail (_trailing_stop_pct).
LEMMA TrailingPctSame ==
  ASSUME NEW s, NEW m, Mirrors(s, m)
  PROVE  TrailingPct(m) = TrailingPct(s)
<1>. DEFINE P == Field(s, "trailing_stop_price")
<1>1. Field(m, "trailing_stop_price") = Crossed(P) /\ P \subseteq Int
  BY DEF Mirrors, ExitPrices
<1>2. /\ Field(m, "trailing_stop_pct") = Field(s, "trailing_stop_pct")
      /\ Field(m, "trailing_stop_amount") = Field(s, "trailing_stop_amount")
  BY DEF Mirrors, ExitPrices, ExitAmounts
<1>. HIDE DEF P
<1>3. Losing(m, Crossed(P)) = Crossed(Losing(s, P)) /\ Losing(s, P) \subseteq Int
  BY <1>1, PricesCross, ZenonT(30)
<1>4. DistancesOf(m, Losing(m, Crossed(P))) = DistancesOf(s, Losing(s, P))
  BY <1>3, PricesCross
<1>5. Losing(m, Crossed(P)) = {} <=> Losing(s, P) = {}
  BY <1>3, CrossedSets
<1>6. Priced(m) <=> Priced(s)
  BY SameFields
<1>7. DOMAIN m = DOMAIN s /\ m.reduce_only = s.reduce_only
  BY DEF Mirrors
<1>. QED BY <1>1, <1>2, <1>4, <1>5, <1>6, <1>7 DEF TrailingPct, P

\* So the order is worth as much (_notional, _risk_amount_budget).
LEMMA NotionalSame ==
  ASSUME NEW s, NEW m, Mirrors(s, m), NEW a
  PROVE  Notional(m, a) = Notional(s, a) /\ RiskBudget(m, a) = RiskBudget(s, a)
<1>1. \A f \in Sizes : Field(m, f) = Field(s, f)
  BY DEF Mirrors, ExitPrices, TopAmounts, Sizes
<1>2. DOMAIN m = DOMAIN s
  BY DEF Mirrors
<1>3. RiskBudget(m, a) = RiskBudget(s, a)
  <2>1. Field(m, "risk_amount") = Field(s, "risk_amount")
    BY <1>1 DEF Sizes
  <2>2. Field(m, "risk_pct") = Field(s, "risk_pct")
    BY <1>1 DEF Sizes
  <2>3. "risk_amount" \in DOMAIN m <=> "risk_amount" \in DOMAIN s
    BY <1>2
  <2>. DEFINE Share(rates) == {(a.equity * r) \div 10000 : r \in rates}
  <2>4. \A x \in {m, s} : RiskBudget(x, a) = IF "risk_amount" \in DOMAIN x
                                           THEN Field(x, "risk_amount")
                                           ELSE Share(Field(x, "risk_pct"))
    BY DEF RiskBudget
  <2>. HIDE DEF Share
  <2>. QED BY <2>1, <2>2, <2>3, <2>4
<1>4. StopPct(m) = StopPct(s) /\ (Priced(m) <=> Priced(s))
  BY StopPctSame, SameFields
<1>5. Notional(m, a) = Notional(s, a)
  BY <1>1, <1>2, <1>3, <1>4 DEF Notional, Sizes
<1>. QED BY <1>3, <1>5

\* Target by target, too.
MirrorsTargets(s, m) ==
  /\ s.take_profit_targets \in Seq(Target)
  /\ m.take_profit_targets \in Seq({MirrorTarget(t) : t \in Target})
  /\ DOMAIN m.take_profit_targets = 1 .. Len(s.take_profit_targets)
  /\ DOMAIN s.take_profit_targets = 1 .. Len(s.take_profit_targets)
  /\ Len(m.take_profit_targets) = Len(s.take_profit_targets)
  /\ m.take_profit_targets = <<>> <=> s.take_profit_targets = <<>>
  /\ \A k \in 1 .. Len(s.take_profit_targets) :
        m.take_profit_targets[k] = MirrorTarget(s.take_profit_targets[k]) /\ s.take_profit_targets[k] \in Target
  /\ s.take_profit_targets # <<>> =>
        /\ Head(m.take_profit_targets) = MirrorTarget(Head(s.take_profit_targets))
        /\ Head(s.take_profit_targets) \in Target

\* The mirror of a signal mirrors its targets, too.
LEMMA MirrorsBoth ==
  ASSUME NEW s, SignalOK(s)
  PROVE  Mirrors(s, Mirror(s)) /\ MirrorsTargets(s, Mirror(s))
<1>1. Mirrors(s, Mirror(s))
  BY MirrorMirrors
<1>2. s.take_profit_targets \in Seq(Target)
  BY DEF SignalOK
<1>3. s.take_profit_targets # <<>> => Head(s.take_profit_targets) \in Target
  BY <1>2
<1>4. MirrorsTargets(s, Mirror(s))
  BY <1>2, <1>3, MirrorTargets DEF MirrorsTargets
<1>. QED BY <1>1, <1>4

\* The first target is as far away (_take_profit_pct).
LEMMA TakeProfitSame ==
  ASSUME NEW s, NEW m, Mirrors(s, m), MirrorsTargets(s, m)
  PROVE  /\ TakeProfitPrice(m) = Crossed(TakeProfitPrice(s)) /\ TakeProfitPrice(s) \subseteq Int
         /\ TakeProfitPct(m) = TakeProfitPct(s)
<1>1. DOMAIN m = DOMAIN s /\ m.reduce_only = s.reduce_only
  BY DEF Mirrors
<1>2. TakeProfitPrice(m) = Crossed(TakeProfitPrice(s)) /\ TakeProfitPrice(s) \subseteq Int
  <2>1. CASE "take_profit_price" \in DOMAIN s
    BY <1>1, <2>1 DEF TakeProfitPrice, Mirrors, ExitPrices
  <2>2. CASE "take_profit_price" \notin DOMAIN s /\ s.take_profit_targets = <<>>
    BY <1>1, <2>2 DEF TakeProfitPrice, MirrorsTargets, Crossed
  <2>3. CASE "take_profit_price" \notin DOMAIN s /\ s.take_profit_targets # <<>>
    <3>1. /\ Head(m.take_profit_targets) = MirrorTarget(Head(s.take_profit_targets))
          /\ Head(s.take_profit_targets) \in Target /\ m.take_profit_targets # <<>>
      BY <2>3 DEF MirrorsTargets
    <3>. QED BY <1>1, <2>3, <3>1, MirrorTargetFields DEF TakeProfitPrice
  <2>. QED BY <2>1, <2>2, <2>3
<1>3. Winning(m, TakeProfitPrice(m)) = Crossed(Winning(s, TakeProfitPrice(s)))
      /\ Winning(s, TakeProfitPrice(s)) \subseteq Int
  BY <1>2, PricesCross
<1>4. DistancesOf(m, Winning(m, TakeProfitPrice(m))) = DistancesOf(s, Winning(s, TakeProfitPrice(s)))
  BY <1>3, PricesCross
<1>5. Field(m, "take_profit_pct") = Field(s, "take_profit_pct")
  BY DEF Mirrors, ExitPrices, ExitAmounts
<1>6. TakeProfitPct(m) = TakeProfitPct(s)
  BY <1>1, <1>4, <1>5 DEF TakeProfitPct
<1>. QED BY <1>2, <1>6

\* The prices the targets are given at.
TargetPrices(s) == UNION {Field(t, "trigger_price") : t \in ToSet(s.take_profit_targets)}

\* The prices of all targets.
LEMMA TargetPricesCross ==
  ASSUME NEW s, NEW m, Mirrors(s, m), MirrorsTargets(s, m)
  PROVE  TargetPrices(m) = Crossed(TargetPrices(s)) /\ TargetPrices(s) \subseteq Int
<1>. DEFINE n == Len(s.take_profit_targets)
            Ours(k) == Field(s.take_profit_targets[k], "trigger_price")
            Theirs(k) == Field(m.take_profit_targets[k], "trigger_price")
<1>1. TargetPrices(s) = UNION {Ours(k) : k \in 1 .. n} /\ TargetPrices(m) = UNION {Theirs(k) : k \in 1 .. n}
  BY DEF TargetPrices, ToSet, MirrorsTargets
<1>2. \A k \in 1 .. n : Theirs(k) = Crossed(Ours(k)) /\ Ours(k) \subseteq Int
  BY MirrorTargetFields DEF MirrorsTargets
<1>. HIDE DEF n, Ours, Theirs
<1>3. TargetPrices(m) = Crossed(TargetPrices(s))
  BY <1>1, <1>2 DEF Crossed
<1>4. TargetPrices(s) \subseteq Int
  BY <1>1, <1>2
<1>. QED BY <1>3, <1>4

\* What the targets bring in all.
LEMMA RewardSame ==
  ASSUME NEW s, NEW m, Mirrors(s, m), MirrorsTargets(s, m)
  PROVE  /\ TotalReward(m) = TotalReward(s)
         /\ (\A t \in ToSet(m.take_profit_targets) : "pct" \in DOMAIN t)
            <=> (\A t \in ToSet(s.take_profit_targets) : "pct" \in DOMAIN t)
<1>. DEFINE n == Len(s.take_profit_targets)
<1>1. /\ DOMAIN m.take_profit_targets = 1 .. n /\ DOMAIN s.take_profit_targets = 1 .. n
      /\ \A k \in 1 .. n : m.take_profit_targets[k] = MirrorTarget(s.take_profit_targets[k])
                           /\ s.take_profit_targets[k] \in Target
  BY DEF MirrorsTargets
<1>. HIDE DEF n
<1>2. ASSUME NEW k \in 1 .. n PROVE Reward(m, m.take_profit_targets[k]) = Reward(s, s.take_profit_targets[k])
  <2>. DEFINE t == s.take_profit_targets[k]
  <2>1. m.take_profit_targets[k] = MirrorTarget(t) /\ t \in Target
    BY <1>1
  <2>. HIDE DEF t
  <2>2. DOMAIN MirrorTarget(t) = DOMAIN t /\ MirrorTarget(t).close_pct = t.close_pct
    BY <2>1, MirrorTargetFields
  <2>3. "pct" \in DOMAIN t => MirrorTarget(t).pct = t.pct
    BY <2>1, MirrorTargetFields
  <2>4. "pct" \notin DOMAIN t => Gain(m.side, MirrorTarget(t).trigger_price) = Gain(s.side, t.trigger_price)
    <3>. SUFFICES ASSUME "pct" \notin DOMAIN t
                  PROVE Gain(m.side, MirrorTarget(t).trigger_price) = Gain(s.side, t.trigger_price)
      OBVIOUS
    <3>1. "trigger_price" \in DOMAIN t
      BY <2>1 DEF Target
    <3>2. MirrorTarget(t).trigger_price = Across(t.trigger_price) /\ t.trigger_price \in Int
      BY <2>1, <3>1, MirrorTargetFields
    <3>3. \A p \in Int : Gain(m.side, Across(p)) = Gain(s.side, p)
      BY PricesCross
    <3>. QED BY <3>2, <3>3
  <2>5. TargetPct(m, MirrorTarget(t)) = TargetPct(s, t)
    BY <2>2, <2>3, <2>4 DEF TargetPct
  <2>6. Reward(m, MirrorTarget(t)) = Reward(s, t)
    BY <2>2, <2>5 DEF Reward
  <2>. QED BY <2>1, <2>6 DEF t
<1>3. [k \in DOMAIN m.take_profit_targets |-> Reward(m, m.take_profit_targets[k])]
      = [k \in DOMAIN s.take_profit_targets |-> Reward(s, s.take_profit_targets[k])]
  BY <1>1, <1>2
<1>4. TotalReward(m) = TotalReward(s)
  BY <1>3 DEF TotalReward
<1>5. \A k \in 1 .. n : DOMAIN m.take_profit_targets[k] = DOMAIN s.take_profit_targets[k]
  BY <1>1, MirrorTargetFields
<1>6. (\A t \in ToSet(m.take_profit_targets) : "pct" \in DOMAIN t)
      <=> (\A t \in ToSet(s.take_profit_targets) : "pct" \in DOMAIN t)
  BY <1>1, <1>5 DEF ToSet
<1>. QED BY <1>4, <1>6

\* Prices all on one side, or none, are so from the other side, too.
LEMMA SidedSame ==
  ASSUME NEW s, NEW m, Mirrors(s, m), NEW P, P \subseteq Int
  PROVE  /\ Crossed(P) = Losing(m, Crossed(P)) <=> P = Losing(s, P)
         /\ Crossed(P) = Winning(m, Crossed(P)) <=> P = Winning(s, P)
         /\ Crossed(P) = {} <=> P = {}
<1>1. Losing(m, Crossed(P)) = Crossed(Losing(s, P)) /\ Losing(s, P) \subseteq Int
  BY PricesCross, ZenonT(30)
<1>2. Winning(m, Crossed(P)) = Crossed(Winning(s, P)) /\ Winning(s, P) \subseteq Int
  <2>1. (Priced(m) <=> Priced(s)) /\ \A p \in Int : Gain(m.side, Across(p)) = Gain(s.side, p)
    BY SameFields, PricesCross
  <2>3. Winning(m, Crossed(P)) = Crossed(Winning(s, P))
    BY <2>1 DEF Winning, Crossed
  <2>2. Winning(s, P) \subseteq Int
    BY DEF Winning
  <2>. QED BY <2>2, <2>3
<1>3. Crossed(P) = Crossed(Losing(s, P)) <=> P = Losing(s, P)
  BY <1>1, CrossedSets
<1>4. Crossed(P) = Crossed(Winning(s, P)) <=> P = Winning(s, P)
  BY <1>2, CrossedSets
<1>5. Crossed(P) = {} <=> P = {}
  BY CrossedSets
<1>. QED BY <1>1, <1>2, <1>3, <1>4, <1>5

\* The reasons about the shape of the signal.
LEMMA ShapeSame ==
  ASSUME NEW s, NEW m, Mirrors(s, m), MirrorsTargets(s, m)
  PROVE  ShapeReasons(m) = ShapeReasons(s)
<1>1. /\ DOMAIN m = DOMAIN s /\ m.reduce_only = s.reduce_only
      /\ m.trailing_stop_close_pct = s.trailing_stop_close_pct
  BY DEF Mirrors
<1>2. /\ Priced(m) <=> Priced(s)
      /\ Trails(m) <=> Trails(s)
      /\ Activation(m) = Activation(s)
      /\ Flag(m, "trail_after_take_profit") <=> Flag(s, "trail_after_take_profit")
      /\ Flag(m, "breakeven_after_take_profit") <=> Flag(s, "breakeven_after_take_profit")
  BY SameFields DEF Flags
<1>3. StopPct(m) = StopPct(s) /\ TrailingPct(m) = TrailingPct(s)
  BY StopPctSame, TrailingPctSame
<1>4. m.take_profit_targets = <<>> <=> s.take_profit_targets = <<>>
  BY DEF MirrorsTargets
<1>5. /\ Field(m, "stop_loss_price") # Losing(m, Field(m, "stop_loss_price"))
         <=> Field(s, "stop_loss_price") # Losing(s, Field(s, "stop_loss_price"))
      /\ Field(m, "trailing_stop_price") # Losing(m, Field(m, "trailing_stop_price"))
         <=> Field(s, "trailing_stop_price") # Losing(s, Field(s, "trailing_stop_price"))
      /\ Field(m, "trailing_activation_price") # Winning(m, Field(m, "trailing_activation_price"))
         <=> Field(s, "trailing_activation_price") # Winning(s, Field(s, "trailing_activation_price"))
  <2>1. \A f \in ExitPrices : Field(m, f) = Crossed(Field(s, f)) /\ Field(s, f) \subseteq Int
    BY DEF Mirrors
  <2>2. \A f \in ExitPrices : /\ Field(m, f) # Losing(m, Field(m, f)) <=> Field(s, f) # Losing(s, Field(s, f))
                              /\ Field(m, f) # Winning(m, Field(m, f)) <=> Field(s, f) # Winning(s, Field(s, f))
    BY <2>1, SidedSame
  <2>. QED BY <2>2 DEF ExitPrices
<1>6. /\ Winning(m, TargetPrices(m)) # TargetPrices(m) <=> Winning(s, TargetPrices(s)) # TargetPrices(s)
      /\ Winning(m, TakeProfitPrice(m)) # TakeProfitPrice(m) <=> Winning(s, TakeProfitPrice(s)) # TakeProfitPrice(s)
      /\ TakeProfitPrice(m) # {} <=> TakeProfitPrice(s) # {}
  <2>1. TargetPrices(m) = Crossed(TargetPrices(s)) /\ TargetPrices(s) \subseteq Int
    BY TargetPricesCross
  <2>2. TakeProfitPrice(m) = Crossed(TakeProfitPrice(s)) /\ TakeProfitPrice(s) \subseteq Int
    BY TakeProfitSame
  <2>. QED BY <2>1, <2>2, SidedSame
<1>. QED
  BY <1>1, <1>2, <1>3, <1>4, <1>5, <1>6, SMTT(60) DEF ShapeReasons, TargetPrices

\* The reasons of the limits.
LEMMA LimitsSame ==
  ASSUME NEW s, NEW m, Mirrors(s, m), MirrorsTargets(s, m), Opens(s), Opens(m), NEW c, NEW a
  PROVE  LimitReasons(m, c, a) = LimitReasons(s, c, a)
<1>1. /\ DOMAIN m = DOMAIN s /\ m.reduce_only = s.reduce_only
      /\ m.symbol = s.symbol /\ m.exchange = s.exchange /\ m.leverage = s.leverage
      /\ m.max_slippage_bps = s.max_slippage_bps
  BY DEF Mirrors
<1>2. /\ Priced(m) <=> Priced(s)
      /\ HasPendingTrail(m) <=> HasPendingTrail(s)
  <2>1. /\ Trails(m) <=> Trails(s)
        /\ Activation(m) = Activation(s)
        /\ Flag(m, "trail_after_take_profit") <=> Flag(s, "trail_after_take_profit")
    BY SameFields DEF Flags
  <2>2. HasPendingTrail(m) <=> HasPendingTrail(s)
    BY <1>1, <2>1 DEF HasPendingTrail
  <2>3. Priced(m) <=> Priced(s)
    BY SameFields
  <2>. QED BY <2>2, <2>3
<1>3. StopPct(m) = StopPct(s) /\ TrailingPct(m) = TrailingPct(s) /\ TakeProfitPct(m) = TakeProfitPct(s)
  BY StopPctSame, TrailingPctSame, TakeProfitSame
<1>4. /\ Field(m, "risk_pct") = Field(s, "risk_pct")
      /\ Field(m, "volatility_pct") = Field(s, "volatility_pct")
  BY DEF Mirrors, ExitPrices, TopAmounts, Sizes
<1>5. Notional(m, a) = Notional(s, a)
  BY NotionalSame
<1>6. NewTradeRisk(m, a) = NewTradeRisk(s, a)
  BY <1>3, <1>5 DEF NewTradeRisk
<1>7. /\ TotalReward(m) = TotalReward(s)
      /\ (\A t \in ToSet(m.take_profit_targets) : "pct" \in DOMAIN t)
         <=> (\A t \in ToSet(s.take_profit_targets) : "pct" \in DOMAIN t)
      /\ Len(m.take_profit_targets) = Len(s.take_profit_targets)
  BY RewardSame DEF MirrorsTargets
<1>. QED
  BY <1>1, <1>2, <1>3, <1>4, <1>5, <1>6, <1>7, SMTT(60) DEF LimitReasons

\* With exact prices, prices a distance away from the entry mirror each other.
LEMMA DistancesMirror ==
  ASSUME NEW s, NEW m, Mirrors(s, m), Exact(s)
  PROVE  /\ Exact(m)
         /\ \A d \in Int : /\ Below(m, d) = Across(Below(s, d)) /\ Below(s, d) \in Int
                           /\ Above(m, d) = Across(Above(s, d)) /\ Above(s, d) \in Int
         /\ \A p \in Int : /\ Money(s, p) = p
                           /\ Money(m, Across(p)) = Across(p)
                           /\ Across(p) \in Int
                           /\ Gain(m.side, Across(p)) = Gain(s.side, p)
<1>1. s.side \in {"buy", "sell"} /\ m.side \in {"buy", "sell"} /\ m.side # s.side
  BY DEF Mirrors
<1>2. Exact(m)
  BY DEF Exact, Mirrors, ExitPrices, TopAmounts
<1>3. \A d \in Int : /\ Below(m, d) = Across(Below(s, d)) /\ Below(s, d) \in Int
                     /\ Above(m, d) = Across(Above(s, d)) /\ Above(s, d) \in Int
  BY <1>1 DEF Below, Above, Across, Entry
<1>4. \A p \in Int : Across(p) \in Int /\ Gain(m.side, Across(p)) = Gain(s.side, p)
  BY <1>1 DEF Across, Entry, Gain
<1>5. \A p \in Int : Money(s, p) = p /\ Money(m, p) = p
  BY <1>2, ExactMoney
<1>. QED BY <1>2, <1>3, <1>4, <1>5

\* The stop price.
LEMMA StopPriceMirrors ==
  ASSUME NEW s, NEW m, Mirrors(s, m), Exact(s), SignalOK(s)
  PROVE  StopPrice(m) = Crossed(StopPrice(s)) /\ StopPrice(s) \subseteq Int
<1>1. DOMAIN m = DOMAIN s
  BY DEF Mirrors
<1>2. CASE "stop_loss_price" \in DOMAIN s
  BY <1>1, <1>2 DEF StopPrice, Mirrors, ExitPrices
<1>3. CASE "stop_loss_price" \notin DOMAIN s
  <2>1. Field(m, "stop_loss_pct") = Field(s, "stop_loss_pct")
    BY DEF Mirrors, ExitPrices, ExitAmounts
  <2>2. Field(s, "stop_loss_pct") \subseteq Int
    BY StopAmounts DEF Positive
  <2>3. StopPrice(s) = {Below(s, d) : d \in Field(s, "stop_loss_pct")}
        /\ StopPrice(m) = {Below(m, d) : d \in Field(s, "stop_loss_pct")}
    BY <1>1, <1>3, <2>1 DEF StopPrice
  <2>4. \A d \in Field(s, "stop_loss_pct") : Below(m, d) = Across(Below(s, d)) /\ Below(s, d) \in Int
    BY <2>2, DistancesMirror
  <2>. QED BY <2>3, <2>4 DEF Crossed
<1>. QED BY <1>2, <1>3

\* With exact prices the liquidation price mirrors, so the futures assessment is the same.
LEMMA FuturesSame ==
  ASSUME NEW s, SignalOK(s), Exact(s), NEW a
  PROVE  FuturesReasons(Mirror(s), a) = FuturesReasons(s, a)
<1>. DEFINE m == Mirror(s)
<1>1. Mirrors(s, m)
  BY MirrorMirrors
<1>2. m.raw = IF "funding_rate_bps" \in DOMAIN s.raw THEN [s.raw EXCEPT !.funding_rate_bps = -@] ELSE s.raw
  BY MirrorFields
<1>. HIDE DEF m
<1>3. /\ DOMAIN m = DOMAIN s /\ m.reduce_only = s.reduce_only
      /\ m.leverage = s.leverage /\ m.market_type = s.market_type
      /\ s.side \in {"buy", "sell"} /\ m.side \in {"buy", "sell"} /\ m.side # s.side
  BY <1>1 DEF Mirrors
<1>4. Leveraged(m) <=> Leveraged(s)
  BY <1>3 DEF Leveraged
<1>5. Missing(m, a) = Missing(s, a)
  <2>1. Priced(m) <=> Priced(s)
    BY <1>1, SameFields
  <2>2. Notional(m, a) = Notional(s, a)
    BY <1>1, NotionalSame
  <2>. QED BY <1>3, <2>1, <2>2 DEF Missing
<1>6. /\ LiquidationPrice(s) \in Int
      /\ LiquidationPrice(m) = Across(LiquidationPrice(s))
  <2>1. s.leverage \in Positive
    BY DEF SignalOK, SignalFields, TopAmounts, Positive
  <2>2. Margin(s) \in Int /\ Margin(m) = Margin(s)
    BY <1>3, <2>1 DEF Margin, Positive
  <2>3. Margin(s) - Maintenance \in Int
    BY <2>2 DEF Maintenance
  <2>4. /\ Below(m, Margin(s) - Maintenance) = Across(Below(s, Margin(s) - Maintenance))
        /\ Below(s, Margin(s) - Maintenance) \in Int
    BY <1>1, <2>3, DistancesMirror
  <2>5. \A p \in Int : Money(s, p) = p /\ Money(m, Across(p)) = Across(p)
    BY <1>1, DistancesMirror
  <2>. QED BY <2>2, <2>4, <2>5 DEF LiquidationPrice
<1>7. ASSUME NEW p \in Int PROVE StopBeforeLiquidation(m, Across(p)) <=> StopBeforeLiquidation(s, p)
  BY <1>3, <1>6 DEF StopBeforeLiquidation, Across, Entry
<1>8. (\E q \in StopPrice(m) : ~StopBeforeLiquidation(m, q)) <=> (\E p \in StopPrice(s) : ~StopBeforeLiquidation(s, p))
  <2>1. StopPrice(m) = Crossed(StopPrice(s)) /\ StopPrice(s) \subseteq Int
    BY <1>1, StopPriceMirrors
  <2>. QED BY <1>7, <2>1 DEF Crossed
<1>9. Gain(m.side, LiquidationPrice(m)) = Gain(s.side, LiquidationPrice(s))
  BY <1>1, <1>6, DistancesMirror
<1>10. AdverseFunding(m) = AdverseFunding(s)
  <2>1. CASE "funding_rate_bps" \in DOMAIN s.raw
    <3>1. s.raw.funding_rate_bps \in Int
      BY <2>1 DEF SignalOK, Field
    <3>2. "funding_rate_bps" \in DOMAIN m.raw /\ m.raw.funding_rate_bps = -s.raw.funding_rate_bps
      BY <1>2, <2>1
    <3>. QED BY <1>3, <2>1, <3>1, <3>2 DEF AdverseFunding
  <2>2. CASE "funding_rate_bps" \notin DOMAIN s.raw
    <3>1. m.raw = s.raw
      BY <1>2, <2>2
    <3>. QED BY <1>3, <2>2, <3>1 DEF AdverseFunding
  <2>. QED BY <2>1, <2>2
<1>11. Field(m.raw, "minutes_to_funding") = Field(s.raw, "minutes_to_funding")
  BY <1>2 DEF Field
<1>12. Assessed(m) = Assessed(s)
  BY <1>3, <1>8, <1>9, <1>10, <1>11 DEF Assessed
<1>13. FuturesReasons(m, a) = FuturesReasons(s, a)
  BY <1>4, <1>5, <1>12 DEF FuturesReasons
<1>. QED BY <1>13 DEF m

\* A signal without an exit plan has no exits.
LEMMA NoPlanNoExits ==
  ASSUME NEW s, NEW T, s.take_profit_targets \in Seq(T), ~HasExitPlan(s)
  PROVE  ExitOrders(s) = <<>>
<1>1. CASE ~HasExits(s)
  BY <1>1 DEF ExitOrders
<1>2. CASE HasExits(s)
  <2>. DEFINE exits == ExitOrders(s)
  <2>1. StopTrigger(s) = {}
    BY DEF HasExitPlan, StopTrigger, StopPrice, Field
  <2>2. Len(StopLeg(s)) = 0
    BY <2>1, StopLegIs
  <2>3. TrailLeg(s) = <<>> /\ TimeLeg(s) = <<>>
    BY DEF HasExitPlan, Trails, TrailLeg, TimeLeg
  <2>4. s.take_profit_targets = <<>>
    BY DEF HasExitPlan
  <2>5. TargetLegs(s) = <<>>
    BY <2>4 DEF TargetLegs
  <2>6. StopLeg(s) = <<>>
    BY <2>2, StopLegIs
  <2>7. ExitOrders(s) = StopLeg(s) \o TargetLegs(s) \o TrailLeg(s) \o TimeLeg(s)
    BY <1>2, ExitParts
  <2>. QED BY <2>3, <2>5, <2>6, <2>7
<1>. QED BY <1>1, <1>2

\* The legs of the mirrored bracket are triggered across the entry.
LEMMA LegsMirror ==
  ASSUME NEW s, SignalOK(s), Exact(s), NEW m, Mirrors(s, m), MirrorsTargets(s, m), HasExits(s), HasExits(m)
  PROVE  /\ Len(StopLeg(m)) = Len(StopLeg(s)) /\ Len(StopLeg(s)) \in Nat
         /\ \A k \in 1 .. Len(StopLeg(s)) : StopLeg(m)[k].trigger = Across(StopLeg(s)[k].trigger)
         /\ \A k \in 1 .. Len(s.take_profit_targets) :
               TargetLeg(m, m.take_profit_targets[k]).trigger
               = Across(TargetLeg(s, s.take_profit_targets[k]).trigger)
         /\ Len(TrailLeg(m)) = Len(TrailLeg(s)) /\ Len(TrailLeg(s)) \in Nat
         /\ \A k \in 1 .. Len(TrailLeg(s)) : TrailLeg(m)[k].trigger = Across(TrailLeg(s)[k].trigger)
         /\ Len(TimeLeg(m)) = Len(TimeLeg(s)) /\ Len(TimeLeg(s)) \in Nat
         /\ \A k \in 1 .. Len(TimeLeg(s)) : TimeLeg(m)[k].trigger = Across(TimeLeg(s)[k].trigger)
<1>1. DOMAIN m = DOMAIN s
  BY DEF Mirrors
<1>2. /\ \A d \in Int : /\ Below(m, d) = Across(Below(s, d)) /\ Below(s, d) \in Int
                        /\ Above(m, d) = Across(Above(s, d)) /\ Above(s, d) \in Int
      /\ \A p \in Int : Money(s, p) = p /\ Money(m, Across(p)) = Across(p)
  BY DistancesMirror
<1>3. StopTrigger(m) = Crossed(StopTrigger(s)) /\ StopTrigger(s) \subseteq Int
  <2>1. StopPrice(m) = Crossed(StopPrice(s)) /\ StopPrice(s) \subseteq Int
    BY StopPriceMirrors
  <2>2. StopTrigger(s) = {Money(s, p) : p \in StopPrice(s)} /\ StopTrigger(m) = {Money(m, p) : p \in StopPrice(m)}
    BY DEF StopTrigger
  <2>3. StopTrigger(s) = StopPrice(s)
    BY <1>2, <2>1, <2>2
  <2>4. StopTrigger(m) = Crossed(StopPrice(s))
    BY <1>2, <2>1, <2>2 DEF Crossed
  <2>. QED BY <2>1, <2>3, <2>4
<1>4. /\ Len(StopLeg(m)) = Len(StopLeg(s)) /\ Len(StopLeg(s)) \in Nat
      /\ \A k \in 1 .. Len(StopLeg(s)) : StopLeg(m)[k].trigger = Across(StopLeg(s)[k].trigger)
  <2>1. StopTrigger(m) = {} <=> StopTrigger(s) = {}
    BY <1>3 DEF Crossed
  <2>2. /\ Len(StopLeg(s)) \in {0, 1} /\ (Len(StopLeg(s)) = 0 <=> StopTrigger(s) = {})
        /\ Len(StopLeg(m)) \in {0, 1} /\ (Len(StopLeg(m)) = 0 <=> StopTrigger(m) = {})
    BY StopLegIs
  <2>3. \A t \in StopTrigger(s) : StopLeg(m)[1].trigger = Across(StopLeg(s)[1].trigger)
    <3>. TAKE t \in StopTrigger(s)
    <3>1. StopLeg(s)[1] = [kind |-> "stop_loss", trigger |-> t, close_pct |-> 100, status |-> "open"]
      BY StopLegIs
    <3>2. Across(t) \in StopTrigger(m)
      BY <1>3 DEF Crossed
    <3>3. StopLeg(m)[1] = [kind |-> "stop_loss", trigger |-> Across(t), close_pct |-> 100, status |-> "open"]
      BY <3>2, StopLegIs
    <3>. QED BY <3>1, <3>3
  <2>. QED BY <2>1, <2>2, <2>3
<1>5. ASSUME NEW k \in 1 .. Len(s.take_profit_targets)
      PROVE  TargetLeg(m, m.take_profit_targets[k]).trigger = Across(TargetLeg(s, s.take_profit_targets[k]).trigger)
  <2>. DEFINE t == s.take_profit_targets[k]
  <2>1. m.take_profit_targets[k] = MirrorTarget(t) /\ t \in Target
    BY DEF MirrorsTargets
  <2>. HIDE DEF t
  <2>2. DOMAIN MirrorTarget(t) = DOMAIN t
    BY <2>1, MirrorTargetFields
  <2>3. "trigger_price" \in DOMAIN t => TargetTrigger(m, MirrorTarget(t)) = Across(TargetTrigger(s, t))
    <3>. SUFFICES ASSUME "trigger_price" \in DOMAIN t
                  PROVE TargetTrigger(m, MirrorTarget(t)) = Across(TargetTrigger(s, t))
      OBVIOUS
    <3>1. MirrorTarget(t).trigger_price = Across(t.trigger_price) /\ t.trigger_price \in Int
      BY <2>1, MirrorTargetFields
    <3>. QED BY <1>2, <2>2, <3>1 DEF TargetTrigger
  <2>4. "trigger_price" \notin DOMAIN t => TargetTrigger(m, MirrorTarget(t)) = Across(TargetTrigger(s, t))
    <3>. SUFFICES ASSUME "trigger_price" \notin DOMAIN t
                  PROVE TargetTrigger(m, MirrorTarget(t)) = Across(TargetTrigger(s, t))
      OBVIOUS
    <3>1. "pct" \in DOMAIN t
      BY <2>1 DEF Target
    <3>2. MirrorTarget(t).pct = t.pct /\ t.pct \in Int
      BY <2>1, <3>1, MirrorTargetFields
    <3>3. Above(m, t.pct) = Across(Above(s, t.pct)) /\ Above(s, t.pct) \in Int
      BY <1>2, <3>2
    <3>4. TargetTrigger(m, MirrorTarget(t)) = Money(m, Across(Above(s, t.pct)))
      BY <2>2, <3>2, <3>3 DEF TargetTrigger
    <3>5. TargetTrigger(s, t) = Money(s, Above(s, t.pct))
      BY DEF TargetTrigger
    <3>. QED BY <1>2, <3>3, <3>4, <3>5
  <2>5. TargetTrigger(m, MirrorTarget(t)) = Across(TargetTrigger(s, t))
    BY <2>3, <2>4
  <2>. QED BY <2>1, <2>5 DEF TargetLeg, t
<1>6. Trails(m) <=> Trails(s)
  BY SameFields
<1>7. Trails(s) => TrailPrice(m) = Across(TrailPrice(s)) /\ TrailPrice(s) \in Int
  <2>. SUFFICES ASSUME Trails(s) PROVE TrailPrice(m) = Across(TrailPrice(s)) /\ TrailPrice(s) \in Int
    OBVIOUS
  <2>1. \A f \in DOMAIN s \cap ExitAmounts : s[f] \in Int
    BY DEF SignalOK
  <2>2. \A f \in {"trailing_stop_pct", "trailing_stop_amount"} : Field(m, f) = Field(s, f)
    BY DEF Mirrors, ExitPrices, ExitAmounts
  <2>3. CASE "trailing_stop_price" \in DOMAIN s
    <3>1. Field(m, "trailing_stop_price") = Crossed(Field(s, "trailing_stop_price"))
      BY DEF Mirrors, ExitPrices
    <3>2. m.trailing_stop_price = Across(s.trailing_stop_price)
      BY <1>1, <2>3, <3>1 DEF Field, Crossed
    <3>. QED BY <1>1, <2>1, <2>3, <3>2 DEF TrailPrice, ExitAmounts
  <2>4. CASE "trailing_stop_price" \notin DOMAIN s /\ "trailing_stop_amount" \in DOMAIN s
    <3>1. m.trailing_stop_amount = s.trailing_stop_amount /\ s.trailing_stop_amount \in Int
      BY <1>1, <2>1, <2>2, <2>4 DEF Field, ExitAmounts
    <3>. QED BY <1>1, <1>2, <2>4, <3>1 DEF TrailPrice
  <2>5. CASE "trailing_stop_price" \notin DOMAIN s /\ "trailing_stop_amount" \notin DOMAIN s
    <3>1. "trailing_stop_pct" \in DOMAIN s
      BY <2>5 DEF Trails
    <3>2. m.trailing_stop_pct = s.trailing_stop_pct /\ s.trailing_stop_pct \in Int
      BY <1>1, <2>1, <2>2, <3>1 DEF Field, ExitAmounts
    <3>. QED BY <1>1, <1>2, <2>5, <3>2 DEF TrailPrice
  <2>. QED BY <2>3, <2>4, <2>5
<1>8. /\ Len(TrailLeg(m)) = Len(TrailLeg(s)) /\ Len(TrailLeg(s)) \in Nat
      /\ \A k \in 1 .. Len(TrailLeg(s)) : TrailLeg(m)[k].trigger = Across(TrailLeg(s)[k].trigger)
  <2>1. CASE Trails(s)
    <3>1. /\ TrailLeg(s) = << Exit(s, "trailing_stop", TrailPrice(s), s.trailing_stop_close_pct, TrailStatus(s)) >>
          /\ TrailLeg(m) = << Exit(m, "trailing_stop", TrailPrice(m), m.trailing_stop_close_pct, TrailStatus(m)) >>
      BY <1>6, <2>1 DEF TrailLeg
    <3>2. Money(m, TrailPrice(m)) = Across(Money(s, TrailPrice(s)))
      BY <1>2, <1>7, <2>1
    <3>. QED BY <3>1, <3>2 DEF Exit
  <2>2. CASE ~Trails(s)
    BY <1>6, <2>2 DEF TrailLeg
  <2>. QED BY <2>1, <2>2
<1>9. /\ Len(TimeLeg(m)) = Len(TimeLeg(s)) /\ Len(TimeLeg(s)) \in Nat
      /\ \A k \in 1 .. Len(TimeLeg(s)) : TimeLeg(m)[k].trigger = Across(TimeLeg(s)[k].trigger)
  <2>1. Entry \in Int /\ Across(Entry) = Entry
    BY DEF Entry, Across
  <2>. QED BY <1>1, <1>2, <2>1 DEF TimeLeg, Exit
<1>. QED BY <1>4, <1>5, <1>8, <1>9

\* With exact prices the exits mirror each other one by one.
LEMMA ExitsMirror ==
  ASSUME NEW s, SignalOK(s), Exact(s), Opens(s), Opens(Mirror(s))
  PROVE  [k \in DOMAIN ExitOrders(Mirror(s)) |-> ExitOrders(Mirror(s))[k].trigger]
         = [k \in DOMAIN ExitOrders(s) |-> Across(ExitOrders(s)[k].trigger)]
<1>. DEFINE m == Mirror(s)
            R == {MirrorTarget(t) : t \in Target}
<1>1. Mirrors(s, m) /\ MirrorsTargets(s, m)
  BY MirrorsBoth
<1>. HIDE DEF m, R
<1>2. s.take_profit_targets \in Seq(Target) /\ m.take_profit_targets \in Seq(R)
  BY <1>1 DEF MirrorsTargets, R
<1>3. HasExitPlan(m) <=> HasExitPlan(s)
  BY <1>1 DEF HasExitPlan, Mirrors, MirrorsTargets
<1>4. Priced(m) <=> Priced(s)
  BY <1>1, SameFields
<1>5. ~m.reduce_only /\ ~s.reduce_only
  BY DEF Opens, m
<1>6. CASE ~HasExitPlan(s)
  <2>1. ExitOrders(s) = <<>>
    BY <1>2, <1>6, NoPlanNoExits
  <2>2. ExitOrders(m) = <<>>
    BY <1>2, <1>3, <1>6, NoPlanNoExits
  <2>. QED BY <2>1, <2>2 DEF m
<1>7. CASE HasExitPlan(s) /\ ~Priced(s)
  <2>1. ~HasExits(s) /\ ~HasExits(m)
    BY <1>4, <1>7 DEF HasExits
  <2>2. ExitOrders(s) = <<>> /\ ExitOrders(m) = <<>>
    BY <2>1 DEF ExitOrders
  <2>. QED BY <2>2 DEF m
<1>8. CASE HasExitPlan(s) /\ Priced(s)
  <2>1. HasExits(s) /\ HasExits(m)
    BY <1>3, <1>4, <1>5, <1>8 DEF HasExits
  <2>. DEFINE x == ExitOrders(s)
              y == ExitOrders(m)
              o == Len(StopLeg(s))
              n == Len(s.take_profit_targets)
              c == Len(TrailLeg(s))
              d == Len(TimeLeg(s))
  <2>2. /\ Len(x) = o + n + c + d /\ DOMAIN x = 1 .. Len(x)
        /\ \A k \in 1 .. o : x[k] = StopLeg(s)[k]
        /\ \A k \in 1 .. n : x[o + k] = TargetLeg(s, s.take_profit_targets[k])
        /\ \A k \in 1 .. c : x[o + n + k] = TrailLeg(s)[k]
        /\ \A k \in 1 .. d : x[o + n + c + k] = TimeLeg(s)[k]
    BY <1>2, <2>1, ExitsAt
  <2>3. /\ Len(StopLeg(m)) = o /\ Len(TrailLeg(m)) = c /\ Len(TimeLeg(m)) = d
        /\ o \in Nat /\ c \in Nat /\ d \in Nat
        /\ \A k \in 1 .. o : StopLeg(m)[k].trigger = Across(StopLeg(s)[k].trigger)
        /\ \A k \in 1 .. n : TargetLeg(m, m.take_profit_targets[k]).trigger
                             = Across(TargetLeg(s, s.take_profit_targets[k]).trigger)
        /\ \A k \in 1 .. c : TrailLeg(m)[k].trigger = Across(TrailLeg(s)[k].trigger)
        /\ \A k \in 1 .. d : TimeLeg(m)[k].trigger = Across(TimeLeg(s)[k].trigger)
    BY <1>1, <2>1, LegsMirror
  <2>4. Len(m.take_profit_targets) = n /\ n \in Nat
    BY <1>1, <1>2 DEF MirrorsTargets
  <2>. HIDE DEF o, n, c, d
  <2>5. /\ Len(y) = o + n + c + d /\ DOMAIN y = 1 .. Len(y)
        /\ \A k \in 1 .. o : y[k] = StopLeg(m)[k]
        /\ \A k \in 1 .. n : y[o + k] = TargetLeg(m, m.take_profit_targets[k])
        /\ \A k \in 1 .. c : y[o + n + k] = TrailLeg(m)[k]
        /\ \A k \in 1 .. d : y[o + n + c + k] = TimeLeg(m)[k]
    <3>1. /\ Len(y) = Len(StopLeg(m)) + Len(m.take_profit_targets) + Len(TrailLeg(m)) + Len(TimeLeg(m))
          /\ DOMAIN y = 1 .. Len(y)
          /\ \A k \in 1 .. Len(StopLeg(m)) : y[k] = StopLeg(m)[k]
          /\ \A k \in 1 .. Len(m.take_profit_targets) :
                y[Len(StopLeg(m)) + k] = TargetLeg(m, m.take_profit_targets[k])
          /\ \A k \in 1 .. Len(TrailLeg(m)) :
                y[Len(StopLeg(m)) + Len(m.take_profit_targets) + k] = TrailLeg(m)[k]
          /\ \A k \in 1 .. Len(TimeLeg(m)) :
                y[Len(StopLeg(m)) + Len(m.take_profit_targets) + Len(TrailLeg(m)) + k] = TimeLeg(m)[k]
      BY <1>2, <2>1, ExitsAt
    <3>. HIDE DEF y
    <3>. QED BY <3>1, <2>3, <2>4
  <2>. HIDE DEF x, y
  <2>6. ASSUME NEW k \in DOMAIN x PROVE y[k].trigger = Across(x[k].trigger)
    <3>1. \/ k \in 1 .. o
          \/ k - o \in 1 .. n
          \/ k - (o + n) \in 1 .. c
          \/ k - (o + n + c) \in 1 .. d
      BY <2>2, <2>3, <2>4
    <3>2. k = o + (k - o) /\ k = o + n + (k - (o + n)) /\ k = o + n + c + (k - (o + n + c))
      BY <2>2, <2>3, <2>4
    <3>3. CASE k \in 1 .. o
      BY <2>2, <2>3, <2>5, <3>3
    <3>4. CASE k - o \in 1 .. n
      BY <2>2, <2>3, <2>5, <3>2, <3>4
    <3>5. CASE k - (o + n) \in 1 .. c
      BY <2>2, <2>3, <2>5, <3>2, <3>5
    <3>6. CASE k - (o + n + c) \in 1 .. d
      BY <2>2, <2>3, <2>5, <3>2, <3>6
    <3>. QED BY <3>1, <3>3, <3>4, <3>5, <3>6
  <2>7. DOMAIN y = DOMAIN x
    BY <2>2, <2>5
  <2>8. [k \in DOMAIN y |-> y[k].trigger] = [k \in DOMAIN x |-> Across(x[k].trigger)]
    BY <2>6, <2>7
  <2>. QED BY <2>8 DEF x, y, m
<1>. QED BY <1>6, <1>7, <1>8

\* A long and the short that mirrors it get the same verdict and mirrored exits
\* (risk.evaluate_signal, futures_risk, build_exit_orders).
THEOREM SidesAreMirrored == Spec => []SidesMirror
<1>1. TypeOK => SidesMirror
  <2>. SUFFICES ASSUME TypeOK, Accepted, Opens(Mirror(signal)), Opens(signal)
                PROVE  /\ EvaluateSignal(Mirror(signal), config, account) = EvaluateSignal(signal, config, account)
                       /\ Exact(signal) =>
                            /\ FuturesReasons(Mirror(signal), account) = FuturesReasons(signal, account)
                            /\ [k \in DOMAIN ExitOrders(Mirror(signal)) |-> ExitOrders(Mirror(signal))[k].trigger]
                               = [k \in DOMAIN ExitOrders(signal) |-> Across(ExitOrders(signal)[k].trigger)]
    BY DEF SidesMirror
  <2>1. SignalOK(signal)
    BY DEF TypeOK, Accepted
  <2>2. Mirrors(signal, Mirror(signal)) /\ MirrorsTargets(signal, Mirror(signal))
    BY <2>1, MirrorsBoth
  <2>3. ShapeReasons(Mirror(signal)) = ShapeReasons(signal)
    BY <2>2, ShapeSame
  <2>4. LimitReasons(Mirror(signal), config, account) = LimitReasons(signal, config, account)
    BY <2>2, LimitsSame
  <2>5. Exact(signal) => FuturesReasons(Mirror(signal), account) = FuturesReasons(signal, account)
    BY <2>1, FuturesSame
  <2>6. Exact(signal) =>
          [k \in DOMAIN ExitOrders(Mirror(signal)) |-> ExitOrders(Mirror(signal))[k].trigger]
          = [k \in DOMAIN ExitOrders(signal) |-> Across(ExitOrders(signal)[k].trigger)]
    BY <2>1, ExitsMirror
  <2>. QED BY <2>3, <2>4, <2>5, <2>6 DEF EvaluateSignal
<1>. QED BY <1>1, TypeCorrect, PTL
=============================================================================
