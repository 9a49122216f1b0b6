--------------------------- MODULE MCSignalIntake ---------------------------
(***************************************************************************)
(* A small instance of Webhooks and the intake behind it: an entry, the    *)
(* same entry sent again with a stressed market snapshot, which asks for   *)
(* approval, a closing order, and an Edge action that halts.               *)
(***************************************************************************)
EXTENDS Webhooks

Entry ==
    [id |-> "entry", exchange |-> "paper", symbol |-> "BTC/USDT", strategy |-> "swing",
     reduce_only |-> FALSE, market_state |-> {}, futures_ok |-> TRUE,
     futures_ok_default |-> TRUE, risk_ok |-> TRUE, native |-> TRUE, leverage |-> 1]

Stressed == [Entry EXCEPT !.market_state = {"high_volatility"}]

Close == [Entry EXCEPT !.id = "close", !.reduce_only = TRUE]

EntriesAndClose == {Entry, Stressed, Close}
NoRules == {}

HaltingAction == {[name |-> "stop_all", halts |-> TRUE]}
=============================================================================
