--------------------------- MODULE MCGuardianLive ---------------------------
(***************************************************************************)
(* Small instances of GuardianLive.  Two signals on one symbol: an entry   *)
(* whose snapshot is stressed, and a reduce-only order that shares its     *)
(* strategy.  They differ in leverage, so a leverage left over from one is *)
(* visible in an order of the other.                                       *)
(***************************************************************************)
EXTENDS GuardianLive, TLC

\* Tickets are interchangeable: nothing but equality is asked of them.
TicketSymmetry == Permutations(Tickets)

Entry ==
    [id |-> "entry", exchange |-> "bitunix", symbol |-> "BTCUSDT", strategy |-> "swing",
     reduce_only |-> FALSE, market_state |-> {}, futures_ok |-> TRUE,
     futures_ok_default |-> TRUE, risk_ok |-> TRUE, native |-> TRUE, leverage |-> 3]

StressedEntry ==
    [Entry EXCEPT !.id = "stressed", !.market_state = {"wide_spread"}, !.leverage = 5]

Close == [Entry EXCEPT !.id = "close", !.reduce_only = TRUE, !.leverage = 1]

HardBlock ==
    [rule_id |-> "desk", mode |-> "hard_block", scope |-> "symbol", target |-> "BTCUSDT"]

NoEntries ==
    [rule_id |-> "desk", mode |-> "no_new_entries", scope |-> "global", target |-> "*"]

EntryAndClose == {Entry, Close}
EntryAndStressed == {Entry, StressedEntry}
BothRules == {HardBlock, NoEntries}
OneRule == {HardBlock}
NoRules == {}
=============================================================================
