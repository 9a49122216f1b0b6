----------------------------- MODULE MCCcxtLive -----------------------------
(***************************************************************************)
(* Small instances of CcxtLive: an entry and a reduce-only order.          *)
(***************************************************************************)
EXTENDS CcxtLive, TLC

\* Tickets are interchangeable: nothing but equality is asked of them.
TicketSymmetry == Permutations(Tickets)

Entry ==
    [id |-> "entry", exchange |-> "kraken", symbol |-> "BTC/USDT", strategy |-> "swing",
     reduce_only |-> FALSE, market_state |-> {}, futures_ok |-> TRUE,
     futures_ok_default |-> TRUE, risk_ok |-> TRUE, native |-> TRUE, leverage |-> 1]

Close == [Entry EXCEPT !.id = "close", !.reduce_only = TRUE]

NoEntries ==
    [rule_id |-> "desk", mode |-> "no_new_entries", scope |-> "global", target |-> "*"]

OneEntry == {Entry}
EntryAndClose == {Entry, Close}
OneRule == {NoEntries}
NoRules == {}
=============================================================================
