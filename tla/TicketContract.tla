--------------------------- MODULE TicketContract ---------------------------
(***************************************************************************)
(* What a live-order preview ticket promises its operator, whichever route *)
(* and exchange it is for: a ticket is issued once, buys at most one order *)
(* that the program knows of, buys it only while it is open, and once used *)
(* or lost stays so and buys nothing.  An order can also leave no trace,   *)
(* when its answer is lost or cannot be written down; the ticket is then   *)
(* still open and may buy again.                                           *)
(*                                                                         *)
(* A crash touches every ticket at once, so a step is described ticket by  *)
(* ticket, as a relation between its old and its new contract.             *)
(***************************************************************************)
CONSTANT Tickets

VARIABLE contract   \* contract[t]: its state, known orders and traceless orders

NotIssued == [state |-> "none", known |-> {}, traceless |-> {}]

\* The preview is answered: a new ticket.
Issued(old, new) ==
    /\ old.state = "none"
    /\ new = [old EXCEPT !.state = "open"]

\* The program learns of an order, the only one it knows of for this ticket.
Bought(old, new) ==
    /\ old.state = "open"
    /\ old.known = {}
    /\ \E order \in new.known : new = [old EXCEPT !.known = {order}]

\* The submission is written down.
Used(old, new) ==
    /\ old.state = "open"
    /\ new = [old EXCEPT !.state = "used"]

\* Orders were accepted that the program does not know of, or no longer does.
Slipped(old, new) ==
    /\ old.state = "open"
    /\ new.state \in {"open", "lost"}
    /\ new.known = {}
    /\ old.known \cup old.traceless \subseteq new.traceless

\* The record of the ticket is gone.
Lost(old, new) ==
    /\ old.state \in {"open", "used"}
    /\ new = [old EXCEPT !.state = "lost"]

Step(old, new) ==
    \/ new = old
    \/ Issued(old, new)
    \/ Bought(old, new)
    \/ Used(old, new)
    \/ Slipped(old, new)
    \/ Lost(old, new)

Init == contract = [t \in Tickets |-> NotIssued]

Next ==
    /\ DOMAIN contract' = Tickets
    /\ \A t \in Tickets : Step(contract[t], contract'[t])

Spec == Init /\ [][Next]_contract
=============================================================================
