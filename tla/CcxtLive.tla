------------------------------ MODULE CcxtLive ------------------------------
(***************************************************************************)
(* Live orders through CCXT: POST /exchanges/{id}/ccxt/order/preview       *)
(* issues a ticket, and POST /exchanges/{id}/ccxt/order trades it for an   *)
(* exchange order (app.py).                                                *)
(*                                                                         *)
(* The protocol is that of GuardianLive with two differences that matter.  *)
(* The submit handler awaits the exchange call in a worker thread, so the  *)
(* event loop serves other requests, another submission of the same ticket *)
(* and a halt among them, while the call is in flight; the ticket is       *)
(* marked used only after the answer.  And the ticket keeps the serialised *)
(* signal, not the raw one: what the raw payload said about the market is  *)
(* lost at the second check.                                               *)
(***************************************************************************)
EXTENDS TradingDesk

CONSTANTS
    Tickets,        \* identifiers of preview tickets
    NoSignal,       \* the signal of a ticket not issued yet
    MaxAttempts,    \* bound: submissions of one ticket that pass the checks
    MaxInFlight     \* submissions of one ticket its operators keep waiting for

ASSUME CcxtAssumption ==
    /\ NoSignal \notin Signals
    /\ MaxAttempts \in Nat
    /\ MaxInFlight \in Nat \ {0}

\* One create_order call: the n-th submission of its ticket.
Call == [ticket : Tickets, attempt : 1 .. MaxAttempts]

VARIABLES
    ticket,       \* ticket[t]: state of the preview record of ticket t
    signalOf,     \* signalOf[t]: the signal that was previewed
    attempts,     \* attempts[t]: submissions of t that passed the checks
    inFlight,     \* calls a worker thread is waiting for
    orders,       \* calls whose order the exchange accepted
    answered,     \* accepted calls whose handler can resume
    ordersSaved,  \* calls with an order record (ccxt_orders)
    audited,      \* calls with a ccxt.live_order_submitted event
    unanswered    \* accepted orders that left no trace in the program  (history)

ccxtVars == <<ticket, signalOf, attempts, inFlight, orders, answered, ordersSaved,
              audited, unanswered>>

vars == <<deskVars, ccxtVars>>

TicketStates == {"none", "open", "used", "lost"}

\* The effects of a resumed submit handler, in the order of the code.
Phases == {"idle", "mark", "save", "audit"}

TypeOK ==
    /\ DeskTypeOK
    /\ loop \in [pc : Phases, job : Call \cup {NoJob}]
    /\ ticket \in [Tickets -> TicketStates]
    /\ signalOf \in [Tickets -> Signals \cup {NoSignal}]
    /\ attempts \in [Tickets -> 0 .. MaxAttempts]
    /\ inFlight \subseteq Call
    /\ orders \subseteq Call
    /\ answered \subseteq orders
    /\ ordersSaved \subseteq Call
    /\ audited \subseteq Call
    /\ unanswered \subseteq orders

Init ==
    /\ DeskInit
    /\ ticket = [t \in Tickets |-> "none"]
    /\ signalOf = [t \in Tickets |-> NoSignal]
    /\ attempts = [t \in Tickets |-> 0]
    /\ inFlight = {}
    /\ orders = {}
    /\ answered = {}
    /\ ordersSaved = {}
    /\ audited = {}
    /\ unanswered = {}

-----------------------------------------------------------------------------
(***************************************************************************)
(* The gates.                                                              *)
(***************************************************************************)

\* Mutant of LiveOrderSafe: the halt switch is left to the preview.
LiveOrderSafeHalted(signal) ==
    /\ ~LiveBlocked(signal, rules, cooling)
    /\ signal.risk_ok
    /\ ~stopped
    /\ enabled
    /\ signal.native

\* live_order_safe of _ccxt_order_preview_payload for a signal and the desk as
\* it is now.
LiveOrderSafe(signal) ==
    /\ ~halted
    /\ ~LiveBlocked(signal, rules, cooling)
    /\ signal.risk_ok
    /\ ~stopped
    /\ enabled
    /\ signal.native

\* Submissions of ticket t whose handlers have not returned: their call is in
\* flight, or it is answered and the handler has not finished.
Waiting(t) == {call \in inFlight \cup answered : call.ticket = t}

-----------------------------------------------------------------------------
(***************************************************************************)
(* Preview and submit.                                                     *)
(***************************************************************************)

\* ccxt_order_preview: a new ticket.
Preview(t, signal) ==
    /\ loop = Idle
    /\ ticket[t] = "none"
    /\ ticket' = [ticket EXCEPT ![t] = "open"]
    /\ signalOf' = [signalOf EXCEPT ![t] = signal]
    /\ UNCHANGED <<deskVars, attempts, inFlight, orders, answered, ordersSaved,
                   audited, unanswered>>

\* Mutant of Submit: the used flag of the ticket is not looked at.
SubmitUsed(t) ==
    /\ loop = Idle
    /\ ticket[t] \in {"open", "used"}
    /\ LiveOrderSafe(Reserialized(signalOf[t]))
    /\ attempts[t] < MaxAttempts
    /\ Cardinality(Waiting(t)) < MaxInFlight
    /\ attempts' = [attempts EXCEPT ![t] = @ + 1]
    /\ inFlight' = inFlight \cup {[ticket |-> t, attempt |-> attempts[t] + 1]}
    /\ UNCHANGED <<deskVars, ticket, signalOf, orders, answered, ordersSaved,
                   audited, unanswered>>

\* ccxt_order_submit up to its await: the ticket exists and is unused, and a
\* fresh preview of the serialised signal is safe.
Submit(t) ==
    /\ loop = Idle
    /\ ticket[t] = "open"
    /\ LiveOrderSafe(Reserialized(signalOf[t]))
    /\ attempts[t] < MaxAttempts
    /\ Cardinality(Waiting(t)) < MaxInFlight
    /\ attempts' = [attempts EXCEPT ![t] = @ + 1]
    /\ inFlight' = inFlight \cup {[ticket |-> t, attempt |-> attempts[t] + 1]}
    /\ UNCHANGED <<deskVars, ticket, signalOf, orders, answered, ordersSaved,
                   audited, unanswered>>

\* The exchange accepts the order of a call in flight.
Accept(call) ==
    /\ call \in inFlight \ orders
    /\ orders' = orders \cup {call}
    /\ UNCHANGED <<deskVars, ticket, signalOf, attempts, inFlight, answered,
                   ordersSaved, audited, unanswered>>

\* Mutant of Answer: an answer is taken for an acceptance.
AnswerAnyway(call) ==
    /\ call \in inFlight
    /\ inFlight' = inFlight \ {call}
    /\ answered' = answered \cup {call}
    /\ UNCHANGED <<deskVars, ticket, signalOf, attempts, orders, ordersSaved,
                   audited, unanswered>>

\* Its answer reaches the worker thread, which readies the handler.
Answer(call) ==
    /\ call \in inFlight \cap orders
    /\ inFlight' = inFlight \ {call}
    /\ answered' = answered \cup {call}
    /\ UNCHANGED <<deskVars, ticket, signalOf, attempts, orders, ordersSaved,
                   audited, unanswered>>

\* The call raises, before or after the exchange accepted the order.  The handler
\* turns the exception into an HTTP error and changes nothing.
Fail(call) ==
    /\ call \in inFlight
    /\ inFlight' = inFlight \ {call}
    /\ unanswered' = unanswered \cup ({call} \cap orders)
    /\ UNCHANGED <<deskVars, ticket, signalOf, attempts, orders, answered,
                   ordersSaved, audited>>

\* The loop resumes the handler of an answered call.
ResumeSubmit(call) ==
    /\ loop = Idle
    /\ call \in answered
    /\ loop' = [pc |-> "mark", job |-> call]
    /\ UNCHANGED <<halted, haltQueued, rules, cooling, stopped, enabled, restarts,
                   ccxtVars>>

\* Mutant of MarkUsed: the flag is set on the record read, which is not written back.
MarkUsedUnsaved ==
    /\ loop.pc = "mark"
    /\ LoopGoes("save")
    /\ UNCHANGED <<halted, haltQueued, rules, cooling, stopped, enabled, restarts,
                   ccxtVars>>

\* record["used"] = True and _runtime_set of the ticket.
MarkUsed ==
    /\ loop.pc = "mark"
    /\ ticket' = [ticket EXCEPT ![loop.job.ticket] = "used"]
    /\ LoopGoes("save")
    /\ UNCHANGED <<halted, haltQueued, rules, cooling, stopped, enabled, restarts,
                   signalOf, attempts, inFlight, orders, answered, ordersSaved,
                   audited, unanswered>>

\* _runtime_set of the order record, under the id the exchange answered.
SaveOrder ==
    /\ loop.pc = "save"
    /\ ordersSaved' = ordersSaved \cup {loop.job}
    /\ IF HasRepository
       THEN LoopGoes("audit") /\ UNCHANGED answered
       ELSE LoopGoes("idle") /\ answered' = answered \ {loop.job}
    /\ UNCHANGED <<halted, haltQueued, rules, cooling, stopped, enabled, restarts,
                   ticket, signalOf, attempts, inFlight, orders, audited, unanswered>>

\* record_audit of the submission, and the answer to the operator.
RecordAudit ==
    /\ loop.pc = "audit"
    /\ audited' = audited \cup {loop.job}
    /\ answered' = answered \ {loop.job}
    /\ LoopGoes("idle")
    /\ UNCHANGED <<halted, haltQueued, rules, cooling, stopped, enabled, restarts,
                   ticket, signalOf, attempts, inFlight, orders, ordersSaved, unanswered>>

\* One of the three writes raises: the handler ends in a 500 answer.
StorageFails ==
    /\ HasRepository
    /\ loop.pc \in {"mark", "save", "audit"}
    /\ answered' = answered \ {loop.job}
    /\ unanswered' = unanswered \cup {call \in {loop.job} : loop.pc = "mark"}
    /\ LoopGoes("idle")
    /\ UNCHANGED <<halted, haltQueued, rules, cooling, stopped, enabled, restarts,
                   ticket, signalOf, attempts, inFlight, orders, ordersSaved, audited>>

\* A crash.  Calls in flight may still be accepted.  With a repository the
\* records last written survive; an accepted order that was not yet marked in
\* its ticket leaves no trace.
Restart ==
    /\ DeskRestart
    /\ \E late \in SUBSET inFlight : orders' = orders \cup late
    /\ unanswered' = unanswered \cup (orders' \cap inFlight) \cup
          {call \in answered : ~(call = loop.job /\ loop.pc \in {"save", "audit"})}
    /\ inFlight' = {}
    /\ answered' = {}
    /\ ticket' = [t \in Tickets |->
                    IF HasRepository \/ ticket[t] = "none" THEN ticket[t] ELSE "lost"]
    /\ ordersSaved' = IF HasRepository THEN ordersSaved ELSE {}
    /\ UNCHANGED <<signalOf, attempts, audited>>

HandlerStep == MarkUsed \/ SaveOrder \/ RecordAudit \/ StorageFails

Next ==
    \/ DeskStep /\ UNCHANGED ccxtVars
    \/ \E t \in Tickets, signal \in Signals : Preview(t, signal)
    \/ \E t \in Tickets : Submit(t)
    \/ \E call \in inFlight : Accept(call) \/ Answer(call) \/ Fail(call)
    \/ \E call \in answered : ResumeSubmit(call)
    \/ HandlerStep
    \/ Restart

Spec == Init /\ [][Next]_vars

-----------------------------------------------------------------------------
(***************************************************************************)
(* Properties.                                                             *)
(***************************************************************************)

\* Orders whose acceptance reached the submit handler.
Heard == orders \ (inFlight \cup unanswered)

\* Operators who await each submission of one of the given tickets before the next
\* of the same ticket: no two of its handlers wait at once.  The code does not make
\* them: the ticket is marked only after the await.
Awaited(given) == \A t \in given : \A c1, c2 \in Waiting(t) : c1 = c2

\* Each of the given tickets bought at most one order that the exchange answered for
\* and the program could write down.
BuyOnce(given) ==
    \A o1, o2 \in Heard : o1.ticket \in given /\ o1.ticket = o2.ticket => o1 = o2

\* A preview ticket buys at most one order that the exchange answered for and
\* the program could write down: "Unused preview ticket" is a gate of every live
\* order (docs/SENTINEL_CHAIN_GUARDIAN_LIVE_WIRING.md:116).  It takes operators
\* who await one submission of a ticket before the next, as those of an instance
\* with MaxInFlight = 1 do.
AnsweredOncePerTicket == BuyOnce(Tickets)

\* While the engine is halted, the orders that exist or that a call in flight can
\* still create never grow: a halt cannot recall a call, but admits no new one,
\* whatever is awaited, answered or retried meanwhile.
HaltAdmitsNoCall ==
    [][halted /\ halted' => orders' \cup inFlight' \subseteq orders \cup inFlight]_vars

\* No accepted order is forgotten silently: it is in flight, waiting for its
\* handler, without a trace for a reason (lost answer, failed write, crash), or
\* its ticket can no longer be submitted.
OrdersTracked ==
    \A o \in orders :
        \/ o \in inFlight \cup answered \cup unanswered
        \/ ticket[o.ticket] \in {"used", "lost"}

-----------------------------------------------------------------------------
(***************************************************************************)
(* The ticket's contract.                                                  *)
(***************************************************************************)

\* What the contract calls known and traceless orders of ticket t.
Known(t) == {o.attempt : o \in {o \in Heard : o.ticket = t}}
Traceless(t) == {o.attempt : o \in {o \in unanswered : o.ticket = t}}

ContractOf(t) == [state |-> ticket[t], known |-> Known(t), traceless |-> Traceless(t)]

Contract == INSTANCE TicketContract WITH contract <- [t \in Tickets |-> ContractOf(t)]

\* Every step of the CCXT route keeps the ticket's contract, for operators who
\* await one submission of a ticket before the next.
KeepsContract == Contract!Spec
=============================================================================
