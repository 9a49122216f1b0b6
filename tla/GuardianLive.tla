---------------------------- MODULE GuardianLive ----------------------------
(***************************************************************************)
(* Live Bitunix orders: POST /guardian/live/preview issues a ticket, and   *)
(* POST /guardian/live/submit trades it for an exchange order (app.py).    *)
(*                                                                         *)
(* The submit handler calls the exchange synchronously, on the event loop: *)
(* from its checks to its audit record no other handler runs.  What can    *)
(* happen in between is a failing or unanswered exchange call, and a crash *)
(* between two effects.  So the handler is a chain of steps that hold      *)
(* `loop`: change the leverage, place the order, mark the ticket used,     *)
(* save the order record, record the audit event.                          *)
(*                                                                         *)
(* The exchange is external.  It may accept a call and answer; accept it   *)
(* and have its answer lost; refuse it with an HTTP error; or refuse it in *)
(* the body of a 200 answer, which BitunixRestClient.request_json takes    *)
(* for a success.                                                          *)
(***************************************************************************)
EXTENDS TradingDesk

CONSTANTS
    Tickets,        \* identifiers of preview tickets
    NoSignal,       \* the signal of a ticket not issued yet
    MaxAttempts     \* bound: submissions of one ticket that pass the checks

ASSUME GuardianAssumption ==
    /\ NoSignal \notin Signals
    /\ NoJob \notin Tickets
    /\ MaxAttempts \in Nat

VARIABLES
    ticket,       \* ticket[t]: state of the preview record of ticket t
    signalOf,     \* signalOf[t]: the raw signal kept in that record
    attempts,     \* attempts[t]: submissions of t that passed the checks
    liveOrder,    \* liveOrder[c]: the ticket in the order record of client id c
    audited,      \* tickets with a guardian.live_order_submitted event
    orders,       \* orders the exchange accepted
    exchangeLev,  \* the leverage in force at the exchange, per symbol
    unanswered,   \* accepted orders that left no trace in the program (history)
    levRefused    \* attempts whose leverage change was refused in a 200 answer
                  \*                                                (history)

guardianVars == <<ticket, signalOf, attempts, liveOrder, audited, orders,
                  exchangeLev, unanswered, levRefused>>

vars == <<deskVars, guardianVars>>

TicketStates == {"none", "open", "used", "lost"}

\* _client_id: the client order id is the signal's id.
ClientIds == {signal.id : signal \in Signals}

Attempt == [ticket : Tickets, attempt : 1 .. MaxAttempts]

Order == [ticket : Tickets, attempt : 1 .. MaxAttempts, leverage : Leverages]

\* The exchange order a submission of ticket t places, at leverage lev.
OrderOf(t, lev) == [ticket |-> t, attempt |-> attempts[t], leverage |-> lev]

\* The effects of the submit handler, in the order of the code.
Phases == {"idle", "leverage", "place", "mark", "save", "audit"}

TypeOK ==
    /\ DeskTypeOK
    /\ loop \in [pc : Phases, job : Tickets \cup {NoJob}]
    /\ ticket \in [Tickets -> TicketStates]
    /\ signalOf \in [Tickets -> Signals \cup {NoSignal}]
    /\ attempts \in [Tickets -> 0 .. MaxAttempts]
    /\ liveOrder \in [ClientIds -> Tickets \cup {NoJob}]
    /\ audited \subseteq Tickets
    /\ orders \subseteq Order
    /\ exchangeLev \in [Symbols -> Leverages]
    /\ unanswered \subseteq Order
    /\ levRefused \subseteq Attempt

Init ==
    /\ DeskInit
    /\ ticket = [t \in Tickets |-> "none"]
    /\ signalOf = [t \in Tickets |-> NoSignal]
    /\ attempts = [t \in Tickets |-> 0]
    /\ liveOrder = [c \in ClientIds |-> NoJob]
    /\ audited = {}
    /\ orders = {}
    /\ exchangeLev \in [Symbols -> Leverages]
    /\ unanswered = {}
    /\ levRefused = {}

-----------------------------------------------------------------------------
(***************************************************************************)
(* The gates.                                                              *)
(***************************************************************************)

\* live_order_safe of bitunix_live_order_preview, computed by
\* _live_preview_payload from the signal and the desk as they are now.
LiveOrderSafe(signal) ==
    /\ ~halted
    /\ ~LiveBlocked(signal, rules, cooling)
    /\ signal.risk_ok
    /\ ~stopped
    /\ enabled
    /\ signal.native

-----------------------------------------------------------------------------
(***************************************************************************)
(* Preview and submit.                                                     *)
(***************************************************************************)

\* guardian_live_preview: a new ticket, with the signal as it was sent.  The
\* preview's own verdict is stored for display; submit does not read it.
Preview(t, signal) ==
    /\ loop = Idle
    /\ ticket[t] = "none"
    /\ ticket' = [ticket EXCEPT ![t] = "open"]
    /\ signalOf' = [signalOf EXCEPT ![t] = signal]
    /\ UNCHANGED <<deskVars, attempts, liveOrder, audited, orders, exchangeLev,
                   unanswered, levRefused>>

\* Mutant of Submit: the used flag of the ticket is not looked at.
SubmitUsed(t) ==
    /\ loop = Idle
    /\ ticket[t] \in {"open", "used"}
    /\ LiveOrderSafe(signalOf[t])
    /\ attempts[t] < MaxAttempts
    /\ attempts' = [attempts EXCEPT ![t] = @ + 1]
    /\ loop' = [pc |-> IF signalOf[t].reduce_only THEN "place" ELSE "leverage",
                job |-> t]
    /\ UNCHANGED <<halted, haltQueued, rules, cooling, stopped, enabled, restarts,
                   ticket, signalOf, liveOrder, audited, orders, exchangeLev,
                   unanswered, levRefused>>

\* guardian_live_submit up to its first exchange call: the ticket exists and is
\* unused, and a fresh preview of its signal is safe.  An opening order sets
\* the leverage first.
Submit(t) ==
    /\ loop = Idle
    /\ ticket[t] = "open"
    /\ LiveOrderSafe(signalOf[t])
    /\ attempts[t] < MaxAttempts
    /\ attempts' = [attempts EXCEPT ![t] = @ + 1]
    /\ loop' = [pc |-> IF signalOf[t].reduce_only THEN "place" ELSE "leverage",
                job |-> t]
    /\ UNCHANGED <<halted, haltQueued, rules, cooling, stopped, enabled, restarts,
                   ticket, signalOf, liveOrder, audited, orders, exchangeLev,
                   unanswered, levRefused>>

\* Mutant of ChangeLeverage: a failed change is logged and the order placed anyway.
ChangeLeverageCarriesOn ==
    /\ loop.pc = "leverage"
    /\ LET signal == signalOf[loop.job]
       IN  exchangeLev' \in
             {[exchangeLev EXCEPT ![signal.symbol] = signal.leverage], exchangeLev}
    /\ LoopGoes("place")
    /\ UNCHANGED <<halted, haltQueued, rules, cooling, stopped, enabled, restarts, ticket,
                   signalOf, attempts, liveOrder, audited, orders, unanswered, levRefused>>

\* change_futures_leverage: set, refused in a 200 answer, or failed (502) with
\* the leverage set or not.
ChangeLeverage ==
    /\ loop.pc = "leverage"
    /\ LET t == loop.job
           signal == signalOf[t]
           set == [exchangeLev EXCEPT ![signal.symbol] = signal.leverage]
       IN  \/ /\ exchangeLev' = set
              /\ LoopGoes("place")
              /\ UNCHANGED levRefused
           \/ /\ levRefused' = levRefused \cup {[ticket |-> t, attempt |-> attempts[t]]}
              /\ LoopGoes("place")
              /\ UNCHANGED exchangeLev
           \/ /\ exchangeLev' \in {set, exchangeLev}
              /\ LoopGoes("idle")
              /\ UNCHANGED levRefused
    /\ UNCHANGED <<halted, haltQueued, rules, cooling, stopped, enabled, restarts,
                   ticket, signalOf, attempts, liveOrder, audited, orders, unanswered>>

\* Mutant of PlaceOrder: a refused order is tried again, from the leverage on.
PlaceOrderRetries ==
    /\ loop.pc = "place"
    /\ LET order == OrderOf(loop.job, exchangeLev[signalOf[loop.job].symbol])
       IN  \/ orders' = orders \cup {order} /\ LoopGoes("mark")
           \/ UNCHANGED orders /\ LoopGoes("leverage")
    /\ UNCHANGED <<halted, haltQueued, rules, cooling, stopped, enabled, restarts, ticket,
                   signalOf, attempts, liveOrder, audited, exchangeLev, unanswered, levRefused>>

\* place_futures_order: accepted; refused in a 200 answer; refused with an
\* error (502); accepted with the answer lost (502).
PlaceOrder ==
    /\ loop.pc = "place"
    /\ LET t == loop.job
           order == OrderOf(t, exchangeLev[signalOf[t].symbol])
       IN  \/ orders' = orders \cup {order} /\ UNCHANGED unanswered /\ LoopGoes("mark")
           \/ UNCHANGED <<orders, unanswered>> /\ LoopGoes("mark")
           \/ UNCHANGED <<orders, unanswered>> /\ LoopGoes("idle")
           \/ /\ orders' = orders \cup {order}
              /\ unanswered' = unanswered \cup {order}
              /\ LoopGoes("idle")
    /\ UNCHANGED <<halted, haltQueued, rules, cooling, stopped, enabled, restarts,
                   ticket, signalOf, attempts, liveOrder, audited, exchangeLev, levRefused>>

\* The order just placed, while its ticket does not say so yet.
CurrentUnmarked(order) ==
    /\ loop.pc = "mark"
    /\ order.ticket = loop.job
    /\ order.attempt = attempts[loop.job]

\* record["used"] = True and _runtime_set of the ticket.
MarkUsed ==
    /\ loop.pc = "mark"
    /\ ticket' = [ticket EXCEPT ![loop.job] = "used"]
    /\ LoopGoes("save")
    /\ UNCHANGED <<halted, haltQueued, rules, cooling, stopped, enabled, restarts,
                   signalOf, attempts, liveOrder, audited, orders, exchangeLev,
                   unanswered, levRefused>>

\* _runtime_set of the order record, under the client order id.
SaveOrder ==
    /\ loop.pc = "save"
    /\ liveOrder' = [liveOrder EXCEPT ![signalOf[loop.job].id] = loop.job]
    /\ LoopGoes(IF HasRepository THEN "audit" ELSE "idle")
    /\ UNCHANGED <<halted, haltQueued, rules, cooling, stopped, enabled, restarts,
                   ticket, signalOf, attempts, audited, orders, exchangeLev,
                   unanswered, levRefused>>

\* record_audit of the submission, and the answer to the operator.
RecordAudit ==
    /\ loop.pc = "audit"
    /\ audited' = audited \cup {loop.job}
    /\ LoopGoes("idle")
    /\ UNCHANGED <<halted, haltQueued, rules, cooling, stopped, enabled, restarts,
                   ticket, signalOf, attempts, liveOrder, orders, exchangeLev,
                   unanswered, levRefused>>

\* One of the three writes raises: the handler ends in a 500 answer.
StorageFails ==
    /\ HasRepository
    /\ loop.pc \in {"mark", "save", "audit"}
    /\ unanswered' = unanswered \cup {o \in orders : CurrentUnmarked(o)}
    /\ LoopGoes("idle")
    /\ UNCHANGED <<halted, haltQueued, rules, cooling, stopped, enabled, restarts,
                   ticket, signalOf, attempts, liveOrder, audited, orders,
                   exchangeLev, levRefused>>

\* A crash.  With a repository the tickets and the order records are the ones
\* last written; without one they are gone.  An order that was not yet marked
\* in its ticket leaves no trace.
Restart ==
    /\ DeskRestart
    /\ ticket' = [t \in Tickets |->
                    IF HasRepository \/ ticket[t] = "none" THEN ticket[t] ELSE "lost"]
    /\ liveOrder' = IF HasRepository THEN liveOrder ELSE [c \in ClientIds |-> NoJob]
    /\ unanswered' = unanswered \cup {o \in orders : CurrentUnmarked(o)}
    /\ UNCHANGED <<signalOf, attempts, audited, orders, exchangeLev, levRefused>>

HandlerStep ==
    ChangeLeverage \/ PlaceOrder \/ MarkUsed \/ SaveOrder \/ RecordAudit \/ StorageFails

Next ==
    \/ DeskStep /\ UNCHANGED guardianVars
    \/ \E t \in Tickets, signal \in Signals : Preview(t, signal)
    \/ \E t \in Tickets : Submit(t)
    \/ HandlerStep
    \/ Restart

Spec == Init /\ [][Next]_vars

\* A handler that holds the loop runs to its end: the exchange client has a
\* 10 second timeout and the rest is local.  A queued request is run: asyncio's
\* ready queue is first in, first out, so a halt cannot be overtaken forever by
\* submissions that arrive after it, however often the loop is busy when it is
\* looked at.
FairSpec == Spec /\ WF_vars(HandlerStep) /\ SF_vars(HandleHalt /\ UNCHANGED guardianVars)

-----------------------------------------------------------------------------
(***************************************************************************)
(* Properties.                                                             *)
(***************************************************************************)

\* Of two exchange orders placed for one preview ticket, at least one left no
\* trace: its answer was lost, or could not be written down.  An answered order
\* makes the ticket's later submissions fail with 409 (app.py: "live
\* preview ticket has already been used").
AnsweredOncePerTicket ==
    \A o1, o2 \in orders \ unanswered : o1.ticket = o2.ticket => o1 = o2

\* A step that adds an order finds its ticket open and its gates passed.
PlacedThroughGates ==
    \A o \in orders' \ orders :
        ticket[o.ticket] = "open" /\ LiveOrderSafe(signalOf[o.ticket])

\* The gates checked before the exchange calls still hold when the order is
\* accepted: no halt, protection rule, cooldown or account stop can slip in
\* between the check and the synchronous calls.
GatesHoldAtPlacement == [][PlacedThroughGates]_vars

\* An opening order stands at the leverage its signal asked for, unless the
\* exchange refused the change inside a 200 answer.
LeverageAsRequested ==
    \A o \in orders :
        \/ signalOf[o.ticket].reduce_only
        \/ o.leverage = signalOf[o.ticket].leverage
        \/ [ticket |-> o.ticket, attempt |-> o.attempt] \in levRefused

\* A halt that reaches the server takes effect, however many submissions hold
\* the loop before it, unless the process dies first.
HaltTakesEffect == \A n \in 0 .. MaxRestarts :
    (haltQueued /\ restarts = n) ~> (halted \/ restarts > n)

\* A submission never leaves the event loop blocked.
SubmitReturns == (loop # Idle) ~> (loop = Idle)

\* "A live order requires: ... 4. Runtime controls not halted or blocked."
\* (docs/SENTINEL_CHAIN_GUARDIAN_LIVE_WIRING.md:104-109): no order while any
\* runtime control gives a reason against its signal.
NoOrderAgainstRuntimeControls ==
    [][\A o \in orders' \ orders :
          RuntimeReasons(signalOf[o.ticket], rules, cooling) = {}]_vars

-----------------------------------------------------------------------------
(***************************************************************************)
(* The ticket's contract.                                                  *)
(***************************************************************************)

\* What the contract calls known and traceless orders of ticket t.
Known(t) == {o.attempt : o \in {o \in orders \ unanswered : o.ticket = t}}
Traceless(t) == {o.attempt : o \in {o \in unanswered : o.ticket = t}}

ContractOf(t) == [state |-> ticket[t], known |-> Known(t), traceless |-> Traceless(t)]

Contract == INSTANCE TicketContract WITH contract <- [t \in Tickets |-> ContractOf(t)]

\* Every step of the Bitunix route keeps the ticket's contract.
KeepsContract == Contract!Spec

-----------------------------------------------------------------------------
(***************************************************************************)
(* The inductive invariant behind the safety properties, see               *)
(* GuardianLiveProofs.                                                     *)
(***************************************************************************)

\* A handler works on an issued ticket that passed the checks, still open until
\* it is marked and used from then on.
HandlerOK ==
    loop.pc # "idle" =>
        /\ loop.job \in Tickets
        /\ attempts[loop.job] >= 1
        /\ ticket[loop.job] = IF loop.pc \in {"save", "audit"} THEN "used" ELSE "open"

\* An issued ticket has a signal, one not issued has no order.
TicketsOK ==
    \A t \in Tickets :
        /\ ticket[t] # "none" => signalOf[t] \in Signals
        /\ ticket[t] = "none" => attempts[t] = 0

\* Orders belong to submissions that were made, one order to a submission, and
\* the submission at work has none before its place step.
OrdersOK ==
    /\ unanswered \subseteq orders
    /\ \A o \in orders : o.attempt <= attempts[o.ticket]
    /\ \A o1, o2 \in orders :
          o1.ticket = o2.ticket /\ o1.attempt = o2.attempt => o1 = o2
    /\ loop.pc \in {"leverage", "place"} =>
          \A o \in orders : o.ticket = loop.job => o.attempt # attempts[loop.job]

\* The only known order of an open ticket is the one about to be marked.
OpenTicketsOK ==
    \A o \in orders \ unanswered : ticket[o.ticket] = "open" => CurrentUnmarked(o)

\* The checks made by Submit hold until the order is placed.
GatesOK == loop.pc \in {"leverage", "place"} => LiveOrderSafe(signalOf[loop.job])

IInv ==
    /\ TypeOK
    /\ HandlerOK
    /\ TicketsOK
    /\ OrdersOK
    /\ OpenTicketsOK
    /\ GatesOK
    /\ AnsweredOncePerTicket
=============================================================================
