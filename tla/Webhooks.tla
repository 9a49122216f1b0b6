------------------------------ MODULE Webhooks ------------------------------
(***************************************************************************)
(* The signed doors of the program (app.py): alerts that senders post to   *)
(* the webhooks, and Edge actions posted to the event bus, which may halt  *)
(* the engine (security.py, bot_event_bus.py, edge_actions.py).            *)
(*                                                                         *)
(* A signature covers a timestamp and the raw body.  The replay store      *)
(* claims the pair when the signature is good, before the body is looked   *)
(* at, and is process memory: a request is refused if it was ever let in   *)
(* since the process started, whatever became of it, and let in again      *)
(* after a restart.  A stale or badly signed request changes nothing; it   *)
(* is one that is not sent.                                                *)
(*                                                                         *)
(* An Edge action is written to the bus file, applied, audited and told to *)
(* the bus: three writes, any of which can fail.                           *)
(***************************************************************************)
EXTENDS SignalIntake

CONSTANTS
    Stamps,       \* timestamps that senders sign with
    EdgeEvents,   \* Edge actions: records with a name and whether it halts
    NoEdge        \* no Edge action at work

ASSUME WebhookAssumption ==
    /\ \A event \in EdgeEvents : event.halts \in BOOLEAN
    /\ NoEdge \notin EdgeEvents

VARIABLES
    seen,        \* replay_store._seen: [stamp, body] pairs
    edge,        \* the Edge action that the handler holding the loop works on
    bus,         \* [type, event] lines of the bus file
    edgeAudit,   \* Edge actions with an edge.action.received audit event
    cut          \* Edge actions whose handling was cut short        (history)

webhookVars == <<seen, edge, bus, edgeAudit, cut>>

allVars == <<vars, webhookVars>>

Bodies == Signals \cup EdgeEvents

Request(stamp, body) == [stamp |-> stamp, body |-> body]

Line(type, event) == [type |-> type, event |-> event]

LineTypes == {"edge.action", "auto_crypto.edge_action.applied"}

EdgePhases == {"publish", "edge_audit", "tell"}

WebhooksTypeOK ==
    /\ IntakeTypeOK
    /\ loop \in [pc : Phases \cup EdgePhases, job : HeldSignals \cup {NoJob}]
    /\ loop.job = NoJob <=> loop = Idle \/ edge # NoEdge
    /\ edge # NoEdge <=> loop.pc \in EdgePhases
    /\ edge \in EdgeEvents \cup {NoEdge}
    /\ seen \subseteq {Request(stamp, body) : stamp \in Stamps, body \in Bodies}
    /\ bus \subseteq {Line(type, event) : type \in LineTypes, event \in EdgeEvents}
    /\ edgeAudit \subseteq EdgeEvents
    /\ cut \subseteq EdgeEvents

\* No handler here looks at `enabled`, so one value stands for both.
WebhooksInit ==
    /\ Init
    /\ ~enabled
    /\ seen = {}
    /\ edge = NoEdge
    /\ bus = {}
    /\ edgeAudit = {}
    /\ cut = {}

-----------------------------------------------------------------------------
(***************************************************************************)
(* Who is let in.                                                          *)
(***************************************************************************)

\* verify_webhook_signature of a well signed request: claimed, or refused (409).
LetIn(stamp, body) ==
    /\ Request(stamp, body) \notin seen
    /\ seen' = seen \cup {Request(stamp, body)}

\* verify_signed_operator_request: a signed request, or one of the operator's
\* browser session, which nothing claims.
LetOperatorIn(body) ==
    \/ \E stamp \in Stamps : LetIn(stamp, body)
    \/ UNCHANGED seen

\* POST /webhooks/tradingview and /webhooks/text-alert.
ReceiveAlert(stamp, signal) ==
    /\ LetIn(stamp, signal)
    /\ Handle(signal)
    /\ UNCHANGED <<edge, bus, edgeAudit, cut>>

\* POST /bus/edge-actions, and /bus/events with an event of that type.
ReceiveEdge(event) ==
    /\ loop = Idle
    /\ LetOperatorIn(event)
    /\ loop' = [pc |-> "publish", job |-> NoJob]
    /\ edge' = event
    /\ UNCHANGED <<halted, haltQueued, rules, cooling, stopped, enabled, restarts,
                   intakeVars, bus, edgeAudit, cut>>

-----------------------------------------------------------------------------
(***************************************************************************)
(* Edge actions.                                                           *)
(***************************************************************************)

\* Mutant of PublishEdge: the action is published and not applied.
PublishEdgeOnly ==
    /\ loop.pc = "publish"
    /\ bus' = bus \cup {Line("edge.action", edge)}
    /\ LoopGoes("edge_audit")
    /\ UNCHANGED <<halted, haltQueued, rules, cooling, stopped, enabled, restarts,
                   intakeVars, seen, edge, edgeAudit, cut>>

\* event_bus.publish of the action, and with it in the file apply_edge_action's
\* engine.halt: no failure can fall between the two.
PublishEdge ==
    /\ loop.pc = "publish"
    /\ bus' = bus \cup {Line("edge.action", edge)}
    /\ halted' = (halted \/ edge.halts)
    /\ LoopGoes("edge_audit")
    /\ UNCHANGED <<haltQueued, rules, cooling, stopped, enabled, restarts, intakeVars,
                   seen, edge, edgeAudit, cut>>

\* Mutant of AuditEdge: a failing audit is passed over.
AuditEdgeOrNot ==
    /\ loop.pc = "edge_audit"
    /\ edgeAudit' \in {edgeAudit, edgeAudit \cup {edge}}
    /\ LoopGoes("tell")
    /\ UNCHANGED <<halted, haltQueued, rules, cooling, stopped, enabled, restarts,
                   intakeVars, seen, edge, bus, cut>>

\* record_audit of edge.action.received.
AuditEdge ==
    /\ loop.pc = "edge_audit"
    /\ edgeAudit' = IF HasRepository THEN edgeAudit \cup {edge} ELSE edgeAudit
    /\ LoopGoes("tell")
    /\ UNCHANGED <<halted, haltQueued, rules, cooling, stopped, enabled, restarts,
                   intakeVars, seen, edge, bus, cut>>

\* publish_event of auto_crypto.edge_action.applied; the caller is answered.
TellEdge ==
    /\ loop.pc = "tell"
    /\ bus' = bus \cup {Line("auto_crypto.edge_action.applied", edge)}
    /\ edge' = NoEdge
    /\ LoopGoes("idle")
    /\ UNCHANGED <<halted, haltQueued, rules, cooling, stopped, enabled, restarts,
                   intakeVars, seen, edgeAudit, cut>>

\* The bus file or the database cannot be written and the caller gets a 500.
EdgeWriteFails ==
    /\ edge # NoEdge
    /\ loop.pc = "edge_audit" => HasRepository
    /\ cut' = cut \cup {edge}
    /\ edge' = NoEdge
    /\ LoopGoes("idle")
    /\ UNCHANGED <<halted, haltQueued, rules, cooling, stopped, enabled, restarts,
                   intakeVars, seen, bus, edgeAudit>>

-----------------------------------------------------------------------------

\* POST /control/halt, signed or from the session.  Its waiting for the loop is
\* the waiting of every request here: it is sent when it is taken.
OperatorHalts ==
    /\ loop = Idle
    /\ halted' = TRUE
    /\ UNCHANGED <<haltQueued, rules, cooling, stopped, enabled, loop, restarts,
                   intakeVars, webhookVars>>

\* A crash: the replay store is empty again.
RestartAll ==
    /\ Restart
    /\ ~enabled'
    /\ seen' = {}
    /\ edge' = NoEdge
    /\ cut' = cut \cup ({edge} \ {NoEdge})
    /\ UNCHANGED <<bus, edgeAudit>>

EdgeStep == PublishEdge \/ AuditEdge \/ TellEdge \/ EdgeWriteFails

IntakeStep == HandlerStep /\ edge = NoEdge

WebhooksNext ==
    \/ OperatorHalts
    \/ DeskStep /\ ~haltQueued' /\ UNCHANGED <<intakeVars, webhookVars>>
    \/ \E stamp \in Stamps, signal \in Signals : ReceiveAlert(stamp, signal)
    \/ \E event \in EdgeEvents : ReceiveEdge(event)
    \/ \E id \in Ids : Decide(id) /\ UNCHANGED webhookVars
    \/ IntakeStep /\ UNCHANGED webhookVars
    \/ EdgeStep
    \/ RestartAll

WebhooksSpec == WebhooksInit /\ [][WebhooksNext]_allVars

\* A handler that holds the loop runs to its end: all it does is local.
WebhooksFairSpec ==
    /\ WebhooksSpec
    /\ WF_allVars(IntakeStep /\ UNCHANGED webhookVars)
    /\ WF_allVars(EdgeStep)

-----------------------------------------------------------------------------
(***************************************************************************)
(* Properties.                                                             *)
(***************************************************************************)

\* What the bus tells is true and nothing on it is forgotten: an action told as
\* applied is on the bus and audited, and an action on the bus is told, at work
\* or cut short by a crash or a failing write.
EdgeIsAccountedFor ==
    \A event \in EdgeEvents :
        /\ Line("auto_crypto.edge_action.applied", event) \in bus =>
              /\ Line("edge.action", event) \in bus
              /\ HasRepository => event \in edgeAudit
        /\ Line("edge.action", event) \in bus =>
              \/ Line("auto_crypto.edge_action.applied", event) \in bus
              \/ edge = event
              \/ event \in cut

\* A halting Edge action that is let in halts the engine, also when its audit or
\* its answer then fails, unless the process dies or the action cannot be
\* written down.
EdgeHaltTakesEffect ==
    \A event \in EdgeEvents :
        event.halts /\ edge = event ~> halted \/ event \in cut
=============================================================================
