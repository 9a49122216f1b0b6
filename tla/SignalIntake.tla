---------------------------- MODULE SignalIntake ----------------------------
(***************************************************************************)
(* The life of an alert: SignalIntakeService.handle decides it or parks it *)
(* for an operator, approve and reject decide a parked one (intake.py).    *)
(*                                                                         *)
(* Every repository call is a SQLite transaction of its own.  The handlers *)
(* run on the event loop without an await, so nothing interleaves with     *)
(* them, but a crash or a failing write can fall between two transactions. *)
(* A handler is therefore a chain of steps that hold `loop`, one per       *)
(* transaction.  An audit event is such a step, since its write can fail;  *)
(* what it says is not kept.  An alert can be delivered again at any time: *)
(* the sender retries when the answer is lost.                             *)
(***************************************************************************)
EXTENDS TradingDesk, Sequences

CONSTANTS
    NoSignal,         \* no pending signal
    RequireApproval   \* AUTO_CRYPTO_REQUIRE_APPROVAL

Ids == {signal.id : signal \in Signals}

\* Signals as the program can hold them: as sent, or read back from SQLite.
HeldSignals == Signals \cup {Reserialized(signal) : signal \in Signals}

ASSUME IntakeAssumption ==
    /\ NoSignal \notin HeldSignals
    /\ NoJob \notin HeldSignals
    /\ RequireApproval \in BOOLEAN

VARIABLES
    stored,     \* signal_id keys of the signals table
    claims,     \* signal_id keys of the signal_claims table
    pending,    \* pending[id]: the signal parked under id, or NoSignal
    verdicts,   \* verdicts[id]: final answers given to id           (history)
    orphans     \* ids whose handler was cut short                   (history)

intakeVars == <<stored, claims, pending, verdicts, orphans>>

vars == <<deskVars, intakeVars>>

\* The transactions of the handlers: the audit event signal.received, the pending
\* approval, then the audit events approval.requested, order.rejected and
\* approval.rejected.
Phases == {"idle", "receive", "park", "request", "refuse", "decline"}

IntakeTypeOK ==
    /\ DeskTypeOK
    /\ stored \subseteq Ids
    /\ claims \subseteq Ids
    /\ pending \in [Ids -> HeldSignals \cup {NoSignal}]
    /\ verdicts \in [Ids -> Seq({"rejected", "declined"})]
    /\ orphans \subseteq Ids

TypeOK == IntakeTypeOK /\ loop \in [pc : Phases, job : HeldSignals \cup {NoJob}]

Init ==
    /\ DeskInit
    /\ stored = {}
    /\ claims = {}
    /\ pending = [id \in Ids |-> NoSignal]
    /\ verdicts = [id \in Ids |-> <<>>]
    /\ orphans = {}

-----------------------------------------------------------------------------
(***************************************************************************)
(* Decisions.                                                              *)
(***************************************************************************)

\* Mutant of EngineStatus: a refusal is answered with the word for a duplicate.
EngineStatusDuplicate == IF halted THEN "halted" ELSE "duplicate"

\* TradingEngine.process_signal: a running engine turns every signal away, local
\* paper execution having been removed from it.
EngineStatus == IF halted THEN "halted" ELSE "rejected"

RiskApproved(signal) == signal.risk_ok /\ ~stopped

NeedsApproval(signal) == RequireApproval \/ ApprovalRequired(signal)

\* Mutant of Claim: save_signal instead of claim_signal.
ClaimNothing(signal) ==
    /\ stored' = IF HasRepository THEN stored \cup {signal.id} ELSE stored
    /\ UNCHANGED claims

\* The first write of handle's common path: claim_signal, or nothing without a
\* repository.
Claim(signal) ==
    /\ claims' = IF HasRepository THEN claims \cup {signal.id} ELSE claims
    /\ stored' = IF HasRepository THEN stored \cup {signal.id} ELSE stored

\* save_signal on handle's two early paths, which claim nothing.
Save(signal) ==
    /\ stored' = IF HasRepository THEN stored \cup {signal.id} ELSE stored
    /\ UNCHANGED claims

-----------------------------------------------------------------------------
(***************************************************************************)
(* handle.                                                                 *)
(***************************************************************************)

\* What every path does with a delivered signal; the guards and the writes of
\* the paths are conjoined to it.
Deliver(signal) ==
    /\ loop = Idle
    /\ UNCHANGED <<halted, haltQueued, rules, cooling, stopped, enabled, restarts,
                   pending, verdicts, orphans>>

\* A halted engine stores the signal and answers "halted"; it stays unclaimed.
HandleHalted(signal) ==
    /\ halted
    /\ Deliver(signal)
    /\ Save(signal)
    /\ UNCHANGED loop

\* A claimed signal is a duplicate.
HandleDuplicate(signal) ==
    /\ ~halted
    /\ signal.id \in claims
    /\ Deliver(signal)
    /\ UNCHANGED <<loop, stored, claims>>

\* The runtime controls turn the signal away; it stays unclaimed, so the sender
\* may try again once they allow it.
HandleBlocked(signal) ==
    /\ ~halted
    /\ signal.id \notin claims
    /\ IntakeBlocked(signal, rules, cooling)
    /\ Deliver(signal)
    /\ Save(signal)
    /\ UNCHANGED loop

\* The common path claims the signal and goes on.
HandleClaim(signal) ==
    /\ ~halted
    /\ signal.id \notin claims
    /\ ~IntakeBlocked(signal, rules, cooling)
    /\ Deliver(signal)
    /\ Claim(signal)
    /\ loop' = [pc |-> "receive", job |-> signal]

\* Mutant of AuditReceived: the handler returns before it has decided.
AuditReceivedReturns ==
    /\ loop.pc = "receive"
    /\ LoopGoes("idle")
    /\ UNCHANGED <<halted, haltQueued, rules, cooling, stopped, enabled, restarts,
                   stored, claims, pending, verdicts, orphans>>

\* record_audit of signal.received, and the choice between the approval queue and
\* the engine.
AuditReceived ==
    /\ loop.pc = "receive"
    /\ LoopGoes(IF NeedsApproval(loop.job) /\ RiskApproved(loop.job)
                THEN "park" ELSE "refuse")
    /\ UNCHANGED <<halted, haltQueued, rules, cooling, stopped, enabled, restarts,
                   stored, claims, pending, verdicts, orphans>>

\* save_pending_approval, or ApprovalQueue.add, which keeps the signal as sent.
Park ==
    /\ loop.pc = "park"
    /\ pending' = [pending EXCEPT ![loop.job.id] =
                      IF HasRepository THEN Reserialized(loop.job) ELSE loop.job]
    /\ LoopGoes("request")
    /\ UNCHANGED <<halted, haltQueued, rules, cooling, stopped, enabled, restarts,
                   stored, claims, verdicts, orphans>>

\* record_audit of approval.requested; the sender is answered.
AuditRequested ==
    /\ loop.pc = "request"
    /\ LoopGoes("idle")
    /\ UNCHANGED <<halted, haltQueued, rules, cooling, stopped, enabled, restarts,
                   stored, claims, pending, verdicts, orphans>>

\* _record_result of a refused signal, claimed or approved.
AuditRefused ==
    /\ loop.pc = "refuse"
    /\ verdicts' = [verdicts EXCEPT ![loop.job.id] = Append(@, EngineStatus)]
    /\ LoopGoes("idle")
    /\ UNCHANGED <<halted, haltQueued, rules, cooling, stopped, enabled, restarts,
                   stored, claims, pending, orphans>>

-----------------------------------------------------------------------------
(***************************************************************************)
(* approve and reject.                                                     *)
(***************************************************************************)

\* Approving while halted answers "halted" and keeps the signal parked: nothing
\* changes but the audit trail.
ApproveHalted(id) ==
    /\ loop = Idle
    /\ halted
    /\ pending[id] # NoSignal
    /\ UNCHANGED <<deskVars, stored, claims, pending, verdicts, orphans>>

\* Mutant of Approve: the halt switch is not looked at.
ApproveWhileHalted(id) ==
    /\ loop = Idle
    /\ pending[id] # NoSignal
    /\ pending' = [pending EXCEPT ![id] = NoSignal]
    /\ loop' = [pc |-> "refuse", job |-> pending[id]]
    /\ UNCHANGED <<halted, haltQueued, rules, cooling, stopped, enabled, restarts,
                   stored, claims, verdicts, orphans>>

\* The parked signal is taken out.  Whether the runtime controls now reject it or
\* the engine decides, the answer is a refusal: only its reasons differ.
Approve(id) ==
    /\ loop = Idle
    /\ ~halted
    /\ pending[id] # NoSignal
    /\ pending' = [pending EXCEPT ![id] = NoSignal]
    /\ loop' = [pc |-> "refuse", job |-> pending[id]]
    /\ UNCHANGED <<halted, haltQueued, rules, cooling, stopped, enabled, restarts,
                   stored, claims, verdicts, orphans>>

\* Mutant of Decline: the parked signal is read and not taken out.
DeclineInPlace(id) ==
    /\ loop = Idle
    /\ pending[id] # NoSignal
    /\ loop' = [pc |-> "decline", job |-> pending[id]]
    /\ UNCHANGED <<halted, haltQueued, rules, cooling, stopped, enabled, restarts,
                   stored, claims, pending, verdicts, orphans>>

\* The operator rejects: pop, then audit.  A halt does not prevent it.
Decline(id) ==
    /\ loop = Idle
    /\ pending[id] # NoSignal
    /\ pending' = [pending EXCEPT ![id] = NoSignal]
    /\ loop' = [pc |-> "decline", job |-> pending[id]]
    /\ UNCHANGED <<halted, haltQueued, rules, cooling, stopped, enabled, restarts,
                   stored, claims, verdicts, orphans>>

AuditDeclined ==
    /\ loop.pc = "decline"
    /\ verdicts' = [verdicts EXCEPT ![loop.job.id] = Append(@, "declined")]
    /\ LoopGoes("idle")
    /\ UNCHANGED <<halted, haltQueued, rules, cooling, stopped, enabled, restarts,
                   stored, claims, pending, orphans>>

-----------------------------------------------------------------------------
(***************************************************************************)
(* Failures.                                                               *)
(***************************************************************************)

\* The signal in hand is lost, unless it is parked already.
CutShort == {signal.id : signal \in {loop.job} \ {NoJob}} \ {id \in Ids : pending[id] # NoSignal}

\* The handler's next transaction raises and its caller gets a 500 answer.
StorageFails ==
    /\ HasRepository
    /\ loop # Idle
    /\ orphans' = orphans \cup CutShort
    /\ LoopGoes("idle")
    /\ UNCHANGED <<halted, haltQueued, rules, cooling, stopped, enabled, restarts,
                   stored, claims, pending, verdicts>>

\* A crash.  Without a repository the approval queue is gone with the process.
Restart ==
    /\ DeskRestart
    /\ orphans' = orphans \cup CutShort
    /\ pending' = IF HasRepository THEN pending ELSE [id \in Ids |-> NoSignal]
    /\ UNCHANGED <<stored, claims, verdicts>>

\* intake.handle: the paths of a delivered signal.
Handle(signal) ==
    \/ HandleHalted(signal)
    \/ HandleDuplicate(signal)
    \/ HandleBlocked(signal)
    \/ HandleClaim(signal)

Decide(id) == ApproveHalted(id) \/ Approve(id) \/ Decline(id)

HandlerStep ==
    AuditReceived \/ Park \/ AuditRequested \/ AuditRefused \/ AuditDeclined
      \/ StorageFails

Next ==
    \/ DeskStep /\ UNCHANGED intakeVars
    \/ \E signal \in Signals : Handle(signal)
    \/ \E id \in Ids : Decide(id)
    \/ HandlerStep
    \/ Restart

Spec == Init /\ [][Next]_vars

\* A handler that holds the loop runs to its end: all it does is local.
FairSpec == Spec /\ WF_vars(HandlerStep)

-----------------------------------------------------------------------------
(***************************************************************************)
(* Properties.                                                             *)
(***************************************************************************)

Handled(id) == loop.job # NoJob /\ loop.job.id = id

Waiting(id) == pending[id] # NoSignal

\* With a repository a signal id gets at most one final answer, however often it
\* is delivered, approved and rejected, and across every crash ("Signal IDs are
\* claimed with insert-only idempotency writes", README.md:1063).
DecidedOnce == HasRepository => \A id \in Ids : Len(verdicts[id]) <= 1

\* Every claimed id is stored and in exactly one place: in the hands of the handler, parked,
\* answered, or cut short by a crash or a failing write.  Nothing claimed goes
\* missing any other way, and nothing answered is still parked.
ClaimedIsAccountedFor ==
    /\ claims \subseteq stored
    /\ \A id \in claims :
          \/ Waiting(id) /\ verdicts[id] = <<>> /\ id \notin orphans
          \/ ~Waiting(id) /\ Handled(id) /\ verdicts[id] = <<>> /\ id \notin orphans
          \/ ~Waiting(id) /\ ~Handled(id) /\ Len(verdicts[id]) = 1 /\ id \notin orphans
          \/ ~Waiting(id) /\ ~Handled(id) /\ verdicts[id] = <<>> /\ id \in orphans

\* While the engine is halted no signal is claimed, parked or answered, except
\* that an operator may reject a parked one.
HaltFreezesIntake ==
    [][halted /\ halted' =>
         /\ claims' = claims
         /\ \A id \in Ids :
               /\ pending'[id] # pending[id] => pending'[id] = NoSignal
               /\ verdicts'[id] # verdicts[id] => verdicts'[id] = Append(verdicts[id], "declined")]_vars

\* A claimed signal does not stay in the hands of the handler: it is answered or
\* waits for an operator, unless its handling is cut short.
ClaimedIsSettled ==
    \A id \in Ids : id \in claims ~> (Waiting(id) \/ verdicts[id] # <<>> \/ id \in orphans)
=============================================================================
