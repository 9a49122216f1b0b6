--------------------------- MODULE WebhooksProofs ---------------------------
(***************************************************************************)
(* Proofs about the signed doors and the intake behind them, for any       *)
(* alerts, rules, timestamps, Edge actions and restarts, with and without  *)
(* a repository and with and without required approval.                    *)
(***************************************************************************)
EXTENDS Webhooks, TLAPS

USE DeskAssumption, IntakeAssumption, WebhookAssumption

-----------------------------------------------------------------------------
(***************************************************************************)
(* The inductive invariant.                                                *)
(***************************************************************************)

\* The handler at work is the intake's, with a signal, or the bus's, with an
\* Edge action.  A running engine stays so until the intake has decided.
LoopOK ==
    /\ loop \in [pc : Phases \cup EdgePhases, job : HeldSignals \cup {NoJob}]
    /\ loop.job = NoJob <=> loop = Idle \/ edge # NoEdge
    /\ edge # NoEdge <=> loop.pc \in EdgePhases
    /\ loop.pc = "idle" => loop = Idle
    /\ loop.pc \in {"receive", "park"} => loop.job \in Signals
    /\ loop.pc \in {"receive", "park", "request", "refuse"} => ~halted

\* A parked signal is parked under its own id.
PendingOK == \A id \in Ids : Waiting(id) => pending[id].id = id

\* Where a signal id stands: never claimed, parked, in the hands of the handler,
\* answered, or cut short.
Unseen(id) == id \notin claims /\ ~Waiting(id) /\ ~Handled(id) /\ verdicts[id] = <<>> /\ id \notin orphans

Parked(id) ==
    /\ id \in claims /\ Waiting(id) /\ verdicts[id] = <<>> /\ id \notin orphans
    /\ Handled(id) => loop.pc = "request"

InHand(id) ==
    /\ id \in claims /\ ~Waiting(id) /\ verdicts[id] = <<>> /\ id \notin orphans
    /\ Handled(id) /\ loop.pc # "request"

Answered(id) ==
    /\ id \in claims /\ ~Waiting(id) /\ ~Handled(id) /\ id \notin orphans
    /\ \E answer \in {"rejected", "declined"} : verdicts[id] = <<answer>>

Orphaned(id) == id \in claims /\ ~Waiting(id) /\ ~Handled(id) /\ verdicts[id] = <<>> /\ id \in orphans

Stands(id) == Unseen(id) \/ Parked(id) \/ InHand(id) \/ Answered(id) \/ Orphaned(id)

\* Every id stands somewhere, and without a repository none is ever claimed.
ClaimsOK ==
    /\ claims \subseteq stored
    /\ HasRepository => \A id \in Ids : Stands(id)
    /\ ~HasRepository => claims = {}

\* The writes that the handler of the Edge action at work has behind it.
EdgeOK ==
    /\ edge \in EdgeEvents \cup {NoEdge}
    /\ loop.pc \in {"edge_audit", "tell"} => Line("edge.action", edge) \in bus
    /\ loop.pc = "tell" /\ HasRepository => edge \in edgeAudit

BusTypeOK ==
    /\ seen \subseteq {Request(stamp, body) : stamp \in Stamps, body \in Bodies}
    /\ bus \subseteq {Line(type, event) : type \in LineTypes, event \in EdgeEvents}
    /\ edgeAudit \subseteq EdgeEvents
    /\ cut \subseteq EdgeEvents

\* What the invariant says of the intake, and all of it.
IntakeInv == IntakeTypeOK /\ LoopOK /\ PendingOK /\ ClaimsOK

IInv == IntakeInv /\ BusTypeOK /\ EdgeOK /\ EdgeIsAccountedFor

-----------------------------------------------------------------------------
(***************************************************************************)
(* Lemmas.                                                                 *)
(***************************************************************************)

\* A signal read back from SQLite has the id it was stored under.
LEMMA ReserializedId == \A signal \in Signals : Reserialized(signal).id = signal.id
BY DEF Reserialized

\* A signal a handler holds, reserialised or not, has one of the ids.
LEMMA HeldIds == \A held \in HeldSignals : held.id \in Ids
BY ReserializedId DEF HeldSignals, Ids

\* The desk's own steps keep its variables and the loop well typed; a halt waits
\* for an idle loop.
LEMMA DeskStepType ==
    ASSUME DeskTypeOK, DeskStep
    PROVE  DeskTypeOK' /\ loop' = loop /\ (halted' = halted \/ loop = Idle)
BY DEF DeskTypeOK, DeskStep, RequestHalt, HandleHalt, Resume, SetRule, DeleteRule,
       RuleExpires, ExitRecorded, CooldownElapses, AccountMoves, WithRule, WithoutRule

\* A step that leaves the intake and the signal in hand alone keeps its invariant.
LEMMA IntakeStays ==
    ASSUME IntakeInv, UNCHANGED intakeVars, DeskTypeOK', LoopOK',
           loop' = loop \/ (loop.job = NoJob /\ loop'.job = NoJob)
    PROVE  IntakeInv'
<1>1. IntakeTypeOK' /\ PendingOK'
  BY DEF IntakeInv, IntakeTypeOK, PendingOK, Waiting, intakeVars
<1>2. \A id \in Ids : Stands(id) => Stands(id)'
  BY DEF Stands, Unseen, Parked, InHand, Answered, Orphaned, Waiting, Handled, intakeVars
<1>3. ClaimsOK'
  BY <1>2 DEF IntakeInv, ClaimsOK, intakeVars
<1>. QED
  BY <1>1, <1>3 DEF IntakeInv

\* An id that a step says nothing of stands where it stood.
LEMMA OthersStand ==
    ASSUME NEW id \in Ids, Stands(id), ~Handled(id), ~Handled(id)',
           id \in claims' <=> id \in claims, pending'[id] = pending[id],
           verdicts'[id] = verdicts[id], id \in orphans' <=> id \in orphans
    PROVE  Stands(id)'
BY DEF Stands, Unseen, Parked, InHand, Answered, Orphaned, Waiting

-----------------------------------------------------------------------------
(***************************************************************************)
(* Steps of the intake.                                                    *)
(***************************************************************************)

\* A delivery, on each of its four paths, leaves each id in one of its situations.
LEMMA HandleKeeps ==
    ASSUME IntakeInv, EdgeOK, NEW signal \in Signals, Handle(signal), edge' = edge
    PROVE  IntakeInv'
<1>0. loop = Idle /\ edge = NoEdge /\ signal.id \in Ids /\ signal \in HeldSignals
  BY DEF Handle, HandleHalted, HandleDuplicate, HandleBlocked, HandleClaim, Deliver,
         IntakeInv, LoopOK, Idle, EdgePhases, Ids, HeldSignals
<1>1. CASE loop' = loop /\ claims' = claims
  <2>1. /\ UNCHANGED <<pending, verdicts, orphans, claims, halted, edge>>
        /\ stored \subseteq stored' /\ stored' \subseteq Ids /\ DeskTypeOK'
    BY <1>0, <1>1 DEF Handle, HandleHalted, HandleDuplicate, HandleBlocked, HandleClaim,
                      Deliver, Save, Claim, IntakeInv, IntakeTypeOK, DeskTypeOK, Idle
  <2>2. \A id \in Ids : Stands(id) => Stands(id)'
    BY <1>1, <2>1
       DEF Stands, Unseen, Parked, InHand, Answered, Orphaned, Waiting, Handled
  <2>3. IntakeTypeOK' /\ LoopOK' /\ PendingOK'
    BY <1>1, <2>1 DEF IntakeInv, IntakeTypeOK, LoopOK, PendingOK, Waiting, Idle
  <2>4. ClaimsOK'
    BY <2>1, <2>2 DEF IntakeInv, ClaimsOK
  <2>. QED
    BY <2>3, <2>4 DEF IntakeInv
<1>2. CASE HandleClaim(signal)
  <2>1. /\ UNCHANGED <<pending, verdicts, orphans, halted, edge>>
        /\ loop' = [pc |-> "receive", job |-> signal] /\ ~halted
        /\ Claim(signal) /\ signal.id \notin claims /\ DeskTypeOK'
    BY <1>2 DEF HandleClaim, Deliver, IntakeInv, IntakeTypeOK, DeskTypeOK
  <2>2. IntakeTypeOK' /\ PendingOK'
    BY <1>0, <2>1 DEF IntakeInv, IntakeTypeOK, PendingOK, Waiting, Claim
  <2>3. LoopOK'
    BY <1>0, <2>1 DEF LoopOK, Idle, Phases, EdgePhases
  <2>4. ASSUME HasRepository, NEW id \in Ids
        PROVE  Stands(id)'
    <3>1. Stands(id) /\ ~Handled(id)
      BY <1>0, <2>4 DEF IntakeInv, ClaimsOK, Handled, Idle
    <3>2. CASE id = signal.id
      <4>1. Unseen(id)
        BY <2>1, <3>1, <3>2 DEF Stands, Unseen, Parked, InHand, Answered, Orphaned
      <4>2. InHand(id)'
        BY <1>0, <2>1, <2>4, <3>2, <4>1 DEF Unseen, InHand, Handled, Waiting, Claim
      <4>. QED
        BY <4>2 DEF Stands
    <3>3. CASE id # signal.id
      <4>1. ~Handled(id)'
        BY <2>1, <3>3 DEF Handled
      <4>2. id \in claims' <=> id \in claims
        BY <2>1, <3>3 DEF Claim
      <4>. QED
        BY <2>1, <3>1, <4>1, <4>2, OthersStand
    <3>. QED
      BY <3>2, <3>3
  <2>5. ClaimsOK'
    BY <2>1, <2>4 DEF IntakeInv, ClaimsOK, Claim
  <2>. QED
    BY <2>2, <2>3, <2>5 DEF IntakeInv
<1>. QED
  BY <1>1, <1>2 DEF Handle, HandleHalted, HandleDuplicate, HandleBlocked, Save

\* So does a decision of an operator.
LEMMA DecideKeeps ==
    ASSUME IntakeInv, EdgeOK, NEW id \in Ids, Decide(id), edge' = edge
    PROVE  IntakeInv'
<1>0. loop = Idle /\ edge = NoEdge /\ Waiting(id)
  BY DEF Decide, ApproveHalted, Approve, Decline, IntakeInv, LoopOK, Idle, EdgePhases, Waiting
<1>1. CASE ApproveHalted(id)
  <2>1. UNCHANGED <<deskVars, intakeVars, edge>>
    BY <1>1 DEF ApproveHalted, intakeVars
  <2>2. DeskTypeOK' /\ LoopOK'
    BY <2>1 DEF IntakeInv, IntakeTypeOK, DeskTypeOK, LoopOK, deskVars, Idle
  <2>. QED
    BY <2>1, <2>2, IntakeStays DEF deskVars
<1>2. CASE Approve(id) \/ Decline(id)
  <2>1. PICK pc \in {"refuse", "decline"} : /\ loop' = [pc |-> pc, job |-> pending[id]]
                                            /\ pc = "refuse" => ~halted
    BY <1>2 DEF Approve, Decline
  <2>2. /\ UNCHANGED <<stored, claims, verdicts, orphans, halted, edge>>
        /\ pending' = [pending EXCEPT ![id] = NoSignal] /\ DeskTypeOK'
    BY <1>2 DEF Approve, Decline, IntakeInv, IntakeTypeOK, DeskTypeOK
  <2>3. pending[id] \in HeldSignals /\ pending[id].id = id
    BY <1>0 DEF IntakeInv, IntakeTypeOK, PendingOK, Waiting
  <2>4. pending'[id] = NoSignal /\ \A other \in Ids \ {id} : pending'[other] = pending[other]
    BY <2>2 DEF IntakeInv, IntakeTypeOK
  <2>5. IntakeTypeOK' /\ PendingOK'
    BY <2>2, <2>4 DEF IntakeInv, IntakeTypeOK, PendingOK, Waiting
  <2>6. LoopOK'
    BY <1>0, <2>1, <2>2, <2>3 DEF LoopOK, Idle, Phases, EdgePhases
  <2>7. ASSUME HasRepository, NEW other \in Ids
        PROVE  Stands(other)'
    <3>1. Stands(other) /\ ~Handled(other)
      BY <1>0, <2>7 DEF IntakeInv, ClaimsOK, Handled, Idle
    <3>2. CASE other = id
      <4>1. Parked(id)
        BY <1>0, <3>1, <3>2 DEF Stands, Unseen, Parked, InHand, Answered, Orphaned
      <4>2. Handled(id)' /\ ~Waiting(id)' /\ loop'.pc # "request"
        BY <2>1, <2>3, <2>4 DEF Handled, Waiting
      <4>3. InHand(id)'
        BY <2>2, <4>1, <4>2 DEF Parked, InHand
      <4>. QED
        BY <3>2, <4>3 DEF Stands
    <3>3. CASE other # id
      <4>1. ~Handled(other)'
        BY <2>1, <2>3, <3>3 DEF Handled
      <4>. QED
        BY <2>2, <2>4, <3>1, <3>3, <4>1, OthersStand
    <3>. QED
      BY <3>2, <3>3
  <2>8. ClaimsOK'
    BY <2>2, <2>7 DEF IntakeInv, ClaimsOK
  <2>. QED
    BY <2>5, <2>6, <2>8 DEF IntakeInv
<1>. QED
  BY <1>1, <1>2 DEF Decide

\* The handler at work holds a signal with an id of the instance.
LEMMA JobHeld ==
    ASSUME LoopOK, edge = NoEdge, loop # Idle
    PROVE  loop.job \in HeldSignals /\ loop.job # NoJob /\ loop.job.id \in Ids
BY HeldIds DEF LoopOK

\* A step of the handler that only moves on to its next phase.
LEMMA AuditKeeps ==
    ASSUME IntakeInv, EdgeOK, edge = NoEdge, edge' = edge, AuditReceived
    PROVE  IntakeInv'
<1>1. PICK pc \in {"park", "refuse"} : loop' = [loop EXCEPT !.pc = pc]
  BY DEF AuditReceived, LoopGoes
<1>2. /\ UNCHANGED <<stored, claims, pending, verdicts, orphans, halted>>
      /\ DeskTypeOK' /\ loop.pc = "receive" /\ ~halted
  BY DEF AuditReceived, IntakeInv, IntakeTypeOK, DeskTypeOK, LoopOK
<1>3. loop'.job = loop.job /\ loop'.pc = pc /\ loop' \in [pc : Phases \cup EdgePhases, job : HeldSignals \cup {NoJob}]
  BY <1>1 DEF IntakeInv, LoopOK, Phases
<1>4. loop.job # NoJob /\ loop.job \in Signals
  BY <1>2 DEF IntakeInv, LoopOK, HeldSignals
<1>5. LoopOK'
  BY <1>2, <1>3, <1>4 DEF LoopOK, Idle, EdgePhases
<1>6. \A id \in Ids : Stands(id) => Stands(id)'
  BY <1>2, <1>3 DEF Stands, Unseen, Parked, InHand, Answered, Orphaned, Waiting, Handled
<1>7. IntakeTypeOK' /\ PendingOK'
  BY <1>2 DEF IntakeInv, IntakeTypeOK, PendingOK, Waiting
<1>8. ClaimsOK'
  BY <1>2, <1>6 DEF IntakeInv, ClaimsOK
<1>. QED
  BY <1>5, <1>7, <1>8 DEF IntakeInv

\* So does parking a claimed signal for approval.
LEMMA ParkKeeps ==
    ASSUME IntakeInv, EdgeOK, edge = NoEdge, edge' = edge, Park
    PROVE  IntakeInv'
<1>. DEFINE parked == IF HasRepository THEN Reserialized(loop.job) ELSE loop.job
            own == loop.job.id
<1>1. loop.pc = "park" /\ loop.job \in Signals /\ ~halted
  BY DEF IntakeInv, LoopOK, Park
<1>2. own \in Ids /\ parked \in HeldSignals /\ parked.id = own /\ loop.job # NoJob
  BY <1>1, ReserializedId DEF Ids, HeldSignals
<1>3. /\ UNCHANGED <<stored, claims, verdicts, orphans, halted>> /\ DeskTypeOK'
      /\ pending' = [pending EXCEPT ![own] = parked]
      /\ loop' = [loop EXCEPT !.pc = "request"]
  BY DEF Park, LoopGoes, IntakeInv, IntakeTypeOK, DeskTypeOK
<1>4. loop'.job = loop.job /\ loop'.pc = "request" /\ loop' \in [pc : Phases \cup EdgePhases, job : HeldSignals \cup {NoJob}]
  BY <1>3 DEF IntakeInv, LoopOK, Phases
<1>5. pending'[own] = parked /\ \A id \in Ids \ {own} : pending'[id] = pending[id]
  BY <1>2, <1>3 DEF IntakeInv, IntakeTypeOK
<1>. HIDE DEF parked, own
<1>6. IntakeTypeOK'
  BY <1>2, <1>3 DEF IntakeInv, IntakeTypeOK
<1>7. PendingOK'
  BY <1>2, <1>5 DEF IntakeInv, PendingOK, Waiting
<1>8. LoopOK'
  BY <1>1, <1>2, <1>3, <1>4 DEF LoopOK, Idle, EdgePhases
<1>9. \A id \in Ids : Waiting(id)' <=> id = own \/ Waiting(id)
  BY <1>2, <1>5 DEF Waiting
<1>10. ASSUME HasRepository, NEW id \in Ids
       PROVE  Stands(id)'
  <2>1. Stands(id)
    BY <1>10 DEF IntakeInv, ClaimsOK
  <2>2. CASE id = own
    <3>1. Handled(id)
      BY <1>2, <2>2 DEF Handled, own
    <3>2. InHand(id)
      BY <1>1, <2>1, <3>1 DEF Stands, Unseen, Parked, InHand, Answered, Orphaned
    <3>3. Parked(id)'
      BY <1>3, <1>4, <1>9, <2>2, <3>2 DEF InHand, Parked
    <3>. QED
      BY <3>3 DEF Stands
  <2>3. CASE id # own
    <3>1. ~Handled(id) /\ ~Handled(id)'
      BY <1>4, <2>3 DEF Handled, own
    <3>. QED
      BY <1>3, <1>5, <2>1, <2>3, <3>1, OthersStand
  <2>. QED
    BY <2>2, <2>3
<1>11. ClaimsOK'
  BY <1>3, <1>10 DEF IntakeInv, ClaimsOK
<1>. QED
  BY <1>6, <1>7, <1>8, <1>11 DEF IntakeInv

\* A handler that returns leaves the loop to the next one.
LEMMA ReturnIdles ==
    ASSUME IntakeInv, loop' = Idle, edge' = NoEdge, EdgeOK
    PROVE  LoopOK' /\ \A id \in Ids : ~Handled(id)'
BY DEF LoopOK, Idle, Phases, EdgePhases, Handled

\* So does the audit event of the approval asked for.
LEMMA RequestKeeps ==
    ASSUME IntakeInv, EdgeOK, edge = NoEdge, edge' = edge, AuditRequested
    PROVE  IntakeInv'
<1>1. /\ UNCHANGED <<stored, claims, pending, verdicts, orphans>> /\ DeskTypeOK'
      /\ loop.pc = "request" /\ loop' = Idle
  BY DEF AuditRequested, LoopGoes, IntakeInv, IntakeTypeOK, DeskTypeOK
<1>2. LoopOK' /\ \A id \in Ids : ~Handled(id)'
  BY <1>1, ReturnIdles
<1>3. \A id \in Ids : Stands(id) => Stands(id)'
  BY <1>1, <1>2 DEF Stands, Unseen, Parked, InHand, Answered, Orphaned, Waiting
<1>4. IntakeTypeOK' /\ PendingOK'
  BY <1>1 DEF IntakeInv, IntakeTypeOK, PendingOK, Waiting
<1>5. ClaimsOK'
  BY <1>1, <1>3 DEF IntakeInv, ClaimsOK
<1>. QED
  BY <1>2, <1>4, <1>5 DEF IntakeInv

\* A final answer, by the engine or by the operator.
LEMMA AnswerKeeps ==
    ASSUME IntakeInv, EdgeOK, edge = NoEdge, edge' = edge, AuditRefused \/ AuditDeclined
    PROVE  IntakeInv'
<1>. DEFINE own == loop.job.id
<1>1. PICK answer \in {"rejected", "declined"} :
          /\ verdicts' = [verdicts EXCEPT ![own] = Append(verdicts[own], answer)]
          /\ loop.pc \in {"refuse", "decline"} /\ loop' = Idle
  BY DEF IntakeInv, LoopOK, AuditRefused, AuditDeclined, LoopGoes, EngineStatus
<1>2. UNCHANGED <<stored, claims, pending, orphans>> /\ DeskTypeOK'
  BY DEF AuditRefused, AuditDeclined, IntakeInv, IntakeTypeOK, DeskTypeOK
<1>3. own \in Ids /\ loop.job # NoJob
  BY <1>1, JobHeld DEF IntakeInv, Idle
<1>4. LoopOK' /\ \A id \in Ids : ~Handled(id)'
  BY <1>1, ReturnIdles
<1>. HIDE DEF own
<1>5. /\ verdicts' \in [Ids -> Seq({"rejected", "declined"})]
      /\ verdicts'[own] = Append(verdicts[own], answer)
      /\ \A id \in Ids \ {own} : verdicts'[id] = verdicts[id]
  <2>1. verdicts \in [Ids -> Seq({"rejected", "declined"})]
    BY DEF IntakeInv, IntakeTypeOK
  <2>2. Append(verdicts[own], answer) \in Seq({"rejected", "declined"})
    BY <1>3, <2>1
  <2>. QED
    BY <1>1, <1>3, <2>1, <2>2
<1>6. IntakeTypeOK' /\ PendingOK'
  BY <1>2, <1>5 DEF IntakeInv, IntakeTypeOK, PendingOK, Waiting
<1>7. ASSUME HasRepository, NEW id \in Ids
      PROVE  Stands(id)'
  <2>1. Stands(id)
    BY <1>7 DEF IntakeInv, ClaimsOK
  <2>2. CASE id = own
    <3>1. Handled(id)
      BY <1>3, <2>2 DEF Handled, own
    <3>2. InHand(id)
      BY <1>1, <2>1, <3>1 DEF Stands, Unseen, Parked, InHand, Answered, Orphaned
    <3>3. verdicts'[id] = <<answer>>
      BY <1>5, <2>2, <3>2 DEF InHand
    <3>4. Answered(id)'
      BY <1>2, <1>4, <3>2, <3>3 DEF InHand, Answered, Waiting
    <3>. QED
      BY <3>4 DEF Stands
  <2>3. CASE id # own
    <3>1. ~Handled(id)
      BY <2>3 DEF Handled, own
    <3>. QED
      BY <1>2, <1>4, <1>5, <2>1, <2>3, <3>1, OthersStand
  <2>. QED
    BY <2>2, <2>3
<1>8. ClaimsOK'
  BY <1>2, <1>7 DEF IntakeInv, ClaimsOK
<1>. QED
  BY <1>4, <1>6, <1>8 DEF IntakeInv

\* The handler of a signal is cut short; what it held is orphaned unless parked.
LEMMA CutKeeps ==
    ASSUME IntakeInv, EdgeOK, loop' = Idle, edge' = NoEdge, DeskTypeOK',
           UNCHANGED <<stored, claims, verdicts>>, orphans' = orphans \cup CutShort,
           pending' = pending \/ (~HasRepository /\ pending' = [id \in Ids |-> NoSignal])
    PROVE  IntakeInv'
<1>1. LoopOK' /\ \A id \in Ids : ~Handled(id)'
  BY ReturnIdles
<1>2. CutShort = {id \in Ids : Handled(id) /\ ~Waiting(id)}
  <2>1. loop.job = NoJob \/ loop.job.id \in Ids
    BY HeldIds DEF IntakeInv, LoopOK
  <2>. QED
    BY <2>1 DEF CutShort, Handled, Waiting
<1>3. IntakeTypeOK' /\ PendingOK'
  BY <1>2 DEF IntakeInv, IntakeTypeOK, PendingOK, Waiting
<1>4. ASSUME HasRepository, NEW id \in Ids
      PROVE  Stands(id)'
  <2>1. Stands(id) /\ pending' = pending
    BY <1>4 DEF IntakeInv, ClaimsOK
  <2>2. CASE InHand(id)
    <3>1. Orphaned(id)'
      BY <1>1, <1>2, <2>1, <2>2 DEF InHand, Orphaned, Waiting
    <3>. QED
      BY <3>1 DEF Stands
  <2>3. CASE Parked(id)
    <3>1. Parked(id)'
      BY <1>1, <1>2, <2>1, <2>3 DEF Parked, Waiting
    <3>. QED
      BY <3>1 DEF Stands
  <2>4. CASE ~InHand(id) /\ ~Parked(id)
    <3>1. ~Handled(id)
      BY <2>1, <2>4 DEF Stands, Unseen, Answered, Orphaned
    <3>. QED
      BY <1>1, <1>2, <2>1, <3>1, OthersStand
  <2>. QED
    BY <2>2, <2>3, <2>4
<1>5. ClaimsOK'
  BY <1>4 DEF IntakeInv, ClaimsOK
<1>. QED
  BY <1>1, <1>3, <1>5 DEF IntakeInv

-----------------------------------------------------------------------------
(***************************************************************************)
(* Steps of the bus and of the desk.                                       *)
(***************************************************************************)

\* An Edge action is no business of the intake's.
LEMMA EdgeKeepsIntake ==
    ASSUME IInv, EdgeStep \/ (\E event \in EdgeEvents : ReceiveEdge(event))
    PROVE  IntakeInv'
<1>1. UNCHANGED intakeVars /\ DeskTypeOK'
  BY DEF EdgeStep, PublishEdge, AuditEdge, TellEdge, EdgeWriteFails, ReceiveEdge,
         IInv, IntakeInv, IntakeTypeOK, DeskTypeOK, EdgeOK
<1>2. LoopOK' /\ loop.job = NoJob /\ loop'.job = NoJob
  <2>1. CASE \E event \in EdgeEvents : ReceiveEdge(event)
    BY <2>1 DEF ReceiveEdge, IInv, IntakeInv, LoopOK, Idle, Phases, EdgePhases
  <2>2. CASE EdgeStep
    <3>1. loop.pc \in EdgePhases /\ loop.job = NoJob
      BY <2>2 DEF EdgeStep, PublishEdge, AuditEdge, TellEdge, EdgeWriteFails,
                  IInv, IntakeInv, LoopOK, EdgePhases
    <3>2. CASE PublishEdge \/ AuditEdge
      BY <3>1, <3>2 DEF PublishEdge, AuditEdge, LoopGoes, IInv, IntakeInv, LoopOK, Idle, Phases, EdgePhases
    <3>3. CASE TellEdge \/ EdgeWriteFails
      BY <3>1, <3>3 DEF TellEdge, EdgeWriteFails, LoopGoes, IInv, IntakeInv, LoopOK, Idle, Phases, EdgePhases
    <3>. QED
      BY <2>2, <3>2, <3>3 DEF EdgeStep
  <2>. QED
    BY <2>1, <2>2
<1>. QED
  BY <1>1, <1>2, IntakeStays DEF IInv

\* Every step, of the doors too, keeps the invariant of the intake.
LEMMA NextIntake ==
    ASSUME IInv, [WebhooksNext]_allVars
    PROVE  IntakeInv'
<1>1. CASE OperatorHalts
  <2>1. UNCHANGED intakeVars /\ DeskTypeOK' /\ loop' = loop /\ loop = Idle /\ edge' = edge
    BY <1>1 DEF OperatorHalts, webhookVars, IInv, IntakeInv, IntakeTypeOK, DeskTypeOK
  <2>2. LoopOK'
    BY <2>1 DEF IInv, IntakeInv, LoopOK, Idle
  <2>. QED
    BY <2>1, <2>2, IntakeStays DEF IInv
<1>2. CASE DeskStep /\ UNCHANGED <<intakeVars, webhookVars>>
  <2>1. DeskTypeOK' /\ loop' = loop /\ (halted' = halted \/ loop = Idle) /\ edge' = edge
    BY <1>2, DeskStepType DEF IInv, IntakeInv, IntakeTypeOK, webhookVars
  <2>2. LoopOK'
    BY <2>1 DEF IInv, IntakeInv, LoopOK, Idle
  <2>. QED
    BY <1>2, <2>1, <2>2, IntakeStays DEF IInv
<1>3. ASSUME NEW stamp \in Stamps, NEW signal \in Signals, ReceiveAlert(stamp, signal)
      PROVE  IntakeInv'
  BY <1>3, HandleKeeps DEF ReceiveAlert, IInv
<1>4. CASE EdgeStep \/ (\E event \in EdgeEvents : ReceiveEdge(event))
  BY <1>4, EdgeKeepsIntake
<1>5. ASSUME NEW id \in Ids, Decide(id), UNCHANGED webhookVars
      PROVE  IntakeInv'
  BY <1>5, DecideKeeps DEF IInv, webhookVars
<1>6. CASE IntakeStep /\ UNCHANGED webhookVars
  <2>1. edge = NoEdge /\ edge' = edge
    BY <1>6 DEF IntakeStep, webhookVars
  <2>2. CASE StorageFails
    <3>1. /\ loop' = Idle /\ DeskTypeOK' /\ orphans' = orphans \cup CutShort
          /\ UNCHANGED <<stored, claims, pending, verdicts>>
      BY <2>2 DEF StorageFails, LoopGoes, IInv, IntakeInv, IntakeTypeOK, DeskTypeOK
    <3>. QED
      BY <2>1, <3>1, CutKeeps DEF IInv
  <2>. QED
    BY <1>6, <2>1, <2>2, AuditKeeps, ParkKeeps, RequestKeeps, AnswerKeeps
       DEF IntakeStep, HandlerStep, IInv
<1>7. CASE RestartAll
  <2>1. restarts' \in 0 .. MaxRestarts
    BY <1>7 DEF RestartAll, Restart, DeskRestart, IInv, IntakeInv, IntakeTypeOK, DeskTypeOK
  <2>2. DeskTypeOK'
    BY <1>7, <2>1, Zenon DEF RestartAll, Restart, DeskRestart, IInv, IntakeInv, IntakeTypeOK, DeskTypeOK
  <2>3. /\ loop' = Idle /\ edge' = NoEdge /\ orphans' = orphans \cup CutShort
        /\ UNCHANGED <<stored, claims, verdicts>>
        /\ pending' = pending \/ (~HasRepository /\ pending' = [id \in Ids |-> NoSignal])
    BY <1>7 DEF RestartAll, Restart, DeskRestart
  <2>. QED
    BY <2>2, <2>3, CutKeeps DEF IInv
<1>8. CASE UNCHANGED allVars
  <2>1. UNCHANGED intakeVars /\ DeskTypeOK' /\ loop' = loop /\ LoopOK'
    BY <1>8 DEF allVars, vars, deskVars, webhookVars, IInv, IntakeInv, IntakeTypeOK, DeskTypeOK,
                LoopOK, Idle
  <2>. QED
    BY <2>1, IntakeStays DEF IInv
<1>. QED
  BY <1>1, <1>2, <1>3, <1>4, <1>5, <1>6, <1>7, <1>8 DEF WebhooksNext

\* A step that leaves the bus alone and gives no Edge action the loop.
LEMMA BusStays ==
    ASSUME EdgeOK, EdgeIsAccountedFor, LoopOK', UNCHANGED <<bus, edgeAudit>>, cut \subseteq cut',
           \/ edge' = edge /\ cut' = cut /\ (loop' = loop \/ edge = NoEdge)
           \/ edge' = NoEdge /\ (edge # NoEdge => edge \in cut')
    PROVE  EdgeOK' /\ EdgeIsAccountedFor'
<1>1. EdgeOK'
  <2>1. CASE edge' = NoEdge
    BY <2>1 DEF EdgeOK, LoopOK, EdgePhases
  <2>2. CASE edge' # NoEdge
    BY <2>2 DEF EdgeOK
  <2>. QED
    BY <2>1, <2>2
<1>2. EdgeIsAccountedFor'
  BY DEF EdgeIsAccountedFor
<1>. QED
  BY <1>1, <1>2

\* An Edge action at work, or cut, stays accounted for.
LEMMA NextEdge ==
    ASSUME IInv, [WebhooksNext]_allVars
    PROVE  EdgeOK' /\ EdgeIsAccountedFor'
<1>0. LoopOK' /\ EdgeOK /\ EdgeIsAccountedFor /\ LoopOK
  BY NextIntake DEF IntakeInv, IInv
<1>1. ASSUME NEW event \in EdgeEvents, ReceiveEdge(event)
      PROVE  EdgeOK' /\ EdgeIsAccountedFor'
  <2>1. edge = NoEdge
    BY <1>0, <1>1 DEF ReceiveEdge, LoopOK, Idle, EdgePhases
  <2>. QED
    BY <1>0, <1>1, <2>1 DEF ReceiveEdge, EdgeOK, EdgeIsAccountedFor
<1>2. CASE PublishEdge
  <2>1. /\ loop'.pc = "edge_audit" /\ edge' = edge /\ edge \in EdgeEvents /\ edge # NoEdge
        /\ bus' = bus \cup {Line("edge.action", edge)} /\ UNCHANGED <<edgeAudit, cut>>
    BY <1>0, <1>2 DEF PublishEdge, LoopGoes, LoopOK, EdgeOK, EdgePhases
  <2>2. \A event : Line("auto_crypto.edge_action.applied", event) # Line("edge.action", edge)
    BY DEF Line
  <2>3. \A event : Line("edge.action", event) = Line("edge.action", edge) => event = edge
    BY DEF Line
  <2>. QED
    BY <1>0, <2>1, <2>2, <2>3 DEF EdgeOK, EdgeIsAccountedFor
<1>3. CASE AuditEdge
  <2>1. /\ loop.pc = "edge_audit" /\ loop'.pc = "tell" /\ UNCHANGED <<edge, bus, cut>>
        /\ edgeAudit \subseteq edgeAudit' /\ (HasRepository => edge \in edgeAudit')
    BY <1>0, <1>3 DEF AuditEdge, LoopGoes, LoopOK
  <2>. QED
    BY <1>0, <2>1 DEF EdgeOK, EdgeIsAccountedFor
<1>4. CASE TellEdge
  <2>1. /\ loop.pc = "tell" /\ loop' = Idle /\ edge' = NoEdge
        /\ bus' = bus \cup {Line("auto_crypto.edge_action.applied", edge)} /\ UNCHANGED <<edgeAudit, cut>>
    BY <1>4 DEF TellEdge, LoopGoes
  <2>2. \A event : Line("edge.action", event) # Line("auto_crypto.edge_action.applied", edge)
    BY DEF Line
  <2>3. \A event : Line("auto_crypto.edge_action.applied", event) = Line("auto_crypto.edge_action.applied", edge)
                        => event = edge
    BY DEF Line
  <2>4. EdgeOK'
    BY <2>1 DEF EdgeOK, Idle
  <2>5. EdgeIsAccountedFor'
    BY <1>0, <2>1, <2>2, <2>3 DEF EdgeOK, EdgeIsAccountedFor
  <2>. QED
    BY <2>4, <2>5
<1>5. CASE EdgeWriteFails
  BY <1>0, <1>5, BusStays DEF EdgeWriteFails
<1>6. CASE RestartAll
  BY <1>0, <1>6, BusStays DEF RestartAll
<1>7. CASE OperatorHalts \/ (DeskStep /\ UNCHANGED <<intakeVars, webhookVars>>)
  <2>1. loop' = loop
    BY <1>7, DeskStepType DEF OperatorHalts, IInv, IntakeInv, IntakeTypeOK
  <2>2. UNCHANGED <<edge, bus, edgeAudit, cut>>
    BY <1>7 DEF OperatorHalts, webhookVars
  <2>. QED
    BY <1>0, <2>1, <2>2, BusStays
<1>8. ASSUME NEW stamp \in Stamps, NEW signal \in Signals, ReceiveAlert(stamp, signal)
      PROVE  EdgeOK' /\ EdgeIsAccountedFor'
  <2>1. loop = Idle /\ UNCHANGED <<edge, bus, edgeAudit, cut>>
    BY <1>8 DEF ReceiveAlert, Handle, HandleHalted, HandleDuplicate, HandleBlocked, HandleClaim, Deliver
  <2>. QED
    BY <1>0, <2>1, BusStays DEF LoopOK, Idle, EdgePhases
<1>9. ASSUME NEW id \in Ids, Decide(id), UNCHANGED webhookVars
      PROVE  EdgeOK' /\ EdgeIsAccountedFor'
  <2>1. loop = Idle /\ UNCHANGED <<edge, bus, edgeAudit, cut>>
    BY <1>9 DEF Decide, ApproveHalted, Approve, Decline, webhookVars
  <2>. QED
    BY <1>0, <2>1, BusStays DEF LoopOK, Idle, EdgePhases
<1>10. CASE IntakeStep /\ UNCHANGED webhookVars
  BY <1>0, <1>10, BusStays DEF IntakeStep, webhookVars
<1>11. CASE UNCHANGED allVars
  BY <1>0, <1>11, BusStays DEF allVars, vars, deskVars, webhookVars
<1>. QED
  BY <1>1, <1>2, <1>3, <1>4, <1>5, <1>6, <1>7, <1>8, <1>9, <1>10, <1>11
     DEF WebhooksNext, EdgeStep

\* Every step keeps the types of the doors.
LEMMA NextBusType ==
    ASSUME IInv, [WebhooksNext]_allVars
    PROVE  BusTypeOK'
<1>. USE DEF BusTypeOK, IInv
<1>1. ASSUME NEW stamp \in Stamps, NEW body \in Bodies, LetIn(stamp, body)
      PROVE  seen' \subseteq {Request(s, b) : s \in Stamps, b \in Bodies}
  BY <1>1 DEF LetIn
<1>2. ASSUME NEW stamp \in Stamps, NEW signal \in Signals, ReceiveAlert(stamp, signal)
      PROVE  BusTypeOK'
  BY <1>1, <1>2 DEF ReceiveAlert, Bodies
<1>3. ASSUME NEW event \in EdgeEvents, ReceiveEdge(event)
      PROVE  BusTypeOK'
  BY <1>1, <1>3 DEF ReceiveEdge, LetOperatorIn, Bodies
<1>4. CASE EdgeStep
  <2>1. edge \in EdgeEvents
    BY <1>4 DEF EdgeStep, PublishEdge, AuditEdge, TellEdge, EdgeWriteFails,
                IntakeInv, LoopOK, EdgePhases, EdgeOK
  <2>. QED
    BY <1>4, <2>1 DEF EdgeStep, PublishEdge, AuditEdge, TellEdge, EdgeWriteFails, LineTypes
<1>5. CASE RestartAll
  BY <1>5 DEF RestartAll, EdgeOK
<1>6. CASE UNCHANGED webhookVars
  BY <1>6 DEF webhookVars
<1>. QED
  BY <1>2, <1>3, <1>4, <1>5, <1>6 DEF WebhooksNext, OperatorHalts, allVars

-----------------------------------------------------------------------------
(***************************************************************************)
(* Theorems.                                                               *)
(***************************************************************************)

\* IInv is an inductive invariant of the doors and the intake.
THEOREM Invariance == WebhooksSpec => []IInv
<1>1. WebhooksInit => IInv
  <2>. SUFFICES ASSUME WebhooksInit PROVE IInv
    OBVIOUS
  <2>1. IntakeTypeOK
    <3>1. DeskTypeOK
      <4>1. 0 \in 0 .. MaxRestarts
        OBVIOUS
      <4>. QED
        BY <4>1 DEF WebhooksInit, Init, DeskInit, DeskTypeOK
    <3>. QED
      BY <3>1 DEF WebhooksInit, Init, IntakeTypeOK
  <2>2. LoopOK /\ \A id \in Ids : ~Handled(id)
    BY DEF WebhooksInit, Init, DeskInit, LoopOK, Idle, Phases, EdgePhases, Handled
  <2>3. \A id \in Ids : Unseen(id)
    BY <2>2 DEF WebhooksInit, Init, Unseen, Waiting
  <2>4. PendingOK /\ ClaimsOK
    BY <2>3 DEF WebhooksInit, Init, PendingOK, ClaimsOK, Waiting, Stands
  <2>5. EdgeOK /\ EdgeIsAccountedFor
    BY DEF WebhooksInit, Init, DeskInit, EdgeOK, EdgeIsAccountedFor, Idle
  <2>6. BusTypeOK
    BY DEF WebhooksInit, BusTypeOK
  <2>. QED
    BY <2>1, <2>2, <2>4, <2>5, <2>6 DEF IInv, IntakeInv
<1>2. IInv /\ [WebhooksNext]_allVars => IInv'
  BY NextIntake, NextEdge, NextBusType DEF IInv
<1>. QED
  BY <1>1, <1>2, PTL DEF WebhooksSpec

\* Every variable of the doors and the intake keeps its type, and the loop holds a
\* signal or an Edge action and never both.
THEOREM TypeCorrect == WebhooksSpec => []WebhooksTypeOK
<1>1. IInv => WebhooksTypeOK
  BY DEF IInv, IntakeInv, LoopOK, EdgeOK, BusTypeOK, WebhooksTypeOK
<1>. QED
  BY <1>1, Invariance, PTL

\* A signal is decided once, however often it is sent, signed or from a session,
\* parked, approved, rejected, cut short and let in again by a restart.
THEOREM SignalsDecidedOnce == WebhooksSpec => []DecidedOnce
<1>1. IInv => DecidedOnce
  <2>. SUFFICES ASSUME IInv, HasRepository, NEW id \in Ids PROVE Len(verdicts[id]) <= 1
    BY DEF DecidedOnce
  <2>1. verdicts[id] = <<>> \/ \E answer \in {"rejected", "declined"} : verdicts[id] = <<answer>>
    BY DEF IInv, IntakeInv, ClaimsOK, Stands, Unseen, Parked, InHand, Answered, Orphaned
  <2>2. CASE verdicts[id] = <<>>
    BY <2>2
  <2>3. ASSUME NEW answer \in {"rejected", "declined"}, verdicts[id] = <<answer>>
        PROVE  Len(verdicts[id]) <= 1
    BY <2>3
  <2>. QED
    BY <2>1, <2>2, <2>3
<1>. QED
  BY <1>1, Invariance, PTL

\* A claimed signal is parked, in hand, answered or known to have been cut short.
THEOREM ClaimsAreAccountedFor == WebhooksSpec => []ClaimedIsAccountedFor
<1>1. IInv => ClaimedIsAccountedFor
  <2>. SUFFICES ASSUME IInv, NEW id \in claims
                PROVE  \/ Waiting(id) /\ verdicts[id] = <<>> /\ id \notin orphans
                       \/ ~Waiting(id) /\ Handled(id) /\ verdicts[id] = <<>> /\ id \notin orphans
                       \/ ~Waiting(id) /\ ~Handled(id) /\ Len(verdicts[id]) = 1 /\ id \notin orphans
                       \/ ~Waiting(id) /\ ~Handled(id) /\ verdicts[id] = <<>> /\ id \in orphans
    BY DEF ClaimedIsAccountedFor, IInv, IntakeInv, ClaimsOK
  <2>1. Stands(id)
    BY DEF IInv, IntakeInv, IntakeTypeOK, ClaimsOK
  <2>2. Answered(id) => Len(verdicts[id]) = 1
    BY DEF Answered
  <2>. QED
    BY <2>1, <2>2 DEF Stands, Unseen, Parked, InHand, Answered, Orphaned
<1>. QED
  BY <1>1, Invariance, PTL

\* The bus tells the truth about every Edge action and forgets none.
THEOREM EdgeActionsAccountedFor == WebhooksSpec => []EdgeIsAccountedFor
<1>1. IInv => EdgeIsAccountedFor
  BY DEF IInv
<1>. QED
  BY <1>1, Invariance, PTL

\* A halted engine claims, parks and answers nothing, whichever door a signal
\* comes through and whoever halted it.
THEOREM HaltHolds == WebhooksSpec => HaltFreezesIntake
<1>1. IInv /\ [WebhooksNext]_allVars =>
        [halted /\ halted' =>
           /\ claims' = claims
           /\ \A id \in Ids :
                 /\ pending'[id] # pending[id] => pending'[id] = NoSignal
                 /\ verdicts'[id] # verdicts[id] => verdicts'[id] = Append(verdicts[id], "declined")]_vars
  <2>. SUFFICES ASSUME IInv, [WebhooksNext]_allVars, halted, halted'
                PROVE  /\ claims' = claims
                       /\ \A id \in Ids :
                            /\ pending'[id] # pending[id] => pending'[id] = NoSignal
                            /\ verdicts'[id] # verdicts[id] => verdicts'[id] = Append(verdicts[id], "declined")
    OBVIOUS
  <2>0. loop.pc \notin {"receive", "park", "request", "refuse"}
    BY DEF IInv, IntakeInv, LoopOK
  <2>1. CASE UNCHANGED <<claims, pending, verdicts>>
    BY <2>1
  <2>2. ASSUME NEW id \in Ids, Decline(id)
        PROVE  /\ UNCHANGED <<claims, verdicts>>
               /\ \A other \in Ids : pending'[other] # pending[other] => pending'[other] = NoSignal
    BY <2>2 DEF Decline, IInv, IntakeInv, IntakeTypeOK
  <2>3. CASE AuditDeclined
    <3>1. verdicts \in [Ids -> Seq({"rejected", "declined"})]
      BY DEF IInv, IntakeInv, IntakeTypeOK
    <3>. QED
      BY <2>3, <3>1 DEF AuditDeclined
  <2>4. CASE RestartAll
    BY <2>4 DEF RestartAll, Restart, DeskRestart
  <2>5. \/ UNCHANGED <<claims, pending, verdicts>>
        \/ \E id \in Ids : Decline(id)
        \/ AuditDeclined
        \/ RestartAll
    BY <2>0 DEF WebhooksNext, OperatorHalts, ReceiveAlert, Handle, HandleHalted, HandleDuplicate,
                HandleBlocked, HandleClaim, Deliver, Save, ReceiveEdge, Decide, ApproveHalted, Approve,
                IntakeStep, HandlerStep, AuditReceived, Park, AuditRequested, AuditRefused, StorageFails,
                EdgeStep, PublishEdge, AuditEdge, TellEdge, EdgeWriteFails, allVars, vars, intakeVars
  <2>. QED
    BY <2>1, <2>2, <2>3, <2>4, <2>5
<1>. QED
  BY <1>1, Invariance, PTL DEF WebhooksSpec, HaltFreezesIntake
=============================================================================
