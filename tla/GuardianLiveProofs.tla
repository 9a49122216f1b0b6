------------------------- MODULE GuardianLiveProofs -------------------------
(***************************************************************************)
(* Proofs about GuardianLive for every number of tickets, signals, rules,  *)
(* attempts and restarts, with and without a repository.                   *)
(***************************************************************************)
EXTENDS GuardianLive, TLAPS

-----------------------------------------------------------------------------
(***************************************************************************)
(* The gates.                                                              *)
(***************************************************************************)

\* The strictest of several modes is hard_block exactly when one of them is.
LEMMA StrictestHardBlock ==
    ASSUME NEW modes \in SUBSET ProtectionModes, modes # {}
    PROVE  StrictestMode(modes) = "hard_block" <=> "hard_block" \in modes
<1>1. /\ ModePriority["no_new_entries"] = 1
      /\ ModePriority["close_only"] = 2
      /\ ModePriority["hard_block"] = 3
  BY DEF ModePriority
<1>2. \E mode \in modes : \A other \in modes : ModePriority[other] <= ModePriority[mode]
  <2>1. CASE "hard_block" \in modes
    BY <1>1, <2>1 DEF ProtectionModes
  <2>2. CASE "hard_block" \notin modes /\ "close_only" \in modes
    BY <1>1, <2>2 DEF ProtectionModes
  <2>3. CASE "hard_block" \notin modes /\ "close_only" \notin modes
    <3>1. PICK mode \in modes : TRUE
      OBVIOUS
    <3>2. \A other \in modes : other = "no_new_entries"
      BY <2>3 DEF ProtectionModes
    <3>. QED
      BY <1>1, <3>1, <3>2
  <2>. QED
    BY <2>1, <2>2, <2>3
<1>3. /\ StrictestMode(modes) \in modes
      /\ \A other \in modes : ModePriority[other] <= ModePriority[StrictestMode(modes)]
  BY <1>2 DEF StrictestMode
<1>4. ASSUME "hard_block" \in modes
      PROVE  StrictestMode(modes) = "hard_block"
  <2>. DEFINE strictest == StrictestMode(modes)
  <2>1. ModePriority["hard_block"] <= ModePriority[strictest]
    BY <1>3, <1>4
  <2>2. strictest \in {"no_new_entries", "close_only", "hard_block"}
    BY <1>3 DEF ProtectionModes
  <2>. QED
    BY <1>1, <2>1, <2>2
<1>. QED
  BY <1>3, <1>4

\* Taking the strictest mode of the matching rules amounts to asking every one of
\* them: no rule is hidden by a stricter or a weaker one beside it
\* (evaluate_protections).
THEOREM ProtectionsAskEveryRule ==
    ASSUME NEW active \in SUBSET Rules, NEW signal \in Signals
    PROVE  ProtectionsAllow(active, signal) <=>
             \A rule \in active :
                Matches(rule, signal) => signal.reduce_only /\ rule.mode # "hard_block"
<1>. DEFINE matched == {rule \in active : Matches(rule, signal)}
            modes == {rule.mode : rule \in matched}
<1>1. modes \in SUBSET ProtectionModes
  BY DeskAssumption
<1>2. ProtectionsAllow(active, signal) <=>
        (modes # {} => StrictestMode(modes) # "hard_block" /\ signal.reduce_only)
  BY DEF ProtectionsAllow
<1>3. modes # {} => (StrictestMode(modes) = "hard_block" <=> "hard_block" \in modes)
  BY <1>1, StrictestHardBlock
<1>. QED
  BY <1>2, <1>3

\* Fewer rules and fewer cooling symbols never block a signal that more did not.
LEMMA LiveBlockedMonotone ==
    ASSUME NEW signal \in Signals, NEW rules1, NEW rules2 \in SUBSET Rules,
           NEW cooling1, NEW cooling2,
           rules1 \subseteq rules2, cooling1 \subseteq cooling2,
           LiveBlocked(signal, rules1, cooling1)
    PROVE  LiveBlocked(signal, rules2, cooling2)
<1>1. ~ProtectionsAllow(rules1, signal) => ~ProtectionsAllow(rules2, signal)
  BY ProtectionsAskEveryRule
<1>2. RuntimeReasons(signal, rules1, cooling1) \subseteq RuntimeReasons(signal, rules2, cooling2)
  BY <1>1 DEF RuntimeReasons
<1>. QED
  BY <1>2 DEF LiveBlocked

-----------------------------------------------------------------------------
(***************************************************************************)
(* Type correctness.                                                       *)
(***************************************************************************)

\* A signal's symbol, leverage and id are in the sets built from Signals.
LEMMA SignalFields ==
    ASSUME NEW signal \in Signals
    PROVE  /\ signal.symbol \in Symbols
           /\ signal.leverage \in Leverages
           /\ signal.id \in ClientIds
BY DEF Symbols, Leverages, ClientIds

\* The desk's own steps keep its variables and the loop well typed.
LEMMA DeskStepType ==
    ASSUME DeskTypeOK, DeskStep
    PROVE  DeskTypeOK' /\ loop' = loop
BY DEF DeskTypeOK, DeskStep, RequestHalt, HandleHalt, Resume, SetRule, DeleteRule,
       RuleExpires, ExitRecorded, CooldownElapses, AccountMoves, WithRule, WithoutRule

\* Every step keeps the types, given what the inductive invariant says of the
\* ticket at work.
LEMMA NextType ==
    ASSUME TypeOK, HandlerOK, TicketsOK, [Next]_vars
    PROVE  TypeOK'
<1>. USE DeskAssumption, GuardianAssumption DEF Phases, TicketStates
<1>1. CASE DeskStep /\ UNCHANGED guardianVars
  BY <1>1, DeskStepType DEF TypeOK, guardianVars
<1>2. ASSUME NEW t \in Tickets, NEW signal \in Signals, Preview(t, signal)
      PROVE  TypeOK'
  BY <1>2 DEF TypeOK, DeskTypeOK, Preview, deskVars
<1>3. ASSUME NEW t \in Tickets, Submit(t)
      PROVE  TypeOK'
  BY <1>3 DEF TypeOK, DeskTypeOK, Submit
<1>4. CASE ChangeLeverage
  <2>. DEFINE t == loop.job
              signal == signalOf[t]
  <2>1. t \in Tickets /\ signal \in Signals /\ attempts[t] \in 1 .. MaxAttempts
    BY <1>4 DEF TypeOK, HandlerOK, TicketsOK, ChangeLeverage
  <2>2. signal.symbol \in Symbols /\ signal.leverage \in Leverages
    BY <2>1, SignalFields
  <2>3. exchangeLev' \in [Symbols -> Leverages] /\ levRefused' \subseteq Attempt
    BY <1>4, <2>1, <2>2 DEF TypeOK, ChangeLeverage, Attempt
  <2>. QED
    BY <1>4, <2>3 DEF TypeOK, DeskTypeOK, ChangeLeverage, LoopGoes, Idle
<1>5. CASE PlaceOrder
  <2>. DEFINE t == loop.job
  <2>1. t \in Tickets /\ signalOf[t] \in Signals /\ attempts[t] \in 1 .. MaxAttempts
    BY <1>5 DEF TypeOK, HandlerOK, TicketsOK, PlaceOrder
  <2>2. OrderOf(t, exchangeLev[signalOf[t].symbol]) \in Order
    BY <2>1, SignalFields DEF TypeOK, Order, OrderOf
  <2>. QED
    BY <1>5, <2>2 DEF TypeOK, DeskTypeOK, PlaceOrder, LoopGoes, Idle
<1>6. CASE MarkUsed
  BY <1>6 DEF TypeOK, DeskTypeOK, MarkUsed, LoopGoes, Idle
<1>7. CASE SaveOrder
  BY <1>7 DEF TypeOK, DeskTypeOK, HandlerOK, SaveOrder, LoopGoes, Idle
<1>8. CASE RecordAudit
  BY <1>8 DEF TypeOK, DeskTypeOK, HandlerOK, RecordAudit, LoopGoes, Idle
<1>9. CASE StorageFails
  BY <1>9 DEF TypeOK, DeskTypeOK, StorageFails, LoopGoes, Idle
<1>10. CASE Restart
  <2>0. restarts' \in 0 .. MaxRestarts
    BY <1>10 DEF TypeOK, DeskTypeOK, Restart, DeskRestart
  <2>1. DeskTypeOK' /\ loop' = Idle
    BY <1>10, <2>0, Zenon DEF TypeOK, DeskTypeOK, Restart, DeskRestart
  <2>2. ticket' \in [Tickets -> TicketStates]
    BY <1>10 DEF TypeOK, Restart
  <2>3. liveOrder' \in [ClientIds -> Tickets \cup {NoJob}]
    BY <1>10 DEF TypeOK, Restart
  <2>4. unanswered' \subseteq Order
    BY <1>10 DEF TypeOK, Restart
  <2>. QED
    BY <1>10, <2>1, <2>2, <2>3, <2>4 DEF TypeOK, Restart, Idle
<1>11. CASE UNCHANGED vars
  BY <1>11 DEF TypeOK, DeskTypeOK, vars, deskVars, guardianVars
<1>. QED
  BY <1>1, <1>2, <1>3, <1>4, <1>5, <1>6, <1>7, <1>8, <1>9, <1>10, <1>11
     DEF Next, HandlerStep

-----------------------------------------------------------------------------
(***************************************************************************)
(* The inductive invariant, one conjunct at a time.                        *)
(***************************************************************************)

\* A desk step with a handler at work is a halt request, an expiring rule or an
\* elapsing cooldown: none of them closes a gate.
LEMMA GatesSurviveDesk ==
    ASSUME DeskTypeOK, DeskStep, loop.pc # "idle",
           NEW signal \in Signals, LiveOrderSafe(signal)
    PROVE  LiveOrderSafe(signal)'
<1>1. CASE RequestHalt
  BY <1>1 DEF RequestHalt, LiveOrderSafe
<1>2. ASSUME NEW rule \in Rules, RuleExpires(rule)
      PROVE  LiveOrderSafe(signal)'
  BY <1>2, LiveBlockedMonotone DEF DeskTypeOK, RuleExpires, LiveOrderSafe
<1>3. ASSUME NEW symbol \in Symbols, CooldownElapses(symbol)
      PROVE  LiveOrderSafe(signal)'
  BY <1>3, LiveBlockedMonotone DEF DeskTypeOK, CooldownElapses, LiveOrderSafe
<1>4. loop # Idle
  BY DEF Idle
<1>. QED
  BY <1>1, <1>2, <1>3, <1>4
     DEF DeskStep, HandleHalt, Resume, SetRule, DeleteRule, ExitRecorded, AccountMoves

\* A working handler keeps an issued ticket, which stays open until it is marked.
LEMMA NextHandler ==
    ASSUME TypeOK, HandlerOK, [Next]_vars
    PROVE  HandlerOK'
<1>1. CASE DeskStep /\ UNCHANGED guardianVars
  BY <1>1, DeskStepType DEF TypeOK, HandlerOK, guardianVars
<1>2. ASSUME NEW t \in Tickets, NEW signal \in Signals, Preview(t, signal)
      PROVE  HandlerOK'
  BY <1>2 DEF TypeOK, HandlerOK, Preview, deskVars, Idle
<1>3. ASSUME NEW t \in Tickets, Submit(t)
      PROVE  HandlerOK'
  BY <1>3 DEF TypeOK, HandlerOK, Submit
<1>4. CASE ChangeLeverage
  BY <1>4 DEF TypeOK, HandlerOK, ChangeLeverage, LoopGoes, Idle
<1>5. CASE PlaceOrder
  BY <1>5 DEF TypeOK, HandlerOK, PlaceOrder, LoopGoes, Idle
<1>6. CASE MarkUsed
  BY <1>6 DEF TypeOK, HandlerOK, MarkUsed, LoopGoes, Idle
<1>7. CASE SaveOrder
  BY <1>7 DEF TypeOK, HandlerOK, SaveOrder, LoopGoes, Idle
<1>8. CASE RecordAudit
  BY <1>8 DEF HandlerOK, RecordAudit, LoopGoes, Idle
<1>9. CASE StorageFails
  BY <1>9 DEF HandlerOK, StorageFails, LoopGoes, Idle
<1>10. CASE Restart
  BY <1>10 DEF HandlerOK, Restart, DeskRestart, Idle
<1>11. CASE UNCHANGED vars
  BY <1>11 DEF HandlerOK, vars, deskVars, guardianVars
<1>. QED
  BY <1>1, <1>2, <1>3, <1>4, <1>5, <1>6, <1>7, <1>8, <1>9, <1>10, <1>11
     DEF Next, HandlerStep

\* An issued ticket has its signal, one that was not issued has no attempt.
LEMMA NextTickets ==
    ASSUME TypeOK, HandlerOK, TicketsOK, [Next]_vars
    PROVE  TicketsOK'
<1>1. CASE DeskStep /\ UNCHANGED guardianVars
  BY <1>1 DEF TicketsOK, guardianVars
<1>2. ASSUME NEW t \in Tickets, NEW signal \in Signals, Preview(t, signal)
      PROVE  TicketsOK'
  BY <1>2 DEF TypeOK, TicketsOK, Preview
<1>3. ASSUME NEW t \in Tickets, Submit(t)
      PROVE  TicketsOK'
  BY <1>3 DEF TypeOK, TicketsOK, Submit
<1>4. CASE ChangeLeverage \/ PlaceOrder \/ SaveOrder \/ RecordAudit \/ StorageFails
  BY <1>4 DEF TicketsOK, ChangeLeverage, PlaceOrder, SaveOrder, RecordAudit, StorageFails
<1>5. CASE MarkUsed
  BY <1>5 DEF TypeOK, HandlerOK, TicketsOK, MarkUsed
<1>6. CASE Restart
  BY <1>6 DEF TypeOK, TicketsOK, Restart
<1>7. CASE UNCHANGED vars
  BY <1>7 DEF TicketsOK, vars, guardianVars
<1>. QED
  BY <1>1, <1>2, <1>3, <1>4, <1>5, <1>6, <1>7 DEF Next, HandlerStep

\* What PlaceOrder does to the orders: nothing, or one order of the submission at
\* work, whose answer arrives (the handler goes on) or not (it returns).
LEMMA PlaceOrderCases ==
    ASSUME TypeOK, HandlerOK, TicketsOK, PlaceOrder
    PROVE  \/ orders' = orders /\ unanswered' = unanswered /\ loop'.pc \in {"mark", "idle"}
           \/ \E order \in Order :
                 /\ order.ticket = loop.job
                 /\ order.attempt = attempts[loop.job]
                 /\ orders' = orders \cup {order}
                 /\ \/ unanswered' = unanswered /\ loop' = [pc |-> "mark", job |-> loop.job]
                    \/ unanswered' = unanswered \cup {order} /\ loop' = Idle
<1>. DEFINE t == loop.job
            placed == OrderOf(t, exchangeLev[signalOf[t].symbol])
<1>1. t \in Tickets /\ signalOf[t] \in Signals /\ attempts[t] \in 1 .. MaxAttempts
  BY DEF TypeOK, HandlerOK, TicketsOK, PlaceOrder
<1>2. placed \in Order /\ placed.ticket = t /\ placed.attempt = attempts[t]
  BY <1>1, SignalFields DEF TypeOK, Order, OrderOf
<1>3. [loop EXCEPT !.pc = "mark"] = [pc |-> "mark", job |-> t]
  BY DEF TypeOK
<1>. QED
  BY <1>2, <1>3 DEF PlaceOrder, LoopGoes, Idle

\* An order belongs to one attempt made; the attempt at work has none before it is placed.
LEMMA NextOrders ==
    ASSUME TypeOK, HandlerOK, TicketsOK, OrdersOK, [Next]_vars
    PROVE  OrdersOK'
<1>. USE GuardianAssumption
<1>1. CASE DeskStep /\ UNCHANGED guardianVars
  BY <1>1, DeskStepType DEF TypeOK, OrdersOK, guardianVars
<1>2. ASSUME NEW t \in Tickets, NEW signal \in Signals, Preview(t, signal)
      PROVE  OrdersOK'
  BY <1>2 DEF OrdersOK, Preview, deskVars
<1>3. ASSUME NEW t \in Tickets, Submit(t)
      PROVE  OrdersOK'
  <2>1. /\ attempts' = [attempts EXCEPT ![t] = attempts[t] + 1]
        /\ orders' = orders /\ unanswered' = unanswered /\ loop'.job = t
    BY <1>3 DEF Submit
  <2>2. \A o \in orders : o.ticket \in Tickets /\ o.attempt \in Nat /\ attempts[o.ticket] \in Nat
    BY DEF TypeOK, Order
  <2>3. \A o \in orders : o.attempt <= attempts'[o.ticket]
    BY <2>1, <2>2 DEF TypeOK, OrdersOK
  <2>4. \A o \in orders : o.ticket = t => o.attempt # attempts'[t]
    BY <2>1, <2>2 DEF TypeOK, OrdersOK
  <2>. QED
    BY <2>1, <2>3, <2>4 DEF OrdersOK
<1>4. CASE ChangeLeverage
  BY <1>4 DEF TypeOK, OrdersOK, ChangeLeverage, LoopGoes, Idle
<1>5. CASE PlaceOrder
  <2>1. CASE orders' = orders /\ unanswered' = unanswered /\ loop'.pc \in {"mark", "idle"}
    BY <1>5, <2>1 DEF OrdersOK, PlaceOrder
  <2>2. ASSUME NEW order \in Order,
               order.ticket = loop.job, order.attempt = attempts[loop.job],
               orders' = orders \cup {order},
               unanswered' \in {unanswered, unanswered \cup {order}},
               loop'.pc \in {"mark", "idle"}
        PROVE  OrdersOK'
    <3>1. unanswered' \subseteq orders'
      BY <2>2 DEF OrdersOK
    <3>2. \A o \in orders' : o.attempt <= attempts'[o.ticket]
      BY <1>5, <2>2 DEF TypeOK, OrdersOK, PlaceOrder, Order
    <3>3. \A o \in orders : ~(o.ticket = order.ticket /\ o.attempt = order.attempt)
      BY <1>5, <2>2 DEF OrdersOK, PlaceOrder
    <3>4. \A o1, o2 \in orders' :
            o1.ticket = o2.ticket /\ o1.attempt = o2.attempt => o1 = o2
      BY <2>2, <3>3 DEF OrdersOK
    <3>. QED
      BY <2>2, <3>1, <3>2, <3>4 DEF OrdersOK
  <2>. QED
    BY <1>5, <2>1, <2>2, PlaceOrderCases DEF Idle
<1>6. CASE MarkUsed \/ SaveOrder \/ RecordAudit
  BY <1>6 DEF TypeOK, OrdersOK, MarkUsed, SaveOrder, RecordAudit, LoopGoes, Idle
<1>7. CASE StorageFails
  BY <1>7 DEF TypeOK, OrdersOK, StorageFails, LoopGoes, Idle
<1>8. CASE Restart
  BY <1>8 DEF OrdersOK, Restart, DeskRestart, Idle
<1>9. CASE UNCHANGED vars
  BY <1>9 DEF OrdersOK, vars, deskVars, guardianVars
<1>. QED
  BY <1>1, <1>2, <1>3, <1>4, <1>5, <1>6, <1>7, <1>8, <1>9 DEF Next, HandlerStep

\* The only known order of an open ticket is the one about to be marked.
LEMMA NextOpenTickets ==
    ASSUME TypeOK, HandlerOK, TicketsOK, OrdersOK, OpenTicketsOK, [Next]_vars
    PROVE  OpenTicketsOK'
<1>. USE DEF OpenTicketsOK, CurrentUnmarked
<1>1. CASE DeskStep /\ UNCHANGED guardianVars
  BY <1>1, DeskStepType DEF TypeOK, guardianVars
<1>2. ASSUME NEW t \in Tickets, NEW signal \in Signals, Preview(t, signal)
      PROVE  OpenTicketsOK'
  <2>1. \A o \in orders : o.ticket # t
    BY <1>2 DEF TypeOK, OrdersOK, TicketsOK, Preview, Order
  <2>. QED
    BY <1>2, <2>1 DEF TypeOK, Order, Preview, deskVars
<1>3. ASSUME NEW t \in Tickets, Submit(t)
      PROVE  OpenTicketsOK'
  BY <1>3 DEF Submit, Idle
<1>4. CASE ChangeLeverage
  BY <1>4 DEF ChangeLeverage
<1>5. CASE PlaceOrder
  <2>1. \A o \in orders \ unanswered : ticket[o.ticket] # "open"
    BY <1>5 DEF PlaceOrder
  <2>. QED
    BY <1>5, <2>1, PlaceOrderCases DEF PlaceOrder, Idle
<1>6. CASE MarkUsed
  BY <1>6 DEF TypeOK, HandlerOK, MarkUsed, Order
<1>7. CASE SaveOrder \/ RecordAudit
  BY <1>7 DEF SaveOrder, RecordAudit
<1>8. CASE StorageFails
  BY <1>8 DEF StorageFails
<1>9. CASE Restart
  <2>1. \A o \in orders : ticket'[o.ticket] = "open" => ticket[o.ticket] = "open"
    BY <1>9 DEF TypeOK, Restart, Order
  <2>. QED
    BY <1>9, <2>1 DEF Restart
<1>10. CASE UNCHANGED vars
  BY <1>10 DEF vars, deskVars, guardianVars
<1>. QED
  BY <1>1, <1>2, <1>3, <1>4, <1>5, <1>6, <1>7, <1>8, <1>9, <1>10 DEF Next, HandlerStep

\* What Submit checked still holds when the order is placed.
LEMMA NextGates ==
    ASSUME TypeOK, HandlerOK, TicketsOK, GatesOK, [Next]_vars
    PROVE  GatesOK'
<1>1. CASE DeskStep /\ UNCHANGED guardianVars
  <2>1. loop.pc # "idle" => signalOf[loop.job] \in Signals
    BY DEF HandlerOK, TicketsOK
  <2>. QED
    BY <1>1, <2>1, DeskStepType, GatesSurviveDesk DEF TypeOK, GatesOK, guardianVars
<1>2. ASSUME NEW t \in Tickets, NEW signal \in Signals, Preview(t, signal)
      PROVE  GatesOK'
  BY <1>2 DEF GatesOK, Preview, deskVars, Idle
<1>3. ASSUME NEW t \in Tickets, Submit(t)
      PROVE  GatesOK'
  BY <1>3 DEF GatesOK, Submit, LiveOrderSafe
<1>4. CASE ChangeLeverage
  BY <1>4 DEF TypeOK, GatesOK, ChangeLeverage, LoopGoes, Idle, LiveOrderSafe
<1>5. CASE PlaceOrder
  BY <1>5, PlaceOrderCases DEF TypeOK, GatesOK, PlaceOrder, LoopGoes, Idle
<1>6. CASE MarkUsed \/ SaveOrder \/ RecordAudit \/ StorageFails
  BY <1>6 DEF TypeOK, GatesOK, MarkUsed, SaveOrder, RecordAudit, StorageFails, LoopGoes, Idle
<1>7. CASE Restart
  BY <1>7 DEF GatesOK, Restart, DeskRestart, Idle
<1>8. CASE UNCHANGED vars
  BY <1>8 DEF GatesOK, LiveOrderSafe, vars, deskVars, guardianVars
<1>. QED
  BY <1>1, <1>2, <1>3, <1>4, <1>5, <1>6, <1>7, <1>8 DEF Next, HandlerStep

\* No step gives a ticket its second answered order.
LEMMA NextAnswered ==
    ASSUME TypeOK, HandlerOK, TicketsOK, OrdersOK, OpenTicketsOK,
           AnsweredOncePerTicket, [Next]_vars
    PROVE  AnsweredOncePerTicket'
<1>. USE DEF AnsweredOncePerTicket
<1>1. CASE PlaceOrder
  <2>1. \A o \in orders \ unanswered : o.ticket # loop.job
    BY <1>1 DEF HandlerOK, OpenTicketsOK, CurrentUnmarked, PlaceOrder
  <2>. QED
    BY <1>1, <2>1, PlaceOrderCases
<1>2. CASE StorageFails \/ Restart
  BY <1>2 DEF StorageFails, Restart
<1>3. CASE orders' = orders /\ unanswered' = unanswered
  BY <1>3
<1>. QED
  BY <1>1, <1>2, <1>3
     DEF Next, HandlerStep, Preview, Submit, ChangeLeverage, MarkUsed, SaveOrder,
         RecordAudit, vars, guardianVars

-----------------------------------------------------------------------------
(***************************************************************************)
(* The theorems.                                                           *)
(***************************************************************************)

\* IInv is an inductive invariant of the Bitunix route.
THEOREM Invariance == Spec => []IInv
<1>1. Init => IInv
  <2>. SUFFICES ASSUME Init PROVE IInv
    OBVIOUS
  <2>0. 0 \in 0 .. MaxRestarts
    BY DeskAssumption
  <2>1. DeskTypeOK
    BY <2>0, Zenon DEF Init, DeskInit, DeskTypeOK
  <2>2. TypeOK
    BY <2>1, DeskAssumption, GuardianAssumption
       DEF Init, DeskInit, TypeOK, Idle, Phases, TicketStates
  <2>3. HandlerOK /\ GatesOK
    BY DEF Init, DeskInit, HandlerOK, GatesOK, Idle
  <2>4. TicketsOK
    BY DEF Init, TicketsOK
  <2>5. OrdersOK /\ OpenTicketsOK /\ AnsweredOncePerTicket
    BY DEF Init, OrdersOK, OpenTicketsOK, AnsweredOncePerTicket
  <2>. QED
    BY <2>2, <2>3, <2>4, <2>5 DEF IInv
<1>2. IInv /\ [Next]_vars => IInv'
  BY NextType, NextHandler, NextTickets, NextOrders, NextOpenTickets, NextGates,
     NextAnswered DEF IInv
<1>. QED
  BY <1>1, <1>2, PTL DEF Spec

\* No ticket has two orders that the program knows of.
THEOREM OneAnsweredOrder == Spec => []AnsweredOncePerTicket
<1>1. IInv => AnsweredOncePerTicket
  BY DEF IInv
<1>. QED
  BY <1>1, Invariance, PTL

\* Whenever the exchange accepts an order, its ticket is open and every gate that
\* Submit checked still holds.
THEOREM GatesAtPlacement == Spec => GatesHoldAtPlacement
<1>1. IInv /\ [Next]_vars => [PlacedThroughGates]_vars
  <2>. SUFFICES ASSUME IInv, Next, NEW o \in orders' \ orders
                PROVE  ticket[o.ticket] = "open" /\ LiveOrderSafe(signalOf[o.ticket])
    BY DEF PlacedThroughGates
  <2>1. PlaceOrder
    BY DEF Next, HandlerStep, Preview, Submit, ChangeLeverage, MarkUsed, SaveOrder,
           RecordAudit, StorageFails, Restart, guardianVars
  <2>2. o.ticket = loop.job
    BY <2>1, PlaceOrderCases DEF IInv
  <2>. QED
    BY <2>1, <2>2 DEF IInv, HandlerOK, GatesOK, PlaceOrder
<1>. QED
  BY <1>1, Invariance, PTL DEF Spec, GatesHoldAtPlacement

-----------------------------------------------------------------------------
(***************************************************************************)
(* The leverage of an opening order.                                       *)
(***************************************************************************)

\* A submission about to place an opening order has changed the leverage, or was
\* refused the change inside a 200 answer.
AtLeverage ==
    LET signal == signalOf[loop.job]
    IN  loop.pc = "place" =>
          \/ signal.reduce_only
          \/ exchangeLev[signal.symbol] = signal.leverage
          \/ [ticket |-> loop.job, attempt |-> attempts[loop.job]] \in levRefused

\* A step that takes no submission to its place step leaves AtLeverage true.
LEMMA NextAtLeverage ==
    ASSUME IInv, AtLeverage, [Next]_vars
    PROVE  AtLeverage'
<1>1. CASE loop'.pc # "place"
  BY <1>1 DEF AtLeverage
<1>2. CASE DeskStep /\ UNCHANGED guardianVars
  BY <1>2, DeskStepType DEF IInv, TypeOK, AtLeverage, guardianVars
<1>3. ASSUME NEW t \in Tickets, NEW signal \in Signals, Preview(t, signal)
      PROVE  AtLeverage'
  BY <1>3 DEF Preview, AtLeverage, deskVars, Idle
<1>4. ASSUME NEW t \in Tickets, Submit(t)
      PROVE  AtLeverage'
  BY <1>4 DEF Submit, AtLeverage
<1>5. CASE ChangeLeverage /\ loop'.pc = "place"
  <2>. DEFINE signal == signalOf[loop.job]
  <2>1. loop.job \in Tickets /\ signal \in Signals
    BY <1>5 DEF IInv, HandlerOK, TicketsOK, ChangeLeverage
  <2>2. loop'.job = loop.job /\ signalOf' = signalOf /\ attempts' = attempts
    BY <1>5 DEF IInv, TypeOK, ChangeLeverage, LoopGoes, Idle
  <2>3. \/ exchangeLev' = [exchangeLev EXCEPT ![signal.symbol] = signal.leverage]
        \/ levRefused' = levRefused \cup {[ticket |-> loop.job, attempt |-> attempts[loop.job]]}
    BY <1>5 DEF ChangeLeverage, LoopGoes, Idle
  <2>4. exchangeLev' = [exchangeLev EXCEPT ![signal.symbol] = signal.leverage]
          => exchangeLev'[signal.symbol] = signal.leverage
    BY <2>1, SignalFields DEF IInv, TypeOK
  <2>. QED
    BY <2>2, <2>3, <2>4 DEF AtLeverage
<1>6. CASE PlaceOrder \/ MarkUsed \/ SaveOrder \/ RecordAudit \/ StorageFails
  <2>1. loop'.pc # "place"
    BY <1>6 DEF PlaceOrder, MarkUsed, SaveOrder, RecordAudit, StorageFails, LoopGoes, Idle, IInv, TypeOK
  <2>. QED
    BY <1>1, <2>1
<1>7. CASE Restart
  BY <1>7 DEF Restart, DeskRestart, AtLeverage, Idle
<1>8. CASE UNCHANGED vars
  BY <1>8 DEF AtLeverage, vars, deskVars, guardianVars
<1>. QED
  BY <1>1, <1>2, <1>3, <1>4, <1>5, <1>6, <1>7, <1>8 DEF Next, HandlerStep

\* Orders that are there stay as they were placed: their ticket keeps its signal.
LEMMA NextLeverage ==
    ASSUME IInv, AtLeverage, LeverageAsRequested, [Next]_vars
    PROVE  LeverageAsRequested'
<1>0. \A o \in orders : o.ticket \in Tickets /\ ticket[o.ticket] # "none"
  <2>1. \A o \in orders : /\ o.ticket \in Tickets
                          /\ o.attempt \in 1 .. MaxAttempts
                          /\ o.attempt <= attempts[o.ticket]
    BY GuardianAssumption DEF IInv, TypeOK, Order, OrdersOK
  <2>2. \A t \in Tickets : ticket[t] = "none" => attempts[t] = 0
    BY DEF IInv, TicketsOK
  <2>. QED
    BY <2>1, <2>2
<1>1. CASE UNCHANGED <<orders, signalOf>> /\ levRefused \subseteq levRefused'
  BY <1>1 DEF LeverageAsRequested
<1>2. ASSUME NEW t \in Tickets, NEW signal \in Signals, Preview(t, signal)
      PROVE  LeverageAsRequested'
  BY <1>0, <1>2 DEF Preview, LeverageAsRequested, IInv, TypeOK
<1>3. CASE PlaceOrder
  <2>. DEFINE placed == OrderOf(loop.job, exchangeLev[signalOf[loop.job].symbol])
  <2>1. orders' \subseteq orders \cup {placed} /\ UNCHANGED <<signalOf, levRefused>>
    BY <1>3 DEF PlaceOrder
  <2>2. \/ signalOf[placed.ticket].reduce_only
        \/ placed.leverage = signalOf[placed.ticket].leverage
        \/ [ticket |-> placed.ticket, attempt |-> placed.attempt] \in levRefused
    BY <1>3 DEF PlaceOrder, AtLeverage, OrderOf
  <2>. QED
    BY <2>1, <2>2 DEF LeverageAsRequested
<1>4. CASE ChangeLeverage
  BY <1>1, <1>4 DEF ChangeLeverage
<1>. QED
  BY <1>1, <1>2, <1>3, <1>4
     DEF Next, HandlerStep, Submit, MarkUsed, SaveOrder, RecordAudit, StorageFails, Restart,
         guardianVars, vars

\* An opening order stands at the leverage its signal asked for, unless the
\* exchange refused the change inside an answer that looks like a success.
THEOREM LeverageMatches == Spec => []LeverageAsRequested
<1>1. Init => AtLeverage /\ LeverageAsRequested
  BY DEF Init, DeskInit, AtLeverage, LeverageAsRequested, Idle
<1>2. IInv /\ AtLeverage /\ LeverageAsRequested /\ [Next]_vars
        => AtLeverage' /\ LeverageAsRequested'
  BY NextAtLeverage, NextLeverage
<1>. QED
  BY <1>1, <1>2, Invariance, PTL DEF Spec

-----------------------------------------------------------------------------
(***************************************************************************)
(* The Bitunix route keeps the ticket's contract.                          *)
(***************************************************************************)

\* Orders of other tickets do not show in a ticket's contract.
LEMMA OnlyItsOrders ==
    ASSUME NEW t \in Tickets,
           {o \in orders' \ unanswered' : o.ticket = t} = {o \in orders \ unanswered : o.ticket = t},
           {o \in unanswered' : o.ticket = t} = {o \in unanswered : o.ticket = t}
    PROVE  Known(t)' = Known(t) /\ Traceless(t)' = Traceless(t)
BY DEF Known, Traceless

\* A ticket whose state and orders a step leaves alone keeps its contract.
LEMMA SameContract ==
    ASSUME NEW t \in Tickets, ticket'[t] = ticket[t],
           {o \in orders' \ unanswered' : o.ticket = t} = {o \in orders \ unanswered : o.ticket = t},
           {o \in unanswered' : o.ticket = t} = {o \in unanswered : o.ticket = t}
    PROVE  ContractOf(t)' = ContractOf(t)
BY OnlyItsOrders DEF ContractOf

\* The order at work slips: its ticket is open before the step, and after it the
\* program knows no order of the ticket.
LEMMA CurrentSlips ==
    ASSUME IInv, loop.pc = "mark", NEW t \in Tickets, t = loop.job,
           ticket'[t] \in {"open", "lost"},
           orders' = orders,
           unanswered' = unanswered \cup {o \in orders : CurrentUnmarked(o)}
    PROVE  Contract!Slipped(ContractOf(t), ContractOf(t)')
<1>1. ticket[t] = "open"
  BY DEF IInv, HandlerOK
<1>2. \A o \in orders : o.ticket = t => o \in unanswered'
  BY <1>1 DEF IInv, OpenTicketsOK
<1>3. Known(t)' = {}
  BY <1>2 DEF Known
<1>4. Known(t) \cup Traceless(t) \subseteq Traceless(t)'
  BY <1>2 DEF IInv, OrdersOK, Known, Traceless
<1>. QED
  BY <1>1, <1>3, <1>4 DEF Contract!Slipped, ContractOf

\* Every step of the route is, for each ticket, a step of the contract.
LEMMA ContractStep ==
    ASSUME IInv, [Next]_vars, NEW t \in Tickets
    PROVE  Contract!Step(ContractOf(t), ContractOf(t)')
<1>. USE DEF Contract!Step
<1>1. CASE UNCHANGED <<ticket, orders, unanswered>>
  BY <1>1, SameContract
<1>2. ASSUME NEW t0 \in Tickets, NEW signal \in Signals, Preview(t0, signal)
      PROVE  Contract!Step(ContractOf(t), ContractOf(t)')
  <2>1. CASE t = t0
    BY <1>2, <2>1, OnlyItsOrders DEF IInv, TypeOK, Preview, ContractOf, Contract!Issued
  <2>2. CASE t # t0
    BY <1>2, <2>2, SameContract DEF IInv, TypeOK, Preview
  <2>. QED
    BY <2>1, <2>2
<1>3. CASE PlaceOrder
  <2>1. CASE t = loop.job
    <3>1. ticket[t] = "open" /\ ticket' = ticket
      BY <1>3, <2>1 DEF IInv, HandlerOK, PlaceOrder
    <3>2. \A o \in orders \ unanswered : o.ticket # t
      BY <1>3, <3>1 DEF IInv, OpenTicketsOK, CurrentUnmarked, PlaceOrder
    <3>3. Known(t) = {}
      BY <3>2 DEF Known
    <3>4. ASSUME NEW order \in Order, order.ticket = t,
                 orders' = orders \cup {order}, unanswered' = unanswered
          PROVE  Contract!Step(ContractOf(t), ContractOf(t)')
      <4>1. Known(t)' \in {{}, {order.attempt}} /\ Traceless(t)' = Traceless(t)
        BY <3>2, <3>4 DEF Known, Traceless
      <4>2. CASE Known(t)' = {}
        BY <3>1, <3>3, <4>1, <4>2 DEF ContractOf
      <4>3. CASE Known(t)' = {order.attempt}
        <5>1. ContractOf(t).state = "open" /\ ContractOf(t).known = {}
          BY <3>1, <3>3 DEF ContractOf
        <5>2. ContractOf(t)' = [ContractOf(t) EXCEPT !.known = {order.attempt}]
          BY <3>1, <4>1, <4>3 DEF ContractOf
        <5>3. order.attempt \in (ContractOf(t)').known
          BY <4>3 DEF ContractOf
        <5>. QED
          BY <5>1, <5>2, <5>3 DEF Contract!Bought
      <4>. QED
        BY <4>1, <4>2, <4>3
    <3>5. ASSUME NEW order \in Order, order.ticket = t,
                 orders' = orders \cup {order}, unanswered' = unanswered \cup {order}
          PROVE  Contract!Step(ContractOf(t), ContractOf(t)')
      <4>1. Known(t)' = {} /\ Traceless(t) \subseteq Traceless(t)'
        BY <3>2, <3>5 DEF Known, Traceless
      <4>. QED
        BY <3>1, <3>3, <4>1 DEF ContractOf, Contract!Slipped
    <3>. QED
      BY <1>3, <2>1, <3>1, <3>4, <3>5, PlaceOrderCases, SameContract DEF IInv
  <2>2. CASE t # loop.job
    BY <1>3, <2>2, PlaceOrderCases, SameContract DEF IInv, PlaceOrder
  <2>. QED
    BY <2>1, <2>2
<1>4. CASE MarkUsed
  <2>1. CASE t = loop.job
    BY <1>4, <2>1, OnlyItsOrders
       DEF IInv, TypeOK, HandlerOK, MarkUsed, ContractOf, Contract!Used
  <2>2. CASE t # loop.job
    BY <1>4, <2>2, SameContract DEF IInv, TypeOK, MarkUsed
  <2>. QED
    BY <2>1, <2>2
<1>5. CASE StorageFails
  <2>1. CASE loop.pc = "mark" /\ t = loop.job
    BY <1>5, <2>1, CurrentSlips DEF IInv, HandlerOK, StorageFails
  <2>2. CASE ~(loop.pc = "mark" /\ t = loop.job)
    BY <1>5, <2>2, SameContract DEF StorageFails, CurrentUnmarked
  <2>. QED
    BY <2>1, <2>2
<1>6. CASE Restart
  <2>1. /\ ticket'[t] = IF HasRepository \/ ticket[t] = "none" THEN ticket[t] ELSE "lost"
        /\ orders' = orders
        /\ unanswered' = unanswered \cup {o \in orders : CurrentUnmarked(o)}
    BY <1>6 DEF Restart
  <2>2. CASE loop.pc = "mark" /\ t = loop.job
    BY <2>1, <2>2, CurrentSlips DEF IInv, HandlerOK
  <2>3. CASE ~(loop.pc = "mark" /\ t = loop.job)
    <3>1. /\ {o \in orders' \ unanswered' : o.ticket = t} = {o \in orders \ unanswered : o.ticket = t}
          /\ {o \in unanswered' : o.ticket = t} = {o \in unanswered : o.ticket = t}
      BY <2>1, <2>3 DEF CurrentUnmarked
    <3>2. CASE ticket'[t] = ticket[t]
      BY <3>1, <3>2, SameContract
    <3>3. CASE ticket'[t] = "lost" /\ ticket[t] \in {"open", "used"}
      BY <3>1, <3>3, OnlyItsOrders DEF ContractOf, Contract!Lost
    <3>. QED
      BY <2>1, <3>2, <3>3 DEF IInv, TypeOK, TicketStates
  <2>. QED
    BY <2>2, <2>3
<1>. QED
  BY <1>1, <1>2, <1>3, <1>4, <1>5, <1>6
     DEF Next, HandlerStep, Submit, ChangeLeverage, SaveOrder, RecordAudit, vars, guardianVars

\* The Bitunix route implements the contract of its tickets.
THEOREM TicketsKeepContract == Spec => KeepsContract
<1>1. Init => Contract!Init
  BY SMTT(30) DEF Init, Contract!Init, Contract!NotIssued, ContractOf, Known, Traceless
<1>2. IInv /\ [Next]_vars => [Contract!Next]_[t \in Tickets |-> ContractOf(t)]
  BY ContractStep DEF Contract!Next
<1>. QED
  BY <1>1, <1>2, Invariance, PTL DEF Spec, KeepsContract, Contract!Spec
=============================================================================
