--------------------------- MODULE CcxtLiveProofs ---------------------------
(***************************************************************************)
(* Proofs about CcxtLive for any tickets, signals, rules, submissions and  *)
(* restarts, with and without a repository, and any number of calls in     *)
(* flight.  That a ticket buys once is proved of the behaviours in which   *)
(* the operators await each submission of that ticket before the next of   *)
(* it, whatever overlaps on other tickets: only an overlap on the ticket   *)
(* itself can make it buy twice.                                           *)
(***************************************************************************)
EXTENDS CcxtLive, FiniteSetTheorems, TLAPS

-----------------------------------------------------------------------------
(***************************************************************************)
(* Type correctness.                                                       *)
(***************************************************************************)

\* The desk's own steps keep its variables and the loop well typed.
LEMMA DeskStepType ==
    ASSUME DeskTypeOK, DeskStep
    PROVE  DeskTypeOK' /\ loop' = loop
BY DEF DeskTypeOK, DeskStep, RequestHalt, HandleHalt, Resume, SetRule, DeleteRule,
       RuleExpires, ExitRecorded, CooldownElapses, AccountMoves, WithRule, WithoutRule

\* A handler at work works on a call that is answered, and past its first write
\* the call's ticket is used.
HandlerOK ==
    /\ loop.pc = "idle" <=> loop = Idle
    /\ loop.pc # "idle" => loop.job \in answered
    /\ loop.pc \in {"save", "audit"} => ticket[loop.job.ticket] = "used"

\* What the submissions of tickets come to is known of every accepted order.
IInv == TypeOK /\ HandlerOK /\ OrdersTracked

\* Every step keeps the types.
LEMMA NextType ==
    ASSUME TypeOK, HandlerOK, [Next]_vars
    PROVE  TypeOK'
<1>. USE DeskAssumption, CcxtAssumption DEF Phases, TicketStates
<1>1. CASE DeskStep /\ UNCHANGED ccxtVars
  BY <1>1, DeskStepType DEF TypeOK, ccxtVars
<1>2. ASSUME NEW t \in Tickets, NEW signal \in Signals, Preview(t, signal)
      PROVE  TypeOK'
  BY <1>2 DEF TypeOK, DeskTypeOK, Preview, deskVars
<1>3. ASSUME NEW t \in Tickets, Submit(t)
      PROVE  TypeOK'
  <2>1. attempts[t] \in 0 .. MaxAttempts /\ attempts[t] < MaxAttempts
    BY <1>3 DEF TypeOK, Submit
  <2>2. attempts[t] + 1 \in 1 .. MaxAttempts
    BY <2>1
  <2>3. [ticket |-> t, attempt |-> attempts[t] + 1] \in Call
    BY <2>2 DEF Call
  <2>4. attempts' \in [Tickets -> 0 .. MaxAttempts]
    BY <1>3, <2>2 DEF TypeOK, Submit
  <2>. QED
    BY <1>3, <2>3, <2>4 DEF TypeOK, DeskTypeOK, Submit, deskVars
<1>4. ASSUME NEW call \in inFlight, Accept(call) \/ Answer(call) \/ Fail(call)
      PROVE  TypeOK'
  BY <1>4 DEF TypeOK, DeskTypeOK, Accept, Answer, Fail, deskVars
<1>5. ASSUME NEW call \in answered, ResumeSubmit(call)
      PROVE  TypeOK'
  BY <1>5 DEF TypeOK, DeskTypeOK, ResumeSubmit, ccxtVars
<1>6. CASE MarkUsed
  BY <1>6 DEF TypeOK, DeskTypeOK, HandlerOK, MarkUsed, LoopGoes, Idle
<1>7. CASE SaveOrder
  <2>1. loop.job \in Call
    BY <1>7 DEF TypeOK, HandlerOK, SaveOrder
  <2>. QED
    BY <1>7, <2>1 DEF TypeOK, DeskTypeOK, SaveOrder, LoopGoes, Idle
<1>8. CASE RecordAudit
  <2>1. loop.job \in Call
    BY <1>8 DEF TypeOK, HandlerOK, RecordAudit
  <2>. QED
    BY <1>8, <2>1 DEF TypeOK, DeskTypeOK, RecordAudit, LoopGoes, Idle
<1>9. CASE StorageFails
  BY <1>9 DEF TypeOK, DeskTypeOK, HandlerOK, StorageFails, LoopGoes, Idle
<1>10. CASE Restart
  <2>0. restarts' \in 0 .. MaxRestarts
    BY <1>10 DEF TypeOK, DeskTypeOK, Restart, DeskRestart
  <2>1. DeskTypeOK' /\ loop' = Idle
    BY <1>10, <2>0, Zenon DEF TypeOK, DeskTypeOK, Restart, DeskRestart
  <2>2. ticket' \in [Tickets -> TicketStates]
    BY <1>10 DEF TypeOK, Restart
  <2>3. orders' \subseteq Call /\ unanswered' \subseteq orders'
    BY <1>10 DEF TypeOK, Restart
  <2>. QED
    BY <1>10, <2>1, <2>2, <2>3 DEF TypeOK, Restart, Idle
<1>11. CASE UNCHANGED vars
  BY <1>11 DEF TypeOK, DeskTypeOK, vars, deskVars, ccxtVars
<1>. QED
  BY <1>1, <1>2, <1>3, <1>4, <1>5, <1>6, <1>7, <1>8, <1>9, <1>10, <1>11
     DEF Next, HandlerStep

\* A handler past its await keeps an answered call, whose ticket is used once marked.
LEMMA NextHandler ==
    ASSUME TypeOK, HandlerOK, [Next]_vars
    PROVE  HandlerOK'
<1>1. CASE DeskStep /\ UNCHANGED ccxtVars
  BY <1>1, DeskStepType DEF TypeOK, HandlerOK, ccxtVars
<1>2. ASSUME NEW t \in Tickets, NEW signal \in Signals, Preview(t, signal)
      PROVE  HandlerOK'
  BY <1>2 DEF HandlerOK, Preview, deskVars, Idle
<1>3. ASSUME NEW t \in Tickets, Submit(t)
      PROVE  HandlerOK'
  BY <1>3 DEF HandlerOK, Submit, deskVars
<1>4. ASSUME NEW call \in inFlight, Accept(call) \/ Answer(call) \/ Fail(call)
      PROVE  HandlerOK'
  BY <1>4 DEF HandlerOK, Accept, Answer, Fail, deskVars
<1>5. ASSUME NEW call \in answered, ResumeSubmit(call)
      PROVE  HandlerOK'
  BY <1>5 DEF HandlerOK, ResumeSubmit, ccxtVars, Idle
<1>6. CASE MarkUsed
  <2>1. loop.job \in Call
    BY <1>6 DEF TypeOK, HandlerOK, MarkUsed
  <2>. QED
    BY <1>6, <2>1 DEF TypeOK, HandlerOK, Call, MarkUsed, LoopGoes, Idle
<1>7. CASE SaveOrder \/ RecordAudit \/ StorageFails
  BY <1>7 DEF TypeOK, HandlerOK, SaveOrder, RecordAudit, StorageFails, LoopGoes, Idle
<1>8. CASE Restart
  BY <1>8 DEF HandlerOK, Restart, DeskRestart, Idle
<1>9. CASE UNCHANGED vars
  BY <1>9 DEF HandlerOK, vars, deskVars, ccxtVars
<1>. QED
  BY <1>1, <1>2, <1>3, <1>4, <1>5, <1>6, <1>7, <1>8, <1>9 DEF Next, HandlerStep

\* An accepted order stays in flight, answered or unanswered, or its ticket is used or lost.
LEMMA NextTracked ==
    ASSUME TypeOK, HandlerOK, OrdersTracked, [Next]_vars
    PROVE  OrdersTracked'
<1>. USE DEF OrdersTracked
<1>0. \A o \in orders : o.ticket \in Tickets
  BY DEF TypeOK, Call
<1>1. CASE DeskStep /\ UNCHANGED ccxtVars
  BY <1>1 DEF ccxtVars
<1>2. ASSUME NEW t \in Tickets, NEW signal \in Signals, Preview(t, signal)
      PROVE  OrdersTracked'
  BY <1>0, <1>2 DEF TypeOK, Preview
<1>3. ASSUME NEW t \in Tickets, Submit(t)
      PROVE  OrdersTracked'
  BY <1>3 DEF Submit
<1>4. ASSUME NEW call \in inFlight, Accept(call) \/ Answer(call) \/ Fail(call)
      PROVE  OrdersTracked'
  BY <1>4 DEF Accept, Answer, Fail
<1>5. ASSUME NEW call \in answered, ResumeSubmit(call)
      PROVE  OrdersTracked'
  BY <1>5 DEF ResumeSubmit, ccxtVars
<1>6. CASE MarkUsed
  BY <1>0, <1>6 DEF TypeOK, MarkUsed
<1>7. CASE SaveOrder \/ RecordAudit
  BY <1>7 DEF HandlerOK, SaveOrder, RecordAudit
<1>8. CASE StorageFails
  BY <1>8 DEF HandlerOK, StorageFails
<1>9. CASE Restart
  <2>1. \A o \in orders : ticket[o.ticket] \in {"used", "lost"} =>
                            ticket'[o.ticket] \in {"used", "lost"}
    BY <1>0, <1>9 DEF Restart
  <2>2. \A o \in orders' : o \in orders \/ o \in unanswered'
    BY <1>9 DEF Restart
  <2>3. ASSUME NEW o \in orders
        PROVE  o \in unanswered' \/ ticket'[o.ticket] \in {"used", "lost"}
    <3>1. CASE o \in inFlight \/ o \in unanswered
      BY <1>9, <3>1 DEF Restart
    <3>2. CASE o \in answered /\ o = loop.job /\ loop.pc \in {"save", "audit"}
      BY <2>1, <3>2 DEF HandlerOK
    <3>3. CASE o \in answered /\ ~(o = loop.job /\ loop.pc \in {"save", "audit"})
      BY <1>9, <3>3 DEF Restart
    <3>4. CASE ticket[o.ticket] \in {"used", "lost"}
      BY <2>1, <3>4
    <3>. QED
      BY <3>1, <3>2, <3>3, <3>4
  <2>. QED
    BY <2>2, <2>3
<1>10. CASE UNCHANGED vars
  BY <1>10 DEF vars, ccxtVars
<1>. QED
  BY <1>1, <1>2, <1>3, <1>4, <1>5, <1>6, <1>7, <1>8, <1>9, <1>10 DEF Next, HandlerStep

\* IInv is an inductive invariant of the CCXT route.
THEOREM Invariance == Spec => []IInv
<1>1. Init => IInv
  <2>. SUFFICES ASSUME Init PROVE IInv
    OBVIOUS
  <2>0. 0 \in 0 .. MaxRestarts /\ 0 \in 0 .. MaxAttempts
    BY DeskAssumption, CcxtAssumption
  <2>1. DeskTypeOK
    BY <2>0, Zenon DEF Init, DeskInit, DeskTypeOK
  <2>2. TypeOK
    BY <2>0, <2>1 DEF Init, DeskInit, TypeOK, Idle, Phases, TicketStates
  <2>. QED
    BY <2>2 DEF IInv, Init, DeskInit, HandlerOK, OrdersTracked, Idle
<1>2. IInv /\ [Next]_vars => IInv'
  BY NextType, NextHandler, NextTracked DEF IInv
<1>. QED
  BY <1>1, <1>2, PTL DEF Spec

\* Every variable of the route keeps its type.
THEOREM TypeCorrect == Spec => []TypeOK
<1>1. IInv => TypeOK
  BY DEF IInv
<1>. QED
  BY <1>1, Invariance, PTL

\* No accepted order is forgotten silently, however many submissions of a ticket
\* are in flight at once.
THEOREM OrdersAlwaysTracked == Spec => []OrdersTracked
<1>1. IInv => OrdersTracked
  BY DEF IInv
<1>. QED
  BY <1>1, Invariance, PTL

\* A halted desk admits no call, however many are in flight.
THEOREM HaltClosesTheDoor == Spec => HaltAdmitsNoCall
<1>1. [Next]_vars => [halted /\ halted' => orders' \cup inFlight' \subseteq orders \cup inFlight]_vars
  <2>. SUFFICES ASSUME [Next]_vars, halted, halted'
                PROVE  orders' \cup inFlight' \subseteq orders \cup inFlight
    OBVIOUS
  <2>1. CASE DeskStep /\ UNCHANGED ccxtVars
    BY <2>1 DEF ccxtVars
  <2>2. ASSUME NEW t \in Tickets, Submit(t)
        PROVE  FALSE
    BY <2>2 DEF Submit, LiveOrderSafe
  <2>3. ASSUME NEW call \in inFlight, Accept(call) \/ Answer(call) \/ Fail(call)
        PROVE  orders' \cup inFlight' \subseteq orders \cup inFlight
    BY <2>3 DEF Accept, Answer, Fail
  <2>4. CASE Restart
    BY <2>4 DEF Restart, DeskRestart
  <2>5. CASE orders' = orders /\ inFlight' = inFlight
    BY <2>5
  <2>. QED
    BY <2>1, <2>2, <2>3, <2>4, <2>5
       DEF Next, HandlerStep, Preview, ResumeSubmit, MarkUsed, SaveOrder, RecordAudit,
           StorageFails, vars, ccxtVars
<1>. QED
  BY <1>1, PTL DEF Spec, HaltAdmitsNoCall

-----------------------------------------------------------------------------
(***************************************************************************)
(* Tickets whose operators await one submission before the next.           *)
(***************************************************************************)

\* No submission waits for two things.
Apart == inFlight \cap answered = {}

\* A submission of a given ticket waits on an open ticket, unless it has just been
\* marked used.
OpenCalls(given) ==
    \A c \in inFlight \cup answered :
        c.ticket \in given =>
            \/ ticket[c.ticket] = "open"
            \/ c = loop.job /\ loop.pc \in {"save", "audit"}

\* A submission to come is none that was.
Fresh == \A c \in orders \cup inFlight : c.attempt <= attempts[c.ticket]

\* What holds whatever overlaps.
CallsInv == IInv /\ Fresh /\ Apart

\* The invariant of the given tickets, of which one submission waits at a time.
OneInv(given) == CallsInv /\ Awaited(given) /\ OpenCalls(given)

\* The submissions of a ticket that wait are all one.
LEMMA OneWaits ==
    ASSUME NEW given \in SUBSET Tickets, Awaited(given),
           NEW c1 \in inFlight \cup answered, NEW c2 \in inFlight \cup answered,
           c1.ticket \in given, c1.ticket = c2.ticket
    PROVE  c1 = c2
BY DEF Awaited, Waiting

\* The call of a submission is none that the exchange accepted or that is in flight.
LEMMA NewCall ==
    ASSUME TypeOK, Fresh, NEW t \in Tickets
    PROVE  [ticket |-> t, attempt |-> attempts[t] + 1] \notin orders \cup inFlight
<1>. DEFINE call == [ticket |-> t, attempt |-> attempts[t] + 1]
<1>1. attempts[t] \in Nat
  BY CcxtAssumption DEF TypeOK
<1>2. ~(call.attempt <= attempts[call.ticket])
  BY <1>1
<1>. QED
  BY <1>2 DEF Fresh

\* The next submission of a ticket stays a call that nobody has made.
LEMMA NextFresh ==
    ASSUME TypeOK, Fresh, [Next]_vars
    PROVE  Fresh'
<1>1. ASSUME NEW t \in Tickets, Submit(t)
      PROVE  Fresh'
  <2>1. \A c \in orders \cup inFlight : c.ticket \in Tickets /\ c.attempt \in Nat
    BY DEF TypeOK, Call
  <2>2. \A u \in Tickets : attempts[u] \in Nat
    BY CcxtAssumption DEF TypeOK
  <2>3. /\ attempts' = [attempts EXCEPT ![t] = attempts[t] + 1]
        /\ orders' = orders
        /\ inFlight' = inFlight \cup {[ticket |-> t, attempt |-> attempts[t] + 1]}
    BY <1>1 DEF Submit
  <2>4. ASSUME NEW c \in orders \cup inFlight
        PROVE  c.attempt <= attempts'[c.ticket]
    <3>1. attempts[c.ticket] <= attempts'[c.ticket] /\ attempts'[c.ticket] \in Nat
      BY <2>1, <2>2, <2>3 DEF TypeOK
    <3>. QED
      BY <2>1, <2>2, <3>1 DEF Fresh
  <2>5. attempts[t] + 1 <= attempts'[t]
    BY <2>2, <2>3 DEF TypeOK
  <2>. QED
    BY <2>3, <2>4, <2>5 DEF Fresh
<1>2. CASE attempts' = attempts /\ orders' \cup inFlight' \subseteq orders \cup inFlight
  BY <1>2 DEF Fresh
<1>. QED
  BY <1>1, <1>2
     DEF Next, HandlerStep, Preview, Accept, Answer, Fail, ResumeSubmit, MarkUsed, SaveOrder,
         RecordAudit, StorageFails, Restart, vars, ccxtVars

\* No step leaves a submission waiting for two things.
LEMMA NextApart ==
    ASSUME TypeOK, Fresh, Apart, [Next]_vars
    PROVE  Apart'
<1>1. ASSUME NEW t \in Tickets, Submit(t)
      PROVE  Apart'
  BY <1>1, NewCall DEF TypeOK, Submit, Apart
<1>2. ASSUME NEW call \in inFlight, Accept(call) \/ Answer(call) \/ Fail(call)
      PROVE  Apart'
  BY <1>2 DEF Accept, Answer, Fail, Apart
<1>3. CASE inFlight' \subseteq inFlight /\ answered' \subseteq answered
  BY <1>3 DEF Apart
<1>. QED
  BY <1>1, <1>2, <1>3
     DEF Next, HandlerStep, Preview, ResumeSubmit, MarkUsed, SaveOrder, RecordAudit,
         StorageFails, Restart, vars, ccxtVars

\* The ticket of a call at work stays open.
LEMMA NextOpenCalls ==
    ASSUME NEW given \in SUBSET Tickets, TypeOK, HandlerOK, Apart, Awaited(given),
           OpenCalls(given), [Next]_vars
    PROVE  OpenCalls(given)'
<1>. USE DEF OpenCalls
<1>0. \A c \in inFlight \cup answered : c.ticket \in Tickets
  BY DEF TypeOK, Call
<1>1. CASE DeskStep /\ UNCHANGED ccxtVars
  BY <1>1, DeskStepType DEF TypeOK, ccxtVars
<1>2. ASSUME NEW t \in Tickets, NEW signal \in Signals, Preview(t, signal)
      PROVE  OpenCalls(given)'
  BY <1>0, <1>2 DEF TypeOK, Preview, deskVars
<1>3. ASSUME NEW t \in Tickets, Submit(t)
      PROVE  OpenCalls(given)'
  BY <1>3 DEF Submit, deskVars
<1>4. ASSUME NEW call \in inFlight, Accept(call) \/ Answer(call) \/ Fail(call)
      PROVE  OpenCalls(given)'
  BY <1>4 DEF Accept, Answer, Fail, deskVars
<1>5. ASSUME NEW call \in answered, ResumeSubmit(call)
      PROVE  OpenCalls(given)'
  BY <1>5 DEF ResumeSubmit, ccxtVars, Idle
<1>6. CASE MarkUsed
  <2>1. /\ loop.job \in answered /\ loop'.job = loop.job /\ loop'.pc = "save"
        /\ inFlight' = inFlight /\ answered' = answered
    BY <1>6 DEF TypeOK, HandlerOK, MarkUsed, LoopGoes
  <2>2. ASSUME NEW c \in inFlight \cup answered, c.ticket \in given, c # loop.job
        PROVE  c.ticket # loop.job.ticket
    BY <2>1, <2>2, OneWaits
  <2>. QED
    BY <1>0, <1>6, <2>1, <2>2 DEF TypeOK, MarkUsed
<1>7. CASE SaveOrder
  BY <1>7 DEF TypeOK, HandlerOK, Apart, SaveOrder, LoopGoes
<1>8. CASE RecordAudit \/ StorageFails
  BY <1>8 DEF HandlerOK, Apart, RecordAudit, StorageFails
<1>9. CASE Restart
  BY <1>9 DEF Restart
<1>10. CASE UNCHANGED vars
  BY <1>10 DEF vars, deskVars, ccxtVars
<1>. QED
  BY <1>1, <1>2, <1>3, <1>4, <1>5, <1>6, <1>7, <1>8, <1>9, <1>10 DEF Next, HandlerStep

\* A step between two states in which the given tickets are awaited keeps it.
LEMMA OneStep ==
    ASSUME NEW given \in SUBSET Tickets
    PROVE  /\ Init => Fresh /\ Apart /\ OpenCalls(given) /\ BuyOnce(given)
           /\ /\ IInv /\ Fresh /\ Apart /\ Awaited(given) /\ OpenCalls(given)
              /\ [Next]_vars
              => Fresh' /\ Apart' /\ OpenCalls(given)'
<1>1. Init => Fresh /\ Apart /\ OpenCalls(given) /\ BuyOnce(given)
  BY DEF Init, Apart, OpenCalls, Fresh, BuyOnce, Heard
<1>2. /\ IInv /\ Fresh /\ Apart /\ Awaited(given) /\ OpenCalls(given)
      /\ [Next]_vars
      => Fresh' /\ Apart' /\ OpenCalls(given)'
  BY NextOpenCalls, NextApart, NextFresh DEF IInv
<1>. QED
  BY <1>1, <1>2

\* It holds as long as the submissions of the given tickets are awaited.
LEMMA OneInvariance ==
    ASSUME NEW given \in SUBSET Tickets
    PROVE  Spec /\ []Awaited(given) => []OneInv(given)
BY OneStep, Invariance, PTL DEF Spec, OneInv, CallsInv

\* The same of all tickets.
LEMMA AllInvariance == Spec /\ []Awaited(Tickets) => []OneInv(Tickets)
<1>1. Tickets \in SUBSET Tickets
  OBVIOUS
<1>2. /\ Init => Fresh /\ Apart /\ OpenCalls(Tickets)
      /\ /\ IInv /\ Fresh /\ Apart /\ Awaited(Tickets) /\ OpenCalls(Tickets)
         /\ [Next]_vars
         => Fresh' /\ Apart' /\ OpenCalls(Tickets)'
  BY <1>1, OneStep
<1>. QED
  BY <1>2, Invariance, PTL DEF Spec, OneInv, CallsInv

\* Of an open ticket the program has heard of one order at most: the one whose
\* handler waits.
LEMMA HeardIsWaiting ==
    ASSUME IInv, NEW o \in Heard, ticket[o.ticket] = "open"
    PROVE  o \in answered
BY DEF IInv, OrdersTracked, Heard

\* A call in flight for a given ticket is for an open one.
LEMMA InFlightOpen ==
    ASSUME NEW given \in SUBSET Tickets, OneInv(given),
           NEW call \in inFlight, call.ticket \in given
    PROVE  ticket[call.ticket] = "open"
BY DEF OneInv, CallsInv, IInv, HandlerOK, OpenCalls, Apart

\* While a call for a given ticket is in flight, nothing has been heard of the ticket.
LEMMA InFlightUnheard ==
    ASSUME NEW given \in SUBSET Tickets, OneInv(given),
           NEW call \in inFlight, call.ticket \in given, NEW o \in Heard
    PROVE  o.ticket # call.ticket
<1>. SUFFICES ASSUME o.ticket = call.ticket PROVE FALSE
  OBVIOUS
<1>1. o \in answered
  BY InFlightOpen, HeardIsWaiting DEF OneInv, CallsInv
<1>2. o = call
  BY <1>1, OneWaits DEF OneInv
<1>. QED
  BY <1>1, <1>2 DEF OneInv, CallsInv, Apart

\* No step gives an awaited ticket its second answered order.
LEMMA NextAnswered ==
    ASSUME NEW given \in SUBSET Tickets, OneInv(given), BuyOnce(given), [Next]_vars
    PROVE  BuyOnce(given)'
<1>. USE DEF BuyOnce
<1>1. ASSUME NEW call \in inFlight, Accept(call) \/ Fail(call)
      PROVE  BuyOnce(given)'
  BY <1>1 DEF Accept, Fail, Heard
<1>2. ASSUME NEW call \in inFlight, Answer(call)
      PROVE  BuyOnce(given)'
  <2>1. Heard' \subseteq Heard \cup {call}
    BY <1>2 DEF Answer, Heard
  <2>2. \A o \in Heard : call.ticket \in given => o.ticket # call.ticket
    BY InFlightUnheard
  <2>. QED
    BY <2>1, <2>2
<1>3. CASE Restart
  BY <1>3 DEF Restart, Heard
<1>4. CASE Heard' \subseteq Heard
  BY <1>4
<1>5. ASSUME NEW t \in Tickets, Submit(t)
      PROVE  Heard' \subseteq Heard
  BY <1>5 DEF Submit, Heard
<1>. QED
  BY <1>1, <1>2, <1>3, <1>4, <1>5
     DEF Next, HandlerStep, Preview, ResumeSubmit, MarkUsed, SaveOrder, RecordAudit,
         StorageFails, Heard, vars, ccxtVars

\* A ticket can buy two orders that the program knows of only in a behaviour in which
\* two of its own submissions overlapped: whichever tickets are awaited, they buy
\* once, whatever overlaps on the others and however many calls are in flight.
THEOREM OnlyOverlapBuysTwice ==
    ASSUME NEW given \in SUBSET Tickets
    PROVE  Spec /\ []Awaited(given) => []BuyOnce(given)
<1>1. Init => BuyOnce(given)
  BY OneStep
<1>2. OneInv(given) /\ BuyOnce(given) /\ [Next]_vars => BuyOnce(given)'
  BY NextAnswered
<1>. QED
  BY <1>1, <1>2, OneInvariance, PTL DEF Spec

\* Where the operators await every submission, each ticket gets one order that the
\* program knows of, at most.
THEOREM OneAnsweredOrder == Spec /\ []Awaited(Tickets) => []AnsweredOncePerTicket
<1>1. Tickets \in SUBSET Tickets
  OBVIOUS
<1>2. Init => AnsweredOncePerTicket
  BY <1>1, OneStep DEF AnsweredOncePerTicket
<1>3. OneInv(Tickets) /\ AnsweredOncePerTicket /\ [Next]_vars => AnsweredOncePerTicket'
  BY <1>1, NextAnswered DEF AnsweredOncePerTicket
<1>. QED
  BY <1>2, <1>3, AllInvariance, PTL DEF Spec

-----------------------------------------------------------------------------
(***************************************************************************)
(* The ticket's contract.                                                  *)
(***************************************************************************)

\* A ticket whose state and orders a step leaves alone keeps its contract.
LEMMA SameContract ==
    ASSUME NEW t \in Tickets,
           {o \in Heard' : o.ticket = t} = {o \in Heard : o.ticket = t},
           {o \in unanswered' : o.ticket = t} = {o \in unanswered : o.ticket = t}
    PROVE  /\ Known(t)' = Known(t)
           /\ Traceless(t)' = Traceless(t)
           /\ ticket'[t] = ticket[t] => ContractOf(t)' = ContractOf(t)
BY DEF Known, Traceless, ContractOf

\* The orders of an open ticket slip: none of them is known any more.
LEMMA AllSlip ==
    ASSUME NEW t \in Tickets, ticket[t] = "open", ticket'[t] \in {"open", "lost"},
           unanswered \subseteq unanswered',
           \A o \in Heard : o.ticket = t => o \in unanswered',
           \A o \in Heard' : o.ticket # t
    PROVE  Contract!Slipped(ContractOf(t), ContractOf(t)')
<1>1. Known(t)' = {}
  BY DEF Known
<1>2. Known(t) \cup Traceless(t) \subseteq Traceless(t)'
  BY DEF Known, Traceless
<1>. QED
  BY <1>1, <1>2 DEF Contract!Slipped, ContractOf

\* A ticket none of whose submissions waits unmarked loses nothing in a crash.
LEMMA RestartKeeps ==
    ASSUME NEW given \in SUBSET Tickets, NEW t \in given, OneInv(given), Restart,
           ticket[t] # "open"
    PROVE  /\ {o \in Heard' : o.ticket = t} = {o \in Heard : o.ticket = t}
           /\ {o \in unanswered' : o.ticket = t} = {o \in unanswered : o.ticket = t}
<1>1. \A c \in inFlight : c.ticket # t
  BY InFlightOpen
<1>2. \A c \in answered : c.ticket = t => c = loop.job /\ loop.pc \in {"save", "audit"}
  BY DEF OneInv, OpenCalls
<1>3. PICK late \in SUBSET inFlight : orders' = orders \cup late
  BY DEF Restart
<1>4. \A o : o.ticket = t => (o \in orders' <=> o \in orders)
  BY <1>1, <1>3
<1>5. \A o : o.ticket = t => (o \in unanswered' <=> o \in unanswered)
  BY <1>1, <1>2 DEF Restart
<1>6. \A o : o.ticket = t => (o \in Heard' <=> o \in Heard)
  BY <1>1, <1>4, <1>5 DEF Restart, Heard
<1>. QED
  BY <1>5, <1>6

\* Every step of the route is, for each ticket, a step of the contract.
LEMMA ContractStep ==
    ASSUME NEW given \in SUBSET Tickets, NEW t \in given, OneInv(given), [Next]_vars
    PROVE  Contract!Step(ContractOf(t), ContractOf(t)')
<1>. USE DEF Contract!Step
<1>1. CASE UNCHANGED <<ticket, orders, inFlight, unanswered>>
  BY <1>1, SameContract DEF Heard
<1>2. ASSUME NEW t0 \in Tickets, NEW signal \in Signals, Preview(t0, signal)
      PROVE  Contract!Step(ContractOf(t), ContractOf(t)')
  <2>1. Heard' = Heard /\ unanswered' = unanswered
    BY <1>2 DEF Preview, Heard
  <2>2. CASE t = t0
    <3>1. ticket[t] = "none" /\ ticket'[t] = "open"
      BY <1>2, <2>2 DEF OneInv, CallsInv, IInv, TypeOK, Preview
    <3>2. Known(t)' = Known(t) /\ Traceless(t)' = Traceless(t)
      BY <2>1, SameContract
    <3>3. ContractOf(t)' = [ContractOf(t) EXCEPT !.state = "open"]
      BY <3>1, <3>2 DEF ContractOf
    <3>4. ContractOf(t).state = "none"
      BY <3>1 DEF ContractOf
    <3>. QED
      BY <3>3, <3>4 DEF Contract!Issued
  <2>3. CASE t # t0
    BY <1>2, <2>1, <2>3, SameContract DEF OneInv, CallsInv, IInv, TypeOK, Preview
  <2>. QED
    BY <2>2, <2>3
<1>3. ASSUME NEW t0 \in Tickets, Submit(t0)
      PROVE  Contract!Step(ContractOf(t), ContractOf(t)')
  <2>. DEFINE call == [ticket |-> t0, attempt |-> attempts[t0] + 1]
  <2>1. call \notin orders
    <3>1. attempts[t0] \in Nat
      BY CcxtAssumption DEF OneInv, CallsInv, IInv, TypeOK
    <3>2. ~(call.attempt <= attempts[call.ticket])
      BY <3>1
    <3>. QED
      BY <3>2 DEF OneInv, CallsInv, Fresh
  <2>2. Heard' = Heard /\ unanswered' = unanswered /\ ticket' = ticket
    BY <1>3, <2>1 DEF Submit, Heard
  <2>. QED
    BY <2>2, SameContract
<1>4. ASSUME NEW call \in inFlight, Accept(call)
      PROVE  Contract!Step(ContractOf(t), ContractOf(t)')
  BY <1>4, SameContract DEF Accept, Heard
<1>5. ASSUME NEW call \in inFlight, Answer(call)
      PROVE  Contract!Step(ContractOf(t), ContractOf(t)')
  <2>1. /\ Heard' \in {Heard, Heard \cup {call}}
        /\ unanswered' = unanswered /\ ticket' = ticket
    BY <1>5 DEF Answer, Heard
  <2>2. CASE Heard' = Heard \/ t # call.ticket
    BY <2>1, <2>2, SameContract
  <2>3. CASE Heard' = Heard \cup {call} /\ t = call.ticket
    <3>1. ContractOf(t).state = "open" /\ ContractOf(t).known = {}
      BY <2>3, InFlightOpen, InFlightUnheard DEF ContractOf, Known
    <3>2. Known(t)' = {call.attempt} /\ Traceless(t)' = Traceless(t)
      BY <2>1, <2>3, InFlightUnheard DEF Known, Traceless
    <3>3. ContractOf(t)' = [ContractOf(t) EXCEPT !.known = {call.attempt}]
      BY <2>1, <3>2 DEF ContractOf
    <3>4. call.attempt \in (ContractOf(t)').known
      BY <3>2 DEF ContractOf
    <3>. QED
      BY <3>1, <3>3, <3>4 DEF Contract!Bought
  <2>. QED
    BY <2>1, <2>2, <2>3
<1>6. ASSUME NEW call \in inFlight, Fail(call)
      PROVE  Contract!Step(ContractOf(t), ContractOf(t)')
  <2>1. /\ Heard' = Heard /\ ticket' = ticket
        /\ unanswered' = unanswered \cup ({call} \cap orders)
    BY <1>6 DEF Fail, Heard
  <2>2. CASE t # call.ticket
    BY <2>1, <2>2, SameContract
  <2>3. CASE t = call.ticket
    BY <2>1, <2>3, InFlightOpen, InFlightUnheard, AllSlip
  <2>. QED
    BY <2>2, <2>3
<1>7. CASE MarkUsed
  <2>1. /\ Heard' = Heard /\ unanswered' = unanswered
        /\ ticket' = [ticket EXCEPT ![loop.job.ticket] = "used"]
        /\ loop.job \in answered
    BY <1>7 DEF OneInv, CallsInv, IInv, HandlerOK, MarkUsed, Heard
  <2>2. CASE t = loop.job.ticket
    <3>1. ticket[t] = "open"
      BY <1>7, <2>1, <2>2 DEF OneInv, OpenCalls, MarkUsed
    <3>2. ticket'[t] = "used"
      BY <2>1, <2>2 DEF OneInv, CallsInv, IInv, TypeOK
    <3>. QED
      BY <2>1, <3>1, <3>2, SameContract DEF ContractOf, Contract!Used
  <2>3. CASE t # loop.job.ticket
    BY <2>1, <2>3, SameContract DEF OneInv, CallsInv, IInv, TypeOK
  <2>. QED
    BY <2>2, <2>3
<1>8. CASE StorageFails
  <2>1. /\ ticket' = ticket /\ orders' = orders /\ inFlight' = inFlight
        /\ unanswered' = unanswered \cup {call \in {loop.job} : loop.pc = "mark"}
        /\ loop.job \in answered
    BY <1>8 DEF OneInv, CallsInv, IInv, HandlerOK, StorageFails
  <2>2. CASE loop.pc = "mark" /\ t = loop.job.ticket
    <3>1. ticket[t] = "open"
      BY <2>1, <2>2 DEF OneInv, OpenCalls
    <3>2. \A o \in Heard : o.ticket = t => o = loop.job
      BY <2>1, <2>2, <3>1, HeardIsWaiting, OneWaits DEF OneInv, CallsInv
    <3>3. \A o \in Heard' : o \in Heard /\ o # loop.job
      BY <2>1, <2>2 DEF Heard
    <3>. QED
      BY <2>1, <2>2, <3>1, <3>2, <3>3, AllSlip
  <2>3. CASE ~(loop.pc = "mark" /\ t = loop.job.ticket)
    BY <2>1, <2>3, SameContract DEF Heard
  <2>. QED
    BY <2>2, <2>3
<1>9. CASE Restart
  <2>1. ticket'[t] = IF HasRepository \/ ticket[t] = "none" THEN ticket[t] ELSE "lost"
    BY <1>9 DEF Restart
  <2>2. CASE ticket[t] = "open"
    <3>1. \A o \in Heard : o.ticket = t => o \in unanswered'
      BY <1>9, <2>2, HeardIsWaiting DEF OneInv, CallsInv, IInv, HandlerOK, Restart
    <3>2. \A o \in Heard' : o \in Heard /\ o \notin unanswered'
      BY <1>9 DEF Restart, Heard
    <3>3. unanswered \subseteq unanswered'
      BY <1>9 DEF Restart
    <3>. QED
      BY <2>1, <2>2, <3>1, <3>2, <3>3, AllSlip
  <2>3. CASE ticket[t] # "open" /\ ticket'[t] = ticket[t]
    BY <1>9, <2>3, RestartKeeps, SameContract
  <2>4. CASE ticket[t] = "used" /\ ticket'[t] = "lost"
    BY <1>9, <2>4, RestartKeeps, SameContract DEF ContractOf, Contract!Lost
  <2>. QED
    BY <2>1, <2>2, <2>3, <2>4 DEF OneInv, CallsInv, IInv, TypeOK, TicketStates
<1>. QED
  BY <1>1, <1>2, <1>3, <1>4, <1>5, <1>6, <1>7, <1>8, <1>9
     DEF Next, HandlerStep, ResumeSubmit, SaveOrder, RecordAudit, vars, ccxtVars

\* Where the operators await every submission, the CCXT route implements the contract
\* of its tickets, whatever the exchange, the writes, the desk and a crash do.
THEOREM TicketsKeepContract == Spec /\ []Awaited(Tickets) => KeepsContract
<1>1. Init => Contract!Init
  BY DEF Init, Contract!Init, Contract!NotIssued, ContractOf, Known, Traceless, Heard
<1>2. OneInv(Tickets) /\ [Next]_vars => [Contract!Next]_[t \in Tickets |-> ContractOf(t)]
  BY ContractStep DEF Contract!Next
<1>. QED
  BY <1>1, <1>2, AllInvariance, PTL DEF Spec, KeepsContract, Contract!Spec
=============================================================================
