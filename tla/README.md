# Sentinel Chain in TLA+

TLA+ models of the trading core of Sentinel Chain (`src/src/sentinel_chain`),
the TLC runs that check them on small instances, and proofs checked by TLAPS.
The program is a FastAPI service that takes trading alerts, filters them through
runtime controls and a risk engine, lets an operator approve or reject them,
keeps a paper portfolio with synthetic brackets, and places live orders on
Bitunix or through CCXT when an operator previews and submits one.

## 1. The system

### Execution model

One process, one asyncio event loop, one `TradingEngine`.

* Routes written `async def` (everything that moves money or a control) run on
  the loop and interleave only at an `await`. Between two awaits such a handler
  is atomic with respect to the other routes, but not with respect to a crash or
  to its own failing writes.
* The Bitunix client is synchronous: `guardian_live_submit` holds the loop
  through both exchange calls. The CCXT client runs in a worker thread
  (`asyncio.to_thread`), so `ccxt_order_submit` gives the loop up in the middle.
* Routes written `def` (reads, the scanner) run in a thread pool and interleave at
  every step.
* With a repository (SQLite) every call is a transaction of its own; no handler
  spans one transaction over two calls. Without one the same state is a
  dictionary in memory, and some of it is not kept at all.
* The halt switch, the account, the paper exchange and the webhook replay store
  are process memory whatever the configuration.

### Components

| component | source | state | operations | talks to |
|---|---|---|---|---|
| Trading engine, operator controls | `engine.py`, `app.py` | halt switch, account, daily P&L, losing exits | halt, resume, process_signal, mark_price | risk engine, paper exchange |
| Pre-trade runtime controls | `runtime_controls.py`, `protections.py`, `market_state.py` | protection rules and cooldowns in runtime_state | evaluate, set and delete a rule | every order route |
| Signal intake, approvals | `intake.py`, `approvals.py`, `idempotency.py` | claimed ids, signal statuses, parked signals | handle, approve, reject | engine, repository |
| Bitunix live route | `app.py`, `live_execution.py`, `exchanges/bitunix_adapter.py` | preview tickets, live order records | preview, submit, cancel | exchange, controls, repository |
| CCXT live route | `app.py`, `exchanges/ccxt_adapter.py` | preview tickets, live order records | preview, submit, cancel | exchange, controls, repository |
| Paper exchange and brackets | `execution.py` | positions, bracket lots, exit legs | submit, mark, cancel, close, amend, breakeven, lock profit, replay | engine, bracket routes |
| SQLite repository | `repository.py` | signals, claims, orders, approvals, runtime state, audit | one transaction per call | all |
| Risk engine | `risk.py`, `futures_risk.py`, `advisory_risk.py` | none | evaluate | engine, live routes |
| Scalper | `scalper.py` | none | plan_rebracket | Edge |
| Scanner | `scanner/` | rules and hits in one JSON file | save and delete a rule, run, set a hit's status, feed | its own store, a promotion to intake |
| Edge actions, bus, Chrome bridge | `edge_actions.py`, `bot_event_bus.py`, `chrome_bridge.py` | the bus, an append-only file | publish, list, apply action | engine |
| Webhook authentication | `security.py` | replay store: seen signatures | verify | intake, bus |
| Signal normalisation | `signals.py`, `text_signals.py`, `bracket_templates.py`, `strategy_presets.py` | none | a payload, template, preset or text becomes a signal | every alert route |
| Bracket views | `api/bracket_views.py`, `brackets.py`, preview routes of `app.py` | none | preview marks, telemetry, coverage | paper exchange |
| Order planner, platform registry | `exchanges/order_planner.py`, `platform_registry.py` | none | plan | live preview |
| Charting, streaming, UI, Discord, launchers | `charting/`, `market_streaming.py`, `static/`, `discord_bot.py`, `config.py` | display state | reads | routes above |

### What is hard, and what has to be true

* **Live routes.** A ticket is checked, then two remote calls are made, then
  three records are written; any of the calls can be refused, be accepted with
  its answer lost, or be cut by a crash. A ticket must not buy two orders that
  the program knows of; the gates must hold when the order is accepted, not only
  when they were evaluated; the leverage in force must be the one asked for; a
  halt must stop new calls and must not be starved by handlers that hold the loop.
* **Runtime controls.** Four sources of reasons (rules, cooldown, market state,
  halt) are summarised once and read in three different ways. Blocked must mean
  blocked to every reader.
* **Intake.** The same alert is delivered repeatedly, while an earlier copy is
  parked, decided or cut between two transactions. It is decided once, is never
  silently lost, and nothing moves while the engine is halted.
* **Paper brackets.** A long sequence of marks and operator amendments moves
  stops, arms trailing exits and closes parts of lots. What a position holds must
  be what its lots hold, protection must tighten and never loosen, a crossed stop
  must not be left working, and a lot that closed must stay closed.
* **Signals.** One alert is interpreted five times: normalised, judged by the risk
  engine, judged by the futures assessment, turned into exits, and turned into a
  native order and an exchange plan. Each has its own precedence among alternative
  fields. The verdict must be about the order that is placed.
* **Bracket views.** An operator acts on previews, telemetry and a coverage report
  that recompute the exchange's rules. They must foretell what the exchange does.
* **Scanner.** Levels, events and tickets are chosen from overlapping clusters of
  pivots; the store is read, changed and written by pool threads.
* **Signed doors.** A request is let in once while the process lives; a restart
  empties the replay store, and an Edge action is three writes.
* **Process memory.** The halt switch, the paper exchange and the replay store
  do not survive a restart; the repository does.

The list of hazards, each at its line with the properties that would catch it,
is in `PROJECT.json`.

## 2. Modules

```
RuntimeControls          the gates, pure operators
   ├─ TradingDesk        shared state: halt, rules, cooldowns, account, event loop
   │    ├─ GuardianLive  Bitunix live route      ──implements──> TicketContract
   │    │     └─ GuardianLiveProofs (TLAPS)
   │    ├─ CcxtLive      CCXT live route         ──implements──> TicketContract
   │    │     └─ CcxtLiveProofs (TLAPS)
   │    └─ SignalIntake  alerts and approvals
   │          └─ Webhooks      signatures, replay store, Edge actions, bus
   │                └─ WebhooksProofs (TLAPS)
Signals                  an alert becomes a signal, pure operators
   └─ Risk               the risk engine's verdict
        └─ Orders        exits, futures assessment, native order, figures
             └─ OrderPlanner        the exchange plan
                  └─ SignalPlan     alerts arrive, the desk and its limits move
                       └─ SignalPlanProofs (TLAPS)
Brackets                 the exits of one paper lot, pure operators
   └─ PaperBrackets      positions, lots, marks, bracket routes, replay
      └─ BracketViews    previews, telemetry, coverage
           └─ PaperBracketProofs (TLAPS)   marks, routes, replay, the invariant, the views
ScannerRules             levels, events, rules and tickets of a window of candles
   └─ ScannerRulesProofs (TLAPS)
Scanner                  the scanner's routes, threads and store
   └─ ScannerProofs (TLAPS)
Recursion                recursion over numbers, sums and places, used by the proofs above (TLAPS)
MC*                      small instances of each, with their .cfg files
```

**RuntimeControls.** A signal is a record of what the gates look at: names
compared for equality, `reduce_only`, the set of policy limits its market
snapshot breaches, and the verdicts of the risk checks that depend on the signal
alone. `ProtectionsAllow` is `evaluate_protections`, `MarketStateName` is
`evaluate_market_state`, `RuntimeReasons` and `ApprovalRequired` are the summary
of `runtime_control_summary`, `IntakeBlocked` and `LiveBlocked` are its readers.
`Reserialized` is what `normalize_signal(signal_to_dict(signal))` leaves of a
signal: the raw payload is gone, so no snapshot and no futures context.

**TradingDesk.** The state shared by the routes and the operator's actions on
it. `loop` is the event loop: idle, or held by a handler between two of its
effects. A desk route is one step that needs an idle loop. A halt is two steps,
its arrival and its handler, because it may queue behind a blocking handler.
Expiries and cooldowns pass whatever the loop does.

**GuardianLive.** `Preview`, `Submit` (all checks of the handler), then one step
per effect: `ChangeLeverage`, `PlaceOrder`, `MarkUsed`, `SaveOrder`,
`RecordAudit`. Each remote call can be accepted, be accepted with its answer
lost, be refused with an HTTP error, or be refused inside a 200 answer, which
`request_json` takes for a success. Each write can fail (`StorageFails`), and
the process can crash before any step (`Restart`).

**CcxtLive.** The same route through CCXT. `Submit` ends at the await; the call
is then in flight (`Accept`, `Answer`, `Fail`) while other handlers run, and
`ResumeSubmit` gives the loop back to the handler. Submit evaluates the
serialised signal the ticket holds.

**TicketContract.** The abstract specification of a preview ticket: issued once,
buys at most one order the program knows of, only while open, and once used or
lost buys nothing. Orders whose answer was lost or could not be written are
*traceless*. Both routes implement it under a refinement mapping that reads the
contract of a ticket off the orders and the ticket's record.

**SignalIntake.** `handle` has four paths (halted, duplicate, blocked, claimed);
the claimed one holds the loop for one step per transaction. `approve` and
`reject` take the parked signal out first and write the outcome after. On the
halted and blocked paths, and in a halted approval, the writes are grouped into
one step: no handler reads any of them again, and a cut between them only leaves
out an audit event. What an audit event says is not kept; writing one is a step
that can fail. Nothing bounds how often an alert is delivered.

**Webhooks** composes the intake with the doors in front of it. `seen` is the
replay store: (timestamp, body) pairs claimed when a signature is good, before the
body is looked at, and emptied by `RestartAll`. An operator's session needs no
signature, which is `Decide`. A request to the event bus that carries an Edge
action is `ReceiveEdge` and then one step per write (`PublishEdge`, which also
applies a halt, `AuditEdge`, `TellEdge`), any of which can fail (`EdgeWriteFails`).

**Signals, Risk, Orders, OrderPlanner** are the pure half of the program. A payload
is three records (top level, bracket object, nested legs), with one name for all
the aliases of a field; a signal is a record whose domain is the fields that were
given. `Normalize` is `normalize_signal`, with templates, presets and the
precedence of the text grammar; `ToPayload` is `signal_to_dict`. `EvaluateSignal`
is the set of reason codes of `risk.evaluate_signal`. `ExitOrders` is
`build_exit_orders`, `FuturesReasons` is `futures_risk`, `BitunixSafe` and
`BitunixOrder` are the native preview and payload. `Strategy`, `Family`,
`FeaturesUsed` and `Warnings` are `plan_bracket_execution`. Prices of exits are in
basis points of the entry price. The native quantity is rounded down to a
hundred-millionth of the coin, and an entry of which nothing is left is refused;
`LeastOrder` is what that hundred-millionth is worth.

**SignalPlan** makes a system of them: alerts arrive by the four routes, a refused
one leaves nothing behind (`normalize_signal` raises before any route writes), the
risk configuration and the account change between alerts, and everything shown to an
operator or sent to an exchange is a function of that state. The state is the signal
under way, the configuration and the account. `SignalOK` is what the routes take for
granted of a signal, `Settled` what a second normalisation of it relies on; the two
are its type invariant. The assumption on payloads (`Typed`) is that amounts are
numbers, which parsing sees to.

**Brackets.** A lot is a record of its direction, entry price, plan, remaining quantity,
trailing state and the ordered list of its exit legs. The code writes each rule twice,
for long and short lots; here a rule compares prices by `Further`, how far they lie in
the lot's favour, and the direction enters there alone. `MarkLot`'s three parts are
operators: `ApplyBreakeven`, `UpdateTrailing`, and `TriggeredExit` with what a target
releases and locks (`ReleaseTrailing`, `LockAfterTp`). A trailing stop trails by an
amount or by a percentage of the price it trails (`Scale`, `MarkAt`, `TriggerBehind`),
its step is an amount or a percentage of its trigger (`Step`), and its triggers are
rounded to whole prices. Water marks are kept times `Scale`, so that the one computed
back from a trigger (`ImpliedBy`), a quotient in the code, is whole. A signal may start
the stop at a price of its own (`trailPrice`), nearer or further than its distance. The
amendments are a test (`StopAllowed`, `TrailAllowed`, `TightenAllowed`, `TargetAllowed`,
`Looser`) and a new lot.

**PaperBrackets.** `lots` and `position` are `PaperExchange.lots` and the
quantity of the one position. `Mark` is the loop of `update_price` over the lots
and, inside, over the exits one mark triggers; each bracket route is an action
whose guard is the exchange's early returns, so a request that changes nothing
is a stutter. Every one of these handlers is synchronous between reading and
writing the exchange, hence one step. Submission has been removed from the code
and nothing calls `from_order_history`, so lots come from an exchange that is
handed to `create_app` with a recorded history replayed into it. `replayed` is a
history variable: the book `from_order_history` would build from all orders
recorded so far. Sums over lots, the loop over the exits a mark triggers, the loop
over the lots and the replay are recursive functions of how much has been done, in
the order of the code, so that they can be reasoned about.

**BracketViews.** Operators on the state of `PaperBrackets`: `Preview` and
`PreviewPath` run the mark on a copy (`Sandbox`), `TrailStatus`,
`ActivationReady` and `RatchetReady` are the trailing telemetry, `ClosesAll` and
`HasFullProtectiveExit` the coverage report. The telemetry and the coverage report
compute the exchange's rules a second time, which is what the properties compare.
`Foretold` is what the telemetry may be relied on for. It looks at the trailing stop
alone: a breakeven of the same mark can take the stop to within a step of the
announced trigger, and a target's profit lock can move it, or arm it, unannounced
(plans `Activated`, `Guarded`). And a stop that still is at a price of its own, further
away than its distance, is announced as ready at marks that bring no new best price and
so do not move it (`NotYetFollowed`, plan `Placed`); this is a disagreement of the code
with its documentation, listed below.

**ScannerRules.** `Levels` clusters the pivots of a window and ranks the clusters,
`Structure` is the set of events the last candle makes of them, `Features` adds the
readings, `EvaluateRule` matches conditions and scores, `BuildTicket` places stop
and targets. Moving averages and oscillators are inputs (`Readings`). Clusters are
built pivot by pivot (a recursive function), and a ranking is the inverse of the
places its elements take, as the keys of the code's sorts order them. A rule for
another symbol or timeframe does not match (`AppliesTo`). Amounts are integers where
the code has decimals, in a unit small enough that the averages and shares of prices
need no rounding: `UnitAssumption` asks that different prices lie a hundred units apart
and that a price is 3500 units high, and any finitely many positive prices have such a
unit. It is not a tick of the exchange. What the code does round, the prices of a
ticket to eight decimals, is rounded (`Rounded`): `Grain` is how many units a
hundred-millionth has, and may be any number, so an ATR may be a small part of it.
Rounding can merge stop, entry and targets of a low-priced pair; `TicketsAreOrdered`
asks for a strict order where the amounts before rounding are a grain apart, and for no
reversal elsewhere. `BonusMakesNoSetup` is about rules that ask for a score
(`min_score` above zero): one that asks for none is met by anything.

**Scanner.** A request is a thread that reads the file, computes and writes the
whole copy back; `Read`, `Write` and `WriteFails` are the store's three outcomes
and another thread may run between any two. `intended` is a history variable, what
the acknowledged updates amount to in the order they were written; `overlapped`
records that a write fell between another call's read and write. `Poll` is one
round of a websocket feed, `Damage` a file that stops parsing, `Restart` a crash.

## 3. Runs

| run | question | result |
|---|---|---|
| `guardian_live` | Does a Bitunix ticket buy at most one known order, at the leverage asked for, with every gate still passed at placement, over lost answers, failing writes and a crash? Does the route implement the contract? | holds; also checks the inductive invariant the proof uses |
| `guardian_live_memory` | Without a repository, where a crash loses tickets and records together: is a halt starved by submissions that block the loop, and does each submission end? | a halt is not starved, a submission ends |
| `guardian_live_stressed` | Do blocked runtime controls refuse a live order, as the wiring document says? | **violated**: a stressed snapshot lifts a hard block |
| `ccxt_live` | The contract, order tracking and the effect of a halt on the awaiting route. Submissions of different tickets overlap, those of one ticket are awaited by their operators. | holds |
| `ccxt_live_double` | Is an unused ticket a gate of every live order? | **violated**: two overlapping submissions both pass it |
| `signal_intake` | Is an alert that is signed and sent again, before and after a restart that empties the replay store, decided once, never lost except by a cut, frozen by a halt, and does it leave the handler? Does a halting Edge action halt, and is what the bus says of it true? | holds |
| `paper_brackets` | One lot under each kind of plan, long and short, two lots of one direction and of two, and an entry that nets: do position and lots agree, does replay give the same position, does exposure only shrink, does protection only tighten, is anything due left working, does the trail keep up with the best price, does a fully protective exit close the lot, and do the views foretell the marks? | holds; also checks the inductive invariant the proof uses |
| `paper_brackets_release` | Does protection tighten when the first target releases a trailing stop? | **violated**: it moves back behind what an operator had set |
| `signal_plan` | Do the five places that interpret a signal's exits agree: the loss at the placed stop with the approved cap, the native order with the promise of a stop, a long with its mirrored short, a parked signal with the original, the preview with the exchange plan and with the verdict? | holds |
| `signal_plan_cap` | Does `AUTO_CRYPTO_MAX_RISK_AMOUNT` cap the loss at the stop however the signal is sized? | **violated**: a signal that gives both forms of size or stop is checked for one and placed with the other |
| `scanner_rules` | Over every window: is a break reported only beyond every mapped level, does a ticket stop out behind its structure with ordered targets, and can the volume bonus make a setup of a rule that is not near one? | holds |
| `scanner` | With two threads, failing writes, a damaged file and a restart: what can an acknowledged update be lost to, and does a hit in view reach an open feed? | lost only to an overlapping write; it reaches the feed |

`properties` in `PROJECT.json` names what each run checks, and each property is
preceded by a comment that states it and names the code.

More disagreements and oddities were met while modelling. They follow from a line
or two each and have no run of their own.

*Desk and live routes*

* `process_signal` (`engine.py:57`) rejects every signal of a running engine, so
  an alert an operator approved is answered with a rejection, where `README.md:214`
  of the repository and `tests/test_approvals.py` expect an accepted paper order.
* `ccxt_order_submit` (`app.py:1236`) evaluates the signal its ticket serialised,
  whose snapshot is gone, so stale market data that stopped the preview's runtime
  controls cannot stop the submission (wiring document, line 67).
* `request_json` of the Bitunix adapter (`bitunix_adapter.py:166`) takes any JSON
  object for a success; the models count such an answer among the accepted ones.

*Paper brackets*

* `create_app` (`app.py:166`) starts on an empty paper exchange and nothing calls
  `from_order_history`, where `README.md:1067` says that recorded orders are
  replayed at startup.
* Replay takes a reduce-only order from the oldest lots (`execution.py:1085`)
  instead of the lot it closed (`README.md:419`); positions agree, lots do not.
* A trail whose stop breakeven moved first stays `pending_activation`
  (`execution.py:1219`) although its activation price was reached (`README.md:274`).
* `_triggered_exit` (`execution.py:1189`) closes the lot of a canceled bracket
  when its time stop is due, where `README.md:417` leaves the exposure to the
  operator.
* A trail that a signal starts at a price of its own (`execution.py:1543`), further away
  than its distance, is announced as ready to ratchet at marks that do not move it
  (`bracket_views.py:279` asks for a better trigger, `execution.py:1216` also for a new
  best price), where `README.md:399` says that `mark_price` shows "whether a stepped
  trailing stop would ratchet". Entry 100, amount 2, start 90: announced at 99, and the
  mark at 99 leaves it at 90.
* A trail that waits for a target and that an operator opened early is announced
  as ready to ratchet (`bracket_views.py:250`) though marks and the tighten route
  leave it alone (`execution.py:1198`).
* Decision support's worst-case loss takes the nearest protective exit on the whole
  remaining quantity, also when that exit closes a part; its next open trigger is
  the lowest-priced one of a long lot, which is its furthest stop.

*Signals and plans*

* `parse_text_signal` sets no exchange, so `normalize_signal` refuses every text
  alert (`tests/test_text_signals.py:9` expects acceptance).
* Exit prices are rounded to cents, so a low-priced coin's stop can equal its entry.
* `signal_to_dict` drops `trailing_stop_close_pct`, so a parked signal closes the
  whole lot with its trail.
* Percentage targets of an unpriced short are sorted furthest first.
* A plan for a venue with both OCO and trailing orders, but no attached bracket,
  asks for paper without a warning; the sequence of a plan with a stop and a trail
  but no target leaves out placing the stop.
* Daily-loss, consecutive-loss and notional limits also refuse reduce-only closes.
* Rounding half up to a cent treats the two sides of a cheap coin differently: at a
  price of 1 and leverage 20 a long's liquidation price comes out 4 percent away and
  the mirrored short's 5, so `liquidation_buffer_too_narrow` can refuse one of the two
  (`futures_risk.py`). `SidesMirror` therefore compares futures assessments and exits
  where prices are exact; the proof of it is where this came up.

*Scanner and doors*

* `build_rules` says "request-provided rules win", and puts presets first.
* Range conditions with an unknown comparison never count
  (`scanner_rules.py:520`, `scanner_rules.py:831`); a missing feature fails every
  numeric condition; a short's targets can be zero or negative when resistance is
  more than 25 percent away.
* A run stores its best hit first, so the best are the deepest in the store, and
  more hits than a feed shows (100 against 50) hide them.
* `hit_signal_preview` builds a payload without a size, which `normalize_signal`
  refuses.
* `README.md:758` calls signed payloads replay-protected; the store is process
  memory, so a restart lets each in again. Claims still prevent a second decision;
  an Edge action is applied again. A request is claimed before its body is handled,
  so a retry of the same bytes after an error is answered 409 (`security.py:69`).
* The bus records a `dedupe_key` and enforces nothing with it.

**Bounds.** Two tickets, so that a handler works on one while another is issued,
used or lost; tickets are interchangeable and are permuted. Two submissions per
ticket (`MaxAttempts`), the least with which one ticket can buy twice. Two
signals that differ in what the gates and the leverage read. One protection rule:
theorem `ProtectionsAskEveryRule` says that deciding by the strictest rule is
asking each one. One restart, since a second one meets the states of the first.
In `signal_intake` an id comes with and without a stressed snapshot, and deliveries
are unbounded; one timestamp, so that only a restart lets a request in again. Each
bound is a guard of one action and says so where it is declared.

For the brackets, one symbol; prices from 7 to 12 around an entry at 10, in which
stops, targets, activations and distances of two and three have a price on either
side; three marks a lot (`MaxMarks`), enough to arm, ratchet and trigger, or to
take both targets and the stop; 4 units, so that halves of halves differ;
requests to close 1 unit or everything. Percentages of the entry price are the prices
they come to; those of a trailing stop are taken of the price it trails and of its
trigger, which move (plan `Shared`). `Placed` starts its trail further away than its
distance, `PlacedNear` nearer. What an entry buys and every share of a lot comes to a
whole unit. The plans of
`paper_brackets` keep two combinations apart: a trail that waits for a target, which
run `paper_brackets_release` is about, and breakeven below an activation price,
whose trail then stays pending (listed above). The run has 33138 states.
These configurations switch deadlock checking off: when the book is empty and the
restarts are used, nothing is left to do.

The reachable states of `MCPaperBrackets.cfg` were compared with those of the
program, exploring the methods of the real `PaperExchange` breadth first over the
same histories, marks and amendments, each with the book `from_order_history`
builds from the orders recorded on the way. Compared were position, lots, exits and the
replayed book, without the plan a lot carries unchanged: 31602 books, the same ones on
either side.
In each of them the views were compared as well, at every price of the instance:
whether the coverage report counts a full protective exit, what
`_trailing_telemetry` says of ratchet and activation, and the lot that
`preview_bracket_exchange` leaves are what `BracketViews` says. A bracket without
exits has no preview (`Previewable`); the program answers "active bracket not found".

`signal_plan` gives each field in each of its forms: six sizes, three entry prices
(one rounds to cents exactly, one does not, one is missing), seven stops, eight
target lists, eight trails, nested and rival legs; three risk configurations with
limits off, usual and tight; two accounts; every set of venue features. `Signals`,
`Risk`, `Orders` and `OrderPlanner` were compared with the real functions on 11800
such payloads (4866 accepted) under these configurations, accounts and four venues:
normalised signal, reason codes, exits, futures assessment, native order, plan and
figures were equal in all of them.

`scanner_rules` takes every window of six candles out of six, with one candle on
each side of a pivot instead of three, so that a window holds two pivots of a kind;
three readings and all presets. Every preset and every event occurs; higher lows do
not, which need three pivots and so seven candles. Prices lie closer than a grain, so
that rounding merges some of a ticket's prices and not others. An earlier, equivalent form of
`Structure` and `BuildTicket` was compared with `compute_features` and
`build_ticket` on 700 random windows at this reach, higher lows among them. `scanner`
has two threads, three calls, three hits made of two kept, a feed that shows one,
and one fault (`MaxFaults`): enough for a write to fall between another's read and
write, before and after a cut of the list.

**Fairness.** `HandlerStep` is weakly fair: the exchange client has a 10 second
timeout and all other steps of a handler are local. `HandleHalt` is strongly
fair: the loop is idle between two handlers only for an instant, but asyncio's
ready queue is first in, first out, so a queued halt is run before submissions
that arrive after it. `IntakeStep` and `EdgeStep` are weakly fair: these handlers
wait for local writes only. `Poll` is weakly fair: an open feed's loop sleeps and
polls until the socket closes. Nothing is assumed of operators, of senders, of the
exchange's verdicts, or of a crash not happening.

**External behaviour.** The exchange is modelled from how the adapters use it.
An acceptance whose answer is lost is placed before the failure is noticed; an
order accepted after the program gave up the call is the same state one step
earlier, except under a halt, where it counts as a call admitted before.

## 4. Proofs

`GuardianLiveProofs` proves, for every set of signals, rules and tickets, any
number of attempts and of crashes, with and without a repository:

* `Invariance`: `Spec => []IInv`. `AnsweredOncePerTicket` is not inductive: it
  says nothing of the ticket a handler is working on. `IInv` adds to it that the
  working handler holds an issued, still open ticket until it is marked
  (`HandlerOK`), that issued tickets have signals and unissued ones no attempt
  (`TicketsOK`), that an order belongs to one attempt made, and the attempt at
  work has none before its place step (`OrdersOK`), that the only known order of
  an open ticket is the one about to be marked (`OpenTicketsOK`), and that the
  gates checked by `Submit` hold until the order is placed (`GatesOK`). Each
  conjunct has a lemma with one step per action.
* `OneAnsweredOrder`: `Spec => []AnsweredOncePerTicket`.
* `GatesAtPlacement`: `Spec => GatesHoldAtPlacement`, from `GatesOK`; the only
  steps that can run while the loop is held are a queueing halt, an expiring rule
  and an elapsing cooldown, and none of them closes a gate
  (`LiveBlockedMonotone`).
* `TicketsKeepContract`: `Spec => Contract!Spec`. `Init` maps to the contract's
  `Init`, and each action to a contract step or a stutter of each ticket.
* `LeverageMatches`: `Spec => []LeverageAsRequested`. What makes it inductive is
  `AtLeverage`: a submission at its place step has changed the leverage, or was
  refused the change inside an answer that looks like a success.
* `ProtectionsAskEveryRule`: the priority of modes in `evaluate_protections` is
  not a loophole.

`PaperBracketProofs` proves, for all recorded histories, plans, prices, distances,
steps, shares, quantities, marks and restarts, long and short:

* `Invariance`: `Spec => []IInv`, the invariant of `PaperBrackets`. `TypeOK` and
  `PositionMatchesLots` are not inductive together. A close takes off the position what
  it takes off a lot only if the position has it, which holds because all open lots lie
  on one side (`OneSided`): an entry nets the other side first. The replay of the
  recorded orders takes a close from its oldest lots and not from the lot that was
  closed, so its lots differ, and the position agrees because the replayed book makes up
  its own position and the two positions are equal until a restart. `TrailOK` is what
  the next mark relies on. An unarmed trailing stop has no water mark and, unless the
  signal gave it a price of its own, lies no further than its distance from the entry.
  An armed one lies less than a step behind the trigger its water mark asks for, unless
  it still is where the signal started it (`AtStart`). The trigger a short's water mark
  asks for is positive or no better than the stop's, because a percentage step is taken
  of the stop's trigger and shrinks as that falls (`StepStaysShort`). `Armed` is what
  the views rely on: a trailing stop that is open is armed, and so is one whose plan has
  it wait for nothing. Both views' theorems fail without it: the coverage report counts
  an open trailing stop that no mark would trigger, and the telemetry announces a
  ratchet no mark would make.
* `PositionIsItsLots`, `RecordsReplayToThePosition` and `TrailingStopsKeepUp` follow
  from it.
* `NothingAddsExposure`: no step enlarges the position or takes it across zero.
* `MarksFinishTheirWork`: the rounds of `MarkLot` are enough. Each round that triggers
  an exit and goes on has removed a leg, so after one round more than there are legs
  the loop has ended.
* `ProtectionTightens`: protective triggers move in the lot's favour only, provided
  that no plan releases its trailing stop after a target. The hypothesis is needed: run
  `paper_brackets_release` shows a release that loosens. The other theorems are about
  plans with and without such a release.
* `FullProtectionIsExact`: `Spec => []FullProtectionCloses`. A preview keeps one lot
  (`LotsOfSignal`), and the position covers it. At the last of its open triggers a mark
  crosses all of them and takes the nearest (`FirstMark`). A stop closes all of the
  lot, and so does a trailing stop with a share that covers the rest; otherwise the rest
  has no trailing stop any more, and the second mark takes the stop or, if there is none
  and neither a time stop nor a target is due, finds nothing to do (`QuietMark`,
  `TwoMarks`). Breakeven and ratchet of the two marks undo none of this, because
  protection only tightens.
* `ViewsAreTrue`: `Spec => ViewsForetellMarks`. The loop over the exits of a lot reads
  the position only where it is less than the lot (`RoundsAlike`, `LoopsAlike`), which
  `IInv` excludes, so a mark leaves of a lot what it leaves of it alone (`MarksAlike`,
  `MarkIsAlone`), and that is what the preview computes (`PreviewOfOne`). For the
  telemetry, `RatchetAnnounced` is the arithmetic: the announced trigger is the mark's,
  or else within a step of the stop, by the lag that `TrailOK` bounds, or the stop is
  at its own price and the mark no new best one (`NotYetFollowed`). `MovedForetold`
  compares it with breakeven and ratchet, and `PassedForetold` carries that over what
  the exits of the same mark do: they leave the legs as they are, or fewer of them, and
  take neither breakeven nor activation back (`Passed`).
* `MarksTighten` and `MaintenanceTightens` are the lot-level facts behind the last one
  and hold with and without such plans, for the parts of a mark before the release and
  for every maintenance route; `ReduceBalanced` says that a reduction takes from lots
  and position alike.

The argument follows the code. `Kept` and `Follows` compare lots leg with leg and are
transitive, so a lot at the end of a mark is compared with the lot at its start. The
loop over exits, the loop over lots, the replay of an order history and of fills, and
`Open` are recursive functions over `0 .. n`; `Recursion` proves that they have a
solution and that an invariant of their steps holds of every value
(`GuidedRecursion`, `GuidedInduction`), from `WFMin` of the library's well-founded
induction, with invariants given as sets, since no prover instantiates the
operator parameter of the library's induction theorems. From these it derives what
other modules need of their data: that a running sum is a number and adds up (`SumsUp`),
and that ranks by distinct keys number the elements of a sequence from 1 on
(`EarlierCounts`, `EarlierGrows`, `PlacesTaken`), on which the sorts of
`SignalPlanProofs` and `ScannerRulesProofs` rest.

`SignalPlanProofs` proves, for every set of payloads, alerts, overrides, texts, risk
configurations, accounts and venues:

* `TypeCorrect`: `Spec => []TypeOK`: whatever the template, preset or text, what comes
  out of `Normalize` is `SignalOK` and `Settled`. This is the invariant the others rest
  on: `Settled` says that a signal's targets are sorted by the key that would sort
  them again, close at most the position and have passed their first percentage on.
* `PlansAgree`, `LossStaysWithinTheCap`, `LiveEntriesHaveAStop`,
  `PreviewsMatchVerdicts`, `ParkedSignalsKeep` and `SidesAreMirrored` state the six
  properties of run `signal_plan`. `ParkedSignalsKeep` needs `Settled`: sorting a
  sorted list of targets, and defaulting fields that have been defaulted, changes
  nothing. `SidesAreMirrored` goes through the risk reasons one by one: a price and
  its mirror lie as far from the entry on opposite sides (`Across`), and each reason
  looks at the side and the distance only.

`CcxtLiveProofs` proves the same of the awaiting route, where an order's life goes
on while the loop is free:

* `TypeCorrect` and `OrdersAlwaysTracked`, for any number of overlapping
  submissions, from `IInv`: types, what a handler past the await works on, and where
  each accepted order is.
* `HaltClosesTheDoor`: `Spec => HaltAdmitsNoCall`.
* `OnlyOverlapBuysTwice`: whatever overlaps with whatever, a ticket whose own
  submissions never overlap (`Awaited`) buys one known order at most; so a ticket that
  buys two was submitted again while a submission of it was awaited, which run
  `ccxt_live_double` shows.
* `OneAnsweredOrder` and `TicketsKeepContract`: the same as the property of run
  `ccxt_live` and as the contract, of every behaviour in which this holds of each
  ticket (`[]Awaited(Tickets)`), for any `MaxInFlight`. The hypothesis is about
  what operators do; the code enforces nothing of the kind, and without it both are
  false. `OneInv` adds to `IInv` and `Awaited` that the ticket of a waiting
  submission is still open (`OpenCalls`), that a submission waits for one thing
  (`Apart`), and that a new one is a call nobody has made (`Fresh`).

`WebhooksProofs` proves about `WebhooksSpec`, the doors and the intake behind them,
for all requests, signals, rules, timestamps and numbers of restarts, with and
without a repository:

* `Invariance`: `WebhooksSpec => []IInv`. Neither `DecidedOnce` nor
  `ClaimedIsAccountedFor` is inductive, because a handler is between two of its
  transactions most of the time. `IInv` says of each id that it is in one of five
  situations (`ClaimsOK`): unseen, parked, in a handler's hands, answered, or
  orphaned by a cut; and what the loop's program counter says of the signal the
  handler holds (`LoopOK`), what a parked signal is (`PendingOK`), and how far the
  Edge action at work has come (`EdgeOK`). Each conjunct has a lemma with one step
  per action.
* `TypeCorrect`, `SignalsDecidedOnce` and `ClaimsAreAccountedFor`, which follow from
  it. With a repository, a second decision would need an id that is unseen after it
  was claimed, and a restart that empties the replay store keeps the claims;
  `DecidedOnce` promises nothing without one.
* `EdgeActionsAccountedFor`, and `HaltHolds`, an action property, from the actions
  that are left when the engine is halted before and after the step.

`ScannerProofs` proves, for any threads, feeds, rules, requests, calls and faults:

* `StoreTypes`: `Spec => []TypeOK`: any version of the store, also one that an
  overlapping write puts back, holds a rule and a hit once, at most `MaxHits` hits, and
  only hits that were made. `TypeInv` adds only that copies, calls and feeds are
  functions. `WithoutKeeps` is the lemma about the store's list comprehensions.
* `UpdatesLostOnlyByOverlap`: as long as no write fell between another call's read and
  write, a thread that nobody has outdated holds a copy of the file as it is
  (`CopiesFresh`), so its write adds its own update to the file and takes none away.

`ScannerRulesProofs` proves, for windows of any length, any candles, pivot reach,
readings and rules:

* `BreaksAreClear`, `TicketsOrdered` and `BonusIsSmall`, the three properties of run
  `scanner_rules`. The state is the window; that it holds candles (`WindowHolds`) is the
  inductive part, and the rest is what the rules make of any window.
  `BreaksAreClear` rests on how resistance and support are chosen among the levels
  around the close (`LevelsAre`, `NearestIs`, `MarksAre`): a resistance below the close
  means that no level is left above it, and a support above it none below.
  `TicketsOrdered` needs that shares of an ATR are whole (`AtrFloor`, from the unit),
  where support, resistance and pivots lie to each other (`MarksAre`), and that rounding
  moves a price by half a grain at most and reverses no two (`RoundedIs`,
  `RoundedKeepsOrder`); it holds for every `Grain`. `BonusIsSmall`
  needs that weights add up (`WeightIs`) and that what passed is part of them
  (`BaseScoreIs`).

The proofs assume the named assumptions of the modules only (fields and types of
signals, payloads, rules and recorded entries, null values outside the sets, prices
and quantities are positive, `LeastOrder` and `Grain` too; for brackets also that what
an entry buys comes to whole units, that entries have an exit, and that a long lot's
trailing distance is less than 100 percent); TLC evaluates them on every run. The
theorems with a hypothesis of their own are named above: submissions of a ticket that
are awaited (`OneAnsweredOrder`, `TicketsKeepContract`, `OnlyOverlapBuysTwice` of
`CcxtLiveProofs`), and no `afterTp` (`ProtectionTightens`).

Model-checked only:

* All liveness (`HaltTakesEffect`, `SubmitReturns`, `ClaimedIsSettled`,
  `EdgeHaltTakesEffect`, `HitsReachFeed`): fairness and `ENABLED` are out of the
  prover's reach. Every other property of a passing run is a theorem; of three the
  theorem has a hypothesis that the run's instance satisfies.
* The four runs that expect a violation: TLC's counterexamples are the evidence.

## 5. What is not modelled, and why

* Charting (`charting/`), market streaming, the browser code, the Discord client and
  the launchers read or start the system and decide nothing in it.
* `scalper.py`: `plan_rebracket` is arithmetic from one quote to a new stop and
  target; the amendments it proposes go through the routes of `PaperBrackets`.
* Number, symbol and timestamp parsing, and the regular expressions of text alerts:
  their results enter as fields. The SQL and JSON encodings.
* Moving averages, oscillators and spread readings of the scanner; candle previews,
  backtests, fees and P&L of the paper exchange.
* The Chrome bridge, which publishes what it observes, and listing the bus.
* The platform registry, a constant table of features per venue.

Left to do, in order:

1. `Rebracket`: `scalper.plan_rebracket` as operators; the question is whether what
   it proposes is always an amendment that `Brackets` accepts.
2. Candle previews as paths of marks, against the marks of a real candle.
