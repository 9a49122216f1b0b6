---------------------------- MODULE TradingDesk ----------------------------
(***************************************************************************)
(* The state that every order route of Sentinel Chain shares, and the      *)
(* operator actions on it: the engine's halt switch, the stored protection *)
(* rules, the re-entry cooldowns, the account's loss stop and the one      *)
(* asyncio event loop on which all the mutating routes run.                *)
(*                                                                         *)
(* A route written `async def` runs on the loop and gives it up only at an *)
(* await.  `loop` says which handler holds the loop between two of its     *)
(* durable or external effects; the desk's own routes are single steps     *)
(* that need the loop to be idle.  Time (an expiring rule, an elapsed      *)
(* cooldown) passes whatever the loop does.                                *)
(***************************************************************************)
EXTENDS RuntimeControls

CONSTANTS
    Signals,        \* the signals operators submit: records, see RuntimeControls
    Rules,          \* the protection rules operators may set
    NoJob,          \* what an idle loop works on
    HasRepository,  \* TRUE when the application runs on a SQLite repository
    MaxRestarts     \* bound: process restarts in a behaviour

Symbols == {signal.symbol : signal \in Signals}
Leverages == {signal.leverage : signal \in Signals}
RuleIds == {rule.rule_id : rule \in Rules}

ASSUME DeskAssumption ==
    /\ \A signal \in Signals :
          /\ {"id", "exchange", "symbol", "strategy", "reduce_only", "market_state",
              "futures_ok", "futures_ok_default", "risk_ok", "native",
              "leverage"} \subseteq DOMAIN signal
          /\ signal.reduce_only \in BOOLEAN
    /\ \A rule \in Rules : rule.mode \in ProtectionModes /\ rule.scope \in ProtectionScopes
    /\ HasRepository \in BOOLEAN
    /\ MaxRestarts \in Nat

VARIABLES
    halted,         \* engine.halted
    haltQueued,     \* a halt request waits for the event loop
    rules,          \* the active protection rules in runtime_state
    cooling,        \* symbols whose re-entry cooldown has not elapsed
    stopped,        \* account_state is past the daily-loss or losing-exit limit
    enabled,        \* readiness, live flag and credentials in the environment
    loop,           \* the handler that holds the event loop
    restarts        \* process restarts so far

deskVars == <<halted, haltQueued, rules, cooling, stopped, enabled, loop, restarts>>

\* No handler holds the loop.  Otherwise loop.pc is the effect it does next and
\* loop.job is what it works on; the modules of the handlers say which.
Idle == [pc |-> "idle", job |-> NoJob]

\* The handler moves on to phase pc, or returns.
LoopGoes(pc) == loop' = IF pc = "idle" THEN Idle ELSE [loop EXCEPT !.pc = pc]

DeskTypeOK ==
    /\ halted \in BOOLEAN
    /\ haltQueued \in BOOLEAN
    /\ rules \subseteq Rules
    /\ cooling \subseteq Symbols
    /\ stopped \in BOOLEAN
    /\ enabled \in BOOLEAN
    /\ restarts \in 0 .. MaxRestarts

\* create_app: the engine starts running, with a fresh account.  What the
\* environment enables is fixed until the next start.
DeskInit ==
    /\ halted = FALSE
    /\ haltQueued = FALSE
    /\ rules = {}
    /\ cooling = {}
    /\ stopped = FALSE
    /\ enabled \in BOOLEAN
    /\ loop = Idle
    /\ restarts = 0

-----------------------------------------------------------------------------
(***************************************************************************)
(* Operator and Edge controls.                                             *)
(***************************************************************************)

\* A halt arrives, from POST /control/halt or as a halting Edge action.
RequestHalt ==
    /\ ~haltQueued
    /\ haltQueued' = TRUE
    /\ UNCHANGED <<halted, rules, cooling, stopped, enabled, loop, restarts>>

\* Mutant of HandleHalt: the halt runs on a thread of its own, whatever the loop does.
HaltBesideTheLoop ==
    /\ haltQueued
    /\ haltQueued' = FALSE
    /\ halted' = TRUE
    /\ UNCHANGED <<rules, cooling, stopped, enabled, loop, restarts>>

\* Mutant of HandleHalt: the request is consumed and the switch left as it was.
HaltDropped ==
    /\ loop = Idle
    /\ haltQueued
    /\ haltQueued' = FALSE
    /\ UNCHANGED <<halted, rules, cooling, stopped, enabled, loop, restarts>>

\* The loop runs its handler: engine.halt.
HandleHalt ==
    /\ loop = Idle
    /\ haltQueued
    /\ haltQueued' = FALSE
    /\ halted' = TRUE
    /\ UNCHANGED <<rules, cooling, stopped, enabled, loop, restarts>>

\* POST /control/resume: engine.resume.
Resume ==
    /\ loop = Idle
    /\ halted
    /\ halted' = FALSE
    /\ UNCHANGED <<haltQueued, rules, cooling, stopped, enabled, loop, restarts>>

\* POST /protections/rules.  Without a repository the new state is answered to
\* the caller and stored nowhere.
SetRule(rule) ==
    /\ loop = Idle
    /\ HasRepository
    /\ rules' = WithRule(rules, rule)
    /\ UNCHANGED <<halted, haltQueued, cooling, stopped, enabled, loop, restarts>>

\* DELETE /protections/rules/{rule_id}.
DeleteRule(id) ==
    /\ loop = Idle
    /\ HasRepository
    /\ rules' = WithoutRule(rules, id)
    /\ UNCHANGED <<halted, haltQueued, cooling, stopped, enabled, loop, restarts>>

\* A rule reaches its expires_at (ProtectionRule.active).
RuleExpires(rule) ==
    /\ rule \in rules
    /\ rules' = rules \ {rule}
    /\ UNCHANGED <<halted, haltQueued, cooling, stopped, enabled, loop, restarts>>

\* A reduce-only exit is recorded and starts the symbol's cooldown
\* (save_order_with_runtime_state, from POST /market/price).  It takes an
\* application created on a paper exchange that holds lots.
ExitRecorded(symbol) ==
    /\ loop = Idle
    /\ HasRepository
    /\ cooling' = cooling \cup {symbol}
    /\ UNCHANGED <<halted, haltQueued, rules, stopped, enabled, loop, restarts>>

\* The cooldown elapses (reentry_cooldown_remaining reaches 0).
CooldownElapses(symbol) ==
    /\ symbol \in cooling
    /\ cooling' = cooling \ {symbol}
    /\ UNCHANGED <<halted, haltQueued, rules, stopped, enabled, loop, restarts>>

\* TradingEngine.mark_price moves daily_pnl and consecutive_losses across their
\* limits, in either direction.
AccountMoves ==
    /\ loop = Idle
    /\ stopped' = ~stopped
    /\ UNCHANGED <<halted, haltQueued, rules, cooling, enabled, loop, restarts>>

\* A crash and a new create_app.  runtime_state survives when there is a
\* repository; the halt switch and the account are process memory.
DeskRestart ==
    /\ restarts < MaxRestarts
    /\ restarts' = restarts + 1
    /\ halted' = FALSE
    /\ haltQueued' = FALSE
    /\ stopped' = FALSE
    /\ enabled' \in BOOLEAN
    /\ loop' = Idle
    /\ UNCHANGED <<rules, cooling>>

DeskStep ==
    \/ RequestHalt
    \/ HandleHalt
    \/ Resume
    \/ \E rule \in Rules : SetRule(rule)
    \/ \E id \in RuleIds : DeleteRule(id)
    \/ \E rule \in Rules : RuleExpires(rule)
    \/ \E symbol \in Symbols : ExitRecorded(symbol)
    \/ \E symbol \in Symbols : CooldownElapses(symbol)
    \/ AccountMoves
=============================================================================
