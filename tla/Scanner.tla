------------------------------- MODULE Scanner -------------------------------
(***************************************************************************)
(* The scanner's routes (scanner/scanner_routes.py), its engine's run       *)
(* (scanner_engine.py) and the JSON file behind them (scanner_store.py).    *)
(*                                                                          *)
(* The routes are plain functions, so each request runs in a thread of the  *)
(* pool.  The store takes its lock inside _read and inside _write and not   *)
(* around the two: every change is a read, a computation on the copy, and a *)
(* write of the whole copy, and another thread may run between them.  The   *)
(* write itself is atomic (os.replace).                                     *)
(*                                                                          *)
(* A run brings back a ranking of new hits, best first; what makes a hit is *)
(* the subject of ScannerRules.  Hit ids are uuids, here numbers in the     *)
(* order of ranking.                                                        *)
(***************************************************************************)
EXTENDS Naturals, Sequences, SequencesExt, FiniteSets

CONSTANTS
    Threads,      \* workers of the thread pool
    Feeds,        \* websocket connections
    SavedRules,   \* rules an operator may save: id, body, enabled
    Presets,      \* the preset rules, a sequence of such records
    Requests,     \* run requests: preset ids, rules, hits asked for, demo
    MaxHits,      \* hits the store keeps (1000)
    FeedLimit,    \* hits a feed looks at (50)
    MaxMade,      \* bound on the hits ever made
    MaxCalls,     \* bound on the calls ever begun
    MaxFaults,    \* bound on restarts and damages together
    DemoRule, Idle, None

ASSUME ScannerAssumption ==
    /\ MaxHits \in Nat \ {0} /\ FeedLimit \in Nat /\ MaxMade \in Nat
    /\ Presets \in Seq(SavedRules)

VARIABLES
    file,       \* what a read of the scanner's file returns
    disk,       \* whether the file is present, does not parse, or is missing
    call,       \* what each thread is doing
    copy,       \* the store as each thread read it (the file, if it holds no copy)
    stale,      \* threads whose copy another write has outdated
    sent,       \* last_ids of each open feed, None when it is closed
    made, begun, faults, \* counters of the bounds
    intended,   \* history: what the acknowledged updates, one by one, amount to
    overlapped  \* history: some write put back a copy that another one had outdated

vars == <<file, disk, call, copy, stale, sent, made, begun, faults, intended, overlapped>>

Statuses == {"new", "reviewed", "promoted"}
HitIds == 1..MaxMade
RuleIds == {r.id : r \in SavedRules}
Empty == [rules |-> <<>>, hits |-> <<>>]
-----------------------------------------------------------------------------
(* The store's operations on a copy *)

SaveRule(data, rule) ==
    LET at == {k \in DOMAIN data.rules : data.rules[k].id = rule.id} IN
    [data EXCEPT !.rules = IF at = {} THEN Append(@, rule)
                           ELSE [@ EXCEPT ![CHOOSE k \in at : TRUE] = rule]]

\* The list without what has the id.
Without(s, id) ==
    LET kept[n \in 0..Len(s)] == IF n = 0 THEN <<>>
                                 ELSE IF s[n].id = id THEN kept[n - 1]
                                 ELSE Append(kept[n - 1], s[n])
    IN kept[Len(s)]

DeleteRule(data, id) ==
    [data EXCEPT !.rules = Without(@, id)]

\* Mutant of AddHit: keeps one too many.
AddHitUncut(data, hit) ==
    [data EXCEPT !.hits = SubSeq(<<hit>> \o @, 1, IF Len(@) < MaxHits THEN Len(@) + 1 ELSE MaxHits + 1)]

AddHit(data, hit) ==
    LET all == <<hit>> \o Without(data.hits, hit.id)
    IN [data EXCEPT !.hits = SubSeq(all, 1, IF Len(all) < MaxHits THEN Len(all) ELSE MaxHits)]

UpdateStatus(data, id, status) ==
    [data EXCEPT !.hits = [k \in DOMAIN @ |-> IF @[k].id = id THEN [@[k] EXCEPT !.status = status]
                                              ELSE @[k]]]

HasHit(data, id) == \E k \in DOMAIN data.hits : data.hits[k].id = id

\* What a call makes of a copy of the store.
Update(data, c) ==
    CASE c.op = "save" -> SaveRule(data, c.rule)
      [] c.op = "delete" -> DeleteRule(data, c.id)
      [] c.op = "run" -> AddHit(data, Head(c.pending))
      [] c.op = "status" -> UpdateStatus(data, c.hit, c.status)

\* A deletion that removed nothing and a status of a hit that is gone are not written.
Writes(data, c) ==
    CASE c.op = "delete" -> \E k \in DOMAIN data.rules : data.rules[k].id = c.id
      [] c.op = "status" -> HasHit(data, c.hit)
      [] OTHER -> TRUE
-----------------------------------------------------------------------------
(* The engine's choice of rules *)

ById(rules, id) == SelectSeq(rules, LAMBDA r : r.id = id)
EnabledOnly(rules) == SelectSeq(rules, LAMBDA r : r.enabled)

\* Presets asked for, all of them if the request names no rule at all, then the
\* request's own rules, then the saved ones; the first rule of an id is kept.
BuildRules(request, data) ==
    LET chosen == IF request.presets = <<>> /\ request.rules = <<>> THEN Presets
                  ELSE FlattenSeq([k \in DOMAIN request.presets |-> ById(Presets, request.presets[k])])
        Keep(kept, r) == IF ById(kept, r.id) = <<>> THEN Append(kept, r) ELSE kept
    IN FoldLeft(Keep, <<>>, chosen \o request.rules \o EnabledOnly(data.rules))

\* The best hits of a run: up to request.most (and at least one) of those its rules
\* make.  A request without market data that finds nothing is given a demo hit.
Rankings(request, data) ==
    LET rules == {r.id : r \in ToSet(EnabledOnly(BuildRules(request, data)))}
        most == IF request.most = 0 THEN 1 ELSE request.most
    IN (UNION {[1..n -> rules] : n \in 1..most}) \union {IF request.demo THEN <<DemoRule>> ELSE <<>>}
-----------------------------------------------------------------------------
\* Reading a file that does not parse moves it aside; without one the store is empty.
ReadFile ==
    /\ disk' = IF disk = "damaged" THEN "missing" ELSE disk
    /\ UNCHANGED file

NewCall == [op |-> None, stage |-> "read", rule |-> None, id |-> None, hit |-> None, status |-> None,
            pending |-> <<>>]

Begin(t, c) ==
    /\ call[t] = Idle
    /\ begun < MaxCalls
    /\ begun' = begun + 1
    /\ call' = [call EXCEPT ![t] = c]

\* POST /rules, DELETE /rules/{id}
BeginSave(t) ==
    /\ \E r \in SavedRules : Begin(t, [NewCall EXCEPT !.op = "save", !.rule = r])
    /\ UNCHANGED <<file, disk, copy, stale, sent, made, faults, intended, overlapped>>

BeginDelete(t) ==
    /\ \E id \in RuleIds : Begin(t, [NewCall EXCEPT !.op = "delete", !.id = id])
    /\ UNCHANGED <<file, disk, copy, stale, sent, made, faults, intended, overlapped>>

\* POST /run up to the hits it will persist; reading the saved rules is its one use
\* of the store before that.
BeginRun(t) ==
    /\ \E request \in Requests : \E ranking \in Rankings(request, file) :
          /\ ranking # <<>> /\ made + Len(ranking) <= MaxMade
          /\ made' = made + Len(ranking)
          /\ Begin(t, [NewCall EXCEPT !.op = "run",
                          !.pending = [k \in DOMAIN ranking |->
                              [id |-> made + k, rule |-> ranking[k], status |-> "new"]]])
    /\ ReadFile
    /\ UNCHANGED <<copy, stale, sent, faults, intended, overlapped>>

\* The promotion routes read the hit and answer 404 if it is not there; intent and
\* chart then mark it reviewed, ticket and guardian-plan promoted.
BeginStatus(t) ==
    /\ \E id \in HitIds, status \in {"reviewed", "promoted"} :
          /\ HasHit(file, id)
          /\ Begin(t, [NewCall EXCEPT !.op = "status", !.hit = id, !.status = status])
    /\ ReadFile
    /\ UNCHANGED <<copy, stale, sent, made, faults, intended, overlapped>>

\* The next thing a call does: a run goes on with its next hit, the others are done.
NextOf(c) ==
    IF c.op = "run" /\ Len(c.pending) > 1
    THEN [c EXCEPT !.stage = "read", !.pending = Tail(@)]
    ELSE Idle

Read(t) ==
    /\ call[t] # Idle /\ call[t].stage = "read"
    /\ call' = [call EXCEPT ![t] = IF Writes(file, @) THEN [@ EXCEPT !.stage = "write"]
                                   ELSE NextOf(@)]
    /\ copy' = [copy EXCEPT ![t] = file]
    /\ stale' = stale \ {t}
    /\ ReadFile
    /\ UNCHANGED <<sent, made, begun, faults, intended, overlapped>>

Loaded(t) == call[t] # Idle /\ call[t].stage = "write"

\* The file changes under the copies of the threads in S.
Outdate(S) ==
    /\ stale' = {u \in S : Loaded(u)}
    /\ copy' = [u \in Threads |-> IF u \in stale' THEN copy[u] ELSE file']

Write(t) ==
    /\ Loaded(t)
    /\ file' = Update(copy[t], call[t])
    /\ disk' = "present"
    /\ Outdate(Threads \ {t})
    /\ intended' = Update(intended, call[t])
    /\ overlapped' = (overlapped \/ t \in stale)
    /\ call' = [call EXCEPT ![t] = NextOf(@)]
    /\ UNCHANGED <<sent, made, begun, faults>>

\* Mutant of WriteFails: the write goes to the file itself and leaves half of it.
WriteFailsHalfway(t) ==
    /\ Loaded(t)
    /\ call' = [call EXCEPT ![t] = NextOf(@)]
    /\ file' = Empty
    /\ disk' = "damaged"
    /\ Outdate(Threads \ {t})
    /\ UNCHANGED <<sent, made, begun, faults, intended, overlapped>>

\* The disk refuses the write: a run notes a warning and goes on, the others fail.
WriteFails(t) ==
    /\ Loaded(t)
    /\ call' = [call EXCEPT ![t] = NextOf(@)]
    /\ copy' = [copy EXCEPT ![t] = file]
    /\ stale' = stale \ {t}
    /\ UNCHANGED <<file, disk, sent, made, begun, faults, intended, overlapped>>
-----------------------------------------------------------------------------
(* Feeds: one read every two seconds, on the event loop *)

Shown == {file.hits[k].id : k \in {k \in DOMAIN file.hits : k <= FeedLimit}}

Connect(f) ==
    /\ sent[f] = None
    /\ sent' = [sent EXCEPT ![f] = {}]
    /\ UNCHANGED <<file, disk, call, copy, stale, made, begun, faults, intended, overlapped>>

\* Mutant of Poll: as many hits as were sent are taken for the same hits.
PollByCount(f) ==
    /\ sent[f] # None
    /\ sent' = [sent EXCEPT ![f] = IF Cardinality(@) = Len(file.hits) THEN @ ELSE @ \union Shown]
    /\ ReadFile
    /\ UNCHANGED <<call, copy, stale, made, begun, faults, intended, overlapped>>

Poll(f) ==
    /\ sent[f] # None
    /\ sent' = [sent EXCEPT ![f] = @ \union Shown]
    /\ ReadFile
    /\ UNCHANGED <<call, copy, stale, made, begun, faults, intended, overlapped>>

Disconnect(f) ==
    /\ sent[f] # None
    /\ sent' = [sent EXCEPT ![f] = None]
    /\ UNCHANGED <<file, disk, call, copy, stale, made, begun, faults, intended, overlapped>>
-----------------------------------------------------------------------------
(* Faults *)

\* The process dies and is started again on the file as it is; if there is none the
\* store makes one.
Restart ==
    /\ faults < MaxFaults
    /\ faults' = faults + 1
    /\ disk' = IF disk = "missing" THEN "present" ELSE disk
    /\ call' = [t \in Threads |-> Idle]
    /\ copy' = [t \in Threads |-> file]
    /\ stale' = {}
    /\ sent' = [f \in Feeds |-> None]
    /\ UNCHANGED <<file, made, begun, intended, overlapped>>

\* Something outside the program leaves a file that does not parse.
Damage ==
    /\ faults < MaxFaults /\ disk # "damaged"
    /\ faults' = faults + 1
    /\ disk' = "damaged"
    /\ file' = Empty
    /\ intended' = Empty
    /\ Outdate(Threads)
    /\ UNCHANGED <<call, sent, made, begun, overlapped>>
-----------------------------------------------------------------------------
Init ==
    /\ file = Empty /\ disk = "present"
    /\ call = [t \in Threads |-> Idle]
    /\ copy = [t \in Threads |-> Empty] /\ stale = {}
    /\ sent = [f \in Feeds |-> None]
    /\ made = 0 /\ begun = 0 /\ faults = 0
    /\ intended = Empty
    /\ overlapped = FALSE

ThreadStep(t) == Read(t) \/ Write(t) \/ WriteFails(t)

Next ==
    \/ \E t \in Threads : \/ BeginSave(t) \/ BeginDelete(t) \/ BeginRun(t) \/ BeginStatus(t)
                          \/ ThreadStep(t)
    \/ \E f \in Feeds : Connect(f) \/ Poll(f) \/ Disconnect(f)
    \/ Restart \/ Damage

Spec == Init /\ [][Next]_vars

\* The loop of an open feed sleeps and polls again.
FairSpec == Spec /\ \A f \in Feeds : WF_vars(Poll(f))
-----------------------------------------------------------------------------
(* Properties *)

Unique(s) == \A j, k \in DOMAIN s : s[j].id = s[k].id => j = k

\* Hits, lists of hits, versions of the store and calls, when n hits have been made.
IsHit(h, n) ==
    /\ h = [id |-> h.id, rule |-> h.rule, status |-> h.status]
    /\ h.id \in 1..n /\ h.status \in Statuses

HitList(s, n) == s \in Seq(ToSet(s)) /\ \A k \in DOMAIN s : IsHit(s[k], n)

Stored(S, n) ==
    /\ S = [rules |-> S.rules, hits |-> S.hits]
    /\ S.rules \in Seq(SavedRules) /\ Unique(S.rules)
    /\ HitList(S.hits, n) /\ Unique(S.hits) /\ Len(S.hits) <= MaxHits

CallOK(c, n) ==
    /\ DOMAIN c = DOMAIN NewCall
    /\ c.op \in {"save", "delete", "run", "status"}
    /\ c.op = "save" => c.rule \in SavedRules
    /\ c.op = "run" => HitList(c.pending, n) /\ c.pending # <<>>
    /\ c.op = "status" => c.status \in Statuses

\* Types; and any version of the store, one that an overlapping write puts back
\* included, holds a rule and a hit once, and no more hits than it may.
TypeOK ==
    /\ Stored(file, made) /\ Stored(intended, made)
    /\ \A t \in Threads : Stored(copy[t], made)
    /\ \A t \in Threads : call[t] # Idle => CallOK(call[t], made)
    /\ stale \subseteq Threads
    /\ \A f \in Feeds : sent[f] = None \/ sent[f] \subseteq 1..made
    /\ disk \in {"present", "damaged", "missing"}
    /\ made \in 0..MaxMade
    /\ overlapped \in BOOLEAN

\* The store holds what the acknowledged updates amount to, in the order of their
\* writes, whatever calls were cut, refused or repeated, unless one call's read and
\* write had another call's write between them.  (Then the file holds the later copy
\* and the earlier update is gone: the lock of ScannerStore does not span the two.)
LostOnlyByOverlap == ~overlapped => file = intended

\* A hit among those a feed looks at is sent to it, unless it is pushed out, or the
\* feed closes, before the feed's next poll.
HitsReachFeed ==
    \A f \in Feeds, id \in HitIds :
        (sent[f] # None /\ id \in Shown) ~> (sent[f] = None \/ id \in sent[f] \/ id \notin Shown)

\* "De-duplicate by id while preserving order; request-provided rules win": a rule that
\* comes with a run's request is the one the run evaluates under its id.
RequestRulesWin ==
    \A request \in Requests : \A r \in ToSet(request.rules) :
        r \in ToSet(BuildRules(request, file))
=============================================================================
