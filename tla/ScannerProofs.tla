---------------------------- MODULE ScannerProofs ----------------------------
(***************************************************************************)
(* The scanner's store holds a rule and a hit once and no more hits than it *)
(* may, and loses an acknowledged update only where the read and write of   *)
(* one call have the write of another between them: for any number of       *)
(* threads, feeds, rules, calls and faults.                                 *)
(***************************************************************************)
EXTENDS Scanner, Recursion

-----------------------------------------------------------------------------
(* Lists *)

\* A sequence is one of its own elements.
LEMMA OwnElements ==
    ASSUME NEW T, NEW s \in Seq(T)
    PROVE  s \in Seq(ToSet(s)) /\ \A k \in DOMAIN s : s[k] \in T
  <1>1. /\ Len(s) \in Nat /\ DOMAIN s = 1..Len(s)
        /\ s = [k \in 1..Len(s) |-> s[k]]
        /\ \A k \in 1..Len(s) : s[k] \in T
    OBVIOUS
  <1>2. \A k \in 1..Len(s) : s[k] \in ToSet(s)
    BY <1>1 DEF ToSet
  <1>3. s \in [1..Len(s) -> ToSet(s)]
    BY <1>1, <1>2
  <1> QED BY <1>1, <1>3

\* What is left of a list without an id comes from the list, keeps its elements apart
\* and has nothing with that id.
LEMMA WithoutKeeps ==
    ASSUME NEW T, NEW s \in Seq(T), NEW id, Unique(s)
    PROVE  /\ Without(s, id) \in Seq(T) /\ Unique(Without(s, id))
           /\ \A k \in DOMAIN Without(s, id) :
                 /\ Without(s, id)[k].id # id
                 /\ \E i \in DOMAIN s : Without(s, id)[k] = s[i]
  <1> DEFINE N == Len(s)
             Next1(q, n) == IF s[n].id = id THEN q ELSE Append(q, s[n])
             Body(g) == [n \in 0..N |-> IF n = 0 THEN <<>>
                                        ELSE IF s[n].id = id THEN g[n - 1]
                                        ELSE Append(g[n - 1], s[n])]
             kept == CHOOSE g : g = Body(g)
             From(q, n) == \A k \in DOMAIN q : \E i \in 1..n : q[k] = s[i] /\ s[i].id # id
             Good == [n \in 0..N |-> {q \in Seq(T) : From(q, n) /\ Unique(q)}]
             step == [n \in 1..N |-> [q \in Seq(T) |-> Next1(q, n)]]
  <1>1. /\ N \in Nat /\ DOMAIN s = 1..N
        /\ \A n \in 1..N : s[n] \in T
        /\ \A i, j \in 1..N : s[i].id = s[j].id => i = j
    BY DEF Unique
  <1>2. Without(s, id) = kept[N]
    BY DEF Without
  <1> HIDE DEF N, kept
  <1>3. <<>> \in Good[0]
    BY <1>1 DEF Unique
  <1>4. ASSUME NEW n \in 1..N, NEW q \in Good[n - 1]
        PROVE  Next1(q, n) \in Good[n]
    <2>1. n - 1 \in 0..N /\ n \in 0..N
      BY <1>1
    <2>2. q \in Seq(T) /\ From(q, n - 1) /\ Unique(q)
      BY <2>1
    <2>3. From(q, n)
      <3>1. \A i \in 1..(n - 1) : i \in 1..n
        BY <1>1
      <3> QED BY <2>2, <3>1
    <2>4. CASE s[n].id = id
      BY <2>1, <2>2, <2>3, <2>4
    <2>5. CASE s[n].id # id
      <3> DEFINE r == Append(q, s[n])
      <3>1. /\ Len(q) \in Nat /\ DOMAIN q = 1..Len(q)
            /\ r \in Seq(T) /\ DOMAIN r = 1..(Len(q) + 1)
            /\ \A k \in 1..Len(q) : r[k] = q[k]
            /\ r[Len(q) + 1] = s[n]
        BY <1>1, <2>2
      <3> HIDE DEF r
      <3>2. From(r, n)
        <4>1. ASSUME NEW k \in DOMAIN r PROVE \E i \in 1..n : r[k] = s[i] /\ s[i].id # id
          <5>1. CASE k \in 1..Len(q)
            BY <2>3, <3>1, <5>1
          <5>2. CASE k = Len(q) + 1
            <6>1. n \in 1..n
              BY <1>1
            <6> QED BY <2>5, <3>1, <5>2, <6>1
          <5> QED BY <3>1, <5>1, <5>2
        <4> QED BY <4>1
      <3>3. \A k \in 1..Len(q) : r[k].id # s[n].id
        <4>1. ASSUME NEW k \in 1..Len(q) PROVE r[k].id # s[n].id
          <5>1. PICK i \in 1..(n - 1) : q[k] = s[i]
            BY <2>2, <3>1
          <5>2. i \in 1..N /\ i # n
            BY <1>1, <5>1
          <5> QED BY <1>1, <3>1, <5>1, <5>2
        <4> QED BY <4>1
      <3>4. Unique(r)
        <4>1. ASSUME NEW j \in DOMAIN r, NEW k \in DOMAIN r, r[j].id = r[k].id PROVE j = k
          <5>1. (j \in 1..Len(q) \/ j = Len(q) + 1) /\ (k \in 1..Len(q) \/ k = Len(q) + 1)
            BY <3>1
          <5> QED BY <2>2, <3>1, <3>3, <4>1, <5>1 DEF Unique
        <4> QED BY <4>1 DEF Unique
      <3>5. Next1(q, n) = r
        BY <2>5 DEF r
      <3> QED BY <2>1, <3>1, <3>2, <3>4, <3>5
    <2> QED BY <2>4, <2>5
  <1>5. Good \in [0..N -> SUBSET Seq(T)]
    OBVIOUS
  <1>6. Advances(N, Good, step)
    <2>1. ASSUME NEW n \in 1..N, NEW q \in Good[n - 1] PROVE step[n][q] \in Good[n]
      <3>1. q \in Seq(T)
        BY <1>1
      <3>2. step[n][q] = Next1(q, n)
        BY <3>1
      <3> HIDE DEF Good, Next1
      <3> QED BY <1>4, <3>2
    <2> QED BY <2>1 DEF Advances
  <1> HIDE DEF Good
  <1>7. PICK g : Guided(g, N, Seq(T), Good, <<>>, step)
    <2> HIDE DEF step
    <2> QED BY <1>1, <1>3, <1>5, <1>6, GuidedRecursion
  <1>8. g = Body(g)
    <2>1. \A n \in 1..N : g[n - 1] \in Seq(T)
      BY <1>1, <1>7 DEF Guided
    <2>2. \A n \in 1..N : g[n] = Next1(g[n - 1], n)
      BY <1>7, <2>1 DEF Guided
    <2>3. /\ g = [n \in 0..N |-> g[n]] /\ g[0] = <<>>
          /\ \A n \in 0..N : n = 0 \/ n \in 1..N
      BY <1>1, <1>7 DEF Guided
    <2>4. Body(g) = [n \in 0..N |-> g[n]]
      <3>1. ASSUME NEW n \in 0..N PROVE Body(g)[n] = g[n]
        BY <2>2, <2>3
      <3> QED BY <3>1
    <2> QED BY <2>3, <2>4
  <1>9. kept = Body(kept)
    <2> HIDE DEF Body
    <2> QED BY <1>8 DEF kept
  <1>10. kept[0] = <<>> /\ \A n \in 1..N : kept[n] = Next1(kept[n - 1], n)
    <2>1. /\ 0 \in 0..N
          /\ \A n \in 1..N : n \in 0..N /\ n # 0
      BY <1>1
    <2>2. \A n \in 0..N : kept[n] = Body(kept)[n]
      BY <1>9
    <2> QED BY <2>1, <2>2
  <1>11. \A n \in 0..N : kept[n] \in Good[n]
    <2>1. kept[0] \in Good[0]
      BY <1>3, <1>10
    <2>2. \A n \in 1..N : kept[n - 1] \in Good[n - 1] => kept[n] \in Good[n]
      BY <1>4, <1>10
    <2> QED BY <1>1, <2>1, <2>2, GuidedInduction
  <1>12. kept[N] \in Seq(T) /\ From(kept[N], N) /\ Unique(kept[N])
    BY <1>1, <1>11 DEF Good
  <1> QED BY <1>1, <1>2, <1>12

-----------------------------------------------------------------------------
(* The store's operations keep a well-formed store *)

\* What is well-formed stays so when more hits are made.
LEMMA Grows ==
    ASSUME NEW n \in Nat, NEW m \in Nat, n <= m
    PROVE  /\ \A s : HitList(s, n) => HitList(s, m)
           /\ \A S : Stored(S, n) => Stored(S, m)
           /\ \A c : CallOK(c, n) => CallOK(c, m)
  <1>1. \A s : HitList(s, n) => HitList(s, m)
    BY DEF HitList, IsHit
  <1> QED BY <1>1 DEF Stored, CallOK

\* The store before anything is in it.
LEMMA EmptyStored ==
    ASSUME NEW n \in Nat
    PROVE  Stored(Empty, n)
  BY ScannerAssumption DEF Empty, Stored, HitList, Unique, ToSet

\* A saved rule replaces the one of its id, or is the first of it.
LEMMA SaveKeeps ==
    ASSUME NEW data, NEW n \in Nat, Stored(data, n), NEW rule \in SavedRules
    PROVE  Stored(SaveRule(data, rule), n)
  <1> DEFINE rules == data.rules
             at == {k \in DOMAIN rules : rules[k].id = rule.id}
             saved == IF at = {} THEN Append(rules, rule)
                      ELSE [rules EXCEPT ![CHOOSE k \in at : TRUE] = rule]
  <1>1. /\ rules \in Seq(SavedRules) /\ Len(rules) \in Nat /\ DOMAIN rules = 1..Len(rules)
        /\ \A j, k \in 1..Len(rules) : rules[j].id = rules[k].id => j = k
    BY DEF Stored, Unique
  <1>2. /\ SaveRule(data, rule) = [data EXCEPT !.rules = saved]
        /\ data = [rules |-> data.rules, hits |-> data.hits]
    BY DEF SaveRule, Stored
  <1>3. saved \in Seq(SavedRules) /\ Unique(saved)
    <2> HIDE DEF rules
    <2>1. CASE at = {}
      <3>1. /\ saved = Append(rules, rule)
            /\ \A k \in 1..Len(rules) : rules[k].id # rule.id
        BY <1>1, <2>1
      <3> HIDE DEF saved, at
      <3>2. /\ saved \in Seq(SavedRules) /\ DOMAIN saved = 1..(Len(rules) + 1)
            /\ \A k \in 1..Len(rules) : saved[k] = rules[k]
            /\ saved[Len(rules) + 1] = rule
        BY <1>1, <3>1
      <3>3. \A k \in DOMAIN saved : k \in 1..Len(rules) \/ k = Len(rules) + 1
        BY <1>1, <3>2
      <3> QED BY <1>1, <3>1, <3>2, <3>3 DEF Unique
    <2>2. CASE at # {}
      <3>1. PICK a \in 1..Len(rules) : rules[a].id = rule.id /\ saved = [rules EXCEPT ![a] = rule]
        BY <1>1, <2>2
      <3> HIDE DEF saved, at
      <3>2. saved \in Seq(SavedRules) /\ DOMAIN saved = 1..Len(rules)
        BY <1>1, <3>1
      <3>3. \A k \in 1..Len(rules) : saved[k].id = rules[k].id
        BY <1>1, <3>1
      <3> QED BY <1>1, <3>2, <3>3 DEF Unique
    <2> QED BY <2>1, <2>2
  <1> HIDE DEF saved
  <1>4. SaveRule(data, rule) = [rules |-> saved, hits |-> data.hits]
    BY <1>2
  <1> QED BY <1>3, <1>4 DEF Stored

\* A deletion.
LEMMA DeleteKeeps ==
    ASSUME NEW data, NEW n \in Nat, Stored(data, n), NEW id
    PROVE  Stored(DeleteRule(data, id), n)
  <1>1. DeleteRule(data, id) = [rules |-> Without(data.rules, id), hits |-> data.hits]
    BY DEF DeleteRule, Stored
  <1>2. Without(data.rules, id) \in Seq(SavedRules) /\ Unique(Without(data.rules, id))
    BY WithoutKeeps DEF Stored
  <1> QED BY <1>1, <1>2 DEF Stored

\* A hit is put in front of the others, and those beyond the limit are dropped.
LEMMA AddKeeps ==
    ASSUME NEW data, NEW n \in Nat, Stored(data, n), NEW hit, IsHit(hit, n)
    PROVE  Stored(AddHit(data, hit), n)
  <1> DEFINE rest == Without(data.hits, hit.id)
             all == <<hit>> \o rest
             most == IF Len(all) < MaxHits THEN Len(all) ELSE MaxHits
             hits == SubSeq(all, 1, most)
             T == ToSet(data.hits) \union {hit}
  <1>1. data.hits \in Seq(ToSet(data.hits)) /\ \A k \in DOMAIN data.hits : IsHit(data.hits[k], n)
    BY DEF Stored, HitList
  <1>2. /\ rest \in Seq(ToSet(data.hits)) /\ Unique(rest)
        /\ \A k \in DOMAIN rest : rest[k].id # hit.id
        /\ \A k \in DOMAIN rest : \E i \in DOMAIN data.hits : rest[k] = data.hits[i]
    BY <1>1, WithoutKeeps DEF Stored
  <1>3. \A k \in DOMAIN rest : IsHit(rest[k], n)
    BY <1>1, <1>2
  <1> HIDE DEF rest
  <1>4. /\ Len(rest) \in Nat /\ DOMAIN rest = 1..Len(rest)
        /\ all \in Seq(T) /\ Len(all) = Len(rest) + 1
        /\ all[1] = hit /\ \A k \in 2..(Len(rest) + 1) : all[k] = rest[k - 1]
    BY <1>2
  <1> HIDE DEF all, T
  <1>5. /\ most \in Nat /\ most <= MaxHits /\ most <= Len(rest) + 1
    BY <1>4, ScannerAssumption
  <1> HIDE DEF most
  <1>6. /\ hits \in Seq(T) /\ Len(hits) = most /\ DOMAIN hits = 1..most
        /\ \A k \in 1..most : hits[k] = all[k]
    BY <1>4, <1>5
  <1> HIDE DEF hits
  <1>7. \A k \in DOMAIN hits :
            \/ k = 1 /\ hits[k] = hit
            \/ k - 1 \in DOMAIN rest /\ hits[k] = rest[k - 1]
    <2>1. ASSUME NEW k \in 1..most, k # 1 PROVE k \in 2..(Len(rest) + 1) /\ k - 1 \in 1..Len(rest)
      BY <1>4, <1>5, <2>1
    <2> QED BY <1>4, <1>6, <2>1
  <1>8. HitList(hits, n)
    <2>1. hits \in Seq(ToSet(hits))
      BY <1>6, OwnElements
    <2> QED BY <1>3, <1>7, <2>1 DEF HitList
  <1>9. Unique(hits)
    <2>1. ASSUME NEW j \in DOMAIN hits, NEW k \in DOMAIN hits, hits[j].id = hits[k].id PROVE j = k
      <3>1. j \in Int /\ k \in Int
        BY <1>5, <1>6
      <3> QED BY <1>2, <1>7, <2>1, <3>1 DEF Unique
    <2> QED BY <2>1 DEF Unique
  <1>10. AddHit(data, hit) = [rules |-> data.rules, hits |-> hits]
    <2>1. data = [rules |-> data.rules, hits |-> data.hits]
      BY DEF Stored
    <2>2. AddHit(data, hit) = [data EXCEPT !.hits = hits]
      BY DEF AddHit, hits, most, all, rest
    <2> QED BY <2>1, <2>2
  <1> QED BY <1>5, <1>6, <1>8, <1>9, <1>10 DEF Stored

\* A status.
LEMMA StatusKeeps ==
    ASSUME NEW data, NEW n \in Nat, Stored(data, n), NEW id, NEW status \in Statuses
    PROVE  Stored(UpdateStatus(data, id, status), n)
  <1> DEFINE old == data.hits
             hits == [k \in DOMAIN old |-> IF old[k].id = id THEN [old[k] EXCEPT !.status = status]
                                           ELSE old[k]]
             T == {hits[k] : k \in DOMAIN old}
  <1>1. /\ old \in Seq(ToSet(old)) /\ Len(old) \in Nat /\ DOMAIN old = 1..Len(old)
        /\ \A k \in DOMAIN old : IsHit(old[k], n)
        /\ Len(old) <= MaxHits /\ Unique(old)
    BY DEF Stored, HitList
  <1>2. UpdateStatus(data, id, status) = [rules |-> data.rules, hits |-> hits]
    <2>1. data = [rules |-> data.rules, hits |-> data.hits]
      BY DEF Stored
    <2>2. UpdateStatus(data, id, status) = [data EXCEPT !.hits = hits]
      BY DEF UpdateStatus
    <2> HIDE DEF hits, old
    <2> QED BY <2>1, <2>2
  <1>3. ASSUME NEW k \in DOMAIN old PROVE IsHit(hits[k], n) /\ hits[k].id = old[k].id
    <2> DEFINE h == old[k]
    <2>1. /\ h = [id |-> h.id, rule |-> h.rule, status |-> h.status]
          /\ h.id \in 1..n /\ h.status \in Statuses
      BY <1>1 DEF IsHit
    <2>2. hits[k] = IF h.id = id THEN [h EXCEPT !.status = status] ELSE h
      OBVIOUS
    <2> HIDE DEF h, hits
    <2>3. \/ hits[k] = h
          \/ hits[k] = [id |-> h.id, rule |-> h.rule, status |-> status]
      BY <2>1, <2>2
    <2>4. IsHit(hits[k], n) /\ hits[k].id = h.id
      BY <2>1, <2>3 DEF IsHit
    <2> QED BY <2>4 DEF h
  <1>4. DOMAIN hits = 1..Len(old) /\ hits \in Seq(T) /\ Len(hits) = Len(old)
    <2>1. hits \in [1..Len(old) -> T]
      <3>1. \A k \in DOMAIN old : hits[k] \in T
        OBVIOUS
      <3>2. hits = [k \in DOMAIN old |-> hits[k]]
        OBVIOUS
      <3> HIDE DEF hits, T
      <3> QED BY <1>1, <3>1, <3>2
    <2> HIDE DEF hits, T
    <2> QED BY <1>1, <2>1
  <1> HIDE DEF hits, T
  <1>5. hits \in Seq(ToSet(hits))
    BY <1>4, OwnElements
  <1>6. HitList(hits, n) /\ Unique(hits)
    BY <1>1, <1>3, <1>4, <1>5 DEF HitList, Unique
  <1> QED BY <1>1, <1>2, <1>4, <1>6 DEF Stored

\* Whatever a call makes of a store.
LEMMA UpdateKeeps ==
    ASSUME NEW data, NEW n \in Nat, Stored(data, n), NEW c, CallOK(c, n)
    PROVE  Stored(Update(data, c), n)
  <1>1. CASE c.op = "save"
    BY <1>1, SaveKeeps DEF Update, CallOK
  <1>2. CASE c.op = "delete"
    BY <1>2, DeleteKeeps DEF Update
  <1>3. CASE c.op = "run"
    <2>1. HitList(c.pending, n) /\ c.pending # <<>>
      BY <1>3 DEF CallOK
    <2>2. IsHit(Head(c.pending), n)
      BY <2>1 DEF HitList
    <2> QED BY <1>3, <2>2, AddKeeps DEF Update
  <1>4. CASE c.op = "status"
    BY <1>4, StatusKeeps DEF Update, CallOK
  <1> QED BY <1>1, <1>2, <1>3, <1>4 DEF CallOK

\* What is left of a call after a step of it.
LEMMA NextKeeps ==
    ASSUME NEW c, NEW n \in Nat, CallOK(c, n)
    PROVE  /\ CallOK([c EXCEPT !.stage = "write"], n)
           /\ NextOf(c) = Idle \/ CallOK(NextOf(c), n)
  <1>1. DOMAIN c = {"op", "stage", "rule", "id", "hit", "status", "pending"}
    BY DEF CallOK, NewCall
  <1>2. CallOK([c EXCEPT !.stage = "write"], n)
    BY <1>1 DEF CallOK
  <1>3. CASE c.op = "run" /\ Len(c.pending) > 1
    <2> DEFINE all == c.pending
               rest == Tail(all)
    <2>1. /\ HitList(all, n) /\ Len(all) \in Nat /\ Len(all) > 1
          /\ DOMAIN all = 1..Len(all) /\ all \in Seq(ToSet(all))
      BY <1>3 DEF CallOK, HitList
    <2> HIDE DEF all
    <2>2. /\ rest \in Seq(ToSet(all)) /\ Len(rest) = Len(all) - 1
          /\ \A k \in 1..(Len(all) - 1) : rest[k] = all[k + 1]
      BY <2>1
    <2>3. /\ rest # <<>> /\ DOMAIN rest = 1..(Len(all) - 1)
          /\ \A k \in DOMAIN rest : rest[k] = all[k + 1] /\ k + 1 \in DOMAIN all
      <3> HIDE DEF rest
      <3> QED BY <2>1, <2>2
    <2> HIDE DEF rest
    <2>4. HitList(rest, n)
      BY <2>1, <2>2, <2>3, OwnElements DEF HitList
    <2>5. NextOf(c) = [c EXCEPT !.stage = "read", !.pending = rest]
      BY <1>3 DEF NextOf, rest, all
    <2> QED BY <1>1, <1>2, <1>3, <2>3, <2>4, <2>5 DEF CallOK
  <1>4. CASE ~(c.op = "run" /\ Len(c.pending) > 1)
    BY <1>2, <1>4 DEF NextOf
  <1> QED BY <1>3, <1>4

-----------------------------------------------------------------------------
(* Types *)

\* The inductive invariant behind the types: the threads' copies, their calls and the
\* feeds are functions.
TypeInv ==
    /\ TypeOK
    /\ copy = [t \in Threads |-> copy[t]]
    /\ call = [t \in Threads |-> call[t]]
    /\ sent = [f \in Feeds |-> sent[f]]

\* A ranking is a list.
LEMMA RankingForm ==
    ASSUME NEW request, NEW data, NEW ranking \in Rankings(request, data)
    PROVE  Len(ranking) \in Nat /\ DOMAIN ranking = 1..Len(ranking)
  <1> DEFINE rules == {r.id : r \in ToSet(EnabledOnly(BuildRules(request, data)))}
             most == IF request.most = 0 THEN 1 ELSE request.most
  <1>0. Rankings(request, data) = (UNION {[1..n -> rules] : n \in 1..most})
                                      \union {IF request.demo THEN <<DemoRule>> ELSE <<>>}
    BY DEF Rankings
  <1> HIDE DEF rules, most
  <1>1. \/ \E n \in 1..most : ranking \in [1..n -> rules]
        \/ ranking = <<DemoRule>>
        \/ ranking = <<>>
    <2> DEFINE lists == {[1..n -> rules] : n \in 1..most}
               other == {IF request.demo THEN <<DemoRule>> ELSE <<>>}
               all == Rankings(request, data)
    <2>1. ranking \in all /\ all = (UNION lists) \union other
      BY <1>0
    <2>2. \A F \in lists : \E n \in 1..most : F = [1..n -> rules]
      OBVIOUS
    <2>3. ranking \in other => ranking = <<DemoRule>> \/ ranking = <<>>
      OBVIOUS
    <2> HIDE DEF lists, other, all
    <2>4. ranking \in other \/ \E F \in lists : ranking \in F
      BY <2>1
    <2> QED BY <2>2, <2>3, <2>4
  <1>2. CASE \E n \in 1..most : ranking \in [1..n -> rules]
    BY <1>2
  <1>3. CASE ranking = <<DemoRule>> \/ ranking = <<>>
    BY <1>3
  <1> QED BY <1>1, <1>2, <1>3

\* The hits of a run are numbered on from those made.
LEMMA RunOK ==
    ASSUME NEW request, NEW data, NEW ranking \in Rankings(request, data), ranking # <<>>,
           NEW n \in Nat
    PROVE  LET pending == [k \in DOMAIN ranking |->
                              [id |-> n + k, rule |-> ranking[k], status |-> "new"]]
           IN CallOK([NewCall EXCEPT !.op = "run", !.pending = pending], n + Len(ranking))
  <1> DEFINE pending == [k \in DOMAIN ranking |->
                            [id |-> n + k, rule |-> ranking[k], status |-> "new"]]
             T == {pending[k] : k \in DOMAIN ranking}
             m == n + Len(ranking)
  <1>1. Len(ranking) \in Nat /\ DOMAIN ranking = 1..Len(ranking) /\ Len(ranking) # 0
    BY RankingForm
  <1>2. \A k \in DOMAIN pending : IsHit(pending[k], m)
    BY <1>1 DEF IsHit, Statuses
  <1>3. pending \in [1..Len(ranking) -> T] /\ pending # <<>>
    <2>1. pending = [k \in 1..Len(ranking) |-> pending[k]]
      BY <1>1
    <2>2. \A k \in 1..Len(ranking) : pending[k] \in T
      BY <1>1
    <2> HIDE DEF pending, T
    <2> QED BY <1>1, <2>1, <2>2
  <1> HIDE DEF pending, T, m
  <1>4. pending \in Seq(T)
    BY <1>1, <1>3
  <1>5. HitList(pending, m)
    BY <1>2, <1>4, OwnElements DEF HitList
  <1>6. CallOK([NewCall EXCEPT !.op = "run", !.pending = pending], m)
    BY <1>3, <1>5 DEF CallOK, NewCall
  <1> QED BY <1>6 DEF pending, m

\* When the file changes, a thread keeps its copy or follows the file.
LEMMA OutdateTyped ==
    ASSUME NEW S \in SUBSET Threads, Outdate(S), TypeInv, made' = made, Stored(file', made)
    PROVE  /\ copy' = [t \in Threads |-> copy'[t]]
           /\ \A t \in Threads : Stored(copy'[t], made)
           /\ stale' \subseteq Threads
  <1>1. /\ stale' \subseteq Threads
        /\ copy' = [u \in Threads |-> IF u \in stale' THEN copy[u] ELSE file']
    BY DEF Outdate
  <1>2. \A t \in Threads : copy'[t] = copy[t] \/ copy'[t] = file'
    BY <1>1
  <1> QED BY <1>1, <1>2 DEF TypeInv, TypeOK

\* The store's types hold always.
THEOREM TypeInvariant == Spec => []TypeInv
  <1>1. Init => TypeInv
    <2> SUFFICES ASSUME Init PROVE TypeInv
      OBVIOUS
    <2>1. made = 0 /\ Stored(file, made) /\ Stored(intended, made)
      BY EmptyStored DEF Init
    <2>2. /\ \A t \in Threads : call[t] = Idle /\ Stored(copy[t], made)
          /\ \A f \in Feeds : sent[f] = None
      BY <2>1 DEF Init
    <2>3. /\ copy = [t \in Threads |-> copy[t]] /\ call = [t \in Threads |-> call[t]]
          /\ sent = [f \in Feeds |-> sent[f]]
      BY DEF Init
    <2>4. stale = {} /\ disk = "present" /\ overlapped = FALSE /\ made \in 0..MaxMade
      BY <2>1, ScannerAssumption DEF Init
    <2> QED BY <2>1, <2>2, <2>3, <2>4 DEF TypeInv, TypeOK
  <1>2. TypeInv /\ [Next]_vars => TypeInv'
    <2> SUFFICES ASSUME TypeInv, [Next]_vars PROVE TypeInv'
      OBVIOUS
    <2>0. made \in Nat /\ MaxMade \in Nat
      BY ScannerAssumption DEF TypeInv, TypeOK
    <2>1. ASSUME NEW t \in Threads, NEW c, Begin(t, c), CallOK(c, made'), made' \in made..MaxMade,
                 disk' \in {"present", "damaged", "missing"},
                 UNCHANGED <<file, copy, stale, sent, intended, overlapped>>
          PROVE  TypeInv'
      <3>1. made' \in Nat /\ made <= made' /\ made' \in 0..MaxMade
        BY <2>0, <2>1
      <3>2. /\ Stored(file', made') /\ Stored(intended', made')
            /\ \A u \in Threads : Stored(copy'[u], made')
        BY <2>0, <2>1, <3>1, Grows DEF TypeInv, TypeOK
      <3>3. \A u \in Threads : call'[u] # Idle => CallOK(call'[u], made')
        BY <2>0, <2>1, <3>1, Grows DEF TypeInv, TypeOK, Begin
      <3>4. \A f \in Feeds : sent'[f] = None \/ sent'[f] \subseteq 1..made'
        BY <2>0, <2>1, <3>1 DEF TypeInv, TypeOK
      <3>5. call' = [u \in Threads |-> call'[u]]
        BY <2>1 DEF TypeInv, Begin
      <3> QED BY <2>1, <3>1, <3>2, <3>3, <3>4, <3>5 DEF TypeInv, TypeOK
    <2>2. ASSUME NEW t \in Threads, BeginSave(t) PROVE TypeInv'
      <3>1. PICK r \in SavedRules : Begin(t, [NewCall EXCEPT !.op = "save", !.rule = r])
        BY <2>2 DEF BeginSave
      <3>2. CallOK([NewCall EXCEPT !.op = "save", !.rule = r], made)
        BY DEF CallOK, NewCall
      <3> QED BY <2>0, <2>1, <2>2, <3>1, <3>2 DEF BeginSave, TypeInv, TypeOK
    <2>3. ASSUME NEW t \in Threads, BeginDelete(t) PROVE TypeInv'
      <3>1. PICK id \in RuleIds : Begin(t, [NewCall EXCEPT !.op = "delete", !.id = id])
        BY <2>3 DEF BeginDelete
      <3>2. CallOK([NewCall EXCEPT !.op = "delete", !.id = id], made)
        BY DEF CallOK, NewCall
      <3> QED BY <2>0, <2>1, <2>3, <3>1, <3>2 DEF BeginDelete, TypeInv, TypeOK
    <2>4. ASSUME NEW t \in Threads, BeginStatus(t) PROVE TypeInv'
      <3>1. PICK id \in HitIds, status \in {"reviewed", "promoted"} :
                Begin(t, [NewCall EXCEPT !.op = "status", !.hit = id, !.status = status])
        BY <2>4 DEF BeginStatus
      <3>2. CallOK([NewCall EXCEPT !.op = "status", !.hit = id, !.status = status], made)
        BY DEF CallOK, NewCall, Statuses
      <3> QED BY <2>0, <2>1, <2>4, <3>1, <3>2 DEF BeginStatus, ReadFile, TypeInv, TypeOK
    <2>5. ASSUME NEW t \in Threads, BeginRun(t) PROVE TypeInv'
      <3> DEFINE Run(ranking) ==
                /\ ranking # <<>> /\ made + Len(ranking) <= MaxMade
                /\ made' = made + Len(ranking)
                /\ Begin(t, [NewCall EXCEPT !.op = "run",
                                !.pending = [k \in DOMAIN ranking |->
                                    [id |-> made + k, rule |-> ranking[k], status |-> "new"]]])
      <3>0. PICK request \in Requests : \E ranking \in Rankings(request, file) : Run(ranking)
        BY <2>5 DEF BeginRun
      <3>1. PICK ranking \in Rankings(request, file) : Run(ranking)
        BY <3>0
      <3>2. Len(ranking) \in Nat
        BY RankingForm
      <3>3. CallOK([NewCall EXCEPT !.op = "run",
                      !.pending = [k \in DOMAIN ranking |->
                          [id |-> made + k, rule |-> ranking[k], status |-> "new"]]], made')
        BY <2>0, <3>1, RunOK
      <3>4. /\ disk' \in {"present", "damaged", "missing"}
            /\ UNCHANGED <<file, copy, stale, sent, intended, overlapped>>
        BY <2>5 DEF BeginRun, ReadFile, TypeInv, TypeOK
      <3> QED BY <2>0, <2>1, <3>1, <3>2, <3>3, <3>4
    <2>6. ASSUME NEW t \in Threads, Read(t) PROVE TypeInv'
      <3>1. CallOK(call[t], made)
        BY <2>6 DEF Read, TypeInv, TypeOK
      <3>2. call'[t] = Idle \/ CallOK(call'[t], made)
        BY <2>0, <2>6, <3>1, NextKeeps DEF Read, TypeInv
      <3>3. /\ call' = [u \in Threads |-> call'[u]] /\ copy' = [u \in Threads |-> copy'[u]]
            /\ \A u \in Threads : u = t \/ call'[u] = call[u]
            /\ \A u \in Threads : copy'[u] = file \/ copy'[u] = copy[u]
        BY <2>6 DEF Read, TypeInv
      <3> QED BY <2>6, <3>2, <3>3 DEF Read, ReadFile, TypeInv, TypeOK
    <2>7. ASSUME NEW t \in Threads, WriteFails(t) PROVE TypeInv'
      <3>1. CallOK(call[t], made)
        BY <2>7 DEF WriteFails, Loaded, TypeInv, TypeOK
      <3>2. call'[t] = Idle \/ CallOK(call'[t], made)
        BY <2>0, <2>7, <3>1, NextKeeps DEF WriteFails, TypeInv
      <3>3. /\ call' = [u \in Threads |-> call'[u]] /\ copy' = [u \in Threads |-> copy'[u]]
            /\ \A u \in Threads : u = t \/ call'[u] = call[u]
            /\ \A u \in Threads : copy'[u] = file \/ copy'[u] = copy[u]
        BY <2>7 DEF WriteFails, TypeInv
      <3> QED BY <2>7, <3>2, <3>3 DEF WriteFails, TypeInv, TypeOK
    <2>8. ASSUME NEW t \in Threads, Write(t) PROVE TypeInv'
      <3>1. CallOK(call[t], made)
        BY <2>8 DEF Write, Loaded, TypeInv, TypeOK
      <3>2. call'[t] = Idle \/ CallOK(call'[t], made)
        BY <2>0, <2>8, <3>1, NextKeeps DEF Write, TypeInv
      <3>3. /\ call' = [u \in Threads |-> call'[u]]
            /\ \A u \in Threads : u = t \/ call'[u] = call[u]
        BY <2>8 DEF Write, TypeInv
      <3>4. Stored(file', made) /\ Stored(intended', made)
        BY <2>0, <2>8, <3>1, UpdateKeeps DEF Write, TypeInv, TypeOK
      <3>5. /\ copy' = [u \in Threads |-> copy'[u]]
            /\ \A u \in Threads : Stored(copy'[u], made)
            /\ stale' \subseteq Threads
        BY <2>8, <3>4, OutdateTyped DEF Write
      <3>6. UNCHANGED <<sent, made>> /\ disk' = "present" /\ overlapped' \in BOOLEAN
        BY <2>8 DEF Write, TypeInv, TypeOK
      <3> QED BY <3>2, <3>3, <3>4, <3>5, <3>6 DEF TypeInv, TypeOK
    <2>9. ASSUME NEW f \in Feeds, Connect(f) \/ Poll(f) \/ Disconnect(f) PROVE TypeInv'
      <3>1. Shown \subseteq 1..made
        BY DEF Shown, TypeInv, TypeOK, Stored, HitList, IsHit
      <3>2. /\ sent' = [g \in Feeds |-> sent'[g]]
            /\ \A g \in Feeds : sent'[g] = None \/ sent'[g] \subseteq 1..made
        BY <2>9, <3>1 DEF Connect, Poll, Disconnect, TypeInv, TypeOK
      <3> QED BY <2>9, <3>2 DEF Connect, Poll, Disconnect, ReadFile, TypeInv, TypeOK
    <2>10. CASE Restart
      BY <2>10 DEF Restart, TypeInv, TypeOK
    <2>11. CASE Damage
      <3>1. Stored(file', made) /\ Stored(intended', made)
        BY <2>0, <2>11, EmptyStored DEF Damage
      <3>2. /\ copy' = [u \in Threads |-> copy'[u]]
            /\ \A u \in Threads : Stored(copy'[u], made)
            /\ stale' \subseteq Threads
        BY <2>11, <3>1, OutdateTyped DEF Damage
      <3> QED BY <2>11, <3>1, <3>2 DEF Damage, TypeInv, TypeOK
    <2>12. CASE UNCHANGED vars
      BY <2>12 DEF vars, TypeInv, TypeOK
    <2> QED
      BY <2>2, <2>3, <2>4, <2>5, <2>6, <2>7, <2>8, <2>9, <2>10, <2>11, <2>12
      DEF Next, ThreadStep
  <1> QED BY <1>1, <1>2, PTL DEF Spec

\* Any version of the store holds a rule and a hit once, and no more hits than it may.
THEOREM StoreTypes == Spec => []TypeOK
  <1>1. TypeInv => TypeOK
    BY DEF TypeInv
  <1> QED BY <1>1, TypeInvariant, PTL

-----------------------------------------------------------------------------
(* Updates *)

\* A thread that nobody has outdated would change the file as it is.
CopiesFresh == \A t \in Threads : t \notin stale => copy[t] = file

\* The inductive invariant: what the file holds is what the updates amount to.
IInv ==
    /\ copy = [t \in Threads |-> copy[t]]
    /\ CopiesFresh
    /\ ~overlapped => file = intended

\* Whoever holds a copy is marked when the file changes, everyone else follows it.
LEMMA OutdateKeepsFresh ==
    ASSUME NEW S, Outdate(S)
    PROVE  CopiesFresh' /\ copy' = [t \in Threads |-> copy'[t]]
  BY DEF Outdate, CopiesFresh

\* A thread that reads, or gives its copy up, is level with the file.
LEMMA LevelKeepsFresh ==
    ASSUME NEW t \in Threads, IInv, UNCHANGED file,
           copy' = [copy EXCEPT ![t] = file], stale' = stale \ {t}
    PROVE  CopiesFresh' /\ copy' = [u \in Threads |-> copy'[u]]
  BY DEF IInv, CopiesFresh

\* A fresh copy is the store the acknowledged updates amount to, so that the write
\* does to the file what it does to them.
LEMMA WriteKeeps ==
    ASSUME NEW t \in Threads, IInv, Write(t)
    PROVE  IInv'
  <1>1. CopiesFresh' /\ copy' = [u \in Threads |-> copy'[u]]
    BY OutdateKeepsFresh DEF Write
  <1>2. ASSUME ~overlapped'
        PROVE  file' = intended'
    <2>1. ~overlapped /\ t \notin stale
      BY <1>2 DEF Write
    <2>2. copy[t] = intended
      BY <2>1 DEF IInv, CopiesFresh
    <2> QED BY <2>2 DEF Write
  <1> QED BY <1>1, <1>2 DEF IInv

\* The store never loses an acknowledged update to anything but an overlap.
THEOREM UpdatesLostOnlyByOverlap == Spec => []LostOnlyByOverlap
  <1>1. Init => IInv
    BY DEF Init, IInv, CopiesFresh
  <1>2. IInv /\ [Next]_vars => IInv'
    <2> SUFFICES ASSUME IInv, [Next]_vars PROVE IInv'
      OBVIOUS
    <2>1. ASSUME NEW t \in Threads, BeginSave(t) \/ BeginDelete(t) \/ BeginRun(t) \/ BeginStatus(t)
          PROVE  IInv'
      BY <2>1 DEF BeginSave, BeginDelete, BeginRun, BeginStatus, ReadFile, IInv, CopiesFresh
    <2>2. ASSUME NEW t \in Threads, Read(t) \/ WriteFails(t)
          PROVE  IInv'
      <3>1. CopiesFresh' /\ copy' = [u \in Threads |-> copy'[u]]
        BY <2>2, LevelKeepsFresh DEF Read, ReadFile, WriteFails
      <3> QED BY <2>2, <3>1 DEF IInv, Read, ReadFile, WriteFails
    <2>3. ASSUME NEW t \in Threads, Write(t)
          PROVE  IInv'
      BY <2>3, WriteKeeps
    <2>4. ASSUME NEW f \in Feeds, Connect(f) \/ Poll(f) \/ Disconnect(f)
          PROVE  IInv'
      BY <2>4 DEF Connect, Poll, Disconnect, ReadFile, IInv, CopiesFresh
    <2>5. CASE Restart
      BY <2>5 DEF Restart, IInv, CopiesFresh
    <2>6. CASE Damage
      <3>1. CopiesFresh' /\ copy' = [u \in Threads |-> copy'[u]]
        BY <2>6, OutdateKeepsFresh DEF Damage
      <3> QED BY <2>6, <3>1 DEF IInv, Damage
    <2>7. CASE UNCHANGED vars
      BY <2>7 DEF vars, IInv, CopiesFresh
    <2> QED
      BY <2>1, <2>2, <2>3, <2>4, <2>5, <2>6, <2>7 DEF Next, ThreadStep
  <1>3. IInv => LostOnlyByOverlap
    BY DEF IInv, LostOnlyByOverlap
  <1> QED BY <1>1, <1>2, <1>3, PTL DEF Spec
=============================================================================
