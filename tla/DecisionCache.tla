---------------------------- MODULE DecisionCache ----------------------------
(***************************************************************************)
(* The decision service of cairn-runtime (decisions.rs): the evaluation    *)
(* pipeline of a DecisionRequest, the cache of resolved decisions it reads *)
(* and writes, the index from guardrail rules to cached decisions, the     *)
(* three invalidations and the replay of the cache at startup.             *)
(*                                                                         *)
(* An evaluation runs as a tokio task.  The cache has one mutex for its    *)
(* entries and another for the rule index, and the checks, the approval    *)
(* resolver and the event log are awaited: each of these is an action.     *)
(***************************************************************************)
EXTENDS Naturals, Sequences, FiniteSets

CONSTANTS
  Keys,        \* decision keys: kind, scope and semantic hash of a request
  KindTags,
  KindOf,      \* KindOf[k]: the kind tag of a key
  Scopes,      \* scopes decisions are cached under
  ScopeOf,     \* ScopeOf[k]: the scope of a key
  ScopeText,   \* ScopeText[s]: scope_ref_string, as its ':'-separated parts
  HashOf,      \* HashOf[k]: the semantic hash of a key
  Rules,       \* guardrail rule ids
  Evals,       \* evaluations; an evaluation also names its decision id
  NoEval,
  Policy,      \* Policy[k]: the CachePolicy of the kind of k
  TTL,         \* TTL[k]: default_ttl_secs of that policy
  PendingTimeout,
  Env,         \* what else happens, see below
  MaxTime      \* bound on the clock

(***************************************************************************)
(* Env is a subset of                                                      *)
(*   "invalidate"  operators invalidate by decision id and by rule         *)
(*   "by_scope"    operators invalidate by scope                           *)
(*   "restart"     the process restarts and replays the log                *)
(***************************************************************************)
Outcomes == {"allowed", "denied"}
Ways == {"id", "rule", "earlier"}  \* earlier: before the restart
Policies == {"never", "always", "if_approved", "if_denied"}

ASSUME KeyAssumption ==
  /\ Keys # {}
  /\ KindOf \in [Keys -> KindTags]
  /\ ScopeOf \in [Keys -> Scopes]
  /\ Policy \in [Keys -> Policies]
  /\ TTL \in [Keys -> Nat]

ASSUME CacheAssumption ==
  /\ NoEval \notin Evals
  /\ Rules # {}
  /\ PendingTimeout \in Nat /\ MaxTime \in Nat
  /\ Env \subseteq {"invalidate", "by_scope", "restart"}

VARIABLES
  entries,    \* DecisionCache.entries
  ruleIndex,  \* DecisionCache.rule_index: the keys noted for a rule
  ev,         \* ev[e]: where evaluation e stands, and its locals
  sweep,      \* an invalidation by rule between its two critical sections
  log,        \* persisted DecisionRecorded events
  now,        \* the clock
  decided,    \* history: decided[d] is the decision promoted as d
  revoked,    \* history: decisions an operator invalidated, and how
  overkill,   \* history: an invalidation by rule hit an unrelated decision
  orderly     \* history: no invalidation by rule overlapped an evaluation,
              \* and the process has not restarted

vars == <<entries, ruleIndex, ev, sweep, log, now, decided, revoked, overkill,
          orderly>>

NoEntry == [state |-> "absent", id |-> NoEval, outcome |-> "none",
            expires |-> 0, created |-> 0]

\* CacheEntry: created_at matters for pending entries only, expires_at and the
\* outcome for resolved ones; a pending entry has no outcome.
PendingSet == [state : {"pending"}, id : Evals, outcome : {"none"},
               expires : {0}, created : Nat]
ResolvedSet == [state : {"resolved"}, id : Evals, outcome : Outcomes,
                expires : Nat, created : {0}]
EntrySet == {NoEntry} \cup PendingSet \cup ResolvedSet

RecordSet == [id : Evals, key : Keys, outcome : Outcomes, expires : Nat]

\* from: the cached decision an evaluation answered with.
EvalSet == [pc : {"new", "guard", "lookup", "install", "resolve", "write",
                  "insert", "persist", "done"},
            key : Keys, rules : SUBSET Rules, escalate : BOOLEAN,
            outcome : Outcomes, expires : Nat, from : Evals \cup {NoEval}]

DecidedSet == [made : BOOLEAN, key : Keys, outcome : Outcomes, at : Nat,
               rules : SUBSET Rules]

SweepSet == [on : BOOLEAN, rule : Rules, keys : SUBSET Keys]

NewEval == [pc |-> "new", key |-> CHOOSE k \in Keys : TRUE, rules |-> {},
            escalate |-> FALSE, outcome |-> "denied", expires |-> 0,
            from |-> NoEval]

NotDecided == [made |-> FALSE, key |-> CHOOSE k \in Keys : TRUE,
               outcome |-> "denied", at |-> 0, rules |-> {}]

NoSweep == [on |-> FALSE, rule |-> CHOOSE r \in Rules : TRUE, keys |-> {}]

Init ==
  /\ entries = [k \in Keys |-> NoEntry]
  /\ ruleIndex = [r \in Rules |-> {}]
  /\ ev = [e \in Evals |-> NewEval]
  /\ sweep = NoSweep
  /\ log = <<>>
  /\ now = 0
  /\ decided = [e \in Evals |-> NotDecided]
  /\ revoked = {}
  /\ overkill = FALSE
  /\ orderly = TRUE

-----------------------------------------------------------------------------
(* Helpers                                                                 *)

\* should_cache, with the ttl test of step 7.
Cacheable(k, outcome) ==
  /\ TTL[k] > 0
  /\ \/ Policy[k] = "always"
     \/ Policy[k] = "if_approved" /\ outcome = "allowed"
     \/ Policy[k] = "if_denied" /\ outcome = "denied"

\* lookup: what the cache answers for k at the current time (and a mutant
\* that forgets the ttl).
IsHitIgnoringExpiry(k) == entries[k].state = "resolved"
IsHit(k) == entries[k].state = "resolved" /\ now < entries[k].expires
IsStalePending(k) ==
  entries[k].state = "pending" /\ now - entries[k].created > PendingTimeout
IsExpired(k) == entries[k].state = "resolved" /\ now >= entries[k].expires

\* cache_key_string as its ':'-separated parts.
KeyText(k) == <<KindOf[k]>> \o ScopeText[ScopeOf[k]] \o <<HashOf[k]>>

\* remove_by_scope splits the key at the first two colons and compares the
\* middle piece, one part, with the whole text of the scope.
MatchesScope(k, s, kinds) ==
  KindOf[k] \in kinds /\ <<KeyText(k)[2]>> = ScopeText[s]

HistoryUnchanged == UNCHANGED <<decided, revoked, overkill, orderly>>

\* The evaluation returns; its locals are gone.
Return(e) == ev' = [ev EXCEPT ![e] = [NewEval EXCEPT !.pc = "done"]]

Move(e, pc) == ev' = [ev EXCEPT ![e].pc = pc]

-----------------------------------------------------------------------------
(* evaluate                                                                *)

Begin(e, k) ==
  /\ ev[e].pc = "new"
  /\ ev' = [ev EXCEPT ![e].pc = "guard", ![e].key = k]
  /\ UNCHANGED <<entries, ruleIndex, sweep, log, now>> /\ HistoryUnchanged

\* Steps 1, 2 and 4 deny: nothing is cached (build_denied_result).
CheckDenies(e) ==
  /\ ev[e].pc \in {"guard", "lookup"}
  /\ Return(e)
  /\ UNCHANGED <<entries, ruleIndex, sweep, log, now>> /\ HistoryUnchanged

\* Step 3: the guardrail consults rules, and allows, denies or escalates.
Guardrail(e, rules, verdict) ==
  /\ ev[e].pc = "guard"
  /\ IF verdict = "deny" THEN Return(e)
     ELSE ev' = [ev EXCEPT ![e].pc = "lookup", ![e].rules = rules,
                           ![e].escalate = (verdict = "escalate")]
  /\ orderly' = (orderly /\ ~sweep.on)
  /\ UNCHANGED <<entries, ruleIndex, sweep, log, now, decided, revoked, overkill>>

\* Step 5: a hit is the answer.  A resolved entry with no outcome would be
\* taken for an approval.
LookupHit(e) ==
  LET entry == entries[ev[e].key] IN
  /\ ev[e].pc = "lookup" /\ IsHit(ev[e].key)
  /\ ev' = [ev EXCEPT ![e] = [NewEval EXCEPT !.pc = "done",
              !.key = ev[e].key, !.from = entry.id,
              !.outcome = IF entry.outcome = "none" THEN "allowed"
                          ELSE entry.outcome]]
  /\ UNCHANGED <<entries, ruleIndex, sweep, log, now>> /\ HistoryUnchanged

\* Step 5: a miss, which clears a stale pending or an expired entry, or a
\* pending entry of somebody else, which is not waited for.
LookupMiss(e) ==
  LET k == ev[e].key IN
  /\ ev[e].pc = "lookup" /\ ~IsHit(k)
  /\ entries' = IF IsStalePending(k) \/ IsExpired(k)
                THEN [entries EXCEPT ![k] = NoEntry] ELSE entries
  /\ Move(e, "install")
  /\ UNCHANGED <<ruleIndex, sweep, log, now>> /\ HistoryUnchanged

\* install_pending replaces what is there.
InstallPending(e) ==
  LET k == ev[e].key IN
  /\ ev[e].pc = "install"
  /\ entries' = [entries EXCEPT ![k] = [NoEntry EXCEPT !.state = "pending",
                                          !.id = e, !.created = now]]
  /\ IF ev[e].escalate THEN Move(e, "resolve")
     ELSE ev' = [ev EXCEPT ![e].pc = "write", ![e].outcome = "allowed"]
  /\ UNCHANGED <<ruleIndex, sweep, log, now>> /\ HistoryUnchanged

\* Step 6: the approval resolver answers.
Resolve(e, outcome) ==
  /\ ev[e].pc = "resolve"
  /\ ev' = [ev EXCEPT ![e].pc = "write", ![e].outcome = outcome]
  /\ UNCHANGED <<entries, ruleIndex, sweep, log, now>> /\ HistoryUnchanged

\* Mutant: a rule already in the index keeps the keys it has.
IndexRulesOrInsert(e) ==
  LET k == ev[e].key IN
  /\ ev[e].pc = "write" /\ Cacheable(k, ev[e].outcome)
  /\ ruleIndex' = [r \in Rules |->
       IF r \in ev[e].rules /\ ruleIndex[r] = {} THEN {k} ELSE ruleIndex[r]]
  /\ ev' = [ev EXCEPT ![e].pc = "insert", ![e].expires = now + TTL[k]]
  /\ decided' = [decided EXCEPT ![e] = [made |-> TRUE, key |-> k,
                   outcome |-> ev[e].outcome, at |-> now, rules |-> ev[e].rules]]
  /\ UNCHANGED <<entries, sweep, log, now, revoked, overkill, orderly>>

\* Step 7, promote_to_resolved: the rule index first, under its own lock.
IndexRules(e) ==
  LET k == ev[e].key IN
  /\ ev[e].pc = "write" /\ Cacheable(k, ev[e].outcome)
  /\ ruleIndex' = [r \in Rules |->
       IF r \in ev[e].rules THEN ruleIndex[r] \cup {k} ELSE ruleIndex[r]]
  /\ ev' = [ev EXCEPT ![e].pc = "insert", ![e].expires = now + TTL[k]]
  /\ decided' = [decided EXCEPT ![e] = [made |-> TRUE, key |-> k,
                   outcome |-> ev[e].outcome, at |-> now, rules |-> ev[e].rules]]
  /\ UNCHANGED <<entries, sweep, log, now, revoked, overkill, orderly>>

\* Step 7, promote_to_resolved: then the entry.
InsertResolved(e) ==
  /\ ev[e].pc = "insert"
  /\ entries' = [entries EXCEPT ![ev[e].key] =
       [state |-> "resolved", id |-> e, outcome |-> ev[e].outcome,
        expires |-> ev[e].expires, created |-> 0]]
  /\ Move(e, "persist")
  /\ UNCHANGED <<ruleIndex, sweep, log, now>> /\ HistoryUnchanged

\* Mutant: only pending entries are removed by decision id.
WithoutPending(d) ==
  [k \in Keys |-> IF entries[k].id = d /\ entries[k].state = "pending"
                  THEN NoEntry ELSE entries[k]]

\* remove_by_decision_id
Without(d) == [k \in Keys |-> IF entries[k].id = d THEN NoEntry ELSE entries[k]]

\* Mutant: step 7 forgets the pending entry of a decision it does not cache.
SkipCacheWriteLeavesPending(e) ==
  /\ ev[e].pc = "write" /\ ~Cacheable(ev[e].key, ev[e].outcome)
  /\ Return(e)
  /\ UNCHANGED <<entries, ruleIndex, sweep, log, now>> /\ HistoryUnchanged

\* Step 7, not cacheable: the pending entry is removed.
SkipCacheWrite(e) ==
  /\ ev[e].pc = "write" /\ ~Cacheable(ev[e].key, ev[e].outcome)
  /\ entries' = Without(e)
  /\ Return(e)
  /\ UNCHANGED <<ruleIndex, sweep, log, now>> /\ HistoryUnchanged

\* Step 8: a cached decision is persisted, so that it survives a restart; a
\* failure is only logged.
Persist(e) ==
  /\ ev[e].pc = "persist"
  /\ \/ log' = Append(log, [id |-> e, key |-> ev[e].key,
                            outcome |-> ev[e].outcome, expires |-> ev[e].expires])
     \/ UNCHANGED log
  /\ Return(e)
  /\ UNCHANGED <<entries, ruleIndex, sweep, now>> /\ HistoryUnchanged

-----------------------------------------------------------------------------
(* Invalidation.  Nothing about it is persisted.                           *)

\* Evaluations that have consulted the guardrail and not yet cached.
InFlight(e) == ev[e].pc \in {"lookup", "install", "resolve", "write", "insert"}

\* An operator names a decision the cache lists or an evaluation returned.
InvalidateById(d) ==
  /\ "invalidate" \in Env
  /\ decided[d].made /\ ev[d].pc \in {"persist", "done"}
  /\ entries' = Without(d)
  /\ revoked' = revoked \cup {<<d, "id">>}
  /\ UNCHANGED <<ruleIndex, ev, sweep, log, now, decided, overkill, orderly>>

\* Decision d rests on rule r.
RestsOn(d, r) == decided[d].made /\ r \in decided[d].rules

\* remove_by_rule_id takes the rule's keys out of the index ...
TakeRule(r) ==
  /\ "invalidate" \in Env /\ ~sweep.on
  /\ sweep' = [on |-> TRUE, rule |-> r, keys |-> ruleIndex[r]]
  /\ ruleIndex' = [ruleIndex EXCEPT ![r] = {}]
  /\ orderly' = (orderly /\ \A e \in Evals : ~InFlight(e))
  /\ UNCHANGED <<entries, ev, log, now, decided, revoked, overkill>>

\* ... and then, under the other lock, removes their entries, whatever they
\* are by now.  The operator has revoked every decision that rests on it.
SweepEntries ==
  /\ sweep.on
  /\ entries' = [k \in Keys |-> IF k \in sweep.keys THEN NoEntry ELSE entries[k]]
  /\ revoked' = revoked \cup
       ({d \in Evals : RestsOn(d, sweep.rule)} \X {"rule"})
  /\ overkill' = (overkill \/ \E k \in sweep.keys :
                    IsHit(k) /\ sweep.rule \notin decided[entries[k].id].rules)
  /\ sweep' = NoSweep
  /\ UNCHANGED <<ruleIndex, ev, log, now, decided, orderly>>

\* kind_filter: none, or one kind.
KindFilters == {KindTags} \cup {{t} : t \in KindTags}

InvalidateByScope(s, kinds) ==
  /\ "by_scope" \in Env
  /\ entries' = [k \in Keys |-> IF MatchesScope(k, s, kinds) THEN NoEntry
                                ELSE entries[k]]
  /\ UNCHANGED <<ruleIndex, ev, sweep, log, now>> /\ HistoryUnchanged

-----------------------------------------------------------------------------
Tick ==
  /\ now < MaxTime
  /\ now' = now + 1
  /\ UNCHANGED <<entries, ruleIndex, ev, sweep, log>> /\ HistoryUnchanged

\* replay_decision_cache after a restart: every persisted decision that has
\* not expired is seeded, in log order; the rule index starts empty.
Live(i, k) == log[i].key = k /\ now < log[i].expires

Seeded(k) ==
  IF \A i \in DOMAIN log : ~Live(i, k) THEN NoEntry
  ELSE LET i == CHOOSE j \in DOMAIN log :
                  Live(j, k) /\ \A m \in DOMAIN log : Live(m, k) => m <= j
       IN [state |-> "resolved", id |-> log[i].id, outcome |-> log[i].outcome,
           expires |-> log[i].expires, created |-> 0]

Restart ==
  /\ "restart" \in Env
  /\ entries' = [k \in Keys |-> Seeded(k)]
  /\ ruleIndex' = [r \in Rules |-> {}]
  /\ ev' = [e \in Evals |-> IF ev[e].pc = "new" THEN ev[e]
                            ELSE [NewEval EXCEPT !.pc = "done"]]
  /\ sweep' = NoSweep
  /\ orderly' = FALSE
  /\ revoked' = {r[1] : r \in revoked} \X {"earlier"}
  /\ UNCHANGED <<log, now, decided, overkill>>

EvalStep(e) ==
  \/ CheckDenies(e)
  \/ \E rules \in SUBSET Rules, v \in {"allow", "deny", "escalate"} :
       Guardrail(e, rules, v)
  \/ LookupHit(e) \/ LookupMiss(e) \/ InstallPending(e)
  \/ \E o \in Outcomes : Resolve(e, o)
  \/ IndexRules(e) \/ InsertResolved(e) \/ SkipCacheWrite(e) \/ Persist(e)

Next ==
  \/ \E e \in Evals, k \in Keys : Begin(e, k)
  \/ \E e \in Evals : EvalStep(e)
  \/ \E d \in Evals : InvalidateById(d)
  \/ \E r \in Rules : TakeRule(r)
  \/ SweepEntries
  \/ \E s \in Scopes, kinds \in KindFilters : InvalidateByScope(s, kinds)
  \/ Tick
  \/ Restart

Spec == Init /\ [][Next]_vars

-----------------------------------------------------------------------------
(* Properties                                                              *)

\* Entries are well formed; in particular a resolved one has an outcome, so
\* that the lookup's default for a missing one, an approval, is never used.
TypeOK ==
  /\ entries \in [Keys -> EntrySet]
  /\ ruleIndex \in [Rules -> SUBSET Keys]
  /\ ev \in [Evals -> EvalSet]
  /\ sweep \in SweepSet
  /\ log \in Seq(RecordSet)
  /\ now \in Nat
  /\ decided \in [Evals -> DecidedSet]
  /\ revoked \subseteq Evals \X Ways
  /\ overkill \in BOOLEAN /\ orderly \in BOOLEAN

\* A cache hit repeats a decision that some evaluation really took for that
\* very key, with that outcome, whose policy lets it be cached, and no longer
\* ago than the policy's ttl: also when evaluations of the key race, when
\* their entries replace each other and when the entry was replayed from the
\* log after a restart.
GenuineHit(e) ==
  LET d == decided[ev'[e].from] IN
  /\ d.made /\ d.key = ev[e].key /\ d.outcome = ev'[e].outcome
  /\ Cacheable(d.key, d.outcome)
  /\ now < d.at + TTL[d.key]

HitsAreGenuine ==
  [][\A e \in Evals : ev[e].from = NoEval /\ ev'[e].from # NoEval
                        => GenuineHit(e)]_vars

\* A pending entry never outlives the evaluation that installed it: step 7
\* replaces or removes it, whoever else wrote the key in between.
PendingHasOwner ==
  \A k \in Keys : entries[k].state = "pending" =>
    LET e == entries[k].id IN
    ev[e].key = k /\ ev[e].pc \in {"resolve", "write", "insert"}

\* The operator has revoked decision d in way w.
Revoked(d, w) == <<d, w>> \in revoked

\* A decision an operator invalidated, directly or through a rule it rests on,
\* is not in the cache of this process any more: the next equivalent request is
\* evaluated afresh.  An invalidation by id is final even when evaluations of
\* the key are under way; one by rule when none overlapped an evaluation.
RevokedIsGone ==
  \A k \in Keys : entries[k].state = "resolved" =>
    /\ ~Revoked(entries[k].id, "id")
    /\ orderly => ~Revoked(entries[k].id, "rule")

\* The rule index knows every rule a cached decision rests on, so that
\* invalidate_by_rule reaches it (or has just taken it and is about to).
RuleIndexComplete ==
  orderly =>
    \A k \in Keys : entries[k].state = "resolved" =>
      \A r \in decided[entries[k].id].rules :
        k \in ruleIndex[r] \/ (sweep.on /\ sweep.rule = r /\ k \in sweep.keys)

(* What the documents say and the code does not keep in every case.        *)

\* Identical requests are coalesced: of the evaluations of a key, one at most
\* is past its cache lookup.
SingleFlight ==
  \A e, f \in Evals :
    /\ ev[e].key = ev[f].key
    /\ ev[e].pc \in {"resolve", "write"} /\ ev[f].pc \in {"resolve", "write"}
    => e = f

\* invalidate_by_rule removes only decisions that referenced the rule.
SelectiveInvalidation == ~overkill

\* invalidate_by_scope reaches every cached decision of its scope.
ScopeReachesAll ==
  \A k \in Keys : entries[k].state = "resolved" =>
    MatchesScope(k, ScopeOf[k], KindTags)

\* A decision an operator invalidated by id or by rule never answers again.
RevocationIsFinal ==
  \A k \in Keys : entries[k].state = "resolved" =>
    \A w \in Ways : ~Revoked(entries[k].id, w)

\* invalidate_by_rule reaches every cached decision, in every process.
RuleReachesAll ==
  \A k \in Keys : entries[k].state = "resolved" =>
    \A r \in decided[entries[k].id].rules :
      k \in ruleIndex[r] \/ (sweep.on /\ sweep.rule = r)
=============================================================================
