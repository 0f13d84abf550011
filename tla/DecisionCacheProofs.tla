------------------------- MODULE DecisionCacheProofs -------------------------
(***************************************************************************)
(* Theorems about DecisionCache, for every set of keys, rules and          *)
(* evaluations, every policy and ttl, and every environment.               *)
(***************************************************************************)
EXTENDS DecisionCache, TLAPS, WellFoundedInduction, NaturalsInduction

-----------------------------------------------------------------------------
(* The inductive invariant.                                                *)

\* d was promoted as a cacheable decision for k, with outcome o and until x.
Genuine(d, k, o, x) ==
  /\ decided[d].made /\ decided[d].key = k /\ decided[d].outcome = o
  /\ Cacheable(k, o)
  /\ x = decided[d].at + TTL[k]

\* An evaluation promotes once, and holds what it promoted until it returns.
EvalKnows ==
  \A e \in Evals :
    /\ ev[e].pc \in {"new", "guard", "lookup", "install", "resolve", "write"} =>
         ~decided[e].made
    /\ ev[e].pc \in {"insert", "persist"} =>
         /\ Genuine(e, ev[e].key, ev[e].outcome, ev[e].expires)
         /\ decided[e].rules = ev[e].rules

EntriesGenuine ==
  \A k \in Keys : entries[k].state = "resolved" =>
    Genuine(entries[k].id, k, entries[k].outcome, entries[k].expires)

LogGenuine ==
  \A i \in DOMAIN log : Genuine(log[i].id, log[i].key, log[i].outcome, log[i].expires)

\* A revoked decision is not about to enter the cache.
RevokedIsPast ==
  \A d \in Evals :
    Revoked(d, "id") \/ (orderly /\ Revoked(d, "rule")) => ev[d].pc \in {"persist", "done"}

\* While a rule is swept, no evaluation is under way, so nothing rests on the
\* rule but what was taken.
SweepAlone ==
  orderly /\ sweep.on => /\ \A e \in Evals : ~InFlight(e)
                         /\ ruleIndex[sweep.rule] = {}

\* The index knows of a decision before the entries do.
IndexedFirst ==
  orderly =>
    \A e \in Evals : ev[e].pc = "insert" =>
      \A r \in decided[e].rules : ev[e].key \in ruleIndex[r]

CacheInv ==
  /\ TypeOK
  /\ PendingHasOwner
  /\ EvalKnows
  /\ EntriesGenuine
  /\ LogGenuine
  /\ RevokedIsPast
  /\ RevokedIsGone
  /\ SweepAlone
  /\ IndexedFirst
  /\ RuleIndexComplete

-----------------------------------------------------------------------------
(* Types.                                                                  *)

LEMMA NewEvalTyped ==
  /\ NewEval \in EvalSet /\ NewEval.pc = "new" /\ NewEval.from = NoEval
  /\ [NewEval EXCEPT !.pc = "done"] \in EvalSet
  /\ [NewEval EXCEPT !.pc = "done"].pc = "done"
  /\ [NewEval EXCEPT !.pc = "done"].from = NoEval
<1>1. (CHOOSE k \in Keys : TRUE) \in Keys
  BY KeyAssumption
<1> QED
  BY <1>1 DEF NewEval, EvalSet, Outcomes

LEMMA InitialTyped ==
  NotDecided \in DecidedSet /\ ~NotDecided.made /\ NoSweep \in SweepSet /\ ~NoSweep.on
<1>1. (CHOOSE k \in Keys : TRUE) \in Keys /\ (CHOOSE r \in Rules : TRUE) \in Rules
  BY KeyAssumption, CacheAssumption
<1> QED
  BY <1>1 DEF NotDecided, DecidedSet, NoSweep, SweepSet, Outcomes

LEMMA EntryTyped ==
  /\ NoEntry \in EntrySet /\ NoEntry.state = "absent" /\ NoEntry.id = NoEval
  /\ \A e \in Evals, c \in Nat :
       LET p == [NoEntry EXCEPT !.state = "pending", !.id = e, !.created = c] IN
       p \in EntrySet /\ p.state = "pending" /\ p.id = e
  /\ \A e \in Evals, o \in Outcomes, x \in Nat :
       [state |-> "resolved", id |-> e, outcome |-> o, expires |-> x, created |-> 0]
         \in EntrySet
BY DEF EntrySet, NoEntry, PendingSet, ResolvedSet

\* What an entry holds.
LEMMA EntryFields ==
  ASSUME TypeOK, NEW k \in Keys
  PROVE  /\ entries[k] \in EntrySet
         /\ entries[k].state \in {"absent", "pending", "resolved"}
         /\ entries[k].state = "absent" => entries[k] = NoEntry
         /\ entries[k].state # "absent" => entries[k].id \in Evals
         /\ entries[k].state = "resolved" => /\ entries[k].outcome \in Outcomes
                                             /\ entries[k].expires \in Nat
<1>1. entries[k] \in EntrySet
  BY DEF TypeOK
<1>2. CASE entries[k] = NoEntry
  BY <1>2, EntryTyped
<1>3. CASE entries[k] \in PendingSet
  BY <1>1, <1>3 DEF PendingSet
<1>4. CASE entries[k] \in ResolvedSet
  BY <1>1, <1>4 DEF ResolvedSet
<1> QED
  BY <1>1, <1>2, <1>3, <1>4 DEF EntrySet

LEMMA EvalFields ==
  ASSUME TypeOK, NEW e \in Evals
  PROVE  /\ ev[e] \in EvalSet /\ ev[e].key \in Keys /\ ev[e].rules \in SUBSET Rules
         /\ ev[e].outcome \in Outcomes /\ ev[e].expires \in Nat
         /\ ev[e].pc \in {"new", "guard", "lookup", "install", "resolve", "write",
                          "insert", "persist", "done"}
BY DEF TypeOK, EvalSet

\* An evaluation that moves on or takes note of something stays one.
LEMMA EvalUpdated ==
  ASSUME TypeOK, NEW e \in Evals, NEW v \in EvalSet, ev' = [ev EXCEPT ![e] = v]
  PROVE  /\ ev' \in [Evals -> EvalSet] /\ ev'[e] = v
         /\ \A f \in Evals \ {e} : ev'[f] = ev[f]
BY DEF TypeOK

LEMMA EntriesUpdated ==
  ASSUME TypeOK, NEW k \in Keys, NEW x \in EntrySet, entries' = [entries EXCEPT ![k] = x]
  PROVE  /\ entries' \in [Keys -> EntrySet] /\ entries'[k] = x
         /\ \A j \in Keys \ {k} : entries'[j] = entries[j]
BY DEF TypeOK

\* Removals leave some entries and empty the others.
Pruned ==
  /\ entries' \in [Keys -> EntrySet]
  /\ \A k \in Keys : entries'[k] = entries[k] \/ entries'[k] = NoEntry

LEMMA Removed ==
  ASSUME TypeOK, NEW P, entries' = [k \in Keys |-> IF k \in P THEN NoEntry ELSE entries[k]]
  PROVE  Pruned /\ \A k \in Keys : k \in P => entries'[k] = NoEntry
BY EntryTyped DEF TypeOK, Pruned

-----------------------------------------------------------------------------
(* The replay of the log.                                                  *)

\* Induction by the least element: a set of positions has a greatest one.
LEMMA LeastNatural ==
  ASSUME NEW T, T \subseteq Nat, T # {}
  PROVE  \E x \in T : \A y \in T : x <= y
<1> DEFINE R == OpToRel(<, Nat)
<1>1. IsWellFoundedOn(R, Nat)
  BY NatLessThanWellFounded
<1>2. \A x, y \in Nat : y < x => <<y, x>> \in R
  BY DEF OpToRel
<1> HIDE DEF R
<1>3. PICK x \in T : \A y \in T : ~ (<<y, x>> \in R)
  BY <1>1, WFMin
<1>4. \A y \in T : x \in Nat /\ y \in Nat /\ ~(y < x)
  BY <1>2, <1>3
<1> QED
  BY <1>4

LEMMA GreatestPosition ==
  ASSUME NEW n \in Nat, NEW P, P \subseteq 1 .. n, P # {}
  PROVE  \E j \in P : \A m \in P : m <= j
<1> DEFINE T == {n - i : i \in P}
<1>0. \A i \in P : n - i \in Nat
  OBVIOUS
<1>1. T \subseteq Nat /\ T # {}
  BY <1>0
<1>2. PICK x \in T : \A y \in T : x <= y
  BY <1>1, LeastNatural
<1>3. PICK j \in P : x = n - j
  BY <1>2
<1>4. \A m \in P : n - j <= n - m
  BY <1>2, <1>3
<1> QED
  BY <1>3, <1>4

\* A key is seeded with a live decision of the log for that key, or not at all.
LEMMA SeededFromLog ==
  ASSUME TypeOK, NEW k \in Keys
  PROVE  \/ Seeded(k) = NoEntry
         \/ \E i \in DOMAIN log :
              /\ Live(i, k)
              /\ Seeded(k) = [state |-> "resolved", id |-> log[i].id,
                              outcome |-> log[i].outcome, expires |-> log[i].expires,
                              created |-> 0]
<1>1. CASE \A i \in DOMAIN log : ~Live(i, k)
  BY <1>1 DEF Seeded
<1>2. CASE ~(\A i \in DOMAIN log : ~Live(i, k))
  <2> DEFINE P == {i \in DOMAIN log : Live(i, k)}
             Last(j) == Live(j, k) /\ \A m \in DOMAIN log : Live(m, k) => m <= j
             i0 == CHOOSE j \in DOMAIN log : Last(j)
  <2>1. Len(log) \in Nat /\ DOMAIN log = 1 .. Len(log)
    BY DEF TypeOK
  <2>2. P \subseteq 1 .. Len(log) /\ P # {}
    BY <1>2, <2>1
  <2>3. \E j \in P : \A m \in P : m <= j
    BY <2>1, <2>2, GreatestPosition
  <2>4. \E j \in DOMAIN log : Last(j)
    BY <2>3
  <2>5. i0 \in DOMAIN log /\ Last(i0)
    BY <2>4
  <2>6. Seeded(k) = [state |-> "resolved", id |-> log[i0].id, outcome |-> log[i0].outcome,
                     expires |-> log[i0].expires, created |-> 0]
    BY <1>2 DEF Seeded
  <2>7. Live(i0, k)
    BY <2>5
  <2> HIDE DEF i0
  <2> QED
    BY <2>5, <2>6, <2>7
<1> QED
  BY <1>1, <1>2

LEMMA SeededTyped ==
  ASSUME TypeOK, NEW k \in Keys
  PROVE  Seeded(k) \in EntrySet
<1>1. CASE Seeded(k) = NoEntry
  BY <1>1, EntryTyped
<1>2. ASSUME NEW i \in DOMAIN log
      PROVE  [state |-> "resolved", id |-> log[i].id, outcome |-> log[i].outcome,
              expires |-> log[i].expires, created |-> 0] \in EntrySet
  <2>1. log[i] \in RecordSet
    BY <1>2 DEF TypeOK
  <2>2. log[i].id \in Evals /\ log[i].outcome \in Outcomes /\ log[i].expires \in Nat
    BY <2>1 DEF RecordSet
  <2> QED
    BY <2>2, EntryTyped
<1> QED
  BY <1>1, <1>2, SeededFromLog

-----------------------------------------------------------------------------
(* Steps.                                                                  *)

Fresh == {"new", "guard", "lookup", "install", "resolve", "write"}

\* A step that takes evaluation e to v and does not touch the index.  It
\* promotes nothing, and enters the pipeline only where a sweep allows it.
LEMMA EvalMoves ==
  ASSUME CacheInv, NEW e \in Evals, NEW v \in EvalSet, ev' = [ev EXCEPT ![e] = v],
         UNCHANGED <<ruleIndex, sweep, decided, revoked>>,
         orderly' => orderly,
         v.pc \notin {"insert", "persist"},
         v.pc \in Fresh => ev[e].pc \in Fresh,
         ev[e].pc \in {"persist", "done"} => v.pc = "done",
         v.pc \in {"lookup", "install", "resolve", "write"} =>
            InFlight(e) \/ ~orderly' \/ ~sweep.on
  PROVE  /\ ev' \in [Evals -> EvalSet] /\ ev'[e] = v
         /\ \A f \in Evals \ {e} : ev'[f] = ev[f]
         /\ EvalKnows' /\ RevokedIsPast' /\ SweepAlone' /\ IndexedFirst'
<1>0. TypeOK
  BY DEF CacheInv
<1>1. ev' \in [Evals -> EvalSet] /\ ev'[e] = v /\ \A f \in Evals \ {e} : ev'[f] = ev[f]
  BY <1>0, EvalUpdated
<1>4. EvalKnows'
  BY <1>1 DEF CacheInv, EvalKnows, Genuine, Fresh
<1>6. RevokedIsPast'
  BY <1>1 DEF CacheInv, RevokedIsPast, Revoked
<1>7. SweepAlone'
  BY <1>1 DEF CacheInv, SweepAlone, InFlight
<1>8. IndexedFirst'
  BY <1>1 DEF CacheInv, IndexedFirst
<1> QED
  BY <1>1, <1>4, <1>6, <1>7, <1>8

\* ... nor the entries: it keeps the pending entry it owns.
LEMMA EvalOnly ==
  ASSUME CacheInv, NEW e \in Evals, NEW v \in EvalSet, ev' = [ev EXCEPT ![e] = v],
         UNCHANGED <<entries, ruleIndex, sweep, now, decided, revoked, overkill>>,
         orderly' \in BOOLEAN, orderly' => orderly,
         log' \in Seq(RecordSet), LogGenuine',
         v.pc \notin {"insert", "persist"},
         v.pc \in Fresh => ev[e].pc \in Fresh,
         ev[e].pc \in {"resolve", "write", "insert"} =>
            v.key = ev[e].key /\ v.pc \in {"resolve", "write"},
         ev[e].pc \in {"persist", "done"} => v.pc = "done",
         v.pc \in {"lookup", "install", "resolve", "write"} =>
            InFlight(e) \/ ~orderly' \/ ~sweep.on
  PROVE  CacheInv'
<1>0. TypeOK
  BY DEF CacheInv
<1>1. /\ ev' \in [Evals -> EvalSet] /\ ev'[e] = v
      /\ \A f \in Evals \ {e} : ev'[f] = ev[f]
      /\ EvalKnows' /\ RevokedIsPast' /\ SweepAlone' /\ IndexedFirst'
  BY EvalMoves
<1>2. TypeOK'
  BY <1>0, <1>1 DEF TypeOK
<1>3. PendingHasOwner'
  BY <1>0, <1>1, EntryFields DEF CacheInv, PendingHasOwner
<1>5. EntriesGenuine' /\ RevokedIsGone' /\ RuleIndexComplete'
  BY DEF CacheInv, EntriesGenuine, Genuine, RevokedIsGone, Revoked, RuleIndexComplete
<1> QED
  BY <1>1, <1>2, <1>3, <1>5 DEF CacheInv

\* A step that caches no decision: what is resolved was so before.
NothingResolved == \A k \in Keys : entries'[k].state = "resolved" => entries'[k] = entries[k]

LEMMA PrunedResolvesNothing ==
  ASSUME Pruned
  PROVE  NothingResolved
BY EntryTyped DEF Pruned, NothingResolved

LEMMA ResolvedKeep ==
  ASSUME CacheInv, NothingResolved, UNCHANGED <<decided, ruleIndex, sweep>>,
         orderly' => orderly
  PROVE  EntriesGenuine' /\ RuleIndexComplete'
<1>1. EntriesGenuine'
  <2> SUFFICES ASSUME NEW k \in Keys, entries'[k].state = "resolved"
               PROVE  Genuine(entries[k].id, k, entries[k].outcome, entries[k].expires)'
    BY DEF EntriesGenuine
  <2>1. entries'[k] = entries[k]
    BY DEF NothingResolved
  <2>2. Genuine(entries[k].id, k, entries[k].outcome, entries[k].expires)
    BY <2>1 DEF CacheInv, EntriesGenuine
  <2> QED
    BY <2>1, <2>2 DEF Genuine
<1>2. RuleIndexComplete'
  BY DEF CacheInv, RuleIndexComplete, NothingResolved
<1> QED
  BY <1>1, <1>2

LEMMA ResolvedUnrevoked ==
  ASSUME CacheInv, NothingResolved, UNCHANGED revoked, orderly' => orderly
  PROVE  RevokedIsGone'
BY DEF CacheInv, RevokedIsGone, Revoked, NothingResolved

\* A removal of entries by an operator.
LEMMA PrunedOwners ==
  ASSUME CacheInv, Pruned, UNCHANGED ev
  PROVE  PendingHasOwner'
BY EntryTyped DEF CacheInv, PendingHasOwner, Pruned

LEMMA ReturnStep ==
  ASSUME CacheInv, NEW e \in Evals, Return(e), ev[e].pc \in {"guard", "lookup", "persist"},
         UNCHANGED <<entries, ruleIndex, sweep, now, decided, revoked, overkill>>,
         orderly' \in BOOLEAN, orderly' => orderly, log' \in Seq(RecordSet), LogGenuine'
  PROVE  CacheInv'
<1> DEFINE v == [NewEval EXCEPT !.pc = "done"]
<1>1. ev' = [ev EXCEPT ![e] = v] /\ v \in EvalSet /\ v.pc = "done"
  BY NewEvalTyped DEF Return
<1> HIDE DEF v
<1> QED
  BY <1>1, EvalOnly DEF Fresh

\* The log is left alone.
LEMMA LogKept ==
  ASSUME CacheInv, UNCHANGED <<log, decided>>
  PROVE  log' \in Seq(RecordSet) /\ LogGenuine'
BY DEF CacheInv, TypeOK, LogGenuine, Genuine

LEMMA BeginKeeps ==
  ASSUME CacheInv, NEW e \in Evals, NEW k \in Keys, Begin(e, k)
  PROVE  CacheInv'
<1> DEFINE v == [ev[e] EXCEPT !.pc = "guard", !.key = k]
<1>1. ev[e] \in EvalSet
  BY EvalFields DEF CacheInv
<1>2. v \in EvalSet /\ v.pc = "guard"
  BY <1>1 DEF EvalSet
<1>3. ev' = [ev EXCEPT ![e] = v] /\ ev[e].pc = "new"
  BY DEF Begin, CacheInv, TypeOK
<1>4. /\ UNCHANGED <<entries, ruleIndex, sweep, log, now, decided, revoked, overkill, orderly>>
      /\ orderly \in BOOLEAN
  BY DEF Begin, HistoryUnchanged, CacheInv, TypeOK
<1> HIDE DEF v
<1> QED
  BY <1>2, <1>3, <1>4, EvalOnly, LogKept DEF Fresh

LEMMA CheckDeniesKeeps ==
  ASSUME CacheInv, NEW e \in Evals, CheckDenies(e)
  PROVE  CacheInv'
<1>1. /\ UNCHANGED <<entries, ruleIndex, sweep, log, now, decided, revoked, overkill, orderly>>
      /\ orderly \in BOOLEAN /\ ev[e].pc \in {"guard", "lookup"} /\ Return(e)
  BY DEF CheckDenies, HistoryUnchanged, CacheInv, TypeOK
<1> QED
  BY <1>1, ReturnStep, LogKept

LEMMA GuardrailKeeps ==
  ASSUME CacheInv, NEW e \in Evals, NEW rules \in SUBSET Rules, NEW verdict,
         Guardrail(e, rules, verdict)
  PROVE  CacheInv'
<1>1. /\ UNCHANGED <<entries, ruleIndex, sweep, log, now, decided, revoked, overkill>>
      /\ orderly' = (orderly /\ ~sweep.on) /\ ev[e].pc = "guard"
  BY DEF Guardrail
<1>2. orderly' \in BOOLEAN /\ (orderly' => orderly /\ ~sweep.on)
  BY <1>1
<1>3. CASE Return(e)
  BY <1>1, <1>2, <1>3, ReturnStep, LogKept
<1>4. CASE ev' = [ev EXCEPT ![e].pc = "lookup", ![e].rules = rules,
                            ![e].escalate = (verdict = "escalate")]
  <2> DEFINE b == (verdict = "escalate")
             v == [ev[e] EXCEPT !.pc = "lookup", !.rules = rules, !.escalate = b]
  <2>1. ev[e] \in EvalSet /\ b \in BOOLEAN
    BY EvalFields DEF CacheInv
  <2>2. ev' = [ev EXCEPT ![e] = v]
    BY <1>4 DEF CacheInv, TypeOK
  <2> HIDE DEF b
  <2>3. v \in EvalSet /\ v.pc = "lookup"
    BY <2>1 DEF EvalSet
  <2> HIDE DEF v
  <2> QED
    BY <1>1, <1>2, <2>2, <2>3, EvalOnly, LogKept DEF Fresh
<1> QED
  BY <1>3, <1>4 DEF Guardrail

LEMMA LookupHitKeeps ==
  ASSUME CacheInv, NEW e \in Evals, LookupHit(e)
  PROVE  CacheInv'
<1> DEFINE entry == entries[ev[e].key]
           o == IF entry.outcome = "none" THEN "allowed" ELSE entry.outcome
           v == [NewEval EXCEPT !.pc = "done", !.key = ev[e].key, !.from = entry.id,
                                !.outcome = o]
<1>1. /\ ev[e].key \in Keys /\ entry.state = "resolved" /\ ev[e].pc = "lookup"
  BY EvalFields DEF LookupHit, IsHit, CacheInv
<1>2. entry.id \in Evals /\ entry.outcome \in Outcomes
  BY <1>1, EntryFields DEF CacheInv
<1>3. v \in EvalSet /\ v.pc = "done"
  BY <1>1, <1>2, NewEvalTyped DEF EvalSet, Outcomes
<1>4. ev' = [ev EXCEPT ![e] = v]
  BY DEF LookupHit
<1>5. /\ UNCHANGED <<entries, ruleIndex, sweep, log, now, decided, revoked, overkill, orderly>>
      /\ orderly \in BOOLEAN
  BY DEF LookupHit, HistoryUnchanged, CacheInv, TypeOK
<1> HIDE DEF v, o, entry
<1> QED
  BY <1>1, <1>3, <1>4, <1>5, EvalOnly, LogKept DEF Fresh

LEMMA ResolveKeeps ==
  ASSUME CacheInv, NEW e \in Evals, NEW o \in Outcomes, Resolve(e, o)
  PROVE  CacheInv'
<1> DEFINE v == [ev[e] EXCEPT !.pc = "write", !.outcome = o]
<1>1. ev[e] \in EvalSet
  BY EvalFields DEF CacheInv
<1>2. v \in EvalSet /\ v.pc = "write" /\ v.key = ev[e].key
  BY <1>1 DEF EvalSet
<1>3. ev' = [ev EXCEPT ![e] = v] /\ ev[e].pc = "resolve"
  BY DEF Resolve, CacheInv, TypeOK
<1>4. /\ UNCHANGED <<entries, ruleIndex, sweep, log, now, decided, revoked, overkill, orderly>>
      /\ orderly \in BOOLEAN
  BY DEF Resolve, HistoryUnchanged, CacheInv, TypeOK
<1> HIDE DEF v
<1> QED
  BY <1>2, <1>3, <1>4, EvalOnly, LogKept DEF Fresh, InFlight

LEMMA PersistKeeps ==
  ASSUME CacheInv, NEW e \in Evals, Persist(e)
  PROVE  CacheInv'
<1> DEFINE rec == [id |-> e, key |-> ev[e].key, outcome |-> ev[e].outcome,
                   expires |-> ev[e].expires]
<1>1. /\ UNCHANGED <<entries, ruleIndex, sweep, now, decided, revoked, overkill, orderly>>
      /\ orderly \in BOOLEAN /\ ev[e].pc = "persist" /\ Return(e)
  BY DEF Persist, HistoryUnchanged, CacheInv, TypeOK
<1>2. CASE log' = Append(log, rec)
  <2>1. rec \in RecordSet
    BY EvalFields DEF CacheInv, RecordSet
  <2>2. Genuine(e, ev[e].key, ev[e].outcome, ev[e].expires)
    BY <1>1 DEF CacheInv, EvalKnows
  <2>3. Genuine(rec.id, rec.key, rec.outcome, rec.expires)
    BY <2>2
  <2> HIDE DEF rec
  <2>4. log \in Seq(RecordSet)
    BY DEF CacheInv, TypeOK
  <2>5. log' \in Seq(RecordSet)
    BY <1>2, <2>1, <2>4
  <2>6. \A i \in DOMAIN log' : log'[i] = rec \/ (i \in DOMAIN log /\ log'[i] = log[i])
    BY <1>2, <2>1, <2>4
  <2>7. LogGenuine'
    BY <1>1, <2>3, <2>6 DEF CacheInv, LogGenuine, Genuine
  <2> QED
    BY <1>1, <2>5, <2>7, ReturnStep
<1>3. CASE UNCHANGED log
  BY <1>1, <1>3, ReturnStep, LogKept
<1> QED
  BY <1>2, <1>3 DEF Persist

\* No evaluation but e moves, and e owns no pending entry.
LEMMA OwnersStay ==
  ASSUME CacheInv, NEW e \in Evals,
         \A f \in Evals \ {e} : ev'[f] = ev[f],
         \A k \in Keys : entries'[k].state = "pending" =>
           entries'[k] = entries[k] /\ entries[k].id # e
  PROVE  PendingHasOwner'
<1> SUFFICES ASSUME NEW k \in Keys, entries'[k].state = "pending"
             PROVE  /\ ev'[entries'[k].id].key = k
                    /\ ev'[entries'[k].id].pc \in {"resolve", "write", "insert"}
  BY DEF PendingHasOwner
<1>1. entries'[k] = entries[k] /\ entries[k].id # e /\ entries[k].id \in Evals
  BY EntryFields DEF CacheInv
<1> QED
  BY <1>1 DEF CacheInv, PendingHasOwner

LEMMA LookupMissKeeps ==
  ASSUME CacheInv, NEW e \in Evals, LookupMiss(e)
  PROVE  CacheInv'
<1> DEFINE v == [ev[e] EXCEPT !.pc = "install"]
           k0 == ev[e].key
<1>1. ev[e] \in EvalSet /\ k0 \in Keys /\ TypeOK
  BY EvalFields DEF CacheInv
<1>2. v \in EvalSet /\ v.pc = "install"
  BY <1>1 DEF EvalSet
<1>3. ev' = [ev EXCEPT ![e] = v] /\ ev[e].pc = "lookup"
  BY <1>1 DEF LookupMiss, Move, TypeOK
<1>4. UNCHANGED <<ruleIndex, sweep, log, now, decided, revoked, overkill, orderly>>
  BY DEF LookupMiss, HistoryUnchanged
<1>5. Pruned
  <2>1. entries' = entries \/ entries' = [entries EXCEPT ![k0] = NoEntry]
    BY DEF LookupMiss
  <2> QED
    BY <1>1, <2>1, EntryTyped, EntriesUpdated DEF Pruned, TypeOK
<1> HIDE DEF v
<1>6. /\ ev' \in [Evals -> EvalSet] /\ \A f \in Evals \ {e} : ev'[f] = ev[f]
      /\ EvalKnows' /\ RevokedIsPast' /\ SweepAlone' /\ IndexedFirst'
  BY <1>2, <1>3, <1>4, EvalMoves DEF Fresh, InFlight
<1>7. TypeOK'
  BY <1>1, <1>4, <1>5, <1>6 DEF TypeOK, Pruned
<1>8. \A k \in Keys : entries'[k].state = "pending" => entries'[k] = entries[k] /\ entries[k].id # e
  BY <1>3, <1>5, EntryTyped DEF Pruned, CacheInv, PendingHasOwner
<1>9. PendingHasOwner'
  BY <1>6, <1>8, OwnersStay
<1>10. EntriesGenuine' /\ RuleIndexComplete' /\ RevokedIsGone'
  BY <1>4, <1>5, PrunedResolvesNothing, ResolvedKeep, ResolvedUnrevoked
<1>11. LogGenuine'
  BY <1>4, LogKept
<1> QED
  BY <1>6, <1>7, <1>9, <1>10, <1>11 DEF CacheInv

LEMMA InstallPendingKeeps ==
  ASSUME CacheInv, NEW e \in Evals, InstallPending(e)
  PROVE  CacheInv'
<1> DEFINE v1 == [ev[e] EXCEPT !.pc = "resolve"]
           v2 == [ev[e] EXCEPT !.pc = "write", !.outcome = "allowed"]
           k0 == ev[e].key
           x == [NoEntry EXCEPT !.state = "pending", !.id = e, !.created = now]
<1>1. ev[e] \in EvalSet /\ k0 \in Keys /\ TypeOK /\ now \in Nat
  BY EvalFields DEF CacheInv, TypeOK
<1>2. /\ v1 \in EvalSet /\ v1.pc = "resolve" /\ v1.key = k0
      /\ v2 \in EvalSet /\ v2.pc = "write" /\ v2.key = k0
  BY <1>1 DEF EvalSet, Outcomes
<1>3. ev[e].pc = "install" /\ (ev' = [ev EXCEPT ![e] = v1] \/ ev' = [ev EXCEPT ![e] = v2])
  BY <1>1 DEF InstallPending, Move, TypeOK
<1>4. UNCHANGED <<ruleIndex, sweep, log, now, decided, revoked, overkill, orderly>>
  BY DEF InstallPending, HistoryUnchanged
<1> HIDE DEF v1, v2
<1>5. PICK v \in EvalSet : /\ ev' = [ev EXCEPT ![e] = v] /\ v.key = k0
                           /\ v.pc \in {"resolve", "write"}
  BY <1>2, <1>3
<1>6. /\ ev' \in [Evals -> EvalSet] /\ ev'[e] = v /\ \A f \in Evals \ {e} : ev'[f] = ev[f]
      /\ EvalKnows' /\ RevokedIsPast' /\ SweepAlone' /\ IndexedFirst'
  BY <1>3, <1>4, <1>5, EvalMoves DEF Fresh, InFlight
<1>7. x \in EntrySet /\ x.state = "pending" /\ x.id = e
  BY <1>1, EntryTyped
<1>8. entries' = [entries EXCEPT ![k0] = x]
  BY DEF InstallPending
<1> HIDE DEF x
<1>9. /\ entries' \in [Keys -> EntrySet] /\ entries'[k0] = x
      /\ \A j \in Keys \ {k0} : entries'[j] = entries[j]
  BY <1>1, <1>7, <1>8, EntriesUpdated
<1>10. TypeOK'
  BY <1>1, <1>4, <1>6, <1>9 DEF TypeOK
<1>11. PendingHasOwner'
  <2> SUFFICES ASSUME NEW k \in Keys, entries'[k].state = "pending"
               PROVE  /\ ev'[entries'[k].id].key = k
                      /\ ev'[entries'[k].id].pc \in {"resolve", "write", "insert"}
    BY DEF PendingHasOwner
  <2>1. CASE k = k0
    BY <2>1, <1>5, <1>6, <1>7, <1>9
  <2>2. CASE k # k0
    <3>1. entries'[k] = entries[k] /\ entries[k].id \in Evals
      BY <2>2, <1>1, <1>9, EntryFields
    <3>2. /\ ev[entries[k].id].key = k
          /\ ev[entries[k].id].pc \in {"resolve", "write", "insert"}
      BY <3>1 DEF CacheInv, PendingHasOwner
    <3> QED
      BY <1>3, <1>6, <3>1, <3>2
  <2> QED
    BY <2>1, <2>2
<1>12. NothingResolved
  BY <1>7, <1>9 DEF NothingResolved
<1>13. EntriesGenuine' /\ RuleIndexComplete' /\ RevokedIsGone'
  BY <1>4, <1>12, ResolvedKeep, ResolvedUnrevoked
<1> QED
  BY <1>4, <1>6, <1>10, <1>11, <1>13, LogKept DEF CacheInv

LEMMA WithoutPrunes ==
  ASSUME CacheInv, NEW d \in Evals, entries' = Without(d)
  PROVE  Pruned /\ \A k \in Keys : entries'[k].id # d
<1>1. Without(d) = [k \in Keys |-> IF k \in {j \in Keys : entries[j].id = d}
                                   THEN NoEntry ELSE entries[k]]
  BY DEF Without
<1>2. Pruned
  BY <1>1, Removed DEF CacheInv
<1> QED
  BY <1>2, EntryTyped, CacheAssumption DEF Without

LEMMA SkipCacheWriteKeeps ==
  ASSUME CacheInv, NEW e \in Evals, SkipCacheWrite(e)
  PROVE  CacheInv'
<1> DEFINE v == [NewEval EXCEPT !.pc = "done"]
<1>1. ev' = [ev EXCEPT ![e] = v] /\ v \in EvalSet /\ v.pc = "done" /\ ev[e].pc = "write"
  BY NewEvalTyped DEF SkipCacheWrite, Return
<1> HIDE DEF v
<1>2. UNCHANGED <<ruleIndex, sweep, log, now, decided, revoked, overkill, orderly>>
  BY DEF SkipCacheWrite, HistoryUnchanged
<1>3. Pruned /\ \A k \in Keys : entries'[k].id # e
  BY WithoutPrunes DEF SkipCacheWrite
<1>4. /\ ev' \in [Evals -> EvalSet] /\ \A f \in Evals \ {e} : ev'[f] = ev[f]
      /\ EvalKnows' /\ RevokedIsPast' /\ SweepAlone' /\ IndexedFirst'
  BY <1>1, <1>2, EvalMoves DEF Fresh, InFlight
<1>5. TypeOK'
  BY <1>2, <1>3, <1>4 DEF CacheInv, TypeOK, Pruned
<1>6. \A k \in Keys : entries'[k].state = "pending" => entries'[k] = entries[k] /\ entries[k].id # e
  BY <1>3, EntryTyped DEF Pruned
<1>7. PendingHasOwner'
  BY <1>4, <1>6, OwnersStay
<1>8. EntriesGenuine' /\ RuleIndexComplete' /\ RevokedIsGone'
  BY <1>2, <1>3, PrunedResolvesNothing, ResolvedKeep, ResolvedUnrevoked
<1> QED
  BY <1>2, <1>4, <1>5, <1>7, <1>8, LogKept DEF CacheInv

LEMMA InsertResolvedKeeps ==
  ASSUME CacheInv, NEW e \in Evals, InsertResolved(e)
  PROVE  CacheInv'
<1> DEFINE v == [ev[e] EXCEPT !.pc = "persist"]
           k0 == ev[e].key
           x == [state |-> "resolved", id |-> e, outcome |-> ev[e].outcome,
                 expires |-> ev[e].expires, created |-> 0]
<1>1. ev[e] \in EvalSet /\ k0 \in Keys /\ TypeOK
  BY EvalFields DEF CacheInv
<1>2. /\ v \in EvalSet /\ v.pc = "persist" /\ v.key = k0 /\ v.outcome = ev[e].outcome
      /\ v.expires = ev[e].expires /\ v.rules = ev[e].rules
  BY <1>1 DEF EvalSet
<1>3. ev[e].pc = "insert" /\ ev' = [ev EXCEPT ![e] = v]
  BY <1>1 DEF InsertResolved, Move, TypeOK
<1>4. UNCHANGED <<ruleIndex, sweep, log, now, decided, revoked, overkill, orderly>>
  BY DEF InsertResolved, HistoryUnchanged
<1>5. /\ x \in EntrySet /\ x.state = "resolved" /\ x.id = e /\ x.outcome = ev[e].outcome
      /\ x.expires = ev[e].expires
  BY <1>1, EvalFields, EntryTyped
<1>6. entries' = [entries EXCEPT ![k0] = x]
  BY DEF InsertResolved
<1> HIDE DEF v, x
<1>7. ev' \in [Evals -> EvalSet] /\ ev'[e] = v /\ \A f \in Evals \ {e} : ev'[f] = ev[f]
  BY <1>1, <1>2, <1>3, EvalUpdated
<1>8. /\ entries' \in [Keys -> EntrySet] /\ entries'[k0] = x
      /\ \A j \in Keys \ {k0} : entries'[j] = entries[j]
  BY <1>1, <1>5, <1>6, EntriesUpdated
<1>9. Genuine(e, k0, ev[e].outcome, ev[e].expires) /\ decided[e].rules = ev[e].rules
  BY <1>3 DEF CacheInv, EvalKnows
<1>10. TypeOK'
  BY <1>1, <1>4, <1>7, <1>8 DEF TypeOK
<1>11. PendingHasOwner'
  <2> SUFFICES ASSUME NEW k \in Keys, entries'[k].state = "pending"
               PROVE  /\ ev'[entries'[k].id].key = k
                      /\ ev'[entries'[k].id].pc \in {"resolve", "write", "insert"}
    BY DEF PendingHasOwner
  <2>1. k # k0 /\ entries'[k] = entries[k]
    BY <1>5, <1>8
  <2>2. /\ ev[entries[k].id].key = k /\ entries[k].id \in Evals
        /\ ev[entries[k].id].pc \in {"resolve", "write", "insert"}
    BY <1>1, <2>1, EntryFields DEF CacheInv, PendingHasOwner
  <2> QED
    BY <1>7, <2>1, <2>2
<1>12. EvalKnows'
  <2> SUFFICES ASSUME NEW f \in Evals
               PROVE  /\ ev'[f].pc \in Fresh => ~decided'[f].made
                      /\ ev'[f].pc \in {"insert", "persist"} =>
                           /\ Genuine(f, ev[f].key, ev[f].outcome, ev[f].expires)'
                           /\ decided'[f].rules = ev'[f].rules
    BY DEF EvalKnows, Fresh
  <2>1. CASE f = e
    BY <2>1, <1>2, <1>4, <1>7, <1>9 DEF Genuine, Fresh
  <2>2. CASE f # e
    BY <2>2, <1>4, <1>7 DEF CacheInv, EvalKnows, Genuine, Fresh
  <2> QED
    BY <2>1, <2>2
<1>13. EntriesGenuine'
  <2> SUFFICES ASSUME NEW k \in Keys, entries'[k].state = "resolved"
               PROVE  Genuine(entries[k].id, k, entries[k].outcome, entries[k].expires)'
    BY DEF EntriesGenuine
  <2>1. CASE k = k0
    BY <2>1, <1>4, <1>5, <1>8, <1>9 DEF Genuine
  <2>2. CASE k # k0
    <3>1. entries'[k] = entries[k]
      BY <2>2, <1>8
    <3>2. Genuine(entries[k].id, k, entries[k].outcome, entries[k].expires)
      BY <3>1 DEF CacheInv, EntriesGenuine
    <3> QED
      BY <1>4, <3>1, <3>2 DEF Genuine
  <2> QED
    BY <2>1, <2>2
<1>14. LogGenuine'
  BY <1>4, LogKept
<1>15. RevokedIsPast'
  BY <1>2, <1>4, <1>7 DEF CacheInv, RevokedIsPast, Revoked
<1>16. RevokedIsGone'
  <2> SUFFICES ASSUME NEW k \in Keys, entries'[k].state = "resolved"
               PROVE  /\ ~(<<entries'[k].id, "id">> \in revoked')
                      /\ orderly' => ~(<<entries'[k].id, "rule">> \in revoked')
    BY DEF RevokedIsGone, Revoked
  <2>1. CASE k = k0
    BY <2>1, <1>3, <1>4, <1>5, <1>8 DEF CacheInv, RevokedIsPast, Revoked
  <2>2. CASE k # k0
    BY <2>2, <1>4, <1>8 DEF CacheInv, RevokedIsGone, Revoked
  <2> QED
    BY <2>1, <2>2
<1>17. SweepAlone'
  BY <1>2, <1>4, <1>7 DEF CacheInv, SweepAlone, InFlight
<1>18. IndexedFirst'
  BY <1>2, <1>4, <1>7 DEF CacheInv, IndexedFirst
<1>19. RuleIndexComplete'
  <2> SUFFICES ASSUME orderly, NEW k \in Keys, entries'[k].state = "resolved",
                      NEW r \in decided[entries'[k].id].rules
               PROVE  \/ k \in ruleIndex[r]
                      \/ sweep.on /\ sweep.rule = r /\ k \in sweep.keys
    BY <1>4 DEF RuleIndexComplete
  <2>1. CASE k = k0
    BY <2>1, <1>3, <1>5, <1>8 DEF CacheInv, IndexedFirst
  <2>2. CASE k # k0
    BY <2>2, <1>8 DEF CacheInv, RuleIndexComplete
  <2> QED
    BY <2>1, <2>2
<1> QED
  BY <1>10, <1>11, <1>12, <1>13, <1>14, <1>15, <1>16, <1>17, <1>18, <1>19 DEF CacheInv

LEMMA IndexRulesKeeps ==
  ASSUME CacheInv, NEW e \in Evals, IndexRules(e)
  PROVE  CacheInv'
<1> DEFINE k0 == ev[e].key
           v == [ev[e] EXCEPT !.pc = "insert", !.expires = now + TTL[k0]]
           d == [made |-> TRUE, key |-> k0, outcome |-> ev[e].outcome, at |-> now,
                 rules |-> ev[e].rules]
<1>1. /\ ev[e] \in EvalSet /\ k0 \in Keys /\ TypeOK /\ now \in Nat
      /\ ev[e].outcome \in Outcomes /\ ev[e].rules \in SUBSET Rules /\ TTL[k0] \in Nat
  BY EvalFields, KeyAssumption DEF CacheInv, TypeOK
<1>2. /\ v \in EvalSet /\ v.pc = "insert" /\ v.key = k0 /\ v.outcome = ev[e].outcome
      /\ v.expires = now + TTL[k0] /\ v.rules = ev[e].rules
  <2> DEFINE x == now + TTL[k0]
  <2>1. x \in Nat
    BY <1>1
  <2> HIDE DEF x
  <2>2. /\ [ev[e] EXCEPT !.pc = "insert", !.expires = x] \in EvalSet
        /\ [ev[e] EXCEPT !.pc = "insert", !.expires = x].pc = "insert"
        /\ [ev[e] EXCEPT !.pc = "insert", !.expires = x].key = k0
        /\ [ev[e] EXCEPT !.pc = "insert", !.expires = x].outcome = ev[e].outcome
        /\ [ev[e] EXCEPT !.pc = "insert", !.expires = x].expires = x
        /\ [ev[e] EXCEPT !.pc = "insert", !.expires = x].rules = ev[e].rules
    BY <1>1, <2>1 DEF EvalSet
  <2> QED
    BY <2>2 DEF x
<1>3. ev[e].pc = "write" /\ Cacheable(k0, ev[e].outcome) /\ ev' = [ev EXCEPT ![e] = v]
  BY <1>1 DEF IndexRules, TypeOK
<1>4. UNCHANGED <<entries, sweep, log, now, revoked, overkill, orderly>>
  BY DEF IndexRules
<1>5. /\ d \in DecidedSet /\ d.made /\ d.key = k0 /\ d.outcome = ev[e].outcome
      /\ d.at = now /\ d.rules = ev[e].rules
  BY <1>1 DEF DecidedSet
<1>6. decided' = [decided EXCEPT ![e] = d]
  BY DEF IndexRules
<1> HIDE DEF v, d
<1>7. ev' \in [Evals -> EvalSet] /\ ev'[e] = v /\ \A f \in Evals \ {e} : ev'[f] = ev[f]
  BY <1>1, <1>2, <1>3, EvalUpdated
<1>8. /\ decided' \in [Evals -> DecidedSet] /\ decided'[e] = d
      /\ \A f \in Evals \ {e} : decided'[f] = decided[f]
  BY <1>1, <1>5, <1>6 DEF TypeOK
<1>9. /\ ruleIndex' \in [Rules -> SUBSET Keys]
      /\ \A r \in Rules : ruleIndex[r] \subseteq ruleIndex'[r]
      /\ \A r \in ev[e].rules : k0 \in ruleIndex'[r]
  BY <1>1 DEF IndexRules, TypeOK
<1>10. ~decided[e].made
  BY <1>3 DEF CacheInv, EvalKnows
<1>11. TypeOK'
  BY <1>1, <1>4, <1>7, <1>8, <1>9 DEF TypeOK
<1>12. PendingHasOwner'
  BY <1>1, <1>2, <1>3, <1>4, <1>7, EntryFields DEF CacheInv, PendingHasOwner
<1>13. EvalKnows'
  <2> SUFFICES ASSUME NEW f \in Evals
               PROVE  /\ ev'[f].pc \in Fresh => ~decided'[f].made
                      /\ ev'[f].pc \in {"insert", "persist"} =>
                           /\ Genuine(f, ev[f].key, ev[f].outcome, ev[f].expires)'
                           /\ decided'[f].rules = ev'[f].rules
    BY DEF EvalKnows, Fresh
  <2>1. CASE f = e
    BY <2>1, <1>2, <1>3, <1>5, <1>7, <1>8 DEF Genuine, Fresh
  <2>2. CASE f # e
    BY <2>2, <1>7, <1>8 DEF CacheInv, EvalKnows, Genuine, Fresh
  <2> QED
    BY <2>1, <2>2
<1>14. \A k \in Keys : entries[k].state = "resolved" =>
          entries[k].id \in Evals /\ decided'[entries[k].id] = decided[entries[k].id]
  BY <1>1, <1>8, <1>10, EntryFields DEF CacheInv, EntriesGenuine, Genuine
<1>15. EntriesGenuine'
  <2> SUFFICES ASSUME NEW k \in Keys, entries[k].state = "resolved"
               PROVE  Genuine(entries[k].id, k, entries[k].outcome, entries[k].expires)'
    BY <1>4 DEF EntriesGenuine
  <2>1. Genuine(entries[k].id, k, entries[k].outcome, entries[k].expires)
    BY DEF CacheInv, EntriesGenuine
  <2> QED
    BY <1>4, <1>14, <2>1 DEF Genuine
<1>16. LogGenuine'
  <2> SUFFICES ASSUME NEW i \in DOMAIN log
               PROVE  Genuine(log[i].id, log[i].key, log[i].outcome, log[i].expires)'
    BY <1>4 DEF LogGenuine
  <2>1. Genuine(log[i].id, log[i].key, log[i].outcome, log[i].expires)
    BY DEF CacheInv, LogGenuine
  <2>2. log[i].id \in Evals
    <3>1. log[i] \in RecordSet
      BY <1>1 DEF TypeOK
    <3> QED
      BY <3>1 DEF RecordSet
  <2>3. decided'[log[i].id] = decided[log[i].id]
    BY <1>8, <1>10, <2>1, <2>2 DEF Genuine
  <2> QED
    BY <1>4, <2>1, <2>3 DEF Genuine
<1>17. RevokedIsPast'
  BY <1>3, <1>4, <1>7 DEF CacheInv, RevokedIsPast, Revoked
<1>18. RevokedIsGone'
  BY <1>4 DEF CacheInv, RevokedIsGone, Revoked
<1>19. SweepAlone'
  BY <1>3, <1>4 DEF CacheInv, SweepAlone, InFlight
<1>20. IndexedFirst'
  <2> SUFFICES ASSUME orderly, NEW f \in Evals, ev'[f].pc = "insert",
                      NEW r \in decided'[f].rules
               PROVE  ev'[f].key \in ruleIndex'[r]
    BY <1>4 DEF IndexedFirst
  <2>1. CASE f = e
    BY <2>1, <1>2, <1>5, <1>7, <1>8, <1>9
  <2>2. CASE f # e
    <3>1. ev'[f] = ev[f] /\ decided'[f] = decided[f] /\ r \in Rules
      BY <2>2, <1>1, <1>7, <1>8 DEF TypeOK, DecidedSet
    <3> QED
      BY <1>9, <3>1 DEF CacheInv, IndexedFirst
  <2> QED
    BY <2>1, <2>2
<1>21. RuleIndexComplete'
  <2> SUFFICES ASSUME orderly, NEW k \in Keys, entries[k].state = "resolved",
                      NEW r \in decided'[entries[k].id].rules
               PROVE  \/ k \in ruleIndex'[r]
                      \/ sweep.on /\ sweep.rule = r /\ k \in sweep.keys
    BY <1>4 DEF RuleIndexComplete
  <2>1. r \in decided[entries[k].id].rules /\ r \in Rules
    BY <1>1, <1>14 DEF TypeOK, DecidedSet
  <2> QED
    BY <1>9, <2>1 DEF CacheInv, RuleIndexComplete
<1> QED
  BY <1>11, <1>12, <1>13, <1>15, <1>16, <1>17, <1>18, <1>19, <1>20, <1>21 DEF CacheInv

\* A step that moves no evaluation and leaves the rules alone.
LEMMA RestKept ==
  ASSUME CacheInv, UNCHANGED <<ruleIndex, ev, sweep, decided, orderly>>
  PROVE  EvalKnows' /\ SweepAlone' /\ IndexedFirst'
BY DEF CacheInv, EvalKnows, Genuine, SweepAlone, InFlight, IndexedFirst

LEMMA InvalidateByIdKeeps ==
  ASSUME CacheInv, NEW d \in Evals, InvalidateById(d)
  PROVE  CacheInv'
<1>1. /\ UNCHANGED <<ruleIndex, ev, sweep, log, now, decided, overkill, orderly>>
      /\ ev[d].pc \in {"persist", "done"} /\ revoked' = revoked \cup {<<d, "id">>}
  BY DEF InvalidateById
<1>2. Pruned /\ \A k \in Keys : entries'[k].id # d
  BY WithoutPrunes DEF InvalidateById
<1>3. TypeOK'
  BY <1>1, <1>2 DEF CacheInv, TypeOK, Pruned, Ways
<1>4. RevokedIsPast'
  BY <1>1 DEF CacheInv, RevokedIsPast, Revoked
<1>5. RevokedIsGone'
  <2> SUFFICES ASSUME NEW k \in Keys, entries'[k].state = "resolved"
               PROVE  /\ ~(<<entries'[k].id, "id">> \in revoked')
                      /\ orderly => ~(<<entries'[k].id, "rule">> \in revoked')
    BY <1>1 DEF RevokedIsGone, Revoked
  <2>1. entries'[k] = entries[k] /\ entries[k].id # d
    BY <1>2, PrunedResolvesNothing DEF NothingResolved
  <2> QED
    BY <1>1, <2>1 DEF CacheInv, RevokedIsGone, Revoked
<1>6. EntriesGenuine' /\ RuleIndexComplete' /\ PendingHasOwner'
  BY <1>1, <1>2, PrunedResolvesNothing, ResolvedKeep, PrunedOwners
<1> QED
  BY <1>1, <1>3, <1>4, <1>5, <1>6, LogKept, RestKept DEF CacheInv

LEMMA InvalidateByScopeKeeps ==
  ASSUME CacheInv, NEW s \in Scopes, NEW kinds, InvalidateByScope(s, kinds)
  PROVE  CacheInv'
<1>1. UNCHANGED <<ruleIndex, ev, sweep, log, now, decided, revoked, overkill, orderly>>
  BY DEF InvalidateByScope, HistoryUnchanged
<1>2. Pruned
  BY EntryTyped DEF InvalidateByScope, CacheInv, TypeOK, Pruned
<1>3. TypeOK'
  BY <1>1, <1>2 DEF CacheInv, TypeOK, Pruned
<1>4. RevokedIsPast'
  BY <1>1 DEF CacheInv, RevokedIsPast, Revoked
<1>5. /\ EntriesGenuine' /\ RuleIndexComplete' /\ PendingHasOwner' /\ RevokedIsGone'
  BY <1>1, <1>2, PrunedResolvesNothing, ResolvedKeep, ResolvedUnrevoked, PrunedOwners
<1> QED
  BY <1>1, <1>3, <1>4, <1>5, LogKept, RestKept DEF CacheInv

LEMMA TickKeeps ==
  ASSUME CacheInv, Tick
  PROVE  CacheInv'
<1>1. /\ UNCHANGED <<entries, ruleIndex, ev, sweep, log, decided, revoked, overkill, orderly>>
      /\ now' = now + 1
  BY DEF Tick, HistoryUnchanged
<1>2. TypeOK'
  BY <1>1 DEF CacheInv, TypeOK
<1>3. /\ PendingHasOwner' /\ EntriesGenuine' /\ RevokedIsPast' /\ RevokedIsGone'
      /\ RuleIndexComplete'
  BY <1>1 DEF CacheInv, PendingHasOwner, EntriesGenuine, Genuine, RevokedIsPast,
              RevokedIsGone, Revoked, RuleIndexComplete
<1> QED
  BY <1>1, <1>2, <1>3, LogKept, RestKept DEF CacheInv

LEMMA TakeRuleKeeps ==
  ASSUME CacheInv, NEW r \in Rules, TakeRule(r)
  PROVE  CacheInv'
<1>1. /\ UNCHANGED <<entries, ev, log, now, decided, revoked, overkill>>
      /\ ~sweep.on /\ sweep' = [on |-> TRUE, rule |-> r, keys |-> ruleIndex[r]]
      /\ orderly' = (orderly /\ \A e \in Evals : ~InFlight(e))
  BY DEF TakeRule
<1>2. TypeOK
  BY DEF CacheInv
<1>3. /\ ruleIndex' \in [Rules -> SUBSET Keys] /\ ruleIndex'[r] = {}
      /\ \A q \in Rules \ {r} : ruleIndex'[q] = ruleIndex[q]
  BY <1>2 DEF TakeRule, TypeOK
<1>4. sweep' \in SweepSet /\ orderly' \in BOOLEAN
  BY <1>1, <1>2 DEF TypeOK, SweepSet
<1>5. TypeOK'
  BY <1>1, <1>2, <1>3, <1>4 DEF TypeOK
<1>6. EvalKnows' /\ EntriesGenuine' /\ PendingHasOwner' /\ RevokedIsPast' /\ RevokedIsGone'
  BY <1>1 DEF CacheInv, EvalKnows, EntriesGenuine, Genuine, PendingHasOwner, RevokedIsPast,
              RevokedIsGone, Revoked
<1>7. SweepAlone' /\ IndexedFirst'
  BY <1>1, <1>3 DEF SweepAlone, IndexedFirst, InFlight
<1>8. RuleIndexComplete'
  <2> SUFFICES ASSUME orderly', NEW k \in Keys, entries[k].state = "resolved",
                      NEW q \in decided[entries[k].id].rules
               PROVE  \/ k \in ruleIndex'[q]
                      \/ sweep'.on /\ sweep'.rule = q /\ k \in sweep'.keys
    BY <1>1 DEF RuleIndexComplete
  <2>1. k \in ruleIndex[q]
    BY <1>1 DEF CacheInv, RuleIndexComplete
  <2>2. q \in Rules
    <3>1. decided[entries[k].id] \in DecidedSet
      BY <1>2, EntryFields DEF TypeOK
    <3> QED
      BY <3>1 DEF DecidedSet
  <2> QED
    BY <1>1, <1>3, <2>1, <2>2
<1> QED
  BY <1>1, <1>5, <1>6, <1>7, <1>8, LogKept DEF CacheInv

LEMMA SweepEntriesKeeps ==
  ASSUME CacheInv, SweepEntries
  PROVE  CacheInv'
<1> DEFINE hit == {d \in Evals : RestsOn(d, sweep.rule)}
<1>1. /\ UNCHANGED <<ruleIndex, ev, log, now, decided, orderly>> /\ sweep.on
      /\ sweep' = NoSweep /\ revoked' = revoked \cup (hit \X {"rule"})
  BY DEF SweepEntries
<1>2. TypeOK
  BY DEF CacheInv
<1>3. Pruned /\ \A k \in Keys : k \in sweep.keys => entries'[k] = NoEntry
  BY <1>2, EntryTyped DEF SweepEntries, TypeOK, Pruned
<1>4. sweep' \in SweepSet /\ ~sweep'.on
  BY <1>1, InitialTyped
<1>5. revoked' \subseteq Evals \X Ways
  BY <1>1, <1>2 DEF TypeOK, Ways
<1>6. overkill' \in BOOLEAN
  BY <1>2 DEF SweepEntries, TypeOK
<1>7. TypeOK'
  BY <1>1, <1>2, <1>3, <1>4, <1>5, <1>6 DEF TypeOK, Pruned
<1>8. \A d \in Evals : <<d, "id">> \in revoked' => <<d, "id">> \in revoked
  BY <1>1
<1>9. \A d \in Evals : <<d, "rule">> \in revoked' => <<d, "rule">> \in revoked \/ d \in hit
  BY <1>1
<1>10. PendingHasOwner'
  BY <1>1, <1>3, PrunedOwners
<1>11. EvalKnows' /\ IndexedFirst' /\ SweepAlone'
  BY <1>1, <1>4 DEF CacheInv, EvalKnows, Genuine, IndexedFirst, SweepAlone
<1>12. EntriesGenuine'
  <2> SUFFICES ASSUME NEW k \in Keys, entries'[k].state = "resolved"
               PROVE  Genuine(entries[k].id, k, entries[k].outcome, entries[k].expires)'
    BY DEF EntriesGenuine
  <2>1. entries'[k] = entries[k]
    BY <1>3, PrunedResolvesNothing DEF NothingResolved
  <2>2. Genuine(entries[k].id, k, entries[k].outcome, entries[k].expires)
    BY <2>1 DEF CacheInv, EntriesGenuine
  <2> QED
    BY <1>1, <2>1, <2>2 DEF Genuine
<1>13. RevokedIsPast'
  <2> SUFFICES ASSUME NEW d \in Evals,
                      \/ <<d, "id">> \in revoked'
                      \/ orderly /\ <<d, "rule">> \in revoked'
               PROVE  ev[d].pc \in {"persist", "done"}
    BY <1>1 DEF RevokedIsPast, Revoked
  <2>1. CASE <<d, "id">> \in revoked \/ (orderly /\ <<d, "rule">> \in revoked)
    BY <2>1 DEF CacheInv, RevokedIsPast, Revoked
  <2>2. CASE orderly /\ d \in hit
    <3>1. decided[d].made
      BY <2>2 DEF RestsOn
    <3>2. ~InFlight(d)
      BY <1>1, <2>2 DEF CacheInv, SweepAlone
    <3> QED
      BY <1>2, <3>1, <3>2, EvalFields DEF CacheInv, EvalKnows, InFlight
  <2> QED
    BY <1>8, <1>9, <2>1, <2>2
\* What rests on the rule and is cached was taken from the index.
<1>14. ASSUME NEW k \in Keys, entries'[k].state = "resolved", orderly
       PROVE  /\ entries'[k] = entries[k] /\ entries[k].id \in Evals
              /\ sweep.rule \notin decided[entries[k].id].rules
  <2>1. entries'[k] = entries[k] /\ k \notin sweep.keys
    BY <1>3, <1>14, EntryTyped, PrunedResolvesNothing DEF NothingResolved
  <2>2. ruleIndex[sweep.rule] = {}
    BY <1>1, <1>14 DEF CacheInv, SweepAlone
  <2>3. sweep.rule \notin decided[entries[k].id].rules
    BY <1>14, <2>1, <2>2 DEF CacheInv, RuleIndexComplete
  <2> QED
    BY <1>2, <1>14, <2>1, <2>3, EntryFields
<1>15. RevokedIsGone'
  <2> SUFFICES ASSUME NEW k \in Keys, entries'[k].state = "resolved"
               PROVE  /\ ~(<<entries'[k].id, "id">> \in revoked')
                      /\ orderly => ~(<<entries'[k].id, "rule">> \in revoked')
    BY <1>1 DEF RevokedIsGone, Revoked
  <2>1. entries'[k] = entries[k] /\ entries[k].id \in Evals
    BY <1>2, <1>3, PrunedResolvesNothing, EntryFields DEF NothingResolved
  <2>2. ~(<<entries[k].id, "id">> \in revoked')
    BY <1>8, <2>1 DEF CacheInv, RevokedIsGone, Revoked
  <2>3. ASSUME orderly
        PROVE  ~(<<entries[k].id, "rule">> \in revoked')
    <3>1. entries[k].id \notin hit
      BY <1>14, <2>1, <2>3 DEF RestsOn
    <3> QED
      BY <1>9, <2>1, <2>3, <3>1 DEF CacheInv, RevokedIsGone, Revoked
  <2> QED
    BY <2>1, <2>2, <2>3
<1>16. RuleIndexComplete'
  <2> SUFFICES ASSUME orderly, NEW k \in Keys, entries'[k].state = "resolved",
                      NEW q \in decided[entries'[k].id].rules
               PROVE  k \in ruleIndex[q]
    BY <1>1 DEF RuleIndexComplete
  <2> QED
    BY <1>14 DEF CacheInv, RuleIndexComplete
<1> QED
  BY <1>1, <1>7, <1>10, <1>11, <1>12, <1>13, <1>15, <1>16, LogKept DEF CacheInv

LEMMA RestartKeeps ==
  ASSUME CacheInv, Restart
  PROVE  CacheInv'
<1> DEFINE idle == [NewEval EXCEPT !.pc = "done"]
<1>1. /\ UNCHANGED <<log, now, decided, overkill>> /\ sweep' = NoSweep /\ ~orderly'
      /\ orderly' \in BOOLEAN /\ revoked' = {r[1] : r \in revoked} \X {"earlier"}
      /\ \A k \in Keys : entries'[k] = Seeded(k)
  BY DEF Restart
<1>2. TypeOK
  BY DEF CacheInv
<1>3. /\ ev' \in [Evals -> EvalSet]
      /\ \A e \in Evals : (ev'[e] = ev[e] /\ ev[e].pc = "new") \/ ev'[e].pc = "done"
  <2>1. idle \in EvalSet /\ idle.pc = "done"
    BY NewEvalTyped
  <2>2. ev' = [e \in Evals |-> IF ev[e].pc = "new" THEN ev[e] ELSE idle]
    BY DEF Restart
  <2> HIDE DEF idle
  <2> QED
    BY <1>2, <2>1, <2>2, EvalFields
<1>4. entries' \in [Keys -> EntrySet]
  BY <1>2, SeededTyped DEF Restart
<1>5. ruleIndex' \in [Rules -> SUBSET Keys]
  BY DEF Restart
<1>6. revoked' \subseteq Evals \X Ways
  <2>1. \A r \in revoked : r[1] \in Evals
    BY <1>2 DEF TypeOK
  <2> QED
    BY <1>1, <2>1 DEF Ways
<1>7. TypeOK'
  BY <1>1, <1>2, <1>3, <1>4, <1>5, <1>6, InitialTyped DEF TypeOK
\* What is seeded is a live decision of the log, and those are genuine.
<1>8. ASSUME NEW k \in Keys
      PROVE  \/ entries'[k].state = "absent"
             \/ /\ entries'[k].state = "resolved"
                /\ Genuine(entries'[k].id, k, entries'[k].outcome, entries'[k].expires)
  <2>1. CASE Seeded(k) = NoEntry
    BY <1>1, <2>1, EntryTyped
  <2>2. ASSUME NEW i \in DOMAIN log, Live(i, k),
               Seeded(k) = [state |-> "resolved", id |-> log[i].id,
                            outcome |-> log[i].outcome, expires |-> log[i].expires,
                            created |-> 0]
        PROVE  /\ entries'[k].state = "resolved"
               /\ Genuine(entries'[k].id, k, entries'[k].outcome, entries'[k].expires)
    <3>1. Genuine(log[i].id, log[i].key, log[i].outcome, log[i].expires) /\ log[i].key = k
      BY <2>2 DEF CacheInv, LogGenuine, Live
    <3>2. /\ entries'[k].state = "resolved" /\ entries'[k].id = log[i].id
          /\ entries'[k].outcome = log[i].outcome /\ entries'[k].expires = log[i].expires
      BY <1>1, <2>2
    <3> QED
      BY <3>1, <3>2
  <2> QED
    BY <1>2, <2>1, <2>2, SeededFromLog
<1>9. PendingHasOwner'
  BY <1>8 DEF PendingHasOwner
<1>10. EntriesGenuine'
  <2> SUFFICES ASSUME NEW k \in Keys, entries'[k].state = "resolved"
               PROVE  Genuine(entries[k].id, k, entries[k].outcome, entries[k].expires)'
    BY DEF EntriesGenuine
  <2>1. Genuine(entries'[k].id, k, entries'[k].outcome, entries'[k].expires)
    BY <1>8
  <2> QED
    BY <1>1, <2>1 DEF Genuine
<1>11. EvalKnows'
  BY <1>1, <1>3 DEF CacheInv, EvalKnows, Genuine
<1>12. RevokedIsPast' /\ RevokedIsGone'
  BY <1>1 DEF RevokedIsPast, RevokedIsGone, Revoked
<1>13. SweepAlone' /\ IndexedFirst' /\ RuleIndexComplete'
  BY <1>1 DEF SweepAlone, IndexedFirst, RuleIndexComplete
<1> QED
  BY <1>1, <1>7, <1>9, <1>10, <1>11, <1>12, <1>13, LogKept DEF CacheInv

LEMMA CacheInvStarts == Init => CacheInv
<1> SUFFICES ASSUME Init PROVE CacheInv
  OBVIOUS
<1>1. /\ \A k \in Keys : entries[k] = NoEntry /\ entries[k].state = "absent"
      /\ \A e \in Evals : ev[e].pc = "new" /\ ~decided[e].made
      /\ revoked = {} /\ ~sweep.on /\ log = <<>>
  BY EntryTyped, NewEvalTyped, InitialTyped DEF Init
<1>2. TypeOK
  <2>1. entries \in [Keys -> EntrySet] /\ ruleIndex \in [Rules -> SUBSET Keys]
    BY EntryTyped DEF Init
  <2>2. ev \in [Evals -> EvalSet] /\ decided \in [Evals -> DecidedSet] /\ sweep \in SweepSet
    BY NewEvalTyped, InitialTyped DEF Init
  <2>3. log \in Seq(RecordSet) /\ now \in Nat /\ revoked \subseteq Evals \X Ways
    BY DEF Init
  <2> QED
    BY <2>1, <2>2, <2>3 DEF Init, TypeOK
<1> QED
  BY <1>1, <1>2 DEF CacheInv, PendingHasOwner, EvalKnows, EntriesGenuine, LogGenuine,
     RevokedIsPast, RevokedIsGone, Revoked, SweepAlone, IndexedFirst, RuleIndexComplete

LEMMA CacheInvKept == CacheInv /\ [Next]_vars => CacheInv'
<1> SUFFICES ASSUME CacheInv, [Next]_vars PROVE CacheInv'
  OBVIOUS
<1>1. ASSUME NEW e \in Evals, NEW k \in Keys, Begin(e, k) PROVE CacheInv'
  BY <1>1, BeginKeeps
<1>2. ASSUME NEW e \in Evals, EvalStep(e) PROVE CacheInv'
  <2>1. CASE CheckDenies(e)
    BY <2>1, CheckDeniesKeeps
  <2>2. CASE \E rules \in SUBSET Rules, v \in {"allow", "deny", "escalate"} :
               Guardrail(e, rules, v)
    BY <2>2, GuardrailKeeps
  <2>3. CASE LookupHit(e)
    BY <2>3, LookupHitKeeps
  <2>4. CASE LookupMiss(e)
    BY <2>4, LookupMissKeeps
  <2>5. CASE InstallPending(e)
    BY <2>5, InstallPendingKeeps
  <2>6. CASE \E o \in Outcomes : Resolve(e, o)
    BY <2>6, ResolveKeeps
  <2>7. CASE IndexRules(e)
    BY <2>7, IndexRulesKeeps
  <2>8. CASE InsertResolved(e)
    BY <2>8, InsertResolvedKeeps
  <2>9. CASE SkipCacheWrite(e)
    BY <2>9, SkipCacheWriteKeeps
  <2>10. CASE Persist(e)
    BY <2>10, PersistKeeps
  <2> QED
    BY <1>2, <2>1, <2>2, <2>3, <2>4, <2>5, <2>6, <2>7, <2>8, <2>9, <2>10 DEF EvalStep
<1>3. ASSUME NEW d \in Evals, InvalidateById(d) PROVE CacheInv'
  BY <1>3, InvalidateByIdKeeps
<1>4. ASSUME NEW r \in Rules, TakeRule(r) PROVE CacheInv'
  BY <1>4, TakeRuleKeeps
<1>5. CASE SweepEntries
  BY <1>5, SweepEntriesKeeps
<1>6. ASSUME NEW s \in Scopes, NEW kinds \in KindFilters, InvalidateByScope(s, kinds)
      PROVE  CacheInv'
  BY <1>6, InvalidateByScopeKeeps
<1>7. CASE Tick
  BY <1>7, TickKeeps
<1>8. CASE Restart
  BY <1>8, RestartKeeps
<1>9. CASE UNCHANGED vars
  BY <1>9 DEF vars, CacheInv, TypeOK, PendingHasOwner, EvalKnows, EntriesGenuine,
     LogGenuine, Genuine, RevokedIsPast, RevokedIsGone, Revoked, SweepAlone, InFlight,
     IndexedFirst, RuleIndexComplete
<1> QED
  BY <1>1, <1>2, <1>3, <1>4, <1>5, <1>6, <1>7, <1>8, <1>9 DEF Next

LEMMA CacheInvAlways == Spec => []CacheInv
<1> QED
  BY CacheInvStarts, CacheInvKept, PTL DEF Spec

-----------------------------------------------------------------------------
(* Theorems.                                                               *)

\* The state of the cache, the pipeline and the log is well typed in every
\* reachable state; in particular a resolved entry always has an outcome, so
\* that the lookup never falls back on its default, an approval.
THEOREM CacheTypeCorrect == Spec => []TypeOK
<1>1. CacheInv => TypeOK
  BY DEF CacheInv
<1> QED
  BY <1>1, CacheInvAlways, PTL

\* Step 7 of evaluate replaces or removes the pending entry its evaluation
\* installed, for any number of evaluations of the key racing for the entry.
THEOREM PendingNeverStranded == Spec => []PendingHasOwner
<1>1. CacheInv => PendingHasOwner
  BY DEF CacheInv
<1> QED
  BY <1>1, CacheInvAlways, PTL

\* A decision revoked by id is not in the cache again before a restart; one
\* revoked through a rule is not, unless an invalidation by rule overlapped an
\* evaluation.
THEOREM RevocationHolds == Spec => []RevokedIsGone
<1>1. CacheInv => RevokedIsGone
  BY DEF CacheInv
<1> QED
  BY <1>1, CacheInvAlways, PTL

\* promote_to_resolved notes the rules before it inserts the entry, so the rule
\* index reaches every cached decision as long as no invalidation by rule
\* overlaps an evaluation.
THEOREM IndexReachesCached == Spec => []RuleIndexComplete
<1>1. CacheInv => RuleIndexComplete
  BY DEF CacheInv
<1> QED
  BY <1>1, CacheInvAlways, PTL

\* Only a cache hit answers with an earlier decision.
LEMMA OnlyHitsReuse ==
  ASSUME CacheInv, [Next]_vars, NEW e \in Evals, ev[e].from = NoEval, ev'[e].from # NoEval
  PROVE  LookupHit(e)
<1>0. ev[e] \in EvalSet /\ ev \in [Evals -> EvalSet]
  BY EvalFields DEF CacheInv, TypeOK
<1>1. ASSUME NEW f \in Evals, NEW k \in Keys, Begin(f, k) PROVE FALSE
  BY <1>0, <1>1 DEF Begin
<1>2. ASSUME NEW f \in Evals, Return(f) PROVE FALSE
  BY <1>0, <1>2, NewEvalTyped DEF Return
<1>3. ASSUME NEW f \in Evals, NEW pc, Move(f, pc) PROVE FALSE
  BY <1>0, <1>3 DEF Move, EvalSet
<1>4. ASSUME NEW f \in Evals, EvalStep(f) PROVE LookupHit(e)
  <2>1. CASE CheckDenies(f)
    BY <1>2, <2>1 DEF CheckDenies
  <2>2. ASSUME NEW rules \in SUBSET Rules, NEW v, Guardrail(f, rules, v) PROVE FALSE
    BY <1>0, <1>2, <2>2 DEF Guardrail, EvalSet
  <2>3. CASE LookupHit(f)
    BY <1>0, <2>3 DEF LookupHit
  <2>4. CASE LookupMiss(f) \/ InsertResolved(f)
    BY <1>3, <2>4 DEF LookupMiss, InsertResolved
  <2>5. CASE InstallPending(f)
    BY <1>0, <1>3, <2>5 DEF InstallPending, EvalSet
  <2>6. ASSUME NEW o \in Outcomes, Resolve(f, o) PROVE FALSE
    BY <1>0, <2>6 DEF Resolve, EvalSet
  <2>7. CASE IndexRules(f)
    BY <1>0, <2>7 DEF IndexRules, EvalSet
  <2>8. CASE SkipCacheWrite(f) \/ Persist(f)
    BY <1>2, <2>8 DEF SkipCacheWrite, Persist
  <2> QED
    BY <1>4, <2>1, <2>2, <2>3, <2>4, <2>5, <2>6, <2>7, <2>8 DEF EvalStep
<1>5. ASSUME UNCHANGED ev PROVE FALSE
  BY <1>5
<1>6. CASE Restart
  <2>1. ev'[e] = ev[e] \/ ev'[e] = [NewEval EXCEPT !.pc = "done"]
    BY <1>6 DEF Restart
  <2> QED
    BY <2>1, NewEvalTyped
<1>7. CASE \/ \E d \in Evals : InvalidateById(d)
           \/ \E r \in Rules : TakeRule(r)
           \/ SweepEntries
           \/ \E s \in Scopes, kinds \in KindFilters : InvalidateByScope(s, kinds)
           \/ Tick
           \/ UNCHANGED vars
  BY <1>5, <1>7 DEF InvalidateById, TakeRule, SweepEntries, InvalidateByScope, Tick, vars
<1> QED
  BY <1>1, <1>4, <1>6, <1>7 DEF Next

\* A cache hit repeats a decision some evaluation took for that very key, with
\* that outcome, within the ttl of its policy: whatever evaluations race for
\* the key, and also from entries the restart replayed from the log.
THEOREM CacheHitsAreGenuine == Spec => HitsAreGenuine
<1>1. ASSUME CacheInv, [Next]_vars,
             NEW e \in Evals, ev[e].from = NoEval, ev'[e].from # NoEval
      PROVE  GenuineHit(e)
  <2> DEFINE k == ev[e].key
  <2>1. LookupHit(e)
    BY <1>1, OnlyHitsReuse
  <2>2. k \in Keys /\ entries[k].state = "resolved" /\ now < entries[k].expires
    BY <1>1, <2>1, EvalFields DEF LookupHit, IsHit, CacheInv
  <2>3. entries[k].outcome \in Outcomes
    BY <1>1, <2>2, EntryFields DEF CacheInv
  <2>4. ev'[e].from = entries[k].id /\ ev'[e].outcome = entries[k].outcome
    <3>1. ev'[e] = [NewEval EXCEPT !.pc = "done", !.key = k, !.from = entries[k].id,
                      !.outcome = IF entries[k].outcome = "none" THEN "allowed"
                                  ELSE entries[k].outcome]
      BY <1>1, <2>1 DEF LookupHit, CacheInv, TypeOK
    <3> QED
      BY <2>3, <3>1 DEF NewEval, Outcomes
  <2>5. Genuine(entries[k].id, k, entries[k].outcome, entries[k].expires)
    BY <1>1, <2>2 DEF CacheInv, EntriesGenuine
  <2> QED
    BY <2>2, <2>4, <2>5 DEF Genuine, GenuineHit
<1>2. CacheInv /\ [Next]_vars =>
        [\A e \in Evals : ev[e].from = NoEval /\ ev'[e].from # NoEval => GenuineHit(e)]_vars
  BY <1>1
<1> QED
  BY <1>2, CacheInvAlways, PTL DEF Spec, HitsAreGenuine
=============================================================================
