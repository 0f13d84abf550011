----------------------------- MODULE TriggerFire -----------------------------
(***************************************************************************)
(* Triggers of one project: the in-memory TriggerService of cairn-runtime  *)
(* (trigger_service.rs), the signal handler of cairn-app that previews,    *)
(* decides, fires, persists and materialises runs (handlers/signals.rs),   *)
(* the operator handlers that change triggers and templates                *)
(* (trigger_routes.rs), and the replay of the event log at startup         *)
(* (AppState::replay_triggers).                                            *)
(*                                                                         *)
(* The service is behind one mutex.  Decisions, appends and the creation   *)
(* of runs are awaited outside it.  TriggerSkipped, TriggerRateLimited and *)
(* TriggerDenied events carry no state and are left out of the log.        *)
(***************************************************************************)
EXTENDS Naturals, Sequences, FiniteSets

CONSTANTS
  Triggers, Templates, Signals,
  NoSignal,
  TemplateOf,    \* TemplateOf[t]: run_template_id
  Rank,          \* Rank[t]: the place of t's id among the sorted ids
  Matches,       \* pairs <<t, s>>: the signal pattern of t matches s
  Accepts,       \* pairs: the conditions and the chain depth let t fire
  HasFields,     \* pairs: s has the required fields of t's template
  MaxPerMinute,  \* rate_limit.max_per_minute
  Budget,        \* default_project_budget
  Minute, Hour,  \* the two rolling windows
  Deliveries,    \* deliveries of signals, each one call of the handler
  Operators,     \* operator requests
  NoDelivery,
  Boot,          \* the event log at the first startup
  BootTime,      \* and the time then
  Env,           \* what else happens, see below
  MaxTime        \* bound on the clock

(***************************************************************************)
(* Env is a subset of                                                      *)
(*   "overlap"  requests are served while others are under way             *)
(*   "fail"     appends of trigger events fail                             *)
(*   "norun"    the creation of a run fails                                *)
(*   "restart"  the process restarts                                       *)
(***************************************************************************)
Kinds == {"template_created", "template_deleted", "trigger_created", "enabled",
          "disabled", "resumed", "deleted", "suspended", "fired"}

\* A persisted event; id is a trigger or, for the first two kinds, a template.
Event(kind, id) == [kind |-> kind, id |-> id, sig |-> NoSignal, at |-> 0]

Fired(t, s, at) == [kind |-> "fired", id |-> t, sig |-> s, at |-> at]

NoEvent == Event("enabled", NoSignal)

EventSet == [kind : Kinds, id : Triggers \cup Templates \cup {NoSignal},
             sig : Signals \cup {NoSignal}, at : Nat]

ASSUME TriggerAssumption ==
  /\ NoSignal \notin Signals /\ NoDelivery \notin Deliveries
  /\ TemplateOf \in [Triggers -> Templates]
  /\ Rank \in [Triggers -> Nat]
  /\ \A t, u \in Triggers : Rank[t] = Rank[u] => t = u
  /\ Matches \subseteq Triggers \X Signals
  /\ Accepts \subseteq Triggers \X Signals
  /\ HasFields \subseteq Triggers \X Signals
  /\ {MaxPerMinute, Budget, Minute, Hour, MaxTime} \subseteq Nat
  /\ BootTime \in Nat \ {0}
  /\ Boot \in Seq(EventSet)
  /\ \A i \in DOMAIN Boot : Boot[i].kind = "fired" =>
       Boot[i].id \in Triggers /\ Boot[i].sig \in Signals /\ Boot[i].at \in 1..BootTime
  /\ Env \subseteq {"overlap", "fail", "norun", "restart"}

VARIABLES
  trig,     \* TriggerService.triggers: the state of each trigger
  tmpl,     \* TriggerService.templates
  ledger,   \* TriggerService.fire_ledger
  counts,   \* TriggerService.fire_counts
  budget,   \* TriggerService.project_budgets
  lock,     \* the delivery that holds the mutex between two steps
  dl,       \* dl[d]: where delivery d stands, and its locals
  op,       \* op[o]: where operator request o stands, and its event
  log,      \* the event log
  cursor,   \* replay: the next event to apply, 0 when the process serves
  before,   \* history: the service's state before a restart, if its requests
            \* had come one at a time and their appends had succeeded
  runs,     \* history: the runs that were created
  now       \* the clock

service == <<trig, tmpl, ledger, counts, budget>>
vars == <<service, lock, dl, op, log, cursor, before, runs, now>>

NewDelivery == [pc |-> "new", sig |-> NoSignal, cand |-> {}, ok |-> {},
                over |-> {}, left |-> {}, at |-> 0, events |-> <<>>,
                pending |-> {}]

DeliverySet ==
  [pc : {"new", "decide", "wait", "evaluate", "append", "materialize", "done"},
   sig : Signals \cup {NoSignal}, cand : SUBSET Triggers, ok : SUBSET Triggers,
   over : SUBSET Triggers, left : SUBSET Triggers, at : Nat,
   events : Seq(EventSet), pending : SUBSET Triggers]

NewOp == [pc |-> "new", event |-> NoEvent]
OpSet == [pc : {"new", "append", "done"}, event : EventSet]

\* ok: since its start the process has served one request at a time and
\* appended their events.  on: the rest of the record is a snapshot.
NoSnapshot == [on |-> FALSE, ok |-> TRUE]

\* A step that spoils this, if bad.
Watch(bad) == before' = IF bad THEN [NoSnapshot EXCEPT !.ok = FALSE] ELSE before

Empty ==
  /\ trig' = [t \in Triggers |-> "none"]
  /\ tmpl' = [p \in Templates |-> "none"]
  /\ ledger' = {}
  /\ counts' = [t \in Triggers |-> <<>>]
  /\ budget' = <<>>

Init ==
  /\ trig = [t \in Triggers |-> "none"]
  /\ tmpl = [p \in Templates |-> "none"]
  /\ ledger = {}
  /\ counts = [t \in Triggers |-> <<>>]
  /\ budget = <<>>
  /\ lock = NoDelivery
  /\ dl = [d \in Deliveries |-> NewDelivery]
  /\ op = [o \in Operators |-> NewOp]
  /\ log = Boot
  /\ cursor = 1
  /\ before = NoSnapshot
  /\ runs = {}
  /\ now = BootTime

-----------------------------------------------------------------------------
(* pre_decision_status                                                     *)

\* Mutant: the window is one tick short.
RecentOffByOne(times, at, window) ==
  SelectSeq(times, LAMBDA ts : ts + window > at + 1)

\* The entries of a rolling window that ends at time at, entry by entry.
Recent(times, at, window) ==
  LET kept[i \in 0..Len(times)] ==
        IF i = 0 THEN <<>>
        ELSE IF times[i] + window > at THEN Append(kept[i - 1], times[i])
        ELSE kept[i - 1]
  IN kept[Len(times)]

\* Not in the ledger, conditions and chain depth satisfied, below the rate.
Eligible(t, s, at) ==
  /\ <<t, s>> \notin ledger
  /\ <<t, s>> \in Accepts
  /\ Len(Recent(counts[t], at, Minute)) < MaxPerMinute

\* Mutant: the budget is exceeded only when it is overdrawn.
BudgetOverdrawn(at) == Len(Recent(budget, at, Hour)) > Budget

BudgetExceeded(at) == Len(Recent(budget, at, Hour)) >= Budget

Ready(t, s, at) ==
  /\ Eligible(t, s, at)
  /\ ~BudgetExceeded(at)
  /\ tmpl[TemplateOf[t]] = "live"
  /\ <<t, s>> \in HasFields

\* matching_trigger_ids
Matching(s) == {t \in Triggers : trig[t] = "enabled" /\ <<t, s>> \in Matches}

-----------------------------------------------------------------------------
(* Delivery of a signal: ingest_signal_handler                             *)

Serving == cursor = 0
Idle == /\ \A d \in Deliveries : dl[d].pc \in {"new", "done"}
        /\ \A o \in Operators : op[o].pc \in {"new", "done"}

\* A request may start.
MayStart == Serving /\ ("overlap" \in Env \/ Idle)

\* The mutex is free.
Unlocked == Serving /\ lock = NoDelivery

\* decision_candidates_for_signal, under the mutex.
Preview(d, s) ==
  /\ MayStart /\ Unlocked
  /\ dl[d].pc = "new"
  /\ dl' = [dl EXCEPT ![d].pc = "decide", ![d].sig = s,
              ![d].cand = {t \in Matching(s) : Ready(t, s, now)},
              ![d].over = {t \in Matching(s) : Eligible(t, s, now)
                                                 /\ BudgetExceeded(now)}]
  /\ Watch(~Idle)
  /\ UNCHANGED <<service, lock, op, log, cursor, runs, now>>

\* trigger_decision_outcomes_for_signal: ok are the triggers approved.
Decide(d, ok) ==
  /\ dl[d].pc = "decide"
  /\ dl' = [dl EXCEPT ![d].pc = "wait", ![d].ok = ok]
  /\ UNCHANGED <<service, lock, op, log, cursor, before, runs, now>>

\* evaluate_signal_for_candidates takes the mutex, reads the clock and goes
\* through the prepared triggers that still match.
Acquire(d) ==
  /\ Unlocked
  /\ dl[d].pc = "wait"
  /\ lock' = d
  /\ dl' = [dl EXCEPT ![d].pc = "evaluate", ![d].at = now,
              ![d].left = Matching(dl[d].sig) \cap dl[d].cand]
  /\ UNCHANGED <<service, op, log, cursor, before, runs, now>>

\* The triggers are taken in the order of their ids.
IsNext(d, t) ==
  /\ dl[d].pc = "evaluate" /\ t \in dl[d].left
  /\ \A u \in dl[d].left : Rank[t] <= Rank[u]

\* Skipped, rate limited, without its template, or denied.
SkipOne(d, t) ==
  /\ IsNext(d, t)
  /\ ~(Eligible(t, dl[d].sig, dl[d].at) /\ BudgetExceeded(dl[d].at))
  /\ ~Ready(t, dl[d].sig, dl[d].at) \/ t \notin dl[d].ok
  /\ dl' = [dl EXCEPT ![d].left = @ \ {t}]
  /\ UNCHANGED <<service, lock, op, log, cursor, before, runs, now>>

\* Over budget: the trigger is suspended.
SuspendOne(d, t) ==
  /\ IsNext(d, t)
  /\ Eligible(t, dl[d].sig, dl[d].at) /\ BudgetExceeded(dl[d].at)
  /\ trig' = [trig EXCEPT ![t] = "suspended"]
  /\ dl' = [dl EXCEPT ![d].left = @ \ {t},
                      ![d].events = Append(@, Event("suspended", t))]
  /\ UNCHANGED <<tmpl, ledger, counts, budget, lock, op, log, cursor, before,
                 runs, now>>

\* The ledger, the two windows (pruned first), the event and the run to create.
RecordFire(t, s, at) ==
  /\ ledger' = ledger \cup {<<t, s>>}
  /\ counts' = [counts EXCEPT ![t] = Append(Recent(@, at, Minute), at)]
  /\ budget' = Append(Recent(budget, at, Hour), at)

FireOne(d, t) ==
  /\ IsNext(d, t)
  /\ Ready(t, dl[d].sig, dl[d].at) /\ t \in dl[d].ok
  /\ RecordFire(t, dl[d].sig, dl[d].at)
  /\ dl' = [dl EXCEPT ![d].left = @ \ {t}, ![d].pending = @ \cup {t},
              ![d].events = Append(@, Fired(t, dl[d].sig, dl[d].at))]
  /\ UNCHANGED <<trig, tmpl, lock, op, log, cursor, before, runs, now>>

Release(d) ==
  /\ dl[d].pc = "evaluate" /\ dl[d].left = {}
  /\ lock' = NoDelivery
  /\ dl' = [dl EXCEPT ![d].pc = "append"]
  /\ UNCHANGED <<service, op, log, cursor, before, runs, now>>

\* One append for all events; a failure is only logged.
AppendEvents(d) ==
  /\ dl[d].pc = "append"
  /\ \/ log' = log \o dl[d].events /\ UNCHANGED before
     \/ "fail" \in Env /\ dl[d].events # <<>> /\ UNCHANGED log /\ Watch(TRUE)
  /\ dl' = [dl EXCEPT ![d].pc = "materialize", ![d].events = <<>>]
  /\ UNCHANGED <<service, lock, op, cursor, runs, now>>

\* materialize_triggered_run; the run id is the trigger and the time.
Materialize(d, t) ==
  /\ dl[d].pc = "materialize" /\ t \in dl[d].pending
  /\ \/ runs' = runs \cup {[trig |-> t, sig |-> dl[d].sig, at |-> dl[d].at]}
     \/ "norun" \in Env /\ UNCHANGED runs
  /\ dl' = [dl EXCEPT ![d].pending = @ \ {t}]
  /\ UNCHANGED <<service, lock, op, log, cursor, before, now>>

Respond(d) ==
  /\ dl[d].pc = "materialize" /\ dl[d].pending = {}
  /\ dl' = [dl EXCEPT ![d] = [NewDelivery EXCEPT !.pc = "done", !.over = dl[d].over]]
  /\ UNCHANGED <<service, lock, op, log, cursor, before, runs, now>>

-----------------------------------------------------------------------------
(* Operator requests: the change under the mutex, then the append          *)

OpStart(o, event) ==
  /\ MayStart /\ Unlocked
  /\ op[o].pc = "new"
  /\ op' = [op EXCEPT ![o] = [pc |-> "append", event |-> event]]
  /\ Watch(~Idle)
  /\ UNCHANGED <<ledger, counts, budget, lock, dl, log, cursor, runs, now>>

Live(t) == trig[t] \in {"enabled", "disabled", "suspended"}

CreateTemplate(o, p) ==
  /\ tmpl[p] = "none"
  /\ tmpl' = [tmpl EXCEPT ![p] = "live"] /\ UNCHANGED trig
  /\ OpStart(o, Event("template_created", p))

\* Mutant: only enabled triggers protect their template.
UnreferencedByEnabled(p) ==
  \A t \in Triggers : trig[t] = "enabled" => TemplateOf[t] # p

\* delete_template is refused while a trigger refers to the template.
Unreferenced(p) == \A t \in Triggers : Live(t) => TemplateOf[t] # p

DeleteTemplate(o, p) ==
  /\ tmpl[p] = "live" /\ Unreferenced(p)
  /\ tmpl' = [tmpl EXCEPT ![p] = "deleted"] /\ UNCHANGED trig
  /\ OpStart(o, Event("template_deleted", p))

CreateTrigger(o, t) ==
  /\ trig[t] = "none" /\ tmpl[TemplateOf[t]] = "live"
  /\ trig' = [trig EXCEPT ![t] = "enabled"] /\ UNCHANGED tmpl
  /\ OpStart(o, Event("trigger_created", t))

SetTrigger(o, t, state, kind) ==
  /\ Live(t)
  /\ trig' = [trig EXCEPT ![t] = state] /\ UNCHANGED tmpl
  /\ OpStart(o, Event(kind, t))

EnableTrigger(o, t) == SetTrigger(o, t, "enabled", "enabled")
DisableTrigger(o, t) == SetTrigger(o, t, "disabled", "disabled")
ResumeTrigger(o, t) ==
  trig[t] = "suspended" /\ SetTrigger(o, t, "enabled", "resumed")
DeleteTrigger(o, t) == SetTrigger(o, t, "deleted", "deleted")

\* append_operator_runtime_event; on failure the caller gets an error, and the
\* change stays in memory.
OpAppend(o) ==
  /\ op[o].pc = "append"
  /\ \/ log' = Append(log, op[o].event) /\ UNCHANGED before
     \/ "fail" \in Env /\ UNCHANGED log /\ Watch(TRUE)
  /\ op' = [op EXCEPT ![o].pc = "done"]
  /\ UNCHANGED <<service, lock, dl, cursor, runs, now>>

-----------------------------------------------------------------------------
(* Restart and replay_triggers                                             *)

Snapshot == [on |-> TRUE, ok |-> TRUE, trig |-> trig, tmpl |-> tmpl, ledger |-> ledger,
             counts |-> counts, budget |-> budget]

Restart ==
  /\ "restart" \in Env /\ Serving
  /\ Empty
  /\ before' = IF Idle /\ before.ok THEN Snapshot ELSE NoSnapshot
  /\ cursor' = 1
  /\ lock' = NoDelivery
  /\ dl' = [d \in Deliveries |-> IF dl[d].pc = "new" THEN dl[d]
                                 ELSE [NewDelivery EXCEPT !.pc = "done"]]
  /\ op' = [o \in Operators |-> IF op[o].pc = "new" THEN op[o]
                                ELSE [op[o] EXCEPT !.pc = "done"]]
  /\ UNCHANGED <<log, runs, now>>

Replaying == cursor \in 1..Len(log)

ReplayDone == UNCHANGED <<lock, dl, op, log, before, runs, now>>

ReplayTemplate ==
  LET e == log[cursor] IN
  /\ Replaying
  /\ \/ e.kind = "template_created" /\ tmpl' = [tmpl EXCEPT ![e.id] = "live"]
     \/ /\ e.kind = "template_deleted"
        /\ tmpl' = IF tmpl[e.id] = "live" /\ Unreferenced(e.id)
                   THEN [tmpl EXCEPT ![e.id] = "deleted"] ELSE tmpl
  /\ cursor' = cursor + 1
  /\ UNCHANGED <<trig, ledger, counts, budget>> /\ ReplayDone

\* Mutant: a suspension is forgotten.
StateAfterIgnoringSuspension(kind) ==
  CASE kind \in {"trigger_created", "enabled", "resumed", "suspended"} -> "enabled"
    [] kind = "disabled" -> "disabled"
    [] kind = "deleted" -> "deleted"

\* The state an event puts its trigger in.
StateAfter(kind) ==
  CASE kind \in {"trigger_created", "enabled", "resumed"} -> "enabled"
    [] kind = "disabled" -> "disabled"
    [] kind = "suspended" -> "suspended"
    [] kind = "deleted" -> "deleted"

\* Replay ignores what the service refuses: a trigger without its template,
\* and a change to a trigger it does not know.
ReplayTrigger ==
  LET e == log[cursor]
      known == IF e.kind = "trigger_created" THEN tmpl[TemplateOf[e.id]] = "live"
               ELSE Live(e.id)
  IN
  /\ Replaying
  /\ e.kind \notin {"template_created", "template_deleted", "fired"}
  /\ trig' = IF known THEN [trig EXCEPT ![e.id] = StateAfter(e.kind)] ELSE trig
  /\ cursor' = cursor + 1
  /\ UNCHANGED <<tmpl, ledger, counts, budget>> /\ ReplayDone

\* Mutant: the rolling windows are rebuilt, the ledger is not.
ReplayFiredWindowsOnly ==
  LET e == log[cursor] IN
  /\ Replaying /\ e.kind = "fired"
  /\ counts' = [counts EXCEPT ![e.id] = Append(Recent(@, e.at, Minute), e.at)]
  /\ budget' = Append(Recent(budget, e.at, Hour), e.at)
  /\ cursor' = cursor + 1
  /\ UNCHANGED <<trig, tmpl, ledger>> /\ ReplayDone

\* restore_fired_trigger
ReplayFired ==
  LET e == log[cursor] IN
  /\ Replaying /\ e.kind = "fired"
  /\ RecordFire(e.id, e.sig, e.at)
  /\ cursor' = cursor + 1
  /\ UNCHANGED <<trig, tmpl>> /\ ReplayDone

Serve ==
  /\ cursor = Len(log) + 1
  /\ cursor' = 0 /\ before' = NoSnapshot
  /\ UNCHANGED <<service, lock, dl, op, log, runs, now>>

Tick ==
  /\ Serving /\ now < MaxTime
  /\ now' = now + 1
  /\ UNCHANGED <<service, lock, dl, op, log, cursor, before, runs>>

DeliveryStep(d) ==
  \/ \E s \in Signals : Preview(d, s)
  \/ \E ok \in SUBSET dl[d].cand : Decide(d, ok)
  \/ Acquire(d)
  \/ \E t \in dl[d].left : SkipOne(d, t) \/ SuspendOne(d, t) \/ FireOne(d, t)
  \/ Release(d) \/ AppendEvents(d)
  \/ \E t \in dl[d].pending : Materialize(d, t)
  \/ Respond(d)

OperatorStep(o) ==
  \/ \E p \in Templates : CreateTemplate(o, p) \/ DeleteTemplate(o, p)
  \/ \E t \in Triggers :
       \/ CreateTrigger(o, t) \/ EnableTrigger(o, t) \/ DisableTrigger(o, t)
       \/ ResumeTrigger(o, t) \/ DeleteTrigger(o, t)
  \/ OpAppend(o)

Replay == ReplayTemplate \/ ReplayTrigger \/ ReplayFired \/ Serve

Next ==
  \/ \E d \in Deliveries : DeliveryStep(d)
  \/ \E o \in Operators : OperatorStep(o)
  \/ Restart \/ Replay \/ Tick

Spec == Init /\ [][Next]_vars

-----------------------------------------------------------------------------
(* Properties                                                              *)

\* The service, the requests under way and the log are well formed: in
\* particular the ledger holds real signals and replay stays inside the log.
TypeOK ==
  /\ trig \in [Triggers -> {"none", "enabled", "disabled", "suspended", "deleted"}]
  /\ tmpl \in [Templates -> {"none", "live", "deleted"}]
  /\ ledger \subseteq Triggers \X Signals
  /\ counts \in [Triggers -> Seq(Nat)] /\ budget \in Seq(Nat)
  /\ lock \in Deliveries \cup {NoDelivery}
  /\ dl \in [Deliveries -> DeliverySet]
  /\ op \in [Operators -> OpSet]
  /\ log \in Seq(EventSet) /\ cursor \in 0..(Len(log) + 1)
  /\ before.on \in BOOLEAN /\ before.ok \in BOOLEAN
  /\ runs \subseteq [trig : Triggers, sig : Signals, at : Nat]
  /\ now \in Nat

\* A signal creates at most one run through a trigger: however often it is
\* delivered, also by deliveries that run at the same time, also across
\* restarts.
NoDuplicateRuns ==
  \A x, y \in runs : x.trig = y.trig /\ x.sig = y.sig => x = y

\* In no window of a minute does a trigger create more runs than its rate
\* limit, also when the windows were rebuilt from the log.
RateLimitHolds ==
  \A x \in runs :
    Cardinality({y \in runs : y.trig = x.trig /\ y.at <= x.at
                                /\ y.at + Minute > x.at}) <= MaxPerMinute

\* In no window of an hour do the triggers of a project together create more
\* runs than its budget.
BudgetHolds ==
  \A x \in runs :
    Cardinality({y \in runs : y.at <= x.at /\ y.at + Hour > x.at}) <= Budget

\* A trigger that can be enabled has its template: deleting a template that is
\* referred to is refused, in service and in replay, in whatever order
\* requests reached the log.
TemplateAvailable ==
  \A t \in Triggers : Live(t) => tmpl[TemplateOf[t]] = "live"

\* An idle process that restarts has, once the log is replayed, the triggers,
\* templates, ledger and windows it had before, if it had served its requests
\* one at a time and appended their events (restarts before it may have cut
\* requests short at any step).
ReplayRestores ==
  cursor = Len(log) + 1 /\ before.on => before = Snapshot

(* What the documents say and the code does not keep in every case.        *)

\* Two fires of a trigger create two runs: their run ids differ.
RunIdsDistinct ==
  \A x, y \in runs : x.trig = y.trig /\ x.at = y.at => x = y

\* In an idle process every recorded fire has created its run.
FiredHasRun ==
  Serving /\ Idle =>
    \A i \in DOMAIN log : log[i].kind = "fired" =>
      [trig |-> log[i].id, sig |-> log[i].sig, at |-> log[i].at] \in runs

\* A trigger that a delivery found over budget is suspended.
BudgetSuspends ==
  \A d \in Deliveries : dl[d].pc = "done" =>
    \A t \in dl[d].over : trig[t] # "enabled"
=============================================================================
