-------------------------- MODULE TriggerFireProofs --------------------------
(***************************************************************************)
(* Theorems about TriggerFire, for every set of triggers, templates,       *)
(* signals, deliveries and operator requests, every initial log and every  *)
(* rate limit and budget.                                                  *)
(***************************************************************************)
EXTENDS TriggerFire, FiniteSetTheorems, WellFoundedInduction, NaturalsInduction, TLAPS

-----------------------------------------------------------------------------
(* What every argument below needs: the types of the requests and of the   *)
(* log (the rolling windows play no part), that no request is under way    *)
(* during replay, and which phases of a delivery have something to persist *)
(* or to create.                                                           *)

RequestsOK ==
  /\ dl \in [Deliveries -> DeliverySet]
  /\ op \in [Operators -> OpSet]
  /\ log \in Seq(EventSet)
  /\ cursor \in 0..(Len(log) + 1)
  /\ now \in Nat

IdleWhileReplaying ==
  cursor # 0 => \A d \in Deliveries : dl[d].pc \in {"new", "done"}

PhaseOK ==
  \A d \in Deliveries :
    /\ dl[d].pc \notin {"evaluate", "append", "materialize"} => dl[d].pending = {}
    /\ dl[d].pc \notin {"evaluate", "append"} => dl[d].events = <<>>

Base == RequestsOK /\ IdleWhileReplaying /\ PhaseOK

LEMMA EventTyped ==
  ASSUME NEW kind \in Kinds, NEW id \in Triggers \cup Templates
  PROVE  Event(kind, id) \in EventSet
BY DEF Event, EventSet

LEMMA AppendTyped ==
  ASSUME NEW s \in Seq(EventSet), NEW e \in EventSet
  PROVE  Append(s, e) \in Seq(EventSet)
OBVIOUS

LEMMA ConcatTyped ==
  ASSUME NEW s \in Seq(EventSet), NEW e \in Seq(EventSet)
  PROVE  s \o e \in Seq(EventSet)
OBVIOUS

LEMMA EmptyTyped == <<>> \in Seq(EventSet)
OBVIOUS

LEMMA FiredTyped ==
  ASSUME NEW t \in Triggers, NEW s \in Signals \cup {NoSignal}, NEW at \in Nat
  PROVE  Fired(t, s, at) \in EventSet
BY DEF Fired, EventSet, Kinds

LEMMA NewDeliveryTyped == NewDelivery \in DeliverySet
BY DEF NewDelivery, DeliverySet

LEMMA BaseInit == Init => Base
<1> SUFFICES ASSUME Init PROVE Base
  OBVIOUS
<1>1. NewOp \in OpSet
  BY DEF NewOp, OpSet, NoEvent, Event, EventSet, Kinds
<1>2. RequestsOK
  BY <1>1, NewDeliveryTyped, TriggerAssumption DEF Init, RequestsOK
<1>3. PhaseOK /\ IdleWhileReplaying
  BY DEF Init, PhaseOK, IdleWhileReplaying, NewDelivery
<1> QED
  BY <1>2, <1>3 DEF Base

\* A delivery step that only moves one delivery on.
LEMMA BaseMove ==
  ASSUME Base, NEW d \in Deliveries, NEW x \in DeliverySet,
         dl' = [dl EXCEPT ![d] = x],
         x.pc \notin {"evaluate", "append", "materialize"} => x.pending = {},
         x.pc \notin {"evaluate", "append"} => x.events = <<>>,
         cursor = 0, UNCHANGED <<op, log, cursor, now>>
  PROVE  Base'
<1>1. RequestsOK'
  BY DEF Base, RequestsOK
<1>2. IdleWhileReplaying'
  BY DEF IdleWhileReplaying
<1>3. PhaseOK'
  BY DEF Base, RequestsOK, PhaseOK
<1> QED
  BY <1>1, <1>2, <1>3 DEF Base

\* A delivery under way means the process serves.
LEMMA UnderWay ==
  ASSUME Base, NEW d \in Deliveries, dl[d].pc \notin {"new", "done"}
  PROVE  cursor = 0
BY DEF Base, IdleWhileReplaying

LEMMA BaseDelivery ==
  ASSUME Base, NEW d \in Deliveries, DeliveryStep(d)
  PROVE  Base'
<1> USE DEF vars, service
<1>0. dl[d] \in DeliverySet
  BY DEF Base, RequestsOK
<1>1. ASSUME NEW s \in Signals, Preview(d, s) PROVE Base'
  <2>1. PICK cand \in SUBSET Triggers, over \in SUBSET Triggers :
          dl' = [dl EXCEPT ![d].pc = "decide", ![d].sig = s, ![d].cand = cand,
                           ![d].over = over]
    <3>1. {t \in Matching(s) : Ready(t, s, now)} \in SUBSET Triggers
          /\ {t \in Matching(s) : Eligible(t, s, now) /\ BudgetExceeded(now)}
               \in SUBSET Triggers
      BY DEF Matching
    <3> QED
      BY <1>1, <3>1, Zenon DEF Preview
  <2> DEFINE x == [dl[d] EXCEPT !.pc = "decide", !.sig = s, !.cand = cand,
                                !.over = over]
  <2>2. x \in DeliverySet /\ x.pending = dl[d].pending /\ x.events = dl[d].events
        /\ x.pc = "decide"
    BY <1>0 DEF DeliverySet
  <2>3. dl' = [dl EXCEPT ![d] = x]
    BY <2>1
  <2>4. dl[d].pc = "new" /\ cursor = 0 /\ UNCHANGED <<op, log, cursor, now>>
    BY <1>1, Zenon DEF Preview, MayStart, Serving
  <2>5. dl[d].pending = {} /\ dl[d].events = <<>>
    BY <2>4 DEF Base, PhaseOK
  <2> QED
    BY <2>2, <2>3, <2>4, <2>5, BaseMove
<1>2. ASSUME NEW ok \in SUBSET dl[d].cand, Decide(d, ok) PROVE Base'
  <2> DEFINE x == [dl[d] EXCEPT !.pc = "wait", !.ok = ok]
  <2>1. x \in DeliverySet /\ x.pending = dl[d].pending /\ x.events = dl[d].events
        /\ x.pc = "wait"
    BY <1>0 DEF DeliverySet
  <2>2. dl' = [dl EXCEPT ![d] = x] /\ dl[d].pc = "decide"
    BY <1>2 DEF Decide
  <2>3. dl[d].pending = {} /\ dl[d].events = <<>> /\ cursor = 0
    BY <2>2, UnderWay DEF Base, PhaseOK
  <2>4. UNCHANGED <<op, log, cursor, now>>
    BY <1>2 DEF Decide
  <2> QED
    BY <2>1, <2>2, <2>3, <2>4, BaseMove
<1>3. ASSUME Acquire(d) PROVE Base'
  <2> DEFINE x == [dl[d] EXCEPT !.pc = "evaluate", !.at = now,
                     !.left = Matching(dl[d].sig) \cap dl[d].cand]
  <2>1. Matching(dl[d].sig) \cap dl[d].cand \in SUBSET Triggers /\ now \in Nat
    BY DEF Matching, Base, RequestsOK
  <2>2. x \in DeliverySet /\ x.pc = "evaluate"
    BY <1>0, <2>1 DEF DeliverySet
  <2>3. dl' = [dl EXCEPT ![d] = x] /\ dl[d].pc = "wait"
    BY <1>3 DEF Acquire
  <2>4. cursor = 0 /\ UNCHANGED <<op, log, cursor, now>>
    BY <1>3, <2>3, UnderWay DEF Acquire
  <2> QED
    BY <2>2, <2>3, <2>4, BaseMove
<1>4. ASSUME NEW t \in dl[d].left, SkipOne(d, t) PROVE Base'
  <2> DEFINE x == [dl[d] EXCEPT !.left = @ \ {t}]
  <2>1. dl[d].pc = "evaluate" /\ cursor = 0 /\ UNCHANGED <<op, log, cursor, now>>
    BY <1>4, UnderWay DEF SkipOne, IsNext
  <2>2. x \in DeliverySet /\ x.pc = "evaluate"
    BY <1>0, <2>1 DEF DeliverySet
  <2>3. dl' = [dl EXCEPT ![d] = x]
    BY <1>4 DEF SkipOne
  <2> QED
    BY <2>1, <2>2, <2>3, BaseMove
<1>5. ASSUME NEW t \in dl[d].left, SuspendOne(d, t) PROVE Base'
  <2> DEFINE x == [dl[d] EXCEPT !.left = @ \ {t},
                     !.events = Append(@, Event("suspended", t))]
  <2>1. dl[d].pc = "evaluate" /\ cursor = 0 /\ UNCHANGED <<op, log, cursor, now>>
    BY <1>5, UnderWay DEF SuspendOne, IsNext
  <2>2. Event("suspended", t) \in EventSet
    BY <1>0, EventTyped DEF DeliverySet, Kinds
  <2>3. x \in DeliverySet /\ x.pc = "evaluate"
    <3>1. dl[d].left \ {t} \in SUBSET Triggers
          /\ Append(dl[d].events, Event("suspended", t)) \in Seq(EventSet)
      BY <1>0, <2>2, AppendTyped DEF DeliverySet
    <3> QED
      BY <1>0, <2>1, <3>1 DEF DeliverySet
  <2>4. dl' = [dl EXCEPT ![d] = x]
    BY <1>5 DEF SuspendOne
  <2> QED
    BY <2>1, <2>3, <2>4, BaseMove
<1>6. ASSUME NEW t \in dl[d].left, FireOne(d, t) PROVE Base'
  <2> DEFINE f == Fired(t, dl[d].sig, dl[d].at)
             x == [dl[d] EXCEPT !.left = @ \ {t}, !.pending = @ \cup {t},
                     !.events = Append(@, f)]
  <2>1. dl[d].pc = "evaluate" /\ cursor = 0 /\ UNCHANGED <<op, log, cursor, now>>
    BY <1>6, UnderWay DEF FireOne, IsNext
  <2>2. t \in Triggers /\ f \in EventSet
    BY <1>0, FiredTyped DEF DeliverySet
  <2>3. x \in DeliverySet /\ x.pc = "evaluate"
    <3>1. dl[d].pending \cup {t} \in SUBSET Triggers
          /\ dl[d].left \ {t} \in SUBSET Triggers
      BY <1>0, <2>2 DEF DeliverySet
    <3>2. Append(dl[d].events, f) \in Seq(EventSet)
      BY <1>0, <2>2, AppendTyped DEF DeliverySet
    <3> HIDE DEF f
    <3> QED
      BY <1>0, <2>1, <3>1, <3>2 DEF DeliverySet
  <2>4. dl' = [dl EXCEPT ![d] = x]
    BY <1>6 DEF FireOne
  <2> QED
    BY <2>1, <2>3, <2>4, BaseMove
<1>7. ASSUME Release(d) PROVE Base'
  <2> DEFINE x == [dl[d] EXCEPT !.pc = "append"]
  <2>1. dl[d].pc = "evaluate" /\ cursor = 0 /\ UNCHANGED <<op, log, cursor, now>>
    BY <1>7, UnderWay DEF Release
  <2>2. x \in DeliverySet /\ x.pc = "append"
    BY <1>0 DEF DeliverySet
  <2>3. dl' = [dl EXCEPT ![d] = x]
    BY <1>7 DEF Release
  <2> QED
    BY <2>1, <2>2, <2>3, BaseMove
<1>8. ASSUME AppendEvents(d) PROVE Base'
  <2>1. dl[d].pc = "append" /\ cursor = 0 /\ UNCHANGED <<op, cursor, now>>
    BY <1>8, UnderWay DEF AppendEvents
  <2>2. log' = log \o dl[d].events \/ log' = log
    BY <1>8 DEF AppendEvents
  <2>3. log' \in Seq(EventSet)
    <3>1. dl[d].events \in Seq(EventSet) /\ log \in Seq(EventSet)
      BY <1>0 DEF Base, RequestsOK, DeliverySet
    <3> QED
      BY <2>2, <3>1, ConcatTyped
  <2>4. dl' = [dl EXCEPT ![d].pc = "materialize", ![d].events = <<>>]
    BY <1>8 DEF AppendEvents
  <2>5. dl' \in [Deliveries -> DeliverySet]
    <3>1. \A r \in DeliverySet, e \in Seq(EventSet) :
            [[r EXCEPT !.pc = "materialize"] EXCEPT !.events = e] \in DeliverySet
      BY DEF DeliverySet
    <3>2. [[dl[d] EXCEPT !.pc = "materialize"] EXCEPT !.events = <<>>] \in DeliverySet
      BY <1>0, <3>1, EmptyTyped, Zenon
    <3>3. dl' = [dl EXCEPT ![d] =
                   [[dl[d] EXCEPT !.pc = "materialize"] EXCEPT !.events = <<>>]]
      BY <2>4, Zenon
    <3> QED
      BY <3>2, <3>3, Zenon DEF Base, RequestsOK
  <2>6. cursor' \in 0..(Len(log') + 1)
    BY <2>1, <2>3
  <2>7. PhaseOK'
    BY <2>4 DEF Base, RequestsOK, DeliverySet, PhaseOK
  <2> QED
    BY <2>1, <2>3, <2>5, <2>6, <2>7 DEF Base, RequestsOK, IdleWhileReplaying
<1>9. ASSUME NEW t \in dl[d].pending, Materialize(d, t) PROVE Base'
  <2> DEFINE x == [dl[d] EXCEPT !.pending = @ \ {t}]
  <2>1. /\ dl[d].pc = "materialize" /\ cursor = 0
        /\ UNCHANGED <<op, log, cursor, now>>
    BY <1>9, UnderWay DEF Materialize
  <2>2. x \in DeliverySet /\ x.pc = "materialize" /\ x.events = dl[d].events
    BY <1>0, <2>1 DEF DeliverySet
  <2>3. dl[d].events = <<>>
    BY <2>1 DEF Base, PhaseOK
  <2>4. dl' = [dl EXCEPT ![d] = x]
    BY <1>9 DEF Materialize
  <2> QED
    BY <2>1, <2>2, <2>3, <2>4, BaseMove
<1>10. ASSUME Respond(d) PROVE Base'
  <2> DEFINE x == [NewDelivery EXCEPT !.pc = "done", !.over = dl[d].over]
  <2>1. cursor = 0 /\ UNCHANGED <<op, log, cursor, now>>
    BY <1>10, UnderWay DEF Respond
  <2>2. x \in DeliverySet /\ x.events = <<>> /\ x.pending = {}
    <3>1. dl[d].over \in SUBSET Triggers
      BY <1>0 DEF DeliverySet
    <3> QED
      BY <3>1, NewDeliveryTyped DEF DeliverySet, NewDelivery
  <2>3. dl' = [dl EXCEPT ![d] = x]
    BY <1>10 DEF Respond
  <2> QED
    BY <2>1, <2>2, <2>3, BaseMove
<1> QED
  BY <1>1, <1>2, <1>3, <1>4, <1>5, <1>6, <1>7, <1>8, <1>9, <1>10 DEF DeliveryStep

\* What every operator request does to the requests and the log.
LEMMA OperatorEffect ==
  ASSUME Base, NEW o \in Operators, OperatorStep(o)
  PROVE  /\ UNCHANGED <<dl, lock, ledger, counts, budget, cursor, runs, now>>
         /\ op' \in [Operators -> OpSet]
         /\ \/ UNCHANGED log /\ Unlocked
            \/ UNCHANGED <<log, trig, tmpl>>
            \/ log' = Append(log, op[o].event) /\ UNCHANGED <<trig, tmpl>>
         /\ op[o].event \in EventSet
<1>0. op[o].event \in EventSet
  BY DEF Base, RequestsOK, OpSet
<1>1. ASSUME NEW e \in EventSet, OpStart(o, e)
      PROVE  /\ UNCHANGED <<dl, lock, ledger, counts, budget, cursor, runs, now, log>>
             /\ op' \in [Operators -> OpSet] /\ Unlocked
  BY <1>1 DEF OpStart, Base, RequestsOK, OpSet
<1>2. ASSUME NEW p \in Templates, CreateTemplate(o, p) \/ DeleteTemplate(o, p)
      PROVE  /\ UNCHANGED <<dl, lock, ledger, counts, budget, cursor, runs, now, log>>
             /\ op' \in [Operators -> OpSet] /\ Unlocked
  <2>1. Event("template_created", p) \in EventSet
        /\ Event("template_deleted", p) \in EventSet
    BY EventTyped DEF Kinds
  <2> QED
    BY <1>1, <1>2, <2>1 DEF CreateTemplate, DeleteTemplate
<1>3. ASSUME NEW t \in Triggers,
             \/ CreateTrigger(o, t) \/ EnableTrigger(o, t) \/ DisableTrigger(o, t)
             \/ ResumeTrigger(o, t) \/ DeleteTrigger(o, t)
      PROVE  /\ UNCHANGED <<dl, lock, ledger, counts, budget, cursor, runs, now, log>>
             /\ op' \in [Operators -> OpSet] /\ Unlocked
  <2>1. \A kind \in Kinds : Event(kind, t) \in EventSet
    BY EventTyped
  <2>2. {"trigger_created", "enabled", "disabled", "resumed", "deleted"} \subseteq Kinds
    BY DEF Kinds
  <2>3. \E kind \in Kinds : OpStart(o, Event(kind, t))
    BY <1>3, <2>2 DEF CreateTrigger, EnableTrigger, DisableTrigger, ResumeTrigger,
                      DeleteTrigger, SetTrigger
  <2> QED
    BY <1>1, <2>1, <2>3
<1>4. ASSUME OpAppend(o)
      PROVE  /\ UNCHANGED <<dl, lock, ledger, counts, budget, cursor, runs, now, trig, tmpl>>
             /\ op' \in [Operators -> OpSet]
             /\ UNCHANGED log \/ log' = Append(log, op[o].event)
  <2>1. op' = [op EXCEPT ![o].pc = "done"]
    BY <1>4 DEF OpAppend
  <2>2. op' \in [Operators -> OpSet]
    BY <2>1 DEF Base, RequestsOK, OpSet
  <2> QED
    BY <1>4, <2>2 DEF OpAppend, service
<1> QED
  BY <1>0, <1>2, <1>3, <1>4 DEF OperatorStep

LEMMA BaseOperator ==
  ASSUME Base, NEW o \in Operators, OperatorStep(o)
  PROVE  Base'
<1>1. /\ UNCHANGED <<dl, cursor, now>> /\ op' \in [Operators -> OpSet]
      /\ UNCHANGED log \/ log' = Append(log, op[o].event)
      /\ op[o].event \in EventSet
  BY OperatorEffect
<1>2. log' \in Seq(EventSet) /\ Len(log') >= Len(log)
  BY <1>1 DEF Base, RequestsOK
<1>3. cursor' \in 0..(Len(log') + 1)
  BY <1>1, <1>2 DEF Base, RequestsOK
<1> QED
  BY <1>1, <1>2, <1>3 DEF Base, RequestsOK, IdleWhileReplaying, PhaseOK

LEMMA BaseRestart ==
  ASSUME Base, Restart
  PROVE  Base'
<1>1. /\ dl' = [d \in Deliveries |-> IF dl[d].pc = "new" THEN dl[d]
                                     ELSE [NewDelivery EXCEPT !.pc = "done"]]
      /\ op' = [o \in Operators |-> IF op[o].pc = "new" THEN op[o]
                                    ELSE [op[o] EXCEPT !.pc = "done"]]
      /\ cursor' = 1 /\ UNCHANGED <<log, now>>
  BY DEF Restart
<1>2. [NewDelivery EXCEPT !.pc = "done"] \in DeliverySet
      /\ [NewDelivery EXCEPT !.pc = "done"].pc = "done"
      /\ [NewDelivery EXCEPT !.pc = "done"].pending = {}
      /\ [NewDelivery EXCEPT !.pc = "done"].events = <<>>
  BY NewDeliveryTyped DEF DeliverySet, NewDelivery
<1>3. \A o \in Operators : [op[o] EXCEPT !.pc = "done"] \in OpSet
  BY DEF Base, RequestsOK, OpSet
<1>4. RequestsOK'
  BY <1>1, <1>2, <1>3 DEF Base, RequestsOK
<1>5. IdleWhileReplaying'
  BY <1>1, <1>2 DEF IdleWhileReplaying
<1>6. PhaseOK'
  BY <1>1, <1>2 DEF Base, PhaseOK
<1> QED
  BY <1>4, <1>5, <1>6 DEF Base

LEMMA BaseReplay ==
  ASSUME Base, Replay
  PROVE  Base'
<1>1. UNCHANGED <<dl, op, log, now>>
  BY DEF Replay, ReplayTemplate, ReplayTrigger, ReplayFired, Serve, ReplayDone
<1>2. \/ cursor' = 0
      \/ cursor \in 1..Len(log) /\ cursor' = cursor + 1
  BY DEF Replay, ReplayTemplate, ReplayTrigger, ReplayFired, Serve, Replaying
<1>3. cursor' \in 0..(Len(log') + 1) /\ (cursor' # 0 => cursor # 0)
  BY <1>1, <1>2 DEF Base, RequestsOK
<1> QED
  BY <1>1, <1>3 DEF Base, RequestsOK, IdleWhileReplaying, PhaseOK

LEMMA BaseStep == Base /\ [Next]_vars => Base'
<1> SUFFICES ASSUME Base, [Next]_vars PROVE Base'
  OBVIOUS
<1>1. CASE Tick
  BY <1>1 DEF Tick, Base, RequestsOK, IdleWhileReplaying, PhaseOK
<1>2. CASE UNCHANGED vars
  BY <1>2 DEF vars, Base, RequestsOK, IdleWhileReplaying, PhaseOK
<1> QED
  BY <1>1, <1>2, BaseDelivery, BaseOperator, BaseRestart, BaseReplay DEF Next

-----------------------------------------------------------------------------
(* A live trigger has its template.  A suspension writes the state of a    *)
(* trigger that was seen enabled when the mutex was taken: the argument    *)
(* needs that it still is, because the mutex is held.                      *)

LockOK ==
  \A d \in Deliveries : dl[d].pc = "evaluate" =>
    /\ lock = d
    /\ \A t \in dl[d].left : trig[t] = "enabled"

RegistryOK ==
  /\ trig \in [Triggers -> {"none", "enabled", "disabled", "suspended", "deleted"}]
  /\ DOMAIN tmpl = Templates

TInv == Base /\ RegistryOK /\ LockOK /\ TemplateAvailable

LEMMA TInvInit == Init => TInv
<1> SUFFICES ASSUME Init PROVE TInv
  OBVIOUS
<1>1. RegistryOK
  BY DEF Init, RegistryOK
<1>2. LockOK
  BY DEF Init, LockOK, NewDelivery
<1>3. TemplateAvailable
  BY DEF Init, TemplateAvailable, Live
<1> QED
  BY <1>1, <1>2, <1>3, BaseInit DEF TInv

\* Steps that change neither the registry nor the mutex.
LEMMA TInvDelivery ==
  ASSUME TInv, NEW d \in Deliveries, DeliveryStep(d)
  PROVE  RegistryOK' /\ LockOK' /\ TemplateAvailable'
<1> USE DEF service
<1>0. dl[d] \in DeliverySet /\ DOMAIN dl = Deliveries
  BY DEF TInv, Base, RequestsOK
<1>a. ASSUME UNCHANGED <<trig, tmpl>>
      PROVE  RegistryOK' /\ TemplateAvailable'
  BY <1>a DEF TInv, RegistryOK, TemplateAvailable, Live
<1>b. ASSUME UNCHANGED <<trig, tmpl, lock>>,
             \A c \in Deliveries \ {d} : dl'[c] = dl[c], dl'[d].pc # "evaluate"
      PROVE  RegistryOK' /\ LockOK' /\ TemplateAvailable'
  BY <1>a, <1>b DEF TInv, LockOK
<1>1. ASSUME NEW s \in Signals, Preview(d, s)
      PROVE  RegistryOK' /\ LockOK' /\ TemplateAvailable'
  <2>1. UNCHANGED <<trig, tmpl, lock>>
        /\ \E cand, over : dl' = [dl EXCEPT ![d].pc = "decide", ![d].sig = s,
                                            ![d].cand = cand, ![d].over = over]
    BY <1>1, Zenon DEF Preview
  <2>2. \A c \in Deliveries \ {d} : dl'[c] = dl[c]
    BY <1>0, <2>1
  <2>3. dl'[d].pc = "decide"
    BY <1>0, <2>1 DEF DeliverySet
  <2> QED
    BY <1>b, <2>1, <2>2, <2>3
<1>2. ASSUME NEW ok \in SUBSET dl[d].cand, Decide(d, ok)
      PROVE  RegistryOK' /\ LockOK' /\ TemplateAvailable'
  BY <1>0, <1>2, <1>b DEF Decide, DeliverySet
<1>3. ASSUME Acquire(d)
      PROVE  RegistryOK' /\ LockOK' /\ TemplateAvailable'
  <2>1. UNCHANGED <<trig, tmpl>> /\ lock = NoDelivery /\ lock' = d
        /\ dl' = [dl EXCEPT ![d].pc = "evaluate", ![d].at = now,
                    ![d].left = Matching(dl[d].sig) \cap dl[d].cand]
    BY <1>3 DEF Acquire, Unlocked
  <2>2. \A c \in Deliveries : dl[c].pc # "evaluate"
    BY <2>1, TriggerAssumption DEF TInv, LockOK
  <2>3. \A c \in Deliveries \ {d} : dl'[c] = dl[c]
    BY <1>0, <2>1
  <2>4. dl'[d].left = Matching(dl[d].sig) \cap dl[d].cand
    BY <1>0, <2>1 DEF DeliverySet
  <2>5. \A t \in dl'[d].left : trig'[t] = "enabled"
    BY <2>1, <2>4 DEF Matching
  <2> QED
    BY <1>a, <2>1, <2>2, <2>3, <2>5 DEF LockOK
<1>4. ASSUME NEW t \in dl[d].left, SkipOne(d, t)
      PROVE  RegistryOK' /\ LockOK' /\ TemplateAvailable'
  <2>1. UNCHANGED <<trig, tmpl, lock>> /\ dl[d].pc = "evaluate"
        /\ dl' = [dl EXCEPT ![d].left = @ \ {t}]
    BY <1>4 DEF SkipOne, IsNext
  <2>2. LockOK'
    BY <1>0, <2>1 DEF TInv, LockOK, DeliverySet
  <2> QED
    BY <1>a, <2>1, <2>2
<1>5. ASSUME NEW t \in dl[d].left, SuspendOne(d, t)
      PROVE  RegistryOK' /\ LockOK' /\ TemplateAvailable'
  <2>1. /\ UNCHANGED <<tmpl, lock>> /\ dl[d].pc = "evaluate"
        /\ trig' = [trig EXCEPT ![t] = "suspended"]
        /\ dl' = [dl EXCEPT ![d].left = @ \ {t},
                            ![d].events = Append(@, Event("suspended", t))]
    BY <1>5 DEF SuspendOne, IsNext
  <2>2. t \in Triggers /\ trig[t] = "enabled" /\ lock = d
    BY <1>0, <2>1 DEF TInv, LockOK, DeliverySet
  <2>3. RegistryOK'
    BY <2>1 DEF TInv, RegistryOK
  <2>4. TemplateAvailable'
    BY <2>1, <2>2 DEF TInv, RegistryOK, TemplateAvailable, Live
  <2>5. \A c \in Deliveries \ {d} : dl'[c] = dl[c] /\ dl[c].pc # "evaluate"
    BY <1>0, <2>1, <2>2 DEF TInv, LockOK
  <2>6. dl'[d].left = dl[d].left \ {t}
    BY <1>0, <2>1 DEF DeliverySet
  <2>7. ASSUME NEW u \in dl'[d].left PROVE trig'[u] = "enabled"
    <3>1. u \in dl[d].left /\ u # t
      BY <2>6
    <3>2. u \in Triggers /\ trig[u] = "enabled"
      BY <1>0, <2>1, <3>1 DEF TInv, LockOK, DeliverySet
    <3> QED
      BY <2>1, <3>1, <3>2 DEF TInv, RegistryOK
  <2>8. \A c \in Deliveries \ {d} : dl'[c].pc # "evaluate"
    BY <2>5
  <2>9. LockOK'
    BY <2>1, <2>2, <2>7, <2>8 DEF LockOK
  <2> QED
    BY <2>3, <2>4, <2>9
<1>6. ASSUME NEW t \in dl[d].left, FireOne(d, t)
      PROVE  RegistryOK' /\ LockOK' /\ TemplateAvailable'
  <2>1. /\ UNCHANGED <<trig, tmpl, lock>> /\ dl[d].pc = "evaluate"
        /\ dl' = [dl EXCEPT ![d].left = @ \ {t}, ![d].pending = @ \cup {t},
                    ![d].events = Append(@, Fired(t, dl[d].sig, dl[d].at))]
    BY <1>6 DEF FireOne, IsNext
  <2>2. LockOK'
    BY <1>0, <2>1 DEF TInv, LockOK, DeliverySet
  <2> QED
    BY <1>a, <2>1, <2>2
<1>7. ASSUME Release(d)
      PROVE  RegistryOK' /\ LockOK' /\ TemplateAvailable'
  <2>1. /\ UNCHANGED <<trig, tmpl>> /\ dl[d].pc = "evaluate"
        /\ dl' = [dl EXCEPT ![d].pc = "append"]
    BY <1>7 DEF Release
  <2>2. \A c \in Deliveries \ {d} : dl'[c] = dl[c] /\ dl[c].pc # "evaluate"
    BY <1>0, <2>1 DEF TInv, LockOK
  <2>3. dl'[d].pc = "append"
    BY <1>0, <2>1 DEF DeliverySet
  <2> QED
    BY <1>a, <2>1, <2>2, <2>3 DEF LockOK
<1>8. ASSUME AppendEvents(d)
      PROVE  RegistryOK' /\ LockOK' /\ TemplateAvailable'
  BY <1>0, <1>8, <1>b DEF AppendEvents, DeliverySet
<1>9. ASSUME NEW t \in dl[d].pending, Materialize(d, t)
      PROVE  RegistryOK' /\ LockOK' /\ TemplateAvailable'
  BY <1>0, <1>9, <1>b DEF Materialize, DeliverySet
<1>10. ASSUME Respond(d)
       PROVE  RegistryOK' /\ LockOK' /\ TemplateAvailable'
  BY <1>0, <1>10, <1>b DEF Respond, NewDelivery
<1> QED
  BY <1>1, <1>2, <1>3, <1>4, <1>5, <1>6, <1>7, <1>8, <1>9, <1>10 DEF DeliveryStep

LEMMA TInvOperator ==
  ASSUME TInv, NEW o \in Operators, OperatorStep(o)
  PROVE  RegistryOK' /\ LockOK' /\ TemplateAvailable'
<1>0. UNCHANGED <<dl, lock>> /\ (UNCHANGED <<trig, tmpl>> \/ Unlocked)
  BY OperatorEffect DEF TInv
<1>1. LockOK'
  BY <1>0, TriggerAssumption DEF TInv, LockOK, Unlocked
<1>2. ASSUME NEW p \in Templates, CreateTemplate(o, p)
      PROVE  RegistryOK' /\ TemplateAvailable'
  BY <1>2 DEF CreateTemplate, TInv, RegistryOK, TemplateAvailable, Live
<1>3. ASSUME NEW p \in Templates, DeleteTemplate(o, p)
      PROVE  RegistryOK' /\ TemplateAvailable'
  BY <1>3 DEF DeleteTemplate, Unreferenced, TInv, RegistryOK, TemplateAvailable, Live
<1>4. ASSUME NEW t \in Triggers, CreateTrigger(o, t)
      PROVE  RegistryOK' /\ TemplateAvailable'
  BY <1>4 DEF CreateTrigger, TInv, RegistryOK, TemplateAvailable, Live
<1>5. ASSUME NEW t \in Triggers,
             NEW s \in {"enabled", "disabled", "suspended", "deleted"}, NEW kind,
             SetTrigger(o, t, s, kind)
      PROVE  RegistryOK' /\ TemplateAvailable'
  BY <1>5 DEF SetTrigger, TInv, RegistryOK, TemplateAvailable, Live
<1>6. ASSUME OpAppend(o)
      PROVE  RegistryOK' /\ TemplateAvailable'
  BY <1>6 DEF OpAppend, service, TInv, RegistryOK, TemplateAvailable, Live
<1> QED
  BY <1>1, <1>2, <1>3, <1>4, <1>5, <1>6
  DEF OperatorStep, EnableTrigger, DisableTrigger, ResumeTrigger, DeleteTrigger

LEMMA TInvReplay ==
  ASSUME TInv, Replay
  PROVE  RegistryOK' /\ LockOK' /\ TemplateAvailable'
<1>0. cursor # 0 /\ UNCHANGED dl
  BY DEF Replay, ReplayTemplate, ReplayTrigger, ReplayFired, Serve, Replaying,
         ReplayDone, TInv, Base, RequestsOK
<1>1. LockOK'
  BY <1>0 DEF TInv, Base, IdleWhileReplaying, LockOK
<1>2. CASE ReplayTemplate
  <2>1. UNCHANGED trig
    BY <1>2 DEF ReplayTemplate
  <2>2. PICK p : \/ tmpl' = [tmpl EXCEPT ![p] = "live"]
                 \/ Unreferenced(p) /\ tmpl' = [tmpl EXCEPT ![p] = "deleted"]
                 \/ UNCHANGED tmpl
    BY <1>2 DEF ReplayTemplate
  <2>3. RegistryOK'
    BY <2>1, <2>2 DEF TInv, RegistryOK
  <2>4. ASSUME NEW t \in Triggers, Live(t)' PROVE tmpl'[TemplateOf[t]] = "live"
    <3>1. Live(t) /\ tmpl[TemplateOf[t]] = "live" /\ TemplateOf[t] \in Templates
      BY <2>1, <2>4, TriggerAssumption DEF TInv, TemplateAvailable, Live
    <3> QED
      BY <2>2, <3>1 DEF Unreferenced, TInv, RegistryOK
  <2> QED
    BY <1>1, <2>3, <2>4 DEF TemplateAvailable
<1>3. CASE ReplayTrigger
  <2>1. UNCHANGED tmpl
    BY <1>3 DEF ReplayTrigger
  <2> DEFINE e == log[cursor]
             known == IF e.kind = "trigger_created"
                      THEN tmpl[TemplateOf[e.id]] = "live" ELSE Live(e.id)
  <2>2. /\ trig' = IF known THEN [trig EXCEPT ![e.id] = StateAfter(e.kind)] ELSE trig
        /\ e.kind \in Kinds \ {"template_created", "template_deleted", "fired"}
    <3>1. cursor \in 1..Len(log) /\ log \in Seq(EventSet)
      BY <1>3 DEF ReplayTrigger, Replaying, TInv, Base, RequestsOK
    <3>2. e \in EventSet
      BY <3>1
    <3> QED
      BY <1>3, <3>2 DEF ReplayTrigger, EventSet
  <2>3. StateAfter(e.kind) \in {"enabled", "disabled", "suspended", "deleted"}
    BY <2>2 DEF StateAfter, Kinds
  <2>4. RegistryOK'
    BY <2>1, <2>2, <2>3 DEF TInv, RegistryOK
  <2>5. ASSUME NEW t \in Triggers, Live(t)' PROVE tmpl'[TemplateOf[t]] = "live"
    <3>1. CASE known /\ t = e.id
      BY <2>1, <3>1 DEF TInv, TemplateAvailable
    <3>2. CASE ~(known /\ t = e.id)
      <4>1. trig'[t] = trig[t]
        BY <2>2, <3>2 DEF TInv, RegistryOK
      <4> QED
        BY <2>1, <2>5, <4>1 DEF TInv, TemplateAvailable, Live
    <3> QED
      BY <3>1, <3>2
  <2> QED
    BY <1>1, <2>4, <2>5 DEF TemplateAvailable
<1>4. CASE ReplayFired \/ Serve
  BY <1>1, <1>4 DEF ReplayFired, Serve, service, TInv, RegistryOK,
                    TemplateAvailable, Live
<1> QED
  BY <1>2, <1>3, <1>4 DEF Replay

LEMMA TInvStep == TInv /\ [Next]_vars => TInv'
<1> SUFFICES ASSUME TInv, [Next]_vars PROVE TInv'
  OBVIOUS
<1>0. Base'
  BY BaseStep DEF TInv
<1>1. CASE Restart
  <2>1. LockOK'
    BY <1>1, BaseRestart DEF TInv, Base, IdleWhileReplaying, LockOK, Restart
  <2>2. RegistryOK' /\ TemplateAvailable'
    BY <1>1 DEF Restart, Empty, RegistryOK, TemplateAvailable, Live
  <2> QED
    BY <1>0, <2>1, <2>2 DEF TInv
<1>2. CASE Tick \/ UNCHANGED vars
  BY <1>0, <1>2 DEF Tick, vars, service, TInv, RegistryOK, LockOK,
                    TemplateAvailable, Live
<1> QED
  BY <1>0, <1>1, <1>2, TInvDelivery, TInvOperator, TInvReplay DEF Next, TInv

\* In every environment, with failing appends, restarts and requests that
\* overlap, a trigger that is enabled, disabled or suspended has its template:
\* the deletion of a template in use is refused, in service and in replay.
THEOREM TemplatesStay == Spec => []TemplateAvailable
<1>1. TInv => TemplateAvailable
  BY DEF TInv
<1> QED
  BY TInvInit, TInvStep, <1>1, PTL DEF Spec

-----------------------------------------------------------------------------
(* No duplicate runs, when appends succeed.  The pair of a trigger and a   *)
(* signal goes from the events of a delivery to the log and from there to  *)
(* runs; the ledger has it all along, except while a restarted process     *)
(* replays, and then nothing can fire.                                     *)

SignalIds == Signals \cup {NoSignal}

\* The sequence has the event that t fired on s.
FiredIn(seq, t, s) ==
  \E i \in 1..Len(seq) : seq[i].kind = "fired" /\ seq[i].id = t /\ seq[i].sig = s

\* Operator requests append no fired event.
OperatorsOK == \A o \in Operators : op[o].event.kind # "fired"

\* The ledger has what was logged: all of it when the process serves, what
\* replay has gone through before.
LedgerOK ==
  /\ cursor = 0 => \A t \in Triggers, s \in SignalIds :
                     FiredIn(log, t, s) => <<t, s>> \in ledger
  /\ \A i \in 1..Len(log) : i < cursor /\ log[i].kind = "fired" =>
                              <<log[i].id, log[i].sig>> \in ledger

\* The ledger has what is yet to be logged.
EventsOK ==
  \A d \in Deliveries, t \in Triggers, s \in SignalIds :
    FiredIn(dl[d].events, t, s) => <<t, s>> \in ledger

\* A run that is yet to be created is about to be logged, or is logged.
PendingOK ==
  \A d \in Deliveries : \A t \in dl[d].pending :
    IF dl[d].pc = "materialize" THEN FiredIn(log, t, dl[d].sig)
    ELSE FiredIn(dl[d].events, t, dl[d].sig)

RunsOK ==
  \A x \in runs : x.trig \in Triggers /\ x.sig \in SignalIds
                    /\ FiredIn(log, x.trig, x.sig)

\* What is pending is neither created nor pending elsewhere.
UniqueOK ==
  \A d \in Deliveries : \A t \in dl[d].pending :
    /\ \A x \in runs : ~(x.trig = t /\ x.sig = dl[d].sig)
    /\ \A c \in Deliveries \ {d} : t \in dl[c].pending => dl[c].sig # dl[d].sig

Once == OperatorsOK /\ LedgerOK /\ EventsOK /\ PendingOK /\ RunsOK /\ UniqueOK
          /\ NoDuplicateRuns

LEMMA FiredAppend ==
  ASSUME NEW q \in Seq(EventSet), NEW e \in EventSet, NEW t, NEW s
  PROVE  FiredIn(Append(q, e), t, s) <=>
           FiredIn(q, t, s) \/ (e.kind = "fired" /\ e.id = t /\ e.sig = s)
<1>1. /\ Len(Append(q, e)) = Len(q) + 1 /\ Append(q, e)[Len(q) + 1] = e
      /\ \A i \in 1..Len(q) : Append(q, e)[i] = q[i]
  OBVIOUS
<1>2. \A i : i \in 1..(Len(q) + 1) <=> i \in 1..Len(q) \/ i = Len(q) + 1
  OBVIOUS
<1> QED
  BY <1>1, <1>2 DEF FiredIn

LEMMA FiredConcat ==
  ASSUME NEW q \in Seq(EventSet), NEW r \in Seq(EventSet), NEW t, NEW s
  PROVE  FiredIn(q \o r, t, s) <=> FiredIn(q, t, s) \/ FiredIn(r, t, s)
<1>1. /\ Len(q \o r) = Len(q) + Len(r)
      /\ \A i \in 1..Len(q) : (q \o r)[i] = q[i]
      /\ \A i \in 1..Len(r) : (q \o r)[Len(q) + i] = r[i]
  OBVIOUS
<1>2. ASSUME FiredIn(q \o r, t, s) PROVE FiredIn(q, t, s) \/ FiredIn(r, t, s)
  <2>1. PICK i \in 1..Len(q \o r) :
          (q \o r)[i].kind = "fired" /\ (q \o r)[i].id = t /\ (q \o r)[i].sig = s
    BY <1>2 DEF FiredIn
  <2>2. i \in 1..Len(q) \/ (i - Len(q) \in 1..Len(r) /\ i = Len(q) + (i - Len(q)))
    BY <1>1
  <2>3. CASE i \in 1..Len(q)
    BY <1>1, <2>1, <2>3 DEF FiredIn
  <2>4. CASE i - Len(q) \in 1..Len(r) /\ i = Len(q) + (i - Len(q))
    <3>1. (q \o r)[i] = r[i - Len(q)]
      BY <1>1, <2>4
    <3> QED
      BY <2>1, <2>4, <3>1 DEF FiredIn
  <2> QED
    BY <2>2, <2>3, <2>4
<1>3. ASSUME FiredIn(q, t, s) PROVE FiredIn(q \o r, t, s)
  <2>1. \A i \in 1..Len(q) : i \in 1..Len(q \o r)
    BY <1>1
  <2> QED
    BY <1>1, <1>3, <2>1 DEF FiredIn
<1>4. ASSUME FiredIn(r, t, s) PROVE FiredIn(q \o r, t, s)
  <2>1. PICK i \in 1..Len(r) : r[i].kind = "fired" /\ r[i].id = t /\ r[i].sig = s
    BY <1>4 DEF FiredIn
  <2>2. Len(q) + i \in 1..Len(q \o r) /\ (q \o r)[Len(q) + i] = r[i]
    BY <1>1
  <2> QED
    BY <2>1, <2>2 DEF FiredIn
<1> QED
  BY <1>2, <1>3, <1>4

LEMMA FiredEmpty == \A t, s : ~FiredIn(<<>>, t, s)
BY DEF FiredIn

\* What is pending or created is in the ledger of a process that serves.
LEMMA TakenIsRecorded ==
  ASSUME Base, Once, cursor = 0
  PROVE  /\ \A d \in Deliveries : \A t \in dl[d].pending : <<t, dl[d].sig>> \in ledger
         /\ \A x \in runs : <<x.trig, x.sig>> \in ledger
<1>1. ASSUME NEW d \in Deliveries, NEW t \in dl[d].pending
      PROVE  <<t, dl[d].sig>> \in ledger
  <2>1. t \in Triggers /\ dl[d].sig \in SignalIds
    BY DEF Base, RequestsOK, DeliverySet, SignalIds
  <2>2. FiredIn(log, t, dl[d].sig) \/ FiredIn(dl[d].events, t, dl[d].sig)
    BY DEF Once, PendingOK
  <2> QED
    BY <2>1, <2>2 DEF Once, LedgerOK, EventsOK
<1>2. \A x \in runs : <<x.trig, x.sig>> \in ledger
  BY DEF Once, RunsOK, LedgerOK
<1> QED
  BY <1>1, <1>2

LEMMA OnceInit == Init => Once
<1> SUFFICES ASSUME Init PROVE Once
  OBVIOUS
<1>1. OperatorsOK
  BY DEF Init, OperatorsOK, NewOp, NoEvent, Event
<1>2. LedgerOK
  BY TriggerAssumption DEF Init, LedgerOK
<1>3. EventsOK
  BY FiredEmpty DEF Init, EventsOK, NewDelivery
<1>4. PendingOK /\ UniqueOK
  BY DEF Init, PendingOK, UniqueOK, NewDelivery
<1>5. RunsOK /\ NoDuplicateRuns
  BY DEF Init, RunsOK, NoDuplicateRuns
<1> QED
  BY <1>1, <1>2, <1>3, <1>4, <1>5 DEF Once

\* A delivery step that fires, logs and creates nothing.
LEMMA OnceMove ==
  ASSUME Base, Once, NEW d \in Deliveries, NEW x,
         dl' = [dl EXCEPT ![d] = x],
         x.pending = dl[d].pending,
         \A t, s : FiredIn(x.events, t, s) <=> FiredIn(dl[d].events, t, s),
         dl[d].pending # {} => x.sig = dl[d].sig,
         dl[d].pending # {} => (x.pc = "materialize" <=> dl[d].pc = "materialize"),
         UNCHANGED <<op, log, cursor, ledger, runs>>
  PROVE  Once'
<1>0. dl'[d] = x /\ \A c \in Deliveries \ {d} : dl'[c] = dl[c]
  BY DEF Base, RequestsOK
<1>1. OperatorsOK' /\ LedgerOK' /\ RunsOK' /\ NoDuplicateRuns'
  BY DEF Once, OperatorsOK, LedgerOK, RunsOK, NoDuplicateRuns
<1>2. EventsOK'
  BY <1>0 DEF Once, EventsOK
<1>3. PendingOK'
  BY <1>0 DEF Once, PendingOK
<1>4. UniqueOK'
  <2>1. \A c \in Deliveries : dl'[c].pending = dl[c].pending
          /\ (dl[c].pending # {} => dl'[c].sig = dl[c].sig)
    BY <1>0
  <2> QED
    BY <2>1 DEF Once, UniqueOK
<1> QED
  BY <1>1, <1>2, <1>3, <1>4 DEF Once

LEMMA OnceDelivery ==
  ASSUME Base, Once, NEW d \in Deliveries, DeliveryStep(d), "fail" \notin Env
  PROVE  Once'
<1> USE DEF service
<1>0. dl[d] \in DeliverySet /\ DOMAIN dl = Deliveries
  BY DEF Base, RequestsOK
<1>1. ASSUME NEW s \in Signals, Preview(d, s) PROVE Once'
  <2>1. PICK cand, over :
          dl' = [dl EXCEPT ![d].pc = "decide", ![d].sig = s, ![d].cand = cand,
                           ![d].over = over]
    BY <1>1, Zenon DEF Preview
  <2> DEFINE x == [dl[d] EXCEPT !.pc = "decide", !.sig = s, !.cand = cand,
                                !.over = over]
  <2>2. x.pending = dl[d].pending /\ x.events = dl[d].events
    BY <1>0 DEF DeliverySet
  <2>3. dl' = [dl EXCEPT ![d] = x]
    BY <2>1
  <2>4. dl[d].pc = "new" /\ UNCHANGED <<op, log, cursor, ledger, runs>>
    BY <1>1, Zenon DEF Preview
  <2>5. dl[d].pending = {}
    BY <2>4 DEF Base, PhaseOK
  <2> QED
    BY <2>2, <2>3, <2>4, <2>5, OnceMove
<1>2. ASSUME NEW ok \in SUBSET dl[d].cand, Decide(d, ok) PROVE Once'
  <2> DEFINE x == [dl[d] EXCEPT !.pc = "wait", !.ok = ok]
  <2>1. x.pending = dl[d].pending /\ x.events = dl[d].events
    BY <1>0 DEF DeliverySet
  <2>2. /\ dl' = [dl EXCEPT ![d] = x] /\ dl[d].pc = "decide"
        /\ UNCHANGED <<op, log, cursor, ledger, runs>>
    BY <1>2 DEF Decide
  <2>3. dl[d].pending = {}
    BY <2>2 DEF Base, PhaseOK
  <2> QED
    BY <2>1, <2>2, <2>3, OnceMove
<1>3. ASSUME Acquire(d) PROVE Once'
  <2> DEFINE left == Matching(dl[d].sig) \cap dl[d].cand
             x == [dl[d] EXCEPT !.pc = "evaluate", !.at = now, !.left = left]
  <2>1. x.pending = dl[d].pending /\ x.events = dl[d].events
    <3> HIDE DEF left
    <3> QED
      BY <1>0 DEF DeliverySet
  <2>2. /\ dl' = [dl EXCEPT ![d] = x] /\ dl[d].pc = "wait"
        /\ UNCHANGED <<op, log, cursor, ledger, runs>>
    BY <1>3 DEF Acquire
  <2>3. dl[d].pending = {}
    BY <2>2 DEF Base, PhaseOK
  <2> QED
    BY <2>1, <2>2, <2>3, OnceMove
<1>4. ASSUME NEW t \in dl[d].left, SkipOne(d, t) PROVE Once'
  <2> DEFINE x == [dl[d] EXCEPT !.left = @ \ {t}]
  <2>1. /\ x.pending = dl[d].pending /\ x.events = dl[d].events
        /\ x.sig = dl[d].sig /\ x.pc = dl[d].pc
    BY <1>0 DEF DeliverySet
  <2>2. /\ dl' = [dl EXCEPT ![d] = x]
        /\ UNCHANGED <<op, log, cursor, ledger, runs>>
    BY <1>4 DEF SkipOne
  <2> QED
    BY <2>1, <2>2, OnceMove
<1>5. ASSUME NEW t \in dl[d].left, SuspendOne(d, t) PROVE Once'
  <2> DEFINE e == Event("suspended", t)
             x == [dl[d] EXCEPT !.left = @ \ {t}, !.events = Append(@, e)]
  <2>1. e \in EventSet /\ e.kind = "suspended" /\ dl[d].events \in Seq(EventSet)
    BY <1>0, EventTyped DEF DeliverySet, Kinds, Event
  <2>2. /\ dl' = [dl EXCEPT ![d] = x]
        /\ UNCHANGED <<op, log, cursor, ledger, runs>>
    BY <1>5 DEF SuspendOne
  <2> HIDE DEF e
  <2>3. /\ x.pending = dl[d].pending /\ x.events = Append(dl[d].events, e)
        /\ x.sig = dl[d].sig /\ x.pc = dl[d].pc
    BY <1>0 DEF DeliverySet
  <2>4. \A u, s : FiredIn(x.events, u, s) <=> FiredIn(dl[d].events, u, s)
    BY <2>1, <2>3, FiredAppend
  <2> QED
    BY <2>2, <2>3, <2>4, OnceMove
<1>6. ASSUME NEW t \in dl[d].left, FireOne(d, t) PROVE Once'
  <2> DEFINE sig == dl[d].sig
             f == Fired(t, sig, dl[d].at)
  <2>1. /\ dl[d].pc = "evaluate" /\ cursor = 0
        /\ UNCHANGED <<op, log, cursor, runs>>
        /\ <<t, sig>> \notin ledger /\ ledger' = ledger \cup {<<t, sig>>}
        /\ dl' = [dl EXCEPT ![d].left = @ \ {t}, ![d].pending = @ \cup {t},
                            ![d].events = Append(@, f)]
    BY <1>6, UnderWay DEF FireOne, IsNext, Ready, Eligible, RecordFire
  <2>2. /\ t \in Triggers /\ sig \in SignalIds /\ f \in EventSet
        /\ f.kind = "fired" /\ f.id = t /\ f.sig = sig
    BY <1>0, FiredTyped DEF DeliverySet, Fired, SignalIds
  <2>3. /\ dl'[d].pending = dl[d].pending \cup {t} /\ dl'[d].sig = sig
        /\ dl'[d].events = Append(dl[d].events, f) /\ dl'[d].pc = "evaluate"
        /\ \A c \in Deliveries \ {d} : dl'[c] = dl[c]
    <3> HIDE DEF f
    <3> QED
      BY <1>0, <2>1 DEF DeliverySet
  <2>4. \A u, s : FiredIn(dl'[d].events, u, s) <=>
                    FiredIn(dl[d].events, u, s) \/ (u = t /\ s = sig)
    <3> HIDE DEF f
    <3> QED
      BY <1>0, <2>2, <2>3, FiredAppend DEF DeliverySet
  <2> HIDE DEF f
  <2>5. OperatorsOK' /\ LedgerOK' /\ RunsOK' /\ NoDuplicateRuns'
    BY <2>1 DEF Once, OperatorsOK, LedgerOK, RunsOK, NoDuplicateRuns
  <2>6. EventsOK'
    BY <2>1, <2>3, <2>4 DEF Once, EventsOK
  <2>7. PendingOK'
    <3>1. ASSUME NEW c \in Deliveries \ {d}, NEW u \in dl'[c].pending
          PROVE  IF dl'[c].pc = "materialize" THEN FiredIn(log', u, dl'[c].sig)
                 ELSE FiredIn(dl'[c].events, u, dl'[c].sig)
      <4>1. dl'[c] = dl[c] /\ log' = log
        BY <2>1, <2>3
      <4> QED
        BY <3>1, <4>1 DEF Once, PendingOK
    <3>2. ASSUME NEW u \in dl'[d].pending
          PROVE  FiredIn(dl'[d].events, u, dl'[d].sig)
      BY <2>1, <2>3, <2>4, <3>2 DEF Once, PendingOK
    <3>3. dl'[d].pc # "materialize"
      BY <2>3
    <3> QED
      BY <3>1, <3>2, <3>3 DEF PendingOK
  <2>8. /\ \A c \in Deliveries : t \in dl[c].pending => dl[c].sig # sig
        /\ \A x \in runs : ~(x.trig = t /\ x.sig = sig)
    BY <2>1, TakenIsRecorded
  <2>9. UniqueOK'
    <3>1. ASSUME NEW c \in Deliveries, NEW u \in dl'[c].pending
          PROVE  (u \in dl[c].pending \/ (c = d /\ u = t)) /\ dl'[c].sig = dl[c].sig
      BY <2>3, <3>1
    <3>2. ASSUME NEW c \in Deliveries, NEW u \in dl'[c].pending, NEW x \in runs'
          PROVE  ~(x.trig = u /\ x.sig = dl'[c].sig)
      <4>1. x \in runs /\ dl'[c].sig = dl[c].sig
        BY <2>1, <3>1, <3>2
      <4>2. CASE u \in dl[c].pending
        BY <4>1, <4>2 DEF Once, UniqueOK
      <4>3. CASE c = d /\ u = t
        BY <2>8, <4>1, <4>3
      <4> QED
        BY <3>1, <3>2, <4>2, <4>3
    <3>3. ASSUME NEW c \in Deliveries, NEW u \in dl'[c].pending,
                 NEW b \in Deliveries \ {c}, u \in dl'[b].pending
          PROVE  dl'[b].sig # dl'[c].sig
      <4>1. dl'[b].sig = dl[b].sig /\ dl'[c].sig = dl[c].sig
        BY <3>1, <3>3
      <4>2. u \in dl[c].pending \/ (c = d /\ u = t)
        BY <3>1, <3>3
      <4>3. u \in dl[b].pending \/ (b = d /\ u = t)
        BY <3>1, <3>3
      <4>4. CASE u \in dl[c].pending /\ u \in dl[b].pending
        BY <4>1, <4>4 DEF Once, UniqueOK
      <4>5. CASE ~(u \in dl[c].pending /\ u \in dl[b].pending)
        BY <2>8, <4>1, <4>2, <4>3, <4>5
      <4> QED
        BY <4>4, <4>5
    <3> QED
      BY <3>2, <3>3 DEF UniqueOK
  <2> QED
    BY <2>5, <2>6, <2>7, <2>9 DEF Once
<1>7. ASSUME Release(d) PROVE Once'
  <2> DEFINE x == [dl[d] EXCEPT !.pc = "append"]
  <2>1. /\ dl' = [dl EXCEPT ![d] = x] /\ dl[d].pc = "evaluate"
        /\ UNCHANGED <<op, log, cursor, ledger, runs>>
    BY <1>7 DEF Release
  <2>2. /\ x.pending = dl[d].pending /\ x.events = dl[d].events
        /\ x.sig = dl[d].sig /\ x.pc = "append"
    BY <1>0 DEF DeliverySet
  <2> QED
    BY <2>1, <2>2, OnceMove
<1>8. ASSUME AppendEvents(d) PROVE Once'
  <2>1. /\ dl[d].pc = "append" /\ cursor = 0 /\ UNCHANGED <<op, cursor, ledger, runs>>
        /\ log' = log \o dl[d].events
        /\ dl' = [dl EXCEPT ![d].pc = "materialize", ![d].events = <<>>]
    BY <1>8, UnderWay DEF AppendEvents
  <2>2. /\ dl'[d].pending = dl[d].pending /\ dl'[d].sig = dl[d].sig
        /\ dl'[d].pc = "materialize"
        /\ \A c \in Deliveries \ {d} : dl'[c] = dl[c]
    BY <1>0, <2>1 DEF DeliverySet
  <2>3. dl'[d].events = <<>>
    BY <1>0, <2>1, Zenon DEF DeliverySet
  <2>4. \A t, s : FiredIn(log', t, s) <=>
                    FiredIn(log, t, s) \/ FiredIn(dl[d].events, t, s)
    <3>1. log \in Seq(EventSet) /\ dl[d].events \in Seq(EventSet)
      BY <1>0 DEF Base, RequestsOK, DeliverySet
    <3> QED
      BY <2>1, <3>1, FiredConcat
  <2>5. OperatorsOK' /\ NoDuplicateRuns'
    BY <2>1 DEF Once, OperatorsOK, NoDuplicateRuns
  <2>6. LedgerOK'
    <3>1. \A i \in 1..Len(log') : ~(i < cursor')
      BY <2>1
    <3> QED
      BY <2>1, <2>4, <3>1 DEF Once, LedgerOK, EventsOK
  <2>7. EventsOK'
    BY <2>1, <2>2, <2>3, FiredEmpty DEF Once, EventsOK
  <2>8. PendingOK'
    BY <2>1, <2>2, <2>4 DEF Once, PendingOK
  <2>9. RunsOK'
    BY <2>1, <2>4 DEF Once, RunsOK
  <2>10. UniqueOK'
    <3>1. \A c \in Deliveries : dl'[c].pending = dl[c].pending /\ dl'[c].sig = dl[c].sig
      BY <2>2
    <3>2. runs' = runs
      BY <2>1
    <3> QED
      BY <3>1, <3>2, Zenon DEF Once, UniqueOK
  <2> QED
    BY <2>5, <2>6, <2>7, <2>8, <2>9, <2>10 DEF Once
<1>9. ASSUME NEW t \in dl[d].pending, Materialize(d, t) PROVE Once'
  <2> DEFINE r == [trig |-> t, sig |-> dl[d].sig, at |-> dl[d].at]
  <2>1. /\ dl[d].pc = "materialize" /\ UNCHANGED <<op, log, cursor, ledger>>
        /\ runs' \subseteq runs \cup {r}
        /\ dl' = [dl EXCEPT ![d].pending = @ \ {t}]
    BY <1>9 DEF Materialize
  <2>2. /\ dl'[d].pending = dl[d].pending \ {t} /\ dl'[d].sig = dl[d].sig
        /\ dl'[d].pc = dl[d].pc /\ dl'[d].events = dl[d].events
        /\ \A c \in Deliveries \ {d} : dl'[c] = dl[c]
    BY <1>0, <2>1 DEF DeliverySet
  <2>3. /\ r.trig = t /\ r.sig = dl[d].sig
        /\ t \in Triggers /\ dl[d].sig \in SignalIds
        /\ FiredIn(log, t, dl[d].sig)
    BY <1>0, <2>1 DEF DeliverySet, SignalIds, Once, PendingOK
  <2> HIDE DEF r
  <2>4. OperatorsOK' /\ LedgerOK'
    BY <2>1 DEF Once, OperatorsOK, LedgerOK
  <2>5. EventsOK' /\ PendingOK'
    BY <2>1, <2>2 DEF Once, EventsOK, PendingOK
  <2>6. RunsOK'
    BY <2>1, <2>3 DEF Once, RunsOK
  <2>7. \A x \in runs : ~(x.trig = t /\ x.sig = dl[d].sig)
    BY DEF Once, UniqueOK
  <2>8. NoDuplicateRuns'
    BY <2>1, <2>3, <2>7 DEF Once, NoDuplicateRuns
  <2>9. UniqueOK'
    <3>1. ASSUME NEW c \in Deliveries, NEW u \in dl'[c].pending
          PROVE  u \in dl[c].pending /\ dl'[c].sig = dl[c].sig /\ (c = d => u # t)
      BY <2>2, <3>1
    <3>2. ASSUME NEW c \in Deliveries, NEW u \in dl'[c].pending, NEW x \in runs'
          PROVE  ~(x.trig = u /\ x.sig = dl'[c].sig)
      <4>1. CASE x \in runs
        BY <3>1, <3>2, <4>1 DEF Once, UniqueOK
      <4>2. CASE x = r
        BY <2>3, <3>1, <3>2, <4>2 DEF Once, UniqueOK
      <4> QED
        BY <2>1, <3>2, <4>1, <4>2
    <3>3. ASSUME NEW c \in Deliveries, NEW u \in dl'[c].pending,
                 NEW b \in Deliveries \ {c}, u \in dl'[b].pending
          PROVE  dl'[b].sig # dl'[c].sig
      BY <3>1, <3>3 DEF Once, UniqueOK
    <3> QED
      BY <3>2, <3>3 DEF UniqueOK
  <2> QED
    BY <2>4, <2>5, <2>6, <2>8, <2>9 DEF Once
<1>10. ASSUME Respond(d) PROVE Once'
  <2> DEFINE x == [NewDelivery EXCEPT !.pc = "done", !.over = dl[d].over]
  <2>1. /\ dl' = [dl EXCEPT ![d] = x] /\ dl[d].pending = {}
        /\ dl[d].pc = "materialize"
        /\ UNCHANGED <<op, log, cursor, ledger, runs>>
    BY <1>10 DEF Respond
  <2>2. x.events = <<>> /\ x.pending = {}
    BY DEF NewDelivery
  <2>3. dl[d].events = <<>>
    BY <2>1 DEF Base, PhaseOK
  <2> HIDE DEF x
  <2> QED
    BY <2>1, <2>2, <2>3, OnceMove
<1> QED
  BY <1>1, <1>2, <1>3, <1>4, <1>5, <1>6, <1>7, <1>8, <1>9, <1>10 DEF DeliveryStep

LEMMA OperatorsStay ==
  ASSUME Base, OperatorsOK, NEW o \in Operators, OperatorStep(o)
  PROVE  OperatorsOK'
<1>1. ASSUME NEW e, e.kind # "fired", OpStart(o, e) PROVE OperatorsOK'
  <2> DEFINE y == [pc |-> "append", event |-> e]
  <2>1. op' = [op EXCEPT ![o] = y] /\ y.event = e
    BY <1>1 DEF OpStart
  <2> HIDE DEF y
  <2> QED
    BY <1>1, <2>1 DEF Base, RequestsOK, OperatorsOK
<1>2. \A kind, id : Event(kind, id).kind = kind
  BY DEF Event
<1>3. ASSUME NEW p \in Templates, CreateTemplate(o, p) \/ DeleteTemplate(o, p)
      PROVE  OperatorsOK'
  BY <1>1, <1>2, <1>3 DEF CreateTemplate, DeleteTemplate
<1>4. ASSUME NEW t \in Triggers,
             \/ CreateTrigger(o, t) \/ EnableTrigger(o, t) \/ DisableTrigger(o, t)
             \/ ResumeTrigger(o, t) \/ DeleteTrigger(o, t)
      PROVE  OperatorsOK'
  <2>1. \E kind \in {"trigger_created", "enabled", "disabled", "resumed", "deleted"} :
          OpStart(o, Event(kind, t))
    BY <1>4 DEF CreateTrigger, EnableTrigger, DisableTrigger, ResumeTrigger,
                DeleteTrigger, SetTrigger
  <2> QED
    BY <1>1, <1>2, <2>1
<1>5. ASSUME OpAppend(o) PROVE OperatorsOK'
  <2>1. op' = [op EXCEPT ![o].pc = "done"]
    BY <1>5 DEF OpAppend
  <2> QED
    BY <2>1 DEF Base, RequestsOK, OpSet, OperatorsOK
<1> QED
  BY <1>3, <1>4, <1>5 DEF OperatorStep

LEMMA OnceOperator ==
  ASSUME Base, Once, NEW o \in Operators, OperatorStep(o)
  PROVE  Once'
<1>1. /\ UNCHANGED <<dl, ledger, cursor, runs>>
      /\ UNCHANGED log \/ log' = Append(log, op[o].event)
      /\ op[o].event \in EventSet
  BY OperatorEffect
<1>2. OperatorsOK'
  BY OperatorsStay DEF Once
<1>3. \A t, s : FiredIn(log', t, s) <=> FiredIn(log, t, s)
  <2>1. CASE UNCHANGED log
    BY <2>1 DEF FiredIn
  <2>2. CASE log' = Append(log, op[o].event)
    <3>1. log \in Seq(EventSet) /\ op[o].event.kind # "fired"
      BY DEF Base, RequestsOK, Once, OperatorsOK
    <3>2. \A t, s : FiredIn(Append(log, op[o].event), t, s) <=> FiredIn(log, t, s)
      BY <1>1, <3>1, FiredAppend, Zenon
    <3> QED
      BY <2>2, <3>2
  <2> QED
    BY <1>1, <2>1, <2>2
<1>4. LedgerOK'
  <2>1. \A i \in 1..Len(log') : i < cursor' =>
          i \in 1..Len(log) /\ log'[i] = log[i]
    BY <1>1 DEF Base, RequestsOK
  <2> QED
    BY <1>1, <1>3, <2>1 DEF Once, LedgerOK
<1>5. EventsOK' /\ UniqueOK' /\ NoDuplicateRuns'
  BY <1>1 DEF Once, EventsOK, UniqueOK, NoDuplicateRuns
<1>6. PendingOK' /\ RunsOK'
  BY <1>1, <1>3 DEF Once, PendingOK, RunsOK
<1> QED
  BY <1>2, <1>4, <1>5, <1>6 DEF Once

LEMMA OnceRestart ==
  ASSUME Base, Once, Restart
  PROVE  Once'
<1>1. /\ op' = [o \in Operators |-> IF op[o].pc = "new" THEN op[o]
                                    ELSE [op[o] EXCEPT !.pc = "done"]]
      /\ cursor' = 1 /\ UNCHANGED <<log, runs>>
  BY DEF Restart
<1>2. \A d \in Deliveries : dl'[d].pending = {} /\ dl'[d].events = <<>>
  <2>1. Base'
    BY BaseRestart
  <2>2. \A d \in Deliveries : dl'[d].pc \in {"new", "done"}
    BY <1>1, <2>1 DEF Base, IdleWhileReplaying
  <2> QED
    BY <2>1, <2>2 DEF Base, PhaseOK
<1>3. OperatorsOK'
  BY <1>1 DEF Base, RequestsOK, OpSet, Once, OperatorsOK
<1>4. LedgerOK'
  BY <1>1 DEF LedgerOK, Base, RequestsOK
<1>5. EventsOK'
  BY <1>2, FiredEmpty DEF EventsOK
<1>6. PendingOK' /\ UniqueOK'
  BY <1>2 DEF PendingOK, UniqueOK
<1>7. RunsOK' /\ NoDuplicateRuns'
  BY <1>1 DEF Once, RunsOK, NoDuplicateRuns
<1> QED
  BY <1>3, <1>4, <1>5, <1>6, <1>7 DEF Once

LEMMA OnceReplay ==
  ASSUME Base, Once, Replay
  PROVE  Once'
<1>1. UNCHANGED <<dl, op, log, runs>>
  BY DEF Replay, ReplayTemplate, ReplayTrigger, ReplayFired, Serve, ReplayDone
<1>2. ledger \subseteq ledger'
  BY DEF Replay, ReplayTemplate, ReplayTrigger, ReplayFired, Serve, RecordFire, service
<1>3. OperatorsOK' /\ EventsOK' /\ PendingOK' /\ RunsOK' /\ UniqueOK' /\ NoDuplicateRuns'
  BY <1>1, <1>2 DEF Once, OperatorsOK, EventsOK, PendingOK, RunsOK, UniqueOK,
                    NoDuplicateRuns
<1>4. log \in Seq(EventSet) /\ cursor \in 0..(Len(log) + 1)
  BY DEF Base, RequestsOK
<1>5. CASE Serve
  <2>1. cursor = Len(log) + 1 /\ cursor' = 0 /\ UNCHANGED ledger
    BY <1>5 DEF Serve, service
  <2>2. \A i \in 1..Len(log) : log[i].kind = "fired" =>
          <<log[i].id, log[i].sig>> \in ledger
    BY <1>4, <2>1 DEF Once, LedgerOK
  <2> QED
    BY <1>1, <1>3, <2>1, <2>2 DEF Once, LedgerOK, FiredIn
<1>6. CASE ReplayTemplate \/ ReplayTrigger \/ ReplayFired
  <2>1. /\ cursor \in 1..Len(log) /\ cursor' = cursor + 1
        /\ log[cursor].kind = "fired" =>
             <<log[cursor].id, log[cursor].sig>> \in ledger'
    BY <1>6 DEF ReplayTemplate, ReplayTrigger, ReplayFired, Replaying, RecordFire
  <2>2. \A i \in 1..Len(log) : i < cursor' => i < cursor \/ i = cursor
    BY <1>4, <2>1
  <2>3. cursor' # 0
    BY <1>4, <2>1
  <2> QED
    BY <1>1, <1>2, <1>3, <2>1, <2>2, <2>3 DEF Once, LedgerOK
<1> QED
  BY <1>5, <1>6 DEF Replay

LEMMA OnceStep ==
  ASSUME "fail" \notin Env
  PROVE  Base /\ Once /\ [Next]_vars => Base' /\ Once'
<1> SUFFICES ASSUME Base, Once, [Next]_vars PROVE Base' /\ Once'
  OBVIOUS
<1>1. Base'
  BY BaseStep
<1>2. CASE Tick \/ UNCHANGED vars
  BY <1>1, <1>2 DEF Tick, vars, service, Once, OperatorsOK, LedgerOK, EventsOK,
                    PendingOK, RunsOK, UniqueOK, NoDuplicateRuns
<1> QED
  BY <1>1, <1>2, OnceDelivery, OnceOperator, OnceRestart, OnceReplay DEF Next

\* When the appends of trigger events succeed, a signal creates at most one run
\* through a trigger, whatever deliveries overlap, however often the signal is
\* delivered and wherever the process restarts.
THEOREM RunsAreUnique ==
  ASSUME "fail" \notin Env
  PROVE  Spec => []NoDuplicateRuns
<1>1. Init => Base /\ Once
  BY BaseInit, OnceInit
<1>2. Base /\ Once /\ [Next]_vars => (Base /\ Once)'
  BY OnceStep
<1>3. Base /\ Once => NoDuplicateRuns
  BY DEF Once
<1> QED
  BY <1>1, <1>2, <1>3, PTL DEF Spec

-----------------------------------------------------------------------------
(* Recent: the entries of a window, and how appending and pruning change   *)
(* them.                                                                   *)

\* The recursion behind Recent.
Keeps(k, times, at, window) ==
  [i \in 0..Len(times) |->
     IF i = 0 THEN <<>>
     ELSE IF times[i] + window > at THEN Append(k[i - 1], times[i])
     ELSE k[i - 1]]

LEMMA RecentUnfolds ==
  ASSUME NEW times, NEW at, NEW window
  PROVE  Recent(times, at, window)
           = (CHOOSE k : k = Keeps(k, times, at, window))[Len(times)]
BY DEF Recent, Keeps

LEMMA LeastNatural ==
  ASSUME NEW T, T \subseteq Nat, T # {}
  PROVE  \E x \in T : \A y \in T : x <= y
<1> DEFINE R == OpToRel(<, Nat)
<1>1. IsWellFoundedOn(R, Nat)
  BY NatLessThanWellFounded
<1>2. \A x, y \in Nat : y < x => <<y, x>> \in R
  BY DEF OpToRel
<1> HIDE DEF R
<1>3. PICK x \in T : \A y \in T : ~ (<<y, x>> \in R)
  BY <1>1, WFMin
<1>4. \A y \in T : x \in Nat /\ y \in Nat /\ ~(y < x)
  BY <1>2, <1>3
<1> QED
  BY <1>4

\* A set that holds 0 and each successor holds every natural number up to n.
LEMMA UpToHolds ==
  ASSUME NEW n \in Nat, NEW P, 0 \in P, \A i \in 1..n : i - 1 \in P => i \in P
  PROVE  \A i \in 0..n : i \in P
<1> DEFINE T == {i \in 0..n : i \notin P}
<1> SUFFICES ASSUME T # {} PROVE FALSE
  OBVIOUS
<1>1. PICK x \in T : \A y \in T : x <= y
  <2>1. T \subseteq Nat
    OBVIOUS
  <2> QED
    BY <2>1, LeastNatural
<1>2. x \in 1..n /\ x - 1 \in 0..n /\ ~(x <= x - 1)
  BY <1>1
<1>3. x - 1 \in P
  BY <1>1, <1>2
<1> QED
  BY <1>1, <1>2, <1>3

\* The first n steps of the recursion.
Chain(k, times, at, window, n) ==
  /\ k \in [0..n -> Seq(Nat)] /\ k[0] = <<>>
  /\ \A i \in 1..n :
       k[i] = IF times[i] + window > at THEN Append(k[i - 1], times[i]) ELSE k[i - 1]

LEMMA ChainExists ==
  ASSUME NEW times \in Seq(Nat), NEW at \in Nat, NEW window \in Nat
  PROVE  \E k : Chain(k, times, at, window, Len(times))
<1> DEFINE P == {n \in 0..Len(times) : \E k : Chain(k, times, at, window, n)}
<1>1. 0 \in P
  <2>1. Chain([i \in 0..0 |-> <<>>], times, at, window, 0)
    BY DEF Chain
  <2> QED
    BY <2>1
<1>2. ASSUME NEW n \in 1..Len(times), n - 1 \in P
      PROVE  n \in P
  <2>1. PICK k : Chain(k, times, at, window, n - 1)
    BY <1>2
  <2>2. /\ k \in [0..(n - 1) -> Seq(Nat)] /\ k[0] = <<>>
        /\ \A i \in 1..(n - 1) :
             k[i] = IF times[i] + window > at THEN Append(k[i - 1], times[i]) ELSE k[i - 1]
    BY <2>1 DEF Chain
  <2> DEFINE last == IF times[n] + window > at THEN Append(k[n - 1], times[n]) ELSE k[n - 1]
             j == [i \in 0..n |-> IF i = n THEN last ELSE k[i]]
  <2>3. last \in Seq(Nat)
    <3>1. k[n - 1] \in Seq(Nat) /\ times[n] \in Nat
      BY <2>2
    <3>2. Append(k[n - 1], times[n]) \in Seq(Nat)
      BY <3>1
    <3> QED
      BY <3>1, <3>2
  <2>4. \A i \in 0..n : i # n => i \in 0..(n - 1)
    OBVIOUS
  <2> HIDE DEF last
  <2>5. j \in [0..n -> Seq(Nat)] /\ j[0] = <<>>
    BY <2>2, <2>3, <2>4
  <2>6. ASSUME NEW i \in 1..n
        PROVE  j[i] = IF times[i] + window > at THEN Append(j[i - 1], times[i]) ELSE j[i - 1]
    <3>1. i - 1 \in 0..(n - 1) /\ i - 1 # n /\ j[i - 1] = k[i - 1]
      BY <2>4
    <3>2. CASE i = n
      BY <3>1, <3>2 DEF last
    <3>3. CASE i # n
      <4>1. i \in 1..(n - 1) /\ j[i] = k[i]
        BY <3>3
      <4> QED
        BY <2>2, <3>1, <4>1
    <3> QED
      BY <3>2, <3>3
  <2>7. Chain(j, times, at, window, n)
    BY <2>5, <2>6 DEF Chain
  <2> QED
    BY <2>7
<1>3. Len(times) \in Nat /\ Len(times) \in 0..Len(times)
  OBVIOUS
<1>4. \A i \in 0..Len(times) : i \in P
  BY <1>1, <1>2, <1>3, UpToHolds
<1> QED
  BY <1>3, <1>4

LEMMA ChainUnique ==
  ASSUME NEW times, NEW u, NEW at, NEW window, NEW n \in Nat, NEW m \in Nat, n <= m,
         NEW j, NEW k, Chain(j, times, at, window, n), Chain(k, u, at, window, m),
         \A i \in 1..n : u[i] = times[i]
  PROVE  \A i \in 0..n : j[i] = k[i]
<1> DEFINE P == {i \in 0..n : j[i] = k[i]}
<1>1. 0 \in P
  BY DEF Chain
<1>2. ASSUME NEW i \in 1..n, i - 1 \in P
      PROVE  i \in P
  <2>1. i \in 1..m /\ j[i - 1] = k[i - 1] /\ u[i] = times[i]
    BY <1>2
  <2>2. j[i] = IF times[i] + window > at THEN Append(j[i - 1], times[i]) ELSE j[i - 1]
    BY <1>2 DEF Chain
  <2>3. k[i] = IF u[i] + window > at THEN Append(k[i - 1], u[i]) ELSE k[i - 1]
    BY <2>1 DEF Chain
  <2> QED
    BY <2>1, <2>2, <2>3
<1>3. \A i \in 0..n : i \in P
  BY <1>1, <1>2, UpToHolds
<1> QED
  BY <1>3

LEMMA RecentChain ==
  ASSUME NEW times \in Seq(Nat), NEW at \in Nat, NEW window \in Nat
  PROVE  \E k : Chain(k, times, at, window, Len(times)) /\ Recent(times, at, window) = k[Len(times)]
<1> DEFINE n == Len(times)
<1>0. n \in Nat /\ 0 \in 0..n /\ n \in 0..n /\ \A i \in 0..n : i # 0 => i \in 1..n
  OBVIOUS
<1>1. PICK h : Chain(h, times, at, window, n)
  BY ChainExists
<1>2. h = Keeps(h, times, at, window)
  <2>1. h = [i \in 0..n |-> h[i]]
    BY <1>1 DEF Chain
  <2>2. ASSUME NEW i \in 0..n
        PROVE  h[i] = IF i = 0 THEN <<>>
                      ELSE IF times[i] + window > at THEN Append(h[i - 1], times[i])
                      ELSE h[i - 1]
    <3>1. h[0] = <<>>
      BY <1>1 DEF Chain
    <3>2. i # 0 => h[i] = IF times[i] + window > at THEN Append(h[i - 1], times[i])
                          ELSE h[i - 1]
      BY <1>0, <1>1 DEF Chain
    <3> QED
      BY <3>1, <3>2
  <2> QED
    BY <2>1, <2>2 DEF Keeps
<1> DEFINE k == CHOOSE g : g = Keeps(g, times, at, window)
<1>3. k = Keeps(k, times, at, window)
  BY <1>2
<1>4. Recent(times, at, window) = k[n]
  BY RecentUnfolds
<1> HIDE DEF k
<1>5. DOMAIN k = 0..n /\ k = [i \in 0..n |-> k[i]]
  BY <1>3 DEF Keeps
<1>6. k[0] = <<>>
  BY <1>0, <1>3 DEF Keeps
<1>7. ASSUME NEW i \in 1..n
      PROVE  k[i] = IF times[i] + window > at THEN Append(k[i - 1], times[i]) ELSE k[i - 1]
  <2>1. i \in 0..n /\ i # 0
    BY <1>0
  <2> QED
    BY <1>3, <2>1 DEF Keeps
<1> DEFINE P == {i \in 0..n : k[i] \in Seq(Nat)}
<1>8. 0 \in P
  <2>1. <<>> \in Seq(Nat)
    OBVIOUS
  <2> QED
    BY <1>0, <1>6, <2>1, Zenon
<1>9. ASSUME NEW i \in 1..n, i - 1 \in P
      PROVE  i \in P
  <2>1. k[i - 1] \in Seq(Nat) /\ times[i] \in Nat /\ i \in 0..n
    BY <1>9
  <2>2. Append(k[i - 1], times[i]) \in Seq(Nat)
    BY <2>1
  <2>3. k[i] \in Seq(Nat)
    BY <1>7, <2>1, <2>2
  <2> QED
    BY <2>1, <2>3
<1>10. \A i \in 0..n : i \in P
  <2> HIDE DEF P
  <2> QED
    BY <1>0, <1>8, <1>9, UpToHolds
<1>11. k \in [0..n -> Seq(Nat)]
  BY <1>5, <1>10
<1>12. Chain(k, times, at, window, n)
  BY <1>6, <1>7, <1>11 DEF Chain
<1> QED
  BY <1>4, <1>12

LEMMA RecentTyped ==
  ASSUME NEW times \in Seq(Nat), NEW at \in Nat, NEW window \in Nat
  PROVE  Recent(times, at, window) \in Seq(Nat)
<1>1. PICK k : Chain(k, times, at, window, Len(times)) /\ Recent(times, at, window) = k[Len(times)]
  BY RecentChain
<1>2. Len(times) \in 0..Len(times)
  OBVIOUS
<1> QED
  BY <1>1, <1>2 DEF Chain

LEMMA RecentEmpty ==
  ASSUME NEW at \in Nat, NEW window \in Nat
  PROVE  Recent(<<>>, at, window) = <<>>
<1>1. <<>> \in Seq(Nat) /\ Len(<<>>) = 0
  OBVIOUS
<1>2. PICK k : Chain(k, <<>>, at, window, 0) /\ Recent(<<>>, at, window) = k[0]
  BY <1>1, RecentChain
<1> QED
  BY <1>2 DEF Chain

LEMMA RecentAppend ==
  ASSUME NEW times \in Seq(Nat), NEW x \in Nat, NEW at \in Nat, NEW window \in Nat
  PROVE  Recent(Append(times, x), at, window) =
           IF x + window > at THEN Append(Recent(times, at, window), x)
           ELSE Recent(times, at, window)
<1> DEFINE n == Len(times)
           u == Append(times, x)
<1>1. u \in Seq(Nat) /\ Len(u) = n + 1 /\ u[n + 1] = x /\ \A i \in 1..n : u[i] = times[i]
  OBVIOUS
<1>2. PICK j : Chain(j, times, at, window, n) /\ Recent(times, at, window) = j[n]
  BY RecentChain
<1>4. n \in Nat /\ n + 1 \in Nat /\ n <= n + 1 /\ n \in 0..n /\ n + 1 \in 1..(n + 1)
      /\ (n + 1) - 1 = n
  OBVIOUS
<1> HIDE DEF u, n
<1>3. PICK k : Chain(k, u, at, window, n + 1) /\ Recent(u, at, window) = k[n + 1]
  <2>1. \E k : Chain(k, u, at, window, Len(u)) /\ Recent(u, at, window) = k[Len(u)]
    BY <1>1, RecentChain, Zenon
  <2> QED
    BY <1>1, <2>1, Zenon
<1>5. j[n] = k[n]
  BY <1>1, <1>2, <1>3, <1>4, ChainUnique
<1>6. k[n + 1] = IF u[n + 1] + window > at THEN Append(k[n], u[n + 1]) ELSE k[n]
  BY <1>3, <1>4 DEF Chain
<1> QED
  BY <1>1, <1>2, <1>3, <1>5, <1>6 DEF u

\* Pruning at a time removes nothing that a later window would hold.
LEMMA RecentOfRecent ==
  ASSUME NEW times \in Seq(Nat), NEW at \in Nat, NEW later \in Nat, at <= later,
         NEW window \in Nat
  PROVE  Recent(Recent(times, at, window), later, window) = Recent(times, later, window)
<1> DEFINE n == Len(times)
<1>1. PICK j : Chain(j, times, at, window, n) /\ Recent(times, at, window) = j[n]
  BY RecentChain
<1>2. PICK k : Chain(k, times, later, window, n) /\ Recent(times, later, window) = k[n]
  BY RecentChain
<1>3. n \in Nat /\ n \in 0..n /\ \A i \in 1..n : times[i] \in Nat
  OBVIOUS
<1> HIDE DEF n
<1> DEFINE P == {i \in 0..n : Recent(j[i], later, window) = k[i]}
<1>4. 0 \in P
  BY <1>1, <1>2, <1>3, RecentEmpty DEF Chain
<1>5. ASSUME NEW i \in 1..n, i - 1 \in P
      PROVE  i \in P
  <2>1. Recent(j[i - 1], later, window) = k[i - 1] /\ j[i - 1] \in Seq(Nat)
    BY <1>1, <1>3, <1>5 DEF Chain
  <2>2. /\ j[i] = IF times[i] + window > at THEN Append(j[i - 1], times[i]) ELSE j[i - 1]
        /\ k[i] = IF times[i] + window > later THEN Append(k[i - 1], times[i]) ELSE k[i - 1]
    BY <1>1, <1>2 DEF Chain
  <2>3. Recent(Append(j[i - 1], times[i]), later, window) =
          IF times[i] + window > later THEN Append(k[i - 1], times[i]) ELSE k[i - 1]
    <3>1. \A s \in Seq(Nat), x \in Nat :
            Recent(Append(s, x), later, window) =
              IF x + window > later THEN Append(Recent(s, later, window), x)
              ELSE Recent(s, later, window)
      BY RecentAppend
    <3>2. times[i] \in Nat
      BY <1>3
    <3> QED
      BY <2>1, <3>1, <3>2
  <2>4. times[i] + window > later => times[i] + window > at
    BY <1>3
  <2> QED
    BY <1>3, <2>1, <2>2, <2>3, <2>4
<1>6. \A i \in 0..n : i \in P
  BY <1>3, <1>4, <1>5, UpToHolds
<1> QED
  BY <1>1, <1>2, <1>3, <1>6

\* An entry is pruned and pushed, as record_fire does: the later windows have
\* one entry more, if it is inside them.
LEMMA RecentPushed ==
  ASSUME NEW times \in Seq(Nat), NEW at \in Nat, NEW later \in Nat, at <= later,
         NEW window \in Nat
  PROVE  LET pushed == Append(Recent(times, at, window), at) IN
         /\ pushed \in Seq(Nat)
         /\ Len(Recent(times, later, window)) \in Nat
         /\ Len(Recent(pushed, later, window)) =
              IF at + window > later THEN Len(Recent(times, later, window)) + 1
              ELSE Len(Recent(times, later, window))
<1> DEFINE kept == Recent(times, at, window)
           rest == Recent(times, later, window)
<1>1. kept \in Seq(Nat) /\ rest \in Seq(Nat) /\ Recent(kept, later, window) = rest
  BY RecentTyped, RecentOfRecent
<1> HIDE DEF kept, rest
<1>2. Recent(Append(kept, at), later, window) =
        IF at + window > later THEN Append(rest, at) ELSE rest
  BY <1>1, RecentAppend
<1>3. Append(kept, at) \in Seq(Nat) /\ Len(rest) \in Nat /\ Len(Append(rest, at)) = Len(rest) + 1
  BY <1>1
<1> QED
  BY <1>2, <1>3 DEF kept, rest

-----------------------------------------------------------------------------
(* The rolling windows.  The fires that a process knows of (logged, about  *)
(* to be logged or, during replay, gone through so far) and that are still *)
(* inside a window are at most as many as its entries; what fires then has *)
(* at most the limit behind it.                                            *)

\* The fires among the events of a sequence.
FiresIn(seq) == {e \in {seq[i] : i \in 1..Len(seq)} : e.kind = "fired"}

FireSet == [kind : {"fired"}, id : Triggers, sig : Signals, at : Nat]

\* The fires on record: logged, or about to be.
Fires == FiresIn(log) \cup UNION {FiresIn(dl[d].events) : d \in Deliveries}

Known ==
  IF cursor = 0 THEN Fires
  ELSE {e \in {log[i] : i \in 1..(cursor - 1)} : e.kind = "fired"}

\* No fire is later than this.
Clock == IF lock = NoDelivery THEN now ELSE dl[lock].at

\* The fires of the triggers T whose time is in the window that ends at time
\* at, or will be if it comes to that time.
Since(E, T, window, at) == {e \in E : e.id \in T /\ e.at + window > at}

\* ... and those until then.
Within(E, T, window, at) == {e \in Since(E, T, window, at) : e.at <= at}

AtMost(S, n) == IsFiniteSet(S) /\ Cardinality(S) <= n

FiresTyped == Fires \subseteq FireSet

FiresPast == \A e \in Fires : e.at <= Clock

SigTyped ==
  \A d \in Deliveries : dl[d].pc \notin {"new", "done"} => dl[d].sig \in Signals

\* The mutex is held by the delivery that evaluates.
Locked ==
  /\ lock \in Deliveries \cup {NoDelivery}
  /\ \A d \in Deliveries : dl[d].pc = "evaluate" <=> lock = d
  /\ \A d \in Deliveries : dl[d].at <= now

WindowsTyped == counts \in [Triggers -> Seq(Nat)] /\ budget \in Seq(Nat)

\* The windows of later times, whichever they are, cover the fires.
WindowsCover ==
  \A at \in Nat : at >= Clock =>
    /\ AtMost(Since(Known, Triggers, Hour, at), Len(Recent(budget, at, Hour)))
    /\ \A t \in Triggers :
         AtMost(Since(Known, {t}, Minute, at), Len(Recent(counts[t], at, Minute)))

\* The fires that have created their run, or are about to.
Made ==
  {Fired(x.trig, x.sig, x.at) : x \in runs} \cup
  UNION {{Fired(t, dl[d].sig, dl[d].at) : t \in dl[d].pending} : d \in Deliveries}

MadeKnown ==
  /\ \A x \in runs : Fired(x.trig, x.sig, x.at) \in FiresIn(log)
  /\ \A d \in Deliveries : \A t \in dl[d].pending :
       Fired(t, dl[d].sig, dl[d].at) \in
         IF dl[d].pc = "materialize" THEN FiresIn(log) ELSE FiresIn(dl[d].events)

MadeInLimits ==
  \A f \in Made :
    /\ AtMost(Within(Made, {f.id}, Minute, f.at), MaxPerMinute)
    /\ AtMost(Within(Made, Triggers, Hour, f.at), Budget)

LEMMA FiresAppend ==
  ASSUME NEW q \in Seq(EventSet), NEW e \in EventSet
  PROVE  FiresIn(Append(q, e)) =
           IF e.kind = "fired" THEN FiresIn(q) \cup {e} ELSE FiresIn(q)
<1>1. /\ Len(Append(q, e)) = Len(q) + 1 /\ Append(q, e)[Len(q) + 1] = e
      /\ \A i \in 1..Len(q) : Append(q, e)[i] = q[i]
  OBVIOUS
<1>2. \A i : i \in 1..(Len(q) + 1) <=> i \in 1..Len(q) \/ i = Len(q) + 1
  OBVIOUS
<1> QED
  BY <1>1, <1>2 DEF FiresIn

LEMMA FiresConcat ==
  ASSUME NEW q \in Seq(EventSet), NEW r \in Seq(EventSet)
  PROVE  FiresIn(q \o r) = FiresIn(q) \cup FiresIn(r)
<1> DEFINE c == q \o r
<1>1. /\ Len(c) = Len(q) + Len(r) /\ Len(q) \in Nat /\ Len(r) \in Nat
      /\ \A i \in 1..Len(q) : c[i] = q[i]
      /\ \A i \in 1..Len(r) : c[Len(q) + i] = r[i]
  OBVIOUS
<1> HIDE DEF c
<1>2. ASSUME NEW i \in 1..Len(c)
      PROVE  (\E j \in 1..Len(q) : c[i] = q[j]) \/ (\E j \in 1..Len(r) : c[i] = r[j])
  <2>1. CASE i \in 1..Len(q)
    BY <1>1, <2>1
  <2>2. CASE i \notin 1..Len(q)
    <3>1. i - Len(q) \in 1..Len(r) /\ i = Len(q) + (i - Len(q))
      BY <1>1, <2>2
    <3> QED
      BY <1>1, <3>1
  <2> QED
    BY <2>1, <2>2
<1>3. \A i \in 1..Len(q) : i \in 1..Len(c)
  BY <1>1
<1>4. \A i \in 1..Len(r) : Len(q) + i \in 1..Len(c)
  BY <1>1
<1>5. ASSUME NEW e PROVE e \in FiresIn(c) <=> e \in FiresIn(q) \cup FiresIn(r)
  <2>1. ASSUME e \in FiresIn(c) PROVE e \in FiresIn(q) \cup FiresIn(r)
    BY <1>2, <2>1 DEF FiresIn
  <2>2. ASSUME e \in FiresIn(q) PROVE e \in FiresIn(c)
    BY <1>1, <1>3, <2>2 DEF FiresIn
  <2>3. ASSUME e \in FiresIn(r) PROVE e \in FiresIn(c)
    BY <1>1, <1>4, <2>3 DEF FiresIn
  <2> QED
    BY <2>1, <2>2, <2>3
<1> QED
  BY <1>5 DEF c

LEMMA FiresEmpty == FiresIn(<<>>) = {}
BY DEF FiresIn

LEMMA AtMostSubset ==
  ASSUME NEW S, NEW n \in Nat, AtMost(S, n), NEW T, T \subseteq S
  PROVE  AtMost(T, n)
<1>1. IsFiniteSet(S) /\ Cardinality(S) <= n
  BY DEF AtMost
<1>2. IsFiniteSet(T) /\ Cardinality(T) <= Cardinality(S)
  BY <1>1, FS_Subset
<1>3. Cardinality(T) \in Nat /\ Cardinality(S) \in Nat
  BY <1>1, <1>2, FS_CardinalityType
<1> QED
  BY <1>1, <1>2, <1>3 DEF AtMost

LEMMA AtMostOneMore ==
  ASSUME NEW S, NEW n \in Nat, AtMost(S, n), NEW x
  PROVE  AtMost(S \cup {x}, n + 1)
<1>1. IsFiniteSet(S) /\ Cardinality(S) <= n
  BY DEF AtMost
<1>2. /\ IsFiniteSet(S \cup {x})
      /\ Cardinality(S \cup {x}) = IF x \in S THEN Cardinality(S) ELSE Cardinality(S) + 1
  BY <1>1, FS_AddElement
<1>3. Cardinality(S) \in Nat
  BY <1>1, FS_CardinalityType
<1> QED
  BY <1>1, <1>2, <1>3 DEF AtMost

LEMMA AtMostEmpty == \A n \in Nat : AtMost({}, n)
BY FS_EmptySet DEF AtMost

LEMMA AtMostMore ==
  ASSUME NEW S, NEW n \in Nat, AtMost(S, n), NEW m \in Nat, n <= m
  PROVE  AtMost(S, m)
<1>1. IsFiniteSet(S) /\ Cardinality(S) <= n /\ Cardinality(S) \in Nat
  BY FS_CardinalityType DEF AtMost
<1> QED
  BY <1>1 DEF AtMost

\* A fire at a time at which the window has fewer entries than the limit.
LEMMA FireInLimit ==
  ASSUME NEW M, NEW E, M \subseteq E, E \subseteq FireSet, NEW f \in FireSet,
         NEW T, NEW window \in Nat, NEW n \in Nat, NEW limit \in Nat, n < limit,
         AtMost(Since(E, T, window, f.at), n)
  PROVE  AtMost(Within(M \cup {f}, T, window, f.at), limit)
<1>1. Within(M \cup {f}, T, window, f.at) \subseteq Since(E, T, window, f.at) \cup {f}
  BY DEF Within, Since
<1>2. AtMost(Since(E, T, window, f.at) \cup {f}, n + 1)
  BY AtMostOneMore
<1>3. AtMost(Within(M \cup {f}, T, window, f.at), n + 1)
  BY <1>1, <1>2, AtMostSubset
<1> QED
  BY <1>3, AtMostMore

\* The latest fire leaves the windows of the others as they were, except those
\* that end when it happens and count it.
LEMMA OthersInLimit ==
  ASSUME NEW M, NEW f, NEW T, NEW window, NEW at, NEW limit \in Nat,
         AtMost(Within(M, T, window, at), limit), f.id \notin T \/ ~(f.at <= at)
  PROVE  AtMost(Within(M \cup {f}, T, window, at), limit)
<1>1. Within(M \cup {f}, T, window, at) \subseteq Within(M, T, window, at)
  BY DEF Within, Since
<1> QED
  BY <1>1, AtMostSubset

\* What the windows have to know about the steps of a delivery.
Moves(d) ==
  /\ FiresIn(dl'[d].events) = FiresIn(dl[d].events)
  /\ dl'[d].pending = dl[d].pending
  /\ dl[d].pending # {} =>
       /\ dl'[d].sig = dl[d].sig /\ dl'[d].at = dl[d].at
       /\ dl'[d].pc = "materialize" <=> dl[d].pc = "materialize"
  /\ UNCHANGED <<ledger, counts, budget, log, runs>>

Logs(d) ==
  /\ dl[d].pc = "append" /\ dl'[d].pc = "materialize"
  /\ dl'[d].events = <<>> /\ dl'[d].pending = dl[d].pending
  /\ dl'[d].sig = dl[d].sig /\ dl'[d].at = dl[d].at
  /\ (log' = log \o dl[d].events) \/ ("fail" \in Env /\ log' = log)
  /\ UNCHANGED <<ledger, counts, budget, runs>>

Creates(d, t) ==
  /\ dl[d].pc = "materialize" /\ dl'[d].pc = "materialize"
  /\ dl'[d].events = dl[d].events /\ dl'[d].pending = dl[d].pending \ {t}
  /\ dl'[d].sig = dl[d].sig /\ dl'[d].at = dl[d].at
  /\ runs' \subseteq runs \cup {[trig |-> t, sig |-> dl[d].sig, at |-> dl[d].at]}
  /\ UNCHANGED <<ledger, counts, budget, log>>

FiresOne(d, t) ==
  /\ dl[d].pc = "evaluate" /\ dl'[d].pc = "evaluate"
  /\ dl'[d].events = Append(dl[d].events, Fired(t, dl[d].sig, dl[d].at))
  /\ dl'[d].pending = dl[d].pending \cup {t}
  /\ dl'[d].sig = dl[d].sig /\ dl'[d].at = dl[d].at
  /\ Ready(t, dl[d].sig, dl[d].at) /\ RecordFire(t, dl[d].sig, dl[d].at)
  /\ UNCHANGED <<log, runs>>

\* ... and about the mutex.
LockMoves(d) ==
  /\ \/ /\ lock' = lock /\ (dl'[d].pc = "evaluate" <=> dl[d].pc = "evaluate")
        /\ dl[d].pc = "evaluate" => dl'[d].at = dl[d].at
     \/ /\ lock = NoDelivery /\ lock' = d
        /\ dl'[d].pc = "evaluate" /\ dl'[d].at = now
     \/ dl[d].pc = "evaluate" /\ lock' = NoDelivery /\ dl'[d].pc # "evaluate"
  /\ dl'[d].at \in {dl[d].at, now, 0}

Effect(d) ==
  /\ Moves(d) \/ Logs(d) \/ (\E t \in dl[d].pending : Creates(d, t))
       \/ (\E t \in dl[d].left : FiresOne(d, t))
  /\ LockMoves(d)
  /\ dl'[d].pc = "done" \/ dl'[d].sig \in Signals
  /\ cursor = 0 /\ UNCHANGED <<op, cursor, now>>
  /\ \A c \in Deliveries \ {d} : dl'[c] = dl[c]

LEMMA DeliveryEffect ==
  ASSUME Base, SigTyped, NEW d \in Deliveries, DeliveryStep(d)
  PROVE  Effect(d)
<1> USE DEF service
<1>0. dl[d] \in DeliverySet /\ DOMAIN dl = Deliveries
  BY DEF Base, RequestsOK
<1>a. dl[d].pc \notin {"new", "done"} => dl[d].sig \in Signals /\ cursor = 0
  BY UnderWay DEF SigTyped
<1>b. ASSUME NEW x, dl' = [dl EXCEPT ![d] = x]
      PROVE  dl'[d] = x /\ \A c \in Deliveries \ {d} : dl'[c] = dl[c]
  BY <1>0, <1>b
<1>1. ASSUME NEW s \in Signals, Preview(d, s) PROVE Effect(d)
  <2>1. PICK cand, over :
          dl' = [dl EXCEPT ![d].pc = "decide", ![d].sig = s, ![d].cand = cand,
                           ![d].over = over]
    BY <1>1, Zenon DEF Preview
  <2> DEFINE x == [dl[d] EXCEPT !.pc = "decide", !.sig = s, !.cand = cand,
                                !.over = over]
  <2>2. /\ x.pc = "decide" /\ x.sig = s /\ x.at = dl[d].at
        /\ x.pending = dl[d].pending /\ x.events = dl[d].events
    BY <1>0 DEF DeliverySet
  <2>3. dl' = [dl EXCEPT ![d] = x]
    BY <2>1
  <2>4. /\ dl[d].pc = "new" /\ cursor = 0
        /\ UNCHANGED <<ledger, counts, budget, lock, op, log, cursor, runs, now>>
    BY <1>1, Zenon DEF Preview, MayStart, Serving
  <2>5. dl[d].pending = {}
    BY <2>4 DEF Base, PhaseOK
  <2> HIDE DEF x
  <2>6. dl'[d] = x /\ \A c \in Deliveries \ {d} : dl'[c] = dl[c]
    BY <1>b, <2>3
  <2> QED
    BY <2>2, <2>4, <2>5, <2>6 DEF Effect, Moves, LockMoves
<1>2. ASSUME NEW ok \in SUBSET dl[d].cand, Decide(d, ok) PROVE Effect(d)
  <2> DEFINE x == [dl[d] EXCEPT !.pc = "wait", !.ok = ok]
  <2>1. /\ x.pc = "wait" /\ x.sig = dl[d].sig /\ x.at = dl[d].at
        /\ x.pending = dl[d].pending /\ x.events = dl[d].events
    BY <1>0 DEF DeliverySet
  <2>2. /\ dl' = [dl EXCEPT ![d] = x] /\ dl[d].pc = "decide"
        /\ UNCHANGED <<ledger, counts, budget, lock, op, log, cursor, runs, now>>
    BY <1>2 DEF Decide
  <2>3. dl[d].pending = {}
    BY <2>2 DEF Base, PhaseOK
  <2> HIDE DEF x
  <2>4. dl'[d] = x /\ \A c \in Deliveries \ {d} : dl'[c] = dl[c]
    BY <1>b, <2>2
  <2> QED
    BY <1>a, <2>1, <2>2, <2>3, <2>4 DEF Effect, Moves, LockMoves
<1>3. ASSUME Acquire(d) PROVE Effect(d)
  <2> DEFINE left == Matching(dl[d].sig) \cap dl[d].cand
             x == [dl[d] EXCEPT !.pc = "evaluate", !.at = now, !.left = left]
  <2>1. /\ x.pc = "evaluate" /\ x.sig = dl[d].sig /\ x.at = now
        /\ x.pending = dl[d].pending /\ x.events = dl[d].events
    <3> HIDE DEF left
    <3> QED
      BY <1>0 DEF DeliverySet
  <2>2. /\ dl' = [dl EXCEPT ![d] = x] /\ dl[d].pc = "wait"
        /\ lock = NoDelivery /\ lock' = d
        /\ UNCHANGED <<ledger, counts, budget, op, log, cursor, runs, now>>
    BY <1>3 DEF Acquire, Unlocked
  <2>3. dl[d].pending = {}
    BY <2>2 DEF Base, PhaseOK
  <2> HIDE DEF x
  <2>4. dl'[d] = x /\ \A c \in Deliveries \ {d} : dl'[c] = dl[c]
    BY <1>b, <2>2
  <2> QED
    BY <1>a, <2>1, <2>2, <2>3, <2>4 DEF Effect, Moves, LockMoves
<1>4. ASSUME NEW t \in dl[d].left, SkipOne(d, t) PROVE Effect(d)
  <2> DEFINE x == [dl[d] EXCEPT !.left = @ \ {t}]
  <2>1. /\ x.pc = dl[d].pc /\ x.sig = dl[d].sig /\ x.at = dl[d].at
        /\ x.pending = dl[d].pending /\ x.events = dl[d].events
    BY <1>0 DEF DeliverySet
  <2>2. /\ dl' = [dl EXCEPT ![d] = x] /\ dl[d].pc = "evaluate"
        /\ UNCHANGED <<ledger, counts, budget, lock, op, log, cursor, runs, now>>
    BY <1>4 DEF SkipOne, IsNext
  <2> HIDE DEF x
  <2>4. dl'[d] = x /\ \A c \in Deliveries \ {d} : dl'[c] = dl[c]
    BY <1>b, <2>2
  <2> QED
    BY <1>a, <2>1, <2>2, <2>4 DEF Effect, Moves, LockMoves
<1>5. ASSUME NEW t \in dl[d].left, SuspendOne(d, t) PROVE Effect(d)
  <2> DEFINE e == Event("suspended", t)
             x == [dl[d] EXCEPT !.left = @ \ {t}, !.events = Append(@, e)]
  <2>1. e \in EventSet /\ e.kind # "fired" /\ dl[d].events \in Seq(EventSet)
    BY <1>0, EventTyped DEF DeliverySet, Kinds, Event
  <2>2. /\ dl' = [dl EXCEPT ![d] = x] /\ dl[d].pc = "evaluate"
        /\ UNCHANGED <<ledger, counts, budget, lock, op, log, cursor, runs, now>>
    BY <1>5 DEF SuspendOne, IsNext
  <2> HIDE DEF e
  <2>3. /\ x.pc = dl[d].pc /\ x.sig = dl[d].sig /\ x.at = dl[d].at
        /\ x.pending = dl[d].pending /\ x.events = Append(dl[d].events, e)
    BY <1>0 DEF DeliverySet
  <2>4. FiresIn(x.events) = FiresIn(dl[d].events)
    BY <2>1, <2>3, FiresAppend
  <2> HIDE DEF x
  <2>5. dl'[d] = x /\ \A c \in Deliveries \ {d} : dl'[c] = dl[c]
    BY <1>b, <2>2
  <2> QED
    BY <1>a, <2>2, <2>3, <2>4, <2>5 DEF Effect, Moves, LockMoves
<1>6. ASSUME NEW t \in dl[d].left, FireOne(d, t) PROVE Effect(d)
  <2> DEFINE f == Fired(t, dl[d].sig, dl[d].at)
             x == [dl[d] EXCEPT !.left = @ \ {t}, !.pending = @ \cup {t},
                                !.events = Append(@, f)]
  <2>1. /\ dl' = [dl EXCEPT ![d] = x] /\ dl[d].pc = "evaluate"
        /\ Ready(t, dl[d].sig, dl[d].at) /\ RecordFire(t, dl[d].sig, dl[d].at)
        /\ UNCHANGED <<lock, op, log, cursor, runs, now>>
    BY <1>6 DEF FireOne, IsNext
  <2> HIDE DEF f
  <2>2. /\ x.pc = dl[d].pc /\ x.sig = dl[d].sig /\ x.at = dl[d].at
        /\ x.pending = dl[d].pending \cup {t} /\ x.events = Append(dl[d].events, f)
    BY <1>0 DEF DeliverySet
  <2> HIDE DEF x
  <2>3. dl'[d] = x /\ \A c \in Deliveries \ {d} : dl'[c] = dl[c]
    BY <1>b, <2>1
  <2>4. FiresOne(d, t)
    BY <2>1, <2>2, <2>3 DEF FiresOne, f
  <2> QED
    BY <1>a, <2>1, <2>2, <2>3, <2>4 DEF Effect, LockMoves
<1>7. ASSUME Release(d) PROVE Effect(d)
  <2> DEFINE x == [dl[d] EXCEPT !.pc = "append"]
  <2>1. /\ x.pc = "append" /\ x.sig = dl[d].sig /\ x.at = dl[d].at
        /\ x.pending = dl[d].pending /\ x.events = dl[d].events
    BY <1>0 DEF DeliverySet
  <2>2. /\ dl' = [dl EXCEPT ![d] = x] /\ dl[d].pc = "evaluate" /\ lock' = NoDelivery
        /\ UNCHANGED <<ledger, counts, budget, op, log, cursor, runs, now>>
    BY <1>7 DEF Release
  <2> HIDE DEF x
  <2>4. dl'[d] = x /\ \A c \in Deliveries \ {d} : dl'[c] = dl[c]
    BY <1>b, <2>2
  <2> QED
    BY <1>a, <2>1, <2>2, <2>4 DEF Effect, Moves, LockMoves
<1>8. ASSUME AppendEvents(d) PROVE Effect(d)
  <2>1. /\ dl[d].pc = "append"
        /\ (log' = log \o dl[d].events) \/ ("fail" \in Env /\ log' = log)
        /\ dl' = [dl EXCEPT ![d].pc = "materialize", ![d].events = <<>>]
        /\ UNCHANGED <<ledger, counts, budget, lock, op, cursor, runs, now>>
    BY <1>8 DEF AppendEvents
  <2> DEFINE none == <<>>
             x == [dl[d] EXCEPT !.pc = "materialize", !.events = none]
  <2>2. dl' = [dl EXCEPT ![d] = x]
    BY <2>1, Zenon
  <2> HIDE DEF none
  <2>3. /\ x.pc = "materialize" /\ x.sig = dl[d].sig /\ x.at = dl[d].at
        /\ x.pending = dl[d].pending /\ x.events = none
    BY <1>0 DEF DeliverySet
  <2> HIDE DEF x
  <2>4. dl'[d] = x /\ \A c \in Deliveries \ {d} : dl'[c] = dl[c]
    BY <1>b, <2>2
  <2>5. Logs(d)
    BY <2>1, <2>3, <2>4, Zenon DEF Logs, none
  <2> QED
    BY <1>a, <2>1, <2>3, <2>4, <2>5 DEF Effect, LockMoves
<1>9. ASSUME NEW t \in dl[d].pending, Materialize(d, t) PROVE Effect(d)
  <2> DEFINE x == [dl[d] EXCEPT !.pending = @ \ {t}]
             run == [trig |-> t, sig |-> dl[d].sig, at |-> dl[d].at]
  <2>1. /\ dl' = [dl EXCEPT ![d] = x] /\ dl[d].pc = "materialize"
        /\ runs' \subseteq runs \cup {run}
        /\ UNCHANGED <<ledger, counts, budget, lock, op, log, cursor, now>>
    BY <1>9 DEF Materialize
  <2>2. /\ x.pc = dl[d].pc /\ x.sig = dl[d].sig /\ x.at = dl[d].at
        /\ x.pending = dl[d].pending \ {t} /\ x.events = dl[d].events
    BY <1>0 DEF DeliverySet
  <2> HIDE DEF x
  <2>3. dl'[d] = x /\ \A c \in Deliveries \ {d} : dl'[c] = dl[c]
    BY <1>b, <2>1
  <2>4. Creates(d, t)
    BY <2>1, <2>2, <2>3 DEF Creates
  <2> QED
    BY <1>a, <2>1, <2>2, <2>3, <2>4 DEF Effect, LockMoves
<1>10. ASSUME Respond(d) PROVE Effect(d)
  <2> DEFINE x == [NewDelivery EXCEPT !.pc = "done", !.over = dl[d].over]
  <2>1. /\ dl' = [dl EXCEPT ![d] = x] /\ dl[d].pc = "materialize" /\ dl[d].pending = {}
        /\ UNCHANGED <<ledger, counts, budget, lock, op, log, cursor, runs, now>>
    BY <1>10 DEF Respond
  <2>2. x.pc = "done" /\ x.at = 0 /\ x.pending = {} /\ x.events = <<>>
    BY DEF NewDelivery
  <2>3. dl[d].events = <<>>
    BY <2>1 DEF Base, PhaseOK
  <2> HIDE DEF x
  <2>4. dl'[d] = x /\ \A c \in Deliveries \ {d} : dl'[c] = dl[c]
    BY <1>b, <2>1
  <2> QED
    BY <1>a, <2>1, <2>2, <2>3, <2>4 DEF Effect, Moves, LockMoves
<1> QED
  BY <1>1, <1>2, <1>3, <1>4, <1>5, <1>6, <1>7, <1>8, <1>9, <1>10 DEF DeliveryStep

\* The steps that are not taken by a delivery leave the deliveries alone, or
\* end them.
LEMMA OthersEffect ==
  ASSUME Base, OperatorsOK, [Next]_vars, ~ \E d \in Deliveries : DeliveryStep(d)
  PROVE  /\ UNCHANGED runs
         /\ \A e \in FiresIn(log') : e \in FiresIn(log)
         /\ \A e \in FiresIn(log) : e \in FiresIn(log')
         /\ \A i \in 1..Len(log) : log'[i] = log[i]
         /\ \/ Restart
            \/ UNCHANGED <<dl, lock, now>> /\ Replay
            \/ UNCHANGED <<dl, lock, ledger, counts, budget, cursor, now>>
            \/ UNCHANGED <<dl, lock, ledger, counts, budget, cursor>> /\ now' = now + 1
<1>1. ASSUME NEW o \in Operators, OperatorStep(o)
      PROVE  /\ UNCHANGED <<dl, lock, ledger, counts, budget, cursor, runs, now>>
             /\ FiresIn(log') = FiresIn(log) /\ \A i \in 1..Len(log) : log'[i] = log[i]
  <2>1. /\ UNCHANGED <<dl, lock, ledger, counts, budget, cursor, runs, now>>
        /\ UNCHANGED log \/ log' = Append(log, op[o].event)
        /\ op[o].event \in EventSet
    BY <1>1, OperatorEffect
  <2>2. op[o].event.kind # "fired" /\ log \in Seq(EventSet)
    BY DEF OperatorsOK, Base, RequestsOK
  <2>3. FiresIn(Append(log, op[o].event)) = FiresIn(log)
        /\ \A i \in 1..Len(log) : Append(log, op[o].event)[i] = log[i]
    BY <2>1, <2>2, FiresAppend
  <2> QED
    BY <2>1, <2>3
<1>2. Restart => UNCHANGED <<log, runs>>
  BY DEF Restart
<1>3. Replay => UNCHANGED <<log, runs, dl, lock, now>>
  BY DEF Replay, ReplayTemplate, ReplayTrigger, ReplayFired, Serve, ReplayDone
<1>4. Tick => UNCHANGED <<dl, lock, ledger, counts, budget, cursor, log, runs>> /\ now' = now + 1
  BY DEF Tick, service
<1>5. UNCHANGED vars => UNCHANGED <<dl, lock, ledger, counts, budget, cursor, log, runs, now>>
  BY DEF vars, service
<1>6. CASE \E o \in Operators : OperatorStep(o)
  BY <1>1, <1>6
<1>7. CASE Restart
  BY <1>2, <1>7
<1>8. CASE Replay
  BY <1>3, <1>8
<1>9. CASE Tick
  BY <1>4, <1>9
<1>10. CASE UNCHANGED vars
  BY <1>5, <1>10
<1> QED
  BY <1>6, <1>7, <1>8, <1>9, <1>10 DEF Next

\* A restart leaves only deliveries that have not begun or have ended.
LEMMA RestartEffect ==
  ASSUME Base, Restart
  PROVE  /\ \A d \in Deliveries :
              /\ dl'[d].pc \in {"new", "done"} /\ dl'[d].at \in {dl[d].at, 0}
              /\ dl'[d].pending = {} /\ dl'[d].events = <<>>
         /\ lock' = NoDelivery /\ cursor' = 1 /\ now' = now
         /\ ledger' = {} /\ counts' = [t \in Triggers |-> <<>>] /\ budget' = <<>>
<1>1. /\ dl' = [d \in Deliveries |-> IF dl[d].pc = "new" THEN dl[d]
                                     ELSE [NewDelivery EXCEPT !.pc = "done"]]
      /\ lock' = NoDelivery /\ cursor' = 1 /\ now' = now
      /\ ledger' = {} /\ counts' = [t \in Triggers |-> <<>>] /\ budget' = <<>>
  BY DEF Restart, Empty
<1>2. \A d \in Deliveries : dl'[d].pc \in {"new", "done"} /\ dl'[d].at \in {dl[d].at, 0}
  BY <1>1 DEF NewDelivery
<1>3. Base'
  BY BaseRestart
<1>4. \A d \in Deliveries : dl'[d].pending = {} /\ dl'[d].events = <<>>
  BY <1>2, <1>3 DEF Base, PhaseOK
<1> QED
  BY <1>1, <1>2, <1>4

Requests == Base /\ OperatorsOK /\ SigTyped /\ Locked

LEMMA OperatorsOKStep ==
  ASSUME Base, OperatorsOK, [Next]_vars
  PROVE  OperatorsOK'
<1>1. ASSUME NEW d \in Deliveries, DeliveryStep(d)
      PROVE  UNCHANGED op
  BY <1>1 DEF DeliveryStep, Preview, Decide, Acquire, SkipOne, SuspendOne, FireOne,
              Release, AppendEvents, Materialize, Respond
<1>2. CASE Restart
  <2>1. op' = [o \in Operators |-> IF op[o].pc = "new" THEN op[o]
                                   ELSE [op[o] EXCEPT !.pc = "done"]]
    BY <1>2 DEF Restart
  <2> QED
    BY <2>1 DEF Base, RequestsOK, OpSet, OperatorsOK
<1>3. CASE Replay \/ Tick \/ UNCHANGED vars
  BY <1>3 DEF Replay, ReplayTemplate, ReplayTrigger, ReplayFired, Serve, ReplayDone,
              Tick, vars, OperatorsOK
<1> QED
  BY <1>1, <1>2, <1>3, OperatorsStay DEF Next, OperatorsOK

\* The clock that bounds the fires never goes back, also when the mutex is
\* taken or released.
LEMMA RequestsStep ==
  ASSUME Requests, [Next]_vars
  PROVE  Requests' /\ Clock \in Nat /\ Clock' \in Nat /\ Clock <= Clock'
<1> USE DEF Requests
<1>0. dl \in [Deliveries -> DeliverySet] /\ now \in Nat /\ NoDelivery \notin Deliveries
      /\ \A d \in Deliveries : dl[d].at \in Nat
  BY TriggerAssumption DEF Base, RequestsOK, DeliverySet
<1>1. Base' /\ OperatorsOK'
  BY BaseStep, OperatorsOKStep
<1>2. Clock \in Nat /\ Clock <= now
  BY <1>0 DEF Locked, Clock
<1>3. ASSUME NEW d \in Deliveries, DeliveryStep(d)
      PROVE  SigTyped' /\ Locked' /\ Clock <= Clock' /\ Clock' \in Nat
  <2>1. /\ LockMoves(d)
        /\ dl'[d].pc = "done" \/ dl'[d].sig \in Signals
        /\ UNCHANGED now
        /\ \A c \in Deliveries \ {d} : dl'[c] = dl[c]
    BY <1>3, DeliveryEffect DEF Effect
  <2>2. SigTyped'
    BY <2>1 DEF SigTyped
  <2>3. \A c \in Deliveries : dl'[c].at \in Nat /\ dl'[c].at <= now'
    BY <1>0, <2>1 DEF Locked, LockMoves
  <2>4. CASE lock' = lock /\ (dl'[d].pc = "evaluate" <=> dl[d].pc = "evaluate")
               /\ (dl[d].pc = "evaluate" => dl'[d].at = dl[d].at)
    <3>1. Locked'
      BY <2>1, <2>3, <2>4 DEF Locked
    <3>2. Clock' = Clock
      <4>1. CASE lock = NoDelivery
        BY <2>1, <2>4, <4>1 DEF Clock
      <4>2. CASE lock \in Deliveries
        BY <1>0, <2>1, <2>4, <4>2 DEF Clock, Locked
      <4> QED
        BY <4>1, <4>2 DEF Locked
    <3> QED
      BY <1>2, <2>2, <3>1, <3>2
  <2>5. CASE lock = NoDelivery /\ lock' = d /\ dl'[d].pc = "evaluate" /\ dl'[d].at = now
    <3>1. Locked'
      BY <1>0, <2>1, <2>3, <2>5 DEF Locked
    <3>2. Clock' = Clock
      BY <1>0, <2>1, <2>5 DEF Clock
    <3> QED
      BY <1>2, <2>2, <3>1, <3>2
  <2>6. CASE dl[d].pc = "evaluate" /\ lock' = NoDelivery /\ dl'[d].pc # "evaluate"
    <3>1. Locked'
      BY <1>0, <2>1, <2>3, <2>6 DEF Locked
    <3>2. Clock' = now
      BY <2>1, <2>6 DEF Clock
    <3> QED
      BY <1>0, <1>2, <2>2, <3>1, <3>2
  <2> QED
    BY <2>1, <2>4, <2>5, <2>6 DEF LockMoves
<1>4. CASE Restart
  <2>1. /\ \A d \in Deliveries : dl'[d].pc \in {"new", "done"} /\ dl'[d].at \in {dl[d].at, 0}
        /\ lock' = NoDelivery /\ now' = now
    BY <1>4, RestartEffect
  <2>2. SigTyped' /\ Locked'
    BY <1>0, <2>1 DEF SigTyped, Locked
  <2>3. Clock' = now
    BY <2>1 DEF Clock
  <2> QED
    BY <1>0, <1>1, <1>2, <2>2, <2>3
<1>5. CASE UNCHANGED <<dl, lock>> /\ now' \in Nat /\ now <= now'
  <2>1. SigTyped' /\ Locked'
    BY <1>0, <1>5 DEF SigTyped, Locked
  <2>2. Clock' \in Nat /\ Clock <= Clock'
    BY <1>0, <1>5 DEF Clock, Locked
  <2> QED
    BY <1>1, <2>1, <2>2, <1>2
<1>6. CASE ~ \E d \in Deliveries : DeliveryStep(d)
  <2>1. Restart \/ (UNCHANGED <<dl, lock>> /\ now' \in Nat /\ now <= now')
    BY <1>0, <1>6, OthersEffect
  <2> QED
    BY <1>4, <1>5, <2>1
<1> QED
  BY <1>1, <1>2, <1>3, <1>6

\* What a step adds to the fires on record: nothing, or the fire of the
\* delivery that holds the mutex.
LEMMA FiresStep ==
  ASSUME Requests, [Next]_vars
  PROVE  \/ Fires' \subseteq Fires
         \/ \E d \in Deliveries, t \in Triggers :
              LET f == Fired(t, dl[d].sig, dl[d].at) IN
              /\ FiresOne(d, t) /\ Effect(d)
              /\ Fires' \subseteq Fires \cup {f} /\ f \in FireSet /\ f \in EventSet
              /\ Clock = dl[d].at /\ Clock' = Clock
<1> USE DEF Requests
<1>0. /\ dl \in [Deliveries -> DeliverySet] /\ log \in Seq(EventSet)
      /\ \A d \in Deliveries : /\ dl[d].events \in Seq(EventSet) /\ dl[d].at \in Nat
                               /\ dl[d].left \subseteq Triggers
  BY DEF Base, RequestsOK, DeliverySet
<1>1. ASSUME NEW X, \A e \in FiresIn(log') : e \in Fires \cup X,
             \A c \in Deliveries : \A e \in FiresIn(dl'[c].events) : e \in Fires \cup X
      PROVE  Fires' \subseteq Fires \cup X
  BY <1>1 DEF Fires
<1>2. /\ FiresIn(log) \subseteq Fires
      /\ \A d \in Deliveries : FiresIn(dl[d].events) \subseteq Fires
  BY DEF Fires
<1>3. ASSUME NEW d \in Deliveries, DeliveryStep(d), ~ \E t \in dl[d].left : FiresOne(d, t)
      PROVE  Fires' \subseteq Fires
  <2>1. /\ Moves(d) \/ Logs(d) \/ (\E t \in dl[d].pending : Creates(d, t))
        /\ \A c \in Deliveries \ {d} : dl'[c] = dl[c]
    BY <1>3, DeliveryEffect DEF Effect
  <2>2. CASE Moves(d)
    <3>1. /\ \A e \in FiresIn(log') : e \in Fires \cup {}
          /\ \A c \in Deliveries : \A e \in FiresIn(dl'[c].events) : e \in Fires \cup {}
      BY <1>2, <2>1, <2>2 DEF Moves
    <3> QED
      BY <1>1, <3>1
  <2>3. CASE Logs(d)
    <3>1. FiresIn(log') \subseteq FiresIn(log) \cup FiresIn(dl[d].events)
      BY <1>0, <2>3, FiresConcat DEF Logs
    <3>2. /\ \A e \in FiresIn(log') : e \in Fires \cup {}
          /\ \A c \in Deliveries : \A e \in FiresIn(dl'[c].events) : e \in Fires \cup {}
      BY <1>2, <2>1, <2>3, <3>1, FiresEmpty DEF Logs
    <3> QED
      BY <1>1, <3>2
  <2>4. CASE \E t \in dl[d].pending : Creates(d, t)
    <3>1. /\ \A e \in FiresIn(log') : e \in Fires \cup {}
          /\ \A c \in Deliveries : \A e \in FiresIn(dl'[c].events) : e \in Fires \cup {}
      BY <1>2, <2>1, <2>4 DEF Creates
    <3> QED
      BY <1>1, <3>1
  <2> QED
    BY <2>1, <2>2, <2>3, <2>4
<1>4. ASSUME NEW d \in Deliveries, DeliveryStep(d), NEW t \in dl[d].left, FiresOne(d, t)
      PROVE  LET f == Fired(t, dl[d].sig, dl[d].at) IN
             /\ t \in Triggers /\ Effect(d)
             /\ Fires' \subseteq Fires \cup {f} /\ f \in FireSet /\ f \in EventSet
             /\ Clock = dl[d].at /\ Clock' = Clock
  <2> DEFINE f == Fired(t, dl[d].sig, dl[d].at)
  <2>1. Effect(d) /\ t \in Triggers
    BY <1>0, <1>4, DeliveryEffect
  <2>2. /\ dl[d].pc = "evaluate" /\ dl'[d].pc = "evaluate" /\ dl'[d].at = dl[d].at
        /\ dl'[d].events = Append(dl[d].events, f) /\ log' = log
    BY <1>4 DEF FiresOne
  <2>3. dl[d].sig \in Signals /\ lock = d
    BY <2>2 DEF SigTyped, Locked
  <2>4. f \in FireSet /\ f \in EventSet /\ f.kind = "fired"
    BY <1>0, <2>1, <2>3 DEF Fired, FireSet, EventSet, Kinds
  <2> HIDE DEF f
  <2>5. FiresIn(dl'[d].events) = FiresIn(dl[d].events) \cup {f}
    BY <1>0, <2>2, <2>4, FiresAppend
  <2>6. \A c \in Deliveries \ {d} : dl'[c] = dl[c]
    BY <2>1 DEF Effect
  <2>7. /\ \A e \in FiresIn(log') : e \in Fires \cup {f}
        /\ \A c \in Deliveries : \A e \in FiresIn(dl'[c].events) : e \in Fires \cup {f}
    BY <1>2, <2>2, <2>5, <2>6
  <2>8. Fires' \subseteq Fires \cup {f}
    BY <1>1, <2>7
  <2>9. Locked'
    BY RequestsStep
  <2>10. lock' = d
    BY <2>2, <2>9 DEF Locked
  <2>11. Clock = dl[d].at /\ Clock' = dl[d].at
    BY <2>2, <2>3, <2>10, TriggerAssumption DEF Clock
  <2> QED
    BY <2>1, <2>4, <2>8, <2>11 DEF f
<1>5. CASE \E d \in Deliveries : DeliveryStep(d)
  BY <1>3, <1>4, <1>5
<1>6. CASE ~ \E d \in Deliveries : DeliveryStep(d)
  <2>1. \A e \in FiresIn(log') : e \in FiresIn(log)
    BY <1>6, OthersEffect
  <2>2. CASE Restart
    <3>1. \A c \in Deliveries : dl'[c].events = <<>>
      BY <2>2, RestartEffect
    <3>2. /\ \A e \in FiresIn(log') : e \in Fires \cup {}
          /\ \A c \in Deliveries : \A e \in FiresIn(dl'[c].events) : e \in Fires \cup {}
      BY <1>2, <2>1, <3>1, FiresEmpty
    <3> QED
      BY <1>1, <3>2
  <2>3. CASE UNCHANGED dl
    <3>1. /\ \A e \in FiresIn(log') : e \in Fires \cup {}
          /\ \A c \in Deliveries : \A e \in FiresIn(dl'[c].events) : e \in Fires \cup {}
      BY <1>2, <2>1, <2>3
    <3> QED
      BY <1>1, <3>1
  <2> QED
    BY <1>6, <2>2, <2>3, OthersEffect
<1> QED
  BY <1>5, <1>6

LEMMA FiresTypedStep ==
  ASSUME Requests, FiresTyped, FiresPast, [Next]_vars
  PROVE  FiresTyped' /\ FiresPast'
<1>1. Clock \in Nat /\ Clock' \in Nat /\ Clock <= Clock'
  BY RequestsStep
<1>2. \A e \in Fires : e \in FireSet /\ e.at \in Nat /\ e.at <= Clock
  BY DEF FiresTyped, FiresPast, FireSet
<1>3. CASE Fires' \subseteq Fires
  BY <1>1, <1>2, <1>3 DEF FiresTyped, FiresPast
<1>4. ASSUME NEW f, Fires' \subseteq Fires \cup {f}, f \in FireSet, f.at <= Clock
      PROVE  FiresTyped' /\ FiresPast'
  <2>1. f.at \in Nat
    BY <1>4 DEF FireSet
  <2> QED
    BY <1>1, <1>2, <1>4, <2>1 DEF FiresTyped, FiresPast
<1>5. \A t, s, at : Fired(t, s, at).at = at
  BY DEF Fired
<1> QED
  BY <1>1, <1>3, <1>4, <1>5, FiresStep

\* Pruning and pushing makes room for one fire more in every later window.
LEMMA WindowPushed ==
  ASSUME NEW E, NEW f \in FireSet, NEW T, NEW times \in Seq(Nat), NEW window \in Nat,
         NEW later \in Nat, f.at <= later,
         AtMost(Since(E, T, window, later), Len(Recent(times, later, window)))
  PROVE  AtMost(Since(E \cup {f}, T, window, later),
                Len(Recent(Append(Recent(times, f.at, window), f.at), later, window)))
<1> DEFINE n == Len(Recent(times, later, window))
           m == Len(Recent(Append(Recent(times, f.at, window), f.at), later, window))
<1>1. f.at \in Nat
  BY DEF FireSet
<1>2. n \in Nat /\ m = IF f.at + window > later THEN n + 1 ELSE n
  BY <1>1, RecentPushed
<1> HIDE DEF m, n
<1>3. AtMost(Since(E, T, window, later), n)
  BY DEF n
<1>4. CASE f.at + window > later
  <2>1. Since(E \cup {f}, T, window, later) \subseteq Since(E, T, window, later) \cup {f}
    BY DEF Since
  <2>2. AtMost(Since(E, T, window, later) \cup {f}, n + 1)
    BY <1>2, <1>3, AtMostOneMore
  <2>3. AtMost(Since(E \cup {f}, T, window, later), n + 1)
    <3>1. n + 1 \in Nat
      BY <1>2
    <3> QED
      BY <2>1, <2>2, <3>1, AtMostSubset
  <2> QED
    BY <1>2, <1>4, <2>3 DEF m
<1>5. CASE ~(f.at + window > later)
  <2>1. Since(E \cup {f}, T, window, later) \subseteq Since(E, T, window, later)
    BY <1>5 DEF Since
  <2> QED
    BY <1>2, <1>3, <1>5, <2>1, AtMostSubset DEF m
<1> QED
  BY <1>4, <1>5

\* What a step adds to the fires that the process knows of.
LEMMA KnownStep ==
  ASSUME Requests, FiresTyped, FiresPast, [Next]_vars
  PROVE  \/ Restart
         \/ Known' \subseteq Known /\ UNCHANGED <<ledger, counts, budget>>
         \/ \E f \in FireSet : /\ Known' \subseteq Known \cup {f} /\ f.at <= Clock
                               /\ RecordFire(f.id, f.sig, f.at)
<1> USE DEF Requests
<1>0. log \in Seq(EventSet) /\ cursor \in 0..(Len(log) + 1) /\ Len(log) \in Nat
  BY DEF Base, RequestsOK
<1>1. ASSUME NEW d \in Deliveries, DeliveryStep(d)
      PROVE  \/ Known' \subseteq Known /\ UNCHANGED <<ledger, counts, budget>>
             \/ \E f \in FireSet : /\ Known' \subseteq Known \cup {f} /\ f.at <= Clock
                                   /\ RecordFire(f.id, f.sig, f.at)
  <2>1. Effect(d)
    BY <1>1, DeliveryEffect
  <2>2. Known = Fires /\ Known' = Fires'
    BY <2>1 DEF Effect, Known
  <2>3. ASSUME NEW c \in Deliveries, NEW t \in Triggers, FiresOne(c, t), Effect(c)
        PROVE  RecordFire(t, dl[c].sig, dl[c].at)
    BY <2>3 DEF FiresOne
  <2>4. CASE Fires' \subseteq Fires
    <3>1. CASE \E t \in dl[d].left : FiresOne(d, t)
      <4>1. PICK t \in dl[d].left : FiresOne(d, t)
        BY <3>1
      <4> DEFINE f == Fired(t, dl[d].sig, dl[d].at)
      <4>2. /\ dl[d].pc = "evaluate" /\ RecordFire(t, dl[d].sig, dl[d].at)
            /\ t \in Triggers /\ dl[d].at \in Nat
        BY <4>1 DEF FiresOne, Base, RequestsOK, DeliverySet
      <4>3. dl[d].sig \in Signals /\ lock = d /\ Clock = dl[d].at
        BY <4>2, TriggerAssumption DEF SigTyped, Locked, Clock
      <4>4. f \in FireSet /\ f.id = t /\ f.sig = dl[d].sig /\ f.at = dl[d].at /\ f.at <= Clock
        BY <4>2, <4>3 DEF Fired, FireSet
      <4> HIDE DEF f
      <4>5. RecordFire(f.id, f.sig, f.at)
        BY <4>2, <4>4
      <4> QED
        BY <2>2, <2>4, <4>4, <4>5
    <3>2. CASE ~ \E t \in dl[d].left : FiresOne(d, t)
      <4>1. UNCHANGED <<ledger, counts, budget>>
        BY <2>1, <3>2 DEF Effect, Moves, Logs, Creates
      <4> QED
        BY <2>2, <2>4, <4>1
    <3> QED
      BY <3>1, <3>2
  <2>5. CASE ~(Fires' \subseteq Fires)
    <3>1. PICK c \in Deliveries, t \in Triggers :
            LET f == Fired(t, dl[c].sig, dl[c].at) IN
            /\ FiresOne(c, t)
            /\ Fires' \subseteq Fires \cup {f} /\ f \in FireSet /\ Clock = dl[c].at
      BY <2>5, FiresStep
    <3> DEFINE f == Fired(t, dl[c].sig, dl[c].at)
    <3>2. f.id = t /\ f.sig = dl[c].sig /\ f.at = dl[c].at /\ f.at \in Nat
      BY <3>1 DEF Fired, FireSet
    <3>3. RecordFire(t, dl[c].sig, dl[c].at)
      BY <3>1 DEF FiresOne
    <3> HIDE DEF f
    <3>4. RecordFire(f.id, f.sig, f.at) /\ f.at <= Clock
      BY <3>1, <3>2, <3>3
    <3>5. f \in FireSet /\ Known' \subseteq Known \cup {f}
      BY <2>2, <3>1 DEF f
    <3> QED
      BY <3>4, <3>5
  <2> QED
    BY <2>4, <2>5
<1>2. ASSUME Replay
      PROVE  \/ Known' \subseteq Known /\ UNCHANGED <<ledger, counts, budget>>
             \/ \E f \in FireSet : /\ Known' \subseteq Known \cup {f} /\ f.at <= Clock
                                   /\ RecordFire(f.id, f.sig, f.at)
  <2>1. UNCHANGED <<dl, log>> /\ cursor # 0
    BY <1>0, <1>2 DEF Replay, ReplayTemplate, ReplayTrigger, ReplayFired, Serve, Replaying,
                      ReplayDone
  <2>2. CASE Serve
    <3>1. cursor = Len(log) + 1 /\ cursor' = 0 /\ UNCHANGED <<ledger, counts, budget>>
      BY <2>2 DEF Serve, service
    <3>2. \A d \in Deliveries : FiresIn(dl[d].events) = {}
      BY <2>1, FiresEmpty DEF Base, IdleWhileReplaying, PhaseOK
    <3>3. Fires' = FiresIn(log)
      BY <2>1, <3>2 DEF Fires
    <3>4. 1..(cursor - 1) = 1..Len(log)
      BY <1>0, <3>1
    <3>5. Known' = Known
      BY <2>1, <3>1, <3>3, <3>4 DEF Known, FiresIn
    <3> QED
      BY <3>1, <3>5
  <2>3. CASE ReplayTemplate \/ ReplayTrigger \/ ReplayFired
    <3> DEFINE e == log[cursor]
    <3>1. cursor \in 1..Len(log) /\ cursor' = cursor + 1
      BY <2>3 DEF ReplayTemplate, ReplayTrigger, ReplayFired, Replaying
    <3>2. Known' = {x \in {log[i] : i \in 1..cursor} : x.kind = "fired"}
      BY <1>0, <2>1, <3>1 DEF Known
    <3>3. \A i \in 1..cursor : i \in 1..(cursor - 1) \/ i = cursor
      BY <1>0, <3>1
    <3>4. Known' \subseteq Known \cup {e}
      BY <2>1, <3>2, <3>3 DEF Known
    <3>5. e.kind = "fired" \/ Known' \subseteq Known
      BY <3>2, <3>4
    <3>6. CASE ReplayTemplate \/ ReplayTrigger
      <4>1. e.kind # "fired" /\ UNCHANGED <<ledger, counts, budget>>
        BY <3>6 DEF ReplayTemplate, ReplayTrigger
      <4> QED
        BY <3>5, <4>1
    <3>7. CASE ReplayFired
      <4>1. e.kind = "fired" /\ RecordFire(e.id, e.sig, e.at)
        BY <3>7 DEF ReplayFired
      <4>2. e \in Fires
        BY <3>1, <4>1 DEF Fires, FiresIn
      <4>3. e \in FireSet /\ e.at <= Clock
        BY <4>2 DEF FiresTyped, FiresPast
      <4> HIDE DEF e
      <4> QED
        BY <3>4, <4>1, <4>3
    <3> QED
      BY <2>3, <3>6, <3>7
  <2> QED
    BY <1>2, <2>2, <2>3 DEF Replay
<1>3. CASE ~ (\E d \in Deliveries : DeliveryStep(d)) /\ ~Replay /\ ~Restart
  <2>1. /\ UNCHANGED <<dl, ledger, counts, budget, cursor>>
        /\ \A i \in 1..Len(log) : log'[i] = log[i]
        /\ FiresIn(log') \subseteq FiresIn(log)
    BY <1>3, OthersEffect
  <2>2. Fires' \subseteq Fires
    BY <2>1 DEF Fires
  <2>3. CASE cursor = 0
    BY <2>1, <2>2, <2>3 DEF Known
  <2>4. CASE cursor # 0
    <3>1. \A i \in 1..(cursor - 1) : i \in 1..Len(log)
      BY <1>0
    <3>2. Known' \subseteq Known
      BY <2>1, <2>4, <3>1 DEF Known
    <3> QED
      BY <2>1, <3>2
  <2> QED
    BY <2>3, <2>4
<1> QED
  BY <1>1, <1>2, <1>3

LedgerTyped == ledger \subseteq Triggers \X Signals

Windows == Requests /\ FiresTyped /\ FiresPast /\ LedgerTyped /\ WindowsTyped /\ WindowsCover

LEMMA WindowsStep ==
  ASSUME Windows, [Next]_vars
  PROVE  Windows'
<1> USE DEF Windows
<1>1. /\ Requests' /\ FiresTyped' /\ FiresPast'
      /\ Clock \in Nat /\ Clock' \in Nat /\ Clock <= Clock'
  BY RequestsStep, FiresTypedStep
<1>2. /\ counts \in [Triggers -> Seq(Nat)] /\ budget \in Seq(Nat)
      /\ Minute \in Nat /\ Hour \in Nat
  BY TriggerAssumption DEF WindowsTyped
<1>3. ASSUME NEW at \in Nat, at >= Clock'
      PROVE  /\ AtMost(Since(Known, Triggers, Hour, at), Len(Recent(budget, at, Hour)))
             /\ \A t \in Triggers :
                  AtMost(Since(Known, {t}, Minute, at), Len(Recent(counts[t], at, Minute)))
  <2>1. at >= Clock
    BY <1>1, <1>3
  <2> QED
    BY <2>1 DEF WindowsCover
<1>4. CASE Restart
  <2>1. /\ ledger' = {} /\ counts' = [t \in Triggers |-> <<>>] /\ budget' = <<>> /\ cursor' = 1
    BY <1>4, RestartEffect DEF Requests
  <2>2. <<>> \in Seq(Nat) /\ Len(<<>>) = 0
    OBVIOUS
  <2>3. WindowsTyped' /\ LedgerTyped'
    BY <2>1, <2>2 DEF WindowsTyped, LedgerTyped
  <2>4. Known' = {}
    BY <2>1 DEF Known
  <2>5. \A T, window, at : Since(Known', T, window, at) = {}
    BY <2>4 DEF Since
  <2>6. \A at \in Nat : /\ Recent(budget', at, Hour) = <<>>
                        /\ \A t \in Triggers : Recent(counts'[t], at, Minute) = <<>>
    BY <1>2, <2>1, RecentEmpty
  <2>7. ASSUME NEW at \in Nat
        PROVE  /\ AtMost(Since(Known', Triggers, Hour, at), Len(Recent(budget', at, Hour)))
               /\ \A t \in Triggers :
                    AtMost(Since(Known', {t}, Minute, at), Len(Recent(counts'[t], at, Minute)))
    <3>1. AtMost({}, 0)
      BY AtMostEmpty
    <3> QED
      BY <2>2, <2>5, <2>6, <3>1
  <2>8. WindowsCover'
    BY <2>7 DEF WindowsCover
  <2> QED
    BY <1>1, <2>3, <2>8
<1>5. CASE Known' \subseteq Known /\ UNCHANGED <<ledger, counts, budget>>
  <2>1. WindowsTyped' /\ LedgerTyped'
    BY <1>5 DEF WindowsTyped, LedgerTyped
  <2>2. \A T, window, at : Since(Known', T, window, at) \subseteq Since(Known, T, window, at)
    BY <1>5 DEF Since
  <2>3. ASSUME NEW at \in Nat, at >= Clock'
        PROVE  /\ AtMost(Since(Known', Triggers, Hour, at), Len(Recent(budget', at, Hour)))
               /\ \A t \in Triggers :
                    AtMost(Since(Known', {t}, Minute, at), Len(Recent(counts'[t], at, Minute)))
    <3>1. /\ Len(Recent(budget, at, Hour)) \in Nat
          /\ \A t \in Triggers : Len(Recent(counts[t], at, Minute)) \in Nat
      <4>1. \A times \in Seq(Nat), window \in Nat : Recent(times, at, window) \in Seq(Nat)
        BY <2>3, RecentTyped
      <4>2. /\ Recent(budget, at, Hour) \in Seq(Nat)
            /\ \A t \in Triggers : Recent(counts[t], at, Minute) \in Seq(Nat)
        BY <1>2, <4>1
      <4>3. \A q \in Seq(Nat) : Len(q) \in Nat
        OBVIOUS
      <4> QED
        BY <4>2, <4>3, Zenon
    <3>2. AtMost(Since(Known', Triggers, Hour, at), Len(Recent(budget, at, Hour)))
      BY <1>3, <2>2, <2>3, <3>1, AtMostSubset
    <3>3. ASSUME NEW t \in Triggers
          PROVE  AtMost(Since(Known', {t}, Minute, at), Len(Recent(counts[t], at, Minute)))
      BY <1>3, <2>2, <2>3, <3>1, AtMostSubset
    <3> QED
      BY <1>5, <3>2, <3>3
  <2>4. WindowsCover'
    BY <2>3 DEF WindowsCover
  <2> QED
    BY <1>1, <2>1, <2>4
<1>6. ASSUME NEW f \in FireSet, Known' \subseteq Known \cup {f}, f.at <= Clock,
             RecordFire(f.id, f.sig, f.at)
      PROVE  Windows'
  <2>1. /\ f.id \in Triggers /\ f.sig \in Signals /\ f.at \in Nat
        /\ ledger' = ledger \cup {<<f.id, f.sig>>}
        /\ counts' = [counts EXCEPT ![f.id] = Append(Recent(@, f.at, Minute), f.at)]
        /\ budget' = Append(Recent(budget, f.at, Hour), f.at)
    BY <1>6 DEF FireSet, RecordFire
  <2> DEFINE pushed(times, window) == Append(Recent(times, f.at, window), f.at)
  <2>2. /\ \A times \in Seq(Nat), window \in Nat : pushed(times, window) \in Seq(Nat)
        /\ budget' = pushed(budget, Hour)
        /\ counts' = [counts EXCEPT ![f.id] = pushed(counts[f.id], Minute)]
    <3>1. \A times \in Seq(Nat), window \in Nat : Recent(times, f.at, window) \in Seq(Nat)
      BY <2>1, RecentTyped
    <3> QED
      BY <2>1, <3>1
  <2>3. WindowsTyped' /\ LedgerTyped'
    <3>1. pushed(counts[f.id], Minute) \in Seq(Nat) /\ pushed(budget, Hour) \in Seq(Nat)
      BY <1>2, <2>1, <2>2
    <3> HIDE DEF pushed
    <3>2. WindowsTyped'
      BY <1>2, <2>1, <2>2, <3>1 DEF WindowsTyped
    <3> QED
      BY <2>1, <3>2 DEF LedgerTyped
  <2>4. \A T, window, at : Since(Known', T, window, at)
                             \subseteq Since(Known \cup {f}, T, window, at)
    BY <1>6 DEF Since
  <2>5. ASSUME NEW at \in Nat, at >= Clock', NEW T, NEW times \in Seq(Nat), NEW window \in Nat,
               AtMost(Since(Known, T, window, at), Len(Recent(times, at, window)))
        PROVE  AtMost(Since(Known', T, window, at), Len(Recent(pushed(times, window), at, window)))
    <3>1. f.at <= at
      BY <1>1, <1>6, <2>1, <2>5
    <3>2. AtMost(Since(Known \cup {f}, T, window, at), Len(Recent(pushed(times, window), at, window)))
      <4>1. \A E : AtMost(Since(E, T, window, at), Len(Recent(times, at, window)))
              => AtMost(Since(E \cup {f}, T, window, at), Len(Recent(pushed(times, window), at, window)))
        BY <3>1, WindowPushed
      <4> QED
        BY <2>5, <4>1
    <3>3. Len(Recent(pushed(times, window), at, window)) \in Nat
      <4>1. pushed(times, window) \in Seq(Nat)
        BY <2>2
      <4> HIDE DEF pushed
      <4>2. Recent(pushed(times, window), at, window) \in Seq(Nat)
        BY <4>1, RecentTyped
      <4> QED
        BY <4>2
    <3> HIDE DEF pushed
    <3> QED
      BY <2>4, <3>2, <3>3, AtMostSubset
  <2>6. ASSUME NEW at \in Nat, at >= Clock'
        PROVE  /\ AtMost(Since(Known', Triggers, Hour, at), Len(Recent(budget', at, Hour)))
               /\ \A t \in Triggers :
                    AtMost(Since(Known', {t}, Minute, at), Len(Recent(counts'[t], at, Minute)))
    <3> HIDE DEF pushed
    <3>1. AtMost(Since(Known', Triggers, Hour, at), Len(Recent(budget', at, Hour)))
      BY <1>2, <1>3, <2>2, <2>5, <2>6
    <3>2. ASSUME NEW t \in Triggers
          PROVE  AtMost(Since(Known', {t}, Minute, at), Len(Recent(counts'[t], at, Minute)))
      <4>1. CASE t = f.id
        <5>1. counts'[t] = pushed(counts[t], Minute) /\ counts[t] \in Seq(Nat)
          BY <1>2, <2>1, <2>2, <4>1
        <5> QED
          BY <1>2, <1>3, <2>5, <2>6, <5>1
      <4>2. CASE t # f.id
        <5>1. counts'[t] = counts[t] /\ Len(Recent(counts[t], at, Minute)) \in Nat
          BY <1>2, <2>2, <2>6, <4>2, RecentTyped
        <5>2. Since(Known', {t}, Minute, at) \subseteq Since(Known, {t}, Minute, at)
          BY <1>6, <4>2 DEF Since
        <5> QED
          BY <1>3, <2>6, <5>1, <5>2, AtMostSubset
      <4> QED
        BY <4>1, <4>2
    <3> QED
      BY <3>1, <3>2
  <2>7. WindowsCover'
    BY <2>6 DEF WindowsCover
  <2> QED
    BY <1>1, <2>3, <2>7
<1> QED
  BY <1>4, <1>5, <1>6, KnownStep

LEMMA WindowsInit == Init => Windows
<1> SUFFICES ASSUME Init PROVE Windows
  OBVIOUS
<1>1. /\ ledger = {} /\ counts = [t \in Triggers |-> <<>>] /\ budget = <<>>
      /\ lock = NoDelivery /\ dl = [d \in Deliveries |-> NewDelivery]
      /\ op = [o \in Operators |-> NewOp] /\ log = Boot /\ cursor = 1 /\ now = BootTime
  BY DEF Init
<1>2. \A d \in Deliveries :
        dl[d].pc = "new" /\ dl[d].at = 0 /\ dl[d].events = <<>>
  BY <1>1 DEF NewDelivery
<1>3. Requests
  <2>1. OperatorsOK
    BY <1>1 DEF OperatorsOK, NewOp, NoEvent, Event
  <2>2. SigTyped /\ Locked
    BY <1>1, <1>2, TriggerAssumption DEF SigTyped, Locked
  <2> QED
    BY <2>1, <2>2, BaseInit DEF Requests
<1>4. Fires = FiresIn(Boot)
  BY <1>1, <1>2, FiresEmpty DEF Fires
<1>5. ASSUME NEW e \in FiresIn(Boot) PROVE e \in FireSet /\ e.at <= BootTime
  <2>1. PICK i \in 1..Len(Boot) : e = Boot[i] /\ e.kind = "fired"
    BY DEF FiresIn
  <2>2. Boot[i] \in EventSet /\ i \in DOMAIN Boot
    BY TriggerAssumption
  <2>3. e.id \in Triggers /\ e.sig \in Signals /\ e.at \in 1..BootTime
    BY <2>1, <2>2, TriggerAssumption
  <2> QED
    BY <2>1, <2>2, <2>3, TriggerAssumption DEF EventSet, FireSet
<1>6. FiresTyped /\ FiresPast
  BY <1>1, <1>4, <1>5 DEF FiresTyped, FiresPast, Clock
<1>7. WindowsTyped /\ LedgerTyped
  BY <1>1 DEF WindowsTyped, LedgerTyped
<1>8. Known = {}
  BY <1>1 DEF Known
<1>9. ASSUME NEW at \in Nat
      PROVE  /\ AtMost(Since(Known, Triggers, Hour, at), Len(Recent(budget, at, Hour)))
             /\ \A t \in Triggers :
                  AtMost(Since(Known, {t}, Minute, at), Len(Recent(counts[t], at, Minute)))
  <2>1. \A T, window : Since(Known, T, window, at) = {}
    BY <1>8 DEF Since
  <2>2. Len(<<>>) = 0 /\ AtMost({}, 0)
    BY AtMostEmpty
  <2>3. /\ Recent(budget, at, Hour) = <<>>
        /\ \A t \in Triggers : Recent(counts[t], at, Minute) = <<>>
    BY <1>1, RecentEmpty, TriggerAssumption
  <2> QED
    BY <2>1, <2>2, <2>3
<1>10. WindowsCover
  BY <1>9 DEF WindowsCover
<1> QED
  BY <1>3, <1>6, <1>7, <1>10 DEF Windows

-----------------------------------------------------------------------------
(* Types.                                                                  *)

OtherTyped ==
  /\ trig \in [Triggers -> {"none", "enabled", "disabled", "suspended", "deleted"}]
  /\ tmpl \in [Templates -> {"none", "live", "deleted"}]
  /\ before.on \in BOOLEAN /\ before.ok \in BOOLEAN
  /\ runs \subseteq [trig : Triggers, sig : Signals, at : Nat]

LEMMA OtherTypedInit == Init => OtherTyped
BY DEF Init, OtherTyped, NoSnapshot

LEMMA BeforeTyped ==
  ASSUME before.on \in BOOLEAN, before.ok \in BOOLEAN, [Next]_vars
  PROVE  before'.on \in BOOLEAN /\ before'.ok \in BOOLEAN
<1>1. \A bad : Watch(bad) => before' = [NoSnapshot EXCEPT !.ok = FALSE] \/ before' = before
  BY DEF Watch
<1>2. ASSUME NEW d \in Deliveries, DeliveryStep(d)
      PROVE  before' = before \/ before' = [NoSnapshot EXCEPT !.ok = FALSE]
  <2>1. before' = before \/ \E bad : Watch(bad)
    BY <1>2 DEF DeliveryStep, Preview, Decide, Acquire, SkipOne, SuspendOne, FireOne,
                Release, AppendEvents, Materialize, Respond
  <2> QED
    BY <1>1, <2>1
<1>3. ASSUME NEW o \in Operators, OperatorStep(o)
      PROVE  before' = before \/ before' = [NoSnapshot EXCEPT !.ok = FALSE]
  <2>1. before' = before \/ \E bad : Watch(bad)
    BY <1>3 DEF OperatorStep, CreateTemplate, DeleteTemplate, CreateTrigger, EnableTrigger,
                DisableTrigger, ResumeTrigger, DeleteTrigger, SetTrigger, OpStart, OpAppend
  <2> QED
    BY <1>1, <2>1
<1>4. Restart => before' = Snapshot \/ before' = NoSnapshot
  BY DEF Restart
<1>5. Replay \/ Tick \/ UNCHANGED vars => before' = before \/ before' = NoSnapshot
  BY DEF Replay, ReplayTemplate, ReplayTrigger, ReplayFired, Serve, ReplayDone, Tick, vars
<1>6. \/ before' = before \/ before' = NoSnapshot \/ before' = Snapshot
      \/ before' = [NoSnapshot EXCEPT !.ok = FALSE]
  BY <1>2, <1>3, <1>4, <1>5 DEF Next
<1>7. /\ NoSnapshot.on = FALSE /\ NoSnapshot.ok = TRUE
      /\ Snapshot.on = TRUE /\ Snapshot.ok = TRUE
      /\ [NoSnapshot EXCEPT !.ok = FALSE].on = FALSE
      /\ [NoSnapshot EXCEPT !.ok = FALSE].ok = FALSE
  BY DEF NoSnapshot, Snapshot
<1> QED
  BY <1>6, <1>7, Zenon

LEMMA TemplatesTyped ==
  ASSUME tmpl \in [Templates -> {"none", "live", "deleted"}], [Next]_vars
  PROVE  tmpl' \in [Templates -> {"none", "live", "deleted"}]
<1>1. ASSUME NEW d \in Deliveries, DeliveryStep(d)
      PROVE  UNCHANGED tmpl
  BY <1>1 DEF DeliveryStep, Preview, Decide, Acquire, SkipOne, SuspendOne, FireOne,
              Release, AppendEvents, Materialize, Respond, service
<1>2. ASSUME NEW o \in Operators, OperatorStep(o)
      PROVE  \/ UNCHANGED tmpl
             \/ \E p : tmpl' = [tmpl EXCEPT ![p] = "live"]
                         \/ tmpl' = [tmpl EXCEPT ![p] = "deleted"]
  BY <1>2 DEF OperatorStep, CreateTemplate, DeleteTemplate, CreateTrigger, EnableTrigger,
              DisableTrigger, ResumeTrigger, DeleteTrigger, SetTrigger, OpAppend, service
<1>3. Replay => \/ UNCHANGED tmpl
                \/ \E p : tmpl' = [tmpl EXCEPT ![p] = "live"]
                            \/ tmpl' = [tmpl EXCEPT ![p] = "deleted"]
  BY DEF Replay, ReplayTemplate, ReplayTrigger, ReplayFired, Serve, service
<1>4. CASE Restart
  BY <1>4 DEF Restart, Empty
<1>5. CASE Tick \/ UNCHANGED vars
  BY <1>5 DEF Tick, vars, service
<1>6. ASSUME NEW p, tmpl' = [tmpl EXCEPT ![p] = "live"]
                      \/ tmpl' = [tmpl EXCEPT ![p] = "deleted"]
      PROVE  tmpl' \in [Templates -> {"none", "live", "deleted"}]
  BY <1>6
<1> QED
  BY <1>1, <1>2, <1>3, <1>4, <1>5, <1>6 DEF Next

LEMMA RunsTyped ==
  ASSUME Requests, runs \subseteq [trig : Triggers, sig : Signals, at : Nat], [Next]_vars
  PROVE  runs' \subseteq [trig : Triggers, sig : Signals, at : Nat]
<1>1. ASSUME NEW d \in Deliveries, DeliveryStep(d)
      PROVE  runs' \subseteq [trig : Triggers, sig : Signals, at : Nat]
  <2>1. Effect(d)
    BY <1>1, DeliveryEffect DEF Requests
  <2>2. CASE UNCHANGED runs
    BY <2>2
  <2>3. ASSUME NEW t \in dl[d].pending, Creates(d, t)
        PROVE  runs' \subseteq [trig : Triggers, sig : Signals, at : Nat]
    <3>1. t \in Triggers /\ dl[d].at \in Nat
      BY DEF Requests, Base, RequestsOK, DeliverySet
    <3>2. dl[d].sig \in Signals
      BY <2>3 DEF Creates, Requests, SigTyped
    <3> QED
      BY <2>3, <3>1, <3>2 DEF Creates
  <2> QED
    BY <2>1, <2>2, <2>3 DEF Effect, Moves, Logs, FiresOne
<1>2. CASE ~ \E d \in Deliveries : DeliveryStep(d)
  BY <1>2, OthersEffect DEF Requests
<1> QED
  BY <1>1, <1>2

\* The state is well typed in every environment: the ledger and the runs have
\* real triggers and signals, also after a replay, and replay stays inside the
\* log.
THEOREM FireTypeCorrect == Spec => []TypeOK
<1>1. Init => TInv /\ Windows /\ OtherTyped
  BY TInvInit, WindowsInit, OtherTypedInit
<1>2. TInv /\ Windows /\ OtherTyped /\ [Next]_vars => (TInv /\ Windows /\ OtherTyped)'
  <2> SUFFICES ASSUME TInv, Windows, OtherTyped, [Next]_vars
               PROVE  (TInv /\ Windows /\ OtherTyped)'
    OBVIOUS
  <2>1. TInv' /\ Windows'
    BY TInvStep, WindowsStep
  <2>2. OtherTyped'
    BY <2>1, BeforeTyped, TemplatesTyped, RunsTyped
    DEF OtherTyped, TInv, RegistryOK, Windows
  <2> QED
    BY <2>1, <2>2
<1>3. TInv /\ Windows /\ OtherTyped => TypeOK
  BY DEF TypeOK, OtherTyped, Windows, WindowsTyped, LedgerTyped, Requests, Locked, Base,
         RequestsOK
<1> QED
  BY <1>1, <1>2, <1>3, PTL DEF Spec

-----------------------------------------------------------------------------
(* The limits.  What has created a run, or is about to, is on record while *)
(* the process serves, so the windows cover it, and a fire that they let   *)
(* through has fewer than the limit behind it.                             *)

LEMMA InMade ==
  \A f : f \in Made <=>
    \/ \E x \in runs : f = Fired(x.trig, x.sig, x.at)
    \/ \E d \in Deliveries : \E t \in dl[d].pending : f = Fired(t, dl[d].sig, dl[d].at)
BY DEF Made

LEMMA MadeOnRecord ==
  ASSUME MadeKnown
  PROVE  Made \subseteq Fires
BY InMade DEF MadeKnown, Fires

\* What a step adds to the fires that create runs.
LEMMA MadeStep ==
  ASSUME Requests, MadeKnown, [Next]_vars, "fail" \notin Env
  PROVE  /\ MadeKnown'
         /\ \/ Made' \subseteq Made
            \/ \E d \in Deliveries, t \in Triggers :
                 /\ FiresOne(d, t) /\ Effect(d)
                 /\ Made' \subseteq Made \cup {Fired(t, dl[d].sig, dl[d].at)}
<1> USE DEF Requests
<1>0. /\ dl \in [Deliveries -> DeliverySet] /\ log \in Seq(EventSet)
      /\ \A d \in Deliveries : /\ dl[d].events \in Seq(EventSet) /\ dl[d].at \in Nat
                               /\ dl[d].left \subseteq Triggers
                               /\ dl[d].pending \subseteq Triggers
  BY DEF Base, RequestsOK, DeliverySet
<1>i. \A f : f \in Made' <=>
        \/ \E x \in runs' : f = Fired(x.trig, x.sig, x.at)
        \/ \E d \in Deliveries : \E t \in dl'[d].pending : f = Fired(t, dl'[d].sig, dl'[d].at)
  BY DEF Made
<1>1. ASSUME NEW d \in Deliveries, DeliveryStep(d)
      PROVE  /\ MadeKnown'
             /\ \/ Made' \subseteq Made
                \/ \E t \in Triggers :
                     /\ FiresOne(d, t) /\ Effect(d)
                     /\ Made' \subseteq Made \cup {Fired(t, dl[d].sig, dl[d].at)}
  <2>1. Effect(d) /\ \A c \in Deliveries \ {d} : dl'[c] = dl[c]
    BY <1>1, DeliveryEffect DEF Effect
  <2>2. CASE Moves(d)
    <3>1. \A c \in Deliveries :
            /\ dl'[c].pending = dl[c].pending
            /\ FiresIn(dl'[c].events) = FiresIn(dl[c].events)
            /\ dl[c].pending # {} =>
                 /\ dl'[c].sig = dl[c].sig /\ dl'[c].at = dl[c].at
                 /\ dl'[c].pc = "materialize" <=> dl[c].pc = "materialize"
      BY <2>1, <2>2 DEF Moves
    <3>2. runs' = runs /\ log' = log
      BY <2>2 DEF Moves
    <3>3. MadeKnown'
      BY <3>1, <3>2 DEF MadeKnown
    <3>4. Made' \subseteq Made
      BY <1>i, <3>1, <3>2, InMade
    <3> QED
      BY <3>3, <3>4
  <2>3. CASE Logs(d)
    <3>1. FiresIn(log') = FiresIn(log) \cup FiresIn(dl[d].events)
      BY <1>0, <2>3, FiresConcat DEF Logs
    <3>2. \A c \in Deliveries :
            /\ dl'[c].pending = dl[c].pending
            /\ dl'[c].sig = dl[c].sig /\ dl'[c].at = dl[c].at
      BY <2>1, <2>3 DEF Logs
    <3>3. runs' = runs /\ dl[d].pc # "materialize" /\ dl'[d].pc = "materialize"
      BY <2>3 DEF Logs
    <3>4. ASSUME NEW c \in Deliveries, NEW t \in dl'[c].pending
          PROVE  Fired(t, dl'[c].sig, dl'[c].at) \in
                   IF dl'[c].pc = "materialize" THEN FiresIn(log') ELSE FiresIn(dl'[c].events)
      <4>1. Fired(t, dl[c].sig, dl[c].at) \in
              IF dl[c].pc = "materialize" THEN FiresIn(log) ELSE FiresIn(dl[c].events)
        BY <3>2 DEF MadeKnown
      <4>2. CASE c = d
        BY <3>1, <3>2, <3>3, <4>1, <4>2
      <4>3. CASE c # d
        <5>1. dl'[c] = dl[c]
          BY <2>1, <4>3
        <5> QED
          BY <3>1, <4>1, <5>1
      <4> QED
        BY <4>2, <4>3
    <3>5. \A x \in runs' : Fired(x.trig, x.sig, x.at) \in FiresIn(log')
      BY <3>1, <3>3 DEF MadeKnown
    <3>6. MadeKnown'
      BY <3>4, <3>5 DEF MadeKnown
    <3>7. Made' \subseteq Made
      BY <1>i, <3>2, <3>3, InMade
    <3> QED
      BY <3>6, <3>7
  <2>4. ASSUME NEW t \in dl[d].pending, Creates(d, t)
        PROVE  MadeKnown' /\ Made' \subseteq Made
    <3> DEFINE run == [trig |-> t, sig |-> dl[d].sig, at |-> dl[d].at]
    <3>1. /\ run.trig = t /\ run.sig = dl[d].sig /\ run.at = dl[d].at
          /\ runs' \subseteq runs \cup {run} /\ log' = log
          /\ dl[d].pc = "materialize"
      BY <2>4 DEF Creates
    <3> HIDE DEF run
    <3>2. \A c \in Deliveries :
            /\ dl'[c].pending \subseteq dl[c].pending
            /\ dl'[c].sig = dl[c].sig /\ dl'[c].at = dl[c].at
            /\ dl'[c].pc = dl[c].pc /\ dl'[c].events = dl[c].events
      BY <2>1, <2>4 DEF Creates
    <3>3. Fired(t, dl[d].sig, dl[d].at) \in FiresIn(log)
      BY <3>1 DEF MadeKnown
    <3>4. \A x \in runs' : x \in runs \/ Fired(x.trig, x.sig, x.at) = Fired(t, dl[d].sig, dl[d].at)
      BY <3>1
    <3>5. MadeKnown'
      BY <3>1, <3>2, <3>3, <3>4 DEF MadeKnown
    <3>6. Made' \subseteq Made
      BY <1>i, <3>2, <3>4, InMade
    <3> QED
      BY <3>5, <3>6
  <2>5. ASSUME NEW t \in dl[d].left, FiresOne(d, t)
        PROVE  MadeKnown' /\ Made' \subseteq Made \cup {Fired(t, dl[d].sig, dl[d].at)}
    <3> DEFINE f == Fired(t, dl[d].sig, dl[d].at)
    <3>1. /\ dl[d].pc = "evaluate" /\ dl'[d].pc = "evaluate"
          /\ dl'[d].events = Append(dl[d].events, f)
          /\ dl'[d].pending = dl[d].pending \cup {t}
          /\ dl'[d].sig = dl[d].sig /\ dl'[d].at = dl[d].at
          /\ log' = log /\ runs' = runs
      BY <2>5 DEF FiresOne
    <3>2. f \in EventSet /\ f.kind = "fired"
      <4>1. dl[d].sig \in Signals /\ t \in Triggers
        BY <1>0, <3>1 DEF SigTyped
      <4> QED
        BY <1>0, <4>1, FiredTyped DEF Fired
    <3>3. FiresIn(dl'[d].events) = FiresIn(dl[d].events) \cup {f}
      <4> HIDE DEF f
      <4> QED
        BY <1>0, <3>1, <3>2, FiresAppend
    <3>4. ASSUME NEW c \in Deliveries, NEW u \in dl'[c].pending
          PROVE  Fired(u, dl'[c].sig, dl'[c].at) \in
                   IF dl'[c].pc = "materialize" THEN FiresIn(log') ELSE FiresIn(dl'[c].events)
      <4>1. CASE c # d
        <5>1. dl'[c] = dl[c]
          BY <2>1, <4>1
        <5> QED
          BY <3>1, <5>1 DEF MadeKnown
      <4>2. CASE c = d /\ u \in dl[d].pending
        <5>1. Fired(u, dl[d].sig, dl[d].at) \in FiresIn(dl[d].events)
          BY <3>1, <4>2 DEF MadeKnown
        <5> QED
          BY <3>1, <3>3, <4>2, <5>1
      <4>3. CASE c = d /\ u = t
        BY <3>1, <3>3, <4>3
      <4> QED
        BY <3>1, <4>1, <4>2, <4>3
    <3>5. MadeKnown'
      BY <3>1, <3>4 DEF MadeKnown
    <3>6. ASSUME NEW c \in Deliveries, NEW u \in dl'[c].pending
          PROVE  Fired(u, dl'[c].sig, dl'[c].at) \in Made \cup {f}
      <4>1. dl'[c].sig = dl[c].sig /\ dl'[c].at = dl[c].at
            /\ (u \in dl[c].pending \/ (c = d /\ u = t))
        BY <2>1, <3>1, <3>6
      <4> QED
        BY <4>1, InMade
    <3>7. Made' \subseteq Made \cup {f}
      BY <1>i, <3>1, <3>6, InMade
    <3> QED
      BY <3>5, <3>7
  <2> QED
    BY <1>0, <2>1, <2>2, <2>3, <2>4, <2>5 DEF Effect
<1>2. CASE ~ \E d \in Deliveries : DeliveryStep(d)
  <2>1. runs' = runs /\ FiresIn(log) \subseteq FiresIn(log')
    BY <1>2, OthersEffect
  <2>2. CASE Restart
    <3>1. \A c \in Deliveries : dl'[c].pending = {}
      BY <2>2, RestartEffect
    <3> QED
      BY <1>i, <2>1, <3>1, InMade DEF MadeKnown
  <2>3. CASE UNCHANGED dl
    <3>1. MadeKnown'
      BY <2>1, <2>3 DEF MadeKnown
    <3>2. Made' \subseteq Made
      BY <1>i, <2>1, <2>3, InMade
    <3> QED
      BY <3>1, <3>2
  <2> QED
    BY <1>2, <2>2, <2>3, OthersEffect
<1> QED
  BY <1>1, <1>2

LEMMA MadeInLimitsStep ==
  ASSUME Windows, MadeKnown, MadeInLimits, [Next]_vars, "fail" \notin Env
  PROVE  MadeInLimits'
<1> USE DEF Windows
<1>1. MaxPerMinute \in Nat /\ Budget \in Nat /\ Minute \in Nat /\ Hour \in Nat
  BY TriggerAssumption
<1>2. Made \subseteq Fires
  BY MadeOnRecord
<1>3. CASE Made' \subseteq Made
  <2>1. ASSUME NEW g \in Made'
        PROVE  /\ AtMost(Within(Made', {g.id}, Minute, g.at), MaxPerMinute)
               /\ AtMost(Within(Made', Triggers, Hour, g.at), Budget)
    <3>1. /\ AtMost(Within(Made, {g.id}, Minute, g.at), MaxPerMinute)
          /\ AtMost(Within(Made, Triggers, Hour, g.at), Budget)
      BY <1>3 DEF MadeInLimits
    <3>2. \A T, window : Within(Made', T, window, g.at) \subseteq Within(Made, T, window, g.at)
      BY <1>3 DEF Within, Since
    <3> QED
      BY <1>1, <3>1, <3>2, AtMostSubset
  <2> QED
    BY <2>1 DEF MadeInLimits
<1>4. ASSUME NEW d \in Deliveries, NEW t \in Triggers, FiresOne(d, t), Effect(d),
             Made' \subseteq Made \cup {Fired(t, dl[d].sig, dl[d].at)}
      PROVE  MadeInLimits'
  <2> DEFINE f == Fired(t, dl[d].sig, dl[d].at)
  <2>1. /\ dl[d].pc = "evaluate" /\ cursor = 0
        /\ Ready(t, dl[d].sig, dl[d].at)
    BY <1>4 DEF FiresOne, Effect
  <2>2. /\ dl[d].sig \in Signals /\ dl[d].at \in Nat /\ Clock = dl[d].at
    BY <2>1, TriggerAssumption
    DEF Requests, SigTyped, Locked, Clock, Base, RequestsOK, DeliverySet
  <2>3. f \in FireSet /\ f.id = t /\ f.at = dl[d].at /\ f.at \in Nat
    BY <2>2 DEF Fired, FireSet
  <2> HIDE DEF f
  <2>4. /\ Len(Recent(counts[t], f.at, Minute)) < MaxPerMinute
        /\ ~(Len(Recent(budget, f.at, Hour)) >= Budget)
    BY <2>1, <2>3 DEF Ready, Eligible, BudgetExceeded
  <2>5. /\ Len(Recent(counts[t], f.at, Minute)) \in Nat
        /\ Len(Recent(budget, f.at, Hour)) \in Nat
    <3>1. Recent(counts[t], f.at, Minute) \in Seq(Nat) /\ Recent(budget, f.at, Hour) \in Seq(Nat)
      BY <1>1, <2>3, RecentTyped DEF WindowsTyped
    <3> QED
      BY <3>1
  <2>6. /\ AtMost(Since(Fires, {t}, Minute, f.at), Len(Recent(counts[t], f.at, Minute)))
        /\ AtMost(Since(Fires, Triggers, Hour, f.at), Len(Recent(budget, f.at, Hour)))
    <3>1. Known = Fires /\ f.at >= Clock
      BY <2>1, <2>2, <2>3 DEF Known
    <3> QED
      BY <2>3, <3>1 DEF WindowsCover
  <2>7. Fires \subseteq FireSet /\ \A g \in Made : g \in FireSet /\ g.at \in Nat /\ g.at <= f.at
    BY <1>2, <2>2, <2>3 DEF FiresTyped, FiresPast, FireSet
  <2> DEFINE M == Made \cup {f}
  <2>8. AtMost(Within(M, {t}, Minute, f.at), MaxPerMinute)
    BY <1>1, <1>2, <2>3, <2>4, <2>5, <2>6, <2>7, FireInLimit
  <2>9. AtMost(Within(M, Triggers, Hour, f.at), Budget)
    <3>1. Len(Recent(budget, f.at, Hour)) < Budget
      BY <1>1, <2>4, <2>5
    <3> QED
      BY <1>1, <1>2, <2>3, <2>5, <2>6, <2>7, <3>1, FireInLimit
  <2>10. ASSUME NEW g \in M
         PROVE  /\ AtMost(Within(M, {g.id}, Minute, g.at), MaxPerMinute)
                /\ AtMost(Within(M, Triggers, Hour, g.at), Budget)
    <3>1. CASE g.at = f.at
      <4>1. AtMost(Within(M, Triggers, Hour, g.at), Budget)
        BY <2>9, <3>1
      <4>2. CASE g.id = t
        BY <2>8, <3>1, <4>1, <4>2
      <4>3. CASE g.id # t
        <5>1. g \in Made /\ f.id \notin {g.id}
          BY <2>3, <2>10, <4>3
        <5>2. AtMost(Within(Made, {g.id}, Minute, g.at), MaxPerMinute)
          BY <5>1 DEF MadeInLimits
        <5> QED
          BY <1>1, <4>1, <5>1, <5>2, OthersInLimit
      <4> QED
        BY <4>2, <4>3
    <3>2. CASE g.at # f.at
      <4>1. g \in Made /\ ~(f.at <= g.at)
        BY <2>3, <2>7, <2>10, <3>2
      <4>2. /\ AtMost(Within(Made, {g.id}, Minute, g.at), MaxPerMinute)
            /\ AtMost(Within(Made, Triggers, Hour, g.at), Budget)
        BY <4>1 DEF MadeInLimits
      <4> QED
        BY <1>1, <4>1, <4>2, OthersInLimit
    <3> QED
      BY <3>1, <3>2
  <2>11. Made' \subseteq M
    BY <1>4 DEF f
  <2>12. ASSUME NEW g \in Made'
         PROVE  /\ AtMost(Within(Made', {g.id}, Minute, g.at), MaxPerMinute)
                /\ AtMost(Within(Made', Triggers, Hour, g.at), Budget)
    <3> HIDE DEF M
    <3>1. /\ AtMost(Within(M, {g.id}, Minute, g.at), MaxPerMinute)
          /\ AtMost(Within(M, Triggers, Hour, g.at), Budget)
      BY <2>10, <2>11
    <3>2. \A T, window : Within(Made', T, window, g.at) \subseteq Within(M, T, window, g.at)
      BY <2>11 DEF Within, Since
    <3> QED
      BY <1>1, <3>1, <3>2, AtMostSubset
  <2> QED
    BY <2>12 DEF MadeInLimits
<1> QED
  BY <1>3, <1>4, MadeStep

Limits == TInv /\ Windows /\ OtherTyped /\ MadeKnown /\ MadeInLimits

LEMMA LimitsStep ==
  ASSUME "fail" \notin Env
  PROVE  (Init => Limits) /\ (Limits /\ [Next]_vars => Limits')
<1>1. ASSUME Init PROVE Limits
  <2>1. MadeKnown /\ Made = {}
    BY <1>1, InMade DEF Init, NewDelivery, MadeKnown
  <2>2. MadeInLimits
    BY <2>1 DEF MadeInLimits
  <2> QED
    BY <1>1, <2>1, <2>2, TInvInit, WindowsInit, OtherTypedInit DEF Limits
<1>2. ASSUME Limits, [Next]_vars PROVE Limits'
  <2>1. TInv' /\ Windows'
    BY <1>2, TInvStep, WindowsStep DEF Limits
  <2>2. OtherTyped'
    BY <1>2, <2>1, BeforeTyped, TemplatesTyped, RunsTyped
    DEF OtherTyped, TInv, RegistryOK, Windows, Limits
  <2>3. MadeKnown' /\ MadeInLimits'
    BY <1>2, MadeStep, MadeInLimitsStep DEF Limits, Windows
  <2> QED
    BY <2>1, <2>2, <2>3 DEF Limits
<1> QED
  BY <1>1, <1>2

\* Runs are counted through their fires: different runs have different ones.
LEMMA RunsCounted ==
  ASSUME NEW R, R \subseteq [trig : Triggers, sig : Signals, at : Nat],
         NEW S, NEW n \in Nat, AtMost(S, n),
         \A x \in R : Fired(x.trig, x.sig, x.at) \in S
  PROVE  Cardinality(R) <= n
<1> DEFINE F == [x \in R |-> Fired(x.trig, x.sig, x.at)]
<1>1. \A x, y \in R : F[x] = F[y] => x = y
  BY DEF Fired
<1>2. F \in [R -> S]
  OBVIOUS
<1> HIDE DEF F
<1>3. F \in Injection(R, S)
  BY <1>1, <1>2 DEF Injection, IsInjective
<1>4. IsFiniteSet(S) /\ Cardinality(S) <= n
  BY DEF AtMost
<1>5. IsFiniteSet(R) /\ Cardinality(R) <= Cardinality(S)
  BY <1>3, <1>4, FS_Injection
<1>6. Cardinality(R) \in Nat /\ Cardinality(S) \in Nat
  BY <1>4, <1>5, FS_CardinalityType
<1> QED
  BY <1>4, <1>5, <1>6

LEMMA LimitsHold == Limits => RateLimitHolds /\ BudgetHolds
<1> SUFFICES ASSUME Limits, NEW x \in runs
             PROVE  /\ Cardinality({y \in runs : y.trig = x.trig /\ y.at <= x.at
                                                   /\ y.at + Minute > x.at}) <= MaxPerMinute
                    /\ Cardinality({y \in runs : y.at <= x.at /\ y.at + Hour > x.at}) <= Budget
  BY DEF RateLimitHolds, BudgetHolds
<1> DEFINE f == Fired(x.trig, x.sig, x.at)
<1>1. runs \subseteq [trig : Triggers, sig : Signals, at : Nat]
      /\ MaxPerMinute \in Nat /\ Budget \in Nat
  BY TriggerAssumption DEF Limits, OtherTyped
<1>2. f.id = x.trig /\ f.at = x.at
  BY DEF Fired
<1>3. f \in Made
  BY InMade
<1> HIDE DEF f
<1>4. /\ AtMost(Within(Made, {x.trig}, Minute, x.at), MaxPerMinute)
      /\ AtMost(Within(Made, Triggers, Hour, x.at), Budget)
  BY <1>2, <1>3 DEF Limits, MadeInLimits
<1>5. \A y \in runs :
        LET g == Fired(y.trig, y.sig, y.at) IN
        g \in Made /\ g.id = y.trig /\ g.at = y.at /\ y.trig \in Triggers
  BY <1>1, InMade DEF Fired
<1>6. \A y \in {z \in runs : z.trig = x.trig /\ z.at <= x.at /\ z.at + Minute > x.at} :
        Fired(y.trig, y.sig, y.at) \in Within(Made, {x.trig}, Minute, x.at)
  BY <1>5 DEF Within, Since
<1>7. \A y \in {z \in runs : z.at <= x.at /\ z.at + Hour > x.at} :
        Fired(y.trig, y.sig, y.at) \in Within(Made, Triggers, Hour, x.at)
  BY <1>5 DEF Within, Since
<1>8. Cardinality({y \in runs : y.trig = x.trig /\ y.at <= x.at /\ y.at + Minute > x.at})
        <= MaxPerMinute
  BY <1>1, <1>4, <1>6, RunsCounted
<1>9. Cardinality({y \in runs : y.at <= x.at /\ y.at + Hour > x.at}) <= Budget
  BY <1>1, <1>4, <1>7, RunsCounted
<1> QED
  BY <1>8, <1>9

\* When the appends of trigger events succeed, a trigger creates in no window
\* of a minute more runs than its rate limit: whatever deliveries overlap,
\* wherever the clock moves between the mutex, the append and the creation of
\* the run, and wherever the process restarts and rebuilds its windows from
\* the log.
THEOREM RateLimitKept ==
  ASSUME "fail" \notin Env
  PROVE  Spec => []RateLimitHolds
<1>1. (Init => Limits) /\ (Limits /\ [Next]_vars => Limits')
  BY LimitsStep
<1>2. Limits => RateLimitHolds
  BY LimitsHold
<1> QED
  BY <1>1, <1>2, PTL DEF Spec

\* ... and the triggers of the project together create in no window of an hour
\* more runs than its budget.
THEOREM BudgetKept ==
  ASSUME "fail" \notin Env
  PROVE  Spec => []BudgetHolds
<1>1. (Init => Limits) /\ (Limits /\ [Next]_vars => Limits')
  BY LimitsStep
<1>2. Limits => BudgetHolds
  BY LimitsHold
<1> QED
  BY <1>1, <1>2, PTL DEF Spec

-----------------------------------------------------------------------------
(* Restarts lose nothing.  Replay folds the log into a state of the        *)
(* service, and each request changes the service as the replay of the      *)
(* events it is about to append would: so while requests come one at a     *)
(* time and their appends succeed, the service is the replay of the log    *)
(* and of what the request under way has yet to append.                    *)

State == [trig |-> trig, tmpl |-> tmpl, ledger |-> ledger, counts |-> counts,
          budget |-> budget]

\* The state of a process that has replayed nothing.
Blank == [trig |-> [t \in Triggers |-> "none"], tmpl |-> [p \in Templates |-> "none"],
          ledger |-> {}, counts |-> [t \in Triggers |-> <<>>], budget |-> <<>>]

LiveIn(s, t) == s.trig[t] \in {"enabled", "disabled", "suspended"}

UnreferencedIn(s, p) == \A t \in Triggers : LiveIn(s, t) => TemplateOf[t] # p

\* What the replay of an event makes of each part of the state.
TrigAfter(s, e) ==
  IF /\ e.kind \notin {"template_created", "template_deleted", "fired"}
     /\ IF e.kind = "trigger_created" THEN s.tmpl[TemplateOf[e.id]] = "live"
        ELSE LiveIn(s, e.id)
  THEN [s.trig EXCEPT ![e.id] = StateAfter(e.kind)] ELSE s.trig

TmplAfter(s, e) ==
  IF e.kind = "template_created" THEN [s.tmpl EXCEPT ![e.id] = "live"]
  ELSE IF e.kind = "template_deleted" /\ s.tmpl[e.id] = "live" /\ UnreferencedIn(s, e.id)
  THEN [s.tmpl EXCEPT ![e.id] = "deleted"] ELSE s.tmpl

LedgerAfter(s, e) ==
  IF e.kind = "fired" THEN s.ledger \cup {<<e.id, e.sig>>} ELSE s.ledger

CountsAfter(s, e) ==
  IF e.kind = "fired"
  THEN [s.counts EXCEPT ![e.id] = Append(Recent(@, e.at, Minute), e.at)] ELSE s.counts

BudgetAfter(s, e) ==
  IF e.kind = "fired" THEN Append(Recent(s.budget, e.at, Hour), e.at) ELSE s.budget

After(s, e) == [trig |-> TrigAfter(s, e), tmpl |-> TmplAfter(s, e),
                ledger |-> LedgerAfter(s, e), counts |-> CountsAfter(s, e),
                budget |-> BudgetAfter(s, e)]

\* h is the course of the replay of the events l, one state more than events.
Course(h, l) ==
  /\ DOMAIN h = 0..Len(l) /\ h[0] = Blank
  /\ \A i \in 1..Len(l) : h[i] = After(h[i - 1], l[i])

\* The replay of l ends in s.
Replays(l, s) == \E h : Course(h, l) /\ s = h[Len(l)]

Free(x) == x.pc \in {"new", "done"}

OnlyDelivery(d) ==
  /\ ~Free(dl[d]) /\ \A c \in Deliveries \ {d} : Free(dl[c])
  /\ \A o \in Operators : Free(op[o])

OnlyOperator(o) ==
  /\ ~Free(op[o]) /\ \A c \in Operators \ {o} : Free(op[c])
  /\ \A d \in Deliveries : Free(dl[d])

\* At most one request is under way, and l is what it has yet to append.
Unlogged(l) ==
  \/ Idle /\ l = <<>>
  \/ \E d \in Deliveries : OnlyDelivery(d) /\ l = dl[d].events
  \/ \E o \in Operators : OnlyOperator(o) /\ l = <<op[o].event>>

SnapshotOf(s) == [on |-> TRUE, ok |-> TRUE, trig |-> s.trig, tmpl |-> s.tmpl,
                  ledger |-> s.ledger, counts |-> s.counts, budget |-> s.budget]

\* Replay has folded the events before the cursor; no request is under way.
Loaded ==
  cursor # 0 => Idle /\ Replays(SubSeq(log, 1, cursor - 1), State)

\* The service is the replay of what was appended and what is yet to be.
Current ==
  cursor = 0 /\ before.ok => \E l : Unlogged(l) /\ Replays(log \o l, State)

\* The snapshot is the replay of the log.
Kept ==
  before.on => cursor # 0 /\ \E s : Replays(log, s) /\ before = SnapshotOf(s)

Restores == Loaded /\ Current /\ Kept

\* A replay that goes one event further.
LEMMA ReplaysAppend ==
  ASSUME NEW l \in Seq(EventSet), NEW e \in EventSet, NEW s, Replays(l, s)
  PROVE  Replays(Append(l, e), After(s, e))
<1> DEFINE n == Len(l)
           u == Append(l, e)
<1>1. PICK h : Course(h, l) /\ s = h[n]
  BY DEF Replays
<1>2. n \in Nat /\ Len(u) = n + 1 /\ u[n + 1] = e /\ \A i \in 1..n : u[i] = l[i]
  OBVIOUS
<1> HIDE DEF n, u
<1> DEFINE last == After(s, e)
           g == [i \in 0..(n + 1) |-> IF i = n + 1 THEN last ELSE h[i]]
<1> HIDE DEF last
<1>3. g[n + 1] = last /\ \A i \in 0..n : g[i] = h[i]
  BY <1>2
<1>4. h[0] = Blank /\ \A i \in 1..n : h[i] = After(h[i - 1], l[i])
  BY <1>1 DEF Course, n
<1>5. ASSUME NEW i \in 1..(n + 1)
      PROVE  g[i] = After(g[i - 1], u[i])
  <2>1. i - 1 \in 0..n /\ g[i - 1] = h[i - 1]
    BY <1>2, <1>3
  <2>2. CASE i = n + 1
    <3>1. i - 1 = n /\ u[i] = e
      BY <1>2, <2>2
    <3> QED
      BY <1>1, <1>3, <2>1, <2>2, <3>1 DEF last
  <2>3. CASE i # n + 1
    <3>1. i \in 1..n /\ i \in 0..n
      BY <1>2, <2>3
    <3> QED
      BY <1>2, <1>3, <1>4, <2>1, <3>1
  <2> QED
    BY <2>2, <2>3
<1>6. g[0] = Blank /\ DOMAIN g = 0..(n + 1)
  BY <1>2, <1>3, <1>4
<1> HIDE DEF g
<1>7. Course(g, u)
  BY <1>2, <1>5, <1>6 DEF Course
<1>8. last = g[Len(u)]
  BY <1>2, <1>3
<1>9. Replays(u, last)
  BY <1>7, <1>8 DEF Replays
<1> QED
  BY <1>9 DEF u, last

LEMMA ReplaysNothing == Replays(<<>>, Blank)
<1> DEFINE h == [i \in 0..0 |-> Blank]
<1>1. DOMAIN h = 0..Len(<<>>) /\ h[0] = Blank /\ Len(<<>>) = 0
  OBVIOUS
<1>2. \A i \in 1..Len(<<>>) : h[i] = After(h[i - 1], <<>>[i])
  BY <1>1
<1> HIDE DEF h
<1>3. Course(h, <<>>)
  BY <1>1, <1>2 DEF Course
<1> QED
  BY <1>1, <1>3 DEF Replays

\* A log has one replay.
LEMMA ReplaysUnique ==
  ASSUME NEW l \in Seq(EventSet), NEW s, NEW r, Replays(l, s), Replays(l, r)
  PROVE  s = r
<1> DEFINE n == Len(l)
<1>0. n \in Nat
  OBVIOUS
<1>1. PICK h : Course(h, l) /\ s = h[n]
  BY DEF Replays
<1>2. PICK g : Course(g, l) /\ r = g[n]
  BY DEF Replays
<1>3. /\ h[0] = g[0]
      /\ \A i \in 1..n : h[i] = After(h[i - 1], l[i]) /\ g[i] = After(g[i - 1], l[i])
  BY <1>1, <1>2 DEF Course
<1> HIDE DEF n
<1> DEFINE P == {i \in 0..n : h[i] = g[i]}
<1>4. 0 \in P
  BY <1>0, <1>3
<1>5. ASSUME NEW i \in 1..n, i - 1 \in P
      PROVE  i \in P
  <2>1. i \in 0..n /\ h[i - 1] = g[i - 1]
    BY <1>0, <1>5
  <2>2. h[i] = g[i]
    BY <1>3, <2>1
  <2> QED
    BY <2>1, <2>2
<1>6. n \in P
  <2> HIDE DEF P
  <2>1. \A i \in 0..n : i \in P
    BY <1>0, <1>4, <1>5, UpToHolds
  <2> QED
    BY <1>0, <2>1
<1> QED
  BY <1>1, <1>2, <1>6

\* The prefix of a log that replay has passed grows by the event it applies.
LEMMA PrefixGrows ==
  ASSUME NEW l \in Seq(EventSet), NEW i \in 1..Len(l)
  PROVE  /\ SubSeq(l, 1, i - 1) \in Seq(EventSet) /\ l[i] \in EventSet
         /\ SubSeq(l, 1, i) = Append(SubSeq(l, 1, i - 1), l[i])
<1> DEFINE p == SubSeq(l, 1, i - 1)
           q == SubSeq(l, 1, i)
<1>1. p \in Seq(EventSet) /\ Len(p) = i - 1 /\ \A j \in 1..(i - 1) : p[j] = l[j]
  OBVIOUS
<1>2. q \in Seq(EventSet) /\ Len(q) = i /\ \A j \in 1..i : q[j] = l[j]
  OBVIOUS
<1>3. l[i] \in EventSet
  OBVIOUS
<1> HIDE DEF p, q
<1>4. Append(p, l[i]) \in Seq(EventSet) /\ Len(Append(p, l[i])) = i
      /\ \A j \in 1..i : Append(p, l[i])[j] = l[j]
  BY <1>1, <1>3
<1>5. q = Append(p, l[i])
  BY <1>2, <1>4
<1> QED
  BY <1>1, <1>3, <1>5 DEF p, q

LEMMA PrefixWhole ==
  ASSUME NEW l \in Seq(EventSet)
  PROVE  SubSeq(l, 1, Len(l)) = l /\ SubSeq(l, 1, 0) = <<>> /\ l \o <<>> = l
OBVIOUS

LEMMA ConcatAppend ==
  ASSUME NEW l \in Seq(EventSet), NEW k \in Seq(EventSet), NEW e \in EventSet
  PROVE  l \o Append(k, e) = Append(l \o k, e) /\ l \o <<e>> = Append(l, e)
OBVIOUS

-----------------------------------------------------------------------------
\* Each step of the replay applies the event at the cursor.
LEMMA ReplayApplies ==
  ASSUME Base, ReplayTemplate \/ ReplayTrigger \/ ReplayFired
  PROVE  /\ cursor \in 1..Len(log) /\ State' = After(State, log[cursor])
         /\ cursor' = cursor + 1 /\ UNCHANGED <<log, dl, op, before>>
<1> DEFINE e == log[cursor]
<1>1. cursor \in 1..Len(log) /\ cursor' = cursor + 1 /\ UNCHANGED <<log, dl, op, before>>
  BY DEF ReplayTemplate, ReplayTrigger, ReplayFired, Replaying, ReplayDone
<1>2. e \in EventSet
  BY <1>1 DEF Base, RequestsOK
<1>3. /\ State.trig = trig /\ State.tmpl = tmpl /\ State.ledger = ledger
      /\ State.counts = counts /\ State.budget = budget
  BY DEF State
<1>4. \A t : LiveIn(State, t) <=> Live(t)
  BY <1>3 DEF LiveIn, Live
<1>5. \A p : UnreferencedIn(State, p) <=> Unreferenced(p)
  BY <1>4 DEF UnreferencedIn, Unreferenced
<1>6. CASE ReplayTemplate
  <2>1. tmpl' = TmplAfter(State, e)
    <3>1. CASE e.kind = "template_created"
      BY <1>3, <1>6, <3>1 DEF ReplayTemplate, TmplAfter
    <3>2. CASE e.kind = "template_deleted"
      BY <1>3, <1>5, <1>6, <3>2 DEF ReplayTemplate, TmplAfter
    <3> QED
      BY <1>6, <3>1, <3>2 DEF ReplayTemplate
  <2>2. e.kind \in {"template_created", "template_deleted"}
        /\ UNCHANGED <<trig, ledger, counts, budget>>
    BY <1>6 DEF ReplayTemplate
  <2>3. /\ trig' = TrigAfter(State, e) /\ ledger' = LedgerAfter(State, e)
        /\ counts' = CountsAfter(State, e) /\ budget' = BudgetAfter(State, e)
    BY <1>3, <2>2 DEF TrigAfter, LedgerAfter, CountsAfter, BudgetAfter
  <2>4. State' = After(State, e)
    BY <2>1, <2>3 DEF State, After
  <2> QED
    BY <1>1, <2>4
<1>7. CASE ReplayTrigger
  <2>1. /\ e.kind \notin {"template_created", "template_deleted", "fired"}
        /\ UNCHANGED <<tmpl, ledger, counts, budget>>
        /\ trig' = IF IF e.kind = "trigger_created" THEN tmpl[TemplateOf[e.id]] = "live"
                      ELSE Live(e.id)
                   THEN [trig EXCEPT ![e.id] = StateAfter(e.kind)] ELSE trig
    BY <1>7 DEF ReplayTrigger
  <2>2. trig' = TrigAfter(State, e)
    BY <1>3, <1>4, <2>1 DEF TrigAfter
  <2>3. /\ tmpl' = TmplAfter(State, e) /\ ledger' = LedgerAfter(State, e)
        /\ counts' = CountsAfter(State, e) /\ budget' = BudgetAfter(State, e)
    BY <1>3, <2>1 DEF TmplAfter, LedgerAfter, CountsAfter, BudgetAfter
  <2>4. State' = After(State, e)
    BY <2>2, <2>3 DEF State, After
  <2> QED
    BY <1>1, <2>4
<1>8. CASE ReplayFired
  <2>1. e.kind = "fired" /\ RecordFire(e.id, e.sig, e.at) /\ UNCHANGED <<trig, tmpl>>
    BY <1>8 DEF ReplayFired
  <2>2. /\ trig' = TrigAfter(State, e) /\ tmpl' = TmplAfter(State, e)
        /\ ledger' = LedgerAfter(State, e)
        /\ counts' = CountsAfter(State, e) /\ budget' = BudgetAfter(State, e)
    BY <1>3, <2>1 DEF TrigAfter, TmplAfter, LedgerAfter, CountsAfter, BudgetAfter, RecordFire
  <2>3. State' = After(State, e)
    BY <2>2 DEF State, After
  <2> QED
    BY <1>1, <2>3
<1> QED
  BY <1>6, <1>7, <1>8

\* A suspension changes the service as its replay does: the trigger is live
\* when its turn comes, since the mutex was held from when it was seen enabled.
LEMMA SuspendApplies ==
  ASSUME TInv, NEW d \in Deliveries, NEW t \in dl[d].left, SuspendOne(d, t)
  PROVE  State' = After(State, Event("suspended", t))
<1> DEFINE e == Event("suspended", t)
<1>1. e.kind = "suspended" /\ e.id = t
  BY DEF Event
<1>2. LiveIn(State, t)
  BY DEF SuspendOne, IsNext, TInv, LockOK, LiveIn, State
<1>3. trig' = [trig EXCEPT ![t] = "suspended"] /\ UNCHANGED <<tmpl, ledger, counts, budget>>
  BY DEF SuspendOne
<1>4. StateAfter("suspended") = "suspended"
  BY DEF StateAfter
<1> HIDE DEF e
<1>5. trig' = TrigAfter(State, e)
  BY <1>1, <1>2, <1>3, <1>4 DEF TrigAfter, State
<1>6. /\ tmpl' = TmplAfter(State, e) /\ ledger' = LedgerAfter(State, e)
      /\ counts' = CountsAfter(State, e) /\ budget' = BudgetAfter(State, e)
  BY <1>1, <1>3 DEF TmplAfter, LedgerAfter, CountsAfter, BudgetAfter, State
<1>7. State' = After(State, e)
  BY <1>5, <1>6 DEF State, After
<1> QED
  BY <1>7 DEF e

\* So does a fire.
LEMMA FireApplies ==
  ASSUME NEW d \in Deliveries, NEW t, FireOne(d, t)
  PROVE  State' = After(State, Fired(t, dl[d].sig, dl[d].at))
<1> DEFINE e == Fired(t, dl[d].sig, dl[d].at)
<1>1. e.kind = "fired" /\ e.id = t /\ e.sig = dl[d].sig /\ e.at = dl[d].at
  BY DEF Fired
<1>2. RecordFire(t, dl[d].sig, dl[d].at) /\ UNCHANGED <<trig, tmpl>>
  BY DEF FireOne
<1> HIDE DEF e
<1>3. /\ trig' = TrigAfter(State, e) /\ tmpl' = TmplAfter(State, e)
      /\ ledger' = LedgerAfter(State, e)
      /\ counts' = CountsAfter(State, e) /\ budget' = BudgetAfter(State, e)
  BY <1>1, <1>2 DEF TrigAfter, TmplAfter, LedgerAfter, CountsAfter, BudgetAfter,
                    RecordFire, State
<1>4. State' = After(State, e)
  BY <1>3 DEF State, After
<1> QED
  BY <1>4 DEF e

-----------------------------------------------------------------------------
\* While requests come one at a time, the events of the delivery that moves
\* are all that is yet to be appended.
LEMMA AloneUnlogged ==
  ASSUME NEW d \in Deliveries, ~Free(dl[d]), NEW l, Unlogged(l)
  PROVE  OnlyDelivery(d) /\ l = dl[d].events
<1>1. ~Idle
  BY DEF Idle, Free
<1>2. \A o \in Operators : ~OnlyOperator(o)
  BY DEF OnlyOperator
<1>3. \A c \in Deliveries : OnlyDelivery(c) => c = d
  BY DEF OnlyDelivery
<1> QED
  BY <1>1, <1>2, <1>3 DEF Unlogged

LEMMA IdleUnlogged ==
  ASSUME Idle, NEW l, Unlogged(l)
  PROVE  l = <<>>
BY DEF Idle, Unlogged, OnlyDelivery, OnlyOperator, Free

\* What a delivery step does to the service, its events and the log: nothing,
\* one event that it keeps and applies, or the append.
LEMMA DeliveryApplies ==
  ASSUME TInv, NEW d \in Deliveries, DeliveryStep(d)
  PROVE  /\ cursor = 0 /\ cursor' = 0 /\ UNCHANGED op
         /\ before' = before \/ (before'.on = FALSE /\ before'.ok = FALSE)
         /\ \A c \in Deliveries \ {d} : dl'[c] = dl[c]
         /\ ~before'.ok \/ ~Free(dl[d]) \/ (Idle /\ before' = before)
         /\ Free(dl[d]) => ~Free(dl'[d]) /\ dl[d].events = <<>>
         /\ Free(dl'[d]) => dl'[d].events = <<>>
         /\ \/ State' = State /\ dl'[d].events = dl[d].events /\ log' = log
            \/ \E e \in EventSet : State' = After(State, e) /\ log' = log
                                     /\ dl'[d].events = Append(dl[d].events, e)
            \/ State' = State /\ dl'[d].events = <<>> /\ log' = log \o dl[d].events
            \/ ~before'.ok
<1> DEFINE Goal ==
             /\ cursor = 0 /\ cursor' = 0 /\ UNCHANGED op
             /\ before' = before \/ (before'.on = FALSE /\ before'.ok = FALSE)
             /\ \A c \in Deliveries \ {d} : dl'[c] = dl[c]
             /\ ~before'.ok \/ ~Free(dl[d]) \/ (Idle /\ before' = before)
             /\ Free(dl[d]) => ~Free(dl'[d]) /\ dl[d].events = <<>>
             /\ Free(dl'[d]) => dl'[d].events = <<>>
             /\ \/ State' = State /\ dl'[d].events = dl[d].events /\ log' = log
                \/ \E e \in EventSet : State' = After(State, e) /\ log' = log
                                         /\ dl'[d].events = Append(dl[d].events, e)
                \/ State' = State /\ dl'[d].events = <<>> /\ log' = log \o dl[d].events
                \/ ~before'.ok
<1>0. dl[d] \in DeliverySet /\ DOMAIN dl = Deliveries /\ Base
  BY DEF TInv, Base, RequestsOK
<1>a. dl[d].pc \notin {"new", "done"} => cursor = 0
  BY <1>0, UnderWay
<1>b. ASSUME NEW x, dl' = [dl EXCEPT ![d] = x]
      PROVE  dl'[d] = x /\ \A c \in Deliveries \ {d} : dl'[c] = dl[c]
  BY <1>0, <1>b
<1>c. UNCHANGED service => State' = State
  BY DEF service, State
<1>d. \A bad : Watch(bad) => \/ ~bad /\ before' = before
                             \/ bad /\ before'.on = FALSE /\ before'.ok = FALSE
  BY DEF Watch, NoSnapshot
\* A step that moves the delivery on, and changes nothing else.
<1>e. ASSUME ~Free(dl[d]), cursor = 0, NEW x, dl' = [dl EXCEPT ![d] = x],
             x.events = dl[d].events, Free(x) => x.events = <<>>,
             UNCHANGED <<service, op, log, cursor, before>>
      PROVE  Goal
  BY <1>b, <1>c, <1>e
<1>1. ASSUME NEW s \in Signals, Preview(d, s) PROVE Goal
  <2>1. PICK cand, over :
          dl' = [dl EXCEPT ![d].pc = "decide", ![d].sig = s, ![d].cand = cand,
                           ![d].over = over]
    BY <1>1, Zenon DEF Preview
  <2> DEFINE x == [dl[d] EXCEPT !.pc = "decide", !.sig = s, !.cand = cand,
                                !.over = over]
  <2>2. x.pc = "decide" /\ x.events = dl[d].events
    BY <1>0 DEF DeliverySet
  <2>3. dl' = [dl EXCEPT ![d] = x]
    BY <2>1
  <2>4. /\ dl[d].pc = "new" /\ cursor = 0 /\ Watch(~Idle)
        /\ UNCHANGED <<service, op, log, cursor>>
    BY <1>1, Zenon DEF Preview, MayStart, Serving
  <2>5. dl[d].events = <<>>
    BY <1>0, <2>4 DEF Base, PhaseOK
  <2>6. \/ Idle /\ before' = before
        \/ before'.on = FALSE /\ before'.ok = FALSE
    BY <1>d, <2>4
  <2> HIDE DEF x
  <2>7. dl'[d] = x /\ \A c \in Deliveries \ {d} : dl'[c] = dl[c]
    BY <1>b, <2>3
  <2>8. ~Free(dl'[d])
    BY <2>2, <2>7 DEF Free
  <2> QED
    BY <1>c, <2>2, <2>4, <2>5, <2>6, <2>7, <2>8
<1>2. ASSUME NEW ok \in SUBSET dl[d].cand, Decide(d, ok) PROVE Goal
  <2> DEFINE x == [dl[d] EXCEPT !.pc = "wait", !.ok = ok]
  <2>1. x.pc = "wait" /\ x.events = dl[d].events
    BY <1>0 DEF DeliverySet
  <2>2. /\ dl' = [dl EXCEPT ![d] = x] /\ dl[d].pc = "decide"
        /\ UNCHANGED <<service, op, log, cursor, before>>
    BY <1>2 DEF Decide
  <2> HIDE DEF x, Goal
  <2> QED
    BY <1>a, <1>e, <2>1, <2>2 DEF Free
<1>3. ASSUME Acquire(d) PROVE Goal
  <2> DEFINE left == Matching(dl[d].sig) \cap dl[d].cand
             x == [dl[d] EXCEPT !.pc = "evaluate", !.at = now, !.left = left]
  <2>1. x.pc = "evaluate" /\ x.events = dl[d].events
    <3> HIDE DEF left
    <3> QED
      BY <1>0 DEF DeliverySet
  <2>2. /\ dl' = [dl EXCEPT ![d] = x] /\ dl[d].pc = "wait"
        /\ UNCHANGED <<service, op, log, cursor, before>>
    BY <1>3 DEF Acquire
  <2> HIDE DEF x, Goal
  <2> QED
    BY <1>a, <1>e, <2>1, <2>2 DEF Free
<1>4. ASSUME NEW t \in dl[d].left, SkipOne(d, t) PROVE Goal
  <2> DEFINE x == [dl[d] EXCEPT !.left = @ \ {t}]
  <2>1. x.pc = dl[d].pc /\ x.events = dl[d].events
    BY <1>0 DEF DeliverySet
  <2>2. /\ dl' = [dl EXCEPT ![d] = x] /\ dl[d].pc = "evaluate"
        /\ UNCHANGED <<service, op, log, cursor, before>>
    BY <1>4 DEF SkipOne, IsNext
  <2> HIDE DEF x, Goal
  <2> QED
    BY <1>a, <1>e, <2>1, <2>2 DEF Free
\* A step that applies an event and keeps it to be appended.
<1>f. ASSUME ~Free(dl[d]), cursor = 0, NEW e \in EventSet, NEW x, dl' = [dl EXCEPT ![d] = x],
             x.events = Append(dl[d].events, e), ~Free(x), State' = After(State, e),
             UNCHANGED <<op, log, cursor, before>>
      PROVE  Goal
  BY <1>b, <1>f
<1>5. ASSUME NEW t \in dl[d].left, SuspendOne(d, t) PROVE Goal
  <2> DEFINE e == Event("suspended", t)
             x == [dl[d] EXCEPT !.left = @ \ {t}, !.events = Append(@, e)]
  <2>1. e \in EventSet
    BY <1>0, EventTyped DEF DeliverySet, Kinds
  <2>2. State' = After(State, e)
    BY <1>5, SuspendApplies
  <2>3. /\ dl' = [dl EXCEPT ![d] = x] /\ dl[d].pc = "evaluate"
        /\ UNCHANGED <<op, log, cursor, before>>
    BY <1>5 DEF SuspendOne, IsNext
  <2> HIDE DEF e
  <2>4. x.pc = dl[d].pc /\ x.events = Append(dl[d].events, e)
    BY <1>0 DEF DeliverySet
  <2> HIDE DEF x, Goal
  <2>5. ~Free(x) /\ ~Free(dl[d]) /\ cursor = 0
    BY <1>a, <2>3, <2>4 DEF Free
  <2> QED
    BY <1>f, <2>1, <2>2, <2>3, <2>4, <2>5
<1>6. ASSUME NEW t \in dl[d].left, FireOne(d, t) PROVE Goal
  <2> DEFINE e == Fired(t, dl[d].sig, dl[d].at)
             x == [dl[d] EXCEPT !.left = @ \ {t}, !.pending = @ \cup {t},
                                !.events = Append(@, e)]
  <2>1. e \in EventSet
    BY <1>0, FiredTyped DEF DeliverySet
  <2>2. State' = After(State, e)
    BY <1>6, FireApplies
  <2>3. /\ dl' = [dl EXCEPT ![d] = x] /\ dl[d].pc = "evaluate"
        /\ UNCHANGED <<op, log, cursor, before>>
    BY <1>6 DEF FireOne, IsNext
  <2> HIDE DEF e
  <2>4. x.pc = dl[d].pc /\ x.events = Append(dl[d].events, e)
    BY <1>0 DEF DeliverySet
  <2> HIDE DEF x, Goal
  <2>5. ~Free(x) /\ ~Free(dl[d]) /\ cursor = 0
    BY <1>a, <2>3, <2>4 DEF Free
  <2> QED
    BY <1>f, <2>1, <2>2, <2>3, <2>4, <2>5
<1>7. ASSUME Release(d) PROVE Goal
  <2> DEFINE x == [dl[d] EXCEPT !.pc = "append"]
  <2>1. x.pc = "append" /\ x.events = dl[d].events
    BY <1>0 DEF DeliverySet
  <2>2. /\ dl' = [dl EXCEPT ![d] = x] /\ dl[d].pc = "evaluate"
        /\ UNCHANGED <<service, op, log, cursor, before>>
    BY <1>7 DEF Release
  <2> HIDE DEF x, Goal
  <2> QED
    BY <1>a, <1>e, <2>1, <2>2 DEF Free
<1>8. ASSUME AppendEvents(d) PROVE Goal
  <2>1. /\ dl[d].pc = "append"
        /\ \/ log' = log \o dl[d].events /\ UNCHANGED before
           \/ Watch(TRUE)
        /\ dl' = [dl EXCEPT ![d].pc = "materialize", ![d].events = <<>>]
        /\ UNCHANGED <<service, op, cursor>>
    BY <1>8 DEF AppendEvents
  <2> DEFINE none == <<>>
             x == [dl[d] EXCEPT !.pc = "materialize", !.events = none]
  <2>2. dl' = [dl EXCEPT ![d] = x]
    BY <2>1, Zenon
  <2> HIDE DEF none
  <2>3. x.pc = "materialize" /\ x.events = none
    BY <1>0 DEF DeliverySet
  <2> HIDE DEF x
  <2>4. dl'[d] = x /\ \A c \in Deliveries \ {d} : dl'[c] = dl[c]
    BY <1>b, <2>2
  <2>5. \/ log' = log \o dl[d].events /\ before' = before
        \/ before'.on = FALSE /\ before'.ok = FALSE
    BY <1>d, <2>1
  <2>6. ~Free(dl[d]) /\ ~Free(dl'[d]) /\ cursor = 0 /\ dl'[d].events = <<>>
    BY <1>a, <2>1, <2>3, <2>4 DEF Free, none
  <2> QED
    BY <1>c, <2>1, <2>4, <2>5, <2>6
<1>9. ASSUME NEW t \in dl[d].pending, Materialize(d, t) PROVE Goal
  <2> DEFINE x == [dl[d] EXCEPT !.pending = @ \ {t}]
  <2>1. /\ dl' = [dl EXCEPT ![d] = x] /\ dl[d].pc = "materialize"
        /\ UNCHANGED <<service, op, log, cursor, before>>
    BY <1>9 DEF Materialize
  <2>2. x.pc = dl[d].pc /\ x.events = dl[d].events
    BY <1>0 DEF DeliverySet
  <2> HIDE DEF x, Goal
  <2> QED
    BY <1>a, <1>e, <2>1, <2>2 DEF Free
<1>10. ASSUME Respond(d) PROVE Goal
  <2> DEFINE x == [NewDelivery EXCEPT !.pc = "done", !.over = dl[d].over]
  <2>1. /\ dl' = [dl EXCEPT ![d] = x] /\ dl[d].pc = "materialize"
        /\ UNCHANGED <<service, op, log, cursor, before>>
    BY <1>10 DEF Respond
  <2>2. x.events = <<>>
    BY DEF NewDelivery
  <2>3. dl[d].events = <<>>
    BY <1>0, <2>1 DEF Base, PhaseOK
  <2> HIDE DEF x, Goal
  <2> QED
    BY <1>a, <1>e, <2>1, <2>2, <2>3 DEF Free
<1> HIDE DEF Goal
<1>11. Goal
  BY <1>1, <1>2, <1>3, <1>4, <1>5, <1>6, <1>7, <1>8, <1>9, <1>10 DEF DeliveryStep
<1> QED
  BY <1>11 DEF Goal

\* The operator requests that change the service do so as the replay of their
\* event would; the service refuses what replay would ignore.
LEMMA OpStartApplies ==
  ASSUME NEW o \in Operators, OperatorStep(o), ~OpAppend(o)
  PROVE  \E e \in EventSet : OpStart(o, e) /\ State' = After(State, e)
<1>1. /\ State.trig = trig /\ State.tmpl = tmpl /\ State.ledger = ledger
      /\ State.counts = counts /\ State.budget = budget
  BY DEF State
<1>2. \A t : LiveIn(State, t) <=> Live(t)
  BY <1>1 DEF LiveIn, Live
<1>3. \A p : UnreferencedIn(State, p) <=> Unreferenced(p)
  BY <1>2 DEF UnreferencedIn, Unreferenced
\* Of an event that is no fire, replay sees the kind and the id.
<1>4. ASSUME NEW e \in EventSet, OpStart(o, e), e.kind # "fired",
             trig' = TrigAfter(State, e), tmpl' = TmplAfter(State, e)
      PROVE  \E f \in EventSet : OpStart(o, f) /\ State' = After(State, f)
  <2>1. UNCHANGED <<ledger, counts, budget>>
    BY <1>4 DEF OpStart
  <2>2. ledger' = LedgerAfter(State, e) /\ counts' = CountsAfter(State, e)
        /\ budget' = BudgetAfter(State, e)
    BY <1>1, <1>4, <2>1 DEF LedgerAfter, CountsAfter, BudgetAfter
  <2>3. State' = After(State, e)
    BY <1>4, <2>2 DEF State, After
  <2> QED
    BY <1>4, <2>3
<1> DEFINE Goal == \E f \in EventSet : OpStart(o, f) /\ State' = After(State, f)
<1>5. ASSUME NEW p \in Templates, CreateTemplate(o, p) PROVE Goal
  <2> DEFINE e == Event("template_created", p)
  <2>1. e \in EventSet /\ e.kind = "template_created" /\ e.id = p
    BY EventTyped DEF Kinds, Event
  <2>2. OpStart(o, e) /\ tmpl' = [tmpl EXCEPT ![p] = "live"] /\ UNCHANGED trig
    BY <1>5 DEF CreateTemplate
  <2> HIDE DEF e
  <2>3. trig' = TrigAfter(State, e) /\ tmpl' = TmplAfter(State, e)
    BY <1>1, <2>1, <2>2 DEF TrigAfter, TmplAfter
  <2> QED
    BY <1>4, <2>1, <2>2, <2>3
<1>6. ASSUME NEW p \in Templates, DeleteTemplate(o, p) PROVE Goal
  <2> DEFINE e == Event("template_deleted", p)
  <2>1. e \in EventSet /\ e.kind = "template_deleted" /\ e.id = p
    BY EventTyped DEF Kinds, Event
  <2>2. /\ OpStart(o, e) /\ tmpl' = [tmpl EXCEPT ![p] = "deleted"] /\ UNCHANGED trig
        /\ tmpl[p] = "live" /\ Unreferenced(p)
    BY <1>6 DEF DeleteTemplate
  <2> HIDE DEF e
  <2>3. trig' = TrigAfter(State, e) /\ tmpl' = TmplAfter(State, e)
    BY <1>1, <1>3, <2>1, <2>2 DEF TrigAfter, TmplAfter
  <2> QED
    BY <1>4, <2>1, <2>2, <2>3
\* The requests on triggers.
<1>7. ASSUME NEW t \in Triggers, NEW kind \in Kinds,
             kind \notin {"template_created", "template_deleted", "fired"},
             OpStart(o, Event(kind, t)), UNCHANGED tmpl,
             trig' = [trig EXCEPT ![t] = StateAfter(kind)],
             IF kind = "trigger_created" THEN tmpl[TemplateOf[t]] = "live" ELSE Live(t)
      PROVE  Goal
  <2> DEFINE e == Event(kind, t)
  <2>1. e \in EventSet /\ e.kind = kind /\ e.id = t
    BY EventTyped DEF Event
  <2> HIDE DEF e
  <2>2. trig' = TrigAfter(State, e)
    BY <1>1, <1>2, <1>7, <2>1 DEF TrigAfter
  <2>3. tmpl' = TmplAfter(State, e)
    BY <1>1, <1>7, <2>1 DEF TmplAfter
  <2>4. OpStart(o, e)
    BY <1>7 DEF e
  <2> QED
    BY <1>4, <1>7, <2>1, <2>2, <2>3, <2>4
<1>8. /\ StateAfter("trigger_created") = "enabled" /\ StateAfter("enabled") = "enabled"
      /\ StateAfter("resumed") = "enabled" /\ StateAfter("disabled") = "disabled"
      /\ StateAfter("deleted") = "deleted"
  BY DEF StateAfter
<1>9. /\ "trigger_created" \in Kinds /\ "enabled" \in Kinds /\ "resumed" \in Kinds
      /\ "disabled" \in Kinds /\ "deleted" \in Kinds
  BY DEF Kinds
<1> HIDE DEF Goal
<1>10. ASSUME NEW t \in Triggers, CreateTrigger(o, t) PROVE Goal
  <2>1. /\ OpStart(o, Event("trigger_created", t)) /\ UNCHANGED tmpl
        /\ trig' = [trig EXCEPT ![t] = "enabled"] /\ tmpl[TemplateOf[t]] = "live"
    BY <1>10 DEF CreateTrigger
  <2> QED
    BY <1>7, <1>8, <1>9, <2>1
<1>11. ASSUME NEW t \in Triggers, NEW kind \in {"enabled", "disabled", "resumed", "deleted"},
              SetTrigger(o, t, StateAfter(kind), kind)
       PROVE  Goal
  <2>1. /\ OpStart(o, Event(kind, t)) /\ UNCHANGED tmpl
        /\ trig' = [trig EXCEPT ![t] = StateAfter(kind)] /\ Live(t)
    BY <1>11 DEF SetTrigger
  <2>2. kind \in Kinds /\ kind # "trigger_created"
        /\ kind \notin {"template_created", "template_deleted", "fired"}
    BY <1>9
  <2> QED
    BY <1>7, <2>1, <2>2
<1>12. ASSUME NEW t \in Triggers,
              \/ EnableTrigger(o, t) \/ DisableTrigger(o, t)
              \/ ResumeTrigger(o, t) \/ DeleteTrigger(o, t)
       PROVE  Goal
  BY <1>8, <1>11, <1>12 DEF EnableTrigger, DisableTrigger, ResumeTrigger, DeleteTrigger
<1>13. Goal
  BY <1>5, <1>6, <1>10, <1>12 DEF OperatorStep
<1> QED
  BY <1>13 DEF Goal

-----------------------------------------------------------------------------
(* The invariant, step by step.                                            *)

SnapshotTyped == before.on \in BOOLEAN /\ before.ok \in BOOLEAN

LEMMA RestoresInit == Init => Restores
<1> SUFFICES ASSUME Init PROVE Restores
  OBVIOUS
<1>1. cursor = 1 /\ before.on = FALSE /\ before.ok = TRUE /\ State = Blank
  BY DEF Init, NoSnapshot, State, Blank
<1>2. Idle
  BY DEF Init, Idle, NewDelivery, NewOp
<1>3. Boot \in Seq(EventSet)
  BY TriggerAssumption
<1>4. SubSeq(log, 1, cursor - 1) = <<>>
  BY <1>1, <1>3, PrefixWhole DEF Init
<1> QED
  <2>1. Replays(SubSeq(log, 1, cursor - 1), State)
    BY <1>1, <1>4, ReplaysNothing
  <2>2. Loaded
    BY <1>2, <2>1 DEF Loaded
  <2>3. Current /\ Kept
    BY <1>1 DEF Current, Kept
  <2> QED
    BY <2>2, <2>3 DEF Restores

\* In service the log of a delivery's events and of those before it does not
\* change when they are appended.
LEMMA RestoresDelivery ==
  ASSUME TInv, SnapshotTyped, Restores, NEW d \in Deliveries, DeliveryStep(d)
  PROVE  Restores'
<1>0. /\ dl \in [Deliveries -> DeliverySet] /\ log \in Seq(EventSet)
      /\ \A c \in Deliveries : dl[c].events \in Seq(EventSet)
  BY DEF TInv, Base, RequestsOK, DeliverySet
<1>1. /\ cursor = 0 /\ cursor' = 0 /\ UNCHANGED op
      /\ before' = before \/ (before'.on = FALSE /\ before'.ok = FALSE)
      /\ \A c \in Deliveries \ {d} : dl'[c] = dl[c]
      /\ ~before'.ok \/ ~Free(dl[d]) \/ (Idle /\ before' = before)
      /\ Free(dl[d]) => ~Free(dl'[d]) /\ dl[d].events = <<>>
      /\ Free(dl'[d]) => dl'[d].events = <<>>
  BY DeliveryApplies
<1>2. \/ State' = State /\ dl'[d].events = dl[d].events /\ log' = log
      \/ \E e \in EventSet : State' = After(State, e) /\ log' = log
                               /\ dl'[d].events = Append(dl[d].events, e)
      \/ State' = State /\ dl'[d].events = <<>> /\ log' = log \o dl[d].events
      \/ ~before'.ok
  BY DeliveryApplies
<1>3. Loaded'
  BY <1>1 DEF Loaded
<1>4. ~before.on /\ ~before'.on
  BY <1>1 DEF Restores, Kept
<1>5. Kept'
  BY <1>4 DEF Kept
<1>6. ASSUME before'.ok
      PROVE  (\E l : Unlogged(l) /\ Replays(log \o l, State))'
  <2>1. before' = before /\ before.ok /\ (~Free(dl[d]) \/ Idle)
    BY <1>1, <1>6
  <2>2. PICK l : Unlogged(l) /\ Replays(log \o l, State)
    BY <1>1, <2>1 DEF Restores, Current
  <2>3. l = dl[d].events
    <3>1. CASE Free(dl[d])
      BY <1>1, <2>1, <2>2, <3>1, IdleUnlogged
    <3>2. CASE ~Free(dl[d])
      BY <2>2, <3>2, AloneUnlogged
    <3> QED
      BY <3>1, <3>2
  <2>4. /\ \A c \in Deliveries \ {d} : Free(dl[c])
        /\ \A o \in Operators : Free(op[o])
    <3>1. CASE Idle
      BY <3>1 DEF Idle, Free
    <3>2. CASE ~Free(dl[d])
      BY <2>2, <3>2, AloneUnlogged DEF OnlyDelivery
    <3> QED
      BY <2>1, <3>1, <3>2
  <2>5. /\ \A c \in Deliveries \ {d} : Free(dl'[c])
        /\ \A o \in Operators : Free(op'[o])
    BY <1>1, <2>4
  <2>6. ASSUME NEW k, k = dl'[d].events PROVE Unlogged(k)'
    <3>1. CASE Free(dl'[d])
      <4>1. Idle'
        BY <2>5, <3>1 DEF Idle, Free
      <4> QED
        BY <1>1, <2>6, <3>1, <4>1 DEF Unlogged
    <3>2. CASE ~Free(dl'[d])
      <4>1. OnlyDelivery(d)'
        BY <2>5, <3>2 DEF OnlyDelivery
      <4> QED
        BY <2>6, <4>1 DEF Unlogged
    <3> QED
      BY <3>1, <3>2
  <2>7. Replays(log' \o dl'[d].events, State')
    <3>1. CASE State' = State /\ dl'[d].events = dl[d].events /\ log' = log
      BY <2>2, <2>3, <3>1
    <3>2. ASSUME NEW e \in EventSet, State' = After(State, e), log' = log,
                 dl'[d].events = Append(dl[d].events, e)
          PROVE  Replays(log' \o dl'[d].events, State')
      <4>1. log \o dl[d].events \in Seq(EventSet)
        BY <1>0, ConcatTyped
      <4>2. Replays(Append(log \o dl[d].events, e), After(State, e))
        BY <2>2, <2>3, <4>1, ReplaysAppend
      <4>3. log \o Append(dl[d].events, e) = Append(log \o dl[d].events, e)
        BY <1>0, ConcatAppend
      <4> QED
        BY <3>2, <4>2, <4>3
    <3>3. CASE State' = State /\ dl'[d].events = <<>> /\ log' = log \o dl[d].events
      <4>1. log \o dl[d].events \in Seq(EventSet)
        BY <1>0, ConcatTyped
      <4>2. (log \o dl[d].events) \o <<>> = log \o dl[d].events
        BY <4>1, PrefixWhole
      <4> QED
        BY <2>2, <2>3, <3>3, <4>2
    <3> QED
      BY <1>2, <1>6, <3>1, <3>2, <3>3
  <2> QED
    BY <2>6, <2>7
<1>7. Current'
  BY <1>6 DEF Current
<1> QED
  BY <1>3, <1>5, <1>7 DEF Restores

LEMMA RestoresOperator ==
  ASSUME TInv, SnapshotTyped, Restores, NEW o \in Operators, OperatorStep(o)
  PROVE  Restores'
<1>0. /\ op \in [Operators -> OpSet] /\ log \in Seq(EventSet)
      /\ op[o].event \in EventSet
  BY DEF TInv, Base, RequestsOK, OpSet
<1>1. UNCHANGED <<dl, cursor>>
  BY OperatorEffect DEF TInv
<1>d. \A bad : Watch(bad) => \/ ~bad /\ before' = before
                             \/ bad /\ before'.on = FALSE /\ before'.ok = FALSE
  BY DEF Watch, NoSnapshot
<1>2. CASE OpAppend(o)
  <2>1. /\ op[o].pc = "append" /\ op' = [op EXCEPT ![o].pc = "done"]
        /\ State' = State
        /\ \/ log' = Append(log, op[o].event) /\ before' = before
           \/ log' = log /\ before'.on = FALSE /\ before'.ok = FALSE
    <3>1. UNCHANGED service
      BY <1>2 DEF OpAppend
    <3> QED
      BY <1>2, <1>d, <3>1 DEF OpAppend, service, State
  <2>2. cursor = 0 /\ ~before.on
    <3>1. ~Idle
      BY <2>1 DEF Idle
    <3> QED
      BY <3>1 DEF Restores, Loaded, Kept
  <2>3. Loaded' /\ Kept'
    BY <1>1, <2>1, <2>2 DEF Loaded, Kept
  <2>4. ASSUME before'.ok
        PROVE  (\E l : Unlogged(l) /\ Replays(log \o l, State))'
    <3>1. before.ok /\ log' = Append(log, op[o].event)
      BY <2>1, <2>4
    <3>2. PICK l : Unlogged(l) /\ Replays(log \o l, State)
      BY <2>2, <3>1 DEF Restores, Current
    <3>3. OnlyOperator(o) /\ l = <<op[o].event>>
      <4>1. ~Idle /\ \A d \in Deliveries : ~OnlyDelivery(d)
        BY <2>1 DEF Idle, OnlyDelivery, Free
      <4>2. \A c \in Operators : OnlyOperator(c) => c = o
        BY <2>1 DEF OnlyOperator, Free
      <4> QED
        BY <3>2, <4>1, <4>2 DEF Unlogged
    <3>4. \A c \in Operators : Free(op'[c])
      BY <1>0, <2>1, <3>3 DEF OnlyOperator, Free, OpSet
    <3>5. Idle'
      BY <1>1, <3>3, <3>4 DEF Idle, OnlyOperator, Free
    <3>6. log \o <<op[o].event>> = Append(log, op[o].event)
      BY <1>0, ConcatAppend
    <3>7. Append(log, op[o].event) \in Seq(EventSet)
      BY <1>0
    <3>8. log' \o <<>> = log \o l
      BY <3>1, <3>3, <3>6, <3>7, PrefixWhole
    <3>9. Unlogged(<<>>)'
      BY <3>5 DEF Unlogged
    <3> QED
      BY <2>1, <3>2, <3>8, <3>9
  <2> QED
    BY <2>3, <2>4 DEF Restores, Current
<1>3. CASE ~OpAppend(o)
  <2>1. PICK e \in EventSet : OpStart(o, e) /\ State' = After(State, e)
    BY <1>3, OpStartApplies
  <2>2. /\ cursor = 0 /\ op[o].pc = "new" /\ log' = log
        /\ op' = [op EXCEPT ![o] = [pc |-> "append", event |-> e]]
        /\ \/ Idle /\ before' = before
           \/ before'.on = FALSE /\ before'.ok = FALSE
    BY <1>d, <2>1 DEF OpStart, MayStart, Serving
  <2>3. ~before.on
    BY <2>2 DEF Restores, Kept
  <2>4. Loaded' /\ Kept'
    BY <1>1, <2>2, <2>3 DEF Loaded, Kept
  <2>5. ASSUME before'.ok
        PROVE  (\E l : Unlogged(l) /\ Replays(log \o l, State))'
    <3>1. Idle /\ before.ok
      BY <2>2, <2>5
    <3>2. PICK l : Unlogged(l) /\ Replays(log \o l, State)
      BY <2>2, <3>1 DEF Restores, Current
    <3>3. l = <<>>
      BY <3>1, <3>2, IdleUnlogged
    <3>4. Replays(log, State)
      BY <1>0, <3>2, <3>3, PrefixWhole
    <3>5. Replays(log \o <<e>>, State')
      BY <1>0, <2>1, <3>4, ReplaysAppend, ConcatAppend
    <3>6. op'[o] = [pc |-> "append", event |-> e]
          /\ \A c \in Operators \ {o} : op'[c] = op[c]
      BY <1>0, <2>2
    <3>7. OnlyOperator(o)'
      BY <1>1, <3>1, <3>6 DEF OnlyOperator, Free, Idle
    <3>8. Unlogged(<<e>>)'
      BY <3>6, <3>7 DEF Unlogged
    <3> QED
      BY <2>2, <3>5, <3>8
  <2> QED
    BY <2>4, <2>5 DEF Restores, Current
<1> QED
  BY <1>2, <1>3

\* A restart begins a replay, and may take its snapshot of an idle process.
LEMMA RestoresRestart ==
  ASSUME TInv, Restores, Restart
  PROVE  Restores'
<1>0. log \in Seq(EventSet)
  BY DEF TInv, Base, RequestsOK
<1>1. /\ cursor = 0 /\ cursor' = 1 /\ log' = log /\ State' = Blank
      /\ before' = IF Idle /\ before.ok THEN Snapshot ELSE NoSnapshot
  BY DEF Restart, Serving, Empty, State, Blank
<1>2. Idle'
  <2>1. /\ dl' = [d \in Deliveries |-> IF dl[d].pc = "new" THEN dl[d]
                                       ELSE [NewDelivery EXCEPT !.pc = "done"]]
        /\ op' = [o \in Operators |-> IF op[o].pc = "new" THEN op[o]
                                      ELSE [op[o] EXCEPT !.pc = "done"]]
    BY DEF Restart
  <2>2. \A d \in Deliveries : dl'[d].pc \in {"new", "done"}
    BY <2>1 DEF NewDelivery
  <2>3. \A o \in Operators : op[o] \in OpSet
    BY DEF TInv, Base, RequestsOK
  <2>4. \A o \in Operators : op'[o].pc \in {"new", "done"}
    BY <2>1, <2>3 DEF OpSet
  <2> QED
    BY <2>2, <2>4 DEF Idle
<1>3. Loaded'
  <2>1. SubSeq(log', 1, cursor' - 1) = <<>>
    BY <1>0, <1>1, PrefixWhole
  <2> QED
    BY <1>1, <1>2, <2>1, ReplaysNothing DEF Loaded
<1>4. Current'
  BY <1>1 DEF Current
<1>5. CASE Idle /\ before.ok
  <2>1. PICK l : Unlogged(l) /\ Replays(log \o l, State)
    BY <1>1, <1>5 DEF Restores, Current
  <2>2. Replays(log, State)
    BY <1>0, <1>5, <2>1, IdleUnlogged, PrefixWhole
  <2>3. before' = SnapshotOf(State)
    BY <1>1, <1>5 DEF Snapshot, SnapshotOf, State
  <2>4. Kept'
    BY <1>1, <2>2, <2>3 DEF Kept
  <2> QED
    BY <1>3, <1>4, <2>4 DEF Restores
<1>6. CASE ~(Idle /\ before.ok)
  <2>1. Kept'
    BY <1>1, <1>6 DEF Kept, NoSnapshot
  <2> QED
    BY <1>3, <1>4, <2>1 DEF Restores
<1> QED
  BY <1>5, <1>6

LEMMA RestoresReplay ==
  ASSUME TInv, Restores, Replay
  PROVE  Restores'
<1>0. Base /\ log \in Seq(EventSet) /\ Len(log) \in Nat
  BY DEF TInv, Base, RequestsOK
<1>1. CASE ReplayTemplate \/ ReplayTrigger \/ ReplayFired
  <2>1. /\ cursor \in 1..Len(log) /\ State' = After(State, log[cursor])
        /\ cursor' = cursor + 1 /\ UNCHANGED <<log, dl, op, before>>
    BY <1>0, <1>1, ReplayApplies
  <2>2. Idle /\ Replays(SubSeq(log, 1, cursor - 1), State)
    BY <2>1 DEF Restores, Loaded
  <2>3. Replays(SubSeq(log, 1, cursor), State')
    BY <1>0, <2>1, <2>2, PrefixGrows, ReplaysAppend
  <2>4. cursor' - 1 = cursor /\ cursor' # 0
    BY <2>1
  <2>5. Idle'
    BY <2>1, <2>2 DEF Idle
  <2>6. Loaded'
    BY <2>1, <2>3, <2>4, <2>5 DEF Loaded
  <2>7. Kept' /\ Current'
    BY <2>1, <2>4 DEF Restores, Kept, Current
  <2> QED
    BY <2>6, <2>7 DEF Restores
<1>2. CASE Serve
  <2>1. /\ cursor = Len(log) + 1 /\ cursor' = 0 /\ before' = NoSnapshot
        /\ State' = State /\ UNCHANGED <<log, dl, op>>
    BY <1>2 DEF Serve, service, State
  <2>2. cursor # 0 /\ cursor - 1 = Len(log)
    BY <1>0, <2>1
  <2>3. Idle /\ Replays(log, State)
    BY <1>0, <2>2, PrefixWhole DEF Restores, Loaded
  <2>4. Idle'
    BY <2>1, <2>3 DEF Idle
  <2>5. Unlogged(<<>>)'
    BY <2>4 DEF Unlogged
  <2>6. log' \o <<>> = log
    BY <1>0, <2>1, PrefixWhole
  <2>7. Current'
    BY <2>1, <2>3, <2>5, <2>6 DEF Current
  <2>8. Loaded' /\ Kept'
    BY <2>1 DEF Loaded, Kept, NoSnapshot
  <2> QED
    BY <2>7, <2>8 DEF Restores
<1> QED
  BY <1>1, <1>2 DEF Replay

LEMMA RestoresStep ==
  ASSUME TInv, SnapshotTyped, Restores, [Next]_vars
  PROVE  Restores'
<1>1. CASE Tick \/ UNCHANGED vars
  <2>1. UNCHANGED <<dl, op, log, cursor, before>> /\ State' = State
    BY <1>1 DEF Tick, vars, service, State
  <2>2. Idle' = Idle /\ \A l : Unlogged(l)' <=> Unlogged(l)
    BY <2>1 DEF Idle, Unlogged, OnlyDelivery, OnlyOperator
  <2> QED
    BY <2>1, <2>2 DEF Restores, Loaded, Current, Kept
<1> QED
  BY <1>1, RestoresDelivery, RestoresOperator, RestoresRestart, RestoresReplay DEF Next

RestoresInv == TInv /\ SnapshotTyped /\ Restores

LEMMA RestoresAlways == Spec => []RestoresInv
<1>1. Init => RestoresInv
  BY TInvInit, RestoresInit, OtherTypedInit DEF RestoresInv, OtherTyped, SnapshotTyped
<1>2. RestoresInv /\ [Next]_vars => RestoresInv'
  BY TInvStep, BeforeTyped, RestoresStep DEF RestoresInv, SnapshotTyped
<1> QED
  BY <1>1, <1>2, PTL DEF Spec

\* The service is a function of the log.  During replay it is the fold of the
\* events that replay has passed, whatever happened before the restart; while
\* requests come one at a time and their appends succeed, it is the fold of the
\* log and of what the request under way has yet to append.
THEOREM ServiceFollowsLog == Spec => [](Loaded /\ Current)
<1>1. RestoresInv => Loaded /\ Current
  BY DEF RestoresInv, Restores
<1> QED
  BY RestoresAlways, <1>1, PTL

\* In every environment, with requests that overlap, appends that fail and
\* restarts that cut requests short: when an idle process restarts that had
\* served its requests one at a time and appended their events, the replay of
\* the log gives it the triggers, templates, ledger and windows it had.
THEOREM ReplayRestored == Spec => []ReplayRestores
<1>1. RestoresInv => ReplayRestores
  <2> SUFFICES ASSUME RestoresInv, cursor = Len(log) + 1, before.on
               PROVE  before = Snapshot
    BY DEF ReplayRestores
  <2>0. log \in Seq(EventSet) /\ cursor # 0 /\ cursor - 1 = Len(log)
    BY DEF RestoresInv, TInv, Base, RequestsOK
  <2>1. PICK s : Replays(log, s) /\ before = SnapshotOf(s)
    BY DEF RestoresInv, Restores, Kept
  <2>2. Replays(log, State)
    BY <2>0, PrefixWhole DEF RestoresInv, Restores, Loaded
  <2>3. s = State
    BY <2>0, <2>1, <2>2, ReplaysUnique
  <2> QED
    BY <2>1, <2>3 DEF SnapshotOf, Snapshot, State
<1> QED
  BY RestoresAlways, <1>1, PTL
=============================================================================
