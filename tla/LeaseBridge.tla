----------------------------- MODULE LeaseBridge -----------------------------
(***************************************************************************)
(* How cairn-fabric keeps the event log up to date with FlowFabric, the    *)
(* engine that owns executions and their leases:                           *)
(*                                                                         *)
(*   services/task_service.rs      calls the engine, reads the task back   *)
(*                                 and emits a bridge event;               *)
(*   lease_history_subscriber.rs   follows the engine's lease history from *)
(*                                 a cursor and emits an event for an      *)
(*                                 expired or reclaimed lease;             *)
(*   event_bridge.rs               a bounded queue whose consumer appends  *)
(*                                 the events to the log, with retries.    *)
(*                                                                         *)
(* The store keeps events and cursor in memory.  An append commits there   *)
(* first and then writes the durable log, whose failure undoes nothing;    *)
(* the cursor is written nowhere else.                                     *)
(*                                                                         *)
(* The engine itself is outside the repository.  The model has the moves   *)
(* of it that the code reacts to; the lease history is the sequence hist   *)
(* and a cursor is a position in it.                                       *)
(***************************************************************************)
EXTENDS Integers, Sequences, SequencesExt, FiniteSets

CONSTANTS
  Execs,         \* executions the lease history may speak of
  Kind,          \* Kind[x]: "task", "run" or "foreign", from the tags of x
  Callers,       \* requests to the task service
  Ops,           \* the operations they ask for
  QueueCap,      \* capacity of the bridge's channel
  MaxTries,      \* MAX_RETRY_ATTEMPTS of the bridge's consumer
  MaxReconnect,  \* MAX_RECONNECT_ATTEMPTS of the subscriber
  Env,           \* what goes wrong, see below
  MaxEvents,     \* bound on the lease history
  MaxFaults      \* bound on the number of faults

(***************************************************************************)
(* Env is a subset of                                                      *)
(*   "crash"     the process stops and is started again                    *)
(*   "shutdown"  the process is shut down and started again                *)
(*   "engine"    calls to the engine fail, streams end or disconnect       *)
(*   "store"     durable writes fail, or their answers are lost; reads and *)
(*               writes of the cursor fail                                 *)
(*   "tags"      the read of an execution's tags fails, which              *)
(*               describe_execution answers with an empty set of tags      *)
(***************************************************************************)

NoCursor == -1   \* StreamCursor::empty(): subscribe from now

TaskOps == {"claim", "complete", "fail", "cancel", "pause", "resume"}
EngineStates == {"waiting", "active", "expired", "suspended", "completed",
                 "failed", "cancelled", "purged"}
EngineTerminal == {"completed", "failed", "cancelled"}
TaskStates == {"queued", "running", "paused", "completed", "failed",
               "canceled", "retryable_failed"}
Terminal == {"completed", "failed", "canceled"}
Losses == {"dropped", "tail", "reopened"}

ASSUME BridgeAssumption ==
  /\ Ops \subseteq TaskOps
  /\ Kind \in [Execs -> {"task", "run", "foreign"}]
  /\ {QueueCap, MaxTries, MaxReconnect} \subseteq Nat \ {0}
  /\ MaxEvents \in Nat /\ MaxFaults \in Nat
  /\ Env \subseteq {"crash", "shutdown", "engine", "store", "tags"}

VARIABLES
  eng,     \* engine: the state of each execution
  hist,    \* engine: the lease history
  saved,   \* store: the cursor, a map entry in memory
  proj,    \* store: the state of each task or run its events in memory tell
  kept,    \* store: the state its durable log tells
  dur,     \* store: the lease events in the durable log, as positions of hist
  sub,     \* the subscriber's worker and its locals
  call,    \* call[c]: a request to the task service
  queue,   \* the bridge's channel
  con,     \* the bridge's consumer: the event in hand, its failed appends,
           \* and whether the durable log has it already
  open,    \* the channel is open
  last,    \* history: the latest lease event this process put in memory
  lost,    \* history: positions whose event is known to be lost, and why
  faults   \* number of faults so far

engine == <<eng, hist>>
store == <<saved, proj, kept, dur>>
history == <<last, lost>>
vars == <<engine, store, sub, call, queue, con, open, history, faults>>

\* A bridge event: the execution, the state it reports ("none" for a lease
\* claim) and the position of the lease event behind it, 0 if a service
\* emitted it.
EventSet == [exec : Execs, to : TaskStates \cup {"none"}, pos : 0..MaxEvents]

IdleCall == [pc |-> "idle"]
NoEvent == [ev |-> <<>>, tries |-> 0, pc |-> "try", written |-> FALSE]
StartSub == [pc |-> "load", cursor |-> NoCursor, pos |-> 0, attempts |-> 0,
             first |-> TRUE]

Init ==
  /\ eng = [x \in Execs |-> IF Kind[x] = "task" THEN "waiting" ELSE "active"]
  /\ hist = <<>>
  /\ saved = NoCursor
  /\ proj = [x \in Execs |-> IF Kind[x] = "task" THEN "queued" ELSE "running"]
  /\ kept = proj /\ dur = <<>>
  /\ sub = StartSub
  /\ call = [c \in Callers |-> IdleCall]
  /\ queue = <<>> /\ con = NoEvent /\ open = TRUE
  /\ last = 0 /\ lost = {}
  /\ faults = 0

Fault(kind) == kind \in Env /\ faults < MaxFaults /\ faults' = faults + 1

-----------------------------------------------------------------------------
(* The engine.  A lease runs out, another worker reclaims the execution, a *)
(* heartbeat renews it; a terminal execution is purged in the end.         *)

LeaseMoves == {<<"expired", "active", "expired">>,
               <<"reclaimed", "expired", "active">>,
               <<"renewed", "active", "active">>}

LeaseEvent(x, m) ==
  /\ Len(hist) < MaxEvents
  /\ eng[x] = m[2]
  /\ eng' = [eng EXCEPT ![x] = m[3]]
  /\ hist' = Append(hist, [kind |-> m[1], exec |-> x])
  /\ UNCHANGED <<store, sub, call, queue, con, open, history, faults>>

Purge(x) ==
  /\ eng[x] \in EngineTerminal
  /\ eng' = [eng EXCEPT ![x] = "purged"]
  /\ UNCHANGED <<hist, store, sub, call, queue, con, open, history, faults>>

-----------------------------------------------------------------------------
(* The bridge: emit, and the consumer with append_with_retry               *)

\* Mutant: one slot of the channel is never used.
SendLeavesRoom(ev) == Len(queue) + 1 < QueueCap /\ queue' = Append(queue, ev)

\* emit waits for room in the channel.
Send(ev) == Len(queue) < QueueCap /\ queue' = Append(queue, ev)

Receive ==
  /\ con = NoEvent /\ queue # <<>>
  /\ con' = [NoEvent EXCEPT !.ev = <<Head(queue)>>]
  /\ queue' = Tail(queue)
  /\ UNCHANGED <<engine, store, sub, call, open, history, faults>>

\* The projection of the events the bridge appends: a lease claim leaves the
\* state of the task alone, a state change replaces it whatever it was.
Projected(states, ev) ==
  IF ev.to = "none" THEN states ELSE [states EXCEPT ![ev.exec] = ev.to]

\* InMemoryStore::append commits in memory before it asks the durable log, and
\* does so again each time the consumer offers the same envelope.
AppendEvent ==
  /\ con # NoEvent /\ con.pc = "try"
  /\ LET ev == con.ev[1] IN
     /\ proj' = Projected(proj, ev)
     /\ last' = IF ev.pos = 0 THEN last ELSE ev.pos
  /\ con' = [con EXCEPT !.pc = "write"]
  /\ UNCHANGED <<engine, saved, kept, dur, sub, call, queue, open, lost, faults>>

\* The durable log takes the event.
Write ==
  LET ev == con.ev[1] IN
  /\ con.pc = "write" /\ ~con.written
  /\ kept' = Projected(kept, ev)
  /\ dur' = IF ev.pos = 0 THEN dur ELSE Append(dur, ev.pos)

Save ==
  /\ Write /\ con' = NoEvent
  /\ UNCHANGED <<engine, saved, proj, sub, call, queue, open, history, faults>>

\* append_with_retry on an error: the consumer offers the envelope again, and
\* gives it up after the last attempt.
Retry(written) ==
  /\ con' = IF con.tries + 1 = MaxTries THEN NoEvent
            ELSE [con EXCEPT !.tries = @ + 1, !.pc = "try", !.written = written]
  /\ lost' = IF con.tries + 1 < MaxTries \/ written THEN lost
             ELSE lost \cup (({con.ev[1].pos} \ {0}) \X {"dropped"})

\* Mutant: an event that could not be written goes to the end of the queue.
WriteFailsRequeued ==
  /\ con.pc = "write" /\ ~con.written /\ Fault("store")
  /\ con' = NoEvent /\ queue' = queue \o con.ev
  /\ UNCHANGED <<engine, store, sub, call, open, history>>

\* The durable log does not take the event; memory has it.
WriteFails ==
  /\ con.pc = "write" /\ ~con.written /\ Fault("store")
  /\ Retry(FALSE)
  /\ UNCHANGED <<engine, store, sub, call, queue, open, last>>

\* The durable log takes the event, and the answer is lost.
AnswerLost ==
  /\ Write /\ Fault("store")
  /\ Retry(TRUE)
  /\ UNCHANGED <<engine, saved, proj, sub, call, queue, open, last>>

\* The envelope's event_id is unique in the durable log: what it has already it
\* refuses, at every attempt.
WriteRefused ==
  /\ con.pc = "write" /\ con.written
  /\ Retry(TRUE)
  /\ UNCHANGED <<engine, store, sub, call, queue, open, last, faults>>

-----------------------------------------------------------------------------
(* The task service                                                        *)

\* What an operation asks of the engine: the states in which it is accepted
\* and the state it leads to.
Accepted(op) ==
  CASE op = "claim" -> {"waiting", "expired"}
    [] op = "resume" -> {"suspended"}
    [] op = "cancel" -> {"waiting", "active", "expired", "suspended"}
    [] OTHER -> {"active"}

EngineAfter(op) ==
  CASE op = "claim" -> "active" [] op = "complete" -> "completed"
    [] op = "fail" -> "failed"  [] op = "cancel" -> "cancelled"
    [] op = "pause" -> "suspended" [] op = "resume" -> "waiting"

\* The engine call of an operation.  A failed attempt that the engine will
\* retry is requeued by the engine and not emitted.
CallEngine(c, op, x) ==
  /\ call[c] = IdleCall /\ open
  /\ Kind[x] = "task" /\ eng[x] \in Accepted(op)
  /\ \/ /\ eng' = [eng EXCEPT ![x] = EngineAfter(op)]
        /\ call' = [call EXCEPT ![c] = [pc |-> "read", op |-> op, exec |-> x]]
     \/ /\ op = "fail"
        /\ eng' = [eng EXCEPT ![x] = "waiting"]
        /\ UNCHANGED call
  /\ UNCHANGED <<hist, store, sub, queue, con, open, history, faults>>

\* ff_public_state_to_task_state
TaskState(state) ==
  CASE state = "waiting" -> "queued" [] state = "suspended" -> "paused"
    [] state = "completed" -> "completed" [] state = "failed" -> "failed"
    [] state = "cancelled" -> "canceled" [] OTHER -> "running"

\* The state an operation reports: what it asked for, or what the task is in
\* when it is read back.
Reported(op, x) ==
  CASE op = "claim" -> "none" [] op = "complete" -> "completed"
    [] op = "fail" -> "failed" [] op = "cancel" -> "canceled"
    [] OTHER -> TaskState(eng[x])

\* read_task_record after the engine call: if it fails, or the execution is
\* gone, the operation returns the error and emits nothing.
ReadRecord(c) ==
  /\ call[c].pc = "read"
  /\ LET x == call[c].exec IN
     call' = [call EXCEPT ![c] =
       IF eng[x] = "purged" THEN IdleCall
       ELSE [pc |-> "emit",
             ev |-> [exec |-> x, to |-> Reported(call[c].op, x), pos |-> 0]]]
  /\ UNCHANGED <<engine, store, sub, queue, con, open, history, faults>>

ReadRecordFails(c) ==
  /\ call[c].pc = "read" /\ Fault("engine")
  /\ call' = [call EXCEPT ![c] = IdleCall]
  /\ UNCHANGED <<engine, store, sub, queue, con, open, history>>

\* emit; into a closed channel the event is dropped.
EmitFromService(c) ==
  /\ call[c].pc = "emit"
  /\ IF open THEN Send(call[c].ev) ELSE UNCHANGED queue
  /\ call' = [call EXCEPT ![c] = IdleCall]
  /\ UNCHANGED <<engine, store, sub, con, open, history, faults>>

-----------------------------------------------------------------------------
(* The lease history subscriber                                            *)

InQueue == {e.pos : e \in Range(queue \o con.ev)}

\* A cursor that cannot be read is taken for none.
LoadCursor ==
  /\ sub.pc = "load"
  /\ \/ sub' = [sub EXCEPT !.pc = "subscribe", !.cursor = saved] /\ UNCHANGED faults
     \/ Fault("store") /\ sub' = [sub EXCEPT !.pc = "subscribe"]
  /\ UNCHANGED <<engine, store, call, queue, con, open, history>>

\* Without a cursor the stream starts after the events there are, and those
\* that were not delivered before never will be.
Skipped ==
  IF sub.cursor # NoCursor THEN {}
  ELSE ((1..Len(hist)) \ (Range(dur) \cup InQueue \cup {l[1] : l \in lost}))
         \X {IF sub.first THEN "tail" ELSE "reopened"}

\* subscribe_lease_history; a success resets the count of attempts.
Subscribe ==
  /\ sub.pc = "subscribe"
  /\ sub' = [sub EXCEPT !.pc = "next", !.attempts = 0, !.first = FALSE,
               !.pos = IF sub.cursor = NoCursor THEN Len(hist) ELSE sub.cursor]
  /\ lost' = lost \cup Skipped
  /\ UNCHANGED <<engine, store, call, queue, con, open, last, faults>>

\* Mutant: the attempt over the budget is still made.
BackoffOneMore(cursor) ==
  sub' = [sub EXCEPT !.cursor = cursor, !.attempts = @ + 1,
            !.pc = IF sub.attempts > MaxReconnect THEN "stopped" ELSE "subscribe"]

\* backoff_or_cancel, and then the stream is opened again at the cursor.
Backoff(cursor) ==
  sub' = [sub EXCEPT !.cursor = cursor,
            !.attempts = IF @ < MaxReconnect THEN @ + 1 ELSE @,
            !.pc = IF sub.attempts < MaxReconnect THEN "subscribe" ELSE "stopped"]

\* The subscription is refused or the stream disconnects (and hands back where
\* it was), the stream ends, or an error stops the subscriber for good.
StreamFails ==
  /\ sub.pc \in {"subscribe", "next"} /\ Fault("engine")
  /\ \/ Backoff(IF sub.pc = "next" THEN sub.pos ELSE sub.cursor)
     \/ sub.pc = "next" /\ Backoff(sub.cursor)
     \/ sub' = [sub EXCEPT !.pc = "stopped"]
  /\ UNCHANGED <<engine, store, call, queue, con, open, history>>

NextEvent ==
  /\ sub.pc = "next" /\ sub.pos < Len(hist)
  /\ sub' = [sub EXCEPT !.pc = "handle", !.pos = @ + 1]
  /\ UNCHANGED <<engine, store, call, queue, con, open, history, faults>>

\* dispatch_expired and dispatch_reclaimed: the lease events that are emitted.
Dispatched(e) ==
  \/ e.kind = "expired" /\ Kind[e.exec] \in {"task", "run"}
  \/ e.kind = "reclaimed" /\ Kind[e.exec] = "task"

\* An expired task is retryable, an expired run has failed, a reclaimed task
\* has a new lease.
LeaseReport(p) ==
  LET e == hist[p] IN
  [exec |-> e.exec, pos |-> p,
   to |-> IF e.kind = "reclaimed" THEN "none"
          ELSE IF Kind[e.exec] = "task" THEN "retryable_failed" ELSE "failed"]

TagsRead == IF "tags" \in Env THEN BOOLEAN ELSE {TRUE}

\* handle_event and resolve_context: an execution that is absent or not this
\* instance's is passed over.
HandleEvent ==
  /\ sub.pc = "handle"
  /\ \E tags \in TagsRead :
       LET e == hist[sub.pos] IN
       sub' = [sub EXCEPT !.pc =
         IF Dispatched(e) /\ eng[e.exec] # "purged" /\ tags THEN "emit" ELSE "persist"]
  /\ UNCHANGED <<engine, store, call, queue, con, open, history, faults>>

\* Mutant: the event whose execution could not be described is passed over.
DescribeFailsAdvance ==
  /\ sub.pc = "handle" /\ hist[sub.pos].kind \in {"expired", "reclaimed"}
  /\ Fault("engine")
  /\ sub' = [sub EXCEPT !.pc = "persist"]
  /\ UNCHANGED <<engine, store, call, queue, con, open, history>>

\* describe_execution fails: the cursor stays and the stream is reopened.
DescribeFails ==
  /\ sub.pc = "handle" /\ hist[sub.pos].kind \in {"expired", "reclaimed"}
  /\ Fault("engine")
  /\ Backoff(sub.cursor)
  /\ UNCHANGED <<engine, store, call, queue, con, open, history>>

EmitFromSubscriber ==
  /\ sub.pc = "emit" /\ Send(LeaseReport(sub.pos))
  /\ sub' = [sub EXCEPT !.pc = "persist"]
  /\ UNCHANGED <<engine, store, call, con, open, history, faults>>

\* persist_cursor, into the map; a failure is only logged, the worker's own
\* cursor moves on.
PersistCursor ==
  /\ sub.pc = "persist"
  /\ \/ saved' = sub.pos /\ UNCHANGED faults
     \/ Fault("store") /\ UNCHANGED saved
  /\ sub' = [sub EXCEPT !.pc = "next", !.cursor = sub.pos]
  /\ UNCHANGED <<engine, proj, kept, dur, call, queue, con, open, history>>

-----------------------------------------------------------------------------
(* Crash, shutdown and start                                               *)

\* The next process rebuilds memory from the durable log.  The cursor is not
\* in it, so the subscriber will find none.
Started ==
  /\ saved' = NoCursor /\ proj' = kept
  /\ sub' = StartSub /\ call' = [c \in Callers |-> IdleCall]
  /\ queue' = <<>> /\ con' = NoEvent /\ open' = TRUE /\ last' = 0
  /\ UNCHANGED <<engine, kept, dur, lost>>

\* What was queued, and what memory had before the durable log, is gone.
Crash == Fault("crash") /\ Started

\* FabricServices::shutdown: the subscriber first, between two events, then
\* the channel is closed ...
Shutdown ==
  /\ open /\ sub.pc \in {"subscribe", "next", "stopped"} /\ Fault("shutdown")
  /\ sub' = [sub EXCEPT !.pc = "stopped"] /\ open' = FALSE
  /\ UNCHANGED <<engine, store, call, queue, con, history>>

\* ... and the consumer drains it before the process ends.
Drained ==
  /\ ~open /\ queue = <<>> /\ con = NoEvent
  /\ Started /\ UNCHANGED faults

-----------------------------------------------------------------------------
EngineStep == \E x \in Execs : Purge(x) \/ \E m \in LeaseMoves : LeaseEvent(x, m)

Consumer ==
  Receive \/ AppendEvent \/ Save \/ WriteFails \/ AnswerLost \/ WriteRefused

Service(c) ==
  \/ \E op \in Ops, x \in Execs : CallEngine(c, op, x)
  \/ ReadRecord(c) \/ ReadRecordFails(c) \/ EmitFromService(c)

Subscriber ==
  \/ LoadCursor \/ Subscribe \/ StreamFails \/ NextEvent \/ HandleEvent
  \/ DescribeFails \/ EmitFromSubscriber \/ PersistCursor

Next ==
  \/ EngineStep \/ Consumer \/ Subscriber
  \/ \E c \in Callers : Service(c)
  \/ Crash \/ Shutdown \/ Drained

Spec == Init /\ [][Next]_vars

\* The tokio tasks run: the consumer, the subscriber (which also has to get its
\* turn for a slot in the channel), a request once the engine has answered it,
\* and the end of a shutdown.
FairSpec ==
  /\ Spec
  /\ WF_vars(Consumer) /\ WF_vars(Drained)
  /\ WF_vars(Subscriber) /\ SF_vars(EmitFromSubscriber)
  /\ \A c \in Callers : WF_vars(ReadRecord(c) \/ ReadRecordFails(c)) /\ SF_vars(EmitFromService(c))

-----------------------------------------------------------------------------
(* Properties                                                              *)

SubSet ==
  [pc : {"load", "subscribe", "next", "handle", "emit", "persist", "stopped"},
   cursor : NoCursor..MaxEvents, pos : 0..MaxEvents, attempts : 0..MaxReconnect,
   first : BOOLEAN]

CallSet ==
  {IdleCall} \cup [pc : {"read"}, op : TaskOps, exec : Execs]
    \cup [pc : {"emit"}, ev : EventSet]

\* Everything is well formed; in particular the subscriber never makes more
\* attempts in a row than its budget, and cursors stay inside the history.
TypeOK ==
  /\ eng \in [Execs -> EngineStates]
  /\ hist \in Seq([kind : {"expired", "reclaimed", "renewed"}, exec : Execs])
  /\ saved \in NoCursor..Len(hist)
  /\ proj \in [Execs -> TaskStates] /\ kept \in [Execs -> TaskStates]
  /\ dur \in Seq(1..Len(hist))
  /\ sub \in SubSet /\ sub.pos <= Len(hist)
  /\ call \in [Callers -> CallSet]
  /\ queue \in Seq(EventSet)
  /\ con \in [ev : {<<>>} \cup {<<e>> : e \in EventSet}, tries : 0..(MaxTries - 1),
             pc : {"try", "write"}, written : BOOLEAN]
  /\ open \in BOOLEAN
  /\ last \in 0..Len(hist)
  /\ lost \subseteq (1..Len(hist)) \X Losses
  /\ faults \in 0..MaxFaults

\* Nothing more will happen for position p: its event is in the durable log, or
\* was lost in one of the ways the code allows for (the bridge gave it up, or
\* there was no cursor to start from), or is not reported.
Settled(p) ==
  \/ p \in Range(dur)
  \/ \E why \in Losses : <<p, why>> \in lost
  \/ ~Dispatched(hist[p])
  \/ eng[hist[p].exec] = "purged"

\* While a process lives its cursor never passes a lease event that was not
\* handed to the bridge: what is before it, in the worker or in the store, is
\* settled or in the bridge's hands, whatever describe_execution, the stream,
\* the cursor store and failing appends do.
CursorPassesNothing ==
  \A p \in 1..Len(hist) : p <= saved \/ p <= sub.cursor => Settled(p) \/ p \in InQueue

\* What the bridge has still to make durable.
Waiting == (IF con.written THEN <<>> ELSE con.ev) \o queue

\* The durable log has the lease events in the order of the history and none
\* twice, and so it will be with what the bridge still holds: across reconnects,
\* retried appends, lost answers and restarts.  In memory the order is the same;
\* only the event in hand can have got there already, and come again.
BridgeKeepsOrder ==
  LET flow == dur \o [i \in DOMAIN Waiting |-> Waiting[i].pos] IN
  /\ \A i, j \in DOMAIN flow :
       i < j /\ flow[i] # 0 /\ flow[j] # 0 => flow[i] < flow[j]
  /\ \A ev \in Range(queue) : ev.pos # 0 => last < ev.pos
  /\ \A ev \in Range(con.ev) : ev.pos # 0 => last <= ev.pos

\* The bridge catches up, unless the subscriber gave up: again and again every
\* lease event there is is settled, also with the channel full, after
\* reconnects, restarts and a shutdown.  (What a restart finds not durable
\* counts as lost: the next subscription starts at the tail of the history.)
LeaseEventsSettle ==
  []<>(sub.pc = "stopped" \/ \A p \in 1..Len(hist) : Settled(p))

(* What documents and comments say and the code does not keep in every case. *)

\* RFC 005: completed, failed and canceled are terminal.
TerminalIsFinal ==
  [][\A x \in Execs : proj[x] \in Terminal => proj'[x] = proj[x]]_vars

\* The cursor is persisted across restarts: it never goes back.
CursorOutlivesProcess == [][saved' >= saved]_vars

\* An append that failed is not offered again blindly: memory takes an event
\* once.
AppliedOnce == con.pc = "write" => con.tries = 0

\* Reopening the stream after a transient failure delivers the event again.
ReopenRedelivers == \A p \in 1..Len(hist) : <<p, "reopened">> \notin lost
=============================================================================
