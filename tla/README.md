# Verification of cairn-rs

cairn-rs is a control plane for AI agents: a set of Rust crates around an
append-only event log. Agents run in an orchestrator, their tool calls pass an
approval gate, policy questions go to a decision service, signals from outside
start runs through triggers, each run works in a sandbox of its own, and leases
of running work are kept by an external engine. Operators watch and steer all
of it over HTTP. This directory holds TLA+ models of the parts where those
actors meet, TLC runs that check them on small instances, and TLAPS proofs for
every instance.

## 1. The system

### Components

| Component | State | Operations | Hard behaviour | What makes it correct |
|---|---|---|---|---|
| Tool-call approval service (`cairn-runtime/src/services/tool_call_approval_impl.rs`) | cache of proposals, parked oneshot senders, session allow rules, all behind one mutex; events and their projection in the store | `submit_proposal`, `approve`, `reject`, `amend`, `await_decision`, `retrieve_approved_proposal` | every operation is several critical sections with awaited store calls in between; timeouts; failing appends with rollback; lazy reload after a restart | one durable resolution per proposal; what is executed was approved and persisted; the cache agrees with the durable log; nobody waits for ever |
| Decision service (`cairn-runtime/src/decisions.rs`) | cache entries (pending or resolved), rule index, each behind its own mutex; DecisionRecorded events | `evaluate` (8 steps), `invalidate`, `invalidate_by_scope`, `invalidate_by_rule`, `replay_decision_cache` | concurrent evaluations of one key, expiry, invalidation during evaluation, replay | a hit is a live decision for that key; invalidated decisions do not answer; rules reach the decisions that rest on them |
| Triggers (`trigger_service.rs`, `trigger_routes.rs`, `handlers/signals.rs`, `triggers.rs`, `AppState::replay_triggers`) | triggers, templates, fire ledger, two rolling windows, behind one mutex; trigger events; runs | operator CRUD, preview, decide, evaluate, append, materialise, replay | check under one lock, act under a later one; append and run creation outside the lock; restart in any gap; signals delivered again | one run per trigger and signal; rate limit and budget; replay restores the state |
| Orchestrator (`cairn-orchestrator`, `handlers/runs.rs`) | the loop's locals, the drained set, tool result cache, ToolInvocationCompleted events | orchestrate, drain, decide, gate, execute, record, control proposals | tool calls of one turn run concurrently; approvals arrive between turns; a crash between execution, record and cache | approved calls run with the approved arguments, each once, and in the end |
| Event log (`cairn-store`, `bin_events.rs`, replay in `main.rs`) | in-memory log with projections, durable log | append and its second write, raw append, replay | two logs, no transaction over both; failed, lost and abandoned writes | what was acknowledged survives; what is durable is served once |
| Live streams (`handlers/sse.rs`, `sse_hooks.rs`, `bin_websocket.rs`) | frame counter, replay buffer, broadcast channel | publish, subscribe, resume with Last-Event-ID, WebSocket handshake | the counter, the buffer and the channel change in separate steps; slow and returning clients | no frame falls between replay and live stream |
| Sandbox service (`cairn-workspace/src/sandbox`) | session per run, meta.json and provider files on disk, recovery registry | provision, activate, heartbeat, checkpoint, preserve, destroy, recover | crash between disk and memory, calls that race, a moving base revision | one provisioner per run; every sandbox on disk can be attributed; recovery attaches only what is on its revision |
| Repository clone cache (`cairn-workspace/src/repo_store`) | clones, references | ensure, refresh, sweep | sweep against use | a clone in use is not swept |
| Run recovery and startup (`recovery_impl.rs`, `startup.rs`, `main.rs`) | run states, approvals, readiness graph | branches of startup, run recovery matrix | crash during recovery | a lost run ends, no run waits for what is resolved |
| Run-level approvals (`approval_impl.rs`) | approval and run projections | request, resolve | read, then append | a resolution moves its run |
| Fabric bridge (`cairn-fabric`) | queue, consumer, subscriber with a cursor in the in-memory store | task operations, lease history, retries, shutdown | bounded queue, reconnects, failed and repeated appends, crash | within a process the cursor passes nothing unhandled; no lease event is reordered or durable twice |
| FlowFabric (external engine) | executions, leases | claim, renew, suspend, signal | outside the repository | - |
| Prompt releases (`prompt_release_impl.rs`, `handlers/prompts.rs`) | releases and their approvals in memory and in the durable log; policies and approval links in memory alone | create, transition, activate, rollback, start_rollout, attach_approval_policy, request_approval, resolve | an activation is many appends without a lock; a restart or a failed write between two of them; a check that is far from its append | at most one active release per asset; what is activated is approved and granted; the history of a release connects; percentages are exact |
| Plugin marketplace and host | install state, processes | install, enable, spawn, stop | process death against state | a disabled plugin serves nothing |
| Provider routing and health | health records, ranked bindings | route, record result | health changes during fallback | every binding is tried at most once |
| Retrieval, graph, evaluation, tools, providers, integrations, API, UI, SDK | data pipelines, I/O and wire formats | - | - | - |

`PROJECT.json` lists each component with its files and status.

### How they interact

- The **orchestrator** calls `submit_proposal` when a tool call needs approval. On
  `PendingOperator` it ends the run's turn; a later turn drains what was approved
  through the projection. `await_decision` remains the service's blocking entry
  point and is modelled as such, although the orchestrator in this commit no longer
  calls it (`execute_impl.rs` 1359-1388).
- **Operators** call `approve`, `reject` and `amend` through `handlers/approvals.rs`
  on the same service instance, and drive runs with `POST /v1/runs/:id/orchestrate`.
- A **signal** reaches `ingest_signal_handler`, which asks the trigger service for
  candidates, the **decision service** for a decision on each, the trigger service
  again to fire, the **event log** to persist, and the run service to create the runs.
- Every service appends to the **in-memory log**, which updates the projections,
  broadcasts the event to WebSockets and then writes it to the durable log. When that
  second write fails, `append` returns the error and memory keeps what it has
  (`in_memory.rs` 2090-2188, test `secondary_failure_surfaces_error_but_keeps_in_memory_state`).
  The models of the approval service, the bridge, the streams and the prompt releases have
  both halves; they assume that a durable back end is configured, as without one nothing
  survives a restart. The request that appended an event publishes it to the **SSE** clients.
- **FlowFabric** owns leases. The task service calls it and reports the result, and the
  lease history subscriber reports what happened without a call; both go through one
  bounded queue into the event log.
- At **startup** the durable log is replayed, `replay_triggers`,
  `replay_decision_cache` and `replay_tool_result_cache` rebuild the in-memory
  services from it, the **sandbox service** recovers its sandboxes, and **run
  recovery** moves the runs of the lost ones.

All services are shared by tokio tasks. Their state is protected by mutexes that are
never held across an await, so anything may happen between two critical sections.
That is the granularity of all models: one action is one critical section, one
awaited call or one write to a disk or a log.

## 2. The modules

| Module | Models | Run through |
|---|---|---|
| `ApprovalLedger` | abstract specification: what approvals promise about a tool call | implemented by the next two |
| `ToolCallApproval` | the approval service, its projection, its callers | `MCToolCallApproval` |
| `ToolCallApprovalProofs` | theorems about it | |
| `OrchestratorLoop` | the orchestrator of a run, on the ledger | `MCOrchestratorLoop` |
| `OrchestratorLoopProofs` | theorems about it | |
| `DecisionCache` | the decision service | `MCDecisionCache` |
| `DecisionCacheProofs` | theorems about it | |
| `TriggerFire` | triggers, from signal to run, and their replay | `MCTriggerFire` |
| `TriggerFireProofs` | theorems about it | |
| `Sandbox` | the sandbox service and its recovery | `MCSandbox` |
| `RunRecovery` | EXTENDS `Sandbox`: a boot with run recovery, run-level approvals, the engine's run moves | `MCRunRecovery` |
| `SandboxProofs` | theorems about both, EXTENDS `RunRecovery` | |
| `LeaseBridge` | the bridge from FlowFabric to the event log | `MCLeaseBridge` |
| `LeaseBridgeProofs` | theorems about it | |
| `EventStream` | the two logs, SSE and WebSocket streams | `MCEventStream` |
| `EventStreamProofs` | theorems about it | |
| `PromptRelease` | prompt releases from creation to the choice of one for a selector | `MCPromptRelease` |
| `PromptReleaseProofs` | theorems about it | |

The MC modules only give values to constants that a `.cfg` cannot write (functions,
pairs, plans, an initial log) and name the symmetry sets. Each component module has a
constant `Env`, the set of things the environment does beyond the plain case
(overlap, failures, restarts, ...). A run picks its environment with it, and a
property that needs a benign environment says so by the `Env` of its run.
Operators whose comment says *mutant* or *fault* are plausible wrong versions of the
definition that follows; they show that a property can fail.

### ApprovalLedger, ToolCallApproval and OrchestratorLoop

`ApprovalLedger` has two variables: `ledger[c]`, a row of the `tool_call_approvals`
table with one bit more (a proposal of `c` is unanswered), and `delivered`, the calls
handed to an executor. It says that only an open proposal is answered, once; that an
approval is final; and that only what stands approved is delivered. Both components
have the property `ImplementsLedger`: in `ToolCallApproval` the ledger is computed from
the durable log and a delivery is a waiter woken through its oneshot; in
`OrchestratorLoop` the ledger is the state itself, used by the loop and the operators,
and a delivery is the execution of a gated tool. So the loop is checked against the
promise that the service is checked to keep.

`ToolCallApproval`:

| Variable | Code |
|---|---|
| `log`, `kept` | the durable event log, and the `tool_call_approvals` projection its replay gives |
| `row` | the projection in memory, which the first half of an append changes |
| `cache` | `Inner.proposals` (`ProposalEntry`: state, amended and approved arguments, reason) |
| `pending` | `Inner.pending`: whose oneshot sender is parked |
| `registry` | `Inner.allow_registry` per session |
| `th` | tasks: operation, program counter, captured locals, the sender taken, the oneshot's content |
| `granted`, `timedOut` | history: arguments handed to executors, waiters told Timeout |

An append is two steps: `AppendInMemory` changes `row`, and `Persist` the durable log or
`PersistFails`, which takes nothing back from `row` and, with `unsure` in `Env`, may have
reached the durable log all the same. `submit_proposal` is the chain `SubmitCheckCache`,
`SubmitCheckRow`, `SubmitPropose` and `SubmitProposed`, `SubmitInsert`, `SubmitMatch`,
`SubmitAutoApprove` and `SubmitAutoApproved`, `SubmitMarkApproved`; `approve`,
`reject` and `amend` are `LoadCached`/`LoadFetch`/`LoadFill`, a claim, `DecisionAppend`,
then `DecisionSaved`, the rule and the oneshot, or `DecisionSaveFails` and
`DecisionRevert`, which rolls the cache back beside a projection that keeps the decision;
`await_decision` adds `AwaitRegister`, `AwaitDelivered`, `AwaitCanceled`, `AwaitElapsed`
and `TimeoutClaim` (`handle_timeout`). `Crash` clears memory; the next process rebuilds
`row` from the durable log.
Payloads are model values; a path policy is the set of payloads it covers, which
stands for the lexical canonicalisation of paths. The `eff` field of an approval
event is history: the arguments the approver computed under the lock.

`OrchestratorLoop`: `req[r]` is one request to the orchestrate route with the loop's
locals: the iteration, the set of approvals already drained, the queue being drained and
the concurrent tool tasks of the turn. `results` is the `ToolCallResultCache`,
`completed` the ids in ToolInvocationCompleted events, from which
`ReplayToolResultCache` rebuilds it. A turn is `ListUnrejected` and `ListApproved`, one
`DrainNext` per approved call, `Decide` (any plan of `Plans`; GATHER and DECIDE have no
state of their own), the tasks (`Submit`, `Answer`, `Retrieve`, `StartTask`, `Lookup`,
`Run`, `Record`, `Insert`), and `Control` for the proposals that are not tool calls. A
call id is its step, position and arguments, with a flag that says whether
`working_dir` was injected before hashing.

### DecisionCache

`entries` and `ruleIndex` are the two maps, `ev` the evaluations under way, `sweep` an
`invalidate_by_rule` between its two critical sections, `log` the persisted cached
decisions, `now` the clock. The checks of steps 1 to 4 and the approval resolver of
step 6 answer nondeterministically. `decided`, `revoked` (decision and way, by id or by
rule) and `overkill` are history. `orderly` is history too: no invalidation by rule has
overlapped an evaluation and the process was not restarted; the two properties about
rules are stated for an orderly process, since neither the index nor an invalidation is
persisted. A cache key is the list of its colon-separated parts, because
`remove_by_scope` recovers the scope by splitting the key text at colons.

### TriggerFire

`trig`, `tmpl`, `ledger`, `counts`, `budget` are the fields of `TriggerService`; `lock`
is held by a delivery while it evaluates its triggers one by one; `dl` and `op` are
deliveries and operator requests; `log` and `cursor` the event log and the position of
the replay; `runs` the runs created. The signal handler is `Preview`, `Decide`,
`Acquire`, then `SkipOne`, `SuspendOne` or `FireOne` per trigger in id order,
`Release`, `AppendEvents`, `Materialize` per run, `Respond`. Signal patterns,
conditions, chain depth and required template fields are relations between triggers
and signals given as constants. TriggerSkipped, RateLimited and Denied events carry
no state and are not in the model's log. `before` remembers the state of an idle
process that restarts, and `before.ok` whether it had served its requests one at a time
with every append done. Trigger ids are fresh, which the code does not guarantee
within one millisecond (see 3, further disagreements).

### Sandbox and RunRecovery

`session[r]` is what memory knows of the sandbox of run `r` (state, attached or not,
metadata, resource limits); `disk[r]` is the directory: the mounted root, the revision in the
provider's state file, the state in meta.json; `registry[r]` is the sidecar file;
`clone` the locked clone with its HEAD. Each thread is in one call, whose steps are the
critical sections and the writes of the code: `Provision`, `Claim`, `ProviderProvision`,
`InstallState`, `WriteRegistry`, `PersistReady`, `Activate`, `Heartbeat`/`Beat`,
`Checkpoint`, `Preserve`, `DestroyRun`, `ProviderDestroy`, `Forget`, ... `boot` is the
process: down, one of the phases of `recover_all` with the runs still to be visited and
the lists it collects, or serving. Faults are a crash, an I/O error at any write, a
directory that disappears (`Wipe`) and a new commit in the clone (`MoveHead`).

`RunRecovery` adds `run`, `approval`, `latest` (which resolution came last) and
`resolving` (an operator between the read and the append). `RecoverRuns` is the one
append of the run recovery matrix over the lists of `boot`, and only after it the
process serves. An error of run recovery ends the process, which is a crash here.

### LeaseBridge

`eng` and `hist` are the external engine: the states of executions and the lease history,
whose positions are the cursors. `sub` is the subscriber's worker (load the cursor,
subscribe, next event, handle, emit, persist), `call` the requests of the task service,
`queue` and `con` the channel and its consumer, with the event in hand, its attempts and
whether the durable log has it already. The store is `saved` (the cursor), `proj` (the states
in memory), `kept` (the states a replay gives) and `dur` (the lease events in the durable
log). An attempt of the consumer is `AppendEvent` (memory) and then `Save`, `WriteFails`
(not written), `AnswerLost` (written, and reported as failed) or `WriteRefused` (written by
an earlier attempt: the event id is unique). `Retry` offers the same envelope again, so
memory applies it again, or gives it up. A shutdown closes the channel and drains it; a
crash drops it. `Started` is the next process for both: it rebuilds `proj` from the
durable log, and finds no cursor, because the cursor store that `state.rs` 1304-1312 wires
in is a map of the in-memory store (`in_memory.rs` 149-151, 4878-4915) that nothing rebuilds.
`last` and `lost` (position and reason) are history, so that a property can say *settled*:
in the durable log, or lost in a way the code allows for, a subscription at the tail of the
history included.

### EventStream

A writer is one request, and stands for the event it appends; `load` says which requests
a behaviour has (a service, the raw append route, a frame that is about no event, with
or without a causation id, an event from which another is derived). `memory` is
`InMemoryStore`'s log, `durable` the SQL log, `up` the process with its replay. A
service request is append (with the broadcast to WebSockets, one critical section), the
second write, the read of the events since the head it noted, and per event a number
from the counter, a push to the buffer and a send. `client` is an SSE client: its
subscription, its replay from the buffer, its receiver and the id it remembers when it
comes back. `ws` is a WebSocket's handshake. The second write may commit although its
answer is an error or its request was dropped.

### PromptRelease

`row` is the projection of releases in memory (state, `rollout_percent`, `created_at`) and
`disk` the same as a replay of the durable log gives it; `grant` and `kept` are the two of the
approvals that `request_approval` asks for, whose ids follow from the release. `policy` and
`link` are the maps `policy_attachments` and `approval_links`, which a restart empties. `req[c]`
is one request: its call, the releases it has yet to move back, and the event in hand. The asset
of a release is fixed with its id.

The first step of a request (`Create`, `Transition`, `Rollback`, `StartRollout`,
`RequestApproval`, `Resolve`, `AttachPolicy`, `Activate`) reads the release, decides and
prepares an event. `Append` is `InMemoryStore::append` up to the end of its critical section,
`Save` and `SaveFails` the durable write after it. `activate` goes on with `Gate` (policy, link,
decision), `List` (`list_by_project` with its limit), one `Supersede` and append per active
release, and `ReadTarget`, which is the call of `transition`: it reads the release again and does
not check its state again. `rollback` archives one release and then makes another active.
`Route` is `active_for_selector`, with the shares of the releases up to each place as a
recursive function. Routes exist for all of it but `attach_approval_policy`, which the trait
offers and the tests use. `load` is what comes in one behaviour, the calls and whether durable
writes may fail, so that one run explores several. `Env` has `overlap` (requests about one asset
are served at the same time; without it, requests about other assets still interleave) and
`restart`. `torn` is history: the releases about which a durable write has failed.

## 3. What TLC checks

### Runs that pass

| Run | Instance | Shows |
|---|---|---|
| `approval_service` | 2 calls of a session with the same arguments, all six operations on one and the submission of the other; 2 tasks, 2 payloads, a path policy, 4 operations; durable writes of decisions that fail after memory has the event, crashes, resubmission; under `FairSpec` | `TypeOK`; `DeliveredIsDurable`: an executor woken by its oneshot runs the arguments of a persisted approval; `AutoApprovalSanctioned`: an automatic approval follows a persisted session approval that covers it; `CacheIsDurable`: a quiet call is in the cache, its amendments aside, what a restart would rebuild from the durable log; `ImplementsLedger`, of what is durable; `OperationsReturn`: every operation returns, parked waiters included |
| `decision_cache` | 2 keys, 2 rules, 2 evaluations, ttl 1; racing invalidations by id, by rule and by scope, restarts | `PendingHasOwner`; `HitsAreGenuine`: a hit repeats a live decision taken for that key; `RevokedIsGone`; `RuleIndexComplete` |
| `trigger_runs` | 2 triggers, 2 signals, 3 overlapping deliveries, restarts, rate 1 per 2 ticks, budget 2 per 3 ticks | `NoDuplicateRuns`, `RateLimitHolds`, `BudgetHolds` |
| `trigger_registry` | 2 triggers, 2 templates, 3 operator requests, 1 delivery; overlap, failing appends and runs, restarts | `TemplateAvailable`; `ReplayRestores`: replay rebuilds triggers, templates, ledger and windows of a process that served its requests one at a time |
| `orchestrator_turns` | 1 request slot, 2 iterations, plans that mix gated and plain tools, completion, spawn and memory; session rules, overrides, one refused append or restart; under `FairSpec` | `RunsApprovedArgs`; `RecordedIsFinal`: what the log says was executed is not executed again; `ImplementsLedger`; `ApprovedIsServed` |
| `sandbox_ops` | 2 threads, an overlay run with all operations and a reflink run that is provisioned, activated and checkpointed, 2 faults of all kinds | `OneProvisioner`; `RecoveredOnItsRevision` |
| `recovery_boot` | 1 thread, 1 run, all operations, 2 approvals, 3 faults (crash, lost directory, moved HEAD); under `RunFairSpec` | `ReconnectableIsRegistered`; `MetadataOnDiskIsCurrent`: meta.json has the state of every session with its sandbox attached when all calls have returned; `NoRunBootsStranded`; `ReportedLostRunEnds` |
| `lease_history` | a task and a run, a queue of one slot, 2 tries, 1 reconnect, a history of 2, 2 faults of 4 kinds; under `FairSpec` | `TypeOK`; `CursorPassesNothing`: while a process lives, what its cursor has passed is settled or in the bridge; `BridgeKeepsOrder`: the durable log, across restarts, lost answers and retries, has the lease events in order and none twice; `LeaseEventsSettle`: the bridge catches up, again and again every lease event is settled, after a restart perhaps as lost |
| `event_stream` | 3 requests in one of 4 loads, 1 SSE client, a WebSocket; window, buffer, channel and replay batch of 2; one failed write, crash or dropped request, reconnects | `TypeOK`; `AckedIsDurable`; `DurableIsServed`; `ReplayMeetsLive`; `OwnFrameIsOut`; `HandshakeCoversLog` |
| `prompt_releases` | 2 clients, 3 releases of an asset and 1 of another, restarts, in one of 3 loads: reviews and activations of two assets with one release under approval; the same for one asset with failing writes; rollouts at half of the buckets and a rollback beside activations of three releases, with failing writes | `OneActive`: at most one active release of an asset that only `activate` makes releases active of, between any two appends and after any restart; `ActivatesCleared`: what activate checked at its start still holds at its last append; `HistoryConnects`; `ActivationReplaces`: an activation that ends has replaced all active releases, however they became active; `SplitIsExact`: each release but the last gets exactly its percentage of the selectors |

The type invariants of the other modules are proved (section 4) and not checked again.

Why these bounds. A violation of the approval properties needs at most a submission
and three racing operations on one call, and for the allow rule a second call of the
session, whose arguments the rule must cover; 4 operations allow both. The trigger windows are 2 and 3 ticks so that fires
inside, at the edge of and outside each window happen within `MaxTime`; three
deliveries are one more than the rate and the budget allow. In the cache a key with
ttl 1 is cached, hit and expires within the clock's bound, and two evaluations are
enough for one to write what the other invalidated. The orchestrator needs two
iterations for an approval to be drained in a turn after the one that proposed it, and
one fault for a result that was recorded and not cached. Two threads and two faults let
a call of the sandbox service meet another one in each of its gaps, and a crash meet a
directory lost or a HEAD moved before it; the third fault of `recovery_boot` is a crash
in the boot that follows. A queue of one slot is full as soon as one event waits, and
two history entries can be reordered or skipped. In `event_stream` three frames overflow
a buffer and a channel of two, two events and one derived from them exceed the window of
a publication, and two durable events fill a replay batch, so that a second is read. Three releases of one asset let
an activation replace two at once and a split have a first, a middle and a last part; two buckets
and a byte of three let shares be below, at and above the whole and saturate; the second client
moves a release of another asset between any two steps of the first. Every bound
(`MaxOps`, `MaxTime`, `MaxFaults`, `MaxEvents`, the sizes of the sets) is a guard on the
environment, so a run ends when the environment has used it up, and a system that has
nothing to do stops; therefore deadlock is not checked, except in the prompt run, whose
environment has no such bound. That nothing is left hanging
before is what the liveness properties `OperationsReturn`, `ApprovedIsServed`,
`ReportedLostRunEnds` and `LeaseEventsSettle` say.

Fairness. A tokio task that is ready is polled eventually, a store call returns or
fails, and the timer of a waiter fires. Hence `ToolCallApproval` has weak fairness of
the steps of each task, `OrchestratorLoop` of the steps of each request, `LeaseBridge`
of consumer, subscriber, the end of a shutdown and the step of a request after the
engine's answer. A sender waits for a slot of the bridge's channel in a FIFO queue, so
its send gets strong fairness. `OrchestratorLoop` also assumes that somebody drives a
run again after its turn ended: without it an approval waits for ever, as the code
intends. Nothing is assumed of operators' decisions: they may never come. `RunFairSpec`
assumes that a boot goes on and the file system answers; it does not exclude crashes.
`EventStream` and the remaining runs check safety only.

### Runs that find a disagreement

| Run | Statement | What happens |
|---|---|---|
| `orchestrator_rerun` | `ApprovedRunsOnce`: a call driven again "hits the cache instead of re-invoking the tool" (`execute_impl.rs` 455-457) | a call that a session rule approves is executed inline under an id hashed with `working_dir`, and the drain of the next turn looks for it under the id of its approval, misses, and executes it again |
| `event_append` | `AppendAnswersPosition`: an event with no known causation id "is appended and its assigned position is returned" (`bin_events.rs` 94) | with a durable backend the route writes the envelope to the durable log and then calls `append`, whose second write of the same unique `event_id` is refused: the answer is 500 although both logs have the event |

`PROJECT.json` has the quotations.

### Further disagreements

The modules state more of what the documents and comments say. No run is kept for these;
each is refuted by the instance of the module's run named here, with the `Env` given and
the property as the only one.

| Property | Instance and `Env` | What happens |
|---|---|---|
| `CacheAgreesWithRow` | `approval_service`, `fail` | a decision whose durable write fails is rolled back in the cache, while the projection in memory keeps it (`in_memory.rs` 2140-2167): pending in one, approved in the other, until a restart ("Revert the claimed transition", `tool_call_approval_impl.rs` 377) |
| `ApprovalIsFinal` | `approval_service`, `fail` | so the call can be resolved again, and oppositely, over a row that is approved in memory |
| `ImplementsLedger` | `approval_service`, `propose_fail`, or `fail` and `unsure` | a proposal whose write failed stands in memory, is approved there and the approval is durable without its proposal; a decision that was written although its write was reported as failed is rolled back, and another one follows it in the durable log |
| `CacheIsDurable` | `approval_service`, `propose_fail`, `amend_fail`, or `fail` and `unsure` | the same histories, seen from the cache; a failed amendment restores the state it saw over a decision made meanwhile |
| `ImplementsLedger` | `approval_service`, `overlap` | an approval of session scope, between the insert of a submission and its match of allow rules, makes the submission approve the call a second time |
| `CacheIsDurable` | `approval_service`, `overlap` | an amendment between the proposal's append and the submission's insert claims the entry reloaded from the row, and the insert writes a fresh one over it |
| `ResolvedOnce` | `approval_service`, `amend_fail` | the rollback of a failed amendment does not look whether the entry was approved meanwhile; the call is resolved twice, also durably (`ImplementsLedger`) |
| `TimeoutMeansRejected` | `approval_service`, none | a decision between load and registration finds no sender; the waiter is told Timeout on an approved call |
| `GrantedIsDurable` | `approval_service`, `fail` | the fast path of `await_decision` ("based on the durable state", `tool_call_approval_impl.rs` 593-596) and `retrieve_approved_proposal` answer from a claim that is not yet persisted and may be rolled back |
| `RejectedNeverParks` | `approval_service`, `resubmit` | a rejected call, submitted again, is pending in the cache and its waiter parks ("will observe the terminal state and resolve immediately", 198-203) |
| `CachedArgsAreLatest` | `approval_service`, none or `resubmit` | two amendments are appended in another order than claimed; a resubmission drops the amendment from the cache only |
| `SingleFlight` | `decision_cache`, none | a pending entry is not waited for (RFC 019: "coalesced via singleflight"; a comment at `decisions.rs` 1054-1058 says it is still to come) |
| `RuleReachesAll` | `decision_cache`, `invalidate` | a promotion writes entry and index under two locks; after a restart the index is empty |
| `RevocationIsFinal` | `decision_cache`, `invalidate` and `restart` | invalidation is not persisted; replay brings the decision back |
| `ScopeReachesAll` | `decision_cache`, none | every scope text contains a colon, and `remove_by_scope` compares it with one piece of a key split at colons: nothing is removed |
| `SelectiveInvalidation` | `decision_cache`, `invalidate` | a stale index entry makes a rule change remove an unrelated decision |
| `NoDuplicateRuns` | `trigger_runs`, `restart` and `fail` | runs are created although the append of their fires failed; after a restart the ledger does not know them, and neither do the windows (`RateLimitHolds`, `BudgetHolds`) |
| `RunIdsDistinct` | `trigger_runs`, none, `MaxPerMinute` 2 | two fires of a trigger within a millisecond get one run id; ids of new triggers are timestamps too (`trigger_routes.rs` 246) |
| `FiredHasRun` | `trigger_runs`, `norun` or `restart` | a persisted fire whose run was never created is not retried, because the ledger knows it |
| `BudgetSuspends` | `trigger_runs`, none | triggers over budget are dropped by the preview, before the code that suspends them (RFC 022: "enter `Suspended { reason: BudgetExceeded }`") |
| `RecordedIsFinal` | `orchestrator_turns`, `overlap`, two requests | two requests drive one run at once, and both find the id missing in the cache |
| `ReattachedIsUsable` | `sandbox_ops`, `crash`, one thread and run, provision and activate | a sandbox whose provisioning the crash cut short, after the sidecar and before meta.json, is reported reattached, and the next provision of it fails |
| `MetadataOnDiskIsCurrent` | `recovery_boot`, none, two threads | two calls for a run write meta.json in the opposite order of their changes; with `fail` and one thread, a write is refused after the session has changed |
| `MetadataOfEverySession` | `recovery_boot`, its own | a session that recovery left without a sandbox: a provision that fails sets it to Failed (`service.rs` 535-545), an activate to Active before it finds no sandbox (577-584), and neither writes meta.json |
| `ReconnectableIsRegistered` | `recovery_boot`, none, two threads | a preserve finds the session of a provision that has not written its sidecar yet, and writes meta.json first |
| `LostRunEnds` | `recovery_boot`, `crash` and `wipe` | the sweep removes the sidecar of a lost sandbox before run recovery has appended anything (`service.rs` 979-982, `recovery_impl.rs` 81-82); a crash between forgets the loss |
| `TerminalIsFinal` | `lease_history`, none, one task, claim and complete | the subscriber's report of an expired lease comes late, after the task was claimed again and completed; the projection goes from `completed` to `retryable_failed` (RFC 005 135) |
| `CursorPassesNothing` | `lease_history`, `tags` | a failed read of the tags looks like a foreign execution (`valkey_impl.rs` 83-91), and the cursor passes the event (`lease_history_subscriber.rs` 366-369) |
| `CursorOutlivesProcess` | `lease_history`, `crash` | the cursor is in the memory of the process and gone with it: the next subscription starts at the tail and passes what was not settled ("can persist its XREAD cursors across", `state.rs` 1305; "the bridge subscriber resumes from `FfLeaseHistoryCursor`", RFC 020 620; `lease_history_subscriber.rs` 17, 139) |
| `AppliedOnce` | `lease_history`, `store` | the consumer offers the envelope of a failed append again (`event_bridge.rs` 212-239), and memory, which kept it, applies it a second time ("do not retry blindly", `in_memory.rs` 2154); after a lost answer the durable log refuses every further attempt |
| `ReopenRedelivers` | `lease_history`, `engine` | without a cursor a reopened stream starts from now (231-233) |
| `NoRepeatedCause` | `event_append`, none, loads `MCRawTwice` | the lookup of a causation id and the append are two steps; two requests pass the lookup ("returned without re-appending", `bin_events.rs` 91-93) |
| `ResumeLosesNothing` | `event_append`, `leave` or `crash`, loads `MCServices` | a client that saw frame 2 before frame 1 resumes behind both; after a restart the counter starts again below the id the client remembers ("to resume from where it left off", `sse.rs` 42-43) |
| `LogsAgree` | `event_append`, none, loads `MCServices` | concurrent appends reach the durable log in another order than the projections saw |
| `PositionIsCursor` | `event_append`, none, loads `MCServices` | an append answers a position of memory, `GET /v1/events` pages by positions of the durable log |
| `OneActive`, `ActivationReplaces` | `prompt_releases`, `overlap`, one load of creations, approvals and activations of two releases | activations of two releases list the active ones before either has appended; none is moved back and both become active ("There is never more than one `active` release for the same", RFC 006 241, also 282) |
| `ActivatesCleared`, `HistoryConnects` | `prompt_releases`, `overlap` | what a request has read is stale when it appends: a release is created twice and falls back to draft, a transition names a state the release has left, an approval is asked for again, which sets its decision back, between the check of an activation and its append |
| `OneActive` without `Whole` | `prompt_releases` | the durable write of a deactivation fails after memory has it; a later activation finds nothing to move back, and a restart brings the old release back beside the new one |
| `OneActive` without `Governed` | `prompt_releases` | `start_rollout`, a rollback and a transition to active make a release active beside others (`rollback` archives the release it is told of and no other) |
| `OneActive`, `ActivationReplaces` | `prompt_releases`, `ListLimit` 1 | an active release behind the limit of the listing is not moved back (`prompt_release_impl.rs` 182) |
| `RolloutGetsShare` | `prompt_releases` | a release rolled out beside one without a percentage, which counts as 100 (`in_memory.rs` 3275), gets no selector if its id sorts behind ("start a gradual traffic rollout at the given percentage", `prompt_releases.rs` 45) |
| `PoliciesStay` | `prompt_releases`, no symmetry | policies are in memory alone: after a restart the release activates without its approval |

Less formally, from reading along the models: the drain of the orchestrator reads the projection
in memory, so a call whose approval could not be written durably, and which its operator was told
had failed, may run until the next restart; a slow SSE receiver skips what it missed and
goes on, although the comment expects the client to reconnect (`sse.rs` 82); events that a
projection derives are not broadcast to WebSockets; `in_memory.rs` 174-176 calls the second
write best-effort while `append` fails with it; the raw append route publishes no SSE
frame of its own although its comment says the event is broadcast; operator events of triggers
are appended after the mutex is released (`trigger_routes.rs` 178), possibly in another
order, which is why `ReplayRestores` asks for requests one at a time; a cancelled request
can leave an event in memory alone until the next restart; asking again for the approval of
a prompt release resets a rejection, although `activate` answers "create a new release to retry"
(`prompt_release_impl.rs` 163); no event sets the slots and types that
`active_for_selector` compares; `docs/api/prompts.md` 3 calls the releases governed by a
state machine, while the transition route takes any state to any other; RFC 006 254 excludes
percentages in v1, which the code has.

The passing runs exclude exactly these causes through `Env`, or through the property's own
condition, where the property would otherwise fail.

## 4. What is proved

All proofs are checked by TLAPS for every value of the constants that satisfies the
assumptions named in the modules: any number of calls, runs, tasks, requests, rules,
triggers, payloads, operations and faults. `ProposalAssumption`, `KeyAssumption`,
`CacheAssumption`, `LoopAssumption`, `SandboxAssumption`, `ApprovalsAssumption`,
`BridgeAssumption` and `StreamAssumption` only give the constants their types and keep the "none" values out
of the sets; `PromptAssumption` says besides that no two releases have one place in the order of ids, and
that the buckets are fewer than a byte counts; `TriggerAssumption` also says that the events of the initial log speak of
things there are and are not later than `BootTime`. Where a theorem has a hypothesis
more, it excludes something of `Env` or lets the calls for one run follow each other.
TLC refutes each of these theorems without its hypothesis, by a history that section 3
describes.

| Theorem | Property | Hypothesis |
|---|---|---|
| `TypeCorrect`, `DeliverySafe`, `AutoApprovalSafe` | `TypeOK`, `DeliveredIsDurable`, `AutoApprovalSanctioned` | none |
| `ServiceImplementsLedger`, `CacheFollowsLog` | `ImplementsLedger`, `CacheIsDurable` | no overlap with a submission, durable writes of proposals and amendments succeed, a write reported as failed was not made |
| `CacheTypeCorrect`, `PendingNeverStranded`, `RevocationHolds`, `IndexReachesCached`, `CacheHitsAreGenuine` | all of `DecisionCache` | none |
| `TemplatesStay`, `FireTypeCorrect` | `TemplateAvailable`, `TypeOK` | none |
| `ReplayRestored` | `ReplayRestores`, by `ServiceFollowsLog` | none |
| `RunsAreUnique`, `RateLimitKept`, `BudgetKept` | `NoDuplicateRuns`, `RateLimitHolds`, `BudgetHolds` | appends of fires succeed |
| `LoopTypeCorrect`, `ApprovedArgsAreRun`, `LoopImplementsLedger` | `TypeOK`, `RunsApprovedArgs`, `ImplementsLedger` | none |
| `RecordedIsNotRerun` | `RecordedIsFinal` | requests of a run do not overlap |
| `SandboxTypeCorrect`, `ProvisioningExclusive`, `RecoveryPinsRevision` | `TypeOK`, `OneProvisioner`, `RecoveredOnItsRevision` | none |
| `SidecarBeforeMetadata` | `ReconnectableIsRegistered` | calls for a run do not overlap |
| `MetadataFollowsSession` | `MetadataOnDiskIsCurrent` | ... and writes succeed |
| `RecoveryImplementsSandbox` | `RunSpec => Spec` | none |
| `RecoveryTypeCorrect`, `BootsUnstranded` | `RecoveryTypeOK`, `NoRunBootsStranded` | none |
| `BridgeTypeCorrect`, `EventsStayInOrder` | `TypeOK`, `BridgeKeepsOrder` | none |
| `CursorNeverSkips` | `CursorPassesNothing` | the tags of an execution can be read |
| `StreamTypeCorrect`, `AckedIsDurableAlways`, `DurableIsServedAlways`, `ReplayMeetsLiveAlways`, `OwnFrameIsOutAlways`, `HandshakeCoversLogAlways` | all that `event_stream` checks | none |
| `PromptTypeCorrect`, `SplitStaysExact` | `TypeOK`, `SplitIsExact` | none |
| `ActivationIsCleared`, `HistoryIsConnected` | `ActivatesCleared`, `HistoryConnects` | requests for an asset do not overlap |
| `ActivationIsAlone`, `OneIsActive` | `ActivationReplaces`, `OneActive` | ... and the listing of `activate` has room for all releases |

### ToolCallApprovalProofs

`TypeCorrect`, `DeliverySafe` and `AutoApprovalSafe` follow from one inductive
invariant `IInv`. `DeliveredIsDurable` is not inductive: a decision travels from the
claim (arguments computed under the lock) over the append to the sender taken at the
claim, and the waiter at the other end may meanwhile have timed out, returned and
started to wait for another call. The conjuncts follow that path:

- `LocalsOK`: what a task holds at each program counter (an approver past its claim
  has effective arguments, only approve and reject hold a sender);
- `WaitOK` (`ParkedOK`, `HeldOK`, `ChannelOK`): a parked or taken sender belongs to a
  task that is waiting for the same call, each sender is in one place, and only a
  registered waiter has something in its channel;
- `SendOK`: an approver about to push its rule or to send has its approval, with these
  arguments, in the log;
- `InboxOK`: so has an approval that lies in a channel, for the call waited for;
- `RegistryOK`: every allow rule stems from a session-scope approval in the log;
- `AutoOK`: a submission about to approve by itself has matched such a rule.

The log only grows (`LogExtends`), so a witness in it stays (`WitnessesStay`). Each
group of actions has its lemma.

`ServiceImplementsLedger` and `CacheFollowsLog` rest on a second invariant, `LInv`,
which relates the places that know of a call: the durable log with its replay `kept`, the
projection in memory, the cache and the tasks. `RowOK`: the durable log and its replay
tell one story (a call that is not there was never proposed, an approved one has nothing
open). `CacheOK`: a cache entry that no task claims is what the replay gives; memory's
projection, which keeps the decisions whose write failed, is bound to the durable log
only where the cache has no entry. `SubmitOK` and `ClaimOK` say what a task may rely on between its
critical sections: a submission stands on the entry it made, and a claim holds the call
open in the durable log, shows its own verdict in the cache and keeps the entry to go back
to, also between the two halves of the append. `Exclusive`: one claim per
call. A rollback then restores exactly what the durable log says, and a durable write
answers a proposal that is still open, which is the step `Resolve` of the ledger. A
projection that is ahead of the log misleads no operation of the service, because they read it
only where the cache has no entry, and there the two agree. The refinement is proved per group of actions: a
proposal, a resolution, an amendment (which the ledger does not see), a woken waiter, and
everything else, the first half of every append included, as a stutter. The hypotheses are
those of `approval_service`; without any one of them TLC refutes both theorems, as section
3 shows.

### DecisionCacheProofs

`CacheInv` is inductive. `RevokedIsGone` needs to know that a revoked decision is not on
its way into the cache (`RevokedIsPast`), which depends on the order of the code: the
write of the entry comes after the write of the index and before the decision can be
named in an invalidation. `EvalKnows`, `EntriesGenuine` and `LogGenuine` say that
entries, evaluations and the log all speak of decisions that were made as they say,
from which `CacheHitsAreGenuine`, an action property, follows: only a lookup hit reuses a
decision. `SweepAlone` and `IndexedFirst` carry the two properties of an orderly process.
Replay folds over the log; what the proof needs is which record an entry comes from
(`SeededFromLog`).

### OrchestratorLoopProofs

`LoopInv`: what is queued or being run stands approved in the rows (`QueuedIsApproved`,
`TasksOK`), a task past its retrieval has the arguments of its row, and an approval is
closed (`ApprovedIsClosed`), so the row cannot change under a task that has read it.
That is why `ApprovedArgsAreRun` holds through overlap and restarts, and each step of
the loop is a step of the ledger or a stutter. `RecordedIsNotRerun` needs `OnceInv` in
addition: what is past its lookup is not yet in a completion event (`UnrecordedYet`), a
completion is in the cache or about to be (`CompletedIsCached`), and one request runs
(`OneActive`). With overlap two requests look up before either records.

### SandboxProofs

`SandboxInv`: a call in the provider keeps its session in a state from which nobody else
may claim it (`ClaimHeld`), calls run only while the process serves (`ThreadsServe`), and
a process that is down has no session (`DownIsEmpty`). `CallsInv` is about what is on
disk: per run, it relates session, directory, sidecar and the one call under way
(`RunOK`), and says what the boot has visited (`SweepSparesListed`), since the sweep for
lost sandboxes removes sidecars. Its part `Saved` needs that a session changes without its
metadata only while it has no sandbox: a claim and a failing provider call find none, and
`activate` writes when there is one. That calls for a run come one at a time is stated as
`[]OneCallPerRun`; it excludes no crash, fault or call for another run.

`RecoveryImplementsSandbox` maps each step of the composed boot to a step of the service or
a stutter, so all theorems about `Sandbox` hold of `RunRecovery` too. `BootsUnstranded`
is an action property of the one append of the recovery matrix.

### LeaseBridgeProofs

`BridgeTyped` adds to the types that positions are those of the history. `Held` is what
the consumer has in hand, followed by the channel; the steps are reduced to: the first
one leaves, one arrives at the end, or nothing moves. `WrittenIsDurable`: an event in hand
that is marked as written is in the durable log, so giving it up loses nothing.
`PassedAccounted` extends `CursorPassesNothing` to the worker's own position, which becomes
the cursor one step later. `InOrder` is the order of durable log and held events
(`Increasing`), that all of them are up to `Emitted`, the position the worker goes on from
(`UpTo`), and that the cursor of a worker that reads on is that position, or none yet
(`Continued`). A start without a cursor keeps it: the stream begins at the tail of the
history, behind everything durable.

### TriggerFireProofs

`TemplatesStay`: `TemplateAvailable` together with `RegistryOK` (the registry's type),
`LockOK` and `Base` is inductive. It needs no assumption on failures or order,
because replay repeats the service's own check before it deletes a template.

`RunsAreUnique` follows a fire from the ledger to the run. `LedgerOK`: while serving,
every fire in the log or still to be appended is in the ledger, and during replay every
fire already passed is. `EventsOK` and `PendingOK`: what a delivery still has to append
and to create was fired by it. `RunsOK`: a run has its fire in the log. `UniqueOK`: no
fire is on its way in two places. A restart drops the deliveries, and the ledger rebuilt
from the log covers all runs that exist.

`RateLimitKept` and `BudgetKept` count. The code keeps a list of times per trigger and
prunes it at each use; the property is about runs in any window of the past.
`WindowsCover`: the list, pruned at any later time, is at least as long as the fires on
record in the window that ends there. `MadeInLimits`: the fires that created a run, or
are about to, respect the limit in the window that ends at each of them; `MadeKnown`:
they are on record. A fire is admitted when the pruned list is shorter than the limit,
so with it the limit still holds, and `FiresPast` says nobody fires later than the
clock of the delivery that holds the mutex. `Recent`, the pruning, is a recursive
function; `Chain` names its first steps, `ChainExists` and `ChainUnique` are proved by a
least counterexample (`WFMin`), and `RecentPushed` is what the windows need of it.

`ReplayRestored` rests on `ServiceFollowsLog`. A fold over the log is stated as a relation:
`Replays(l, s)` says that some course of states, one more than events, leads from the
blank service to `s`; `ReplaysUnique` says that a log has one outcome. `Loaded`: during
replay the service is the replay of the events before the cursor, whatever happened before
the restart. `Current`: while the process has served its requests one at a time and no
append has failed, the service is the replay of the log followed by the events that the
request under way (`Unlogged`) has yet to append. So each handler has one obligation: what it
changes under the mutex must be what the replay of its events makes of the state
(`DeliveryApplies`, `OpStartApplies`), and an append, which moves an event from one side of
that concatenation to the other, has none. For a suspension this needs `LockOK`: the trigger
that a delivery is about to suspend is still live. `Kept`: the snapshot of an idle process at a
restart is the replay of the whole log, to which the new process comes by `Loaded`.
The property itself has the condition (an idle process, no overlap and no failure since its
last start), so the theorem needs no hypothesis on `Env`.

### EventStreamProofs

Four invariants next to the types, one for each thing the properties speak of. `LogInv`
relates the two logs (`LogsOK`: what was replayed is in memory, nothing else is before the
process serves, and afterwards only raw events may be missing there; no event is there
twice, what is derived from one is behind it) and says in which log the event of a request
is, by where the request stands (`RequestOK`). `AckedIsDurable` is not inductive without
it: an answer "found" rests on an event in memory, which is durable because raw events are
written there first. `FramesInv`: frames in hand have numbers of their own below the next
(`Numbered`), one that is still to be pushed was not sent (`PushedFirst`), so whatever
enters the buffer late is in the queues of everybody who listens; `ClientsOK` says what a
client may miss before it is sent the buffer, which is nothing if it follows from the
start, and what is behind its Last-Event-ID otherwise. `OwnInv` follows the event of a
service request from its position in the log through the window of a publication to the
frames still to be sent. `SocketOK` adds that sockets exist only while the process serves.

`Framed`, `Missed` and the batches of the replay are recursive functions over positions
(`Kept`, `Applied`). `StepsExist` proves by a least counterexample that the recursion has
a solution, `UpToHolds` is the induction over positions as a fact about a set, and
`KeptElements`, `AppliedLog` and `Window` are what the invariants need of them.

### PromptReleaseProofs

`MemInv` is about memory. `AllFit` says which event a call may have in hand, `Apart` that requests under
way are about different assets, and `Phase`, phase by phase, what an activation knows of its
asset: its release is approved and granted (`Cleared`), and the releases it has yet to move
back, with the one in hand, are the active ones (`Covers`). With it `Connected`: a
release is as it was when the event in hand was prepared. A step of another request writes
another asset (`KnowledgeStays`), so all of this is as stable as it is in the code: by the order of
requests alone. `ActivationReplaces` needs no assumption on failures or on what else makes releases
active, because the listing is read anew.

`LogInv` relates memory to the durable log, for the releases about which no write has failed
(those outside `torn`): they agree on a release that nobody is writing (`Synced`), and where an event
is being written, memory is what the event makes of the log (`Pending`); `OneWriter`, that no asset
has two events in flight, is what keeps it. With it a restart is a step to a state memory was in
before, and `OneActive` is proved for `row` and `disk` together (`One`): neither is inductive alone,
since a restart exchanges one for the other. `OneActive` speaks of the assets that `activate` alone
makes releases active of and that are `Whole`; `GovernedEvents` says which events they can meet, as
every request makes a call of the behaviour's load (`Sent`).

`SplitStaysExact` is about the recursion in `Upto`. `Runs` states its rule, `RunsExist` that
the rule has a solution, `UptoRuns` that `Upto` is one, `UptoGrows` that shares only add up. `SomeAhead`,
`RouteHead` and `RouteBelow` say which buckets a release is chosen for: those from the sum
before its place to the sum at it, and there are as many as its percentage says (`SplitExact`).

### Only model-checked

- Liveness, with the fairness it needs: `OperationsReturn`, `ApprovedIsServed`,
  `ReportedLostRunEnds`, `LeaseEventsSettle`.

Every safety invariant and action property of the passing runs is stated by a theorem.
TLC checked the inductive invariants on the instances of the runs before they were
proved. Induction over data is available here only through least elements of a set of
naturals, so what a recursive function or a fold returns is proved only where that set can
be written down.

## 5. What is not modelled

- Cancellation of `await_decision`: no caller is left that could drop its future. Dropped
  requests are modelled in `EventStream`.
- A startup whose read of the log fails (`state.rs` 725), and lists that stay empty when
  sandbox recovery fails (`main.rs` 1302).
- The sweep for revoked repositories in `recover_all`: its allowlist is in memory and empty at
  boot, and it skips projects with an empty allowlist, so it never changes anything. The
  recovery branch of `dispatch_one`: every caller passes `is_recovery = false`.
- The contents of conditions, prompts, paths, arguments, files and frames; telemetry, mailbox
  routing of signals; the tenant filter and the filters of event types of the streams; the
  SQ/EQ stream.
- A process without a durable back end, in which `append` ends with its first half; an SSE
  event from which two are derived (the models derive one); a WebSocket that lags.
- The SQL back ends beyond "one transaction per append, event ids unique"; the projections
  other than those of approvals, runs and tasks.
- The readiness graph, which only the health endpoint reads.
- The collection of old fire ledger entries: there is none, the ledger grows with the signals.
- FlowFabric beyond the moves its clients react to.
- `PromptReleasePipeline`, which nothing uses, assets, versions and rendering of prompts; states of
  a transition that are none of the domain's, which the route would accept and nothing reads.
- The plugin host, provider routing: planned. Tools, providers, retrieval,
  evaluation, UI, SDK: I/O, wire formats and numeric pipelines with little control state, and
  by far the larger part of the repository.

## 6. Plan

Done: the components above. Next, in this order:

1. `ProviderRouter`, `Marketplace`: fallback and lifecycle against processes.
2. `RepoStore`: reference counts and the sweep against `Sandbox`.
3. Pure operators: trigger conditions and template substitution against a reference
   definition; `splitn` of cache keys.
