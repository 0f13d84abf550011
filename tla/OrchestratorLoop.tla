-------------------------- MODULE OrchestratorLoop --------------------------
(***************************************************************************)
(* The orchestrator of one run: the loop of cairn-orchestrator             *)
(* (loop_runner.rs), its execute phase (execute_impl.rs), the result cache *)
(* that makes tool calls idempotent (startup.rs) and the HTTP request that *)
(* drives it (handlers/runs.rs), on top of the approval ledger that        *)
(* ToolCallApproval implements.                                            *)
(*                                                                         *)
(* A request runs the loop until it completes, fails or has to wait; the   *)
(* operator answers in between, and the next request first drains what was *)
(* approved.  An action is one await of the code; the tool calls of a turn *)
(* run concurrently.                                                       *)
(***************************************************************************)
EXTENDS Naturals, Sequences, FiniteSets

CONSTANTS
  Requests,      \* slots for POST /v1/runs/:id/orchestrate
  Args, NoArgs,  \* tool arguments; NoArgs is Option::None
  Plans,         \* what DECIDE may answer: sequences of proposals
  MaxIterations, \* LoopConfig::max_iterations
  Bash,          \* TRUE if the tool gets its working_dir injected
  Env,           \* what the environment does, see below
  MaxFaults      \* bound on crashes and store failures

(***************************************************************************)
(* Env is a subset of                                                      *)
(*   "overlap"  a request may start while another one runs                 *)
(*   "allow"    a session rule may approve a proposal at once              *)
(*   "override" the operator may approve with other arguments              *)
(*   "fail"     the store may refuse an append                             *)
(*   "crash"    the process may die and be restarted                       *)
(***************************************************************************)
Kinds == {"tool", "complete", "spawn", "escalate", "notify", "memory"}

Proposals == [kind : Kinds, args : Args, gated : BOOLEAN]

MaxIndex == 2       \* proposals of one turn

ASSUME LoopAssumption ==
  /\ NoArgs \notin Args
  /\ Plans \subseteq Seq(Proposals)
  /\ \A p \in Plans : Len(p) \in 1..MaxIndex
  /\ MaxIterations \in Nat \ {0}
  /\ Bash \in BOOLEAN
  /\ Env \subseteq {"overlap", "allow", "override", "fail", "crash"}
  /\ MaxFaults \in Nat

\* ToolCallId: a hash of step, position and normalised arguments.  dir says
\* that working_dir was injected into the arguments before hashing.
Ids == [step : 0..(MaxIterations - 1), index : 1..MaxIndex, args : Args,
        dir : BOOLEAN]

\* The ids under which a plan can propose a gated call.
Calls ==
  {c \in Ids : ~c.dir /\ \E p \in Plans :
     /\ c.index \in DOMAIN p
     /\ p[c.index].kind = "tool" /\ p[c.index].gated /\ p[c.index].args = c.args}

NoId == [step |-> 0, index |-> 0, args |-> NoArgs, dir |-> FALSE]

VARIABLES
  ledger,     \* the tool_call_approvals projection, see ApprovalLedger
  delivered,  \* history: the calls whose tool was run under their approval
  results,    \* ToolCallResultCache: ids with a cached result
  completed,  \* ids of the ToolInvocationCompleted events in the log
  runDone,    \* the run is completed
  req,        \* req[r]: the loop of request r
  recorded,   \* history: the gated calls whose success was recorded
  faults      \* crashes and failures so far

vars == <<ledger, delivered, results, completed, runDone, req, recorded,
          faults>>

Ledger == INSTANCE ApprovalLedger

TaskPCs == {"submit", "answer", "retrieve", "start", "lookup", "run", "record",
            "insert", "done", "failed", "awaiting", "error"}

\* One dispatch: of an approved call (via "drain") or of a proposal of this
\* turn (via "turn").  call is NoId for a call that needs no approval.
TaskSet == [pc : TaskPCs, via : {"drain", "turn"}, call : Calls \cup {NoId},
            id : Ids, args : Args]

ReqPCs == {"idle", "list", "drain", "drained", "decide", "tools", "control"}

IdleReq == [pc |-> "idle", iter |-> 0, drained |-> {}, queue |-> {},
            plan |-> <<>>, tasks |-> <<>>, next |-> 1]

Init ==
  /\ Ledger!LedgerInit
  /\ results = {} /\ completed = {}
  /\ runDone = FALSE
  /\ req = [r \in Requests |-> IdleReq]
  /\ recorded = {}
  /\ faults = 0

-----------------------------------------------------------------------------
(* Helpers                                                                 *)

LedgerUnchanged == UNCHANGED <<ledger, delivered>>

\* derive: the id of a call at a position of the current turn.
\* tool_args_with_working_dir changes the arguments that are hashed.
Derive(step, index, args, dir) ==
  [step |-> step, index |-> index, args |-> args, dir |-> dir]

\* What an approved row says is to be run.
ApprovedArgs(c) ==
  IF ledger[c].override # NoArgs THEN ledger[c].override ELSE c.args

Goto(r, pc) == req' = [req EXCEPT ![r].pc = pc]

\* Fault: the drain ledger outlives the invocation.
EndKeepsDrained(r) ==
  req' = [req EXCEPT ![r] = [IdleReq EXCEPT !.drained = req[r].drained]]

End(r) == req' = [req EXCEPT ![r] = IdleReq]

SetTask(r, i, pc) == req' = [req EXCEPT ![r].tasks[i].pc = pc]

Active(r) == req[r].pc # "idle"

\* The store refuses an append or a read.
Refused == "fail" \in Env /\ faults < MaxFaults /\ faults' = faults + 1

\* A store error: the task ends with it.
StoreFails(r, i) == Refused /\ SetTask(r, i, "error")

Finished == {"done", "failed", "awaiting", "error"}

AllFinished(r) == \A i \in DOMAIN req[r].tasks : req[r].tasks[i].pc \in Finished

SomeTask(r, pc) == \E i \in DOMAIN req[r].tasks : req[r].tasks[i].pc = pc

-----------------------------------------------------------------------------
(* The request and the drains                                              *)

\* orchestrate_run_handler: a context with iteration 0 and an empty drain
\* ledger.  ensure_active refuses a run that is over.
Orchestrate(r) ==
  /\ ~Active(r) /\ ~runDone
  /\ (\E q \in Requests : Active(q)) => "overlap" \in Env
  /\ Goto(r, "list")
  /\ LedgerUnchanged /\ UNCHANGED <<results, completed, runDone, recorded, faults>>

\* Fault: rows that wait for the operator are drained too.
ListUnrejected(r) ==
  /\ req[r].pc = "list"
  /\ req' = [req EXCEPT
       ![r].pc = "drain",
       ![r].queue = {c \in Calls : ledger[c].state \in {"pending", "approved"}}
                      \ req[r].drained]
  /\ LedgerUnchanged /\ UNCHANGED <<results, completed, runDone, recorded, faults>>

\* drain_approved_pending: the approved rows of the run that this invocation
\* has not drained yet, its own auto-approvals included.
ListApproved(r) ==
  /\ req[r].pc = "list"
  /\ req' = [req EXCEPT
       ![r].pc = "drain",
       ![r].queue = {c \in Calls : ledger[c].state = "approved"} \ req[r].drained]
  /\ LedgerUnchanged /\ UNCHANGED <<results, completed, runDone, recorded, faults>>

\* Fault: the proposed arguments are run, not the approved ones.
ProposedTask(c) == [pc |-> "lookup", via |-> "drain", call |-> c, id |-> c,
                    args |-> c.args]

ApprovedTask(c) == [pc |-> "lookup", via |-> "drain", call |-> c, id |-> c,
                    args |-> ApprovedArgs(c)]

\* The call is noted as drained before it is dispatched.
DrainNext(r) ==
  /\ req[r].pc = "drain" /\ req[r].tasks = <<>>
  /\ \E c \in req[r].queue :
       req' = [req EXCEPT ![r].queue = @ \ {c}, ![r].drained = @ \cup {c},
                          ![r].tasks = <<ApprovedTask(c)>>]
  /\ LedgerUnchanged /\ UNCHANGED <<results, completed, runDone, recorded, faults>>

\* A store error of a drained call ends the whole request.
DrainReturned(r) ==
  /\ req[r].pc = "drain" /\ req[r].tasks # <<>> /\ AllFinished(r)
  /\ IF SomeTask(r, "error") THEN End(r)
     ELSE req' = [req EXCEPT ![r].tasks = <<>>]
  /\ LedgerUnchanged /\ UNCHANGED <<results, completed, runDone, recorded, faults>>

\* drain_rejected_pending: rejections are told to the model, not executed.
DrainRejected(r) ==
  /\ req[r].pc = "drain" /\ req[r].tasks = <<>> /\ req[r].queue = {}
  /\ req' = [req EXCEPT
       ![r].pc = "decide",
       ![r].drained = @ \cup {c \in Calls : ledger[c].state = "rejected"}]
  /\ LedgerUnchanged /\ UNCHANGED <<results, completed, runDone, recorded, faults>>

\* The list of approved or of rejected rows cannot be read: the request ends.
ListFails(r) ==
  /\ \/ req[r].pc = "list"
     \/ req[r].pc = "drain" /\ req[r].tasks = <<>> /\ req[r].queue = {}
  /\ Refused /\ End(r)
  /\ LedgerUnchanged /\ UNCHANGED <<results, completed, runDone, recorded>>

\* Deadline, lease, GATHER or DECIDE error, fatal telemetry error, plan
\* artifact: the loop ends before any tool of this turn is dispatched.
GiveUp(r) ==
  /\ req[r].pc = "decide"
  /\ End(r)
  /\ LedgerUnchanged /\ UNCHANGED <<results, completed, runDone, recorded, faults>>

-----------------------------------------------------------------------------
(* DECIDE, and EXECUTE phase 1: the tool calls of the turn                 *)

\* Tool calls behind a proposal that ends the turn are not dispatched.
Terminal(p, k) == p[k].kind \in {"complete", "spawn", "escalate"}

Dispatched(p) ==
  {k \in DOMAIN p : p[k].kind = "tool" /\ \A j \in 1..k : ~Terminal(p, j)}

TurnTask(r, p, k) ==
  LET c == Derive(req[r].iter, k, p[k].args, FALSE) IN
  [pc |-> IF p[k].gated THEN "submit" ELSE "start", via |-> "turn",
   call |-> IF p[k].gated THEN c ELSE NoId,
   id |-> [c EXCEPT !.dir = Bash], args |-> p[k].args]

Decide(r) ==
  /\ req[r].pc = "decide"
  /\ \E p \in Plans :
       req' = [req EXCEPT ![r].pc = "tools", ![r].plan = p,
                          ![r].tasks = [k \in Dispatched(p) |-> TurnTask(r, p, k)]]
  /\ LedgerUnchanged /\ UNCHANGED <<results, completed, runDone, recorded, faults>>

\* run_with_approval_gate: submit_proposal.  An approved call is not proposed
\* again.
Submit(r, i) ==
  LET c == req[r].tasks[i].call IN
  /\ req[r].tasks[i].pc = "submit"
  /\ \/ /\ ledger[c].state = "approved"
        /\ SetTask(r, i, "retrieve") /\ LedgerUnchanged /\ UNCHANGED faults
     \/ /\ Ledger!Propose(c)
        /\ SetTask(r, i, "answer") /\ UNCHANGED faults
     \/ StoreFails(r, i) /\ LedgerUnchanged
  /\ UNCHANGED <<results, completed, runDone, recorded>>

\* A session rule approves the proposal with a second append; without one the
\* answer is PendingOperator and the turn will wait.
Answer(r, i) ==
  LET c == req[r].tasks[i].call IN
  /\ req[r].tasks[i].pc = "answer"
  /\ \/ /\ "allow" \in Env
        /\ Ledger!Resolve(c, "approved", NoArgs)
        /\ SetTask(r, i, "retrieve") /\ UNCHANGED faults
     \/ "allow" \in Env /\ StoreFails(r, i) /\ LedgerUnchanged
     \/ SetTask(r, i, "awaiting") /\ LedgerUnchanged /\ UNCHANGED faults
  /\ UNCHANGED <<results, completed, runDone, recorded>>

\* AutoApproved: retrieve_approved_proposal gives the arguments, and the call
\* goes on inline under an id derived from them.
Retrieve(r, i) ==
  LET c == req[r].tasks[i].call IN
  /\ req[r].tasks[i].pc = "retrieve"
  /\ \/ /\ req' = [req EXCEPT ![r].tasks[i] =
             [@ EXCEPT !.pc = "start", !.args = ApprovedArgs(c),
                       !.id = Derive(c.step, c.index, ApprovedArgs(c), Bash)]]
        /\ UNCHANGED faults
     \/ StoreFails(r, i)
  /\ LedgerUnchanged /\ UNCHANGED <<results, completed, runDone, recorded>>

\* record_start, then for a turn's call the decision service, which may deny
\* it; its errors are ignored.
StartTask(r, i) ==
  LET t == req[r].tasks[i] IN
  /\ t.pc = "start"
  /\ \/ SetTask(r, i, IF t.via = "turn" THEN "lookup" ELSE "run") /\ UNCHANGED faults
     \/ t.via = "turn" /\ SetTask(r, i, "failed") /\ UNCHANGED faults
     \/ StoreFails(r, i)
  /\ LedgerUnchanged /\ UNCHANGED <<results, completed, runDone, recorded>>

\* The result cache: a hit answers without running the tool; in a turn the hit
\* is recorded as a completion of its own.
Lookup(r, i) ==
  LET t == req[r].tasks[i] IN
  /\ t.pc = "lookup"
  /\ \/ /\ t.id \notin results
        /\ SetTask(r, i, IF t.via = "turn" THEN "run" ELSE "start")
        /\ UNCHANGED <<completed, faults>>
     \/ /\ t.id \in results
        /\ SetTask(r, i, "done")
        /\ completed' = IF t.via = "turn" THEN completed \cup {t.id} ELSE completed
        /\ UNCHANGED faults
     \/ /\ t.id \in results /\ t.via = "turn"
        /\ StoreFails(r, i) /\ UNCHANGED completed
  /\ LedgerUnchanged /\ UNCHANGED <<results, runDone, recorded>>

\* The tool runs.  A tool error is recorded (an append that may be refused) and
\* is the call's result; nothing is cached for it.
Run(r, i) ==
  LET t == req[r].tasks[i]  c == t.call IN
  /\ t.pc = "run"
  /\ delivered' = IF c = NoId THEN delivered ELSE delivered \cup {c}
  /\ \/ \E pc \in {"record", "failed"} : SetTask(r, i, pc) /\ UNCHANGED faults
     \/ StoreFails(r, i)
  /\ UNCHANGED <<ledger, results, completed, runDone, recorded>>

\* record_completed: the completion event carries the id of the call.
Record(r, i) ==
  LET t == req[r].tasks[i] IN
  /\ t.pc = "record"
  /\ \/ /\ completed' = completed \cup {t.id}
        /\ recorded' = recorded \cup ({t.call} \ {NoId})
        /\ SetTask(r, i, "insert") /\ UNCHANGED faults
     \/ StoreFails(r, i) /\ UNCHANGED <<completed, recorded>>
  /\ LedgerUnchanged /\ UNCHANGED <<results, runDone>>

\* The cache is filled after the append; in a turn every n-th call then saves a
\* checkpoint, whose error is the call's error.
Insert(r, i) ==
  LET t == req[r].tasks[i] IN
  /\ t.pc = "insert"
  /\ results' = results \cup {t.id}
  /\ \/ SetTask(r, i, "done") /\ UNCHANGED faults
     \/ t.via = "turn" /\ StoreFails(r, i)
  /\ LedgerUnchanged /\ UNCHANGED <<completed, runDone, recorded>>

\* join_all: the turn goes on when every call of it is finished.  An error
\* ends the request; a call that waits for the operator ends it too.
ToolsReturned(r) ==
  /\ req[r].pc = "tools" /\ AllFinished(r)
  /\ IF SomeTask(r, "error") \/ SomeTask(r, "awaiting") THEN End(r)
     ELSE req' = [req EXCEPT ![r].pc = "control", ![r].tasks = <<>>]
  /\ LedgerUnchanged /\ UNCHANGED <<results, completed, runDone, recorded, faults>>

-----------------------------------------------------------------------------
(* EXECUTE phase 2 and the signal it gives                                 *)

\* Checkpoints are best effort.  iteration + 1, up to max_iterations.
NextTurn(r) ==
  req' = [req EXCEPT
    ![r] = IF req[r].iter + 1 = MaxIterations THEN IdleReq
           ELSE [IdleReq EXCEPT !.pc = "list", !.iter = req[r].iter + 1,
                                !.drained = req[r].drained]]

\* The other proposals, in order, until one ends the turn.  run_service.complete
\* may be refused, a notification needs a task and always fails, and both
\* failures are terminal.
Control(r) ==
  LET k == req[r].next  p == req[r].plan IN
  /\ req[r].pc = "control"
  /\ \/ /\ k > Len(p)
        /\ NextTurn(r) /\ UNCHANGED runDone
     \/ /\ k <= Len(p) /\ p[k].kind \in {"tool", "memory"}
        /\ req' = [req EXCEPT ![r].next = k + 1] /\ UNCHANGED runDone
     \/ /\ k <= Len(p) /\ p[k].kind = "complete"
        /\ runDone' \in {runDone, TRUE} /\ End(r)
     \/ /\ k <= Len(p) /\ p[k].kind \in {"spawn", "escalate", "notify"}
        /\ End(r) /\ UNCHANGED runDone
  /\ LedgerUnchanged /\ UNCHANGED <<results, completed, recorded, faults>>

-----------------------------------------------------------------------------
(* The operator, and restarts                                              *)

OperatorApproves(c) ==
  /\ \E a \in IF "override" \in Env THEN Args \cup {NoArgs} ELSE {NoArgs} :
       Ledger!Resolve(c, "approved", a)
  /\ UNCHANGED <<results, completed, runDone, req, recorded, faults>>

OperatorRejects(c) ==
  /\ Ledger!Resolve(c, "rejected", NoArgs)
  /\ UNCHANGED <<results, completed, runDone, req, recorded, faults>>

\* Fault: the cache starts empty.
ReplayNothing == {}

\* replay_tool_result_cache: every completion with an id and a result.
ReplayToolResultCache == completed

\* Requests are served only after the replay.
Restart ==
  /\ "crash" \in Env /\ faults < MaxFaults
  /\ faults' = faults + 1
  /\ req' = [r \in Requests |-> IdleReq]
  /\ results' = ReplayToolResultCache
  /\ LedgerUnchanged /\ UNCHANGED <<completed, runDone, recorded>>

TaskStep(r, i) ==
  \/ Submit(r, i) \/ Answer(r, i) \/ Retrieve(r, i) \/ StartTask(r, i)
  \/ Lookup(r, i) \/ Run(r, i) \/ Record(r, i) \/ Insert(r, i)

LoopStep(r) ==
  \/ ListApproved(r) \/ ListFails(r) \/ DrainNext(r) \/ DrainReturned(r)
  \/ DrainRejected(r) \/ GiveUp(r) \/ Decide(r) \/ ToolsReturned(r) \/ Control(r)
  \/ \E i \in DOMAIN req[r].tasks : TaskStep(r, i)

Next ==
  \/ \E r \in Requests : Orchestrate(r) \/ LoopStep(r)
  \/ \E c \in Calls : OperatorApproves(c) \/ OperatorRejects(c)
  \/ Restart

Spec == Init /\ [][Next]_vars

\* tokio schedules a request, and an operator who answered a call drives the
\* run again.
FairSpec ==
  /\ Spec
  /\ \A r \in Requests : WF_vars(LoopStep(r))
  /\ WF_vars(\E r \in Requests : Orchestrate(r))

-----------------------------------------------------------------------------
(* Properties                                                              *)

\* The loop's locals, the projection and the caches keep their Rust types: in
\* particular a dispatched task always has arguments to run.
TypeOK ==
  /\ ledger \in [Calls -> Ledger!LedgerSet]
  /\ delivered \subseteq Calls
  /\ results \subseteq Ids /\ completed \subseteq Ids
  /\ runDone \in BOOLEAN
  /\ \A r \in Requests :
       /\ req[r].pc \in ReqPCs /\ req[r].iter < MaxIterations
       /\ req[r].drained \subseteq Calls /\ req[r].queue \subseteq Calls
       /\ \A i \in DOMAIN req[r].tasks : req[r].tasks[i] \in TaskSet
  /\ recorded \subseteq Calls
  /\ faults \in 0..MaxFaults

\* The loop implements the approval ledger with its tool executions as the
\* deliveries: neither the drain nor the inline path runs a gated tool whose
\* call is not approved at that moment, and no submission of the loop disturbs
\* an approval.
ImplementsLedger == Ledger!LedgerSpec

\* The tasks that are about to run their tool.
Running ==
  {req[x[1]].tasks[x[2]] : x \in
     {y \in Requests \X (1..MaxIndex) :
        y[2] \in DOMAIN req[y[1]].tasks /\ req[y[1]].tasks[y[2]].pc = "run"}}

\* A gated tool is run with the arguments its approver settled on (override or
\* original), on both dispatch paths.
RunsApprovedArgs ==
  \A t \in Running : t.call # NoId => t.args = ApprovedArgs(t.call)

\* A call id whose completion is in the event log is not run again: not by a
\* later turn that derives the same id, a later request or after a restart that
\* lost the cache.
RecordedIsFinal == \A t \in Running : t.id \notin completed

\* A call that was approved is eventually run or answered from the cache (or
\* the run completes first): the drain at the head of every turn reaches it
\* whatever the model decides, the store refuses or the process loses.
ApprovedIsServed ==
  \A c \in Calls :
    ledger[c].state = "approved" ~> (c \in delivered \cup completed \/ runDone)

(* What a comment says and the code does not keep in every case.           *)

\* An approved call that is driven again, in a later iteration or request,
\* hits the result cache instead of running the tool again.
ApprovedRunsOnce == \A t \in Running : t.call \notin recorded
=============================================================================
