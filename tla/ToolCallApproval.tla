-------------------------- MODULE ToolCallApproval --------------------------
(***************************************************************************)
(* The tool-call approval service of cairn-runtime                         *)
(* (services/tool_call_approval_impl.rs), with the event store it writes:  *)
(* the tool_call_approvals projection in memory and the durable log behind *)
(* it, which InMemoryStore::append writes one after the other.             *)
(*                                                                         *)
(* The service is shared by tokio tasks (the Threads): orchestrators that  *)
(* submit a proposal, wait for the operator and retrieve the approved      *)
(* arguments, and HTTP handlers through which operators approve, reject    *)
(* and amend.  An action is one critical section of the service's mutex or *)
(* one await on the store; everything else may happen in between.  An      *)
(* append is two actions: the projection in memory takes the event before  *)
(* the durable log is asked, and keeps it when the durable log refuses.    *)
(***************************************************************************)
EXTENDS Naturals, Sequences, FiniteSets

CONSTANTS
  Calls, Sessions, Tools,   \* tool call ids, sessions, tool names
  Args, NoArgs,             \* argument payloads; NoArgs is Option::None
  Paths,                    \* path policies (ExactPath, ProjectScopedPath)
  Covers,                   \* the payloads whose path a policy covers
  SessionOf, ToolOf,        \* the immutable part of the proposal of a call
  OrigArgs,
  Threads, NoThread,
  Ops,                      \* <<c, op>>: the entry points called for a call
  Env,                      \* what else the environment does, see below
  MaxOps                    \* bound on the number of operations started

(***************************************************************************)
(* Env is a subset of                                                      *)
(*   "overlap"  another operation on a call may run while it is submitted  *)
(*   "resubmit" a rejected or amended call may be submitted again          *)
(*   "fail"     a read of the store may fail, and so may the durable write *)
(*              of a decision; the durable write of a proposal fails with  *)
(*   "propose_fail", that of an amendment with                             *)
(*   "amend_fail"                                                          *)
(*   "unsure"   a durable write that is reported as failed may have been   *)
(*              committed: its answer was lost                             *)
(*   "crash"    the process may die: memory and tasks vanish, the durable  *)
(*              log stays and the projection is rebuilt from it            *)
(***************************************************************************)
OpNames == {"submit", "approve", "reject", "amend", "await", "retrieve"}

Once  == "once"
Exact == "exact"
Scopes == {Once, Exact} \cup Paths
MaybeArgs == Args \cup {NoArgs}

ASSUME ProposalAssumption ==
  /\ Calls # {}
  /\ SessionOf \in [Calls -> Sessions]
  /\ ToolOf \in [Calls -> Tools]
  /\ OrigArgs \in [Calls -> Args]
  /\ Covers \in [Paths -> SUBSET Args]
  /\ NoArgs \notin Args
  /\ Once \notin Paths /\ Exact \notin Paths

ASSUME EnvAssumption ==
  /\ NoThread \notin Threads
  /\ Ops \subseteq Calls \X OpNames
  /\ Env \subseteq {"overlap", "resubmit", "fail", "propose_fail",
                    "amend_fail", "unsure", "crash"}
  /\ MaxOps \in Nat

VARIABLES
  log,       \* the durable event log, a sequence of approval events
  kept,      \* kept[c]: the record of call c a replay of log would build
  row,       \* row[c]: the projection's record of call c, in memory
  cache,     \* Inner.proposals
  pending,   \* Inner.pending: whose oneshot sender is parked for a call
  registry,  \* Inner.allow_registry: the allow rules of a session
  th,        \* th[t]: the operation task t is executing and its locals
  granted,   \* history: the arguments handed to an executor, and how
  timedOut,  \* history: calls whose waiter was told Timeout
  ops        \* number of operations started

vars == <<log, kept, row, cache, pending, registry, th, granted, timedOut, ops>>

ReasonSet == {"none", "operator", "operator_timeout"}

\* ProposalEntry; "absent" is a call the map has no entry for.
EntrySet ==
  [state    : {"absent", "pending", "amended", "approved", "rejected"},
   amended  : MaybeArgs,
   approved : MaybeArgs,
   reason   : ReasonSet]

NoEntry == [state |-> "absent", amended |-> NoArgs, approved |-> NoArgs,
            reason |-> "none"]

FreshEntry == [NoEntry EXCEPT !.state = "pending"]

RowSet == {e \in EntrySet : e.state # "amended"}

RuleSet == [tool : Tools, args : Args, policy : Scopes \ {Once}]

DecisionSet == [kind : {"none", "approved", "rejected"}, args : MaybeArgs]

NoDecision == [kind |-> "none", args |-> NoArgs]

\* The eff field of an approval is history: the arguments the approver
\* computed under the lock.  The persisted event does not carry them.
EventSet ==
  [type  : {"proposed", "amended", "approved", "rejected"},
   call  : Calls,
   by    : {"agent", "operator", "session_allow", "operator_timeout"},
   scope : Scopes,
   args  : MaybeArgs,
   eff   : MaybeArgs]

PCs == {"idle", "s_cached", "s_row", "s_propose", "s_proposing", "s_insert",
        "s_match", "s_auto", "s_approving", "s_mark", "load", "fetch", "fill",
        "claim", "append", "saving", "revert", "rule", "send", "register",
        "waiting", "elapsed", "r_cached", "r_row"}

ThreadSet ==
  [op : OpNames \cup {"none"}, pc : PCs, call : Calls, args : MaybeArgs,
   scope : Scopes, prev : EntrySet, eff : MaybeArgs,
   sender : Threads \cup {NoThread}, inbox : DecisionSet]

Idle == [op |-> "none", pc |-> "idle", call |-> CHOOSE c \in Calls : TRUE,
         args |-> NoArgs, scope |-> Once, prev |-> NoEntry, eff |-> NoArgs,
         sender |-> NoThread, inbox |-> NoDecision]

Init ==
  /\ log = <<>>
  /\ kept = [c \in Calls |-> NoEntry]
  /\ row = [c \in Calls |-> NoEntry]
  /\ cache = [c \in Calls |-> NoEntry]
  /\ pending = [c \in Calls |-> NoThread]
  /\ registry = [s \in Sessions |-> {}]
  /\ th = [t \in Threads |-> Idle]
  /\ granted = {}
  /\ timedOut = {}
  /\ ops = 0

-----------------------------------------------------------------------------
(* Helpers.                                                                *)

Resolved(e) == e.state \in {"approved", "rejected"}

\* Fault: the fallback to the proposed arguments is forgotten.
EffectiveArgsNoFallback(c, e) ==
  IF e.approved # NoArgs THEN e.approved ELSE e.amended

\* effective_args: approved override, else amendment, else the original.
EffectiveArgs(c, e) ==
  IF e.approved # NoArgs THEN e.approved
  ELSE IF e.amended # NoArgs THEN e.amended
  ELSE OrigArgs[c]

\* proposal_matches_rule: a submitted proposal against one allow rule.
ProposalMatchesRule(c, r) ==
  /\ ToolOf[c] = r.tool
  /\ IF r.policy = Exact THEN OrigArgs[c] = r.args
     ELSE OrigArgs[c] \in Covers[r.policy]

\* stored_to_entry: a projection row as a cache entry.
StoredToEntry(r) ==
  IF r.state = "pending" /\ r.amended # NoArgs
  THEN [r EXCEPT !.state = "amended"] ELSE r

IsResolution(e) == e.type \in {"approved", "rejected"}

\* What the projection makes of one event (in_memory.rs apply_projection).
Project(r, e) ==
  IF r.state = "absent" THEN IF e.type = "proposed" THEN FreshEntry ELSE r
  ELSE [state    |-> IF IsResolution(e) THEN e.type ELSE r.state,
        amended  |-> IF e.type = "amended" THEN e.args ELSE r.amended,
        approved |-> IF e.type = "approved" THEN e.args ELSE r.approved,
        reason   |-> IF e.type # "rejected" THEN r.reason
                     ELSE IF e.by = "operator" THEN "operator"
                     ELSE "operator_timeout"]

Event(type, c, by, scope, args, eff) ==
  [type |-> type, call |-> c, by |-> by, scope |-> scope, args |-> args,
   eff |-> eff]

\* InMemoryStore::append, first half: the event and its projection are
\* committed in memory, whatever becomes of the durable write.
AppendInMemory(e) ==
  /\ row' = [row EXCEPT ![e.call] = Project(@, e)]
  /\ UNCHANGED <<log, kept>>

\* Its second half: the durable log takes the event.
Persist(e) ==
  /\ log' = Append(log, e)
  /\ kept' = [kept EXCEPT ![e.call] = Project(@, e)]

\* A write that is reported as failed leaves memory as it is; the durable log
\* may have taken the event all the same.
PersistFails(e) == \/ UNCHANGED <<log, kept>>
                   \/ "unsure" \in Env /\ Persist(e)

At(t, op, pc) == th[t].op = op /\ th[t].pc = pc

Goto(t, pc) == th' = [th EXCEPT ![t].pc = pc]

\* The operation of t ends: its locals are dropped, a sender it still holds
\* with them, and if it was waiting its receiver, so that a later send to it
\* is lost.
Return(t) ==
  th' = [u \in Threads |->
           IF u = t THEN Idle
           ELSE IF th[u].sender = t THEN [th[u] EXCEPT !.sender = NoThread]
           ELSE th[u]]

Grant(c, args, via) ==
  granted' = granted \cup {[call |-> c, args |-> args, via |-> via]}

StoreUnchanged  == UNCHANGED <<log, kept, row>>
MemoryUnchanged == UNCHANGED <<cache, pending, registry>>
HistoryUnchanged == UNCHANGED <<granted, timedOut, ops>>

-----------------------------------------------------------------------------
(* The environment starts an operation on an idle task.                    *)

Submitting(c) == \E u \in Threads : th[u].op = "submit" /\ th[u].call = c
Busy(c) == \E u \in Threads : th[u].op # "none" /\ th[u].call = c

Start(t, op, pc, c, args, scope) ==
  /\ th[t].op = "none"
  /\ <<c, op>> \in Ops
  /\ ops < MaxOps
  /\ ops' = ops + 1
  /\ th' = [th EXCEPT ![t] = [Idle EXCEPT !.op = op, !.pc = pc, !.call = c,
                                          !.args = args, !.scope = scope]]
  /\ StoreUnchanged /\ MemoryUnchanged /\ UNCHANGED <<granted, timedOut>>

StartSubmit(t, c) ==
  /\ Busy(c) => "overlap" \in Env
  /\ row[c].state = "rejected" \/ row[c].amended # NoArgs => "resubmit" \in Env
  /\ Start(t, "submit", "s_cached", c, NoArgs, Once)

StartOther(t, c) ==
  /\ Submitting(c) => "overlap" \in Env
  /\ \/ \E a \in MaybeArgs, s \in Scopes : Start(t, "approve", "load", c, a, s)
     \/ Start(t, "reject", "load", c, NoArgs, Once)
     \/ \E a \in Args : Start(t, "amend", "load", c, a, Once)
     \/ Start(t, "await", "load", c, NoArgs, Once)
     \/ Start(t, "retrieve", "r_cached", c, NoArgs, Once)

-----------------------------------------------------------------------------
(* submit_proposal                                                         *)

\* The shadowing guard: an approved call is not proposed again.
SubmitCheckCache(t) ==
  LET e == cache[th[t].call] IN
  /\ At(t, "submit", "s_cached")
  /\ \/ e.state = "approved" /\ Return(t)
     \/ e.state = "absent" /\ Goto(t, "s_row")
     \/ e.state \notin {"approved", "absent"} /\ Goto(t, "s_propose")
  /\ StoreUnchanged /\ MemoryUnchanged /\ HistoryUnchanged

SubmitCheckRow(t) ==
  /\ At(t, "submit", "s_row")
  /\ IF row[th[t].call].state = "approved" THEN Return(t)
     ELSE Goto(t, "s_propose")
  /\ StoreUnchanged /\ MemoryUnchanged /\ HistoryUnchanged

Proposal(c) == Event("proposed", c, "agent", Once, OrigArgs[c], NoArgs)

AutoApproval(c) == Event("approved", c, "session_allow", Once, NoArgs, NoArgs)

SubmitPropose(t) ==
  /\ At(t, "submit", "s_propose")
  /\ AppendInMemory(Proposal(th[t].call))
  /\ Goto(t, "s_proposing")
  /\ MemoryUnchanged /\ HistoryUnchanged

SubmitProposed(t) ==
  /\ At(t, "submit", "s_proposing")
  /\ Persist(Proposal(th[t].call))
  /\ Goto(t, "s_insert")
  /\ UNCHANGED row /\ MemoryUnchanged /\ HistoryUnchanged

\* HashMap::insert: whatever the cache held for the call is replaced.
SubmitInsert(t) ==
  /\ At(t, "submit", "s_insert")
  /\ cache' = [cache EXCEPT ![th[t].call] = FreshEntry]
  /\ Goto(t, "s_match")
  /\ StoreUnchanged /\ UNCHANGED <<pending, registry>> /\ HistoryUnchanged

\* find_matching_rule; without a rule the answer is PendingOperator.
SubmitMatch(t) ==
  LET c == th[t].call IN
  /\ At(t, "submit", "s_match")
  /\ IF \E r \in registry[SessionOf[c]] : ProposalMatchesRule(c, r)
     THEN Goto(t, "s_auto") ELSE Return(t)
  /\ StoreUnchanged /\ MemoryUnchanged /\ HistoryUnchanged

SubmitAutoApprove(t) ==
  /\ At(t, "submit", "s_auto")
  /\ AppendInMemory(AutoApproval(th[t].call))
  /\ Goto(t, "s_approving")
  /\ MemoryUnchanged /\ HistoryUnchanged

SubmitAutoApproved(t) ==
  /\ At(t, "submit", "s_approving")
  /\ Persist(AutoApproval(th[t].call))
  /\ Goto(t, "s_mark")
  /\ UNCHANGED row /\ MemoryUnchanged /\ HistoryUnchanged

SubmitMarkApproved(t) ==
  LET c == th[t].call IN
  /\ At(t, "submit", "s_mark")
  /\ cache' = IF cache[c].state = "absent" THEN cache
              ELSE [cache EXCEPT ![c].state = "approved"]
  /\ Return(t)
  /\ StoreUnchanged /\ UNCHANGED <<pending, registry>> /\ HistoryUnchanged

\* Any `?` of submit_proposal: the error goes to the caller, the cache stays,
\* and what memory already took of a failed append stays too.
SubmitFails(t) ==
  LET c == th[t].call IN
  /\ \/ At(t, "submit", "s_row") /\ "fail" \in Env /\ UNCHANGED <<log, kept>>
     \/ /\ At(t, "submit", "s_proposing") /\ "propose_fail" \in Env
        /\ PersistFails(Proposal(c))
     \/ /\ At(t, "submit", "s_approving") /\ "fail" \in Env
        /\ PersistFails(AutoApproval(c))
  /\ Return(t)
  /\ UNCHANGED row /\ MemoryUnchanged /\ HistoryUnchanged

-----------------------------------------------------------------------------
(* load_or_fetch, with which approve, reject, amend and await begin, and   *)
(* the fast path await_decision takes on the entry it returns.             *)

\* The entry a task fetched is dropped once the cache has one.
Proceed(t, pc) == th' = [th EXCEPT ![t].pc = pc, ![t].prev = NoEntry]

\* What the caller does with the loaded entry e.
Loaded(t, e) ==
  LET c == th[t].call IN
  IF th[t].op # "await"
  THEN Proceed(t, "claim") /\ UNCHANGED granted
  ELSE \/ /\ e.state = "approved"
          /\ Grant(c, EffectiveArgs(c, e), "fast_path")
          /\ Return(t)
       \/ /\ e.state = "rejected"
          /\ Return(t) /\ UNCHANGED granted
       \/ /\ ~Resolved(e)
          /\ Proceed(t, "register") /\ UNCHANGED granted

LoadCached(t) ==
  LET e == cache[th[t].call] IN
  /\ th[t].pc = "load"
  /\ IF e.state = "absent" THEN Goto(t, "fetch") /\ UNCHANGED granted
     ELSE Loaded(t, e)
  /\ StoreUnchanged /\ MemoryUnchanged /\ UNCHANGED <<timedOut, ops>>

\* The reader answers; no row is NotFound.
LoadFetch(t) ==
  LET r == row[th[t].call] IN
  /\ th[t].pc = "fetch"
  /\ IF r.state = "absent" THEN Return(t)
     ELSE th' = [th EXCEPT ![t].pc = "fill", ![t].prev = StoredToEntry(r)]
  /\ StoreUnchanged /\ MemoryUnchanged /\ HistoryUnchanged

\* entry().or_insert(): an entry that appeared meanwhile wins.
LoadFill(t) ==
  LET c == th[t].call
      e == IF cache[c].state = "absent" THEN th[t].prev ELSE cache[c] IN
  /\ th[t].pc = "fill"
  /\ cache' = [cache EXCEPT ![c] = e]
  /\ Loaded(t, e)
  /\ StoreUnchanged /\ UNCHANGED <<pending, registry, timedOut, ops>>

LoadFails(t) ==
  /\ "fail" \in Env
  /\ th[t].pc \in {"fetch", "r_row"}
  /\ Return(t)
  /\ StoreUnchanged /\ MemoryUnchanged /\ HistoryUnchanged

-----------------------------------------------------------------------------
(* Phase 1 of approve, reject and amend: claim the transition under the    *)
(* mutex.  A call that is already resolved is refused.                     *)

\* The mutex-held part of approve: the override is folded in first, the
\* effective arguments computed from it, the waiter's sender taken.
ApproveClaim(t) ==
  LET c == th[t].call
      e == IF th[t].args = NoArgs THEN cache[c]
           ELSE [cache[c] EXCEPT !.approved = th[t].args] IN
  /\ At(t, "approve", "claim") /\ ~Resolved(cache[c])
  /\ cache' = [cache EXCEPT ![c] = [e EXCEPT !.state = "approved"]]
  /\ th' = [th EXCEPT ![t].pc = "append", ![t].prev = cache[c],
                      ![t].eff = EffectiveArgs(c, e),
                      ![t].sender = pending[c]]
  /\ pending' = [pending EXCEPT ![c] = NoThread]
  /\ StoreUnchanged /\ UNCHANGED registry /\ HistoryUnchanged

RejectClaim(t) ==
  LET c == th[t].call IN
  /\ At(t, "reject", "claim") /\ ~Resolved(cache[c])
  /\ cache' = [cache EXCEPT ![c].state = "rejected", ![c].reason = "operator"]
  /\ th' = [th EXCEPT ![t].pc = "append", ![t].prev = cache[c],
                      ![t].sender = pending[c]]
  /\ pending' = [pending EXCEPT ![c] = NoThread]
  /\ StoreUnchanged /\ UNCHANGED registry /\ HistoryUnchanged

\* The waiter stays parked: the operator still has to resolve the call.
AmendClaim(t) ==
  LET c == th[t].call IN
  /\ At(t, "amend", "claim") /\ ~Resolved(cache[c])
  /\ cache' = [cache EXCEPT ![c].state = "amended", ![c].amended = th[t].args]
  /\ th' = [th EXCEPT ![t].pc = "append", ![t].prev = cache[c]]
  /\ StoreUnchanged /\ UNCHANGED <<pending, registry>> /\ HistoryUnchanged

\* InvalidTransition.
ClaimRefused(t) ==
  /\ th[t].op \in {"approve", "reject", "amend"} /\ th[t].pc = "claim"
  /\ Resolved(cache[th[t].call])
  /\ Return(t)
  /\ StoreUnchanged /\ MemoryUnchanged /\ HistoryUnchanged

-----------------------------------------------------------------------------
(* Phase 2: append the decision, or undo the claim when that fails.  The   *)
(* undoing reaches the cache only: memory's projection keeps the decision. *)

DecisionEvent(t) ==
  [type  |-> IF th[t].op = "approve" THEN "approved"
             ELSE IF th[t].op = "amend" THEN "amended" ELSE "rejected",
   call  |-> th[t].call,
   by    |-> IF th[t].op = "await" THEN "operator_timeout" ELSE "operator",
   scope |-> th[t].scope, args |-> th[t].args, eff |-> th[t].eff]

DecisionAppend(t) ==
  /\ th[t].pc = "append"
  /\ AppendInMemory(DecisionEvent(t))
  /\ Goto(t, "saving")
  /\ MemoryUnchanged /\ HistoryUnchanged

DecisionSaved(t) ==
  /\ th[t].pc = "saving"
  /\ Persist(DecisionEvent(t))
  /\ \/ /\ th[t].op = "amend"
        /\ Return(t) /\ UNCHANGED timedOut
     \/ /\ th[t].op = "await"
        /\ Return(t) /\ timedOut' = timedOut \cup {th[t].call}
     \/ /\ th[t].op \in {"approve", "reject"}
        /\ Goto(t, IF th[t].op = "approve" /\ th[t].scope # Once
                   THEN "rule" ELSE "send")
        /\ UNCHANGED timedOut
  /\ UNCHANGED row /\ MemoryUnchanged /\ UNCHANGED <<granted, ops>>

\* Fault: the error of the append is ignored.
DecisionSaveFailsIgnored(t) ==
  /\ "fail" \in Env
  /\ th[t].op = "approve" /\ th[t].pc = "saving"
  /\ Goto(t, "send")
  /\ StoreUnchanged /\ MemoryUnchanged /\ HistoryUnchanged

DecisionSaveFails(t) ==
  /\ th[t].pc = "saving"
  /\ (IF th[t].op = "amend" THEN "amend_fail" ELSE "fail") \in Env
  /\ PersistFails(DecisionEvent(t))
  /\ Goto(t, "revert")
  /\ UNCHANGED row /\ MemoryUnchanged /\ HistoryUnchanged

\* Fault: the rollback of approve keeps the operator's override.
RevertedKeepsOverride(t, e) ==
  [e EXCEPT !.state = th[t].prev.state, !.reason = th[t].prev.reason]

\* approve, reject and the timeout undo a claim only while the entry still
\* shows it; amend restores what it saw in any case.
MayRevert(t, e) ==
  CASE th[t].op = "approve" -> e.state = "approved"
    [] th[t].op \in {"reject", "await"} -> e.state = "rejected"
    [] th[t].op = "amend" -> e.state # "absent"

\* The entry after the rollback of the claim of t.
Reverted(t, e) ==
  LET p == th[t].prev  op == th[t].op IN
  IF ~MayRevert(t, e) THEN e
  ELSE [state    |-> p.state,
        amended  |-> IF op = "amend" THEN p.amended ELSE e.amended,
        approved |-> IF op = "approve" /\ th[t].args # NoArgs THEN NoArgs
                     ELSE e.approved,
        reason   |-> IF op \in {"reject", "await"} THEN p.reason ELSE e.reason]

DecisionRevert(t) ==
  LET c == th[t].call IN
  /\ th[t].pc = "revert"
  /\ cache' = [cache EXCEPT ![c] = Reverted(t, @)]
  /\ Return(t)
  /\ StoreUnchanged /\ UNCHANGED <<pending, registry>> /\ HistoryUnchanged

-----------------------------------------------------------------------------
(* Phase 3: the session allow rule, then the waiter's oneshot.             *)

\* Fault: the rule is built from the proposed, not the effective arguments.
ApprovePushOriginalArgs(t) ==
  LET c == th[t].call
      r == [tool |-> ToolOf[c], args |-> OrigArgs[c], policy |-> th[t].scope] IN
  /\ At(t, "approve", "rule")
  /\ registry' = [registry EXCEPT ![SessionOf[c]] = @ \cup {r}]
  /\ Goto(t, "send")
  /\ StoreUnchanged /\ UNCHANGED <<cache, pending>> /\ HistoryUnchanged

ApprovePushRule(t) ==
  LET c == th[t].call
      r == [tool |-> ToolOf[c], args |-> th[t].eff, policy |-> th[t].scope] IN
  /\ At(t, "approve", "rule")
  /\ registry' = [registry EXCEPT ![SessionOf[c]] = @ \cup {r}]
  /\ Goto(t, "send")
  /\ StoreUnchanged /\ UNCHANGED <<cache, pending>> /\ HistoryUnchanged

\* tx.send: lost if nobody waited or the receiver is gone.
SendDecision(t) ==
  LET w == th[t].sender
      d == IF th[t].op = "approve"
           THEN [kind |-> "approved", args |-> th[t].eff]
           ELSE [kind |-> "rejected", args |-> NoArgs] IN
  /\ th[t].pc = "send"
  /\ th' = [u \in Threads |-> IF u = t THEN Idle
                              ELSE IF u = w THEN [th[u] EXCEPT !.inbox = d]
                              ELSE th[u]]
  /\ StoreUnchanged /\ MemoryUnchanged /\ HistoryUnchanged

-----------------------------------------------------------------------------
(* await_decision after the fast path                                      *)

\* A second waiter for the same call is refused (Conflict).
AwaitRegister(t) ==
  LET c == th[t].call IN
  /\ At(t, "await", "register")
  /\ IF pending[c] # NoThread
     THEN Return(t) /\ UNCHANGED pending
     ELSE Goto(t, "waiting") /\ pending' = [pending EXCEPT ![c] = t]
  /\ StoreUnchanged /\ UNCHANGED <<cache, registry>> /\ HistoryUnchanged

AwaitDelivered(t) ==
  LET d == th[t].inbox IN
  /\ At(t, "await", "waiting") /\ d # NoDecision
  /\ IF d.kind = "approved" THEN Grant(th[t].call, d.args, "oneshot")
     ELSE UNCHANGED granted
  /\ Return(t)
  /\ StoreUnchanged /\ MemoryUnchanged /\ UNCHANGED <<timedOut, ops>>

\* Nobody holds the sender of t any more: the receiver reports an error.
SenderDropped(t) ==
  /\ pending[th[t].call] # t
  /\ \A u \in Threads : th[u].sender # t

AwaitCanceled(t) ==
  /\ At(t, "await", "waiting") /\ th[t].inbox = NoDecision
  /\ SenderDropped(t)
  /\ Return(t)
  /\ StoreUnchanged /\ MemoryUnchanged /\ HistoryUnchanged

\* Fault: the wait has no timer.
AwaitElapsedNever(t) == FALSE /\ UNCHANGED vars

\* The timer fires on an empty channel; the receiver is dropped.
AwaitElapsed(t) ==
  /\ At(t, "await", "waiting") /\ th[t].inbox = NoDecision
  /\ th' = [u \in Threads |->
              IF u = t THEN [th[u] EXCEPT !.pc = "elapsed"]
              ELSE IF th[u].sender = t THEN [th[u] EXCEPT !.sender = NoThread]
              ELSE th[u]]
  /\ StoreUnchanged /\ MemoryUnchanged /\ HistoryUnchanged

\* Fault: the timeout claims without looking at the state.
TimeoutClaimUnchecked(t) ==
  LET c == th[t].call IN
  /\ At(t, "await", "elapsed")
  /\ pending' = [pending EXCEPT ![c] = NoThread]
  /\ cache' = [cache EXCEPT ![c].state = "rejected",
                            ![c].reason = "operator_timeout"]
  /\ th' = [th EXCEPT ![t].pc = "append", ![t].prev = cache[c]]
  /\ StoreUnchanged /\ UNCHANGED registry /\ HistoryUnchanged

\* handle_timeout, phase 1: claim the rejection unless the call is resolved.
TimeoutClaim(t) ==
  LET c == th[t].call IN
  /\ At(t, "await", "elapsed")
  /\ pending' = [pending EXCEPT ![c] = NoThread]
  /\ IF cache[c].state = "absent" \/ Resolved(cache[c])
     THEN /\ Return(t) /\ UNCHANGED cache
          /\ timedOut' = timedOut \cup {c}
     ELSE /\ cache' = [cache EXCEPT ![c].state = "rejected",
                                    ![c].reason = "operator_timeout"]
          /\ th' = [th EXCEPT ![t].pc = "append", ![t].prev = cache[c]]
          /\ UNCHANGED timedOut
  /\ StoreUnchanged /\ UNCHANGED <<registry, granted, ops>>

-----------------------------------------------------------------------------
(* retrieve_approved_proposal                                              *)

RetrieveCached(t) ==
  LET c == th[t].call  e == cache[c] IN
  /\ At(t, "retrieve", "r_cached")
  /\ \/ e.state = "absent" /\ Goto(t, "r_row") /\ UNCHANGED granted
     \/ e.state = "approved" /\ Return(t)
        /\ Grant(c, EffectiveArgs(c, e), "cache")
     \/ e.state \notin {"absent", "approved"} /\ Return(t) /\ UNCHANGED granted
  /\ StoreUnchanged /\ MemoryUnchanged /\ UNCHANGED <<timedOut, ops>>

RetrieveRow(t) ==
  LET c == th[t].call IN
  /\ At(t, "retrieve", "r_row")
  /\ Return(t)
  /\ IF row[c].state = "approved"
     THEN Grant(c, EffectiveArgs(c, row[c]), "row") ELSE UNCHANGED granted
  /\ StoreUnchanged /\ MemoryUnchanged /\ UNCHANGED <<timedOut, ops>>

-----------------------------------------------------------------------------
\* The process dies and the next one replays the durable log into memory.
Crash ==
  /\ "crash" \in Env
  /\ th # [t \in Threads |-> Idle] \/ cache # [c \in Calls |-> NoEntry]
  /\ row' = kept
  /\ cache' = [c \in Calls |-> NoEntry]
  /\ pending' = [c \in Calls |-> NoThread]
  /\ registry' = [s \in Sessions |-> {}]
  /\ th' = [t \in Threads |-> Idle]
  /\ UNCHANGED <<log, kept>> /\ HistoryUnchanged

\* The steps a task takes by itself once its operation is started.
SubmitStep(t) ==
  \/ SubmitCheckCache(t) \/ SubmitCheckRow(t) \/ SubmitPropose(t)
  \/ SubmitProposed(t) \/ SubmitInsert(t) \/ SubmitMatch(t)
  \/ SubmitAutoApprove(t) \/ SubmitAutoApproved(t) \/ SubmitMarkApproved(t)
  \/ SubmitFails(t)

LoadStep(t) == LoadCached(t) \/ LoadFetch(t) \/ LoadFill(t) \/ LoadFails(t)

DecideStep(t) ==
  \/ ApproveClaim(t) \/ RejectClaim(t) \/ AmendClaim(t) \/ ClaimRefused(t)
  \/ DecisionAppend(t) \/ DecisionSaved(t) \/ DecisionSaveFails(t)
  \/ DecisionRevert(t)
  \/ ApprovePushRule(t) \/ SendDecision(t)

AwaitStep(t) ==
  \/ AwaitRegister(t) \/ AwaitDelivered(t) \/ AwaitCanceled(t)
  \/ AwaitElapsed(t) \/ TimeoutClaim(t)

RetrieveStep(t) == RetrieveCached(t) \/ RetrieveRow(t)

Step(t) ==
  SubmitStep(t) \/ LoadStep(t) \/ DecideStep(t) \/ AwaitStep(t) \/ RetrieveStep(t)

Next ==
  \/ \E t \in Threads, c \in Calls : StartSubmit(t, c) \/ StartOther(t, c)
  \/ \E t \in Threads : Step(t)
  \/ Crash

Spec == Init /\ [][Next]_vars

\* Tasks are scheduled by tokio and the timer of a waiter fires.
FairSpec == Spec /\ \A t \in Threads : WF_vars(Step(t))

-----------------------------------------------------------------------------
(* Properties                                                              *)

\* Every piece of service state keeps its Rust type: in particular the
\* arguments an executor is handed (effective_args) are a payload, never
\* None, and the projection holds no "amended" state.
TypeOK ==
  /\ log \in Seq(EventSet)
  /\ kept \in [Calls -> RowSet]
  /\ row \in [Calls -> RowSet]
  /\ cache \in [Calls -> EntrySet]
  /\ pending \in [Calls -> Threads \cup {NoThread}]
  /\ registry \in [Sessions -> SUBSET RuleSet]
  /\ th \in [Threads -> ThreadSet]
  /\ granted \subseteq [call : Calls, args : Args,
                        via : {"fast_path", "oneshot", "cache", "row"}]
  /\ timedOut \subseteq Calls
  /\ ops \in Nat

ApprovedInLog(c, args) ==
  \E i \in DOMAIN log : /\ log[i].type = "approved" /\ log[i].call = c
                        /\ log[i].by = "operator" /\ log[i].eff = args

\* An executor woken through its oneshot runs exactly the arguments a
\* persisted operator approval was computed for: approve (phases 1 to 3)
\* never fires the channel for a decision the log does not hold, whatever
\* failures, crashes, timeouts and resubmissions happen around it.
DeliveredIsDurable ==
  \A g \in granted : g.via = "oneshot" => ApprovedInLog(g.call, g.args)

\* Event e gives the standing permission under which call c may run.
Sanctions(e, c) ==
  /\ e.type = "approved" /\ e.by = "operator" /\ e.scope # Once
  /\ SessionOf[e.call] = SessionOf[c] /\ ToolOf[e.call] = ToolOf[c]
  /\ IF e.scope = Exact THEN OrigArgs[c] = e.eff
     ELSE OrigArgs[c] \in Covers[e.scope]

\* submit_proposal approves a call by itself only after an operator persisted
\* a session-scope approval in the same session, of the same tool, that
\* covers the proposed arguments: the rule is built from the effective
\* arguments of that approval and becomes visible after its durable write.
\* The same holds of an automatic approval only memory has so far.
AutoApprovalSanctioned ==
  /\ \A i \in DOMAIN log :
       log[i].by = "session_allow" =>
         \E j \in 1..(i - 1) : Sanctions(log[j], log[i].call)
  /\ \A t \in Threads :
       th[t].pc = "s_approving" =>
         \E j \in DOMAIN log : Sanctions(log[j], th[t].call)

\* A call gets at most one resolution event: the claim of approve, reject and
\* handle_timeout under the mutex, its rollback when the append fails, and the
\* reload from the projection after a crash never let a second one through.
ResolvedOnce ==
  \A i, j \in DOMAIN log :
    IsResolution(log[i]) /\ IsResolution(log[j]) /\ log[i].call = log[j].call
      => i = j

\* A proposal of call c that no resolution has answered.
Open(c) ==
  \E i \in DOMAIN log :
    /\ log[i].call = c /\ log[i].type = "proposed"
    /\ \A j \in (i + 1)..Len(log) : log[j].call = c => ~IsResolution(log[j])

\* The service seen as a ledger: the durable log's record of a call, and the
\* waiters the service woke.
Ledger == INSTANCE ApprovalLedger WITH
  ledger <- [c \in Calls |-> [state |-> kept[c].state, open |-> Open(c),
                              override |-> kept[c].approved]],
  delivered <- {g.call : g \in {h \in granted : h.via = "oneshot"}}

\* The service implements the approval ledger in what it makes durable: through
\* all its claims, failed writes, rollbacks, timeouts and reloads, every
\* durable resolution answers a proposal no other one answered, a durable
\* approval is never overwritten, and a waiter is woken with an approval only
\* for a call that would still be approved after a restart.
ImplementsLedger == Ledger!LedgerSpec

Resubmitted(c) ==
  \E i, j \in DOMAIN log :
    i # j /\ log[i].type = "proposed" /\ log[j].type = "proposed"
          /\ log[i].call = c /\ log[j].call = c

\* When no operation on a call is in flight, its cache entry is what a restart
\* would rebuild from the durable log, the amendment aside: a rolled back claim
\* leaves no trace of its state, override or reason, and a committed one is in
\* both places, whatever order writes and lock acquisitions came in.  (A call
\* that was resubmitted is shadowed by its new cache entry.)
CacheIsDurable ==
  \A c \in Calls :
    ~Busy(c) /\ cache[c].state # "absent" /\ ~Resubmitted(c) =>
      [cache[c] EXCEPT !.amended = kept[c].amended] = StoredToEntry(kept[c])

\* Every operation returns, a parked waiter included: it gets a decision, an
\* error because its sender was dropped, or its timeout, so that the task is
\* free again and again.
OperationsReturn == \A t \in Threads : []<>(th[t].op = "none")

(* What comments and docs say and the code does not keep in every case.    *)

\* The cache agrees with the projection in memory once the operations on a
\* call are over, as the rollback of approve, reject and the timeout intends.
CacheAgreesWithRow ==
  \A c \in Calls :
    ~Busy(c) /\ cache[c].state # "absent" /\ ~Resubmitted(c) =>
      [cache[c] EXCEPT !.amended = row[c].amended] = StoredToEntry(row[c])

\* A call the projection in memory shows as approved stays approved while the
\* process lives: nobody can resolve it a second time.
ApprovalIsFinal ==
  [][Crash \/ \A c \in Calls :
                row[c].state = "approved" => row'[c].state = "approved"]_vars

\* await_decision, on timeout, has auto-rejected the call: a waiter is told
\* Timeout only when the log holds a rejection of the call.
TimeoutMeansRejected ==
  \A c \in timedOut :
    \E i \in DOMAIN log : log[i].type = "rejected" /\ log[i].call = c

\* The fast path of await_decision, like retrieve_approved_proposal, answers
\* Approved on the strength of the durable state: once the operations on the
\* call are over, the log holds the approval somebody acted on.
GrantedIsDurable ==
  \A g \in granted : ~Busy(g.call) =>
    \E i \in DOMAIN log : log[i].type = "approved" /\ log[i].call = g.call

\* await_decision on a call the projection holds as rejected resolves at once
\* instead of parking, also after the call was submitted again.
RejectedNeverParks ==
  \A c \in Calls : row[c].state = "rejected" => pending[c] = NoThread

\* The arguments of a call that is not being worked on are, in the cache as in
\* the projection, those of the most recent ToolCallAmended in the log.
CachedArgsAreLatest ==
  \A c \in Calls :
    ~Busy(c) /\ cache[c].state # "absent" =>
      EffectiveArgs(c, cache[c]) = EffectiveArgs(c, row[c])
=============================================================================
