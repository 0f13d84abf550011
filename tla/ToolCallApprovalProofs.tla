----------------------- MODULE ToolCallApprovalProofs -----------------------
(***************************************************************************)
(* Theorems about ToolCallApproval, for every set of calls, sessions,      *)
(* tasks, arguments and policies, every number of operations and every     *)
(* environment (overlapping submissions, failing and unsure writes,        *)
(* crashes).  The second part shows that the service implements            *)
(* ApprovalLedger in its durable log, also when writes of decisions fail;  *)
(* it needs submissions undisturbed, durable writes of proposals and       *)
(* amendments that succeed, and failed writes that did not happen.         *)
(***************************************************************************)
EXTENDS ToolCallApproval, TLAPS

-----------------------------------------------------------------------------
(* The inductive invariant                                                 *)

\* Where a task stands bounds its locals: a session rule is only built by an
\* approval of session scope, from arguments that exist.
LocalsOK ==
  \A t \in Threads :
    /\ th[t].op = "approve"
         /\ th[t].pc \in {"append", "saving", "revert", "rule", "send"}
         => th[t].eff \in Args
    /\ th[t].pc = "rule" => th[t].op = "approve" /\ th[t].scope # Once
    /\ th[t].pc = "send" => th[t].op \in {"approve", "reject"}
    /\ th[t].inbox.kind = "approved" => th[t].inbox.args \in Args

\* A oneshot belongs to one waiter of the right call: its sender is parked in
\* the map or held by one decision, never both, and only a waiter that has
\* registered can have anything in its channel.
Registered(t) ==
  /\ th[t].op = "await"
  /\ th[t].pc \in {"waiting", "elapsed", "append", "saving", "revert"}

ParkedOK ==
  \A c \in Calls : pending[c] \in Threads =>
    /\ th[pending[c]].op = "await" /\ th[pending[c]].call = c
    /\ th[pending[c]].pc \in {"waiting", "elapsed"}
    /\ th[pending[c]].inbox = NoDecision
    /\ \A u \in Threads : th[u].sender # pending[c]

HeldOK ==
  \A u \in Threads : th[u].sender \in Threads =>
    /\ th[u].op \in {"approve", "reject"}
    /\ th[u].pc \in {"append", "saving", "revert", "rule", "send"}
    /\ Registered(th[u].sender)
    /\ th[th[u].sender].call = th[u].call

ChannelOK == \A u \in Threads : th[u].inbox # NoDecision => Registered(u)

WaitOK == ParkedOK /\ HeldOK /\ ChannelOK

\* What the log holds on behalf of decisions that are past their append.
GrantingEvent(e, c, scope, args) ==
  /\ e.type = "approved" /\ e.by = "operator" /\ e.call = c
  /\ e.scope = scope /\ e.eff = args

RuleSource(e, s, r) ==
  /\ e.type = "approved" /\ e.by = "operator" /\ SessionOf[e.call] = s
  /\ ToolOf[e.call] = r.tool /\ e.scope = r.policy /\ e.eff = r.args

SendOK ==
  \A t \in Threads :
    th[t].op = "approve" /\ th[t].pc \in {"rule", "send"} =>
      \E i \in DOMAIN log :
        GrantingEvent(log[i], th[t].call, th[t].scope, th[t].eff)

InboxOK ==
  \A t \in Threads : th[t].inbox.kind = "approved" =>
                       ApprovedInLog(th[t].call, th[t].inbox.args)

RegistryOK ==
  \A s \in Sessions : \A r \in registry[s] :
    \E i \in DOMAIN log : RuleSource(log[i], s, r)

AutoOK ==
  \A t \in Threads : th[t].pc \in {"s_auto", "s_approving"} =>
                       \E i \in DOMAIN log : Sanctions(log[i], th[t].call)

LogSanctioned ==
  \A i \in DOMAIN log :
    log[i].by = "session_allow" =>
      \E j \in 1..(i - 1) : Sanctions(log[j], log[i].call)

IInv == TypeOK /\ LocalsOK /\ WaitOK /\ SendOK /\ InboxOK /\ RegistryOK
        /\ AutoOK /\ DeliveredIsDurable /\ LogSanctioned

-----------------------------------------------------------------------------
(* Types of the building blocks                                            *)

LEMMA IdleType == Idle \in ThreadSet
  BY ProposalAssumption
  DEF Idle, ThreadSet, OpNames, PCs, Scopes, Once, Exact, MaybeArgs, EntrySet,
      NoEntry, ReasonSet, DecisionSet, NoDecision

LEMMA NoEntryType == NoEntry \in RowSet /\ NoEntry \in EntrySet
  BY DEF NoEntry, RowSet, EntrySet, MaybeArgs, ReasonSet

LEMMA FreshEntryType == FreshEntry \in RowSet /\ FreshEntry \in EntrySet
  BY DEF FreshEntry, NoEntry, RowSet, EntrySet, MaybeArgs, ReasonSet

LEMMA RowIsEntry == RowSet \subseteq EntrySet
  BY DEF RowSet

LEMMA RejectedEntryType ==
  ASSUME NEW e \in EntrySet, NEW x \in ReasonSet
  PROVE  [[e EXCEPT !.state = "rejected"] EXCEPT !.reason = x] \in EntrySet
  <1>1. [e EXCEPT !.state = "rejected"] \in EntrySet
    BY DEF EntrySet
  <1> QED BY <1>1 DEF EntrySet

LEMMA EffectiveArgsType ==
  ASSUME NEW c \in Calls, NEW e \in EntrySet
  PROVE  EffectiveArgs(c, e) \in Args
  BY ProposalAssumption DEF EffectiveArgs, EntrySet, MaybeArgs

LEMMA StoredToEntryType ==
  ASSUME NEW r \in RowSet
  PROVE  StoredToEntry(r) \in EntrySet
  BY DEF StoredToEntry, RowSet, EntrySet

LEMMA ProjectType ==
  ASSUME NEW r \in RowSet, NEW e \in EventSet
  PROVE  Project(r, e) \in RowSet
  BY FreshEntryType
  DEF Project, IsResolution, EventSet, RowSet, EntrySet, ReasonSet

LEMMA MemoryType ==
  ASSUME TypeOK, NEW e \in EventSet, AppendInMemory(e)
  PROVE  row' \in [Calls -> RowSet] /\ log' = log /\ kept' = kept
  <1>1. e.call \in Calls
    BY DEF EventSet
  <1>2. Project(row[e.call], e) \in RowSet
    BY <1>1, ProjectType DEF TypeOK
  <1> QED BY <1>1, <1>2 DEF TypeOK, AppendInMemory

LEMMA PersistType ==
  ASSUME TypeOK, NEW e \in EventSet, Persist(e) \/ PersistFails(e)
  PROVE  log' \in Seq(EventSet) /\ kept' \in [Calls -> RowSet]
  <1>1. e.call \in Calls
    BY DEF EventSet
  <1>2. Project(kept[e.call], e) \in RowSet
    BY <1>1, ProjectType DEF TypeOK
  <1>3. CASE Persist(e)
    BY <1>1, <1>2, <1>3 DEF TypeOK, Persist
  <1>4. CASE log' = log /\ kept' = kept
    BY <1>4 DEF TypeOK
  <1> QED BY <1>3, <1>4 DEF PersistFails

LEMMA ProposalType ==
  ASSUME NEW c \in Calls
  PROVE  /\ Proposal(c) \in EventSet /\ Proposal(c).by = "agent"
         /\ AutoApproval(c) \in EventSet /\ AutoApproval(c).call = c
  BY ProposalAssumption
  DEF Proposal, AutoApproval, Event, EventSet, Scopes, MaybeArgs

LEMMA ReturnType ==
  ASSUME TypeOK, NEW t \in Threads, Return(t)
  PROVE  th' \in [Threads -> ThreadSet]
  <1>1. \A u \in Threads : [th[u] EXCEPT !.sender = NoThread] \in ThreadSet
    BY DEF TypeOK, ThreadSet
  <1> QED BY <1>1, IdleType DEF TypeOK, Return

LEMMA GotoType ==
  ASSUME TypeOK, NEW t \in Threads, NEW pc \in PCs, Goto(t, pc)
  PROVE  th' \in [Threads -> ThreadSet]
  BY DEF TypeOK, ThreadSet, Goto

LEMMA RevertedType ==
  ASSUME TypeOK, NEW t \in Threads, NEW e \in EntrySet
  PROVE  Reverted(t, e) \in EntrySet
  BY DEF TypeOK, ThreadSet, Reverted, EntrySet, MaybeArgs

LEMMA DecisionEventType ==
  ASSUME TypeOK, NEW t \in Threads
  PROVE  DecisionEvent(t) \in EventSet
  BY DEF TypeOK, ThreadSet, DecisionEvent, EventSet

LEMMA GrantType ==
  ASSUME TypeOK, NEW c \in Calls, NEW args \in Args,
         NEW via \in {"fast_path", "oneshot", "cache", "row"},
         Grant(c, args, via)
  PROVE  granted' \subseteq [call : Calls, args : Args,
                             via : {"fast_path", "oneshot", "cache", "row"}]
  BY DEF TypeOK, Grant

-----------------------------------------------------------------------------
(* Type correctness, one group of actions at a time                        *)

LEMMA InitType == Init => TypeOK
  BY NoEntryType, IdleType DEF Init, TypeOK

LEMMA StartType ==
  ASSUME TypeOK, NEW t \in Threads, NEW c \in Calls,
         StartSubmit(t, c) \/ StartOther(t, c)
  PROVE  TypeOK'
  <1>1. ASSUME NEW op \in OpNames, NEW pc \in PCs, NEW a \in MaybeArgs,
               NEW s \in Scopes, Start(t, op, pc, c, a, s)
        PROVE  TypeOK'
    <2>1. [Idle EXCEPT !.op = op, !.pc = pc, !.call = c, !.args = a,
                       !.scope = s] \in ThreadSet
      BY IdleType DEF ThreadSet
    <2> QED BY <1>1, <2>1 DEF TypeOK, Start, StoreUnchanged, MemoryUnchanged
  <1>2. Once \in Scopes /\ NoArgs \in MaybeArgs /\ Args \subseteq MaybeArgs
    BY DEF Scopes, MaybeArgs
  <1>3. {"s_cached", "load", "r_cached"} \subseteq PCs
    BY DEF PCs
  <1>4. CASE StartSubmit(t, c)
    BY <1>1, <1>2, <1>3, <1>4 DEF StartSubmit, OpNames
  <1>5. CASE StartOther(t, c)
    BY <1>1, <1>2, <1>3, <1>5 DEF StartOther, OpNames
  <1> QED BY <1>4, <1>5

LEMMA SubmitType ==
  ASSUME TypeOK, NEW t \in Threads, SubmitStep(t)
  PROVE  TypeOK'
  <1> DEFINE c == th[t].call
  <1>0. c \in Calls
    BY DEF TypeOK, ThreadSet
  <1> USE DEF StoreUnchanged, MemoryUnchanged, HistoryUnchanged
  <1>p. {"s_row", "s_propose", "s_proposing", "s_insert", "s_match", "s_auto",
         "s_approving", "s_mark"} \subseteq PCs
    BY DEF PCs
  <1>1. CASE SubmitCheckCache(t)
    BY <1>1, <1>p, ReturnType, GotoType DEF TypeOK, SubmitCheckCache
  <1>2. CASE SubmitCheckRow(t)
    BY <1>2, <1>p, ReturnType, GotoType DEF TypeOK, SubmitCheckRow
  <1>3. CASE SubmitPropose(t)
    BY <1>3, <1>p, <1>0, ProposalType, MemoryType, GotoType
    DEF TypeOK, SubmitPropose
  <1>9. CASE SubmitProposed(t)
    BY <1>9, <1>p, <1>0, ProposalType, PersistType, GotoType
    DEF TypeOK, SubmitProposed
  <1>4. CASE SubmitInsert(t)
    BY <1>4, <1>p, <1>0, FreshEntryType, GotoType DEF TypeOK, SubmitInsert
  <1>5. CASE SubmitMatch(t)
    BY <1>5, <1>p, ReturnType, GotoType DEF TypeOK, SubmitMatch
  <1>6. CASE SubmitAutoApprove(t)
    BY <1>6, <1>p, <1>0, ProposalType, MemoryType, GotoType
    DEF TypeOK, SubmitAutoApprove
  <1>10. CASE SubmitAutoApproved(t)
    BY <1>10, <1>p, <1>0, ProposalType, PersistType, GotoType
    DEF TypeOK, SubmitAutoApproved
  <1>7. CASE SubmitMarkApproved(t)
    <2>1. [cache[c] EXCEPT !.state = "approved"] \in EntrySet
      BY <1>0 DEF TypeOK, EntrySet
    <2> QED
      BY <1>7, <1>0, <2>1, ReturnType DEF TypeOK, SubmitMarkApproved
  <1>8. CASE SubmitFails(t)
    <2>1. log' \in Seq(EventSet) /\ kept' \in [Calls -> RowSet]
      BY <1>8, <1>0, ProposalType, PersistType DEF TypeOK, SubmitFails
    <2> QED BY <1>8, <2>1, ReturnType DEF TypeOK, SubmitFails
  <1> QED
    BY <1>1, <1>2, <1>3, <1>4, <1>5, <1>6, <1>7, <1>8, <1>9, <1>10
    DEF SubmitStep

LEMMA ProceedType ==
  ASSUME TypeOK, NEW t \in Threads, NEW pc \in PCs, Proceed(t, pc)
  PROVE  th' \in [Threads -> ThreadSet]
  <1>1. [[th[t] EXCEPT !.pc = pc] EXCEPT !.prev = NoEntry] \in ThreadSet
    BY NoEntryType DEF TypeOK, ThreadSet
  <1> QED BY <1>1 DEF TypeOK, Proceed

LEMMA LoadedType ==
  ASSUME TypeOK, NEW t \in Threads, NEW e \in EntrySet, Loaded(t, e)
  PROVE  /\ th' \in [Threads -> ThreadSet]
         /\ granted' \subseteq [call : Calls, args : Args,
                                via : {"fast_path", "oneshot", "cache", "row"}]
  <1>0. th[t].call \in Calls
    BY DEF TypeOK, ThreadSet
  <1>1. {"claim", "register"} \subseteq PCs
    BY DEF PCs
  <1>2. EffectiveArgs(th[t].call, e) \in Args
    BY <1>0, EffectiveArgsType
  <1> QED BY <1>0, <1>1, <1>2, ReturnType, ProceedType, GrantType DEF Loaded, TypeOK

LEMMA LoadType ==
  ASSUME TypeOK, NEW t \in Threads, LoadStep(t)
  PROVE  TypeOK'
  <1> DEFINE c == th[t].call
  <1>0. c \in Calls
    BY DEF TypeOK, ThreadSet
  <1>p. {"fetch", "fill"} \subseteq PCs
    BY DEF PCs
  <1> USE DEF StoreUnchanged, MemoryUnchanged, HistoryUnchanged
  <1>1. CASE LoadCached(t)
    <2>1. cache[c] \in EntrySet
      BY <1>0 DEF TypeOK
    <2> QED
      BY <1>1, <1>p, <2>1, LoadedType, GotoType DEF TypeOK, LoadCached
  <1>2. CASE LoadFetch(t)
    <2>1. StoredToEntry(row[c]) \in EntrySet
      BY <1>0, StoredToEntryType DEF TypeOK
    <2>2. [[th[t] EXCEPT !.pc = "fill"] EXCEPT !.prev = StoredToEntry(row[c])]
            \in ThreadSet
      BY <1>p, <2>1 DEF TypeOK, ThreadSet
    <2> QED BY <1>2, <2>2, ReturnType DEF TypeOK, LoadFetch
  <1>3. CASE LoadFill(t)
    <2> DEFINE e == IF cache[c].state = "absent" THEN th[t].prev ELSE cache[c]
    <2>1. e \in EntrySet
      BY <1>0 DEF TypeOK, ThreadSet
    <2>2. Loaded(t, e)
      BY <1>3 DEF LoadFill
    <2> QED BY <1>3, <1>0, <2>1, <2>2, LoadedType DEF TypeOK, LoadFill
  <1>4. CASE LoadFails(t)
    BY <1>4, ReturnType DEF TypeOK, LoadFails
  <1> QED BY <1>1, <1>2, <1>3, <1>4 DEF LoadStep

LEMMA DecideType ==
  ASSUME TypeOK, LocalsOK, NEW t \in Threads, DecideStep(t)
  PROVE  TypeOK'
  <1> DEFINE c == th[t].call
  <1>0. c \in Calls /\ th[t] \in ThreadSet
    BY DEF TypeOK, ThreadSet
  <1>p. {"append", "saving", "revert", "rule", "send"} \subseteq PCs
    BY DEF PCs
  <1> USE DEF StoreUnchanged, MemoryUnchanged, HistoryUnchanged
  <1>1. CASE ApproveClaim(t)
    <2> DEFINE e == IF th[t].args = NoArgs THEN cache[c]
                    ELSE [cache[c] EXCEPT !.approved = th[t].args]
    <2>1. e \in EntrySet
      BY <1>0 DEF TypeOK, ThreadSet, EntrySet
    <2>2. [e EXCEPT !.state = "approved"] \in EntrySet
      BY <2>1 DEF EntrySet
    <2>3. EffectiveArgs(c, e) \in MaybeArgs
      BY <1>0, <2>1, EffectiveArgsType DEF MaybeArgs
    <2>4. [[[[th[t] EXCEPT !.pc = "append"] EXCEPT !.prev = cache[c]]
              EXCEPT !.eff = EffectiveArgs(c, e)] EXCEPT !.sender = pending[c]]
            \in ThreadSet
      BY <1>0, <1>p, <2>3 DEF TypeOK, ThreadSet
    <2> QED BY <1>1, <1>0, <2>2, <2>4 DEF TypeOK, ApproveClaim
  <1>2. CASE RejectClaim(t)
    <2>1. [[cache[c] EXCEPT !.state = "rejected"] EXCEPT !.reason = "operator"]
            \in EntrySet
      BY <1>0, RejectedEntryType DEF TypeOK, ReasonSet
    <2>2. [[[th[t] EXCEPT !.pc = "append"] EXCEPT !.prev = cache[c]]
              EXCEPT !.sender = pending[c]] \in ThreadSet
      BY <1>0, <1>p DEF TypeOK, ThreadSet
    <2> QED BY <1>2, <1>0, <2>1, <2>2 DEF TypeOK, RejectClaim
  <1>3. CASE AmendClaim(t)
    <2>1. [[cache[c] EXCEPT !.state = "amended"] EXCEPT !.amended = th[t].args]
            \in EntrySet
      BY <1>0 DEF TypeOK, ThreadSet, EntrySet
    <2>2. [[th[t] EXCEPT !.pc = "append"] EXCEPT !.prev = cache[c]] \in ThreadSet
      BY <1>0, <1>p DEF TypeOK, ThreadSet
    <2> QED BY <1>3, <1>0, <2>1, <2>2 DEF TypeOK, AmendClaim
  <1>4. CASE ClaimRefused(t)
    BY <1>4, ReturnType DEF TypeOK, ClaimRefused
  <1>5. CASE DecisionAppend(t)
    BY <1>5, <1>0, <1>p, DecisionEventType, MemoryType, GotoType
    DEF TypeOK, DecisionAppend
  <1>10. CASE DecisionSaved(t)
    BY <1>10, <1>0, <1>p, DecisionEventType, PersistType, ReturnType, GotoType
    DEF TypeOK, DecisionSaved
  <1>6. CASE DecisionSaveFails(t)
    BY <1>6, <1>p, DecisionEventType, PersistType, GotoType
    DEF TypeOK, DecisionSaveFails
  <1>7. CASE DecisionRevert(t)
    <2>1. Reverted(t, cache[c]) \in EntrySet
      BY <1>0, RevertedType DEF TypeOK
    <2> QED BY <1>7, <1>0, <2>1, ReturnType DEF TypeOK, DecisionRevert
  <1>8. CASE ApprovePushRule(t)
    <2> DEFINE r == [tool |-> ToolOf[c], args |-> th[t].eff,
                     policy |-> th[t].scope]
    <2>1. r \in RuleSet
      BY <1>0, <1>8, ProposalAssumption
      DEF ApprovePushRule, At, LocalsOK, ThreadSet, RuleSet
    <2> QED BY <1>8, <1>p, <2>1, GotoType DEF TypeOK, ApprovePushRule
  <1>9. CASE SendDecision(t)
    <2> DEFINE d == IF th[t].op = "approve"
                    THEN [kind |-> "approved", args |-> th[t].eff]
                    ELSE [kind |-> "rejected", args |-> NoArgs]
    <2>1. d \in DecisionSet
      BY <1>0 DEF ThreadSet, DecisionSet, MaybeArgs
    <2>2. \A u \in Threads : [th[u] EXCEPT !.inbox = d] \in ThreadSet
      BY <2>1 DEF TypeOK, ThreadSet
    <2> QED BY <1>9, <2>2, IdleType DEF TypeOK, SendDecision
  <1> QED
    BY <1>1, <1>2, <1>3, <1>4, <1>5, <1>6, <1>7, <1>8, <1>9, <1>10
    DEF DecideStep

LEMMA AwaitType ==
  ASSUME TypeOK, LocalsOK, NEW t \in Threads, AwaitStep(t)
  PROVE  TypeOK'
  <1> DEFINE c == th[t].call
  <1>0. c \in Calls /\ th[t] \in ThreadSet
    BY DEF TypeOK, ThreadSet
  <1>p. {"append", "waiting", "elapsed"} \subseteq PCs
    BY DEF PCs
  <1> USE DEF StoreUnchanged, MemoryUnchanged, HistoryUnchanged
  <1>1. CASE AwaitRegister(t)
    BY <1>1, <1>0, <1>p, ReturnType, GotoType DEF TypeOK, AwaitRegister
  <1>2. CASE AwaitDelivered(t)
    <2>1. th[t].inbox.kind = "approved" => th[t].inbox.args \in Args
      BY DEF LocalsOK
    <2> QED
      BY <1>2, <1>0, <2>1, ReturnType, GrantType DEF TypeOK, AwaitDelivered
  <1>3. CASE AwaitCanceled(t)
    BY <1>3, ReturnType DEF TypeOK, AwaitCanceled
  <1>4. CASE AwaitElapsed(t)
    <2>1. \A u \in Threads : [th[u] EXCEPT !.sender = NoThread] \in ThreadSet
      BY DEF TypeOK, ThreadSet
    <2>2. \A u \in Threads : [th[u] EXCEPT !.pc = "elapsed"] \in ThreadSet
      BY <1>p DEF TypeOK, ThreadSet
    <2> QED BY <1>4, <2>1, <2>2 DEF TypeOK, AwaitElapsed
  <1>5. CASE TimeoutClaim(t)
    <2>1. [[cache[c] EXCEPT !.state = "rejected"]
             EXCEPT !.reason = "operator_timeout"] \in EntrySet
      BY <1>0, RejectedEntryType DEF TypeOK, ReasonSet
    <2>2. [[th[t] EXCEPT !.pc = "append"] EXCEPT !.prev = cache[c]] \in ThreadSet
      BY <1>0, <1>p DEF TypeOK, ThreadSet
    <2>3. th' \in [Threads -> ThreadSet]
      BY <1>5, <2>2, ReturnType DEF TypeOK, TimeoutClaim
    <2>4. cache' \in [Calls -> EntrySet]
      BY <1>5, <1>0, <2>1 DEF TypeOK, TimeoutClaim
    <2> QED BY <1>5, <1>0, <2>3, <2>4 DEF TypeOK, TimeoutClaim
  <1> QED BY <1>1, <1>2, <1>3, <1>4, <1>5 DEF AwaitStep

LEMMA RetrieveType ==
  ASSUME TypeOK, NEW t \in Threads, RetrieveStep(t)
  PROVE  TypeOK'
  <1> DEFINE c == th[t].call
  <1>0. c \in Calls
    BY DEF TypeOK, ThreadSet
  <1>1. EffectiveArgs(c, cache[c]) \in Args /\ EffectiveArgs(c, row[c]) \in Args
    BY <1>0, EffectiveArgsType, RowIsEntry DEF TypeOK
  <1>2. "r_row" \in PCs
    BY DEF PCs
  <1> USE DEF StoreUnchanged, MemoryUnchanged, HistoryUnchanged
  <1>3. CASE RetrieveCached(t)
    BY <1>0, <1>1, <1>2, <1>3, ReturnType, GotoType, GrantType
    DEF TypeOK, RetrieveCached
  <1>4. CASE RetrieveRow(t)
    BY <1>0, <1>1, <1>4, ReturnType, GrantType DEF TypeOK, RetrieveRow
  <1> QED BY <1>3, <1>4 DEF RetrieveStep

LEMMA CrashType == TypeOK /\ Crash => TypeOK'
  BY NoEntryType, IdleType
  DEF TypeOK, Crash, HistoryUnchanged

-----------------------------------------------------------------------------
(* The log only grows, so what it witnesses stays witnessed.               *)

LogExtends ==
  /\ DOMAIN log \subseteq DOMAIN log'
  /\ \A i \in DOMAIN log : log'[i] = log[i]

LEMMA PersistExtends ==
  ASSUME TypeOK, NEW e \in EventSet, Persist(e)
  PROVE  /\ LogExtends
         /\ DOMAIN log' = DOMAIN log \cup {Len(log) + 1}
         /\ log'[Len(log) + 1] = e
  BY DEF TypeOK, Persist, LogExtends

LEMMA SameExtends == log' = log => LogExtends
  BY DEF LogExtends

\* The parts of the invariant that only a growing log and unchanged
\* components are needed for.
LEMMA WitnessesStay ==
  ASSUME IInv, LogExtends
  PROVE  /\ \A c \in Calls, a \in Args :
              ApprovedInLog(c, a) => ApprovedInLog(c, a)'
         /\ granted' = granted => DeliveredIsDurable'
         /\ registry' = registry => RegistryOK'
         /\ log' = log => LogSanctioned'
  <1>1. \A c \in Calls, a \in Args : ApprovedInLog(c, a) => ApprovedInLog(c, a)'
    BY DEF LogExtends, ApprovedInLog
  <1>2. granted' = granted => DeliveredIsDurable'
    BY <1>1 DEF IInv, TypeOK, DeliveredIsDurable
  <1>3. registry' = registry => RegistryOK'
    BY DEF LogExtends, IInv, RegistryOK, RuleSource
  <1>4. log' = log => LogSanctioned'
    BY DEF IInv, LogSanctioned
  <1> QED BY <1>1, <1>2, <1>3, <1>4

\* Task t moves on within its operation: the parts that concern what the log
\* holds for it and what its locals may be.
LEMMA MoveOne ==
  ASSUME IInv, LogExtends, NEW t \in Threads, NEW x \in ThreadSet,
         th' = [th EXCEPT ![t] = x],
         x.op = th[t].op, x.call = th[t].call, x.inbox = th[t].inbox,
         x.op = "approve"
           /\ x.pc \in {"append", "saving", "revert", "rule", "send"}
           => x.eff \in Args,
         x.pc = "rule" => x.op = "approve" /\ x.scope # Once,
         x.pc = "send" => x.op \in {"approve", "reject"},
         Registered(t) =>
           x.pc \in {"waiting", "elapsed", "append", "saving", "revert"},
         x.op = "approve" /\ x.pc \in {"rule", "send"} =>
           \E i \in DOMAIN log' : GrantingEvent(log'[i], x.call, x.scope, x.eff),
         x.pc \in {"s_auto", "s_approving"} =>
           \E i \in DOMAIN log : Sanctions(log[i], x.call)
  PROVE  LocalsOK' /\ ChannelOK' /\ SendOK' /\ InboxOK' /\ AutoOK'
  <1>1. th'[t] = x /\ \A u \in Threads : u # t => th'[u] = th[u]
    BY DEF IInv, TypeOK
  <1>2. LocalsOK'
    BY <1>1 DEF IInv, LocalsOK
  <1>3. ChannelOK'
    BY <1>1 DEF IInv, WaitOK, ChannelOK, Registered
  <1>4. SendOK'
    BY <1>1 DEF IInv, SendOK, LogExtends, GrantingEvent
  <1>5. InboxOK'
    BY <1>1 DEF IInv, InboxOK, ApprovedInLog, LogExtends
  <1>6. AutoOK'
    BY <1>1 DEF IInv, AutoOK, LogExtends
  <1> QED BY <1>2, <1>3, <1>4, <1>5, <1>6

\* The same move and the oneshots, when no sender changes hands.
LEMMA MoveOneWait ==
  ASSUME IInv, NEW t \in Threads, NEW x \in ThreadSet,
         th' = [th EXCEPT ![t] = x], pending' = pending,
         x.op = th[t].op, x.call = th[t].call, x.inbox = th[t].inbox,
         x.sender = th[t].sender,
         Registered(t) =>
           x.pc \in {"waiting", "elapsed", "append", "saving", "revert"},
         th[t].op = "await" /\ th[t].pc \in {"waiting", "elapsed"} =>
           x.pc \in {"waiting", "elapsed"},
         th[t].sender \in Threads =>
           x.pc \in {"append", "saving", "revert", "rule", "send"}
  PROVE  ParkedOK' /\ HeldOK'
  <1>1. th'[t] = x /\ \A u \in Threads : u # t => th'[u] = th[u]
    BY DEF IInv, TypeOK
  <1>2. \A u \in Threads : th'[u].sender = th[u].sender
    BY <1>1
  <1>3. ParkedOK'
    BY <1>1, <1>2 DEF IInv, WaitOK, ParkedOK
  <1>4. HeldOK'
    BY <1>1, <1>2 DEF IInv, WaitOK, HeldOK, Registered
  <1> QED BY <1>3, <1>4

\* A jump of an operation that has not claimed or registered anything.
EarlyPCs == PCs \ {"rule", "send", "append", "saving", "revert", "waiting",
        "elapsed"}

LEMMA EarlyGoto ==
  ASSUME IInv, LogExtends, NEW t \in Threads, NEW pc \in EarlyPCs,
         Goto(t, pc), th[t].pc \in EarlyPCs, pending' = pending,
         pc \in {"s_auto", "s_approving"} =>
           \E i \in DOMAIN log : Sanctions(log[i], th[t].call)
  PROVE  LocalsOK' /\ WaitOK' /\ SendOK' /\ InboxOK' /\ AutoOK'
  <1> DEFINE x == [th[t] EXCEPT !.pc = pc]
  <1>1. /\ x \in ThreadSet /\ x.op = th[t].op /\ x.call = th[t].call
        /\ x.inbox = th[t].inbox /\ x.sender = th[t].sender /\ x.pc = pc
    BY DEF IInv, TypeOK, ThreadSet, EarlyPCs
  <1>2. th' = [th EXCEPT ![t] = x]
    BY DEF Goto
  <1>3. ~Registered(t) /\ ~(th[t].sender \in Threads)
    BY DEF IInv, WaitOK, HeldOK, Registered, EarlyPCs
  <1>4. pc \notin {"rule", "send", "append", "saving", "revert", "waiting",
        "elapsed"}
    BY DEF EarlyPCs
  <1> HIDE DEF x
  <1>5. LocalsOK' /\ ChannelOK' /\ SendOK' /\ InboxOK' /\ AutoOK'
    BY <1>1, <1>2, <1>3, <1>4, MoveOne
  <1>6. ParkedOK' /\ HeldOK'
    BY <1>1, <1>2, <1>3, <1>4, MoveOneWait DEF EarlyPCs
  <1> QED BY <1>5, <1>6 DEF WaitOK

LEMMA QuietReturn ==
  ASSUME IInv, TypeOK', LogExtends, NEW t \in Threads, Return(t),
         \/ pending' = pending /\ \A c \in Calls : pending[c] # t
         \/ pending' = [pending EXCEPT ![th[t].call] = NoThread]
  PROVE  LocalsOK' /\ WaitOK' /\ SendOK' /\ InboxOK' /\ AutoOK'
  <1>1. \A u \in Threads : u # t =>
          /\ th'[u].op = th[u].op /\ th'[u].pc = th[u].pc
          /\ th'[u].call = th[u].call /\ th'[u].scope = th[u].scope
          /\ th'[u].eff = th[u].eff /\ th'[u].inbox = th[u].inbox
          /\ th'[u].sender = IF th[u].sender = t THEN NoThread ELSE th[u].sender
    BY DEF Return, IInv, TypeOK, ThreadSet
  <1>2. /\ th'[t].op = "none" /\ th'[t].pc = "idle" /\ th'[t].sender = NoThread
        /\ th'[t].inbox = NoDecision /\ th'[t].inbox.kind = "none"
    BY DEF Return, Idle, NoDecision
  <1>3. \A c \in Calls : pending'[c] # t /\ pending'[c] \in {pending[c], NoThread}
    BY EnvAssumption DEF IInv, TypeOK, WaitOK, ParkedOK, ThreadSet
  <1>4. LocalsOK'
    BY <1>1, <1>2 DEF IInv, LocalsOK
  <1>5. WaitOK'
    <2>1. ParkedOK'
      <3> SUFFICES ASSUME NEW c \in Calls, pending'[c] \in Threads
                   PROVE  /\ th'[pending'[c]].op = "await"
                          /\ th'[pending'[c]].call = c
                          /\ th'[pending'[c]].pc \in {"waiting", "elapsed"}
                          /\ th'[pending'[c]].inbox = NoDecision
                          /\ \A u \in Threads : th'[u].sender # pending'[c]
        BY DEF ParkedOK
      <3>1. pending'[c] = pending[c] /\ pending[c] # t
        BY <1>3, EnvAssumption
      <3> QED
        BY <1>1, <1>2, <3>1, EnvAssumption DEF IInv, WaitOK, ParkedOK
    <2>2. HeldOK'
      <3> SUFFICES ASSUME NEW u \in Threads, th'[u].sender \in Threads
                   PROVE  /\ th'[u].op \in {"approve", "reject"}
                          /\ th'[u].pc \in {"append", "saving", "revert", "rule", "send"}
                          /\ Registered(th[u].sender)'
                          /\ th'[th'[u].sender].call = th'[u].call
        BY DEF HeldOK, Registered
      <3>1. u # t /\ th'[u].sender = th[u].sender /\ th[u].sender # t
        BY <1>1, <1>2, EnvAssumption
      <3> QED BY <1>1, <3>1 DEF IInv, WaitOK, HeldOK, Registered
    <2>3. ChannelOK'
      BY <1>1, <1>2 DEF IInv, WaitOK, ChannelOK, Registered
    <2> QED BY <2>1, <2>2, <2>3 DEF WaitOK
  <1>6. SendOK'
    BY <1>1, <1>2 DEF IInv, SendOK, LogExtends, GrantingEvent
  <1>7. InboxOK'
    BY <1>1, <1>2 DEF IInv, InboxOK, ApprovedInLog, LogExtends
  <1>8. AutoOK'
    BY <1>1, <1>2 DEF IInv, AutoOK, LogExtends
  <1> QED BY <1>4, <1>5, <1>6, <1>7, <1>8

\* What the durable log takes leaves it sanctioned, when an automatic approval
\* it takes is, and the log only grows when a write is reported as failed.
LEMMA PersistSanctioned ==
  ASSUME IInv, NEW e \in EventSet, Persist(e) \/ PersistFails(e),
         e.by = "session_allow" => \E k \in DOMAIN log : Sanctions(log[k], e.call)
  PROVE  LogExtends /\ LogSanctioned'
  <1>1. CASE Persist(e)
    <2>1. /\ LogExtends /\ DOMAIN log' = DOMAIN log \cup {Len(log) + 1}
          /\ log'[Len(log) + 1] = e /\ log \in Seq(EventSet)
      BY <1>1, PersistExtends DEF IInv, TypeOK
    <2>2. ASSUME NEW i \in DOMAIN log', log'[i].by = "session_allow"
          PROVE  \E j \in 1..(i - 1) : Sanctions(log'[j], log'[i].call)
      <3>1. CASE i \in DOMAIN log
        <4>1. PICK j \in 1..(i - 1) : Sanctions(log[j], log[i].call)
          BY <3>1, <2>1, <2>2 DEF IInv, LogSanctioned, LogExtends
        <4>2. j \in DOMAIN log
          BY <3>1, <2>1
        <4> QED BY <3>1, <4>1, <4>2, <2>1 DEF LogExtends
      <3>2. CASE i = Len(log) + 1
        <4>1. PICK k \in DOMAIN log : Sanctions(log[k], e.call)
          BY <3>2, <2>1, <2>2
        <4>2. k \in 1..(i - 1)
          BY <3>2, <2>1
        <4> QED BY <3>2, <4>1, <4>2, <2>1 DEF LogExtends
      <3> QED BY <3>1, <3>2, <2>1
    <2> QED BY <2>1, <2>2 DEF LogSanctioned, Sanctions
  <1>2. CASE log' = log
    BY <1>2, SameExtends DEF IInv, LogSanctioned
  <1> QED BY <1>1, <1>2 DEF PersistFails

-----------------------------------------------------------------------------
(* Every step preserves the invariant                                      *)

LEMMA StartStep ==
  ASSUME IInv, NEW t \in Threads, NEW c \in Calls,
         StartSubmit(t, c) \/ StartOther(t, c)
  PROVE  IInv'
  <1>0. TypeOK'
    BY StartType DEF IInv
  <1>1. PICK op \in OpNames, pc \in {"s_cached", "load", "r_cached"},
             a \in MaybeArgs, s \in Scopes : Start(t, op, pc, c, a, s)
    BY DEF StartSubmit, StartOther, OpNames, MaybeArgs, Scopes
  <1>2. /\ LogExtends /\ log' = log /\ registry' = registry
        /\ granted' = granted /\ pending' = pending
    BY <1>1, SameExtends DEF Start, StoreUnchanged, MemoryUnchanged
  <1>3. /\ th'[t].op = op /\ th'[t].pc = pc /\ th'[t].sender = NoThread
        /\ th'[t].inbox = NoDecision /\ th'[t].inbox.kind = "none"
    BY <1>1 DEF Start, Idle, IInv, TypeOK, NoDecision
  <1>4. th[t].op = "none" /\ \A u \in Threads : u # t => th'[u] = th[u]
    BY <1>1 DEF Start, IInv, TypeOK
  <1>5. LocalsOK' /\ SendOK' /\ AutoOK'
    BY <1>2, <1>3, <1>4 DEF IInv, LocalsOK, SendOK, AutoOK
  <1>6. InboxOK'
    BY <1>2, <1>3, <1>4 DEF IInv, InboxOK, ApprovedInLog
  <1>7. ParkedOK'
    BY <1>2, <1>3, <1>4, EnvAssumption DEF IInv, WaitOK, ParkedOK
  <1>8. HeldOK'
    BY <1>3, <1>4, EnvAssumption DEF IInv, WaitOK, HeldOK, Registered
  <1>9. ChannelOK'
    BY <1>3, <1>4 DEF IInv, WaitOK, ChannelOK, Registered
  <1> QED
    BY <1>0, <1>2, <1>5, <1>6, <1>7, <1>8, <1>9, WitnessesStay
    DEF IInv, WaitOK

LEMMA SubmitStepInv ==
  ASSUME IInv, NEW t \in Threads, SubmitStep(t)
  PROVE  IInv'
  <1> DEFINE c == th[t].call
  <1>0. TypeOK' /\ c \in Calls /\ th[t].pc \in EarlyPCs /\ th[t].op = "submit"
    BY SubmitType
    DEF IInv, TypeOK, ThreadSet, EarlyPCs, PCs, SubmitStep, SubmitCheckCache,
        SubmitCheckRow, SubmitPropose, SubmitProposed, SubmitInsert,
        SubmitMatch, SubmitAutoApprove, SubmitAutoApproved, SubmitMarkApproved,
        SubmitFails, At
  <1>1. \A k \in Calls : pending[k] # t
    BY <1>0 DEF IInv, WaitOK, ParkedOK
  <1>2. pending' = pending /\ registry' = registry /\ granted' = granted
    BY DEF SubmitStep, SubmitCheckCache, SubmitCheckRow, SubmitPropose,
        SubmitProposed, SubmitInsert, SubmitMatch, SubmitAutoApprove,
        SubmitAutoApproved, SubmitMarkApproved, SubmitFails, MemoryUnchanged, HistoryUnchanged
  <1>p. {"s_row", "s_propose", "s_proposing", "s_insert", "s_match", "s_auto",
         "s_approving", "s_mark"} \subseteq EarlyPCs
    BY DEF EarlyPCs, PCs
  <1>s. th[t].pc = "s_approving" => \E k \in DOMAIN log : Sanctions(log[k], c)
    BY DEF IInv, AutoOK
  <1>3. CASE SubmitProposed(t)
    <2>1. LogExtends /\ LogSanctioned'
      BY <1>0, <1>3, ProposalType, PersistSanctioned DEF SubmitProposed
    <2>2. Goto(t, "s_insert")
      BY <1>3 DEF SubmitProposed
    <2> QED
      BY <1>0, <1>2, <1>p, <2>1, <2>2, EarlyGoto, WitnessesStay DEF IInv
  <1>4. CASE SubmitAutoApproved(t)
    <2>1. LogExtends /\ LogSanctioned'
      BY <1>0, <1>s, <1>4, ProposalType, PersistSanctioned
      DEF SubmitAutoApproved, At
    <2>2. Goto(t, "s_mark")
      BY <1>4 DEF SubmitAutoApproved
    <2> QED
      BY <1>0, <1>2, <1>p, <2>1, <2>2, EarlyGoto, WitnessesStay DEF IInv
  <1>7. CASE SubmitFails(t)
    <2>1. LogExtends /\ LogSanctioned'
      <3>1. CASE log' = log
        BY <3>1, SameExtends DEF IInv, LogSanctioned
      <3>2. CASE PersistFails(Proposal(c))
        BY <1>0, <3>2, ProposalType, PersistSanctioned
      <3>3. CASE th[t].pc = "s_approving" /\ PersistFails(AutoApproval(c))
        BY <1>0, <1>s, <3>3, ProposalType, PersistSanctioned
      <3> QED BY <1>7, <3>1, <3>2, <3>3 DEF SubmitFails, At
    <2>2. Return(t)
      BY <1>7 DEF SubmitFails
    <2> QED
      BY <1>0, <1>1, <1>2, <2>1, <2>2, QuietReturn, WitnessesStay DEF IInv
  <1>8. CASE SubmitAutoApprove(t)
    <2>1. log' = log /\ Goto(t, "s_approving") /\ th[t].pc = "s_auto"
      BY <1>8 DEF SubmitAutoApprove, AppendInMemory, At
    <2>2. \E k \in DOMAIN log : Sanctions(log[k], c)
      BY <2>1 DEF IInv, AutoOK
    <2> QED
      BY <1>0, <1>2, <1>p, <2>1, <2>2, SameExtends, EarlyGoto, WitnessesStay
      DEF IInv
  <1>5. CASE SubmitMatch(t)
    <2>0. log' = log
      BY <1>5 DEF SubmitMatch, StoreUnchanged
    <2>1. CASE Return(t)
      BY <1>0, <1>1, <1>2, <2>0, <2>1, SameExtends, QuietReturn, WitnessesStay
      DEF IInv
    <2>2. CASE ~Return(t)
      <3>1. PICK r \in registry[SessionOf[c]] : ProposalMatchesRule(c, r)
        BY <1>5, <2>2 DEF SubmitMatch
      <3>2. SessionOf[c] \in Sessions
        BY <1>0, ProposalAssumption
      <3>3. r \in RuleSet
        BY <3>1, <3>2 DEF IInv, TypeOK
      <3>4. PICK i \in DOMAIN log : RuleSource(log[i], SessionOf[c], r)
        BY <3>1, <3>2 DEF IInv, RegistryOK
      <3>5. Sanctions(log[i], c)
        BY <3>1, <3>3, <3>4
        DEF Sanctions, RuleSource, ProposalMatchesRule, RuleSet
      <3>6. Goto(t, "s_auto")
        BY <1>5, <2>2 DEF SubmitMatch
      <3> QED
        BY <1>0, <1>2, <1>p, <2>0, <3>4, <3>5, <3>6, SameExtends, EarlyGoto,
           WitnessesStay DEF IInv
    <2> QED BY <2>1, <2>2
  <1>6. CASE SubmitCheckCache(t) \/ SubmitCheckRow(t) \/ SubmitInsert(t)
             \/ SubmitMarkApproved(t) \/ SubmitPropose(t)
    <2>1. log' = log
      BY <1>6 DEF SubmitCheckCache, SubmitCheckRow, SubmitInsert,
         SubmitMarkApproved, SubmitPropose, AppendInMemory, StoreUnchanged
    <2>2. Return(t) \/ \E pc \in {"s_row", "s_propose", "s_proposing", "s_match"} : Goto(t, pc)
      BY <1>6 DEF SubmitCheckCache, SubmitCheckRow, SubmitInsert,
         SubmitMarkApproved, SubmitPropose
    <2>3. CASE Return(t)
      BY <1>0, <1>1, <1>2, <2>1, <2>3, SameExtends, QuietReturn, WitnessesStay
      DEF IInv
    <2>4. ASSUME NEW pc \in {"s_row", "s_propose", "s_proposing", "s_match"}, Goto(t, pc)
          PROVE  IInv'
      BY <1>0, <1>2, <1>p, <2>1, <2>4, SameExtends, EarlyGoto, WitnessesStay
      DEF IInv
    <2> QED BY <2>2, <2>3, <2>4
  <1> QED BY <1>3, <1>4, <1>5, <1>6, <1>7, <1>8 DEF SubmitStep

\* Answers given from the cache or the projection are not oneshot deliveries.
LEMMA GrantOther ==
  ASSUME IInv, LogExtends, NEW c, NEW args, NEW via, via # "oneshot",
         Grant(c, args, via)
  PROVE  DeliveredIsDurable'
  BY DEF IInv, DeliveredIsDurable, Grant, ApprovedInLog, LogExtends

LEMMA NotParked ==
  ASSUME IInv, NEW t \in Threads, th[t].pc \notin {"waiting", "elapsed"}
  PROVE  \A c \in Calls : pending[c] # t
  BY DEF IInv, WaitOK, ParkedOK

LEMMA LoadStepInv ==
  ASSUME IInv, NEW t \in Threads, LoadStep(t)
  PROVE  IInv'
  <1>0. TypeOK' /\ th[t].pc \in EarlyPCs
    BY LoadType DEF IInv, EarlyPCs, PCs, LoadStep, LoadCached, LoadFetch,
       LoadFill, LoadFails
  <1>1. \A c \in Calls : pending[c] # t
    BY <1>0, NotParked DEF EarlyPCs
  <1>2. pending' = pending /\ registry' = registry /\ log' = log
    BY DEF LoadStep, LoadCached, LoadFetch, LoadFill, LoadFails,
       StoreUnchanged, MemoryUnchanged
  <1>3. LogExtends /\ RegistryOK' /\ LogSanctioned'
    BY <1>2, SameExtends, WitnessesStay
  <1>4. DeliveredIsDurable'
    BY <1>3, WitnessesStay, GrantOther
    DEF LoadStep, LoadCached, LoadFetch, LoadFill, LoadFails, Loaded,
        HistoryUnchanged
  <1>5. CASE Return(t)
    BY <1>0, <1>1, <1>2, <1>3, <1>4, <1>5, QuietReturn DEF IInv
  <1>6. CASE Goto(t, "fetch")
    <2>1. "fetch" \in EarlyPCs
      BY DEF EarlyPCs, PCs
    <2> QED BY <1>0, <1>2, <1>3, <1>4, <1>6, <2>1, EarlyGoto DEF IInv
  <1>7. ASSUME NEW p \in EntrySet, NEW pc \in {"fill", "claim", "register"},
               th' = [th EXCEPT ![t].pc = pc, ![t].prev = p]
        PROVE  IInv'
    <2> DEFINE x == [[th[t] EXCEPT !.pc = pc] EXCEPT !.prev = p]
    <2>1. th' = [th EXCEPT ![t] = x]
      BY <1>7
    <2>2. x \in ThreadSet
      BY <1>0, <2>1 DEF IInv, TypeOK
    <2>3. /\ x.op = th[t].op /\ x.call = th[t].call /\ x.inbox = th[t].inbox
          /\ x.sender = th[t].sender /\ x.pc = pc
      BY DEF IInv, TypeOK, ThreadSet
    <2>4. ~Registered(t) /\ ~(th[t].sender \in Threads)
      BY <1>0 DEF IInv, WaitOK, HeldOK, Registered, EarlyPCs
    <2> HIDE DEF x
    <2>5. LocalsOK' /\ ChannelOK' /\ SendOK' /\ InboxOK' /\ AutoOK'
      BY <1>3, <2>1, <2>2, <2>3, <2>4, MoveOne
    <2>6. ParkedOK' /\ HeldOK'
      BY <1>0, <1>2, <2>1, <2>2, <2>3, <2>4, MoveOneWait DEF EarlyPCs
    <2> QED BY <1>0, <1>3, <1>4, <2>5, <2>6 DEF IInv, WaitOK
  <1>8. CASE LoadFetch(t)
    <2>1. StoredToEntry(row[th[t].call]) \in EntrySet
      BY StoredToEntryType DEF IInv, TypeOK, ThreadSet
    <2> QED BY <1>5, <1>7, <1>8, <2>1 DEF LoadFetch
  <1> QED
    BY <1>5, <1>6, <1>7, <1>8, NoEntryType
    DEF LoadStep, LoadCached, LoadFill, LoadFails, Loaded, Proceed

LEMMA RetrieveStepInv ==
  ASSUME IInv, NEW t \in Threads, RetrieveStep(t)
  PROVE  IInv'
  <1>0. TypeOK' /\ th[t].pc \in EarlyPCs
    BY RetrieveType DEF IInv, EarlyPCs, PCs, RetrieveStep, RetrieveCached,
       RetrieveRow, At
  <1>1. \A c \in Calls : pending[c] # t
    BY <1>0, NotParked DEF EarlyPCs
  <1>2. pending' = pending /\ registry' = registry /\ log' = log
    BY DEF RetrieveStep, RetrieveCached, RetrieveRow, StoreUnchanged,
       MemoryUnchanged
  <1>3. LogExtends /\ RegistryOK' /\ LogSanctioned'
    BY <1>2, SameExtends, WitnessesStay
  <1>4. DeliveredIsDurable'
    BY <1>3, WitnessesStay, GrantOther
    DEF RetrieveStep, RetrieveCached, RetrieveRow
  <1>5. CASE Return(t)
    BY <1>0, <1>1, <1>2, <1>3, <1>4, <1>5, QuietReturn DEF IInv
  <1>6. CASE Goto(t, "r_row")
    <2>1. "r_row" \in EarlyPCs
      BY DEF EarlyPCs, PCs
    <2> QED BY <1>0, <1>2, <1>3, <1>4, <1>6, <2>1, EarlyGoto DEF IInv
  <1> QED
    BY <1>5, <1>6 DEF RetrieveStep, RetrieveCached, RetrieveRow

LEMMA CrashStepInv == IInv /\ Crash => IInv'
  <1> SUFFICES ASSUME IInv, Crash PROVE IInv'
    OBVIOUS
  <1>1. TypeOK' /\ LogExtends /\ log' = log /\ granted' = granted
    BY CrashType, SameExtends DEF IInv, Crash, HistoryUnchanged
  <1>2. \A t \in Threads :
          /\ th'[t].op = "none" /\ th'[t].pc = "idle" /\ th'[t].sender = NoThread
          /\ th'[t].inbox = NoDecision /\ th'[t].inbox.kind = "none"
    BY DEF Crash, Idle, NoDecision
  <1>3. LocalsOK' /\ SendOK' /\ InboxOK' /\ AutoOK'
    BY <1>2 DEF LocalsOK, SendOK, InboxOK, AutoOK
  <1>4. WaitOK'
    BY <1>2, EnvAssumption DEF Crash, WaitOK, ParkedOK, HeldOK, ChannelOK
  <1>5. RegistryOK'
    BY DEF Crash, RegistryOK
  <1> QED BY <1>1, <1>3, <1>4, <1>5, WitnessesStay DEF IInv

LEMMA AwaitStepInv ==
  ASSUME IInv, NEW t \in Threads, AwaitStep(t)
  PROVE  IInv'
  <1> DEFINE c == th[t].call
  <1>0. /\ TypeOK' /\ c \in Calls /\ th[t] \in ThreadSet /\ th[t].op = "await"
        /\ ~(th[t].sender \in Threads)
    BY AwaitType DEF IInv, TypeOK, ThreadSet, WaitOK, HeldOK, AwaitStep,
       AwaitRegister, AwaitDelivered, AwaitCanceled, AwaitElapsed, TimeoutClaim,
       At
  <1>1. registry' = registry /\ log' = log
    BY DEF AwaitStep, AwaitRegister, AwaitDelivered, AwaitCanceled,
       AwaitElapsed, TimeoutClaim, StoreUnchanged, MemoryUnchanged
  <1>2. LogExtends /\ RegistryOK' /\ LogSanctioned'
        /\ (granted' = granted => DeliveredIsDurable')
    BY <1>1, SameExtends, WitnessesStay
  <1>3. CASE AwaitRegister(t)
    <2>1. granted' = granted
      BY <1>3 DEF AwaitRegister, HistoryUnchanged
    <2>2. CASE Return(t) /\ pending' = pending
      <3>1. \A k \in Calls : pending[k] # t
        BY <1>3, NotParked DEF AwaitRegister, At
      <3> QED BY <1>0, <1>2, <2>1, <2>2, <3>1, QuietReturn DEF IInv
    <2>3. CASE Goto(t, "waiting") /\ pending' = [pending EXCEPT ![c] = t]
      <3> DEFINE x == [th[t] EXCEPT !.pc = "waiting"]
      <3>1. th' = [th EXCEPT ![t] = x]
        BY <2>3 DEF Goto
      <3>2. /\ x \in ThreadSet /\ x.op = th[t].op /\ x.call = c
            /\ x.inbox = th[t].inbox /\ x.sender = th[t].sender
            /\ x.pc = "waiting"
        BY <1>0 DEF ThreadSet, PCs
      <3> HIDE DEF x
      <3>3. LocalsOK' /\ ChannelOK' /\ SendOK' /\ InboxOK' /\ AutoOK'
        BY <1>2, <3>1, <3>2, MoveOne
      <3>4. th'[t] = x /\ \A u \in Threads : u # t => th'[u] = th[u]
        BY <3>1 DEF IInv, TypeOK
      <3>5. th[t].inbox = NoDecision /\ ~Registered(t)
        BY <1>3 DEF AwaitRegister, At, IInv, WaitOK, ChannelOK, Registered
      <3>6. \A u \in Threads : th'[u].sender = th[u].sender /\ th[u].sender # t
        BY <3>2, <3>4, <3>5 DEF IInv, WaitOK, HeldOK
      <3>7. \A k \in Calls : pending[k] # t
        BY <1>3, NotParked DEF AwaitRegister, At
      <3>8. ASSUME NEW k \in Calls, pending'[k] \in Threads
            PROVE  /\ th'[pending'[k]].op = "await" /\ th'[pending'[k]].call = k
                   /\ th'[pending'[k]].pc \in {"waiting", "elapsed"}
                   /\ th'[pending'[k]].inbox = NoDecision
                   /\ \A u \in Threads : th'[u].sender # pending'[k]
        <4>1. CASE k = c
          BY <4>1, <1>0, <2>3, <3>2, <3>4, <3>5, <3>6 DEF IInv, TypeOK
        <4>2. CASE k # c
          <5>1. pending'[k] = pending[k] /\ pending[k] # t
            BY <4>2, <2>3, <3>7 DEF IInv, TypeOK
          <5> QED BY <3>8, <5>1, <3>4, <3>6 DEF IInv, WaitOK, ParkedOK
        <4> QED BY <4>1, <4>2
      <3>9. ParkedOK'
        BY <3>8 DEF ParkedOK
      <3>10. HeldOK'
        BY <1>0, <3>2, <3>4, <3>6 DEF IInv, WaitOK, HeldOK, Registered
      <3> QED BY <1>0, <1>2, <2>1, <3>3, <3>9, <3>10 DEF IInv, WaitOK
    <2> QED BY <1>3, <2>2, <2>3 DEF AwaitRegister
  <1>4. CASE AwaitDelivered(t)
    <2>1. Return(t) /\ pending' = pending
      BY <1>4 DEF AwaitDelivered, MemoryUnchanged
    <2>2. \A k \in Calls : pending[k] # t
      BY <1>4 DEF AwaitDelivered, IInv, WaitOK, ParkedOK
    <2>3. DeliveredIsDurable'
      <3>1. CASE th[t].inbox.kind = "approved"
        <4>1. ApprovedInLog(c, th[t].inbox.args)
          BY <3>1 DEF IInv, InboxOK
        <4>2. granted' = granted \cup
                {[call |-> c, args |-> th[t].inbox.args, via |-> "oneshot"]}
          BY <1>4, <3>1 DEF AwaitDelivered, Grant
        <4> QED
          BY <1>1, <4>1, <4>2 DEF IInv, DeliveredIsDurable, ApprovedInLog
      <3>2. CASE th[t].inbox.kind # "approved"
        BY <1>2, <1>4, <3>2 DEF AwaitDelivered
      <3> QED BY <3>1, <3>2
    <2> QED BY <1>0, <1>2, <2>1, <2>2, <2>3, QuietReturn DEF IInv
  <1>5. CASE AwaitCanceled(t)
    <2>1. Return(t) /\ pending' = pending /\ granted' = granted
      BY <1>5 DEF AwaitCanceled, MemoryUnchanged, HistoryUnchanged
    <2>2. \A k \in Calls : pending[k] # t
      BY <1>5 DEF AwaitCanceled, SenderDropped, IInv, WaitOK, ParkedOK
    <2> QED BY <1>0, <1>2, <2>1, <2>2, QuietReturn DEF IInv
  <1>6. CASE AwaitElapsed(t)
    <2>1. pending' = pending /\ granted' = granted
      BY <1>6 DEF AwaitElapsed, MemoryUnchanged, HistoryUnchanged
    <2>2. \A u \in Threads : u # t =>
            /\ th'[u].op = th[u].op /\ th'[u].pc = th[u].pc
            /\ th'[u].call = th[u].call /\ th'[u].scope = th[u].scope
            /\ th'[u].eff = th[u].eff /\ th'[u].inbox = th[u].inbox
            /\ th'[u].sender = IF th[u].sender = t THEN NoThread
                               ELSE th[u].sender
      BY <1>6 DEF AwaitElapsed, IInv, TypeOK, ThreadSet
    <2>3. /\ th'[t].op = "await" /\ th'[t].pc = "elapsed" /\ th'[t].call = c
          /\ th'[t].inbox = th[t].inbox /\ th'[t].sender = th[t].sender
          /\ th[t].pc = "waiting"
      BY <1>0, <1>6 DEF AwaitElapsed, At, ThreadSet
    <2>4. LocalsOK' /\ SendOK' /\ AutoOK'
      BY <1>1, <2>2, <2>3 DEF IInv, LocalsOK, SendOK, AutoOK
    <2>5. InboxOK'
      BY <1>1, <2>2, <2>3 DEF IInv, InboxOK, ApprovedInLog
    <2>6. ChannelOK'
      BY <2>2, <2>3 DEF IInv, WaitOK, ChannelOK, Registered
    <2>7. ParkedOK'
      <3> SUFFICES ASSUME NEW k \in Calls, pending[k] \in Threads
                   PROVE  /\ th'[pending[k]].op = "await"
                          /\ th'[pending[k]].call = k
                          /\ th'[pending[k]].pc \in {"waiting", "elapsed"}
                          /\ th'[pending[k]].inbox = NoDecision
                          /\ \A u \in Threads : th'[u].sender # pending[k]
        BY <2>1 DEF ParkedOK
      <3> QED
        BY <2>2, <2>3, EnvAssumption DEF IInv, WaitOK, ParkedOK
    <2>8. HeldOK'
      <3> SUFFICES ASSUME NEW u \in Threads, th'[u].sender \in Threads
                   PROVE  /\ th'[u].op \in {"approve", "reject"}
                          /\ th'[u].pc \in {"append", "saving", "revert", "rule", "send"}
                          /\ Registered(th[u].sender)'
                          /\ th'[th'[u].sender].call = th'[u].call
        BY DEF HeldOK, Registered
      <3>1. u # t /\ th'[u].sender = th[u].sender /\ th[u].sender # t
        BY <1>0, <2>2, <2>3, EnvAssumption
      <3> QED BY <2>2, <3>1 DEF IInv, WaitOK, HeldOK, Registered
    <2> QED
      BY <1>0, <1>2, <2>1, <2>4, <2>5, <2>6, <2>7, <2>8 DEF IInv, WaitOK
  <1>7. CASE TimeoutClaim(t)
    <2>1. pending' = [pending EXCEPT ![c] = NoThread] /\ granted' = granted
      BY <1>7 DEF TimeoutClaim
    <2>2. CASE Return(t)
      BY <1>0, <1>2, <2>1, <2>2, QuietReturn DEF IInv
    <2>3. CASE ~Return(t)
      <3> DEFINE x == [[th[t] EXCEPT !.pc = "append"] EXCEPT !.prev = cache[c]]
      <3>1. th' = [th EXCEPT ![t] = x]
        BY <1>7, <2>3 DEF TimeoutClaim
      <3>2. x \in ThreadSet
        BY <1>0, <3>1 DEF IInv, TypeOK
      <3>3. /\ x.op = th[t].op /\ x.call = c /\ x.inbox = th[t].inbox
            /\ x.sender = th[t].sender /\ x.pc = "append"
        BY <1>0 DEF ThreadSet
      <3> HIDE DEF x
      <3>4. LocalsOK' /\ ChannelOK' /\ SendOK' /\ InboxOK' /\ AutoOK'
        BY <1>0, <1>2, <3>1, <3>2, <3>3, MoveOne
      <3>5. th'[t] = x /\ \A u \in Threads : u # t => th'[u] = th[u]
        BY <3>1 DEF IInv, TypeOK
      <3>6. \A u \in Threads : th'[u].sender = th[u].sender
        BY <3>3, <3>5
      <3>7. \A k \in Calls : pending'[k] \in Threads =>
              k # c /\ pending'[k] = pending[k] /\ pending[k] # t
        BY <1>0, <2>1, EnvAssumption DEF IInv, TypeOK, WaitOK, ParkedOK
      <3>8. ParkedOK'
        BY <3>5, <3>6, <3>7 DEF IInv, WaitOK, ParkedOK
      <3>9. HeldOK'
        BY <1>0, <3>3, <3>5, <3>6 DEF IInv, WaitOK, HeldOK, Registered
      <3> QED BY <1>0, <1>2, <2>1, <3>4, <3>8, <3>9 DEF IInv, WaitOK
    <2> QED BY <2>2, <2>3
  <1> QED BY <1>3, <1>4, <1>5, <1>6, <1>7 DEF AwaitStep

\* A decision takes the parked sender of its call, if there is one.
LEMMA TakeSender ==
  ASSUME IInv, NEW t \in Threads, NEW x \in ThreadSet,
         th' = [th EXCEPT ![t] = x], th[t].pc = "claim",
         pending' = [pending EXCEPT ![th[t].call] = NoThread],
         x.op = th[t].op, x.call = th[t].call, x.pc = "append",
         x.op \in {"approve", "reject"}, x.sender = pending[th[t].call]
  PROVE  ParkedOK' /\ HeldOK'
  <1> DEFINE c == th[t].call
  <1>0. c \in Calls
    BY DEF IInv, TypeOK, ThreadSet
  <1>1. th'[t] = x /\ \A u \in Threads : u # t => th'[u] = th[u]
    BY DEF IInv, TypeOK
  <1>2. \A k \in Calls : pending'[k] \in Threads =>
          k # c /\ pending'[k] = pending[k] /\ pending[k] # t
    BY EnvAssumption DEF IInv, TypeOK, WaitOK, ParkedOK
  <1>3. \A k \in Calls : pending'[k] \in Threads => pending'[k] # pending[c]
    BY <1>0, <1>2 DEF IInv, WaitOK, ParkedOK
  <1>4. ParkedOK'
    <2> SUFFICES ASSUME NEW k \in Calls, pending'[k] \in Threads
                 PROVE  /\ th'[pending'[k]].op = "await"
                        /\ th'[pending'[k]].call = k
                        /\ th'[pending'[k]].pc \in {"waiting", "elapsed"}
                        /\ th'[pending'[k]].inbox = NoDecision
                        /\ \A u \in Threads : th'[u].sender # pending'[k]
      BY DEF ParkedOK
    <2> QED BY <1>1, <1>2, <1>3 DEF IInv, WaitOK, ParkedOK
  <1>5. ~Registered(t)
    BY DEF Registered
  <1>6. HeldOK'
    <2> SUFFICES ASSUME NEW u \in Threads, th'[u].sender \in Threads
                 PROVE  /\ th'[u].op \in {"approve", "reject"}
                        /\ th'[u].pc \in {"append", "saving", "revert", "rule", "send"}
                        /\ Registered(th[u].sender)'
                        /\ th'[th'[u].sender].call = th'[u].call
      BY DEF HeldOK, Registered
    <2>1. CASE u = t
      <3>1. /\ pending[c] \in Threads /\ th[pending[c]].op = "await"
            /\ th[pending[c]].call = c
            /\ th[pending[c]].pc \in {"waiting", "elapsed"}
        BY <1>0, <1>1, <2>1 DEF IInv, WaitOK, ParkedOK
      <3>2. pending[c] # t
        BY <3>1
      <3> QED BY <1>1, <2>1, <3>1, <3>2 DEF Registered
    <2>2. CASE u # t
      <3>1. th'[u] = th[u] /\ th[u].sender # t
        BY <1>1, <1>5, <2>2 DEF IInv, WaitOK, HeldOK
      <3> QED BY <1>1, <3>1 DEF IInv, WaitOK, HeldOK, Registered
    <2> QED BY <2>1, <2>2
  <1> QED BY <1>4, <1>6

LEMMA ClaimInv ==
  ASSUME IInv, NEW t \in Threads,
         ApproveClaim(t) \/ RejectClaim(t) \/ AmendClaim(t) \/ ClaimRefused(t)
  PROVE  IInv'
  <1> DEFINE c == th[t].call
  <1>0. /\ TypeOK' /\ c \in Calls /\ th[t] \in ThreadSet /\ th[t].pc = "claim"
        /\ ~Registered(t) /\ ~(th[t].sender \in Threads)
    BY DecideType DEF IInv, TypeOK, ThreadSet, DecideStep, ApproveClaim,
       RejectClaim, AmendClaim, ClaimRefused, At, WaitOK, HeldOK, Registered
  <1>1. registry' = registry /\ log' = log /\ granted' = granted
    BY DEF ApproveClaim, RejectClaim, AmendClaim, ClaimRefused, StoreUnchanged,
       MemoryUnchanged, HistoryUnchanged
  <1>2. LogExtends /\ RegistryOK' /\ LogSanctioned'
        /\ DeliveredIsDurable'
    BY <1>1, SameExtends, WitnessesStay
  <1>3. CASE ApproveClaim(t)
    <2> DEFINE e == IF th[t].args = NoArgs THEN cache[c]
                    ELSE [cache[c] EXCEPT !.approved = th[t].args]
               x == [[[[th[t] EXCEPT !.pc = "append"] EXCEPT !.prev = cache[c]]
                        EXCEPT !.eff = EffectiveArgs(c, e)]
                        EXCEPT !.sender = pending[c]]
    <2>1. th' = [th EXCEPT ![t] = x] /\ th[t].op = "approve"
          /\ pending' = [pending EXCEPT ![c] = NoThread]
      BY <1>3 DEF ApproveClaim, At
    <2>2. x \in ThreadSet
      BY <1>0, <2>1 DEF IInv, TypeOK
    <2>3. e \in EntrySet
      BY <1>0 DEF IInv, TypeOK, ThreadSet, EntrySet
    <2>4. EffectiveArgs(c, e) \in Args
      BY <1>0, <2>3, EffectiveArgsType
    <2>5. /\ x.op = th[t].op /\ x.call = c /\ x.inbox = th[t].inbox
          /\ x.sender = pending[c] /\ x.pc = "append" /\ x.eff \in Args
      BY <1>0, <2>4 DEF ThreadSet
    <2> HIDE DEF x
    <2>6. LocalsOK' /\ ChannelOK' /\ SendOK' /\ InboxOK' /\ AutoOK'
      BY <1>0, <1>2, <2>1, <2>2, <2>5, MoveOne
    <2>7. ParkedOK' /\ HeldOK'
      BY <1>0, <2>1, <2>2, <2>5, TakeSender
    <2> QED BY <1>0, <1>2, <2>6, <2>7 DEF IInv, WaitOK
  <1>4. CASE RejectClaim(t)
    <2> DEFINE x == [[[th[t] EXCEPT !.pc = "append"] EXCEPT !.prev = cache[c]]
                        EXCEPT !.sender = pending[c]]
    <2>1. th' = [th EXCEPT ![t] = x] /\ th[t].op = "reject"
          /\ pending' = [pending EXCEPT ![c] = NoThread]
      BY <1>4 DEF RejectClaim, At
    <2>2. x \in ThreadSet
      BY <1>0, <2>1 DEF IInv, TypeOK
    <2>3. /\ x.op = th[t].op /\ x.call = c /\ x.inbox = th[t].inbox
          /\ x.sender = pending[c] /\ x.pc = "append"
      BY <1>0 DEF ThreadSet
    <2> HIDE DEF x
    <2>4. LocalsOK' /\ ChannelOK' /\ SendOK' /\ InboxOK' /\ AutoOK'
      BY <1>0, <1>2, <2>1, <2>2, <2>3, MoveOne
    <2>5. ParkedOK' /\ HeldOK'
      BY <1>0, <2>1, <2>2, <2>3, TakeSender
    <2> QED BY <1>0, <1>2, <2>4, <2>5 DEF IInv, WaitOK
  <1>5. CASE AmendClaim(t)
    <2> DEFINE x == [[th[t] EXCEPT !.pc = "append"] EXCEPT !.prev = cache[c]]
    <2>1. th' = [th EXCEPT ![t] = x] /\ th[t].op = "amend" /\ pending' = pending
      BY <1>5 DEF AmendClaim, At
    <2>2. x \in ThreadSet
      BY <1>0, <2>1 DEF IInv, TypeOK
    <2>3. /\ x.op = th[t].op /\ x.call = c /\ x.inbox = th[t].inbox
          /\ x.sender = th[t].sender /\ x.pc = "append"
      BY <1>0 DEF ThreadSet
    <2> HIDE DEF x
    <2>4. LocalsOK' /\ ChannelOK' /\ SendOK' /\ InboxOK' /\ AutoOK'
      BY <1>0, <1>2, <2>1, <2>2, <2>3, MoveOne
    <2>5. ParkedOK' /\ HeldOK'
      BY <1>0, <2>1, <2>2, <2>3, MoveOneWait
    <2> QED BY <1>0, <1>2, <2>4, <2>5 DEF IInv, WaitOK
  <1>6. CASE ClaimRefused(t)
    <2>1. Return(t) /\ pending' = pending
      BY <1>6 DEF ClaimRefused, MemoryUnchanged
    <2>2. \A k \in Calls : pending[k] # t
      BY <1>0, NotParked
    <2> QED BY <1>0, <1>2, <2>1, <2>2, QuietReturn DEF IInv
  <1> QED BY <1>3, <1>4, <1>5, <1>6

LEMMA SavedStepInv ==
  ASSUME IInv, NEW t \in Threads, DecisionSaved(t)
  PROVE  IInv'
  <1> DEFINE c == th[t].call
             e == DecisionEvent(t)
  <1>0. TypeOK' /\ c \in Calls /\ th[t] \in ThreadSet /\ th[t].pc = "saving"
    BY DecideType DEF IInv, TypeOK, ThreadSet, DecideStep, DecisionSaved
  <1>1. e \in EventSet /\ e.by # "session_allow" /\ Persist(e)
    BY DecisionEventType DEF IInv, DecisionSaved, DecisionEvent
  <1>2. th[t].op = "approve" =>
          GrantingEvent(e, c, th[t].scope, th[t].eff)
    BY DEF DecisionEvent, GrantingEvent
  <1> HIDE DEF e
  <1>3. LogExtends /\ log'[Len(log) + 1] = e /\ Len(log) + 1 \in DOMAIN log'
    BY <1>1, PersistExtends DEF IInv
  <1>4. pending' = pending /\ registry' = registry /\ granted' = granted
    BY DEF DecisionSaved, MemoryUnchanged
  <1>5. RegistryOK' /\ LogSanctioned' /\ DeliveredIsDurable'
    BY <1>1, <1>3, <1>4, PersistSanctioned, WitnessesStay
  <1>6. CASE Return(t)
    <2>1. \A k \in Calls : pending[k] # t
      BY <1>0, NotParked
    <2> QED BY <1>0, <1>3, <1>4, <1>5, <1>6, <2>1, QuietReturn DEF IInv
  <1>7. CASE ~Return(t)
    <2> DEFINE pc == IF th[t].op = "approve" /\ th[t].scope # Once
                     THEN "rule" ELSE "send"
               x == [th[t] EXCEPT !.pc = pc]
    <2>1. th' = [th EXCEPT ![t] = x] /\ th[t].op \in {"approve", "reject"}
      BY <1>7 DEF DecisionSaved, Goto
    <2>2. x \in ThreadSet
      BY <1>0, <2>1 DEF IInv, TypeOK
    <2>3. /\ x.op = th[t].op /\ x.call = c /\ x.inbox = th[t].inbox
          /\ x.sender = th[t].sender /\ x.pc = pc /\ x.eff = th[t].eff
          /\ x.scope = th[t].scope
      BY <1>0 DEF ThreadSet
    <2>4. th[t].op = "approve" => th[t].eff \in Args
      BY <1>0 DEF IInv, LocalsOK
    <2>5. ~Registered(t)
      BY <2>1 DEF Registered
    <2> HIDE DEF x
    <2>6. LocalsOK' /\ ChannelOK' /\ SendOK' /\ InboxOK' /\ AutoOK'
      BY <1>2, <1>3, <2>1, <2>2, <2>3, <2>4, <2>5, MoveOne
    <2>7. ParkedOK' /\ HeldOK'
      BY <1>4, <2>1, <2>2, <2>3, <2>5, MoveOneWait
    <2> QED BY <1>0, <1>5, <2>6, <2>7 DEF IInv, WaitOK
  <1> QED BY <1>6, <1>7

LEMMA EffectsInv ==
  ASSUME IInv, NEW t \in Threads,
         \/ DecisionAppend(t) \/ DecisionSaveFails(t) \/ DecisionRevert(t)
         \/ ApprovePushRule(t) \/ SendDecision(t)
  PROVE  IInv'
  <1> DEFINE c == th[t].call
  <1>0. TypeOK' /\ c \in Calls /\ th[t] \in ThreadSet
    BY DecideType DEF IInv, TypeOK, ThreadSet, DecideStep
  <1>1. granted' = granted /\ pending' = pending
    BY DEF DecisionAppend, DecisionSaveFails, DecisionRevert, ApprovePushRule,
       SendDecision, StoreUnchanged, MemoryUnchanged, HistoryUnchanged
  <1>s. LogExtends /\ LogSanctioned'
    <2>1. CASE PersistFails(DecisionEvent(t))
      BY <2>1, DecisionEventType, PersistSanctioned DEF IInv, DecisionEvent
    <2>2. CASE log' = log
      BY <2>2, SameExtends DEF IInv, LogSanctioned
    <2> QED
      BY <2>1, <2>2
      DEF DecisionSaveFails, DecisionAppend, DecisionRevert, ApprovePushRule,
          SendDecision, AppendInMemory, StoreUnchanged
  <1>2. LogExtends /\ LogSanctioned' /\ DeliveredIsDurable'
        /\ (registry' = registry => RegistryOK')
    BY <1>1, <1>s, WitnessesStay
  <1>3. CASE DecisionAppend(t) \/ DecisionSaveFails(t)
    <2> DEFINE pc == IF th[t].pc = "append" THEN "saving" ELSE "revert"
               x == [th[t] EXCEPT !.pc = pc]
    <2>1. /\ th' = [th EXCEPT ![t] = x] /\ th[t].pc \in {"append", "saving"}
          /\ registry' = registry
      BY <1>3 DEF DecisionAppend, DecisionSaveFails, Goto, MemoryUnchanged
    <2>2. x \in ThreadSet
      BY <1>0, <2>1 DEF IInv, TypeOK
    <2>3. /\ x.op = th[t].op /\ x.call = c /\ x.inbox = th[t].inbox
          /\ x.sender = th[t].sender /\ x.pc = pc /\ x.eff = th[t].eff
      BY <1>0 DEF ThreadSet
    <2>4. th[t].op = "approve" => th[t].eff \in Args
      BY <2>1 DEF IInv, LocalsOK
    <2> HIDE DEF x
    <2>5. LocalsOK' /\ ChannelOK' /\ SendOK' /\ InboxOK' /\ AutoOK'
      BY <1>2, <2>1, <2>2, <2>3, <2>4, MoveOne
    <2>6. ParkedOK' /\ HeldOK'
      BY <1>1, <2>1, <2>2, <2>3, MoveOneWait
    <2> QED BY <1>0, <1>2, <2>1, <2>5, <2>6 DEF IInv, WaitOK
  <1>4. CASE DecisionRevert(t)
    <2>1. Return(t) /\ registry' = registry /\ th[t].pc = "revert"
      BY <1>4 DEF DecisionRevert
    <2>2. \A k \in Calls : pending[k] # t
      BY <2>1, NotParked
    <2> QED BY <1>0, <1>1, <1>2, <2>1, <2>2, QuietReturn DEF IInv
  <1>5. CASE ApprovePushRule(t)
    <2> DEFINE x == [th[t] EXCEPT !.pc = "send"]
               r == [tool |-> ToolOf[c], args |-> th[t].eff,
                     policy |-> th[t].scope]
    <2>1. /\ th' = [th EXCEPT ![t] = x]
          /\ th[t].op = "approve" /\ th[t].pc = "rule"
          /\ registry' = [registry EXCEPT ![SessionOf[c]] = @ \cup {r}]
          /\ log' = log
      BY <1>5 DEF ApprovePushRule, Goto, At, StoreUnchanged
    <2>2. x \in ThreadSet
      BY <1>0, <2>1 DEF IInv, TypeOK
    <2>3. /\ x.op = th[t].op /\ x.call = c /\ x.inbox = th[t].inbox
          /\ x.sender = th[t].sender /\ x.pc = "send" /\ x.eff = th[t].eff
          /\ x.scope = th[t].scope
      BY <1>0 DEF ThreadSet
    <2>4. th[t].eff \in Args /\ ~Registered(t)
      BY <2>1 DEF IInv, LocalsOK, Registered
    <2>5. PICK i \in DOMAIN log :
            GrantingEvent(log[i], c, th[t].scope, th[t].eff)
      BY <2>1 DEF IInv, SendOK
    <2>6. RegistryOK'
      <3>1. RuleSource(log[i], SessionOf[c], r)
        BY <2>5 DEF RuleSource, GrantingEvent
      <3> HIDE DEF r
      <3>2. ASSUME NEW s \in Sessions, NEW q \in registry'[s]
            PROVE  q \in registry[s] \/ (s = SessionOf[c] /\ q = r)
        BY <2>1, <3>2 DEF IInv, TypeOK
      <3> QED BY <2>1, <3>1, <3>2 DEF IInv, RegistryOK, RuleSource
    <2> HIDE DEF x
    <2>7. LocalsOK' /\ ChannelOK' /\ SendOK' /\ InboxOK' /\ AutoOK'
      BY <1>1, <1>2, <2>1, <2>2, <2>3, <2>4, <2>5, MoveOne
    <2>8. ParkedOK' /\ HeldOK'
      BY <1>1, <2>1, <2>2, <2>3, <2>4, MoveOneWait
    <2> QED BY <1>0, <1>2, <2>6, <2>7, <2>8 DEF IInv, WaitOK
  <1>6. CASE SendDecision(t)
    <2> DEFINE w == th[t].sender
               d == IF th[t].op = "approve"
                    THEN [kind |-> "approved", args |-> th[t].eff]
                    ELSE [kind |-> "rejected", args |-> NoArgs]
    <2>1. /\ th[t].pc = "send" /\ th[t].op \in {"approve", "reject"}
          /\ registry' = registry /\ log' = log
      BY <1>6 DEF SendDecision, MemoryUnchanged, StoreUnchanged, IInv, LocalsOK
    <2>2. \A u \in Threads : th[u].sender # t
      BY <2>1 DEF IInv, WaitOK, HeldOK, Registered
    <2>3. /\ th'[t].op = "none" /\ th'[t].pc = "idle" /\ th'[t].sender = NoThread
          /\ th'[t].inbox = NoDecision /\ th'[t].inbox.kind = "none"
      BY <1>6 DEF SendDecision, Idle, NoDecision
    <2>4. \A u \in Threads : u # t =>
            /\ th'[u].op = th[u].op /\ th'[u].pc = th[u].pc
            /\ th'[u].call = th[u].call /\ th'[u].scope = th[u].scope
            /\ th'[u].eff = th[u].eff /\ th'[u].sender = th[u].sender
            /\ th'[u].inbox = IF u = w THEN d ELSE th[u].inbox
      BY <1>6 DEF SendDecision, IInv, TypeOK, ThreadSet
    <2>5. d.kind = "approved" => /\ ApprovedInLog(c, d.args)
                                 /\ d.args \in Args
      BY <2>1 DEF IInv, SendOK, LocalsOK, ApprovedInLog, GrantingEvent
    <2>6. w \in Threads => Registered(w) /\ th[w].call = c /\ w # t
      BY <2>2 DEF IInv, WaitOK, HeldOK
    <2>7. \A k \in Calls : pending[k] \in Threads => pending[k] \notin {t, w}
      BY <2>1 DEF IInv, WaitOK, ParkedOK
    <2> HIDE DEF d
    <2>8. LocalsOK'
      BY <2>3, <2>4, <2>5 DEF IInv, LocalsOK
    <2>9. SendOK' /\ AutoOK'
      BY <2>1, <2>3, <2>4 DEF IInv, SendOK, AutoOK
    <2>10. InboxOK'
      BY <2>1, <2>3, <2>4, <2>5, <2>6 DEF IInv, InboxOK, ApprovedInLog
    <2>11. ChannelOK'
      BY <2>3, <2>4, <2>6 DEF IInv, WaitOK, ChannelOK, Registered
    <2>12. ParkedOK'
      <3> SUFFICES ASSUME NEW k \in Calls, pending[k] \in Threads
                   PROVE  /\ th'[pending[k]].op = "await"
                          /\ th'[pending[k]].call = k
                          /\ th'[pending[k]].pc \in {"waiting", "elapsed"}
                          /\ th'[pending[k]].inbox = NoDecision
                          /\ \A u \in Threads : th'[u].sender # pending[k]
        BY <1>1 DEF ParkedOK
      <3> QED
        BY <2>3, <2>4, <2>7, EnvAssumption DEF IInv, WaitOK, ParkedOK
    <2>13. HeldOK'
      <3> SUFFICES ASSUME NEW u \in Threads, th'[u].sender \in Threads
                   PROVE  /\ th'[u].op \in {"approve", "reject"}
                          /\ th'[u].pc \in {"append", "saving", "revert", "rule", "send"}
                          /\ Registered(th[u].sender)'
                          /\ th'[th'[u].sender].call = th'[u].call
        BY DEF HeldOK, Registered
      <3>1. u # t /\ th'[u].sender = th[u].sender /\ th[u].sender # t
        BY <2>2, <2>3, <2>4, EnvAssumption
      <3> QED BY <2>4, <3>1 DEF IInv, WaitOK, HeldOK, Registered
    <2> QED
      BY <1>0, <1>2, <2>1, <2>8, <2>9, <2>10, <2>11, <2>12, <2>13
      DEF IInv, WaitOK
  <1> QED BY <1>3, <1>4, <1>5, <1>6

LEMMA InitInv == Init => IInv
  <1> SUFFICES ASSUME Init PROVE IInv
    OBVIOUS
  <1>1. TypeOK
    BY InitType
  <1>2. \A t \in Threads :
          /\ th[t].op = "none" /\ th[t].pc = "idle" /\ th[t].sender = NoThread
          /\ th[t].inbox = NoDecision /\ th[t].inbox.kind = "none"
    BY DEF Init, Idle, NoDecision
  <1>3. LocalsOK /\ SendOK /\ InboxOK /\ AutoOK
    BY <1>2 DEF LocalsOK, SendOK, InboxOK, AutoOK
  <1>4. WaitOK
    BY <1>2, EnvAssumption DEF Init, WaitOK, ParkedOK, HeldOK, ChannelOK
  <1>5. RegistryOK /\ DeliveredIsDurable
    BY DEF Init, RegistryOK, DeliveredIsDurable
  <1>6. LogSanctioned
    BY DEF Init, LogSanctioned
  <1> QED BY <1>1, <1>3, <1>4, <1>5, <1>6 DEF IInv

LEMMA StutterInv == IInv /\ UNCHANGED vars => IInv'
  BY DEF vars, IInv, TypeOK, LocalsOK, WaitOK, ParkedOK, HeldOK, ChannelOK,
     Registered, SendOK, InboxOK, ApprovedInLog, RegistryOK, AutoOK,
     DeliveredIsDurable, LogSanctioned

LEMMA NextInv == IInv /\ [Next]_vars => IInv'
  <1> SUFFICES ASSUME IInv, [Next]_vars PROVE IInv'
    OBVIOUS
  <1>1. ASSUME NEW t \in Threads, NEW c \in Calls,
               StartSubmit(t, c) \/ StartOther(t, c)
        PROVE  IInv'
    BY <1>1, StartStep
  <1>2. ASSUME NEW t \in Threads, Step(t)
        PROVE  IInv'
    <2>1. CASE SubmitStep(t)
      BY <2>1, SubmitStepInv
    <2>2. CASE LoadStep(t)
      BY <2>2, LoadStepInv
    <2>3. CASE DecideStep(t)
      BY <2>3, ClaimInv, SavedStepInv, EffectsInv DEF DecideStep
    <2>4. CASE AwaitStep(t)
      BY <2>4, AwaitStepInv
    <2>5. CASE RetrieveStep(t)
      BY <2>5, RetrieveStepInv
    <2> QED BY <1>2, <2>1, <2>2, <2>3, <2>4, <2>5 DEF Step
  <1> QED BY <1>1, <1>2, CrashStepInv, StutterInv DEF Next

-----------------------------------------------------------------------------
\* Every state of the service is well typed, whatever the environment does
\* around tool_call_approval_impl.rs.
THEOREM TypeCorrect == Spec => []TypeOK
  <1>1. IInv => TypeOK
    BY DEF IInv
  <1> QED BY <1>1, InitInv, NextInv, PTL DEF Spec

\* An executor woken by its oneshot runs the arguments of a persisted operator
\* approval (approve, phases 1 to 3).
THEOREM DeliverySafe == Spec => []DeliveredIsDurable
  <1>1. IInv => DeliveredIsDurable
    BY DEF IInv
  <1> QED BY <1>1, InitInv, NextInv, PTL DEF Spec

\* submit_proposal approves by itself only what a persisted session-scope
\* approval of the same session and tool covers.
THEOREM AutoApprovalSafe == Spec => []AutoApprovalSanctioned
  <1>1. IInv => AutoApprovalSanctioned
    BY DEF IInv, LogSanctioned, AutoOK, AutoApprovalSanctioned
  <1> QED BY <1>1, InitInv, NextInv, PTL DEF Spec
-----------------------------------------------------------------------------
(* The service implements the approval ledger.                             *)
(*                                                                         *)
(* A second invariant relates the places that know of a call: the durable  *)
(* record, the projection in memory, the cache and the tasks between them. *)
(* Memory's record may run ahead of the durable one, by an append in       *)
(* flight, or for good by one that failed; no claim is built on it as long *)
(* as the cache has an entry.  The invariant holds when no operation       *)
(* overlaps a submission, the writes of proposals and amendments succeed,  *)
(* and a write that is reported as failed did not happen.                  *)

Claiming(t) ==
  th[t].op \in {"approve", "reject", "await"} /\ th[t].pc \in {"append", "saving", "revert"}

Claimed(c) == \E t \in Threads : Claiming(t) /\ th[t].call = c

Proposing(c) == \E t \in Threads : th[t].pc = "s_proposing" /\ th[t].call = c

Marking(c) == \E t \in Threads : th[t].pc = "s_mark" /\ th[t].call = c

AmendOut(c) ==
  \E t \in Threads : th[t].op = "amend" /\ th[t].pc \in {"append", "saving"}
                     /\ th[t].call = c

HasProposal(c) == \E i \in DOMAIN log : log[i].type = "proposed" /\ log[i].call = c

\* The state of an unclaimed cache entry of a call that is pending in the
\* durable record: an amendment shows in the cache before its append.
PendingState(c) ==
  IF kept[c].amended # NoArgs \/ AmendOut(c) THEN "amended" ELSE "pending"

ClaimReason(op) ==
  CASE op = "approve" -> "none"
    [] op = "reject"  -> "operator"
    [] op = "await"   -> "operator_timeout"

\* Log and durable record tell the same story of a call.
RowOK(c) ==
  /\ kept[c].state = "absent" => kept[c] = NoEntry /\ ~HasProposal(c) /\ ~Open(c)
  /\ kept[c].state # "absent" => HasProposal(c)
  /\ kept[c].state = "pending" =>
       Open(c) /\ kept[c].approved = NoArgs /\ kept[c].reason = "none"
  /\ kept[c].state = "approved" => ~Open(c)
  /\ Resolved(kept[c]) /\ ~Resubmitted(c) => ~Open(c)

\* What the cache holds is backed by the durable record; where it holds
\* nothing, memory's record is the durable one.
CacheOK(c) ==
  /\ cache[c].state = "absent" =>
       row[c] = IF Proposing(c) THEN Project(kept[c], Proposal(c)) ELSE kept[c]
  /\ cache[c].state # "absent" => kept[c].state # "absent"
  /\ cache[c].state \in {"pending", "amended"} => Open(c) \/ Marking(c)
  /\ cache[c].state = "rejected" => kept[c].state # "approved"
  /\ cache[c].state # "absent" /\ ~Resubmitted(c) /\ ~Claimed(c) /\ ~Marking(c) =>
       /\ cache[c].approved = kept[c].approved
       /\ cache[c].reason = kept[c].reason
       /\ cache[c].state = IF kept[c].state = "pending" THEN PendingState(c)
                           ELSE kept[c].state

\* What a task may rely on, by its program counter.
SubmitOK(t) ==
  LET c == th[t].call  pc == th[t].pc IN
  /\ pc = "s_row" => cache[c].state = "absent"
  /\ pc \in {"s_propose", "s_proposing"} => kept[c].state # "approved"
  /\ pc \in {"s_insert", "s_match", "s_auto", "s_approving"} =>
       Open(c) /\ (~Resubmitted(c) => kept[c] = FreshEntry)
  /\ pc \in {"s_match", "s_auto", "s_approving", "s_mark"} => cache[c] = FreshEntry
  /\ pc = "s_mark" =>
       /\ kept[c].state = "approved"
       /\ ~Resubmitted(c) => kept[c].approved = NoArgs /\ kept[c].reason = "none"

ClaimOK(t) ==
  LET c == th[t].call IN
  Claiming(t) =>
    /\ Open(c)
    /\ cache[c].state = IF th[t].op = "approve" THEN "approved" ELSE "rejected"
    /\ th[t].prev.state \in {"pending", "amended"}
    /\ ~Resubmitted(c) =>
         /\ th[t].prev.state = PendingState(c)
         /\ th[t].prev.approved = NoArgs /\ th[t].prev.reason = "none"
         /\ cache[c].approved = IF th[t].op = "approve" THEN th[t].args ELSE NoArgs
         /\ cache[c].reason = ClaimReason(th[t].op)

TaskOK(t) ==
  LET c == th[t].call  pc == th[t].pc  op == th[t].op IN
  /\ SubmitOK(t) /\ ClaimOK(t)
  /\ pc = "fill" /\ cache[c].state = "absent" =>
       kept[c].state # "absent" /\ th[t].prev = StoredToEntry(kept[c])
  /\ pc \in {"claim", "append", "saving", "revert", "rule", "send", "register",
             "waiting", "elapsed"} => cache[c].state # "absent"
  /\ op = "approve" /\ pc \in {"rule", "send"} => kept[c].state = "approved"
  /\ th[t].inbox.kind = "approved" => kept[c].state = "approved"

\* The program counters an operation goes through.
PhaseOK(t) ==
  LET pc == th[t].pc  op == th[t].op IN
  /\ op = "none" <=> pc = "idle"
  /\ op = "submit" <=> pc \in {"s_cached", "s_row", "s_propose", "s_proposing",
                               "s_insert", "s_match", "s_auto", "s_approving",
                               "s_mark"}
  /\ op = "retrieve" <=> pc \in {"r_cached", "r_row"}
  /\ pc = "claim" => op \in {"approve", "reject", "amend"}
  /\ pc \in {"append", "saving"} => op \in {"approve", "reject", "amend", "await"}
  /\ pc = "revert" => op \in {"approve", "reject", "await"}
  /\ pc \in {"register", "waiting", "elapsed"} => op = "await"
  /\ op = "amend" => th[t].args \in Args

\* A submission is alone with its call, and one task claims a call.
Exclusive ==
  \A t, u \in Threads :
    th[t].call = th[u].call /\ t # u =>
      /\ th[t].op = "submit" => th[u].op = "none"
      /\ ~(Claiming(t) /\ Claiming(u))

LInv ==
  /\ \A c \in Calls : RowOK(c) /\ CacheOK(c)
  /\ \A t \in Threads : PhaseOK(t) /\ TaskOK(t)
  /\ Exclusive
-----------------------------------------------------------------------------
(* What an append does to the questions asked of the log                   *)

LEMMA OpenSame ==
  ASSUME TypeOK, NEW e \in EventSet, log' = Append(log, e), NEW c \in Calls,
         e.call # c \/ e.type = "amended"
  PROVE  Open(c)' <=> Open(c)
  <1> DEFINE n == Len(log)
  <1>1. log \in Seq(EventSet) /\ n \in Nat /\ Len(log') = n + 1
        /\ DOMAIN log = 1..n /\ DOMAIN log' = 1..(n + 1)
        /\ log'[n + 1] = e /\ \A i \in 1..n : log'[i] = log[i]
    BY DEF TypeOK
  <1>2. e.call # c \/ (e.type # "proposed" /\ ~IsResolution(e))
    BY DEF IsResolution
  <1>3. ASSUME Open(c) PROVE Open(c)'
    <2>1. PICK i \in 1..n :
            /\ log[i].call = c /\ log[i].type = "proposed"
            /\ \A j \in (i + 1)..n : log[j].call = c => ~IsResolution(log[j])
      BY <1>1, <1>3 DEF Open
    <2>2. log'[i].call = c /\ log'[i].type = "proposed" /\ i \in 1..(n + 1)
      BY <1>1, <2>1
    <2>3. ASSUME NEW j \in (i + 1)..(n + 1), log'[j].call = c
          PROVE  ~IsResolution(log'[j])
      <3>1. CASE j = n + 1
        BY <1>1, <1>2, <2>3, <3>1
      <3>2. CASE j # n + 1
        <4>1. j \in (i + 1)..n /\ j \in 1..n
          BY <1>1, <2>1, <3>2
        <4> QED BY <1>1, <2>1, <2>3, <4>1
      <3> QED BY <3>1, <3>2
    <2> QED BY <1>1, <2>2, <2>3 DEF Open, IsResolution
  <1>4. ASSUME Open(c)' PROVE Open(c)
    <2>1. PICK i \in 1..(n + 1) :
            /\ log'[i].call = c /\ log'[i].type = "proposed"
            /\ \A j \in (i + 1)..(n + 1) :
                 log'[j].call = c => ~(log'[j].type \in {"approved", "rejected"})
      BY <1>1, <1>4 DEF Open, IsResolution
    <2>2. i \in 1..n
      BY <1>1, <1>2, <2>1
    <2>3. \A j \in (i + 1)..n : log[j].call = c => ~IsResolution(log[j])
      <3> SUFFICES ASSUME NEW j \in (i + 1)..n, log[j].call = c
                   PROVE  ~IsResolution(log[j])
        OBVIOUS
      <3>1. j \in (i + 1)..(n + 1) /\ j \in 1..n
        BY <1>1, <2>2
      <3> QED BY <1>1, <2>1, <3>1 DEF IsResolution
    <2> QED BY <1>1, <2>1, <2>2, <2>3 DEF Open
  <1> QED BY <1>3, <1>4

LEMMA ProposalOpens ==
  ASSUME TypeOK, NEW e \in EventSet, log' = Append(log, e), e.type = "proposed"
  PROVE  Open(e.call)'
  <1> DEFINE n == Len(log)  c == e.call
  <1>1. n \in Nat /\ Len(log') = n + 1 /\ n + 1 \in DOMAIN log' /\ log'[n + 1] = e
    BY DEF TypeOK
  <1>2. \A j \in ((n + 1) + 1)..(n + 1) : FALSE
    BY <1>1
  <1> QED BY <1>1, <1>2 DEF Open

LEMMA ResolutionCloses ==
  ASSUME TypeOK, NEW e \in EventSet, log' = Append(log, e), IsResolution(e)
  PROVE  ~Open(e.call)'
  <1> DEFINE n == Len(log)
  <1>1. n \in Nat /\ Len(log') = n + 1 /\ DOMAIN log' = 1..(n + 1)
        /\ log'[n + 1] = e
    BY DEF TypeOK
  <1>2. ASSUME Open(e.call)' PROVE FALSE
    <2>1. PICK i \in 1..(n + 1) :
            /\ log'[i].type = "proposed"
            /\ \A j \in (i + 1)..(n + 1) :
                 log'[j].call = e.call => ~(log'[j].type \in {"approved", "rejected"})
      BY <1>1, <1>2 DEF Open, IsResolution
    <2>2. i # n + 1
      BY <1>1, <2>1 DEF IsResolution
    <2>3. n + 1 \in (i + 1)..(n + 1)
      BY <1>1, <2>2
    <2> QED BY <1>1, <2>1, <2>3 DEF IsResolution
  <1> QED BY <1>2

LEMMA ProposalsSame ==
  ASSUME TypeOK, NEW e \in EventSet, log' = Append(log, e), NEW c \in Calls,
         e.call # c \/ e.type # "proposed"
  PROVE  (HasProposal(c)' <=> HasProposal(c)) /\ (Resubmitted(c)' <=> Resubmitted(c))
  <1> DEFINE n == Len(log)
  <1>1. n \in Nat /\ DOMAIN log = 1..n /\ DOMAIN log' = 1..(n + 1)
        /\ log'[n + 1] = e /\ \A i \in 1..n : log'[i] = log[i]
    BY DEF TypeOK
  <1>2. \A i \in 1..(n + 1) :
          log'[i].type = "proposed" /\ log'[i].call = c => i \in 1..n
    BY <1>1
  <1>3. 1..n \subseteq 1..(n + 1)
    BY <1>1
  <1>4. HasProposal(c)' <=> HasProposal(c)
    BY <1>1, <1>2, <1>3 DEF HasProposal
  <1>5. Resubmitted(c)' <=> Resubmitted(c)
    BY <1>1, <1>2, <1>3 DEF Resubmitted
  <1> QED BY <1>4, <1>5

LEMMA ProposalCounts ==
  ASSUME TypeOK, NEW e \in EventSet, log' = Append(log, e), e.type = "proposed"
  PROVE  HasProposal(e.call)' /\ (HasProposal(e.call) => Resubmitted(e.call)')
  <1> DEFINE n == Len(log)
  <1>1. n \in Nat /\ DOMAIN log = 1..n /\ DOMAIN log' = 1..(n + 1)
        /\ log'[n + 1] = e /\ \A i \in 1..n : log'[i] = log[i]
    BY DEF TypeOK
  <1>2. n + 1 \in 1..(n + 1) /\ n + 1 \notin 1..n /\ 1..n \subseteq 1..(n + 1)
    BY <1>1
  <1>3. HasProposal(e.call)'
    BY <1>1, <1>2 DEF HasProposal
  <1>4. ASSUME HasProposal(e.call) PROVE Resubmitted(e.call)'
    <2>1. PICK i \in 1..n : log[i].type = "proposed" /\ log[i].call = e.call
      BY <1>1, <1>4 DEF HasProposal
    <2>2. /\ i \in DOMAIN log' /\ n + 1 \in DOMAIN log' /\ i # n + 1
          /\ log'[i].type = "proposed" /\ log'[n + 1].type = "proposed"
          /\ log'[i].call = e.call /\ log'[n + 1].call = e.call
      BY <1>1, <1>2, <2>1
    <2> QED BY <2>2 DEF Resubmitted
  <1> QED BY <1>3, <1>4

LEMMA ResubmittedNeedsProposal ==
  ASSUME NEW c \in Calls, Resubmitted(c) PROVE HasProposal(c)
  BY DEF Resubmitted, HasProposal
-----------------------------------------------------------------------------
(* A step of task t on call c, seen from the other calls and tasks         *)

\* The step concerns task t and call c only.
Local(t, c) ==
  /\ th[t].op # "none" => th[t].call = c
  /\ th'[t].op # "none" => th'[t].call = c
  /\ \A u \in Threads : u # t =>
       /\ th'[u].op = th[u].op /\ th'[u].pc = th[u].pc /\ th'[u].call = th[u].call
       /\ th'[u].args = th[u].args /\ th'[u].prev = th[u].prev
       /\ th'[u].inbox.kind = "approved" =>
            \/ th[u].inbox.kind = "approved"
            \/ th[u].op # "none" /\ kept[th[u].call].state = "approved"
  /\ \A d \in Calls : d # c =>
       /\ kept'[d] = kept[d] /\ row'[d] = row[d] /\ cache'[d] = cache[d]
       /\ Open(d)' <=> Open(d)
       /\ HasProposal(d)' <=> HasProposal(d)
       /\ Resubmitted(d)' <=> Resubmitted(d)

\* What the step does to the call itself, as far as the tasks on it may care:
\* nothing; or it is a submission's, which is alone; or the entry stays, an
\* approval with it, and so does what a claim of another task rests on.
Considerate(t, c) ==
  \/ /\ cache'[c] = cache[c] /\ kept'[c] = kept[c] /\ (Open(c)' <=> Open(c))
     /\ (Resubmitted(c)' <=> Resubmitted(c)) /\ (AmendOut(c)' <=> AmendOut(c))
  \/ th[t].op = "submit"
  \/ /\ th[t].op # "none"
     /\ cache'[c].state # "absent"
     /\ kept[c].state = "approved" => kept'[c].state = "approved"
     /\ \/ \A u \in Threads : u # t => ~(Claiming(u) /\ th[u].call = c)
        \/ /\ cache'[c] = cache[c] /\ (Open(c)' <=> Open(c))
           /\ (Resubmitted(c)' <=> Resubmitted(c))
           /\ PendingState(c)' = PendingState(c)

LEMMA TasksElsewhere ==
  ASSUME LInv, NEW t \in Threads, NEW c \in Calls, Local(t, c), PhaseOK(t)',
         NEW d \in Calls, d # c
  PROVE  /\ Claimed(d)' <=> Claimed(d)
         /\ Marking(d)' <=> Marking(d)
         /\ Proposing(d)' <=> Proposing(d)
         /\ AmendOut(d)' <=> AmendOut(d)
  <1>1. /\ ~(th[t].op # "none" /\ th[t].call = d)
        /\ ~(th'[t].op # "none" /\ th'[t].call = d)
    BY DEF Local
  <1>2. /\ th[t].op = "none" => th[t].pc \notin {"s_mark", "s_proposing"}
        /\ th'[t].op = "none" => th'[t].pc \notin {"s_mark", "s_proposing"}
    BY DEF LInv, PhaseOK
  <1>3. \A u \in Threads : u # t =>
          th'[u].op = th[u].op /\ th'[u].pc = th[u].pc /\ th'[u].call = th[u].call
    BY DEF Local
  <1>4. \A u \in Threads : (Claiming(u) /\ th[u].call = d) =>
          u # t /\ th'[u].op \in {"approve", "reject", "await"}
          /\ th'[u].pc \in {"append", "saving", "revert"} /\ th'[u].call = d
    BY <1>1, <1>3 DEF Claiming
  <1>5. \A u \in Threads :
          th'[u].op \in {"approve", "reject", "await"}
          /\ th'[u].pc \in {"append", "saving", "revert"} /\ th'[u].call = d =>
             Claiming(u) /\ th[u].call = d
    BY <1>1, <1>3 DEF Claiming
  <1>6. Claimed(d)' <=> Claimed(d)
    BY <1>4, <1>5 DEF Claimed, Claiming
  <1>7. Marking(d)' <=> Marking(d)
    BY <1>1, <1>2, <1>3 DEF Marking
  <1>9. Proposing(d)' <=> Proposing(d)
    BY <1>1, <1>2, <1>3 DEF Proposing
  <1>8. AmendOut(d)' <=> AmendOut(d)
    BY <1>1, <1>3 DEF AmendOut
  <1> QED BY <1>6, <1>7, <1>8, <1>9

LEMMA OtherCalls ==
  ASSUME LInv, NEW t \in Threads, NEW c \in Calls, Local(t, c), PhaseOK(t)',
         NEW d \in Calls, d # c
  PROVE  RowOK(d)' /\ CacheOK(d)'
  <1>1. /\ Claimed(d)' <=> Claimed(d)
        /\ Marking(d)' <=> Marking(d)
        /\ Proposing(d)' <=> Proposing(d)
        /\ AmendOut(d)' <=> AmendOut(d)
    BY TasksElsewhere
  <1>2. /\ kept'[d] = kept[d] /\ row'[d] = row[d] /\ cache'[d] = cache[d]
        /\ Open(d)' <=> Open(d)
        /\ HasProposal(d)' <=> HasProposal(d)
        /\ Resubmitted(d)' <=> Resubmitted(d)
    BY DEF Local
  <1>3. RowOK(d) /\ CacheOK(d)
    BY DEF LInv
  <1> QED BY <1>1, <1>2, <1>3 DEF RowOK, CacheOK, Resolved, PendingState

LEMMA OtherTasks ==
  ASSUME IInv, LInv, NEW t \in Threads, NEW c \in Calls, Local(t, c),
         PhaseOK(t)', Considerate(t, c), NEW u \in Threads, u # t
  PROVE  PhaseOK(u)' /\ TaskOK(u)'
  <1> SUFFICES ASSUME NEW d \in Calls, d = th[u].call
               PROVE  PhaseOK(u)' /\ TaskOK(u)'
    BY DEF IInv, TypeOK, ThreadSet
  <1>1. /\ th'[u].op = th[u].op /\ th'[u].pc = th[u].pc /\ th'[u].call = d
        /\ th'[u].args = th[u].args /\ th'[u].prev = th[u].prev
        /\ th'[u].inbox.kind = "approved" =>
             \/ th[u].inbox.kind = "approved"
             \/ th[u].op # "none" /\ kept[d].state = "approved"
    BY DEF Local
  <1>3. PhaseOK(u) /\ TaskOK(u) /\ PhaseOK(u)'
    BY <1>1 DEF LInv, PhaseOK
  <1>a. CASE /\ cache'[d] = cache[d] /\ kept'[d] = kept[d] /\ (Open(d)' <=> Open(d))
             /\ (Resubmitted(d)' <=> Resubmitted(d))
             /\ (AmendOut(d)' <=> AmendOut(d))
    BY <1>1, <1>3, <1>a
    DEF TaskOK, SubmitOK, ClaimOK, Claiming, PendingState
  <1>b. CASE d # c
    <2>1. /\ cache'[d] = cache[d] /\ kept'[d] = kept[d] /\ (Open(d)' <=> Open(d))
          /\ (Resubmitted(d)' <=> Resubmitted(d))
      BY <1>b DEF Local
    <2>2. AmendOut(d)' <=> AmendOut(d)
      BY <1>b, TasksElsewhere
    <2> QED BY <1>a, <2>1, <2>2
  <1>c. CASE th[u].op = "none"
    <2>1. th[u].inbox.kind = "none"
      BY <1>c DEF IInv, WaitOK, ChannelOK, Registered, NoDecision
    <2>2. th'[u].op = "none" /\ th'[u].pc = "idle" /\ th'[u].inbox.kind # "approved"
      BY <1>1, <1>3, <1>c, <2>1 DEF PhaseOK
    <2> QED BY <1>3, <2>2 DEF TaskOK, SubmitOK, ClaimOK, Claiming
  <1>d. CASE d = c /\ th[u].op # "none" /\ th[t].op = "submit"
    <2>1. th[t].call = c
      BY <1>d DEF Local
    <2> QED BY <1>d, <2>1 DEF LInv, Exclusive
  <1>e. CASE /\ d = c /\ th[u].op # "none" /\ th[t].op \notin {"none", "submit"}
             /\ cache'[c].state # "absent"
             /\ kept[c].state = "approved" => kept'[c].state = "approved"
             /\ \/ \A v \in Threads : v # t => ~(Claiming(v) /\ th[v].call = c)
                \/ /\ cache'[c] = cache[c] /\ (Open(c)' <=> Open(c))
                   /\ (Resubmitted(c)' <=> Resubmitted(c))
                   /\ PendingState(c)' = PendingState(c)
    <2>1. th[t].call = c
      BY <1>e DEF Local
    <2>2. th[u].op # "submit"
      BY <1>e, <2>1 DEF LInv, Exclusive
    <2>3. th'[u].op = th[u].op /\ th'[u].op # "submit" /\ th'[u].call = c
      BY <1>1, <1>e, <2>2
    <2>4. th[u].pc \notin {"s_row", "s_propose", "s_proposing", "s_insert", "s_match",
                            "s_auto", "s_approving", "s_mark"}
      BY <1>3, <2>2 DEF PhaseOK
    <2>5. SubmitOK(u)'
      BY <1>1, <2>4 DEF SubmitOK
    <2>6. ClaimOK(u)'
      <3>1. CASE ~Claiming(u)
        BY <1>1, <3>1 DEF ClaimOK, Claiming
      <3>2. CASE Claiming(u)
        <4>1. /\ cache'[c] = cache[c] /\ (Open(c)' <=> Open(c))
              /\ (Resubmitted(c)' <=> Resubmitted(c))
              /\ PendingState(c)' = PendingState(c)
          BY <1>e, <3>2
        <4>2. ClaimOK(u)
          BY <1>3 DEF TaskOK
        <4> QED BY <1>1, <1>e, <3>2, <4>1, <4>2 DEF ClaimOK, Claiming
      <3> QED BY <3>1, <3>2
    <2> QED BY <1>1, <1>3, <1>e, <2>5, <2>6 DEF TaskOK
  <1> QED
    BY <1>a, <1>b, <1>c, <1>d, <1>e DEF Considerate

\* Being alone with a call and holding its only claim carry over a step that
\* neither begins an operation nor claims what another task has claimed.
LEMMA ExclusiveStays ==
  ASSUME Exclusive, NEW t \in Threads, NEW c \in Calls, Local(t, c),
         th[t].op # "none", th'[t].op \in {"none", th[t].op},
         th'[t].op \in {"approve", "reject", "await"}
           /\ th'[t].pc \in {"append", "saving", "revert"} =>
           \/ Claiming(t)
           \/ \A u \in Threads : u # t => ~(Claiming(u) /\ th[u].call = c)
  PROVE  Exclusive'
  <1>1. /\ th[t].call = c
        /\ th'[t].op # "none" => th'[t].call = c
        /\ \A u \in Threads : u # t =>
            th'[u].op = th[u].op /\ th'[u].pc = th[u].pc /\ th'[u].call = th[u].call
    BY DEF Local
  <1> SUFFICES ASSUME NEW u \in Threads, NEW v \in Threads,
                      th'[u].call = th'[v].call, u # v
               PROVE  /\ th'[u].op = "submit" => th'[v].op = "none"
                      /\ ~(Claiming(u)' /\ Claiming(v)')
    BY DEF Exclusive
  <1>2. CASE u # t /\ v # t
    BY <1>1, <1>2 DEF Exclusive, Claiming
  <1>3. CASE u = t /\ v # t
    BY <1>1, <1>3 DEF Exclusive, Claiming
  <1>4. CASE u # t /\ v = t
    BY <1>1, <1>4 DEF Exclusive, Claiming
  <1> QED BY <1>2, <1>3, <1>4

\* The pieces of the invariant that a step on call c of task t leaves to show.
LEMMA Assemble ==
  ASSUME IInv, LInv, NEW t \in Threads, NEW c \in Calls, Local(t, c),
         Considerate(t, c), PhaseOK(t)', TaskOK(t)', RowOK(c)', CacheOK(c)',
         Exclusive'
  PROVE  LInv'
  <1>1. \A d \in Calls : RowOK(d)' /\ CacheOK(d)'
    BY OtherCalls
  <1>2. \A u \in Threads : PhaseOK(u)' /\ TaskOK(u)'
    BY OtherTasks
  <1> QED BY <1>1, <1>2 DEF LInv

\* A task that goes on, or ends, without touching log and cache.  It may append
\* in memory only, to the record of a call the cache has an entry for.
LEMMA Quiet ==
  ASSUME IInv, LInv, NEW t \in Threads, NEW c \in Calls, th[t].call = c,
         log' = log, kept' = kept, cache' = cache, Local(t, c),
         row'[c] = row[c] \/ cache[c].state # "absent",
         th[t].op # "none", th'[t].op \in {"none", th[t].op},
         PhaseOK(t)', TaskOK(t)',
         th[t].pc \notin {"s_mark", "s_proposing"},
         th'[t].pc \notin {"s_mark", "s_proposing"},
         (th[t].op = "amend" /\ th[t].pc \in {"append", "saving"})
           <=> (th'[t].op = "amend" /\ th'[t].pc \in {"append", "saving"}),
         Claiming(t)' <=> Claiming(t)
  PROVE  LInv'
  <1>0. \A u \in Threads : u # t =>
          th'[u].op = th[u].op /\ th'[u].pc = th[u].pc /\ th'[u].call = th[u].call
    BY DEF Local
  <1>1. (Open(c)' <=> Open(c)) /\ (HasProposal(c)' <=> HasProposal(c))
        /\ (Resubmitted(c)' <=> Resubmitted(c))
    BY DEF Open, HasProposal, Resubmitted
  <1>2. AmendOut(c)' <=> AmendOut(c)
    BY <1>0 DEF AmendOut, Local
  <1>3. (Marking(c)' <=> Marking(c)) /\ (Proposing(c)' <=> Proposing(c))
    BY <1>0 DEF Marking, Proposing
  <1>4. th'[t].call = c \/ ~Claiming(t)'
    BY DEF Local, Claiming
  <1>5. Claimed(c)' <=> Claimed(c)
    BY <1>0, <1>4 DEF Claimed, Claiming
  <1>6. Considerate(t, c)
    BY <1>1, <1>2 DEF Considerate
  <1>7. RowOK(c) /\ CacheOK(c)
    BY DEF LInv
  <1>8. RowOK(c)' /\ CacheOK(c)'
    BY <1>1, <1>2, <1>3, <1>5, <1>7 DEF RowOK, CacheOK, PendingState, Resolved
  <1>9. Exclusive'
    BY ExclusiveStays DEF Claiming, LInv
  <1> QED BY <1>6, <1>8, <1>9, Assemble

\* Log and durable record unchanged: the step is local if cache and memory of
\* other calls and the other tasks stay.
LEMMA LocalStep ==
  ASSUME IInv, NEW t \in Threads, th[t].op # "none", log' = log, kept' = kept,
         \A d \in Calls :
           d # th[t].call => cache'[d] = cache[d] /\ row'[d] = row[d],
         th'[t].op # "none" => th'[t].call = th[t].call,
         \A u \in Threads : u # t =>
           /\ th'[u].op = th[u].op /\ th'[u].pc = th[u].pc
           /\ th'[u].call = th[u].call /\ th'[u].args = th[u].args
           /\ th'[u].prev = th[u].prev /\ th'[u].inbox = th[u].inbox
  PROVE  Local(t, th[t].call)
  <1>1. \A d \in Calls :
          /\ Open(d)' <=> Open(d)
          /\ HasProposal(d)' <=> HasProposal(d)
          /\ Resubmitted(d)' <=> Resubmitted(d)
    BY DEF Open, HasProposal, Resubmitted
  <1> QED BY <1>1 DEF Local

LEMMA ReturnFrame ==
  ASSUME IInv, NEW t \in Threads, Return(t)
  PROVE  /\ th'[t] = Idle
         /\ \A u \in Threads : u # t =>
              /\ th'[u].op = th[u].op /\ th'[u].pc = th[u].pc
              /\ th'[u].call = th[u].call /\ th'[u].args = th[u].args
              /\ th'[u].prev = th[u].prev /\ th'[u].inbox = th[u].inbox
  BY DEF IInv, TypeOK, ThreadSet, Return

LEMMA MoveFrame ==
  ASSUME IInv, NEW t \in Threads, NEW x, th' = [th EXCEPT ![t] = x]
  PROVE  /\ th'[t] = x
         /\ \A u \in Threads : u # t =>
              /\ th'[u].op = th[u].op /\ th'[u].pc = th[u].pc
              /\ th'[u].call = th[u].call /\ th'[u].args = th[u].args
              /\ th'[u].prev = th[u].prev /\ th'[u].inbox = th[u].inbox
  BY DEF IInv, TypeOK

LEMMA IdleOK ==
  ASSUME NEW t \in Threads, th'[t] = Idle
  PROVE  PhaseOK(t)' /\ TaskOK(t)' /\ ~Claiming(t)' /\ th'[t].op = "none"
         /\ th'[t].pc = "idle"
  <1>1. th'[t].op = "none" /\ th'[t].pc = "idle" /\ th'[t].inbox.kind = "none"
    BY DEF Idle, NoDecision
  <1> QED BY <1>1 DEF PhaseOK, TaskOK, SubmitOK, ClaimOK, Claiming

LEMMA QuietEnd ==
  ASSUME IInv, LInv, NEW t \in Threads, th[t].op # "none",
         log' = log, kept' = kept, row' = row, cache' = cache, Return(t),
         th[t].pc \notin {"s_mark", "s_proposing", "append", "saving", "revert"}
  PROVE  LInv'
  <1>1. Local(t, th[t].call)
    BY ReturnFrame, IdleOK, LocalStep
  <1>2. th[t].call \in Calls
    BY DEF IInv, TypeOK, ThreadSet
  <1>3. ~Claiming(t)
    BY DEF Claiming
  <1> QED BY <1>1, <1>2, <1>3, ReturnFrame, IdleOK, Quiet

LEMMA GoFrame ==
  ASSUME IInv, NEW t \in Threads, NEW pc \in PCs, Goto(t, pc)
  PROVE  /\ th'[t].pc = pc /\ th'[t].op = th[t].op /\ th'[t].call = th[t].call
         /\ th'[t].args = th[t].args /\ th'[t].prev = th[t].prev
         /\ th'[t].inbox = th[t].inbox
         /\ \A u \in Threads : u # t =>
              /\ th'[u].op = th[u].op /\ th'[u].pc = th[u].pc
              /\ th'[u].call = th[u].call /\ th'[u].args = th[u].args
              /\ th'[u].prev = th[u].prev /\ th'[u].inbox = th[u].inbox
  BY DEF IInv, TypeOK, ThreadSet, Goto

LEMMA QuietGo ==
  ASSUME IInv, LInv, NEW t \in Threads, NEW pc \in PCs, Goto(t, pc),
         th[t].op # "none", log' = log, kept' = kept, row' = row, cache' = cache,
         th[t].pc \notin {"s_mark", "s_proposing", "append", "saving", "revert"},
         pc \notin {"s_mark", "s_proposing", "append", "saving", "revert"},
         PhaseOK(t)', TaskOK(t)'
  PROVE  LInv'
  <1>0. /\ th'[t].pc = pc /\ th'[t].op = th[t].op /\ th'[t].call = th[t].call
        /\ \A u \in Threads : u # t =>
              /\ th'[u].op = th[u].op /\ th'[u].pc = th[u].pc
              /\ th'[u].call = th[u].call /\ th'[u].args = th[u].args
              /\ th'[u].prev = th[u].prev /\ th'[u].inbox = th[u].inbox
    BY GoFrame
  <1>1. Local(t, th[t].call)
    BY <1>0, LocalStep
  <1>2. th[t].call \in Calls
    BY DEF IInv, TypeOK, ThreadSet
  <1>3. ~Claiming(t) /\ ~Claiming(t)'
    BY <1>0 DEF Claiming
  <1> QED BY <1>0, <1>1, <1>2, <1>3, Quiet

\* What TaskOK asks of a task depends on its program counter alone where log,
\* record and cache stay.
LEMMA GoTaskOK ==
  ASSUME IInv, LInv, NEW t \in Threads, NEW pc \in PCs, Goto(t, pc),
         log' = log, kept' = kept, row' = row, cache' = cache,
         pc \notin {"append", "saving", "revert", "fill"},
         pc = "s_row" => cache[th[t].call].state = "absent",
         pc \in {"s_propose", "s_proposing"} => kept[th[t].call].state # "approved",
         pc \in {"s_insert", "s_match", "s_auto", "s_approving", "s_mark"} =>
           th[t].pc = "s_match" /\ pc = "s_auto",
         pc \in {"claim", "rule", "send", "register", "waiting", "elapsed"} =>
           cache[th[t].call].state # "absent",
         pc \in {"rule", "send"} => th[t].pc = "rule"
  PROVE  TaskOK(t)'
  <1> SUFFICES ASSUME NEW c \in Calls, c = th[t].call
               PROVE  TaskOK(t)'
    BY DEF IInv, TypeOK, ThreadSet
  <1>0. /\ th'[t].pc = pc /\ th'[t].op = th[t].op /\ th'[t].call = c
        /\ th'[t].args = th[t].args /\ th'[t].prev = th[t].prev
        /\ th'[t].inbox = th[t].inbox
    BY GoFrame
  <1>1. (Open(c)' <=> Open(c)) /\ (Resubmitted(c)' <=> Resubmitted(c))
    BY DEF Open, Resubmitted
  <1>2. TaskOK(t)
    BY DEF LInv
  <1>3. ClaimOK(t)'
    BY <1>0 DEF ClaimOK, Claiming
  <1>4. SubmitOK(t)'
    BY <1>0, <1>1, <1>2 DEF TaskOK, SubmitOK
  <1> QED BY <1>0, <1>2, <1>3, <1>4 DEF TaskOK

LEMMA GoPhaseOK ==
  ASSUME IInv, LInv, NEW t \in Threads, NEW pc \in PCs, Goto(t, pc),
         pc # "idle", th[t].op # "none",
         th[t].op = "submit" <=>
           pc \in {"s_cached", "s_row", "s_propose", "s_proposing", "s_insert",
                   "s_match", "s_auto", "s_approving", "s_mark"},
         th[t].op = "retrieve" <=> pc \in {"r_cached", "r_row"},
         pc = "claim" => th[t].op \in {"approve", "reject", "amend"},
         pc \in {"append", "saving"} => th[t].op \in {"approve", "reject", "amend", "await"},
         pc = "revert" => th[t].op \in {"approve", "reject", "await"},
         pc \in {"register", "waiting", "elapsed"} => th[t].op = "await"
  PROVE  PhaseOK(t)'
  <1>1. th'[t].pc = pc /\ th'[t].op = th[t].op /\ th'[t].args = th[t].args
    BY GoFrame
  <1>2. PhaseOK(t)
    BY DEF LInv
  <1> QED BY <1>1, <1>2 DEF PhaseOK

\* While a submission works on its call it reads memory's record of it only
\* where the cache has no entry, and then it is the durable one.
LEMMA MemoryIsDurable ==
  ASSUME LInv, NEW t \in Threads, NEW c \in Calls, c = th[t].call,
         th[t].op # "none", th[t].pc # "s_proposing", cache[c].state = "absent"
  PROVE  row[c] = kept[c] /\ ~Proposing(c)
  <1>1. \A u \in Threads : th[u].pc = "s_proposing" => th[u].op = "submit"
    BY DEF LInv, PhaseOK
  <1>2. ~Proposing(c)
    BY <1>1 DEF Proposing, LInv, Exclusive
  <1> QED BY <1>2 DEF LInv, CacheOK

LEMMA SubmitQuiet ==
  ASSUME IInv, LInv, "propose_fail" \notin Env, "unsure" \notin Env,
         NEW t \in Threads,
         \/ SubmitCheckCache(t) \/ SubmitCheckRow(t) \/ SubmitMatch(t)
         \/ SubmitFails(t)
  PROVE  LInv'
  <1> SUFFICES ASSUME NEW c \in Calls, c = th[t].call
               PROVE  LInv'
    BY DEF IInv, TypeOK, ThreadSet
  <1>0. /\ log' = log /\ kept' = kept /\ row' = row /\ cache' = cache
        /\ th[t].op = "submit"
        /\ th[t].pc \in {"s_cached", "s_row", "s_match", "s_approving"}
    BY DEF SubmitCheckCache, SubmitCheckRow, SubmitMatch, SubmitFails,
       StoreUnchanged, MemoryUnchanged, At, PersistFails
  <1>1. CASE Return(t)
    BY <1>0, <1>1, QuietEnd
  <1>2. CASE Goto(t, "s_row") /\ cache[c].state = "absent"
    BY <1>0, <1>2, GoTaskOK, GoPhaseOK, QuietGo DEF PCs
  <1>3. CASE Goto(t, "s_auto") /\ th[t].pc = "s_match"
    BY <1>0, <1>3, GoTaskOK, GoPhaseOK, QuietGo DEF PCs
  <1>4. CASE Goto(t, "s_propose") /\ kept[c].state # "approved"
    BY <1>0, <1>4, GoTaskOK, GoPhaseOK, QuietGo DEF PCs
  <1>5. CASE /\ th[t].pc = "s_cached" /\ Goto(t, "s_propose")
             /\ cache[c].state \notin {"approved", "absent"}
    <2>1. cache[c].state \in {"pending", "amended", "rejected"}
      BY <1>5 DEF IInv, TypeOK, EntrySet
    <2>2. ~Marking(c)
      <3>1. \A u \in Threads : th[u].pc = "s_mark" => th[u].op = "submit"
        BY DEF LInv, PhaseOK
      <3> QED BY <1>0, <1>5, <3>1 DEF Marking, LInv, Exclusive
    <2>3. kept[c].state # "approved"
      BY <2>1, <2>2 DEF LInv, CacheOK, RowOK
    <2> QED BY <1>4, <1>5, <2>3
  <1>6. CASE /\ th[t].pc = "s_row" /\ Goto(t, "s_propose")
             /\ row[c].state # "approved"
    <2>1. row[c] = kept[c]
      BY <1>0, <1>6, MemoryIsDurable DEF LInv, TaskOK, SubmitOK
    <2> QED BY <1>4, <1>6, <2>1
  <1> QED
    BY <1>1, <1>2, <1>3, <1>4, <1>5, <1>6
    DEF SubmitCheckCache, SubmitCheckRow, SubmitMatch, SubmitFails, At

LEMMA ProceedFrame ==
  ASSUME IInv, NEW t \in Threads, NEW pc \in PCs, Proceed(t, pc)
  PROVE  /\ th'[t].pc = pc /\ th'[t].op = th[t].op /\ th'[t].call = th[t].call
         /\ th'[t].args = th[t].args /\ th'[t].inbox = th[t].inbox
         /\ \A u \in Threads : u # t =>
              /\ th'[u].op = th[u].op /\ th'[u].pc = th[u].pc
              /\ th'[u].call = th[u].call /\ th'[u].args = th[u].args
              /\ th'[u].prev = th[u].prev /\ th'[u].inbox = th[u].inbox
  <1> DEFINE x == [[th[t] EXCEPT !.pc = pc] EXCEPT !.prev = NoEntry]
  <1>1. th' = [th EXCEPT ![t] = x]
    BY DEF Proceed, IInv, TypeOK
  <1>2. /\ x.pc = pc /\ x.op = th[t].op /\ x.call = th[t].call
        /\ x.args = th[t].args /\ x.inbox = th[t].inbox
    BY DEF IInv, TypeOK, ThreadSet
  <1> HIDE DEF x
  <1> QED BY <1>1, <1>2, MoveFrame

\* An operation goes on from the entry it loaded.
LEMMA QuietProceed ==
  ASSUME IInv, LInv, NEW t \in Threads, NEW pc \in {"claim", "register"},
         Proceed(t, pc), log' = log, kept' = kept, row' = row, cache' = cache,
         th[t].pc = "load", cache[th[t].call].state # "absent",
         IF pc = "claim" THEN th[t].op \in {"approve", "reject", "amend"}
         ELSE th[t].op = "await"
  PROVE  LInv'
  <1> SUFFICES ASSUME NEW c \in Calls, c = th[t].call
               PROVE  LInv'
    BY DEF IInv, TypeOK, ThreadSet
  <1>0. pc \in PCs
    BY DEF PCs
  <1>1. /\ th'[t].pc = pc /\ th'[t].op = th[t].op /\ th'[t].call = c
        /\ th'[t].args = th[t].args /\ th'[t].inbox = th[t].inbox
        /\ \A u \in Threads : u # t =>
              /\ th'[u].op = th[u].op /\ th'[u].pc = th[u].pc
              /\ th'[u].call = th[u].call /\ th'[u].args = th[u].args
              /\ th'[u].prev = th[u].prev /\ th'[u].inbox = th[u].inbox
    BY <1>0, ProceedFrame
  <1>2. Local(t, c)
    BY <1>1, LocalStep
  <1>3. PhaseOK(t) /\ TaskOK(t)
    BY DEF LInv
  <1>4. PhaseOK(t)' /\ TaskOK(t)' /\ ~Claiming(t) /\ ~Claiming(t)'
    BY <1>1, <1>3 DEF PhaseOK, TaskOK, SubmitOK, ClaimOK, Claiming
  <1> QED BY <1>1, <1>2, <1>4, Quiet

LEMMA LoadQuiet ==
  ASSUME IInv, LInv, NEW t \in Threads,
         LoadCached(t) \/ LoadFetch(t) \/ LoadFails(t)
  PROVE  LInv'
  <1> SUFFICES ASSUME NEW c \in Calls, c = th[t].call
               PROVE  LInv'
    BY DEF IInv, TypeOK, ThreadSet
  <1>0. /\ log' = log /\ kept' = kept /\ row' = row /\ cache' = cache
        /\ th[t].pc \in {"load", "fetch", "r_row"}
    BY DEF LoadCached, LoadFetch, LoadFails, StoreUnchanged, MemoryUnchanged
  <1>p. th[t].op \notin {"none", "submit"}
    BY <1>0 DEF LInv, PhaseOK
  <1>1. CASE Return(t)
    BY <1>0, <1>p, <1>1, QuietEnd
  <1>2. CASE Goto(t, "fetch") /\ th[t].op # "retrieve"
    BY <1>0, <1>p, <1>2, GoTaskOK, GoPhaseOK, QuietGo DEF PCs
  <1>3. CASE /\ th[t].op # "await" /\ Proceed(t, "claim") /\ th[t].pc = "load"
             /\ cache[c].state # "absent" /\ th[t].op # "retrieve"
    <2>1. th[t].op \in {"approve", "reject", "amend"}
      BY <1>p, <1>3 DEF IInv, TypeOK, ThreadSet, OpNames
    <2> QED BY <1>0, <1>p, <1>3, <2>1, QuietProceed
  <1>4. CASE /\ th[t].op = "await" /\ Proceed(t, "register") /\ th[t].pc = "load"
             /\ cache[c].state # "absent"
    BY <1>0, <1>p, <1>4, QuietProceed
  <1>5. CASE /\ row[c].state # "absent" /\ th[t].pc = "fetch"
             /\ th' = [th EXCEPT ![t].pc = "fill", ![t].prev = StoredToEntry(row[c])]
    <2> DEFINE x == [[th[t] EXCEPT !.pc = "fill"] EXCEPT !.prev = StoredToEntry(row[c])]
    <2>1. th' = [th EXCEPT ![t] = x]
      BY <1>5 DEF IInv, TypeOK
    <2>2. /\ x.pc = "fill" /\ x.op = th[t].op /\ x.call = c /\ x.args = th[t].args
          /\ x.prev = StoredToEntry(row[c]) /\ x.inbox = th[t].inbox
      BY DEF IInv, TypeOK, ThreadSet
    <2> HIDE DEF x
    <2>3. th'[t] = x
      BY <2>1, MoveFrame
    <2>4. Local(t, c)
      BY <1>0, <1>p, <2>1, <2>2, <2>3, MoveFrame, LocalStep
    <2>5. PhaseOK(t)'
      BY <1>p, <1>5, <2>2, <2>3 DEF PhaseOK, LInv
    <2>8. cache[c].state = "absent" => row[c] = kept[c]
      BY <1>p, <1>5, MemoryIsDurable
    <2>6. TaskOK(t)'
      BY <1>0, <1>5, <2>2, <2>3, <2>8
      DEF TaskOK, SubmitOK, ClaimOK, Claiming, LInv
    <2>7. ~Claiming(t) /\ ~Claiming(t)'
      BY <1>0, <2>2, <2>3 DEF Claiming
    <2> QED BY <1>0, <1>p, <2>2, <2>3, <2>4, <2>5, <2>6, <2>7, Quiet
  <1>6. LoadCached(t) => th[t].op # "retrieve"
    BY DEF LoadCached, LInv, PhaseOK
  <1> QED
    BY <1>0, <1>1, <1>2, <1>3, <1>4, <1>5, <1>6
    DEF LoadCached, LoadFetch, LoadFails, Loaded

LEMMA OtherQuiet ==
  ASSUME IInv, LInv, NEW t \in Threads,
         \/ ClaimRefused(t) \/ ApprovePushRule(t) \/ AwaitRegister(t)
         \/ AwaitDelivered(t) \/ AwaitCanceled(t)
         \/ RetrieveCached(t) \/ RetrieveRow(t)
  PROVE  LInv'
  <1>0. /\ log' = log /\ kept' = kept /\ row' = row /\ cache' = cache
        /\ th[t].pc \in {"claim", "rule", "register", "waiting", "r_cached", "r_row"}
    BY DEF ClaimRefused, ApprovePushRule, AwaitRegister, AwaitDelivered,
       AwaitCanceled, RetrieveCached, RetrieveRow, StoreUnchanged,
       MemoryUnchanged, At
  <1>p. th[t].op \notin {"none", "submit"} /\ TaskOK(t)
    BY <1>0 DEF LInv, PhaseOK
  <1>1. CASE Return(t)
    BY <1>0, <1>p, <1>1, QuietEnd
  <1>2. CASE ApprovePushRule(t)
    <2>1. /\ Goto(t, "send") /\ th[t].op = "approve" /\ th[t].pc = "rule"
          /\ cache[th[t].call].state # "absent"
      BY <1>2, <1>p DEF ApprovePushRule, At, TaskOK
    <2> QED BY <1>0, <1>p, <2>1, GoTaskOK, GoPhaseOK, QuietGo DEF PCs
  <1>3. CASE AwaitRegister(t) /\ Goto(t, "waiting")
    <2>1. th[t].op = "await" /\ th[t].pc = "register"
          /\ cache[th[t].call].state # "absent"
      BY <1>3, <1>p DEF AwaitRegister, At, TaskOK
    <2> QED BY <1>0, <1>3, <1>p, <2>1, GoTaskOK, GoPhaseOK, QuietGo DEF PCs
  <1>4. CASE RetrieveCached(t) /\ Goto(t, "r_row")
    <2>1. th[t].op = "retrieve"
      BY <1>4 DEF RetrieveCached, At
    <2> QED BY <1>0, <1>4, <1>p, <2>1, GoTaskOK, GoPhaseOK, QuietGo DEF PCs
  <1> QED
    BY <1>1, <1>2, <1>3, <1>4
    DEF ClaimRefused, AwaitRegister, AwaitDelivered, AwaitCanceled,
        RetrieveCached, RetrieveRow

LEMMA ElapsedQuiet ==
  ASSUME IInv, LInv, NEW t \in Threads, AwaitElapsed(t)
  PROVE  LInv'
  <1> SUFFICES ASSUME NEW c \in Calls, c = th[t].call
               PROVE  LInv'
    BY DEF IInv, TypeOK, ThreadSet
  <1>0. /\ log' = log /\ kept' = kept /\ row' = row /\ cache' = cache
        /\ th[t].op = "await" /\ th[t].pc = "waiting"
    BY DEF AwaitElapsed, At, StoreUnchanged, MemoryUnchanged
  <1>1. /\ th'[t].pc = "elapsed" /\ th'[t].op = "await" /\ th'[t].call = c
        /\ th'[t].args = th[t].args /\ th'[t].inbox = th[t].inbox
        /\ \A u \in Threads : u # t =>
              /\ th'[u].op = th[u].op /\ th'[u].pc = th[u].pc
              /\ th'[u].call = th[u].call /\ th'[u].args = th[u].args
              /\ th'[u].prev = th[u].prev /\ th'[u].inbox = th[u].inbox
    BY <1>0 DEF AwaitElapsed, IInv, TypeOK, ThreadSet
  <1>2. Local(t, c)
    BY <1>0, <1>1, LocalStep
  <1>3. TaskOK(t)
    BY DEF LInv
  <1>4. PhaseOK(t)' /\ TaskOK(t)' /\ ~Claiming(t) /\ ~Claiming(t)'
    BY <1>0, <1>1, <1>3 DEF PhaseOK, TaskOK, SubmitOK, ClaimOK, Claiming
  <1> QED BY <1>0, <1>1, <1>2, <1>4, Quiet

LEMMA SendQuiet ==
  ASSUME IInv, LInv, NEW t \in Threads, SendDecision(t)
  PROVE  LInv'
  <1> SUFFICES ASSUME NEW c \in Calls, c = th[t].call
               PROVE  LInv'
    BY DEF IInv, TypeOK, ThreadSet
  <1> DEFINE w == th[t].sender
             d == IF th[t].op = "approve"
                  THEN [kind |-> "approved", args |-> th[t].eff]
                  ELSE [kind |-> "rejected", args |-> NoArgs]
  <1>0. /\ log' = log /\ kept' = kept /\ row' = row /\ cache' = cache
        /\ th[t].op \in {"approve", "reject"} /\ th[t].pc = "send"
    BY DEF SendDecision, StoreUnchanged, MemoryUnchanged, IInv, LocalsOK
  <1>1. th'[t] = Idle
    BY DEF SendDecision
  <1>2. \A u \in Threads : u # t =>
          /\ th'[u].op = th[u].op /\ th'[u].pc = th[u].pc
          /\ th'[u].call = th[u].call /\ th'[u].args = th[u].args
          /\ th'[u].prev = th[u].prev
          /\ th'[u].inbox = IF u = w THEN d ELSE th[u].inbox
    BY DEF SendDecision, IInv, TypeOK, ThreadSet
  <1>3. w \in Threads => th[w].op = "await" /\ th[w].call = c
    BY DEF IInv, WaitOK, HeldOK, Registered
  <1>4. d.kind = "approved" => kept[c].state = "approved"
    BY <1>0 DEF LInv, TaskOK
  <1> HIDE DEF d, w
  <1>5. \A e \in Calls : /\ Open(e)' <=> Open(e)
                         /\ HasProposal(e)' <=> HasProposal(e)
                         /\ Resubmitted(e)' <=> Resubmitted(e)
    BY <1>0 DEF Open, HasProposal, Resubmitted
  <1>6. Local(t, c)
    BY <1>0, <1>1, <1>2, <1>3, <1>4, <1>5, IdleOK DEF Local
  <1>7. ~Claiming(t)
    BY <1>0 DEF Claiming
  <1> QED BY <1>0, <1>1, <1>6, <1>7, IdleOK, Quiet

\* Memory takes a decision, or its durable write fails: the claim stands.
LEMMA ClaimStands ==
  ASSUME IInv, LInv, "amend_fail" \notin Env, "unsure" \notin Env,
         NEW t \in Threads, DecisionAppend(t) \/ DecisionSaveFails(t)
  PROVE  LInv'
  <1> SUFFICES ASSUME NEW c \in Calls, c = th[t].call
               PROVE  LInv'
    BY DEF IInv, TypeOK, ThreadSet
  <1> DEFINE pc == IF th[t].pc = "append" THEN "saving" ELSE "revert"
  <1>0. /\ log' = log /\ kept' = kept /\ cache' = cache /\ Goto(t, pc)
        /\ th[t].pc \in {"append", "saving"}
        /\ th[t].pc = "saving" => th[t].op # "amend"
        /\ \A d \in Calls : d # c => row'[d] = row[d]
    BY DEF DecisionAppend, DecisionSaveFails, AppendInMemory, PersistFails,
       DecisionEvent, MemoryUnchanged, IInv, TypeOK
  <1>1. PhaseOK(t) /\ TaskOK(t)
    BY DEF LInv
  <1>2. /\ th[t].op \in {"approve", "reject", "amend", "await"}
        /\ cache[c].state # "absent"
    BY <1>0, <1>1 DEF PhaseOK, TaskOK
  <1>3. /\ th'[t].pc = pc /\ th'[t].op = th[t].op /\ th'[t].call = c
        /\ th'[t].args = th[t].args /\ th'[t].prev = th[t].prev
        /\ th'[t].inbox = th[t].inbox
        /\ \A u \in Threads : u # t =>
              /\ th'[u].op = th[u].op /\ th'[u].pc = th[u].pc
              /\ th'[u].call = th[u].call /\ th'[u].args = th[u].args
              /\ th'[u].prev = th[u].prev /\ th'[u].inbox = th[u].inbox
    BY <1>0, GoFrame DEF PCs
  <1>4. (Open(c)' <=> Open(c)) /\ (Resubmitted(c)' <=> Resubmitted(c))
        /\ (AmendOut(c)' <=> AmendOut(c))
    BY <1>0, <1>2, <1>3 DEF Open, Resubmitted, AmendOut
  <1>5. Claiming(t) <=> Claiming(t)'
    BY <1>0, <1>2, <1>3 DEF Claiming
  <1>6. PhaseOK(t)'
    BY <1>0, <1>1, <1>2, <1>3 DEF PhaseOK
  <1>7. ClaimOK(t)'
    BY <1>0, <1>1, <1>3, <1>4, <1>5 DEF TaskOK, ClaimOK, PendingState
  <1>8. TaskOK(t)'
    BY <1>0, <1>1, <1>2, <1>3, <1>7 DEF TaskOK, SubmitOK
  <1>9. Local(t, c)
    BY <1>0, <1>2, <1>3, LocalStep
  <1>10. (th[t].op = "amend" /\ th[t].pc \in {"append", "saving"})
           <=> (th'[t].op = "amend" /\ th'[t].pc \in {"append", "saving"})
    BY <1>0, <1>3
  <1> QED BY <1>0, <1>2, <1>3, <1>5, <1>6, <1>8, <1>9, <1>10, Quiet

LEMMA AppendLocal ==
  ASSUME IInv, NEW t \in Threads, NEW c \in Calls, c = th[t].call,
         th[t].op # "none", NEW e \in EventSet, e.call = c, Persist(e),
         cache' = cache, row' = row,
         th'[t].op # "none" => th'[t].call = c,
         \A u \in Threads : u # t =>
           /\ th'[u].op = th[u].op /\ th'[u].pc = th[u].pc
           /\ th'[u].call = th[u].call /\ th'[u].args = th[u].args
           /\ th'[u].prev = th[u].prev /\ th'[u].inbox = th[u].inbox
  PROVE  Local(t, c) /\ kept'[c] = Project(kept[c], e)
  <1>1. log' = Append(log, e) /\ kept' = [kept EXCEPT ![c] = Project(@, e)]
        /\ kept \in [Calls -> RowSet] /\ TypeOK
    BY DEF Persist, IInv, TypeOK
  <1>2. \A d \in Calls : d # c => /\ Open(d)' <=> Open(d)
                                  /\ HasProposal(d)' <=> HasProposal(d)
                                  /\ Resubmitted(d)' <=> Resubmitted(d)
    BY <1>1, OpenSame, ProposalsSame
  <1>3. kept'[c] = Project(kept[c], e) /\ \A d \in Calls : d # c => kept'[d] = kept[d]
    BY <1>1
  <1> QED BY <1>2, <1>3 DEF Local

\* While a submission is under way no other task works on its call.
LEMMA SubmitAlone ==
  ASSUME LInv, NEW t \in Threads, NEW c \in Calls, Local(t, c),
         th[t].op = "submit", th'[t].op \in {"none", "submit"}, PhaseOK(t)'
  PROVE  /\ ~Claimed(c)' /\ ~AmendOut(c)'
         /\ Marking(c)' <=> th'[t].pc = "s_mark"
         /\ Proposing(c)' <=> th'[t].pc = "s_proposing"
  <1>1. /\ th[t].call = c
        /\ th'[t].op # "none" => th'[t].call = c
        /\ \A u \in Threads : u # t =>
            th'[u].op = th[u].op /\ th'[u].pc = th[u].pc /\ th'[u].call = th[u].call
    BY DEF Local
  <1>2. \A u \in Threads : u # t /\ th'[u].call = c =>
          th'[u].op = "none" /\ th'[u].pc = "idle"
    BY <1>1 DEF LInv, Exclusive, PhaseOK
  <1>3. th'[t].pc \in {"s_mark", "s_proposing"} => th'[t].op = "submit"
    BY DEF PhaseOK
  <1>4. ~Claimed(c)'
    BY <1>2 DEF Claimed, Claiming
  <1>5. ~AmendOut(c)'
    BY <1>2 DEF AmendOut
  <1>6. Marking(c)' <=> th'[t].pc = "s_mark"
    BY <1>1, <1>2, <1>3 DEF Marking
  <1>7. Proposing(c)' <=> th'[t].pc = "s_proposing"
    BY <1>1, <1>2, <1>3 DEF Proposing
  <1> QED BY <1>4, <1>5, <1>6, <1>7

\* A step of a submission keeps the invariant if it does so for its own call
\* and task.
LEMMA SubmitAssemble ==
  ASSUME IInv, LInv, NEW t \in Threads, NEW c \in Calls, Local(t, c),
         th[t].op = "submit", th'[t].op \in {"none", "submit"},
         PhaseOK(t)', TaskOK(t)', RowOK(c)', CacheOK(c)'
  PROVE  LInv'
  <1>1. Considerate(t, c)
    BY DEF Considerate
  <1>2. Exclusive'
    BY ExclusiveStays DEF LInv
  <1> QED BY <1>1, <1>2, Assemble

\* Memory takes the proposal: its record runs ahead until the durable log has
\* the event too.
LEMMA ProposeStep ==
  ASSUME IInv, LInv, NEW t \in Threads, SubmitPropose(t)
  PROVE  LInv'
  <1> SUFFICES ASSUME NEW c \in Calls, c = th[t].call
               PROVE  LInv'
    BY DEF IInv, TypeOK, ThreadSet
  <1>1. Proposal(c).call = c
    BY DEF Proposal, Event
  <1>2. /\ log' = log /\ kept' = kept /\ cache' = cache /\ Goto(t, "s_proposing")
        /\ th[t].op = "submit" /\ th[t].pc = "s_propose"
        /\ row'[c] = Project(row[c], Proposal(c))
        /\ \A d \in Calls : d # c => row'[d] = row[d]
    BY <1>1 DEF SubmitPropose, At, AppendInMemory, MemoryUnchanged, IInv, TypeOK
  <1>3. "s_proposing" \in PCs
    BY DEF PCs
  <1>4. /\ th'[t].pc = "s_proposing" /\ th'[t].op = "submit" /\ th'[t].call = c
        /\ th'[t].args = th[t].args /\ th'[t].inbox = th[t].inbox
    BY <1>2, <1>3, GoFrame
  <1>5. Local(t, c)
    BY <1>2, <1>3, GoFrame, LocalStep
  <1>6. PhaseOK(t)'
    BY <1>4 DEF PhaseOK
  <1>7. ~Claimed(c)' /\ ~AmendOut(c)' /\ ~Marking(c)' /\ Proposing(c)'
    BY <1>2, <1>4, <1>5, <1>6, SubmitAlone
  <1>8. RowOK(c) /\ CacheOK(c) /\ TaskOK(t)
    BY DEF LInv
  <1>9. (Open(c)' <=> Open(c)) /\ (HasProposal(c)' <=> HasProposal(c))
        /\ (Resubmitted(c)' <=> Resubmitted(c))
    BY <1>2 DEF Open, HasProposal, Resubmitted
  <1>10. cache[c].state = "absent" => row[c] = kept[c]
    BY <1>2, MemoryIsDurable
  <1>11. /\ ~Claimed(c) /\ ~Marking(c) /\ ~AmendOut(c)
    <2>1. \A u \in Threads : u # t /\ th[u].call = c =>
            th[u].op = "none" /\ th[u].pc = "idle"
      BY <1>2 DEF LInv, Exclusive, PhaseOK
    <2> QED BY <1>2, <2>1 DEF Claimed, Claiming, Marking, AmendOut
  <1>12. PendingState(c)' = PendingState(c)
    BY <1>2, <1>7, <1>11 DEF PendingState
  <1>13. RowOK(c)'
    BY <1>2, <1>8, <1>9 DEF RowOK, Resolved
  <1>14. CacheOK(c)'
    BY <1>2, <1>7, <1>8, <1>9, <1>10, <1>11, <1>12 DEF CacheOK, Proposal
  <1>15. TaskOK(t)'
    BY <1>2, <1>4, <1>8 DEF TaskOK, SubmitOK, ClaimOK, Claiming
  <1> QED BY <1>2, <1>4, <1>5, <1>6, <1>13, <1>14, <1>15, SubmitAssemble

LEMMA ProposedStep ==
  ASSUME IInv, LInv, NEW t \in Threads, SubmitProposed(t)
  PROVE  LInv'
  <1> SUFFICES ASSUME NEW c \in Calls, c = th[t].call
               PROVE  LInv'
    BY DEF IInv, TypeOK, ThreadSet
  <1> DEFINE e == Proposal(c)
  <1>1. e \in EventSet /\ e.call = c /\ e.type = "proposed"
    BY ProposalType DEF Proposal, Event
  <1>2. Persist(e) /\ Goto(t, "s_insert") /\ cache' = cache
        /\ th[t].op = "submit" /\ th[t].pc = "s_proposing" /\ row' = row
    BY DEF SubmitProposed, At, MemoryUnchanged
  <1> HIDE DEF e
  <1>3. log' = Append(log, e) /\ TypeOK
    BY <1>2 DEF Persist, IInv
  <1>4. Open(c)' /\ HasProposal(c)' /\ (HasProposal(c) => Resubmitted(c)')
    BY <1>1, <1>3, ProposalOpens, ProposalCounts
  <1>5. "s_insert" \in PCs
    BY DEF PCs
  <1>6. /\ th'[t].pc = "s_insert" /\ th'[t].op = "submit" /\ th'[t].call = c
        /\ th'[t].args = th[t].args /\ th'[t].inbox = th[t].inbox
        /\ \A u \in Threads : u # t =>
              /\ th'[u].op = th[u].op /\ th'[u].pc = th[u].pc
              /\ th'[u].call = th[u].call /\ th'[u].args = th[u].args
              /\ th'[u].prev = th[u].prev /\ th'[u].inbox = th[u].inbox
    BY <1>2, <1>5, GoFrame
  <1>7. Local(t, c) /\ kept'[c] = Project(kept[c], e)
    BY <1>1, <1>2, <1>6, AppendLocal
  <1>8. PhaseOK(t)'
    BY <1>6 DEF PhaseOK
  <1>9. RowOK(c) /\ CacheOK(c) /\ TaskOK(t)
    BY DEF LInv
  <1>10. kept[c].state # "approved" /\ kept[c] \in RowSet
    BY <1>2, <1>9 DEF TaskOK, SubmitOK, IInv, TypeOK
  <1>13. cache[c].state = "absent" => row'[c] = kept'[c]
    BY <1>2, <1>7, <1>9 DEF CacheOK, Proposing, e
  <1>14. ~Proposing(c)'
    BY <1>2, <1>6, <1>7, <1>8, SubmitAlone
  <1>11. CASE kept[c].state = "absent"
    <2>1. kept'[c] = FreshEntry /\ cache'[c].state = "absent"
      BY <1>1, <1>2, <1>7, <1>9, <1>11 DEF Project, CacheOK
    <2>2. RowOK(c)'
      BY <1>4, <2>1 DEF RowOK, FreshEntry, NoEntry, Resolved
    <2>3. CacheOK(c)'
      BY <1>2, <1>13, <1>14, <2>1 DEF CacheOK
    <2>4. TaskOK(t)'
      BY <1>4, <1>6, <1>9, <1>10, <2>1 DEF TaskOK, SubmitOK, ClaimOK, Claiming
    <2> QED BY <1>2, <1>6, <1>7, <1>8, <2>2, <2>3, <2>4, SubmitAssemble
  <1>12. CASE kept[c].state # "absent"
    <2>1. /\ kept'[c].state = kept[c].state /\ kept'[c].approved = kept[c].approved
          /\ kept'[c].reason = kept[c].reason
      BY <1>1, <1>7, <1>12 DEF Project, IsResolution
    <2>2. Resubmitted(c)'
      BY <1>4, <1>9, <1>12 DEF RowOK
    <2>3. RowOK(c)'
      BY <1>4, <1>9, <1>10, <1>12, <2>1, <2>2 DEF RowOK, Resolved
    <2>4. CacheOK(c)'
      BY <1>2, <1>4, <1>9, <1>13, <1>14, <2>1, <2>2 DEF CacheOK
    <2>5. TaskOK(t)'
      BY <1>4, <1>6, <1>9, <1>10, <2>1, <2>2
      DEF TaskOK, SubmitOK, ClaimOK, Claiming
    <2> QED BY <1>2, <1>6, <1>7, <1>8, <2>3, <2>4, <2>5, SubmitAssemble
  <1> QED BY <1>11, <1>12

LEMMA InsertStep ==
  ASSUME IInv, LInv, NEW t \in Threads, SubmitInsert(t)
  PROVE  LInv'
  <1> SUFFICES ASSUME NEW c \in Calls, c = th[t].call
               PROVE  LInv'
    BY DEF IInv, TypeOK, ThreadSet
  <1>1. /\ log' = log /\ kept' = kept /\ row' = row /\ Goto(t, "s_match")
        /\ cache' = [cache EXCEPT ![c] = FreshEntry]
        /\ th[t].op = "submit" /\ th[t].pc = "s_insert"
    BY DEF SubmitInsert, At, StoreUnchanged
  <1>2. cache'[c] = FreshEntry /\ \A d \in Calls : d # c => cache'[d] = cache[d]
    BY <1>1 DEF IInv, TypeOK
  <1>3. (Open(c)' <=> Open(c)) /\ (HasProposal(c)' <=> HasProposal(c))
        /\ (Resubmitted(c)' <=> Resubmitted(c))
    BY <1>1 DEF Open, HasProposal, Resubmitted
  <1>4. "s_match" \in PCs
    BY DEF PCs
  <1>5. /\ th'[t].pc = "s_match" /\ th'[t].op = "submit" /\ th'[t].call = c
        /\ th'[t].args = th[t].args /\ th'[t].inbox = th[t].inbox
    BY <1>1, <1>4, GoFrame
  <1>6. Local(t, c)
    BY <1>1, <1>2, <1>4, GoFrame, LocalStep
  <1>7. PhaseOK(t)'
    BY <1>5 DEF PhaseOK
  <1>8. ~Claimed(c)' /\ ~AmendOut(c)' /\ ~Marking(c)'
    BY <1>1, <1>5, <1>6, <1>7, SubmitAlone
  <1>9. RowOK(c) /\ TaskOK(t)
    BY DEF LInv
  <1>10. Open(c) /\ (~Resubmitted(c) => kept[c] = FreshEntry)
    BY <1>1, <1>9 DEF TaskOK, SubmitOK
  <1>11. RowOK(c)'
    BY <1>1, <1>3, <1>9 DEF RowOK, Resolved
  <1>12. CacheOK(c)'
    BY <1>1, <1>2, <1>3, <1>8, <1>9, <1>10
    DEF CacheOK, RowOK, PendingState, FreshEntry, NoEntry
  <1>13. TaskOK(t)'
    BY <1>1, <1>2, <1>3, <1>5, <1>9, <1>10
    DEF TaskOK, SubmitOK, ClaimOK, Claiming
  <1> QED BY <1>1, <1>5, <1>6, <1>7, <1>11, <1>12, <1>13, SubmitAssemble

LEMMA AutoStep ==
  ASSUME IInv, LInv, NEW t \in Threads, SubmitAutoApprove(t)
  PROVE  LInv'
  <1> SUFFICES ASSUME NEW c \in Calls, c = th[t].call
               PROVE  LInv'
    BY DEF IInv, TypeOK, ThreadSet
  <1>1. AutoApproval(c).call = c
    BY DEF AutoApproval, Event
  <1>2. /\ log' = log /\ kept' = kept /\ cache' = cache /\ Goto(t, "s_approving")
        /\ th[t].op = "submit" /\ th[t].pc = "s_auto"
        /\ \A d \in Calls : d # c => row'[d] = row[d]
    BY <1>1
    DEF SubmitAutoApprove, At, AppendInMemory, MemoryUnchanged, IInv, TypeOK
  <1>3. "s_approving" \in PCs
    BY DEF PCs
  <1>4. /\ th'[t].pc = "s_approving" /\ th'[t].op = "submit" /\ th'[t].call = c
        /\ th'[t].args = th[t].args /\ th'[t].inbox = th[t].inbox
    BY <1>2, <1>3, GoFrame
  <1>5. Local(t, c)
    BY <1>2, <1>3, GoFrame, LocalStep
  <1>6. PhaseOK(t)'
    BY <1>4 DEF PhaseOK
  <1>7. TaskOK(t) /\ cache[c].state = "pending"
    BY <1>2 DEF LInv, TaskOK, SubmitOK, FreshEntry, NoEntry
  <1>8. (Open(c)' <=> Open(c)) /\ (Resubmitted(c)' <=> Resubmitted(c))
    BY <1>2 DEF Open, Resubmitted
  <1>9. TaskOK(t)'
    BY <1>2, <1>4, <1>7, <1>8 DEF TaskOK, SubmitOK, ClaimOK, Claiming
  <1>10. ~Claiming(t) /\ ~Claiming(t)'
    BY <1>2, <1>4 DEF Claiming
  <1> QED BY <1>2, <1>4, <1>5, <1>6, <1>7, <1>9, <1>10, Quiet

LEMMA AutoApprovedStep ==
  ASSUME IInv, LInv, NEW t \in Threads, SubmitAutoApproved(t)
  PROVE  LInv'
  <1> SUFFICES ASSUME NEW c \in Calls, c = th[t].call
               PROVE  LInv'
    BY DEF IInv, TypeOK, ThreadSet
  <1> DEFINE e == AutoApproval(c)
  <1>1. /\ e \in EventSet /\ e.call = c /\ e.type = "approved" /\ IsResolution(e)
        /\ e.args = NoArgs
    BY ProposalType DEF AutoApproval, Event, IsResolution
  <1>2. Persist(e) /\ Goto(t, "s_mark") /\ cache' = cache
        /\ th[t].op = "submit" /\ th[t].pc = "s_approving" /\ row' = row
    BY DEF SubmitAutoApproved, At, MemoryUnchanged
  <1> HIDE DEF e
  <1>3. log' = Append(log, e) /\ TypeOK
    BY <1>2 DEF Persist, IInv
  <1>4. ~Open(c)' /\ (HasProposal(c)' <=> HasProposal(c))
        /\ (Resubmitted(c)' <=> Resubmitted(c))
    BY <1>1, <1>3, ResolutionCloses, ProposalsSame
  <1>5. "s_mark" \in PCs
    BY DEF PCs
  <1>6. /\ th'[t].pc = "s_mark" /\ th'[t].op = "submit" /\ th'[t].call = c
        /\ th'[t].args = th[t].args /\ th'[t].inbox = th[t].inbox
        /\ \A u \in Threads : u # t =>
              /\ th'[u].op = th[u].op /\ th'[u].pc = th[u].pc
              /\ th'[u].call = th[u].call /\ th'[u].args = th[u].args
              /\ th'[u].prev = th[u].prev /\ th'[u].inbox = th[u].inbox
    BY <1>2, <1>5, GoFrame
  <1>7. Local(t, c) /\ kept'[c] = Project(kept[c], e)
    BY <1>1, <1>2, <1>6, AppendLocal
  <1>8. PhaseOK(t)'
    BY <1>6 DEF PhaseOK
  <1>9. RowOK(c) /\ CacheOK(c) /\ TaskOK(t)
    BY DEF LInv
  <1>10. /\ Open(c) /\ (~Resubmitted(c) => kept[c] = FreshEntry)
         /\ cache[c] = FreshEntry
    BY <1>2, <1>9 DEF TaskOK, SubmitOK
  <1>11. kept[c].state # "absent"
    BY <1>9, <1>10 DEF RowOK
  <1>12. /\ kept'[c].state = "approved" /\ kept'[c].approved = NoArgs
         /\ kept'[c].reason = kept[c].reason
    BY <1>1, <1>7, <1>11 DEF Project, IsResolution
  <1>13. Marking(c)'
    BY <1>2, <1>6, <1>7, <1>8, SubmitAlone
  <1>14. RowOK(c)'
    BY <1>4, <1>9, <1>11, <1>12 DEF RowOK
  <1>15. CacheOK(c)'
    BY <1>2, <1>10, <1>12, <1>13 DEF CacheOK, FreshEntry, NoEntry
  <1>16. TaskOK(t)'
    BY <1>2, <1>4, <1>6, <1>10, <1>12
    DEF TaskOK, SubmitOK, ClaimOK, Claiming, FreshEntry, NoEntry
  <1> QED BY <1>2, <1>6, <1>7, <1>8, <1>14, <1>15, <1>16, SubmitAssemble

LEMMA MarkStep ==
  ASSUME IInv, LInv, NEW t \in Threads, SubmitMarkApproved(t)
  PROVE  LInv'
  <1> SUFFICES ASSUME NEW c \in Calls, c = th[t].call
               PROVE  LInv'
    BY DEF IInv, TypeOK, ThreadSet
  <1>1. log' = log /\ kept' = kept /\ row' = row /\ Return(t)
        /\ th[t].op = "submit" /\ th[t].pc = "s_mark"
    BY DEF SubmitMarkApproved, At, StoreUnchanged
  <1>2. RowOK(c) /\ TaskOK(t)
    BY DEF LInv
  <1>3. /\ cache[c] = FreshEntry /\ kept[c].state = "approved"
        /\ ~Resubmitted(c) => kept[c].approved = NoArgs /\ kept[c].reason = "none"
    BY <1>1, <1>2 DEF TaskOK, SubmitOK
  <1>4. /\ cache'[c] = [FreshEntry EXCEPT !.state = "approved"]
        /\ \A d \in Calls : d # c => cache'[d] = cache[d]
    BY <1>3 DEF SubmitMarkApproved, FreshEntry, NoEntry, IInv, TypeOK
  <1>5. (Open(c)' <=> Open(c)) /\ (HasProposal(c)' <=> HasProposal(c))
        /\ (Resubmitted(c)' <=> Resubmitted(c))
    BY <1>1 DEF Open, HasProposal, Resubmitted
  <1>6. th'[t].op = "none" /\ PhaseOK(t)' /\ TaskOK(t)'
    BY <1>1, ReturnFrame, IdleOK
  <1>7. Local(t, c)
    BY <1>1, <1>4, <1>6, ReturnFrame, LocalStep
  <1>8. RowOK(c)'
    BY <1>1, <1>2, <1>5 DEF RowOK, Resolved
  <1>9. CacheOK(c)'
    BY <1>1, <1>3, <1>4, <1>5 DEF CacheOK, FreshEntry, NoEntry
  <1> QED BY <1>1, <1>6, <1>7, <1>8, <1>9, SubmitAssemble

\* An entry that is still to be decided stands for an open call that nobody
\* has claimed.
LEMMA Undecided ==
  ASSUME IInv, LInv, NEW t \in Threads, NEW c \in Calls, c = th[t].call,
         th[t].op \notin {"none", "submit"},
         cache[c].state \in {"pending", "amended"}
  PROVE  /\ Open(c) /\ ~Claimed(c) /\ kept[c].state \notin {"absent", "approved"}
         /\ ~Resubmitted(c) =>
              /\ kept[c].state = "pending"
              /\ kept[c].approved = NoArgs /\ kept[c].reason = "none"
              /\ cache[c].approved = NoArgs /\ cache[c].reason = "none"
              /\ cache[c].state = PendingState(c)
  <1>1. RowOK(c) /\ CacheOK(c) /\ kept[c] \in RowSet
    BY DEF LInv, IInv, TypeOK
  <1>2. ~Marking(c)
    <2>1. \A u \in Threads : th[u].pc = "s_mark" => th[u].op = "submit"
      BY DEF LInv, PhaseOK
    <2> QED BY <2>1 DEF Marking, LInv, Exclusive
  <1>3. ~Claimed(c)
    BY DEF Claimed, LInv, TaskOK, ClaimOK
  <1>4. Open(c) /\ kept[c].state \notin {"absent", "approved"}
    BY <1>1, <1>2 DEF CacheOK, RowOK
  <1>5. ~Resubmitted(c) => kept[c].state = "pending"
    BY <1>1, <1>4 DEF RowOK, Resolved, RowSet, EntrySet
  <1> QED BY <1>1, <1>2, <1>3, <1>4, <1>5 DEF RowOK, CacheOK

LEMMA FillStep ==
  ASSUME IInv, LInv, NEW t \in Threads, LoadFill(t)
  PROVE  LInv'
  <1> SUFFICES ASSUME NEW c \in Calls, c = th[t].call
               PROVE  LInv'
    BY DEF IInv, TypeOK, ThreadSet
  <1> DEFINE e == IF cache[c].state = "absent" THEN th[t].prev ELSE cache[c]
  <1>1. /\ log' = log /\ kept' = kept /\ row' = row /\ th[t].pc = "fill" /\ Loaded(t, e)
        /\ cache' = [cache EXCEPT ![c] = e]
    BY DEF LoadFill, StoreUnchanged
  <1>2. PhaseOK(t) /\ TaskOK(t) /\ RowOK(c)
    BY DEF LInv
  <1>3. th[t].op \in {"approve", "reject", "amend", "await"}
    BY <1>1, <1>2 DEF PhaseOK, IInv, TypeOK, ThreadSet, OpNames
  <1>4. cache'[c] = e /\ \A d \in Calls : d # c => cache'[d] = cache[d]
    BY <1>1 DEF IInv, TypeOK
  <1>5. e.state # "absent"
    BY <1>1, <1>2 DEF TaskOK, StoredToEntry, IInv, TypeOK, RowSet, EntrySet
  <1> HIDE DEF e
  <1>6. \/ Return(t)
        \/ Proceed(t, "claim") /\ th[t].op # "await"
        \/ Proceed(t, "register") /\ th[t].op = "await"
    BY <1>1 DEF Loaded
  <1>7. /\ th'[t].op \in {"none", th[t].op}
        /\ th'[t].op # "none" => th'[t].call = c
        /\ PhaseOK(t)'
        /\ th'[t].pc \in {"idle", "claim", "register"}
        /\ th'[t].inbox.kind = "approved" => th[t].inbox.kind = "approved"
        /\ th'[t].call = c \/ th'[t].inbox.kind # "approved"
    <2>1. CASE Return(t)
      <3>1. th'[t] = Idle /\ PhaseOK(t)'
        BY <2>1, ReturnFrame, IdleOK
      <3>2. th'[t].op = "none" /\ th'[t].pc = "idle" /\ th'[t].inbox.kind = "none"
        BY <3>1 DEF Idle, NoDecision
      <3> QED BY <3>1, <3>2
    <2>2. CASE Proceed(t, "claim") /\ th[t].op # "await"
      BY <1>2, <1>3, <2>2, ProceedFrame DEF PCs, PhaseOK
    <2>3. CASE Proceed(t, "register") /\ th[t].op = "await"
      BY <1>2, <1>3, <2>3, ProceedFrame DEF PCs, PhaseOK
    <2> QED BY <1>6, <2>1, <2>2, <2>3
  <1>8. \A u \in Threads : u # t =>
          /\ th'[u].op = th[u].op /\ th'[u].pc = th[u].pc
          /\ th'[u].call = th[u].call /\ th'[u].args = th[u].args
          /\ th'[u].prev = th[u].prev /\ th'[u].inbox = th[u].inbox
    <2>1. "claim" \in PCs /\ "register" \in PCs
      BY DEF PCs
    <2> QED BY <1>6, <2>1, ReturnFrame, ProceedFrame
  <1>9. Local(t, c)
    BY <1>1, <1>3, <1>4, <1>7, <1>8, LocalStep
  <1>10. TaskOK(t)'
    BY <1>1, <1>2, <1>4, <1>5, <1>7
    DEF TaskOK, PhaseOK, SubmitOK, ClaimOK, Claiming
  <1>11. (Open(c)' <=> Open(c)) /\ (HasProposal(c)' <=> HasProposal(c))
         /\ (Resubmitted(c)' <=> Resubmitted(c))
    BY <1>1 DEF Open, HasProposal, Resubmitted
  <1>12. RowOK(c)'
    BY <1>1, <1>2, <1>11 DEF RowOK, Resolved
  <1>13. ~Claiming(t) /\ ~Claiming(t)'
         /\ (AmendOut(c)' <=> AmendOut(c)) /\ (Marking(c)' <=> Marking(c))
         /\ (Claimed(c)' <=> Claimed(c)) /\ (Proposing(c)' <=> Proposing(c))
    BY <1>1, <1>7, <1>8 DEF Claiming, AmendOut, Marking, Claimed, Proposing
  <1>14. Exclusive'
    BY <1>3, <1>7, <1>9, <1>13, ExclusiveStays DEF LInv, Claiming
  <1>15. CASE cache[c].state # "absent"
    <2>1. cache'[c] = cache[c]
      BY <1>4, <1>15 DEF e
    <2>2. CacheOK(c)'
      BY <1>1, <1>11, <1>13, <2>1 DEF LInv, CacheOK, PendingState
    <2>3. Considerate(t, c)
      BY <1>1, <1>11, <1>13, <2>1 DEF Considerate
    <2> QED BY <1>7, <1>9, <1>10, <1>12, <1>14, <2>2, <2>3, Assemble
  <1>16. CASE cache[c].state = "absent"
    <2>1. /\ kept[c].state # "absent" /\ kept[c] \in RowSet
          /\ cache'[c] = StoredToEntry(kept[c])
      BY <1>1, <1>2, <1>4, <1>16 DEF TaskOK, e, IInv, TypeOK
    <2>2. /\ cache'[c].approved = kept[c].approved
          /\ cache'[c].reason = kept[c].reason
          /\ cache'[c].state = IF kept[c].state = "pending" /\ kept[c].amended # NoArgs
                               THEN "amended" ELSE kept[c].state
      BY <2>1 DEF StoredToEntry, RowSet, EntrySet
    <2>3. \A u \in Threads : th[u].call = c => th[u].pc \notin {"append", "saving", "revert"}
      BY <1>16 DEF LInv, TaskOK
    <2>4. ~Claimed(c) /\ ~AmendOut(c)
      BY <2>3 DEF Claimed, Claiming, AmendOut
    <2>5. PendingState(c)' = IF kept[c].amended # NoArgs THEN "amended" ELSE "pending"
      BY <1>1, <1>13, <2>4 DEF PendingState
    <2>6. CacheOK(c)'
      BY <1>1, <1>2, <1>11, <2>1, <2>2, <2>5
      DEF CacheOK, RowOK, RowSet, EntrySet
    <2>7. Considerate(t, c)
      BY <1>1, <1>3, <1>4, <1>5, <2>3 DEF Considerate, Claiming
    <2> QED BY <1>7, <1>9, <1>10, <1>12, <1>14, <2>6, <2>7, Assemble
  <1> QED BY <1>15, <1>16

\* The claim of approve, reject and handle_timeout.
LEMMA ClaimStep ==
  ASSUME IInv, LInv, NEW t \in Threads, NEW c \in Calls, c = th[t].call,
         log' = log, kept' = kept, row' = row,
         \A d \in Calls : d # c => cache'[d] = cache[d],
         th[t].op \in {"approve", "reject", "await"},
         th[t].pc \in {"claim", "elapsed"},
         cache[c].state \in {"pending", "amended"},
         cache'[c].state = IF th[t].op = "approve" THEN "approved" ELSE "rejected",
         cache'[c].approved = IF th[t].op = "approve" /\ th[t].args # NoArgs
                              THEN th[t].args ELSE cache[c].approved,
         cache'[c].reason = IF th[t].op = "approve" THEN cache[c].reason
                            ELSE ClaimReason(th[t].op),
         th'[t].op = th[t].op, th'[t].pc = "append", th'[t].call = c,
         th'[t].args = th[t].args, th'[t].prev = cache[c],
         th'[t].inbox = th[t].inbox,
         \A u \in Threads : u # t =>
           /\ th'[u].op = th[u].op /\ th'[u].pc = th[u].pc
           /\ th'[u].call = th[u].call /\ th'[u].args = th[u].args
           /\ th'[u].prev = th[u].prev /\ th'[u].inbox = th[u].inbox
  PROVE  LInv'
  <1>1. /\ Open(c) /\ ~Claimed(c) /\ kept[c].state \notin {"absent", "approved"}
        /\ ~Resubmitted(c) =>
              /\ kept[c].state = "pending"
              /\ kept[c].approved = NoArgs /\ kept[c].reason = "none"
              /\ cache[c].approved = NoArgs /\ cache[c].reason = "none"
              /\ cache[c].state = PendingState(c)
    BY Undecided
  <1>2. Local(t, c)
    BY LocalStep
  <1>3. (Open(c)' <=> Open(c)) /\ (HasProposal(c)' <=> HasProposal(c))
        /\ (Resubmitted(c)' <=> Resubmitted(c))
    BY DEF Open, HasProposal, Resubmitted
  <1>4. AmendOut(c)' <=> AmendOut(c)
    BY DEF AmendOut
  <1>5. PendingState(c)' = PendingState(c)
    BY <1>4 DEF PendingState
  <1>6. Claiming(t)' /\ Claimed(c)'
    BY DEF Claiming, Claimed
  <1>7. PhaseOK(t)' /\ TaskOK(t) /\ RowOK(c)
    BY DEF LInv, PhaseOK
  <1>8. ClaimOK(t)'
    BY <1>1, <1>3, <1>5, <1>6 DEF ClaimOK, ClaimReason
  <1>9. TaskOK(t)'
    BY <1>7, <1>8 DEF TaskOK, SubmitOK
  <1>10. RowOK(c)'
    BY <1>3, <1>7 DEF RowOK, Resolved
  <1>11. CacheOK(c)'
    BY <1>1, <1>6 DEF CacheOK
  <1>12. \A u \in Threads : u # t => ~(Claiming(u) /\ th[u].call = c)
    BY <1>1 DEF Claimed
  <1>13. Considerate(t, c)
    BY <1>12 DEF Considerate
  <1>14. Exclusive'
    BY <1>2, <1>12, ExclusiveStays DEF LInv
  <1> QED BY <1>2, <1>7, <1>9, <1>10, <1>11, <1>13, <1>14, Assemble

LEMMA ClaimSteps ==
  ASSUME IInv, LInv, NEW t \in Threads,
         ApproveClaim(t) \/ RejectClaim(t) \/ TimeoutClaim(t)
  PROVE  LInv'
  <1> SUFFICES ASSUME NEW c \in Calls, c = th[t].call
               PROVE  LInv'
    BY DEF IInv, TypeOK, ThreadSet
  <1>0. log' = log /\ kept' = kept /\ row' = row /\ cache[c] \in EntrySet /\ th[t] \in ThreadSet
    BY DEF ApproveClaim, RejectClaim, TimeoutClaim, StoreUnchanged, IInv, TypeOK
  <1>1. th[t].pc \in {"claim", "elapsed"} => cache[c].state # "absent"
    BY DEF LInv, TaskOK
  <1>2. CASE ApproveClaim(t)
    <2> DEFINE e == IF th[t].args = NoArgs THEN cache[c]
                    ELSE [cache[c] EXCEPT !.approved = th[t].args]
               x == [[[[th[t] EXCEPT !.pc = "append"] EXCEPT !.prev = cache[c]]
                        EXCEPT !.eff = EffectiveArgs(c, e)]
                        EXCEPT !.sender = pending[c]]
               f == [e EXCEPT !.state = "approved"]
    <2>1. /\ th' = [th EXCEPT ![t] = x] /\ cache' = [cache EXCEPT ![c] = f]
          /\ th[t].op = "approve" /\ th[t].pc = "claim" /\ ~Resolved(cache[c])
      BY <1>2 DEF ApproveClaim, At
    <2>2. /\ x.op = "approve" /\ x.pc = "append" /\ x.call = c
          /\ x.args = th[t].args /\ x.prev = cache[c] /\ x.inbox = th[t].inbox
      BY <1>0, <2>1 DEF ThreadSet
    <2>3. /\ f.state = "approved" /\ f.reason = cache[c].reason
          /\ f.approved = IF th[t].args # NoArgs THEN th[t].args
                          ELSE cache[c].approved
      BY <1>0 DEF EntrySet
    <2> HIDE DEF x, f
    <2>4. cache'[c] = f /\ \A d \in Calls : d # c => cache'[d] = cache[d]
      BY <2>1 DEF IInv, TypeOK
    <2>5. cache[c].state \in {"pending", "amended"}
      BY <1>0, <1>1, <2>1 DEF EntrySet, Resolved
    <2>7. /\ th'[t] = x
          /\ \A u \in Threads : u # t =>
              /\ th'[u].op = th[u].op /\ th'[u].pc = th[u].pc
              /\ th'[u].call = th[u].call /\ th'[u].args = th[u].args
              /\ th'[u].prev = th[u].prev /\ th'[u].inbox = th[u].inbox
      BY <2>1, MoveFrame
    <2>8. /\ cache'[c].state = IF th[t].op = "approve" THEN "approved" ELSE "rejected"
          /\ cache'[c].approved = IF th[t].op = "approve" /\ th[t].args # NoArgs
                                  THEN th[t].args ELSE cache[c].approved
          /\ cache'[c].reason = IF th[t].op = "approve" THEN cache[c].reason
                                ELSE ClaimReason(th[t].op)
      BY <2>1, <2>3, <2>4
    <2> QED BY <1>0, <2>1, <2>2, <2>4, <2>5, <2>7, <2>8, ClaimStep
  <1>3. CASE RejectClaim(t)
    <2> DEFINE x == [[[th[t] EXCEPT !.pc = "append"] EXCEPT !.prev = cache[c]]
                        EXCEPT !.sender = pending[c]]
               f == [[cache[c] EXCEPT !.state = "rejected"] EXCEPT !.reason = "operator"]
    <2>1. /\ th' = [th EXCEPT ![t] = x] /\ cache' = [cache EXCEPT ![c] = f]
          /\ th[t].op = "reject" /\ th[t].pc = "claim" /\ ~Resolved(cache[c])
      BY <1>3 DEF RejectClaim, At, IInv, TypeOK
    <2>2. /\ x.op = "reject" /\ x.pc = "append" /\ x.call = c
          /\ x.args = th[t].args /\ x.prev = cache[c] /\ x.inbox = th[t].inbox
      BY <1>0, <2>1 DEF ThreadSet
    <2>3. /\ f.state = "rejected" /\ f.reason = "operator"
          /\ f.approved = cache[c].approved
      BY <1>0 DEF EntrySet
    <2> HIDE DEF x, f
    <2>4. cache'[c] = f /\ \A d \in Calls : d # c => cache'[d] = cache[d]
      BY <2>1 DEF IInv, TypeOK
    <2>5. cache[c].state \in {"pending", "amended"}
      BY <1>0, <1>1, <2>1 DEF EntrySet, Resolved
    <2>6. ClaimReason("reject") = "operator"
      BY DEF ClaimReason
    <2>7. /\ th'[t] = x
          /\ \A u \in Threads : u # t =>
              /\ th'[u].op = th[u].op /\ th'[u].pc = th[u].pc
              /\ th'[u].call = th[u].call /\ th'[u].args = th[u].args
              /\ th'[u].prev = th[u].prev /\ th'[u].inbox = th[u].inbox
      BY <2>1, MoveFrame
    <2>8. /\ cache'[c].state = IF th[t].op = "approve" THEN "approved" ELSE "rejected"
          /\ cache'[c].approved = IF th[t].op = "approve" /\ th[t].args # NoArgs
                                  THEN th[t].args ELSE cache[c].approved
          /\ cache'[c].reason = IF th[t].op = "approve" THEN cache[c].reason
                                ELSE ClaimReason(th[t].op)
      BY <2>1, <2>3, <2>4, <2>6
    <2> QED BY <1>0, <2>1, <2>2, <2>4, <2>5, <2>7, <2>8, ClaimStep
  <1>4. CASE TimeoutClaim(t) /\ Return(t) /\ cache' = cache
    <2>1. th[t].op = "await" /\ th[t].pc = "elapsed"
      BY <1>4 DEF TimeoutClaim, At
    <2> QED BY <1>0, <1>4, <2>1, QuietEnd
  <1>5. CASE /\ TimeoutClaim(t) /\ ~(cache[c].state = "absent" \/ Resolved(cache[c]))
    <2> DEFINE x == [[th[t] EXCEPT !.pc = "append"] EXCEPT !.prev = cache[c]]
               f == [[cache[c] EXCEPT !.state = "rejected"]
                       EXCEPT !.reason = "operator_timeout"]
    <2>1. /\ th' = [th EXCEPT ![t] = x] /\ cache' = [cache EXCEPT ![c] = f]
          /\ th[t].op = "await" /\ th[t].pc = "elapsed"
      BY <1>5 DEF TimeoutClaim, At, IInv, TypeOK
    <2>2. /\ x.op = "await" /\ x.pc = "append" /\ x.call = c
          /\ x.args = th[t].args /\ x.prev = cache[c] /\ x.inbox = th[t].inbox
      BY <1>0, <2>1 DEF ThreadSet
    <2>3. /\ f.state = "rejected" /\ f.reason = "operator_timeout"
          /\ f.approved = cache[c].approved
      BY <1>0 DEF EntrySet
    <2> HIDE DEF x, f
    <2>4. cache'[c] = f /\ \A d \in Calls : d # c => cache'[d] = cache[d]
      BY <2>1 DEF IInv, TypeOK
    <2>5. cache[c].state \in {"pending", "amended"}
      BY <1>0, <1>5 DEF EntrySet, Resolved
    <2>6. ClaimReason("await") = "operator_timeout"
      BY DEF ClaimReason
    <2>7. /\ th'[t] = x
          /\ \A u \in Threads : u # t =>
              /\ th'[u].op = th[u].op /\ th'[u].pc = th[u].pc
              /\ th'[u].call = th[u].call /\ th'[u].args = th[u].args
              /\ th'[u].prev = th[u].prev /\ th'[u].inbox = th[u].inbox
      BY <2>1, MoveFrame
    <2>8. /\ cache'[c].state = IF th[t].op = "approve" THEN "approved" ELSE "rejected"
          /\ cache'[c].approved = IF th[t].op = "approve" /\ th[t].args # NoArgs
                                  THEN th[t].args ELSE cache[c].approved
          /\ cache'[c].reason = IF th[t].op = "approve" THEN cache[c].reason
                                ELSE ClaimReason(th[t].op)
      BY <2>1, <2>3, <2>4, <2>6
    <2> QED BY <1>0, <2>1, <2>2, <2>4, <2>5, <2>7, <2>8, ClaimStep
  <1> QED BY <1>2, <1>3, <1>4, <1>5 DEF TimeoutClaim

LEMMA AmendStep ==
  ASSUME IInv, LInv, NEW t \in Threads, AmendClaim(t)
  PROVE  LInv'
  <1> SUFFICES ASSUME NEW c \in Calls, c = th[t].call
               PROVE  LInv'
    BY DEF IInv, TypeOK, ThreadSet
  <1>0. log' = log /\ kept' = kept /\ row' = row /\ cache[c] \in EntrySet /\ th[t] \in ThreadSet
    BY DEF AmendClaim, StoreUnchanged, IInv, TypeOK
  <1> DEFINE x == [[th[t] EXCEPT !.pc = "append"] EXCEPT !.prev = cache[c]]
             f == [[cache[c] EXCEPT !.state = "amended"]
                     EXCEPT !.amended = th[t].args]
  <1>1. /\ th' = [th EXCEPT ![t] = x] /\ cache' = [cache EXCEPT ![c] = f]
        /\ th[t].op = "amend" /\ th[t].pc = "claim" /\ ~Resolved(cache[c])
    BY DEF AmendClaim, At, IInv, TypeOK
  <1>2. /\ x.op = "amend" /\ x.pc = "append" /\ x.call = c
        /\ x.args = th[t].args /\ x.inbox = th[t].inbox
    BY <1>0, <1>1 DEF ThreadSet
  <1>3. /\ f.state = "amended" /\ f.reason = cache[c].reason
        /\ f.approved = cache[c].approved
    BY <1>0 DEF EntrySet
  <1> HIDE DEF x, f
  <1>4. cache'[c] = f /\ \A d \in Calls : d # c => cache'[d] = cache[d]
    BY <1>1 DEF IInv, TypeOK
  <1>5. PhaseOK(t) /\ TaskOK(t) /\ RowOK(c)
    BY DEF LInv
  <1>6. cache[c].state \in {"pending", "amended"}
    BY <1>0, <1>1, <1>5 DEF EntrySet, Resolved, TaskOK
  <1>7. /\ Open(c) /\ ~Claimed(c) /\ kept[c].state \notin {"absent", "approved"}
        /\ ~Resubmitted(c) =>
              /\ kept[c].state = "pending"
              /\ kept[c].approved = NoArgs /\ kept[c].reason = "none"
              /\ cache[c].approved = NoArgs /\ cache[c].reason = "none"
    BY <1>1, <1>6, Undecided
  <1>8. /\ th'[t] = x
        /\ \A u \in Threads : u # t =>
              /\ th'[u].op = th[u].op /\ th'[u].pc = th[u].pc
              /\ th'[u].call = th[u].call /\ th'[u].args = th[u].args
              /\ th'[u].prev = th[u].prev /\ th'[u].inbox = th[u].inbox
    BY <1>1, MoveFrame
  <1>9. Local(t, c)
    BY <1>0, <1>1, <1>2, <1>4, <1>8, LocalStep
  <1>10. (Open(c)' <=> Open(c)) /\ (HasProposal(c)' <=> HasProposal(c))
         /\ (Resubmitted(c)' <=> Resubmitted(c))
    BY <1>0 DEF Open, HasProposal, Resubmitted
  <1>11. AmendOut(c)'
    BY <1>2, <1>8 DEF AmendOut
  <1>12. PhaseOK(t)'
    BY <1>1, <1>2, <1>5, <1>8 DEF PhaseOK
  <1>13. TaskOK(t)'
    BY <1>0, <1>2, <1>3, <1>4, <1>5, <1>8
    DEF TaskOK, SubmitOK, ClaimOK, Claiming
  <1>14. RowOK(c)'
    BY <1>0, <1>5, <1>10 DEF RowOK, Resolved
  <1>15. PendingState(c)' = "amended"
    BY <1>11 DEF PendingState
  <1>16. CacheOK(c)'
    BY <1>0, <1>3, <1>4, <1>7, <1>10, <1>15 DEF CacheOK
  <1>17. \A u \in Threads : u # t => ~(Claiming(u) /\ th[u].call = c)
    BY <1>7 DEF Claimed
  <1>18. Considerate(t, c)
    BY <1>0, <1>1, <1>3, <1>4, <1>17 DEF Considerate
  <1>19. Exclusive'
    BY <1>1, <1>2, <1>8, <1>9, ExclusiveStays DEF LInv
  <1> QED BY <1>9, <1>12, <1>13, <1>14, <1>16, <1>18, <1>19, Assemble

LEMMA AmendSaved ==
  ASSUME IInv, LInv, NEW t \in Threads, DecisionSaved(t), th[t].op = "amend"
  PROVE  LInv'
  <1> SUFFICES ASSUME NEW c \in Calls, c = th[t].call
               PROVE  LInv'
    BY DEF IInv, TypeOK, ThreadSet
  <1> DEFINE e == DecisionEvent(t)
  <1>1. /\ e \in EventSet /\ e.call = c /\ e.type = "amended"
        /\ e.args = th[t].args /\ Persist(e) /\ Return(t)
        /\ cache' = cache /\ th[t].pc = "saving" /\ row' = row
    BY DecisionEventType DEF IInv, DecisionSaved, DecisionEvent, MemoryUnchanged
  <1> HIDE DEF e
  <1>2. log' = Append(log, e) /\ TypeOK
    BY <1>1 DEF Persist, IInv
  <1>3. (Open(c)' <=> Open(c)) /\ (HasProposal(c)' <=> HasProposal(c))
        /\ (Resubmitted(c)' <=> Resubmitted(c))
    BY <1>1, <1>2, OpenSame, ProposalsSame
  <1>4. /\ PhaseOK(t)' /\ TaskOK(t)'
        /\ th'[t].op = "none" /\ th'[t].pc = "idle" /\ ~Claiming(t)'
        /\ \A u \in Threads : u # t =>
              /\ th'[u].op = th[u].op /\ th'[u].pc = th[u].pc
              /\ th'[u].call = th[u].call /\ th'[u].args = th[u].args
              /\ th'[u].prev = th[u].prev /\ th'[u].inbox = th[u].inbox
    BY <1>1, ReturnFrame, IdleOK
  <1>5. Local(t, c) /\ kept'[c] = Project(kept[c], e)
    BY <1>1, <1>4, AppendLocal
  <1>6. PhaseOK(t) /\ TaskOK(t) /\ RowOK(c) /\ CacheOK(c)
    BY DEF LInv
  <1>7. th[t].args # NoArgs /\ cache[c].state # "absent" /\ kept[c].state # "absent"
    BY <1>1, <1>6, ProposalAssumption DEF PhaseOK, TaskOK, CacheOK
  <1>8. /\ kept'[c].state = kept[c].state /\ kept'[c].approved = kept[c].approved
        /\ kept'[c].reason = kept[c].reason /\ kept'[c].amended # NoArgs
    BY <1>1, <1>5, <1>7 DEF Project, IsResolution
  <1>9. PendingState(c) = "amended" /\ PendingState(c)' = "amended"
    BY <1>1, <1>8 DEF PendingState, AmendOut
  <1>10. (Claimed(c)' <=> Claimed(c)) /\ (Marking(c)' <=> Marking(c))
    BY <1>1, <1>4 DEF Claimed, Marking, Claiming
  <1>11. RowOK(c)'
    BY <1>3, <1>6, <1>7, <1>8 DEF RowOK, Resolved
  <1>12. CacheOK(c)'
    BY <1>1, <1>3, <1>6, <1>7, <1>8, <1>9, <1>10 DEF CacheOK
  <1>13. Considerate(t, c)
    BY <1>1, <1>3, <1>7, <1>8, <1>9 DEF Considerate
  <1>14. Exclusive'
    BY <1>4, <1>5, ExclusiveStays DEF LInv
  <1> QED BY <1>4, <1>5, <1>11, <1>12, <1>13, <1>14, Assemble

LEMMA VerdictSaved ==
  ASSUME IInv, LInv, NEW t \in Threads, DecisionSaved(t), th[t].op # "amend"
  PROVE  LInv'
  <1> SUFFICES ASSUME NEW c \in Calls, c = th[t].call
               PROVE  LInv'
    BY DEF IInv, TypeOK, ThreadSet
  <1> DEFINE e == DecisionEvent(t)
  <1>0. PhaseOK(t) /\ TaskOK(t) /\ RowOK(c) /\ CacheOK(c) /\ kept[c] \in RowSet
    BY DEF LInv, IInv, TypeOK
  <1>1. /\ th[t].pc = "saving" /\ th[t].op \in {"approve", "reject", "await"}
        /\ Claiming(t) /\ cache' = cache /\ row' = row /\ Persist(e)
    BY <1>0 DEF DecisionSaved, PhaseOK, Claiming, MemoryUnchanged
  <1>2. /\ e \in EventSet /\ e.call = c /\ IsResolution(e) /\ e.type # "amended"
        /\ e.type = IF th[t].op = "approve" THEN "approved" ELSE "rejected"
        /\ e.args = th[t].args
        /\ e.by = IF th[t].op = "await" THEN "operator_timeout" ELSE "operator"
    BY <1>1, DecisionEventType DEF IInv, DecisionEvent, IsResolution
  <1> HIDE DEF e
  <1>3. log' = Append(log, e) /\ TypeOK
    BY <1>1 DEF Persist, IInv
  <1>4. ~Open(c)' /\ (HasProposal(c)' <=> HasProposal(c))
        /\ (Resubmitted(c)' <=> Resubmitted(c))
    BY <1>2, <1>3, ResolutionCloses, ProposalsSame DEF IsResolution
  <1>5. /\ Open(c) /\ cache[c].state = e.type
        /\ ~Resubmitted(c) =>
             /\ cache[c].approved = IF th[t].op = "approve" THEN th[t].args
                                    ELSE NoArgs
             /\ cache[c].reason = ClaimReason(th[t].op)
    BY <1>0, <1>1, <1>2 DEF TaskOK, ClaimOK
  <1>6. kept[c].state \notin {"absent", "approved"}
        /\ (~Resubmitted(c) => kept[c].state = "pending")
    BY <1>0, <1>5 DEF RowOK, Resolved, RowSet, EntrySet
  <1>7. /\ th'[t].op \in {"none", th[t].op}
        /\ th'[t].op # "none" => th'[t].call = c
        /\ PhaseOK(t)' /\ ~Claiming(t)'
        /\ th'[t].pc \in {"idle", "rule", "send"}
        /\ th'[t].inbox.kind = "approved" => th[t].inbox.kind = "approved"
        /\ \A u \in Threads : u # t =>
              /\ th'[u].op = th[u].op /\ th'[u].pc = th[u].pc
              /\ th'[u].call = th[u].call /\ th'[u].args = th[u].args
              /\ th'[u].prev = th[u].prev /\ th'[u].inbox = th[u].inbox
    <2>1. CASE Return(t)
      <3>1. th'[t] = Idle /\ PhaseOK(t)' /\ ~Claiming(t)'
        BY <2>1, ReturnFrame, IdleOK
      <3>2. th'[t].op = "none" /\ th'[t].pc = "idle" /\ th'[t].inbox.kind = "none"
        BY <3>1 DEF Idle, NoDecision
      <3> QED BY <2>1, <3>1, <3>2, ReturnFrame
    <2>2. ASSUME NEW pc \in {"rule", "send"}, Goto(t, pc)
          PROVE  <1>7!:
      <3>1. pc \in PCs
        BY DEF PCs
      <3> QED BY <1>1, <2>2, <3>1, GoFrame, GoPhaseOK DEF Claiming
    <2>3. Return(t) \/ \E pc \in {"rule", "send"} : Goto(t, pc)
      BY DEF DecisionSaved
    <2> QED BY <2>1, <2>2, <2>3
  <1>8. Local(t, c) /\ kept'[c] = Project(kept[c], e)
    BY <1>1, <1>2, <1>7, AppendLocal
  <1>9. /\ kept'[c].state = e.type /\ kept'[c].state # "absent"
        /\ kept'[c].approved = IF th[t].op = "approve" THEN th[t].args
                              ELSE kept[c].approved
        /\ kept'[c].reason = IF th[t].op = "approve" THEN kept[c].reason
                            ELSE ClaimReason(th[t].op)
    BY <1>1, <1>2, <1>6, <1>8 DEF Project, IsResolution, ClaimReason
  <1>10. RowOK(c)'
    BY <1>0, <1>2, <1>4, <1>6, <1>9 DEF RowOK, IsResolution
  <1>11. CacheOK(c)'
    BY <1>0, <1>1, <1>2, <1>4, <1>5, <1>6, <1>9
    DEF CacheOK, RowOK, IsResolution, ClaimReason
  <1>12. TaskOK(t)'
    <2>1. th'[t].inbox.kind # "approved"
      BY <1>0, <1>6, <1>7 DEF TaskOK
    <2>2. th'[t].op = "approve" => kept'[c].state = "approved"
      BY <1>2, <1>7, <1>9
    <2>3. cache'[c].state # "absent"
      BY <1>1, <1>2, <1>5
    <2> QED
      BY <1>7, <2>1, <2>2, <2>3 DEF TaskOK, PhaseOK, SubmitOK, ClaimOK
  <1>13. \A u \in Threads : u # t => ~(Claiming(u) /\ th[u].call = c)
    BY <1>1 DEF LInv, Exclusive
  <1>14. Considerate(t, c)
    BY <1>1, <1>2, <1>5, <1>6, <1>13 DEF Considerate, IsResolution
  <1>15. Exclusive'
    BY <1>1, <1>7, <1>8, ExclusiveStays DEF LInv
  <1> QED BY <1>7, <1>8, <1>10, <1>11, <1>12, <1>14, <1>15, Assemble

\* The rollback of a claim leaves the entry as the claim found it, the
\* amendments of others aside.
LEMMA RevertStep ==
  ASSUME IInv, LInv, NEW t \in Threads, DecisionRevert(t)
  PROVE  LInv'
  <1> SUFFICES ASSUME NEW c \in Calls, c = th[t].call
               PROVE  LInv'
    BY DEF IInv, TypeOK, ThreadSet
  <1>0. PhaseOK(t) /\ TaskOK(t) /\ RowOK(c) /\ CacheOK(c) /\ kept[c] \in RowSet
    BY DEF LInv, IInv, TypeOK
  <1>1. /\ log' = log /\ kept' = kept /\ row' = row /\ Return(t) /\ th[t].pc = "revert"
        /\ cache' = [cache EXCEPT ![c] = Reverted(t, @)]
    BY DEF DecisionRevert, StoreUnchanged
  <1>2. th[t].op \in {"approve", "reject", "await"} /\ Claiming(t)
    BY <1>0, <1>1 DEF PhaseOK, Claiming
  <1>3. /\ cache'[c] = Reverted(t, cache[c])
        /\ \A d \in Calls : d # c => cache'[d] = cache[d]
    BY <1>1 DEF IInv, TypeOK
  <1>4. /\ Open(c)
        /\ cache[c].state = IF th[t].op = "approve" THEN "approved" ELSE "rejected"
        /\ th[t].prev.state \in {"pending", "amended"}
        /\ ~Resubmitted(c) =>
             /\ th[t].prev.state = PendingState(c)
             /\ th[t].prev.approved = NoArgs /\ th[t].prev.reason = "none"
             /\ cache[c].approved = IF th[t].op = "approve" THEN th[t].args
                                    ELSE NoArgs
             /\ cache[c].reason = ClaimReason(th[t].op)
    BY <1>0, <1>2 DEF TaskOK, ClaimOK
  <1>5. MayRevert(t, cache[c])
    BY <1>2, <1>4 DEF MayRevert
  <1>6. /\ cache'[c].state = th[t].prev.state
        /\ ~Resubmitted(c) => cache'[c].approved = NoArgs /\ cache'[c].reason = "none"
    BY <1>2, <1>3, <1>4, <1>5 DEF Reverted, ClaimReason
  <1>7. kept[c].state # "absent" /\ (~Resubmitted(c) => kept[c].state = "pending")
    BY <1>0, <1>4 DEF RowOK, Resolved, RowSet, EntrySet
  <1>8. /\ PhaseOK(t)' /\ TaskOK(t)'
        /\ th'[t].op = "none" /\ th'[t].pc = "idle" /\ ~Claiming(t)'
        /\ \A u \in Threads : u # t =>
              /\ th'[u].op = th[u].op /\ th'[u].pc = th[u].pc
              /\ th'[u].call = th[u].call /\ th'[u].args = th[u].args
              /\ th'[u].prev = th[u].prev /\ th'[u].inbox = th[u].inbox
    BY <1>1, ReturnFrame, IdleOK
  <1>9. Local(t, c)
    BY <1>1, <1>2, <1>3, <1>8, LocalStep
  <1>10. (Open(c)' <=> Open(c)) /\ (HasProposal(c)' <=> HasProposal(c))
         /\ (Resubmitted(c)' <=> Resubmitted(c))
    BY <1>1 DEF Open, HasProposal, Resubmitted
  <1>11. (AmendOut(c)' <=> AmendOut(c)) /\ PendingState(c)' = PendingState(c)
    BY <1>1, <1>2, <1>8 DEF AmendOut, PendingState
  <1>12. RowOK(c)'
    BY <1>0, <1>1, <1>10 DEF RowOK, Resolved
  <1>13. CacheOK(c)'
    BY <1>0, <1>1, <1>4, <1>6, <1>7, <1>10, <1>11 DEF CacheOK, RowOK
  <1>14. \A u \in Threads : u # t => ~(Claiming(u) /\ th[u].call = c)
    BY <1>2 DEF LInv, Exclusive
  <1>15. Considerate(t, c)
    BY <1>1, <1>2, <1>4, <1>6, <1>14 DEF Considerate
  <1>16. Exclusive'
    BY <1>2, <1>8, <1>9, ExclusiveStays DEF LInv
  <1> QED BY <1>8, <1>9, <1>12, <1>13, <1>15, <1>16, Assemble

LEMMA StartLedger ==
  ASSUME IInv, LInv, "overlap" \notin Env, NEW t \in Threads, NEW c \in Calls,
         StartSubmit(t, c) \/ StartOther(t, c)
  PROVE  LInv'
  <1>1. ASSUME NEW op \in OpNames, NEW pc \in {"s_cached", "load", "r_cached"},
               NEW a, NEW s, Start(t, op, pc, c, a, s),
               op = "submit" <=> pc = "s_cached",
               op = "retrieve" <=> pc = "r_cached",
               op = "amend" => a \in Args,
               op = "submit" => ~Busy(c), ~Submitting(c)
        PROVE  LInv'
    <2> DEFINE x == [Idle EXCEPT !.op = op, !.pc = pc, !.call = c, !.args = a,
                                 !.scope = s]
    <2>1. /\ log' = log /\ kept' = kept /\ row' = row /\ cache' = cache /\ th[t].op = "none"
          /\ th' = [th EXCEPT ![t] = x]
      BY <1>1 DEF Start, StoreUnchanged, MemoryUnchanged
    <2>2. /\ x.op = op /\ x.pc = pc /\ x.call = c /\ x.args = a
          /\ x.inbox.kind = "none"
      BY DEF Idle, NoDecision
    <2> HIDE DEF x
    <2>3. /\ th'[t] = x
          /\ \A u \in Threads : u # t =>
              /\ th'[u].op = th[u].op /\ th'[u].pc = th[u].pc
              /\ th'[u].call = th[u].call /\ th'[u].args = th[u].args
              /\ th'[u].prev = th[u].prev /\ th'[u].inbox = th[u].inbox
      BY <2>1, MoveFrame
    <2>4. \A d \in Calls :
            /\ Open(d)' <=> Open(d)
            /\ HasProposal(d)' <=> HasProposal(d)
            /\ Resubmitted(d)' <=> Resubmitted(d)
      BY <2>1 DEF Open, HasProposal, Resubmitted
    <2>5. Local(t, c)
      BY <2>1, <2>2, <2>3, <2>4 DEF Local
    <2>6. th[t].pc = "idle" /\ op # "none" /\ RowOK(c) /\ CacheOK(c)
      BY <2>1 DEF LInv, PhaseOK, OpNames
    <2>7. PhaseOK(t)' /\ TaskOK(t)'
      BY <1>1, <2>2, <2>3, <2>6
      DEF PhaseOK, TaskOK, SubmitOK, ClaimOK, Claiming, OpNames
    <2>8. ~Claiming(t) /\ ~Claiming(t)'
      BY <2>1, <2>2, <2>3 DEF Claiming
    <2>9. /\ AmendOut(c)' <=> AmendOut(c)
          /\ Marking(c)' <=> Marking(c)
          /\ Proposing(c)' <=> Proposing(c)
          /\ Claimed(c)' <=> Claimed(c)
      BY <2>1, <2>2, <2>3, <2>6, <2>8
      DEF AmendOut, Marking, Proposing, Claimed, Claiming
    <2>10. RowOK(c)' /\ CacheOK(c)'
      BY <2>1, <2>4, <2>6, <2>9 DEF RowOK, CacheOK, PendingState, Resolved
    <2>11. Considerate(t, c)
      BY <2>1, <2>4, <2>9 DEF Considerate
    <2>12. Exclusive'
      <3> SUFFICES ASSUME NEW u \in Threads, NEW v \in Threads,
                          th'[u].call = th'[v].call, u # v
                   PROVE  /\ th'[u].op = "submit" => th'[v].op = "none"
                          /\ ~(Claiming(u)' /\ Claiming(v)')
        BY DEF Exclusive
      <3>1. CASE u # t /\ v # t
        BY <2>3, <3>1 DEF LInv, Exclusive, Claiming
      <3>2. CASE u = t /\ v # t
        BY <1>1, <2>2, <2>3, <2>8, <3>2 DEF Busy
      <3>3. CASE u # t /\ v = t
        BY <1>1, <2>2, <2>3, <2>8, <3>3 DEF Submitting
      <3> QED BY <3>1, <3>2, <3>3
    <2> QED BY <2>5, <2>7, <2>10, <2>11, <2>12, Assemble
  <1>2. CASE StartSubmit(t, c)
    <2>1. ~Busy(c)
      BY <1>2 DEF StartSubmit
    <2>2. ~Submitting(c)
      BY <2>1 DEF Busy, Submitting
    <2>3. Start(t, "submit", "s_cached", c, NoArgs, Once)
      BY <1>2 DEF StartSubmit
    <2> QED BY <1>1, <2>1, <2>2, <2>3 DEF OpNames
  <1>3. CASE StartOther(t, c)
    <2>1. ~Submitting(c)
      BY <1>3 DEF StartOther
    <2>2. \/ \E a \in MaybeArgs, s \in Scopes : Start(t, "approve", "load", c, a, s)
          \/ Start(t, "reject", "load", c, NoArgs, Once)
          \/ \E a \in Args : Start(t, "amend", "load", c, a, Once)
          \/ Start(t, "await", "load", c, NoArgs, Once)
          \/ Start(t, "retrieve", "r_cached", c, NoArgs, Once)
      BY <1>3 DEF StartOther
    <2> QED BY <1>1, <2>1, <2>2 DEF OpNames
  <1> QED BY <1>2, <1>3

LEMMA CrashLedger ==
  ASSUME IInv, LInv, Crash
  PROVE  LInv'
  <1>1. /\ log' = log /\ kept' = kept /\ row' = kept
        /\ \A c \in Calls : cache'[c].state = "absent"
        /\ \A t \in Threads : th'[t] = Idle
    BY DEF Crash, StoreUnchanged, NoEntry
  <1>2. \A t \in Threads : PhaseOK(t)' /\ TaskOK(t)' /\ ~Claiming(t)'
                           /\ th'[t].op = "none" /\ th'[t].pc = "idle"
    BY <1>1, IdleOK
  <1>3. Exclusive'
    BY <1>2 DEF Exclusive
  <1>4. \A c \in Calls : CacheOK(c)'
    BY <1>1, <1>2 DEF CacheOK, Proposing
  <1>5. \A c \in Calls : RowOK(c)'
    BY <1>1 DEF LInv, RowOK, Resolved, Open, HasProposal, Resubmitted
  <1> QED BY <1>2, <1>3, <1>4, <1>5 DEF LInv

LEMMA InitLedger == Init => LInv
  <1> SUFFICES ASSUME Init PROVE LInv
    OBVIOUS
  <1>1. \A t \in Threads : th[t].op = "none" /\ th[t].pc = "idle"
                           /\ th[t].inbox.kind = "none"
    BY DEF Init, Idle, NoDecision
  <1>2. \A t \in Threads : PhaseOK(t) /\ TaskOK(t)
    BY <1>1 DEF PhaseOK, TaskOK, SubmitOK, ClaimOK, Claiming
  <1>3. Exclusive
    BY <1>1 DEF Exclusive, Claiming
  <1>4. \A c \in Calls : kept[c] = NoEntry /\ cache[c].state = "absent"
                         /\ kept[c].state = "absent" /\ row[c] = kept[c]
    BY DEF Init, NoEntry
  <1>5. \A c \in Calls : ~HasProposal(c) /\ ~Open(c)
    BY DEF Init, HasProposal, Open
  <1>6. \A c \in Calls : RowOK(c) /\ CacheOK(c)
    BY <1>1, <1>4, <1>5 DEF RowOK, CacheOK, Resolved, Proposing
  <1> QED BY <1>2, <1>3, <1>6 DEF LInv

LEMMA StutterLedger == LInv /\ UNCHANGED vars => LInv'
  <1> SUFFICES ASSUME LInv, UNCHANGED vars PROVE LInv'
    OBVIOUS
  <1>1. log' = log /\ kept' = kept /\ row' = row /\ cache' = cache /\ th' = th
    BY DEF vars
  <1>2. \A c \in Calls : (Open(c)' <=> Open(c)) /\ (HasProposal(c)' <=> HasProposal(c))
          /\ (Resubmitted(c)' <=> Resubmitted(c)) /\ (Claimed(c)' <=> Claimed(c))
          /\ (Marking(c)' <=> Marking(c)) /\ (AmendOut(c)' <=> AmendOut(c))
          /\ (Proposing(c)' <=> Proposing(c))
    BY <1>1 DEF Open, HasProposal, Resubmitted, Claimed, Claiming, Marking,
       Proposing, AmendOut
  <1>3. \A c \in Calls : RowOK(c)' /\ CacheOK(c)'
    BY <1>1, <1>2 DEF LInv, RowOK, CacheOK, Resolved, PendingState
  <1>4. Exclusive' /\ \A t \in Threads : PhaseOK(t)'
    BY <1>1 DEF LInv, Exclusive, PhaseOK, Claiming
  <1>5. \A t \in Threads : TaskOK(t)'
    BY <1>1 DEF LInv, TaskOK, SubmitOK, ClaimOK, Claiming, PendingState, AmendOut,
       Open, Resubmitted
  <1> QED BY <1>3, <1>4, <1>5 DEF LInv

\* LInv needs an orderly environment: submissions do not overlap with other
\* operations on the call, proposals and amendments reach the durable log, and
\* a write that is reported as failed did not happen.
LEMMA NextLedger ==
  ASSUME "overlap" \notin Env, "propose_fail" \notin Env,
         "amend_fail" \notin Env, "unsure" \notin Env
  PROVE  IInv /\ LInv /\ [Next]_vars => LInv'
  <1> SUFFICES ASSUME IInv, LInv, [Next]_vars PROVE LInv'
    OBVIOUS
  <1>1. ASSUME NEW t \in Threads, Step(t)
        PROVE  LInv'
    <2>1. CASE SubmitStep(t)
      BY <2>1, SubmitQuiet, ProposeStep, ProposedStep, InsertStep, AutoStep,
         AutoApprovedStep, MarkStep
      DEF SubmitStep
    <2>2. CASE LoadStep(t)
      BY <2>2, LoadQuiet, FillStep DEF LoadStep
    <2>3. CASE DecideStep(t)
      BY <2>3, ClaimSteps, AmendStep, OtherQuiet, ClaimStands, AmendSaved,
         VerdictSaved, RevertStep, SendQuiet
      DEF DecideStep
    <2>4. CASE AwaitStep(t)
      BY <2>4, OtherQuiet, ElapsedQuiet, ClaimSteps DEF AwaitStep
    <2>5. CASE RetrieveStep(t)
      BY <2>5, OtherQuiet DEF RetrieveStep
    <2> QED BY <1>1, <2>1, <2>2, <2>3, <2>4, <2>5 DEF Step
  <1> QED BY <1>1, StartLedger, CrashLedger, StutterLedger DEF Next
-----------------------------------------------------------------------------
(* The refinement, step by step                                            *)

LedgerView == [c \in Calls |-> [state |-> kept[c].state, open |-> Open(c),
                                override |-> kept[c].approved]]

DeliveredView == {g.call : g \in {h \in granted : h.via = "oneshot"}}

LEMMA OpenIsBoolean ==
  ASSUME NEW c \in Calls
  PROVE  Open(c) \in BOOLEAN /\ Open(c)' \in BOOLEAN
  BY DEF Open

\* A step that makes nothing durable leaves the ledger as it is.
LEMMA ViewStays ==
  ASSUME log' = log, kept' = kept
  PROVE  LedgerView' = LedgerView
  BY DEF LedgerView, Open

LEMMA ViewMoves ==
  ASSUME TypeOK, NEW c \in Calls, NEW e \in EventSet, e.call = c, Persist(e),
         NEW v, v = [state |-> kept'[c].state, open |-> Open(c)',
                     override |-> kept'[c].approved]
  PROVE  LedgerView' = [LedgerView EXCEPT ![c] = v]
  <1>1. log' = Append(log, e) /\ kept' = [kept EXCEPT ![c] = Project(@, e)]
    BY DEF Persist
  <1>2. \A d \in Calls : d # c => kept'[d] = kept[d] /\ Open(d)' = Open(d)
    BY <1>1, OpenSame, OpenIsBoolean DEF TypeOK
  <1>3. \A d \in Calls : d # c =>
          [state |-> kept'[d].state, open |-> Open(d)', override |-> kept'[d].approved]
            = [state |-> kept[d].state, open |-> Open(d), override |-> kept[d].approved]
    BY <1>2
  <1> QED BY <1>3 DEF LedgerView

LEMMA ProposedView ==
  ASSUME NEW s, NEW p \in BOOLEAN, NEW a
  PROVE  Ledger!Proposed([state |-> s, open |-> p, override |-> a])
           = [state |-> IF s = "absent" THEN "pending" ELSE s,
              open |-> TRUE, override |-> a]
  <1> DEFINE q == IF s = "absent" THEN "pending" ELSE s
             f == [state |-> s, open |-> p, override |-> a]
             g == [state |-> q, open |-> p, override |-> a]
  <1>1. f.state = s
    OBVIOUS
  <1>2. [f EXCEPT !.state = IF f.state = "absent" THEN "pending" ELSE f.state] = g
    OBVIOUS
  <1> HIDE DEF q
  <1>3. [g EXCEPT !.open = TRUE] = [state |-> q, open |-> TRUE, override |-> a]
    <2> DEFINE yes == TRUE
    <2> HIDE DEF yes
    <2>1. [g EXCEPT !.open = yes] = [state |-> q, open |-> yes, override |-> a]
      OBVIOUS
    <2> QED BY <2>1, Zenon DEF yes
  <1> HIDE DEF g, f
  <1>4. Ledger!Proposed(f)
          = [[f EXCEPT !.state = IF f.state = "absent" THEN "pending" ELSE f.state]
               EXCEPT !.open = TRUE]
    BY DEF Ledger!Proposed
  <1>5. Ledger!Proposed(f) = [state |-> q, open |-> TRUE, override |-> a]
    BY <1>2, <1>3, <1>4
  <1> QED BY <1>5 DEF f, q

LEMMA ViewProposes ==
  ASSUME IInv, LInv, NEW t \in Threads, NEW c \in Calls, c = th[t].call,
         SubmitProposed(t)
  PROVE  Ledger!Propose(c)
  <1> DEFINE e == Proposal(c)
             v == [state |-> kept'[c].state, open |-> Open(c)',
                   override |-> kept'[c].approved]
  <1>1. e \in EventSet /\ e.call = c /\ e.type = "proposed"
    BY ProposalType DEF Proposal, Event
  <1>2. Persist(e) /\ th[t].pc = "s_proposing" /\ granted' = granted /\ TypeOK
    BY DEF SubmitProposed, At, HistoryUnchanged, IInv
  <1> HIDE DEF e
  <1>3. Open(c)' = TRUE /\ kept'[c] = Project(kept[c], e)
    BY <1>1, <1>2, ProposalOpens, OpenIsBoolean DEF Persist, TypeOK
  <1>4. kept[c].state # "approved" /\ RowOK(c)
    BY <1>2 DEF LInv, TaskOK, SubmitOK
  <1>5. /\ kept'[c].state = IF kept[c].state = "absent" THEN "pending"
                           ELSE kept[c].state
        /\ kept'[c].approved = kept[c].approved
    BY <1>1, <1>3, <1>4
    DEF Project, IsResolution, RowOK, FreshEntry, NoEntry
  <1>6. v = Ledger!Proposed(LedgerView[c])
    <2>1. v = [state |-> IF kept[c].state = "absent" THEN "pending" ELSE kept[c].state,
               open |-> TRUE, override |-> kept[c].approved]
      BY <1>3, <1>5
    <2>2. LedgerView[c] = [state |-> kept[c].state, open |-> Open(c),
                           override |-> kept[c].approved]
      BY DEF LedgerView
    <2> HIDE DEF v
    <2> QED BY <2>1, <2>2, ProposedView, OpenIsBoolean
  <1>7. LedgerView' = [LedgerView EXCEPT ![c] = v]
    BY <1>1, <1>2, ViewMoves
  <1>8. LedgerView[c].state # "approved"
    BY <1>4 DEF LedgerView
  <1>9. DeliveredView' = DeliveredView
    BY <1>2 DEF DeliveredView
  <1> HIDE DEF v
  <1> QED
    BY <1>6, <1>7, <1>8, <1>9 DEF Ledger!Propose, LedgerView, DeliveredView

LEMMA ViewResolves ==
  ASSUME IInv, LInv, NEW t \in Threads, NEW c \in Calls, c = th[t].call,
         NEW e \in EventSet, e.call = c, IsResolution(e), Persist(e),
         Open(c), granted' = granted
  PROVE  Ledger!Resolve(c, e.type, e.args)
  <1> DEFINE v == [state |-> kept'[c].state, open |-> Open(c)',
                   override |-> kept'[c].approved]
  <1>1. Open(c)' = FALSE /\ kept'[c] = Project(kept[c], e) /\ TypeOK
    BY ResolutionCloses, OpenIsBoolean DEF Persist, IInv, TypeOK
  <1>2. kept[c].state # "absent"
    BY DEF LInv, RowOK
  <1>3. /\ kept'[c].state = e.type
        /\ kept'[c].approved = IF e.type = "approved" THEN e.args
                              ELSE kept[c].approved
    BY <1>1, <1>2 DEF Project
  <1>4. v = Ledger!Answered(LedgerView[c], e.type, e.args)
    BY <1>1, <1>3 DEF Ledger!Answered, LedgerView
  <1>5. LedgerView' = [LedgerView EXCEPT ![c] = v]
    BY <1>1, ViewMoves
  <1>6. LedgerView[c].open
    BY DEF LedgerView
  <1>7. DeliveredView' = DeliveredView
    BY DEF DeliveredView
  <1> HIDE DEF v
  <1> QED
    BY <1>4, <1>5, <1>6, <1>7 DEF Ledger!Resolve, LedgerView, DeliveredView

LEMMA ViewAmends ==
  ASSUME IInv, LInv, NEW t \in Threads, DecisionSaved(t), th[t].op = "amend"
  PROVE  LedgerView' = LedgerView
  <1> SUFFICES ASSUME NEW c \in Calls, c = th[t].call
               PROVE  LedgerView' = LedgerView
    BY DEF IInv, TypeOK, ThreadSet
  <1> DEFINE e == DecisionEvent(t)
             v == [state |-> kept'[c].state, open |-> Open(c)',
                   override |-> kept'[c].approved]
  <1>1. e \in EventSet /\ e.call = c /\ e.type = "amended" /\ Persist(e) /\ TypeOK
    BY DecisionEventType DEF IInv, DecisionSaved, DecisionEvent
  <1> HIDE DEF e
  <1>2. Open(c)' = Open(c) /\ kept'[c] = Project(kept[c], e)
    BY <1>1, OpenSame, OpenIsBoolean DEF Persist, TypeOK
  <1>3. kept[c].state # "absent"
    BY DEF LInv, TaskOK, CacheOK, DecisionSaved
  <1>4. kept'[c].state = kept[c].state /\ kept'[c].approved = kept[c].approved
    BY <1>1, <1>2, <1>3 DEF Project, IsResolution
  <1>5. v = LedgerView[c]
    BY <1>2, <1>4 DEF LedgerView
  <1>6. LedgerView' = [LedgerView EXCEPT ![c] = v]
    BY <1>1, ViewMoves
  <1> QED BY <1>5, <1>6 DEF LedgerView

\* What a step may do to the two variables of the ledger.
LedgerMove ==
  Ledger!LedgerNext
    \/ (LedgerView' = LedgerView /\ DeliveredView' = DeliveredView)

LEMMA GrantElsewhere ==
  ASSUME NEW c, NEW args, NEW via, Grant(c, args, via), via # "oneshot"
  PROVE  DeliveredView' = DeliveredView
  <1>1. \A g : (g \in granted' /\ g.via = "oneshot") <=> (g \in granted /\ g.via = "oneshot")
    BY DEF Grant
  <1> QED BY <1>1 DEF DeliveredView

LEMMA WokenIsDelivered ==
  ASSUME IInv, LInv, NEW t \in Threads, NEW c \in Calls, c = th[t].call,
         AwaitDelivered(t), th[t].inbox.kind = "approved"
  PROVE  Ledger!Deliver(c)
  <1>1. log' = log /\ kept' = kept /\ Grant(c, th[t].inbox.args, "oneshot")
    BY DEF AwaitDelivered, StoreUnchanged
  <1>2. LedgerView[c].state = "approved"
    BY DEF LedgerView, LInv, TaskOK
  <1> DEFINE g == [call |-> c, args |-> th[t].inbox.args, via |-> "oneshot"]
  <1>3. granted' = granted \cup {g} /\ g.call = c /\ g.via = "oneshot"
    BY <1>1 DEF Grant
  <1> HIDE DEF g
  <1>4. DeliveredView' = DeliveredView \cup {c}
    BY <1>3 DEF DeliveredView
  <1>5. LedgerView' = LedgerView
    BY <1>1, ViewStays
  <1> QED
    BY <1>2, <1>4, <1>5 DEF Ledger!Deliver, LedgerView, DeliveredView

LEMMA StepMoves ==
  ASSUME IInv, LInv, "unsure" \notin Env, NEW t \in Threads, Step(t)
  PROVE  LedgerMove
  <1> SUFFICES ASSUME NEW c \in Calls, c = th[t].call
               PROVE  LedgerMove
    BY DEF IInv, TypeOK, ThreadSet
  <1>0. granted' = granted => DeliveredView' = DeliveredView
    BY DEF DeliveredView
  <1>1. CASE SubmitStep(t)
    <2>1. granted' = granted
      BY <1>1
      DEF SubmitStep, SubmitCheckCache, SubmitCheckRow, SubmitPropose,
          SubmitProposed, SubmitInsert, SubmitMatch, SubmitAutoApprove,
          SubmitAutoApproved, SubmitMarkApproved, SubmitFails, HistoryUnchanged
    <2>2. CASE SubmitProposed(t)
      BY <2>2, ViewProposes DEF LedgerMove, Ledger!LedgerNext
    <2>3. CASE SubmitAutoApproved(t)
      <3> DEFINE f == AutoApproval(c)
      <3>1. /\ f \in EventSet /\ f.call = c /\ f.type = "approved"
            /\ IsResolution(f) /\ f.args = NoArgs
        BY ProposalType DEF AutoApproval, Event, IsResolution
      <3>2. Persist(f) /\ th[t].pc = "s_approving"
        BY <2>3 DEF SubmitAutoApproved, At
      <3>3. Open(c)
        BY <3>2 DEF LInv, TaskOK, SubmitOK
      <3> HIDE DEF f
      <3>4. PICK e \in EventSet : /\ e.call = c /\ e.type = "approved" /\ e.args = NoArgs
                                 /\ IsResolution(e) /\ Persist(e)
        BY <3>1, <3>2
      <3>5. Ledger!Resolve(c, e.type, e.args)
        BY <2>1, <3>3, <3>4, ViewResolves
      <3>6. Ledger!Resolve(c, "approved", NoArgs)
        BY <3>4, <3>5
      <3> QED BY <3>6 DEF LedgerMove, Ledger!LedgerNext
    <2>4. CASE log' = log /\ kept' = kept
      BY <1>0, <2>1, <2>4, ViewStays DEF LedgerMove
    <2> QED
      BY <1>1, <2>2, <2>3, <2>4
      DEF SubmitStep, SubmitCheckCache, SubmitCheckRow, SubmitPropose, SubmitInsert,
          SubmitMatch, SubmitAutoApprove, SubmitMarkApproved, SubmitFails,
          AppendInMemory, PersistFails, StoreUnchanged
  <1>2. CASE LoadStep(t)
    <2>1. log' = log /\ kept' = kept
      BY <1>2
      DEF LoadStep, LoadCached, LoadFetch, LoadFill, LoadFails, StoreUnchanged
    <2>2. granted' = granted \/ \E a : Grant(c, a, "fast_path")
      BY <1>2
      DEF LoadStep, LoadCached, LoadFetch, LoadFill, LoadFails, Loaded,
          HistoryUnchanged
    <2> QED BY <1>0, <2>1, <2>2, ViewStays, GrantElsewhere DEF LedgerMove
  <1>3. CASE DecideStep(t)
    <2>1. granted' = granted
      BY <1>3
      DEF DecideStep, ApproveClaim, RejectClaim, AmendClaim, ClaimRefused,
          DecisionAppend, DecisionSaved, DecisionSaveFails, DecisionRevert,
          ApprovePushRule, SendDecision, HistoryUnchanged
    <2>2. CASE DecisionSaved(t) /\ th[t].op = "amend"
      BY <1>0, <2>1, <2>2, ViewAmends DEF LedgerMove
    <2>3. CASE DecisionSaved(t) /\ th[t].op # "amend"
      <3>1. th[t].pc = "saving" /\ th[t].op \in {"approve", "reject", "await"}
        BY <2>3 DEF DecisionSaved, LInv, PhaseOK
      <3>2. PICK e \in EventSet : /\ e = DecisionEvent(t)
                                 /\ e.call = c /\ IsResolution(e) /\ Persist(e)
        BY <2>3, <3>1, DecisionEventType
        DEF IInv, DecisionSaved, DecisionEvent, IsResolution
      <3>3. Open(c)
        BY <3>1 DEF LInv, TaskOK, ClaimOK, Claiming
      <3>4. Ledger!Resolve(c, e.type, e.args)
        BY <2>1, <3>2, <3>3, ViewResolves
      <3>5. e.type \in {"approved", "rejected"} /\ e.args \in Args \cup {NoArgs}
        BY <3>2 DEF IsResolution, EventSet, MaybeArgs
      <3> QED BY <3>4, <3>5 DEF LedgerMove, Ledger!LedgerNext
    <2>4. CASE log' = log /\ kept' = kept
      BY <1>0, <2>1, <2>4, ViewStays DEF LedgerMove
    <2> QED
      BY <1>3, <2>2, <2>3, <2>4
      DEF DecideStep, ApproveClaim, RejectClaim, AmendClaim, ClaimRefused,
          DecisionAppend, DecisionSaveFails, DecisionRevert, ApprovePushRule,
          SendDecision, AppendInMemory, PersistFails, StoreUnchanged
  <1>4. CASE AwaitStep(t) \/ RetrieveStep(t)
    <2>1. log' = log /\ kept' = kept
      BY <1>4
      DEF AwaitStep, RetrieveStep, AwaitRegister, AwaitDelivered, AwaitCanceled,
          AwaitElapsed, TimeoutClaim, RetrieveCached, RetrieveRow, StoreUnchanged
    <2>2. CASE AwaitDelivered(t) /\ th[t].inbox.kind = "approved"
      BY <2>2, WokenIsDelivered DEF LedgerMove, Ledger!LedgerNext
    <2>3. CASE granted' = granted \/ \E a : Grant(c, a, "cache") \/ Grant(c, a, "row")
      BY <1>0, <2>1, <2>3, ViewStays, GrantElsewhere DEF LedgerMove
    <2> QED
      BY <1>4, <2>2, <2>3
      DEF AwaitStep, RetrieveStep, AwaitRegister, AwaitDelivered, AwaitCanceled,
          AwaitElapsed, TimeoutClaim, RetrieveCached, RetrieveRow, HistoryUnchanged
  <1> QED BY <1>1, <1>2, <1>3, <1>4 DEF Step

LEMMA NextMoves ==
  ASSUME "unsure" \notin Env
  PROVE  IInv /\ LInv /\ [Next]_vars => LedgerMove
  <1> SUFFICES ASSUME IInv, LInv, [Next]_vars PROVE LedgerMove
    OBVIOUS
  <1>1. ASSUME log' = log, kept' = kept, granted' = granted
        PROVE  LedgerMove
    BY <1>1, ViewStays DEF LedgerMove, DeliveredView
  <1>2. ASSUME NEW t \in Threads, NEW c \in Calls, StartSubmit(t, c) \/ StartOther(t, c)
        PROVE  LedgerMove
    BY <1>1, <1>2 DEF StartSubmit, StartOther, Start, StoreUnchanged
  <1>3. CASE Crash
    BY <1>1, <1>3 DEF Crash, StoreUnchanged, HistoryUnchanged
  <1>4. CASE UNCHANGED vars
    BY <1>1, <1>4 DEF vars
  <1> QED BY <1>2, <1>3, <1>4, StepMoves DEF Next

-----------------------------------------------------------------------------
\* The service implements the approval ledger in its durable log.  Decisions
\* may fail to be written and be rolled back, waiters may time out, calls may be
\* resubmitted and the process may crash: as long as operations do not overlap
\* a submission of their call, proposals and amendments reach the durable log,
\* and a write reported as failed did not happen, each durable resolution
\* answers an open proposal, a durable approval is final, and a waiter is woken
\* with an approval only for a call that would be approved after a restart.
\* (Of the projection in memory it says nothing: append keeps the events there
\* whose durable write failed.)
THEOREM ServiceImplementsLedger ==
  ASSUME "overlap" \notin Env, "propose_fail" \notin Env,
         "amend_fail" \notin Env, "unsure" \notin Env
  PROVE  Spec => ImplementsLedger
  <1>1. Init => Ledger!LedgerInit
    <2> SUFFICES ASSUME Init PROVE Ledger!LedgerInit
      OBVIOUS
    <2>1. \A c \in Calls : kept[c] = NoEntry /\ Open(c) = FALSE
      BY OpenIsBoolean DEF Init, Open
    <2>2. NoEntry.state = "absent" /\ NoEntry.approved = NoArgs
      BY DEF NoEntry
    <2>3. \A c \in Calls :
            [state |-> kept[c].state, open |-> Open(c), override |-> kept[c].approved]
              = [state |-> "absent", open |-> FALSE, override |-> NoArgs]
      BY <2>1, <2>2
    <2>4. LedgerView = [c \in Calls |-> [state |-> "absent", open |-> FALSE,
                                         override |-> NoArgs]]
      BY <2>3 DEF LedgerView
    <2>5. DeliveredView = {}
      BY DEF Init, DeliveredView
    <2> QED
      BY <2>4, <2>5 DEF Ledger!LedgerInit, Ledger!NoCall, LedgerView, DeliveredView
  <1>2. IInv /\ LInv /\ [Next]_vars
          => [Ledger!LedgerNext]_<<LedgerView, DeliveredView>>
    BY NextMoves DEF LedgerMove
  <1>3. IInv /\ LInv /\ [Next]_vars => IInv' /\ LInv'
    BY NextInv, NextLedger
  <1>4. Init => IInv /\ LInv
    BY InitInv, InitLedger
  <1>5. Spec => [][Ledger!LedgerNext]_<<LedgerView, DeliveredView>>
    BY <1>2, <1>3, <1>4, PTL DEF Spec
  <1>6. Spec => Ledger!LedgerInit
    BY <1>1 DEF Spec
  <1> QED
    BY <1>5, <1>6, PTL DEF ImplementsLedger, Ledger!LedgerSpec, LedgerView, DeliveredView

\* When no operation on a call is in flight, its cache entry is what a restart
\* would rebuild from the durable log: claims that were rolled back leave no
\* trace in the cache, claims that were persisted are in both places.
THEOREM CacheFollowsLog ==
  ASSUME "overlap" \notin Env, "propose_fail" \notin Env,
         "amend_fail" \notin Env, "unsure" \notin Env
  PROVE  Spec => []CacheIsDurable
  <1>1. IInv /\ LInv => CacheIsDurable
    <2> SUFFICES ASSUME IInv, LInv, NEW c \in Calls, ~Busy(c),
                        cache[c].state # "absent", ~Resubmitted(c)
                 PROVE  [cache[c] EXCEPT !.amended = kept[c].amended]
                          = StoredToEntry(kept[c])
      BY DEF CacheIsDurable
    <2>1. \A t \in Threads : th[t].call = c => th[t].op = "none" /\ th[t].pc = "idle"
      BY DEF Busy, LInv, PhaseOK
    <2>2. ~Claimed(c) /\ ~Marking(c) /\ ~AmendOut(c)
      BY <2>1 DEF Claimed, Claiming, Marking, AmendOut
    <2>3. /\ cache[c].approved = kept[c].approved
          /\ cache[c].reason = kept[c].reason
          /\ cache[c].state = IF kept[c].state = "pending" /\ kept[c].amended # NoArgs
                              THEN "amended" ELSE kept[c].state
      BY <2>2 DEF LInv, CacheOK, PendingState
    <2>4. cache[c] \in EntrySet /\ kept[c] \in EntrySet
      BY DEF IInv, TypeOK, RowSet
    <2> QED BY <2>3, <2>4 DEF StoredToEntry, EntrySet
  <1>2. IInv /\ LInv /\ [Next]_vars => IInv' /\ LInv'
    BY NextInv, NextLedger
  <1>3. Init => IInv /\ LInv
    BY InitInv, InitLedger
  <1> QED BY <1>1, <1>2, <1>3, PTL DEF Spec
=============================================================================
