----------------------- MODULE OrchestratorLoopProofs -----------------------
(***************************************************************************)
(* Theorems about OrchestratorLoop, for every number of requests, every    *)
(* set of plans and arguments, any number of iterations, crashes and store *)
(* failures.                                                               *)
(***************************************************************************)
EXTENDS OrchestratorLoop, TLAPS

-----------------------------------------------------------------------------
(* The inductive invariant                                                 *)

TaskMaps == UNION {[D -> TaskSet] : D \in SUBSET (1..MaxIndex)}

ReqSet ==
  [pc : ReqPCs, iter : 0..(MaxIterations - 1), drained : SUBSET Calls,
   queue : SUBSET Calls, plan : Plans \cup {<<>>}, tasks : TaskMaps, next : Nat]

StateTyped ==
  /\ ledger \in [Calls -> Ledger!LedgerSet]
  /\ delivered \subseteq Calls
  /\ results \subseteq Ids /\ completed \subseteq Ids
  /\ runDone \in BOOLEAN
  /\ req \in [Requests -> ReqSet]
  /\ recorded \subseteq Calls
  /\ faults \in 0..MaxFaults

Approved(c) == ledger[c].state = "approved"

\* An approval leaves nothing open, so nobody can answer the call again.
ApprovedIsClosed == \A c \in Calls : Approved(c) => ~ledger[c].open

QueuedIsApproved == \A r \in Requests : \A c \in req[r].queue : Approved(c)

\* The steps of a task that come after its approval, and those at which it
\* holds the arguments of that approval.
Granted == {"retrieve", "start", "lookup", "run", "record", "insert"}
Settled == Granted \ {"retrieve"}

\* A task t at position i of a request at rpc: the request waits for it, its
\* ids are those of its position, and what it is about to run is approved in
\* the rows.
RowArgs(rows, c) == IF rows[c].override # NoArgs THEN rows[c].override ELSE c.args

TaskOK(rows, rpc, i, t) ==
  /\ t.via = "drain" => /\ rpc = "drain" /\ i = 1
                        /\ t.call \in Calls /\ t.id = t.call
                        /\ t.pc \in Settled \cup {"done", "failed", "error"}
  /\ t.via = "turn" => /\ rpc = "tools" /\ t.id.index = i
                       /\ t.call # NoId => t.call.index = i
                       /\ t.call = NoId => t.pc \notin {"submit", "answer", "retrieve", "awaiting"}
  /\ t.call # NoId /\ t.pc \in Granted => rows[t.call].state = "approved"
  /\ t.call # NoId /\ t.pc \in Settled => t.args = RowArgs(rows, t.call)

TasksOK ==
  \A r \in Requests : \A i \in DOMAIN req[r].tasks :
    TaskOK(ledger, req[r].pc, i, req[r].tasks[i])

LoopInv == StateTyped /\ ApprovedIsClosed /\ QueuedIsApproved /\ TasksOK

\* Without overlapping requests: a call past its cache lookup is in no
\* completion event, and the cache has every other completion, but for the one
\* that is just being inserted.
OneActive == \A q, r \in Requests : Active(q) /\ Active(r) => q = r

PastLookup(t) == t.pc \in {"run", "record"} \/ (t.via = "drain" /\ t.pc = "start")

UnrecordedYet ==
  \A r \in Requests : \A i \in DOMAIN req[r].tasks :
    PastLookup(req[r].tasks[i]) => req[r].tasks[i].id \notin completed

CompletedIsCached ==
  \A id \in completed :
    id \in results \/ \E r \in Requests : \E i \in DOMAIN req[r].tasks :
                        req[r].tasks[i].pc = "insert" /\ req[r].tasks[i].id = id

OnceInv == LoopInv /\ OneActive /\ UnrecordedYet /\ CompletedIsCached

-----------------------------------------------------------------------------
(* Types                                                                   *)

LEMMA CallTyped ==
  /\ NoId \notin Calls
  /\ \A c \in Calls : /\ c \in Ids /\ c.args \in Args /\ c.index \in 1..MaxIndex
                      /\ c.step \in 0..(MaxIterations - 1)
BY DEF Calls, Ids, NoId, MaxIndex

LEMMA TaskTyped ==
  ASSUME NEW t \in TaskSet
  PROVE  /\ t.pc \in TaskPCs /\ t.via \in {"drain", "turn"} /\ t.call \in Calls \cup {NoId}
         /\ t.id \in Ids /\ t.args \in Args
         /\ \A pc \in TaskPCs :
              LET u == [t EXCEPT !.pc = pc] IN
              /\ u \in TaskSet /\ u.pc = pc /\ u.via = t.via /\ u.call = t.call
              /\ u.id = t.id /\ u.args = t.args
BY DEF TaskSet

LEMMA TaskMapTyped ==
  ASSUME NEW f \in TaskMaps
  PROVE  /\ DOMAIN f \subseteq 1..MaxIndex
         /\ \A i \in DOMAIN f : f[i] \in TaskSet
         /\ \A i \in DOMAIN f, t \in TaskSet :
              LET g == [f EXCEPT ![i] = t] IN
              /\ g \in TaskMaps /\ DOMAIN g = DOMAIN f /\ g[i] = t
              /\ \A j \in DOMAIN f \ {i} : g[j] = f[j]
<1>1. PICK D \in SUBSET (1..MaxIndex) : f \in [D -> TaskSet]
  BY DEF TaskMaps
<1>2. \A i \in DOMAIN f, t \in TaskSet : [f EXCEPT ![i] = t] \in [D -> TaskSet]
  BY <1>1
<1> QED
  BY <1>1, <1>2 DEF TaskMaps

LEMMA TaskMapMade ==
  ASSUME NEW D, D \subseteq 1..MaxIndex, NEW f \in [D -> TaskSet]
  PROVE  f \in TaskMaps
BY DEF TaskMaps

LEMMA NoTasks ==
  <<>> \in TaskMaps /\ DOMAIN <<>> = {}
<1>1. <<>> \in [{} -> TaskSet]
  OBVIOUS
<1> QED
  BY <1>1, TaskMapMade

LEMMA IdleTyped ==
  /\ IdleReq \in ReqSet /\ IdleReq.pc = "idle" /\ IdleReq.iter = 0
  /\ IdleReq.queue = {} /\ IdleReq.tasks = <<>> /\ IdleReq.drained = {}
  /\ DOMAIN IdleReq.tasks = {}
<1>1. 0 \in 0..(MaxIterations - 1)
  BY LoopAssumption
<1> QED
  BY <1>1, NoTasks DEF IdleReq, ReqSet, ReqPCs

LEMMA ReqTyped ==
  ASSUME StateTyped, NEW r \in Requests
  PROVE  /\ req[r] \in ReqSet /\ req[r].pc \in ReqPCs /\ req[r].iter \in 0..(MaxIterations - 1)
         /\ req[r].drained \subseteq Calls /\ req[r].queue \subseteq Calls
         /\ req[r].plan \in Plans \cup {<<>>} /\ req[r].tasks \in TaskMaps
         /\ req[r].next \in Nat
BY DEF StateTyped, ReqSet

LEMMA RowTyped ==
  ASSUME StateTyped, NEW c \in Calls
  PROVE  /\ ledger[c] \in Ledger!LedgerSet /\ ledger[c].override \in Args \cup {NoArgs}
         /\ ledger[c].open \in BOOLEAN /\ ledger[c].state \in Ledger!States
         /\ RowArgs(ledger, c) \in Args
<1>1. ledger[c] \in Ledger!LedgerSet
  BY DEF StateTyped
<1> QED
  BY <1>1, CallTyped DEF Ledger!LedgerSet, RowArgs

-----------------------------------------------------------------------------
(* The ledger                                                              *)

\* The approved rows stay as they are.
ApprovalsStay == \A d \in Calls : Approved(d) => ledger'[d] = ledger[d]

LedgerStep == /\ ledger' \in [Calls -> Ledger!LedgerSet]
              /\ ApprovedIsClosed' /\ ApprovalsStay

LEMMA LedgerSame ==
  ASSUME LoopInv, ledger' = ledger
  PROVE  LedgerStep
BY DEF LoopInv, StateTyped, LedgerStep, ApprovedIsClosed, ApprovalsStay, Approved

LEMMA ProposeStep ==
  ASSUME LoopInv, NEW c \in Calls, Ledger!Propose(c)
  PROVE  LedgerStep /\ delivered' = delivered
<1> DEFINE e == Ledger!Proposed(ledger[c])
<1>1. /\ ledger[c] \in Ledger!LedgerSet /\ ledger \in [Calls -> Ledger!LedgerSet]
      /\ ledger[c].state # "approved"
  BY RowTyped DEF LoopInv, StateTyped, Ledger!Propose
<1>2. e \in Ledger!LedgerSet /\ e.state # "approved"
  BY <1>1 DEF Ledger!Proposed, Ledger!LedgerSet, Ledger!States
<1>3. ledger' = [ledger EXCEPT ![c] = e] /\ delivered' = delivered
  BY DEF Ledger!Propose
<1> HIDE DEF e
<1>4. ledger' \in [Calls -> Ledger!LedgerSet] /\ ledger'[c] = e
  BY <1>1, <1>2, <1>3
<1>5. \A d \in Calls \ {c} : ledger'[d] = ledger[d]
  BY <1>1, <1>3
<1> QED
  BY <1>1, <1>2, <1>3, <1>4, <1>5 DEF LoopInv, LedgerStep, ApprovedIsClosed, ApprovalsStay, Approved

LEMMA ResolveStep ==
  ASSUME LoopInv, NEW c \in Calls, NEW v \in {"approved", "rejected"},
         NEW a \in Args \cup {NoArgs}, Ledger!Resolve(c, v, a)
  PROVE  /\ LedgerStep /\ delivered' = delivered
         /\ ledger'[c].state = v /\ ~Approved(c)
<1> DEFINE e == Ledger!Answered(ledger[c], v, a)
<1>1. /\ ledger[c] \in Ledger!LedgerSet /\ ledger \in [Calls -> Ledger!LedgerSet]
      /\ ~Approved(c)
  BY RowTyped DEF LoopInv, StateTyped, ApprovedIsClosed, Ledger!Resolve
<1>2. e \in Ledger!LedgerSet /\ e.state = v /\ ~e.open
  BY <1>1 DEF Ledger!Answered, Ledger!LedgerSet, Ledger!States
<1>3. ledger' = [ledger EXCEPT ![c] = e] /\ delivered' = delivered
  BY DEF Ledger!Resolve
<1> HIDE DEF e
<1>4. ledger' \in [Calls -> Ledger!LedgerSet] /\ ledger'[c] = e
  BY <1>1, <1>2, <1>3
<1>5. \A d \in Calls \ {c} : ledger'[d] = ledger[d]
  BY <1>1, <1>3
<1> QED
  BY <1>1, <1>2, <1>3, <1>4, <1>5 DEF LoopInv, LedgerStep, ApprovedIsClosed, ApprovalsStay, Approved

LEMMA TaskOKStays ==
  ASSUME LedgerStep, NEW t \in TaskSet, NEW rpc, NEW i, TaskOK(ledger, rpc, i, t)
  PROVE  TaskOK(ledger', rpc, i, t)
<1>1. t.call # NoId => t.call \in Calls
  BY TaskTyped
<1>2. CASE t.call # NoId /\ t.pc \in Granted
  <2>1. ledger[t.call].state = "approved"
    BY <1>2 DEF TaskOK
  <2>2. ledger'[t.call] = ledger[t.call]
    BY <1>1, <1>2, <2>1 DEF LedgerStep, ApprovalsStay, Approved
  <2> QED
    BY <2>2 DEF TaskOK, RowArgs
<1>3. CASE ~(t.call # NoId /\ t.pc \in Granted)
  <2>1. ~(t.call # NoId /\ t.pc \in Settled)
    BY <1>3 DEF Settled
  <2> QED
    BY <1>3, <2>1 DEF TaskOK
<1> QED
  BY <1>2, <1>3

-----------------------------------------------------------------------------
(* Steps                                                                   *)

\* What a step may do to the rest of the state.
RestTyped ==
  /\ delivered' \subseteq Calls /\ results' \subseteq Ids /\ completed' \subseteq Ids
  /\ runDone' \in BOOLEAN /\ recorded' \subseteq Calls /\ faults' \in 0..MaxFaults

\* A step that takes request r to q.
LEMMA RequestStep ==
  ASSUME LoopInv, LedgerStep, RestTyped, NEW r \in Requests, NEW q \in ReqSet,
         req' = [req EXCEPT ![r] = q],
         \A c \in q.queue : ledger'[c].state = "approved",
         \A i \in DOMAIN q.tasks : TaskOK(ledger', q.pc, i, q.tasks[i])
  PROVE  LoopInv'
<1>1. /\ req' \in [Requests -> ReqSet] /\ req'[r] = q
      /\ \A s \in Requests \ {r} : req'[s] = req[s]
  BY DEF LoopInv, StateTyped
<1>2. StateTyped'
  BY <1>1 DEF StateTyped, RestTyped, LedgerStep
<1>3. QueuedIsApproved'
  <2> SUFFICES ASSUME NEW s \in Requests, NEW c \in req'[s].queue
               PROVE  ledger'[c].state = "approved"
    BY DEF QueuedIsApproved, Approved
  <2>1. CASE s = r
    BY <1>1, <2>1
  <2>2. CASE s # r
    <3>1. c \in req[s].queue /\ c \in Calls
      BY <1>1, <2>2, ReqTyped DEF LoopInv
    <3> QED
      BY <3>1 DEF LoopInv, QueuedIsApproved, Approved, LedgerStep, ApprovalsStay
  <2> QED
    BY <2>1, <2>2
<1>4. TasksOK'
  <2> SUFFICES ASSUME NEW s \in Requests, NEW i \in DOMAIN req'[s].tasks
               PROVE  TaskOK(ledger', req'[s].pc, i, req'[s].tasks[i])
    BY DEF TasksOK
  <2>1. CASE s = r
    BY <1>1, <2>1
  <2>2. CASE s # r
    <3>1. i \in DOMAIN req[s].tasks /\ req[s].tasks[i] \in TaskSet /\ req'[s] = req[s]
      BY <1>1, <2>2, ReqTyped, TaskMapTyped DEF LoopInv
    <3>2. TaskOK(ledger, req[s].pc, i, req[s].tasks[i])
      BY <3>1 DEF LoopInv, TasksOK
    <3> QED
      BY <3>1, <3>2, TaskOKStays
  <2> QED
    BY <2>1, <2>2
<1> QED
  BY <1>2, <1>3, <1>4 DEF LoopInv, LedgerStep

\* A step that ends the request, or leaves it without tasks.
LEMMA RequestMoves ==
  ASSUME LoopInv, LedgerUnchanged, RestTyped, NEW r \in Requests, NEW q \in ReqSet,
         req' = [req EXCEPT ![r] = q],
         q.queue \subseteq req[r].queue, DOMAIN q.tasks = {}
  PROVE  LoopInv'
<1>1. LedgerStep /\ ledger' = ledger
  BY LedgerSame DEF LedgerUnchanged
<1>2. \A c \in q.queue : ledger'[c].state = "approved"
  BY <1>1 DEF LoopInv, QueuedIsApproved, Approved
<1> QED
  BY <1>1, <1>2, RequestStep

LEMMA RestSame ==
  ASSUME LoopInv, LedgerUnchanged, UNCHANGED <<results, completed, recorded>>,
         runDone' \in BOOLEAN, faults' = faults \/ Refused
  PROVE  RestTyped
BY LoopAssumption DEF LoopInv, StateTyped, RestTyped, LedgerUnchanged, Refused

\* Request r with task i taken to t.
WithTask(r, i, t) == [req[r] EXCEPT !.tasks = [req[r].tasks EXCEPT ![i] = t]]

LEMMA WithTaskTyped ==
  ASSUME StateTyped, NEW r \in Requests, NEW i \in DOMAIN req[r].tasks, NEW t \in TaskSet
  PROVE  LET q == WithTask(r, i, t) IN
         /\ q \in ReqSet /\ q.pc = req[r].pc /\ q.queue = req[r].queue
         /\ DOMAIN q.tasks = DOMAIN req[r].tasks /\ q.tasks[i] = t
         /\ \A j \in DOMAIN req[r].tasks \ {i} : q.tasks[j] = req[r].tasks[j]
<1> DEFINE g == [req[r].tasks EXCEPT ![i] = t]
<1>1. req[r] \in ReqSet /\ req[r].tasks \in TaskMaps
  BY ReqTyped
<1>2. /\ g \in TaskMaps /\ DOMAIN g = DOMAIN req[r].tasks /\ g[i] = t
      /\ \A j \in DOMAIN req[r].tasks \ {i} : g[j] = req[r].tasks[j]
  BY <1>1, TaskMapTyped
<1> HIDE DEF g
<1>3. LET q == [req[r] EXCEPT !.tasks = g] IN
      q \in ReqSet /\ q.pc = req[r].pc /\ q.queue = req[r].queue /\ q.tasks = g
  BY <1>1, <1>2 DEF ReqSet
<1> QED
  BY <1>2, <1>3 DEF WithTask, g

\* A step of one task.
LEMMA TaskMoves ==
  ASSUME LoopInv, LedgerStep, RestTyped, NEW r \in Requests,
         NEW i \in DOMAIN req[r].tasks, NEW t \in TaskSet,
         req' = [req EXCEPT ![r] = WithTask(r, i, t)],
         TaskOK(ledger', req[r].pc, i, t)
  PROVE  LoopInv'
<1> DEFINE q == WithTask(r, i, t)
<1>1. /\ q \in ReqSet /\ q.pc = req[r].pc /\ q.queue = req[r].queue
      /\ DOMAIN q.tasks = DOMAIN req[r].tasks /\ q.tasks[i] = t
      /\ \A j \in DOMAIN req[r].tasks \ {i} : q.tasks[j] = req[r].tasks[j]
  BY WithTaskTyped DEF LoopInv
<1>2. req' = [req EXCEPT ![r] = q]
  OBVIOUS
<1> HIDE DEF q
<1>3. \A c \in q.queue : ledger'[c].state = "approved"
  BY <1>1, ReqTyped DEF LoopInv, QueuedIsApproved, Approved, LedgerStep, ApprovalsStay
<1>4. ASSUME NEW j \in DOMAIN q.tasks
      PROVE  TaskOK(ledger', q.pc, j, q.tasks[j])
  <2>1. CASE j = i
    BY <1>1, <2>1
  <2>2. CASE j # i
    <3>1. q.tasks[j] = req[r].tasks[j] /\ req[r].tasks[j] \in TaskSet /\ j \in DOMAIN req[r].tasks
      BY <1>1, <1>4, <2>2, ReqTyped, TaskMapTyped DEF LoopInv
    <3>2. TaskOK(ledger, req[r].pc, j, req[r].tasks[j])
      BY <3>1 DEF LoopInv, TasksOK
    <3> QED
      BY <1>1, <3>1, <3>2, TaskOKStays
  <2> QED
    BY <2>1, <2>2
<1> QED
  BY <1>1, <1>2, <1>3, <1>4, RequestStep

\* A task that moves to pc.
LEMMA SetTaskStep ==
  ASSUME StateTyped, NEW r \in Requests, NEW i \in DOMAIN req[r].tasks, NEW pc \in TaskPCs,
         SetTask(r, i, pc)
  PROVE  LET t == [req[r].tasks[i] EXCEPT !.pc = pc] IN
         t \in TaskSet /\ req' = [req EXCEPT ![r] = WithTask(r, i, t)]
<1>1. req[r].tasks[i] \in TaskSet
  BY ReqTyped, TaskMapTyped
<1> QED
  BY <1>1, TaskTyped DEF SetTask, WithTask, StateTyped

\* Only a drain and a turn have tasks.
LEMMA NoTasksBetween ==
  ASSUME LoopInv, NEW r \in Requests, req[r].pc \notin {"drain", "tools"}
  PROVE  DOMAIN req[r].tasks = {}
<1>1. \A i \in DOMAIN req[r].tasks : req[r].tasks[i].via \in {"drain", "turn"}
  BY ReqTyped, TaskMapTyped, TaskTyped DEF LoopInv
<1> QED
  BY <1>1 DEF LoopInv, TasksOK, TaskOK

LEMMA EndKeeps ==
  ASSUME LoopInv, NEW r \in Requests, End(r), LedgerUnchanged, RestTyped
  PROVE  LoopInv'
BY RequestMoves, IdleTyped DEF End

LEMMA OrchestrateKeeps ==
  ASSUME LoopInv, NEW r \in Requests, Orchestrate(r)
  PROVE  LoopInv'
<1> DEFINE q == [req[r] EXCEPT !.pc = "list"]
<1>1. /\ req[r].pc = "idle" /\ LedgerUnchanged
      /\ UNCHANGED <<results, completed, runDone, recorded, faults>>
  BY DEF Orchestrate, Active
<1>2. RestTyped
  BY <1>1, RestSame DEF LoopInv, StateTyped
<1>3. q \in ReqSet /\ q.queue = req[r].queue /\ q.tasks = req[r].tasks
  BY ReqTyped DEF LoopInv, ReqSet, ReqPCs
<1>4. req' = [req EXCEPT ![r] = q]
  BY DEF Orchestrate, Goto, LoopInv, StateTyped
<1> HIDE DEF q
<1>5. DOMAIN q.tasks = {}
  BY <1>1, <1>3, NoTasksBetween
<1> QED
  BY <1>1, <1>2, <1>3, <1>4, <1>5, RequestMoves

LEMMA ListApprovedKeeps ==
  ASSUME LoopInv, NEW r \in Requests, ListApproved(r)
  PROVE  LoopInv'
<1> DEFINE found == {c \in Calls : ledger[c].state = "approved"} \ req[r].drained
           q == [req[r] EXCEPT !.pc = "drain", !.queue = found]
<1>1. /\ req[r].pc = "list" /\ LedgerUnchanged
      /\ UNCHANGED <<results, completed, runDone, recorded, faults>>
  BY DEF ListApproved
<1>2. RestTyped
  BY <1>1, RestSame DEF LoopInv, StateTyped
<1>3. found \subseteq Calls /\ \A c \in found : ledger[c].state = "approved"
  OBVIOUS
<1>4. req' = [req EXCEPT ![r] = q]
  BY DEF ListApproved, LoopInv, StateTyped
<1> HIDE DEF found
<1>5. q \in ReqSet /\ q.queue = found /\ q.tasks = req[r].tasks
  BY <1>3, ReqTyped DEF LoopInv, ReqSet, ReqPCs
<1> HIDE DEF q
<1>6. DOMAIN q.tasks = {}
  BY <1>1, <1>5, NoTasksBetween
<1>7. LedgerStep /\ ledger' = ledger
  BY <1>1, LedgerSame DEF LedgerUnchanged
<1> QED
  BY <1>2, <1>3, <1>4, <1>5, <1>6, <1>7, RequestStep

LEMMA ApprovedTaskTyped ==
  ASSUME StateTyped, NEW c \in Calls, Approved(c)
  PROVE  /\ ApprovedTask(c) \in TaskSet
         /\ TaskOK(ledger, "drain", 1, ApprovedTask(c))
         /\ ApprovedTask(c).pc = "lookup" /\ ApprovedTask(c).via = "drain"
         /\ ApprovedTask(c).id = c
<1>1. c \in Ids /\ ApprovedArgs(c) = RowArgs(ledger, c) /\ RowArgs(ledger, c) \in Args
  BY CallTyped, RowTyped DEF ApprovedArgs, RowArgs
<1> QED
  BY <1>1 DEF ApprovedTask, TaskSet, TaskPCs, TaskOK, Settled, Granted, Approved

LEMMA DrainNextKeeps ==
  ASSUME LoopInv, NEW r \in Requests, DrainNext(r)
  PROVE  LoopInv'
<1>1. /\ req[r].pc = "drain" /\ LedgerUnchanged
      /\ UNCHANGED <<results, completed, runDone, recorded, faults>>
  BY DEF DrainNext
<1>2. RestTyped
  BY <1>1, RestSame DEF LoopInv, StateTyped
<1>3. PICK c \in req[r].queue :
        req' = [req EXCEPT ![r].queue = @ \ {c}, ![r].drained = @ \cup {c},
                           ![r].tasks = <<ApprovedTask(c)>>]
  BY DEF DrainNext
<1>4. c \in Calls /\ Approved(c)
  BY ReqTyped DEF LoopInv, QueuedIsApproved
<1> DEFINE t == ApprovedTask(c)
           q == [req[r] EXCEPT !.queue = @ \ {c}, !.drained = @ \cup {c}, !.tasks = <<t>>]
<1>5. t \in TaskSet /\ TaskOK(ledger, "drain", 1, t)
  BY <1>4, ApprovedTaskTyped DEF LoopInv
<1>6. req' = [req EXCEPT ![r] = q]
  BY <1>3 DEF LoopInv, StateTyped
<1> HIDE DEF t
<1>7. <<t>> \in TaskMaps /\ DOMAIN <<t>> = {1} /\ <<t>>[1] = t
  <2>1. <<t>> \in [{1} -> TaskSet]
    BY <1>5
  <2> QED
    BY <2>1, TaskMapMade DEF MaxIndex
<1>8. q \in ReqSet /\ q.pc = "drain" /\ q.queue \subseteq req[r].queue /\ q.tasks = <<t>>
  BY <1>1, <1>4, <1>7, ReqTyped DEF LoopInv, ReqSet
<1> HIDE DEF q
<1>9. LedgerStep /\ ledger' = ledger
  BY <1>1, LedgerSame DEF LedgerUnchanged
<1>10. \A d \in q.queue : ledger'[d].state = "approved"
  BY <1>8, <1>9 DEF LoopInv, QueuedIsApproved, Approved
<1>11. \A i \in DOMAIN q.tasks : TaskOK(ledger', q.pc, i, q.tasks[i])
  BY <1>5, <1>7, <1>8, <1>9
<1> QED
  BY <1>2, <1>6, <1>8, <1>9, <1>10, <1>11, RequestStep

LEMMA DrainReturnedKeeps ==
  ASSUME LoopInv, NEW r \in Requests, DrainReturned(r)
  PROVE  LoopInv'
<1> DEFINE q == [req[r] EXCEPT !.tasks = <<>>]
<1>1. /\ LedgerUnchanged /\ UNCHANGED <<results, completed, runDone, recorded, faults>>
      /\ End(r) \/ req' = [req EXCEPT ![r].tasks = <<>>]
  BY DEF DrainReturned
<1>2. RestTyped
  BY <1>1, RestSame DEF LoopInv, StateTyped
<1>3. q \in ReqSet /\ q.queue = req[r].queue /\ q.tasks = <<>>
  BY ReqTyped, NoTasks DEF LoopInv, ReqSet
<1>4. CASE req' = [req EXCEPT ![r].tasks = <<>>]
  <2>1. req' = [req EXCEPT ![r] = q]
    BY <1>4 DEF LoopInv, StateTyped
  <2> HIDE DEF q
  <2> QED
    BY <1>1, <1>2, <1>3, <2>1, RequestMoves, NoTasks
<1> QED
  BY <1>1, <1>2, <1>4, EndKeeps

LEMMA DrainRejectedKeeps ==
  ASSUME LoopInv, NEW r \in Requests, DrainRejected(r)
  PROVE  LoopInv'
<1> DEFINE more == {c \in Calls : ledger[c].state = "rejected"}
           q == [req[r] EXCEPT !.pc = "decide", !.drained = @ \cup more]
<1>1. /\ LedgerUnchanged /\ UNCHANGED <<results, completed, runDone, recorded, faults>>
      /\ req[r].tasks = <<>> /\ more \subseteq Calls
  BY DEF DrainRejected
<1>2. RestTyped
  BY <1>1, RestSame DEF LoopInv, StateTyped
<1>3. req' = [req EXCEPT ![r] = q]
  BY DEF DrainRejected, LoopInv, StateTyped
<1> HIDE DEF more
<1>4. q \in ReqSet /\ q.queue = req[r].queue /\ q.tasks = <<>>
  BY <1>1, ReqTyped DEF LoopInv, ReqSet, ReqPCs
<1> HIDE DEF q
<1> QED
  BY <1>1, <1>2, <1>3, <1>4, RequestMoves, NoTasks

LEMMA ListFailsKeeps ==
  ASSUME LoopInv, NEW r \in Requests, ListFails(r)
  PROVE  LoopInv'
<1>1. /\ LedgerUnchanged /\ UNCHANGED <<results, completed, runDone, recorded>>
      /\ Refused /\ End(r)
  BY DEF ListFails
<1> QED
  BY <1>1, RestSame, EndKeeps DEF LoopInv, StateTyped

LEMMA GiveUpKeeps ==
  ASSUME LoopInv, NEW r \in Requests, GiveUp(r)
  PROVE  LoopInv'
<1>1. /\ LedgerUnchanged /\ UNCHANGED <<results, completed, runDone, recorded, faults>>
      /\ End(r)
  BY DEF GiveUp
<1> QED
  BY <1>1, RestSame, EndKeeps DEF LoopInv, StateTyped

\* The tasks of a turn are those of its dispatched proposals.
LEMMA TurnTaskTyped ==
  ASSUME LoopInv, NEW r \in Requests, NEW p \in Plans, NEW k \in Dispatched(p)
  PROVE  /\ k \in 1..MaxIndex
         /\ TurnTask(r, p, k) \in TaskSet
         /\ \A rows : TaskOK(rows, "tools", k, TurnTask(r, p, k))
         /\ TurnTask(r, p, k).pc \in {"submit", "start"}
         /\ TurnTask(r, p, k).via = "turn"
<1>1. p \in Seq(Proposals) /\ Len(p) \in 1..MaxIndex
  BY LoopAssumption
<1>2. k \in DOMAIN p /\ p[k].kind = "tool" /\ k \in 1..MaxIndex /\ p[k] \in Proposals
  BY <1>1 DEF Dispatched, MaxIndex
<1>3. p[k].args \in Args /\ p[k].gated \in BOOLEAN
  BY <1>2 DEF Proposals
<1>4. req[r].iter \in 0..(MaxIterations - 1)
  BY ReqTyped DEF LoopInv
<1> DEFINE c == Derive(req[r].iter, k, p[k].args, FALSE)
<1>5. c \in Ids /\ c.index = k /\ c.args = p[k].args /\ c.dir = FALSE
  BY <1>2, <1>3, <1>4 DEF Derive, Ids
<1> DEFINE d == [c EXCEPT !.dir = Bash]
<1>6. d \in Ids /\ d.index = k
  BY <1>5, LoopAssumption DEF Ids
<1>7. p[k].gated => c \in Calls /\ c # NoId
  BY <1>2, <1>5, CallTyped DEF Calls
<1>8. TurnTask(r, p, k) =
        [pc |-> IF p[k].gated THEN "submit" ELSE "start", via |-> "turn",
         call |-> IF p[k].gated THEN c ELSE NoId, id |-> d, args |-> p[k].args]
  BY DEF TurnTask
<1> HIDE DEF c, d
<1>9. CASE p[k].gated
  <2> DEFINE t == [pc |-> "submit", via |-> "turn", call |-> c, id |-> d, args |-> p[k].args]
  <2>1. TurnTask(r, p, k) = t
    BY <1>8, <1>9
  <2>2. t \in TaskSet
    BY <1>3, <1>6, <1>7, <1>9 DEF TaskSet, TaskPCs
  <2>3. \A rows : TaskOK(rows, "tools", k, t)
    BY <1>5, <1>6, <1>7, <1>9 DEF TaskOK, Granted, Settled
  <2> QED
    BY <1>2, <2>1, <2>2, <2>3
<1>10. CASE ~p[k].gated
  <2> DEFINE t == [pc |-> "start", via |-> "turn", call |-> NoId, id |-> d, args |-> p[k].args]
  <2>1. TurnTask(r, p, k) = t
    BY <1>8, <1>10
  <2>2. t \in TaskSet
    BY <1>3, <1>6, <1>10 DEF TaskSet, TaskPCs
  <2>3. \A rows : TaskOK(rows, "tools", k, t)
    BY <1>6 DEF TaskOK, Granted, Settled
  <2> QED
    BY <1>2, <2>1, <2>2, <2>3
<1> QED
  BY <1>3, <1>9, <1>10

LEMMA DecideKeeps ==
  ASSUME LoopInv, NEW r \in Requests, Decide(r)
  PROVE  LoopInv'
<1>1. LedgerUnchanged /\ UNCHANGED <<results, completed, runDone, recorded, faults>>
  BY DEF Decide
<1>2. RestTyped
  BY <1>1, RestSame DEF LoopInv, StateTyped
<1>3. PICK p \in Plans :
        req' = [req EXCEPT ![r].pc = "tools", ![r].plan = p,
                           ![r].tasks = [k \in Dispatched(p) |-> TurnTask(r, p, k)]]
  BY DEF Decide
<1> DEFINE f == [k \in Dispatched(p) |-> TurnTask(r, p, k)]
           q == [req[r] EXCEPT !.pc = "tools", !.plan = p, !.tasks = f]
<1>4. req' = [req EXCEPT ![r] = q]
  BY <1>3 DEF LoopInv, StateTyped
<1>5. f \in TaskMaps
  <2>1. f \in [Dispatched(p) -> TaskSet] /\ Dispatched(p) \subseteq 1..MaxIndex
    BY TurnTaskTyped
  <2> QED
    BY <2>1, TaskMapMade
<1>6. \A k \in DOMAIN f : TaskOK(ledger', "tools", k, f[k])
  BY TurnTaskTyped
<1> HIDE DEF f
<1>7. q \in ReqSet /\ q.pc = "tools" /\ q.queue = req[r].queue /\ q.tasks = f
  BY <1>5, ReqTyped DEF LoopInv, ReqSet, ReqPCs
<1> HIDE DEF q
<1>8. LedgerStep /\ ledger' = ledger
  BY <1>1, LedgerSame DEF LedgerUnchanged
<1>9. \A c \in q.queue : ledger'[c].state = "approved"
  BY <1>7, <1>8 DEF LoopInv, QueuedIsApproved, Approved
<1> QED
  BY <1>2, <1>4, <1>6, <1>7, <1>8, <1>9, RequestStep

LEMMA TaskFacts ==
  ASSUME LoopInv, NEW r \in Requests, NEW i \in DOMAIN req[r].tasks
  PROVE  /\ req[r].tasks[i] \in TaskSet
         /\ TaskOK(ledger, req[r].pc, i, req[r].tasks[i])
         /\ i \in 1..MaxIndex
BY ReqTyped, TaskMapTyped DEF LoopInv, TasksOK

\* A task that ends, or moves on with what it holds.
LEMMA TaskAdvances ==
  ASSUME LoopInv, LedgerStep, RestTyped, NEW r \in Requests, NEW i \in DOMAIN req[r].tasks,
         NEW pc, SetTask(r, i, pc),
         \/ pc \in {"done", "failed", "error"}
         \/ pc \in Settled /\ req[r].tasks[i].pc \in Settled
  PROVE  LoopInv'
<1> DEFINE s == req[r].tasks[i]
           t == [s EXCEPT !.pc = pc]
<1>1. s \in TaskSet /\ TaskOK(ledger, req[r].pc, i, s)
  BY TaskFacts
<1>2. pc \in TaskPCs
  BY DEF TaskPCs, Settled, Granted
<1>3. t \in TaskSet /\ req' = [req EXCEPT ![r] = WithTask(r, i, t)]
  BY <1>2, SetTaskStep DEF LoopInv
<1>4. t.pc = pc /\ t.via = s.via /\ t.call = s.call /\ t.id = s.id /\ t.args = s.args
  BY <1>1, <1>2, TaskTyped
<1>5. TaskOK(ledger', req[r].pc, i, s)
  BY <1>1, TaskOKStays
<1>6. TaskOK(ledger', req[r].pc, i, t)
  <2> HIDE DEF t, s
  <2>1. CASE pc \in {"done", "failed", "error"}
    BY <1>4, <1>5, <2>1 DEF TaskOK, Settled, Granted
  <2>2. CASE pc \in Settled /\ s.pc \in Settled
    BY <1>4, <1>5, <2>2 DEF TaskOK, Settled, Granted
  <2> QED
    BY <2>1, <2>2 DEF s
<1> HIDE DEF t
<1> QED
  BY <1>3, <1>6, TaskMoves

\* A store failure ends the task.
LEMMA StoreFailsKeeps ==
  ASSUME LoopInv, LedgerUnchanged, UNCHANGED <<completed, runDone, recorded>>,
         results' \subseteq Ids,
         NEW r \in Requests, NEW i \in DOMAIN req[r].tasks, StoreFails(r, i)
  PROVE  LoopInv'
<1>1. RestTyped
  BY LoopAssumption DEF StoreFails, Refused, LoopInv, StateTyped, RestTyped, LedgerUnchanged
<1>2. LedgerStep
  BY LedgerSame DEF LedgerUnchanged
<1> QED
  BY <1>1, <1>2, TaskAdvances DEF StoreFails

\* A call of the turn on its way to its approval.
LEMMA TaskAsks ==
  ASSUME LoopInv, LedgerStep, RestTyped, NEW r \in Requests, NEW i \in DOMAIN req[r].tasks,
         req[r].tasks[i].pc \in {"submit", "answer"},
         NEW pc \in {"answer", "retrieve", "awaiting"}, SetTask(r, i, pc),
         pc = "retrieve" => ledger'[req[r].tasks[i].call].state = "approved"
  PROVE  LoopInv'
<1> DEFINE s == req[r].tasks[i]
           t == [s EXCEPT !.pc = pc]
<1>1. s \in TaskSet /\ TaskOK(ledger, req[r].pc, i, s)
  BY TaskFacts
<1>2. pc \in TaskPCs
  BY DEF TaskPCs
<1>3. t \in TaskSet /\ req' = [req EXCEPT ![r] = WithTask(r, i, t)]
  BY <1>2, SetTaskStep DEF LoopInv
<1>4. t.pc = pc /\ t.via = s.via /\ t.call = s.call /\ t.id = s.id /\ t.args = s.args
  BY <1>1, <1>2, TaskTyped
<1>5. TaskOK(ledger', req[r].pc, i, t)
  <2>1. s.pc \in {"submit", "answer"} /\ (pc = "retrieve" => ledger'[s.call].state = "approved")
    OBVIOUS
  <2> HIDE DEF t, s
  <2> QED
    BY <1>1, <1>4, <2>1, TaskTyped DEF TaskOK, Settled, Granted
<1> HIDE DEF t
<1> QED
  BY <1>3, <1>5, TaskMoves

\* A call that is proposed, answered or retrieved is a gated one of the turn.
LEMMA AskingIsGated ==
  ASSUME LoopInv, NEW r \in Requests, NEW i \in DOMAIN req[r].tasks,
         req[r].tasks[i].pc \in {"submit", "answer", "retrieve"}
  PROVE  /\ req[r].tasks[i].via = "turn" /\ req[r].tasks[i].call \in Calls
         /\ req[r].tasks[i].call # NoId
<1> DEFINE s == req[r].tasks[i]
<1>1. s \in TaskSet /\ TaskOK(ledger, req[r].pc, i, s)
  BY TaskFacts
<1> QED
  BY <1>1, TaskTyped DEF TaskOK, Settled, Granted

LEMMA SubmitKeeps ==
  ASSUME LoopInv, NEW r \in Requests, NEW i \in DOMAIN req[r].tasks, Submit(r, i)
  PROVE  LoopInv'
<1> DEFINE c == req[r].tasks[i].call
<1>1. /\ req[r].tasks[i].pc = "submit" /\ UNCHANGED <<results, completed, runDone, recorded>>
      /\ c \in Calls
  BY AskingIsGated DEF Submit
<1>2. CASE ledger[c].state = "approved" /\ SetTask(r, i, "retrieve") /\ LedgerUnchanged
           /\ UNCHANGED faults
  <2>1. RestTyped
    BY <1>1, <1>2, RestSame DEF LoopInv, StateTyped
  <2>2. LedgerStep /\ ledger' = ledger
    BY <1>2, LedgerSame DEF LedgerUnchanged
  <2> QED
    BY <1>1, <1>2, <2>1, <2>2, TaskAsks
<1>3. CASE Ledger!Propose(c) /\ SetTask(r, i, "answer") /\ UNCHANGED faults
  <2>1. LedgerStep /\ delivered' = delivered
    BY <1>1, <1>3, ProposeStep
  <2>2. RestTyped
    BY <1>1, <1>3, <2>1 DEF RestTyped, LoopInv, StateTyped
  <2> QED
    BY <1>1, <1>3, <2>1, <2>2, TaskAsks
<1>4. CASE StoreFails(r, i) /\ LedgerUnchanged
  BY <1>1, <1>4, StoreFailsKeeps DEF LoopInv, StateTyped
<1> QED
  BY <1>2, <1>3, <1>4 DEF Submit

LEMMA AnswerKeeps ==
  ASSUME LoopInv, NEW r \in Requests, NEW i \in DOMAIN req[r].tasks, Answer(r, i)
  PROVE  LoopInv'
<1> DEFINE c == req[r].tasks[i].call
<1>1. /\ req[r].tasks[i].pc = "answer" /\ UNCHANGED <<results, completed, runDone, recorded>>
      /\ c \in Calls
  BY AskingIsGated DEF Answer
<1>2. CASE Ledger!Resolve(c, "approved", NoArgs) /\ SetTask(r, i, "retrieve")
           /\ UNCHANGED faults
  <2>1. LedgerStep /\ delivered' = delivered /\ ledger'[c].state = "approved"
    BY <1>1, <1>2, ResolveStep
  <2>2. RestTyped
    BY <1>1, <1>2, <2>1 DEF RestTyped, LoopInv, StateTyped
  <2> QED
    BY <1>1, <1>2, <2>1, <2>2, TaskAsks
<1>3. CASE StoreFails(r, i) /\ LedgerUnchanged
  BY <1>1, <1>3, StoreFailsKeeps DEF LoopInv, StateTyped
<1>4. CASE SetTask(r, i, "awaiting") /\ LedgerUnchanged /\ UNCHANGED faults
  <2>1. RestTyped
    BY <1>1, <1>4, RestSame DEF LoopInv, StateTyped
  <2>2. LedgerStep
    BY <1>4, LedgerSame DEF LedgerUnchanged
  <2> QED
    BY <1>1, <1>4, <2>1, <2>2, TaskAsks
<1> QED
  BY <1>2, <1>3, <1>4 DEF Answer

LEMMA RetrieveKeeps ==
  ASSUME LoopInv, NEW r \in Requests, NEW i \in DOMAIN req[r].tasks, Retrieve(r, i)
  PROVE  LoopInv'
<1> DEFINE s == req[r].tasks[i]
           c == s.call
           a == ApprovedArgs(c)
           d == Derive(c.step, c.index, a, Bash)
           t == [s EXCEPT !.pc = "start", !.args = a, !.id = d]
<1>1. /\ s.pc = "retrieve" /\ LedgerUnchanged
      /\ UNCHANGED <<results, completed, runDone, recorded>>
  BY DEF Retrieve
<1>2. /\ s.via = "turn" /\ c \in Calls /\ c # NoId /\ s \in TaskSet
      /\ TaskOK(ledger, req[r].pc, i, s)
  BY <1>1, AskingIsGated, TaskFacts
<1>3. ledger[c].state = "approved" /\ c.index = i /\ req[r].pc = "tools"
  BY <1>1, <1>2 DEF TaskOK, Granted
<1>4. a = RowArgs(ledger, c) /\ a \in Args
  BY <1>2, RowTyped DEF ApprovedArgs, RowArgs, LoopInv
<1>5. d \in Ids /\ d.index = i
  BY <1>2, <1>3, <1>4, CallTyped, LoopAssumption DEF Derive, Ids
<1>6. LedgerStep /\ ledger' = ledger
  BY <1>1, LedgerSame DEF LedgerUnchanged
<1>7. CASE StoreFails(r, i)
  BY <1>1, <1>7, StoreFailsKeeps DEF LoopInv, StateTyped
<1>8. CASE /\ req' = [req EXCEPT ![r].tasks[i] =
                         [@ EXCEPT !.pc = "start", !.args = a, !.id = d]]
           /\ UNCHANGED faults
  <2>1. RestTyped
    BY <1>1, <1>8, RestSame DEF LoopInv, StateTyped
  <2>2. req' = [req EXCEPT ![r] = WithTask(r, i, t)]
    BY <1>8, ReqTyped, TaskFacts DEF WithTask, LoopInv, StateTyped
  <2> HIDE DEF a, d
  <2>3. /\ t \in TaskSet /\ t.pc = "start" /\ t.via = s.via /\ t.call = c /\ t.id = d
        /\ t.args = a
    BY <1>2, <1>4, <1>5 DEF TaskSet, TaskPCs
  <2> HIDE DEF t, s, c
  <2>4. TaskOK(ledger', req[r].pc, i, t)
    BY <1>2, <1>3, <1>4, <1>5, <1>6, <2>3 DEF TaskOK, Granted, Settled
  <2> QED
    BY <1>6, <2>1, <2>2, <2>3, <2>4, TaskMoves
<1> QED
  BY <1>7, <1>8 DEF Retrieve

LEMMA StartTaskKeeps ==
  ASSUME LoopInv, NEW r \in Requests, NEW i \in DOMAIN req[r].tasks, StartTask(r, i)
  PROVE  LoopInv'
<1>1. /\ req[r].tasks[i].pc = "start" /\ LedgerUnchanged /\ LedgerStep
      /\ UNCHANGED <<results, completed, runDone, recorded>>
  BY LedgerSame DEF StartTask, LedgerUnchanged
<1>2. CASE \E pc \in {"lookup", "run", "failed"} : SetTask(r, i, pc) /\ UNCHANGED faults
  <2>1. RestTyped
    BY <1>1, <1>2, RestSame DEF LoopInv, StateTyped
  <2> QED
    BY <1>1, <1>2, <2>1, TaskAdvances DEF Settled, Granted
<1>3. CASE StoreFails(r, i)
  BY <1>1, <1>3, StoreFailsKeeps DEF LoopInv, StateTyped
<1> QED
  BY <1>2, <1>3 DEF StartTask

LEMMA LookupKeeps ==
  ASSUME LoopInv, NEW r \in Requests, NEW i \in DOMAIN req[r].tasks, Lookup(r, i)
  PROVE  LoopInv'
<1>1. /\ req[r].tasks[i].pc = "lookup" /\ LedgerUnchanged /\ LedgerStep
      /\ UNCHANGED <<results, runDone, recorded>> /\ req[r].tasks[i].id \in Ids
  BY LedgerSame, TaskFacts, TaskTyped DEF Lookup, LedgerUnchanged
<1>2. CASE \E pc \in {"run", "start", "done"} : SetTask(r, i, pc) /\ UNCHANGED faults
  <2>1. completed' \subseteq Ids \/ UNCHANGED completed
    BY <1>1, <1>2 DEF Lookup, LoopInv, StateTyped
  <2>2. RestTyped
    BY <1>1, <1>2, <2>1 DEF LoopInv, StateTyped, RestTyped, LedgerUnchanged
  <2> QED
    BY <1>1, <1>2, <2>2, TaskAdvances DEF Settled, Granted
<1>3. CASE StoreFails(r, i) /\ UNCHANGED completed
  BY <1>1, <1>3, StoreFailsKeeps DEF LoopInv, StateTyped
<1> QED
  BY <1>2, <1>3 DEF Lookup

LEMMA RunKeeps ==
  ASSUME LoopInv, NEW r \in Requests, NEW i \in DOMAIN req[r].tasks, Run(r, i)
  PROVE  LoopInv'
<1> DEFINE c == req[r].tasks[i].call
<1>1. /\ req[r].tasks[i].pc = "run" /\ UNCHANGED <<ledger, results, completed, runDone, recorded>>
      /\ delivered' = IF c = NoId THEN delivered ELSE delivered \cup {c}
  BY DEF Run
<1>2. c \in Calls \cup {NoId}
  BY TaskFacts, TaskTyped
<1>3. LedgerStep /\ delivered' \subseteq Calls
  BY <1>1, <1>2, LedgerSame DEF LoopInv, StateTyped
<1>4. faults' \in 0..MaxFaults
  BY LoopAssumption DEF Run, LoopInv, StateTyped, StoreFails, Refused
<1>5. RestTyped
  BY <1>1, <1>3, <1>4 DEF LoopInv, StateTyped, RestTyped
<1>6. \E pc \in {"record", "failed", "error"} : SetTask(r, i, pc)
  BY DEF Run, StoreFails
<1> QED
  BY <1>1, <1>3, <1>5, <1>6, TaskAdvances DEF Settled, Granted

LEMMA RecordKeeps ==
  ASSUME LoopInv, NEW r \in Requests, NEW i \in DOMAIN req[r].tasks, Record(r, i)
  PROVE  LoopInv'
<1> DEFINE s == req[r].tasks[i]
<1>1. /\ s.pc = "record" /\ LedgerUnchanged /\ LedgerStep /\ UNCHANGED <<results, runDone>>
      /\ s.id \in Ids /\ s.call \in Calls \cup {NoId}
  BY LedgerSame, TaskFacts, TaskTyped DEF Record, LedgerUnchanged
<1>2. CASE /\ completed' = completed \cup {s.id} /\ recorded' = recorded \cup ({s.call} \ {NoId})
           /\ SetTask(r, i, "insert") /\ UNCHANGED faults
  <2>1. RestTyped
    BY <1>1, <1>2 DEF LoopInv, StateTyped, RestTyped, LedgerUnchanged
  <2> QED
    BY <1>1, <1>2, <2>1, TaskAdvances DEF Settled, Granted
<1>3. CASE StoreFails(r, i) /\ UNCHANGED <<completed, recorded>>
  BY <1>1, <1>3, StoreFailsKeeps DEF LoopInv, StateTyped
<1> QED
  BY <1>2, <1>3 DEF Record

LEMMA InsertKeeps ==
  ASSUME LoopInv, NEW r \in Requests, NEW i \in DOMAIN req[r].tasks, Insert(r, i)
  PROVE  LoopInv'
<1> DEFINE s == req[r].tasks[i]
<1>1. /\ s.pc = "insert" /\ LedgerUnchanged /\ LedgerStep /\ s.id \in Ids
      /\ UNCHANGED <<completed, runDone, recorded>> /\ results' = results \cup {s.id}
  BY LedgerSame, TaskFacts, TaskTyped DEF Insert, LedgerUnchanged
<1>2. results' \subseteq Ids
  BY <1>1 DEF LoopInv, StateTyped
<1>3. CASE SetTask(r, i, "done") /\ UNCHANGED faults
  <2>1. RestTyped
    BY <1>1, <1>2, <1>3 DEF LoopInv, StateTyped, RestTyped, LedgerUnchanged
  <2> QED
    BY <1>1, <1>3, <2>1, TaskAdvances
<1>4. CASE StoreFails(r, i)
  BY <1>1, <1>2, <1>4, StoreFailsKeeps
<1> QED
  BY <1>3, <1>4 DEF Insert

LEMMA ToolsReturnedKeeps ==
  ASSUME LoopInv, NEW r \in Requests, ToolsReturned(r)
  PROVE  LoopInv'
<1> DEFINE q == [req[r] EXCEPT !.pc = "control", !.tasks = <<>>]
<1>1. LedgerUnchanged /\ UNCHANGED <<results, completed, runDone, recorded, faults>>
  BY DEF ToolsReturned
<1>2. RestTyped
  BY <1>1, RestSame DEF LoopInv, StateTyped
<1>3. CASE req' = [req EXCEPT ![r].pc = "control", ![r].tasks = <<>>]
  <2>1. q \in ReqSet /\ q.queue = req[r].queue /\ q.tasks = <<>>
    BY ReqTyped, NoTasks DEF LoopInv, ReqSet, ReqPCs
  <2>2. req' = [req EXCEPT ![r] = q]
    BY <1>3 DEF LoopInv, StateTyped
  <2> HIDE DEF q
  <2> QED
    BY <1>1, <1>2, <2>1, <2>2, RequestMoves, NoTasks
<1>4. CASE End(r)
  BY <1>1, <1>2, <1>4, EndKeeps
<1> QED
  BY <1>3, <1>4 DEF ToolsReturned

LEMMA ControlKeeps ==
  ASSUME LoopInv, NEW r \in Requests, Control(r)
  PROVE  LoopInv'
<1>1. /\ req[r].pc = "control" /\ LedgerUnchanged
      /\ UNCHANGED <<results, completed, recorded, faults>>
  BY DEF Control
<1>2. runDone' \in BOOLEAN
  BY DEF Control, LoopInv, StateTyped
<1>3. RestTyped /\ DOMAIN req[r].tasks = {}
  BY <1>1, <1>2, RestSame, NoTasksBetween DEF LoopInv, StateTyped
<1>4. CASE NextTurn(r)
  <2> DEFINE q == [IdleReq EXCEPT !.pc = "list", !.iter = req[r].iter + 1,
                                  !.drained = req[r].drained]
  <2>1. CASE req[r].iter + 1 = MaxIterations
    BY <1>1, <1>3, <1>4, <2>1, EndKeeps DEF NextTurn, End
  <2>2. CASE req[r].iter + 1 # MaxIterations
    <3> DEFINE n == req[r].iter + 1
    <3>1. n \in 0..(MaxIterations - 1)
      BY <2>2, ReqTyped, LoopAssumption DEF LoopInv
    <3>2. req' = [req EXCEPT ![r] = q]
      BY <1>4, <2>2 DEF NextTurn
    <3> HIDE DEF n
    <3>3. q \in ReqSet /\ q.queue = {} /\ q.tasks = <<>>
      <4>1. req[r].drained \subseteq Calls
        BY ReqTyped DEF LoopInv
      <4>2. [IdleReq EXCEPT !.pc = "list", !.iter = n, !.drained = req[r].drained] \in ReqSet
        BY <3>1, <4>1, IdleTyped DEF ReqSet, ReqPCs
      <4> QED
        BY <4>2 DEF n, IdleReq
    <3> HIDE DEF q
    <3> QED
      BY <1>1, <1>3, <3>2, <3>3, RequestMoves, NoTasks
  <2> QED
    BY <2>1, <2>2
<1>5. CASE req' = [req EXCEPT ![r].next = req[r].next + 1]
  <2> DEFINE n == req[r].next + 1
             q == [req[r] EXCEPT !.next = n]
  <2>1. n \in Nat
    BY ReqTyped DEF LoopInv
  <2>2. req' = [req EXCEPT ![r] = q]
    BY <1>5 DEF LoopInv, StateTyped
  <2> HIDE DEF n
  <2>3. q \in ReqSet /\ q.queue = req[r].queue /\ q.tasks = req[r].tasks
    BY <2>1, ReqTyped DEF LoopInv, ReqSet
  <2> HIDE DEF q
  <2> QED
    BY <1>1, <1>3, <2>2, <2>3, RequestMoves
<1>6. CASE End(r)
  BY <1>1, <1>3, <1>6, EndKeeps
<1> QED
  BY <1>4, <1>5, <1>6 DEF Control

\* The operator's answers.
LEMMA RequestsStay ==
  ASSUME LoopInv, LedgerStep, RestTyped, UNCHANGED req
  PROVE  LoopInv'
<1>1. QueuedIsApproved'
  BY ReqTyped DEF LoopInv, QueuedIsApproved, Approved, LedgerStep, ApprovalsStay
<1>2. TasksOK'
  BY TaskFacts, TaskOKStays DEF TasksOK
<1> QED
  BY <1>1, <1>2 DEF LoopInv, StateTyped, LedgerStep, RestTyped

LEMMA OperatorKeeps ==
  ASSUME LoopInv, NEW c \in Calls, OperatorApproves(c) \/ OperatorRejects(c)
  PROVE  LoopInv'
<1>1. /\ UNCHANGED <<results, completed, runDone, req, recorded, faults>>
      /\ \E v \in {"approved", "rejected"}, a \in Args \cup {NoArgs} : Ledger!Resolve(c, v, a)
  BY DEF OperatorApproves, OperatorRejects
<1>2. LedgerStep /\ delivered' = delivered
  BY <1>1, ResolveStep
<1>3. RestTyped
  BY <1>1, <1>2 DEF RestTyped, LoopInv, StateTyped
<1> QED
  BY <1>1, <1>2, <1>3, RequestsStay

LEMMA RestartKeeps ==
  ASSUME LoopInv, Restart
  PROVE  LoopInv'
<1>1. /\ LedgerUnchanged /\ UNCHANGED <<completed, runDone, recorded>>
      /\ results' = completed /\ faults' \in 0..MaxFaults
  BY LoopAssumption DEF Restart, ReplayToolResultCache, LoopInv, StateTyped
<1>2. LedgerStep
  BY <1>1, LedgerSame DEF LedgerUnchanged
<1>3. \A r \in Requests : req'[r] = IdleReq
  BY DEF Restart
<1>4. StateTyped'
  <2>1. req' \in [Requests -> ReqSet]
    BY IdleTyped DEF Restart
  <2> QED
    BY <1>1, <2>1 DEF LoopInv, StateTyped, LedgerUnchanged
<1>5. QueuedIsApproved' /\ TasksOK'
  BY <1>3, IdleTyped DEF QueuedIsApproved, TasksOK
<1> QED
  BY <1>2, <1>4, <1>5 DEF LoopInv, LedgerStep

LEMMA LoopInvStarts == Init => LoopInv
<1> SUFFICES ASSUME Init PROVE LoopInv
  OBVIOUS
<1>1. Ledger!NoCall \in Ledger!LedgerSet /\ Ledger!NoCall.state = "absent"
  BY DEF Ledger!NoCall, Ledger!LedgerSet, Ledger!States
<1>2. /\ ledger \in [Calls -> Ledger!LedgerSet] /\ delivered = {}
      /\ \A c \in Calls : ~Approved(c)
  BY <1>1 DEF Init, Ledger!LedgerInit, Approved
<1>3. StateTyped
  <2>1. req \in [Requests -> ReqSet]
    BY IdleTyped DEF Init
  <2>2. 0 \in 0..MaxFaults
    BY LoopAssumption
  <2> QED
    BY <1>2, <2>1, <2>2 DEF Init, StateTyped
<1>4. \A r \in Requests : req[r] = IdleReq
  BY DEF Init
<1>5. QueuedIsApproved /\ TasksOK
  BY <1>4, IdleTyped DEF QueuedIsApproved, TasksOK
<1> QED
  BY <1>2, <1>3, <1>5 DEF LoopInv, ApprovedIsClosed

LEMMA TaskStepKeeps ==
  ASSUME LoopInv, NEW r \in Requests, NEW i \in DOMAIN req[r].tasks, TaskStep(r, i)
  PROVE  LoopInv'
BY SubmitKeeps, AnswerKeeps, RetrieveKeeps, StartTaskKeeps, LookupKeeps, RunKeeps,
   RecordKeeps, InsertKeeps DEF TaskStep

LEMMA LoopInvKept == LoopInv /\ [Next]_vars => LoopInv'
<1> SUFFICES ASSUME LoopInv, [Next]_vars PROVE LoopInv'
  OBVIOUS
<1>1. ASSUME NEW r \in Requests, Orchestrate(r) PROVE LoopInv'
  BY <1>1, OrchestrateKeeps
<1>2. ASSUME NEW r \in Requests, LoopStep(r) PROVE LoopInv'
  <2>1. CASE ListApproved(r)
    BY <2>1, ListApprovedKeeps
  <2>2. CASE ListFails(r)
    BY <2>2, ListFailsKeeps
  <2>3. CASE DrainNext(r)
    BY <2>3, DrainNextKeeps
  <2>4. CASE DrainReturned(r)
    BY <2>4, DrainReturnedKeeps
  <2>5. CASE DrainRejected(r)
    BY <2>5, DrainRejectedKeeps
  <2>6. CASE GiveUp(r)
    BY <2>6, GiveUpKeeps
  <2>7. CASE Decide(r)
    BY <2>7, DecideKeeps
  <2>8. CASE ToolsReturned(r)
    BY <2>8, ToolsReturnedKeeps
  <2>9. CASE Control(r)
    BY <2>9, ControlKeeps
  <2>10. CASE \E i \in DOMAIN req[r].tasks : TaskStep(r, i)
    BY <2>10, TaskStepKeeps
  <2> QED
    BY <1>2, <2>1, <2>2, <2>3, <2>4, <2>5, <2>6, <2>7, <2>8, <2>9, <2>10 DEF LoopStep
<1>3. CASE \E c \in Calls : OperatorApproves(c) \/ OperatorRejects(c)
  BY <1>3, OperatorKeeps
<1>4. CASE Restart
  BY <1>4, RestartKeeps
<1>5. CASE UNCHANGED vars
  <2>1. RestTyped /\ LedgerStep /\ UNCHANGED req
    BY <1>5, LedgerSame DEF vars, LoopInv, StateTyped, RestTyped
  <2> QED
    BY <2>1, RequestsStay
<1> QED
  BY <1>1, <1>2, <1>3, <1>4, <1>5 DEF Next

LEMMA LoopInvAlways == Spec => []LoopInv
<1> QED
  BY LoopInvStarts, LoopInvKept, PTL DEF Spec

-----------------------------------------------------------------------------
(* Theorems                                                                *)

\* The loop's locals, the projection and the caches keep their types: a task of
\* a drain or of a turn always has arguments, an id of its position, and a
\* gated one a call.
THEOREM LoopTypeCorrect == Spec => []TypeOK
<1>1. LoopInv => TypeOK
  <2> SUFFICES ASSUME LoopInv PROVE TypeOK
    OBVIOUS
  <2>1. \A r \in Requests : \A i \in DOMAIN req[r].tasks : req[r].tasks[i] \in TaskSet
    BY TaskFacts
  <2>2. \A r \in Requests : req[r].iter < MaxIterations
    BY ReqTyped, LoopAssumption DEF LoopInv
  <2> QED
    BY <2>1, <2>2, ReqTyped DEF LoopInv, StateTyped, TypeOK
<1> QED
  BY <1>1, LoopInvAlways, PTL

\* run_with_approval_gate and drain_approved_pending run a gated tool with the
\* arguments its approver settled on, the override or the proposed ones, for
\* any number of requests of the run, overlapping or not, and whatever crashes
\* or store failures come between.
THEOREM ApprovedArgsAreRun == Spec => []RunsApprovedArgs
<1>1. LoopInv => RunsApprovedArgs
  <2> SUFFICES ASSUME LoopInv, NEW t \in Running, t.call # NoId
               PROVE  t.args = ApprovedArgs(t.call)
    BY DEF RunsApprovedArgs
  <2>0. PICK r \in Requests : \E i \in DOMAIN req[r].tasks :
                                t = req[r].tasks[i] /\ t.pc = "run"
    BY DEF Running
  <2>1. PICK i \in DOMAIN req[r].tasks : t = req[r].tasks[i] /\ t.pc = "run"
    BY <2>0
  <2>2. TaskOK(ledger, req[r].pc, i, t)
    BY <2>1, TaskFacts
  <2> QED
    BY <2>1, <2>2 DEF TaskOK, Settled, Granted, RowArgs, ApprovedArgs
<1> QED
  BY <1>1, LoopInvAlways, PTL

\* The loop implements the approval ledger, its tool executions being the
\* deliveries: no dispatch path runs a gated tool whose call does not stand
\* approved, and no step of the loop undoes an approval.
THEOREM LoopImplementsLedger == Spec => ImplementsLedger
<1>1. Init => Ledger!LedgerInit
  BY DEF Init
<1>2. LoopInv /\ [Next]_vars => [Ledger!LedgerNext]_<<ledger, delivered>>
  <2> SUFFICES ASSUME LoopInv, Next
               PROVE  Ledger!LedgerNext \/ UNCHANGED <<ledger, delivered>>
    BY DEF vars
  <2>1. ASSUME NEW r \in Requests, NEW i \in DOMAIN req[r].tasks, TaskStep(r, i)
        PROVE  Ledger!LedgerNext \/ UNCHANGED <<ledger, delivered>>
    <3> DEFINE c == req[r].tasks[i].call
    <3>1. CASE Submit(r, i)
      <4>1. c \in Calls
        BY <3>1, AskingIsGated DEF Submit
      <4> QED
        BY <3>1, <4>1 DEF Submit, Ledger!LedgerNext, LedgerUnchanged
    <3>2. CASE Answer(r, i)
      <4>1. c \in Calls
        BY <3>2, AskingIsGated DEF Answer
      <4> QED
        BY <3>2, <4>1 DEF Answer, Ledger!LedgerNext, LedgerUnchanged
    <3>3. CASE Run(r, i)
      <4>1. /\ req[r].tasks[i].pc = "run" /\ UNCHANGED ledger
            /\ delivered' = IF c = NoId THEN delivered ELSE delivered \cup {c}
        BY <3>3 DEF Run
      <4>2. CASE c = NoId
        BY <4>1, <4>2
      <4>3. CASE c # NoId
        <5>1. c \in Calls /\ ledger[c].state = "approved"
          BY <4>1, <4>3, TaskFacts, TaskTyped DEF TaskOK, Granted
        <5> QED
          BY <4>1, <4>3, <5>1 DEF Ledger!LedgerNext, Ledger!Deliver
      <4> QED
        BY <4>2, <4>3
    <3>4. CASE Retrieve(r, i) \/ StartTask(r, i) \/ Lookup(r, i) \/ Record(r, i) \/ Insert(r, i)
      BY <3>4 DEF Retrieve, StartTask, Lookup, Record, Insert, LedgerUnchanged
    <3> QED
      BY <2>1, <3>1, <3>2, <3>3, <3>4 DEF TaskStep
  <2>2. ASSUME NEW r \in Requests, Orchestrate(r) \/ LoopStep(r)
        PROVE  Ledger!LedgerNext \/ UNCHANGED <<ledger, delivered>>
    BY <2>1, <2>2 DEF Orchestrate, LoopStep, ListApproved, ListFails, DrainNext, DrainReturned,
       DrainRejected, GiveUp, Decide, ToolsReturned, Control, LedgerUnchanged
  <2>3. ASSUME NEW c \in Calls, OperatorApproves(c) \/ OperatorRejects(c)
        PROVE  Ledger!LedgerNext
    BY <2>3 DEF OperatorApproves, OperatorRejects, Ledger!LedgerNext
  <2>4. CASE Restart
    BY <2>4 DEF Restart, LedgerUnchanged
  <2> QED
    BY <2>2, <2>3, <2>4 DEF Next
<1> QED
  BY <1>1, <1>2, LoopInvAlways, PTL DEF Spec, ImplementsLedger, Ledger!LedgerSpec

-----------------------------------------------------------------------------
(* What was recorded is not run again, one request of the run at a time     *)

\* The tasks there are belong to one request and have different ids.
LEMMA DistinctIds ==
  ASSUME LoopInv, OneActive, NEW q \in Requests, NEW r \in Requests,
         NEW j \in DOMAIN req[q].tasks, NEW i \in DOMAIN req[r].tasks,
         q # r \/ j # i
  PROVE  q = r /\ req[q].tasks[j].id # req[r].tasks[i].id
<1>1. Active(q) /\ Active(r)
  BY NoTasksBetween DEF Active
<1>2. q = r
  BY <1>1 DEF OneActive
<1>3. /\ TaskOK(ledger, req[r].pc, i, req[r].tasks[i])
      /\ TaskOK(ledger, req[r].pc, j, req[r].tasks[j])
      /\ req[r].tasks[i].via \in {"drain", "turn"} /\ req[r].tasks[j].via \in {"drain", "turn"}
  BY <1>2, TaskFacts, TaskTyped
<1> QED
  BY <1>2, <1>3 DEF TaskOK

\* A step of task i of r from s to t.
LEMMA OnceTask ==
  ASSUME LoopInv, OneActive, UnrecordedYet, CompletedIsCached,
         NEW r \in Requests, NEW i \in DOMAIN req[r].tasks, NEW t \in TaskSet,
         req' = [req EXCEPT ![r] = WithTask(r, i, t)],
         results \subseteq results',
         req[r].tasks[i].pc = "insert" => req[r].tasks[i].id \in results',
         \/ completed' = completed
         \/ /\ completed' = completed \cup {req[r].tasks[i].id}
            /\ \/ req[r].tasks[i].id \in results
               \/ t.pc = "insert" /\ t.id = req[r].tasks[i].id,
         PastLookup(t) => t.id \notin completed'
  PROVE  UnrecordedYet' /\ CompletedIsCached' /\ OneActive'
<1> DEFINE s == req[r].tasks[i]
           q == WithTask(r, i, t)
<1>1. /\ q \in ReqSet /\ q.pc = req[r].pc
      /\ DOMAIN q.tasks = DOMAIN req[r].tasks /\ q.tasks[i] = t
      /\ \A j \in DOMAIN req[r].tasks \ {i} : q.tasks[j] = req[r].tasks[j]
  BY WithTaskTyped DEF LoopInv
<1> HIDE DEF q
<1>2. /\ req' \in [Requests -> ReqSet] /\ req'[r] = q
      /\ \A p \in Requests \ {r} : req'[p] = req[p]
  BY <1>1 DEF LoopInv, StateTyped, q
<1>3. \A p \in Requests : /\ req'[p].pc = req[p].pc
                          /\ DOMAIN req'[p].tasks = DOMAIN req[p].tasks
  BY <1>1, <1>2
<1>4. OneActive'
  BY <1>3 DEF OneActive, Active
<1>5. UnrecordedYet'
  <2> SUFFICES ASSUME NEW p \in Requests, NEW j \in DOMAIN req'[p].tasks,
                      PastLookup(req'[p].tasks[j])
               PROVE  req'[p].tasks[j].id \notin completed'
    BY DEF UnrecordedYet, PastLookup
  <2>1. CASE p = r /\ j = i
    BY <1>1, <1>2, <2>1
  <2>2. CASE p # r \/ j # i
    <3>1. j \in DOMAIN req[p].tasks /\ req'[p].tasks[j] = req[p].tasks[j]
      BY <1>1, <1>2, <1>3, <2>2
    <3>2. req[p].tasks[j].id # s.id
      BY <2>2, <3>1, DistinctIds
    <3>3. req[p].tasks[j].id \notin completed
      BY <3>1 DEF UnrecordedYet
    <3> QED
      BY <3>1, <3>2, <3>3
  <2> QED
    BY <2>1, <2>2
<1>6. CompletedIsCached'
  <2> SUFFICES ASSUME NEW id \in completed', id \notin results'
               PROVE  \E p \in Requests : \E j \in DOMAIN req'[p].tasks :
                        req'[p].tasks[j].pc = "insert" /\ req'[p].tasks[j].id = id
    BY DEF CompletedIsCached
  <2>1. CASE id \in completed
    <3>1. PICK p \in Requests : \E j \in DOMAIN req[p].tasks :
                                  req[p].tasks[j].pc = "insert" /\ req[p].tasks[j].id = id
      BY <2>1 DEF CompletedIsCached
    <3>2. PICK j \in DOMAIN req[p].tasks :
                 req[p].tasks[j].pc = "insert" /\ req[p].tasks[j].id = id
      BY <3>1
    <3>3. p # r \/ j # i
      BY <3>2
    <3>4. j \in DOMAIN req'[p].tasks /\ req'[p].tasks[j] = req[p].tasks[j]
      BY <1>1, <1>2, <1>3, <3>2, <3>3
    <3> QED
      BY <3>2, <3>4
  <2>2. CASE id \notin completed
    <3>1. id = s.id /\ t.pc = "insert" /\ t.id = id
      BY <2>2
    <3> QED
      BY <1>1, <1>2, <3>1
  <2> QED
    BY <2>1, <2>2
<1> QED
  BY <1>4, <1>5, <1>6

\* A task that moves to pc and completes nothing.
LEMMA OnceSet ==
  ASSUME LoopInv, OneActive, UnrecordedYet, CompletedIsCached,
         NEW r \in Requests, NEW i \in DOMAIN req[r].tasks, NEW pc \in TaskPCs,
         SetTask(r, i, pc),
         completed' = completed, results \subseteq results',
         req[r].tasks[i].pc = "insert" => req[r].tasks[i].id \in results',
         \/ pc \notin {"run", "record", "start"}
         \/ PastLookup(req[r].tasks[i])
         \/ req[r].tasks[i].id \notin completed
  PROVE  UnrecordedYet' /\ CompletedIsCached' /\ OneActive'
<1> DEFINE s == req[r].tasks[i]
           t == [s EXCEPT !.pc = pc]
<1>1. t \in TaskSet /\ req' = [req EXCEPT ![r] = WithTask(r, i, t)]
  BY SetTaskStep DEF LoopInv
<1>2. s \in TaskSet /\ t.pc = pc /\ t.id = s.id /\ t.via = s.via
  BY TaskFacts, TaskTyped
<1>3. PastLookup(t) => s.id \notin completed
  BY <1>2 DEF PastLookup, UnrecordedYet
<1> HIDE DEF t
<1> QED
  BY <1>1, <1>2, <1>3, OnceTask

LEMMA OnceTaskStep ==
  ASSUME LoopInv, OneActive, UnrecordedYet, CompletedIsCached,
         NEW r \in Requests, NEW i \in DOMAIN req[r].tasks, TaskStep(r, i)
  PROVE  UnrecordedYet' /\ CompletedIsCached' /\ OneActive'
<1> DEFINE s == req[r].tasks[i]
<1>0. /\ {"retrieve", "answer", "error", "awaiting", "failed", "lookup", "run", "start",
          "done", "record", "insert"} \subseteq TaskPCs
      /\ s \in TaskSet
  BY TaskFacts DEF TaskPCs
<1>1. CASE Submit(r, i)
  BY <1>0, <1>1, OnceSet DEF Submit, StoreFails
<1>2. CASE Answer(r, i)
  BY <1>0, <1>2, OnceSet DEF Answer, StoreFails
<1>3. CASE Retrieve(r, i)
  <2>1. s.pc = "retrieve" /\ UNCHANGED <<results, completed>> /\ s.via = "turn"
    BY <1>3, AskingIsGated DEF Retrieve
  <2>2. CASE StoreFails(r, i)
    BY <1>0, <2>1, <2>2, OnceSet DEF StoreFails
  <2>3. CASE ~StoreFails(r, i)
    <3> DEFINE c == s.call
               a == ApprovedArgs(c)
               d == Derive(c.step, c.index, a, Bash)
               t == [s EXCEPT !.pc = "start", !.args = a, !.id = d]
    <3>1. req' = [req EXCEPT ![r].tasks[i] = [@ EXCEPT !.pc = "start", !.args = a, !.id = d]]
      BY <1>3, <2>3 DEF Retrieve
    <3>2. req' = [req EXCEPT ![r] = WithTask(r, i, t)]
      BY <3>1, ReqTyped, TaskFacts DEF WithTask, LoopInv, StateTyped
    <3>3. c \in Calls /\ a \in Args
      BY <2>1, AskingIsGated, RowTyped DEF LoopInv, ApprovedArgs, RowArgs
    <3>4. d \in Ids
      BY <3>3, CallTyped, LoopAssumption DEF Derive, Ids
    <3> HIDE DEF a, d
    <3>5. t \in TaskSet /\ t.pc = "start" /\ t.via = "turn"
      BY <1>0, <2>1, <3>3, <3>4 DEF TaskSet, TaskPCs
    <3>6. ~PastLookup(t)
      BY <3>5 DEF PastLookup
    <3> HIDE DEF t
    <3> QED
      BY <2>1, <3>2, <3>5, <3>6, OnceTask
  <2> QED
    BY <2>2, <2>3
<1>4. CASE StartTask(r, i)
  <2>1. s.pc = "start" /\ UNCHANGED <<results, completed>> /\ s.via \in {"drain", "turn"}
    BY <1>0, <1>4, TaskTyped DEF StartTask
  <2>2. CASE SetTask(r, i, "run") /\ s.via = "drain"
    <3>1. PastLookup(s)
      BY <2>1, <2>2 DEF PastLookup
    <3> QED
      BY <1>0, <2>1, <2>2, <3>1, OnceSet
  <2>3. CASE \E pc \in {"lookup", "failed", "error"} : SetTask(r, i, pc)
    BY <1>0, <2>1, <2>3, OnceSet
  <2> QED
    BY <1>4, <2>1, <2>2, <2>3 DEF StartTask, StoreFails
<1>5. CASE Lookup(r, i)
  <2>1. s.pc = "lookup" /\ UNCHANGED results
    BY <1>5 DEF Lookup
  <2>2. CASE /\ s.id \notin results /\ UNCHANGED completed
             /\ \E pc \in {"run", "start"} : SetTask(r, i, pc)
    <3>1. s.id \notin completed
      <4> SUFFICES ASSUME s.id \in completed PROVE FALSE
        OBVIOUS
      <4>1. PICK p \in Requests : \E j \in DOMAIN req[p].tasks :
                 req[p].tasks[j].pc = "insert" /\ req[p].tasks[j].id = s.id
        BY <2>2 DEF CompletedIsCached
      <4>2. PICK j \in DOMAIN req[p].tasks :
                 req[p].tasks[j].pc = "insert" /\ req[p].tasks[j].id = s.id
        BY <4>1
      <4> QED
        BY <2>1, <4>2, DistinctIds
    <3> QED
      BY <1>0, <2>1, <2>2, <3>1, OnceSet
  <2>3. CASE s.id \in results /\ SetTask(r, i, "done")
    <3> DEFINE t == [s EXCEPT !.pc = "done"]
    <3>1. completed' = completed \/ completed' = completed \cup {s.id}
      BY <1>5, <2>1, <2>3 DEF Lookup
    <3>2. t \in TaskSet /\ req' = [req EXCEPT ![r] = WithTask(r, i, t)] /\ t.pc = "done"
      BY <1>0, <2>3, SetTaskStep, TaskTyped DEF LoopInv
    <3>3. ~PastLookup(t)
      BY <3>2 DEF PastLookup
    <3> HIDE DEF t
    <3> QED
      BY <2>1, <2>3, <3>1, <3>2, <3>3, OnceTask
  <2>4. CASE StoreFails(r, i) /\ UNCHANGED completed
    BY <1>0, <2>1, <2>4, OnceSet DEF StoreFails
  <2> QED
    BY <1>5, <2>2, <2>3, <2>4 DEF Lookup
<1>6. CASE Run(r, i)
  <2>1. PastLookup(s) /\ s.pc = "run" /\ UNCHANGED <<results, completed>>
    BY <1>6 DEF Run, PastLookup
  <2>2. \E pc \in {"record", "failed", "error"} : SetTask(r, i, pc)
    BY <1>6 DEF Run, StoreFails
  <2> QED
    BY <1>0, <2>1, <2>2, OnceSet
<1>7. CASE Record(r, i)
  <2>1. s.pc = "record" /\ UNCHANGED results
    BY <1>7 DEF Record
  <2>2. CASE completed' = completed \cup {s.id} /\ SetTask(r, i, "insert")
    <3> DEFINE t == [s EXCEPT !.pc = "insert"]
    <3>1. /\ t \in TaskSet /\ req' = [req EXCEPT ![r] = WithTask(r, i, t)]
          /\ t.pc = "insert" /\ t.id = s.id
      BY <1>0, <2>2, SetTaskStep, TaskTyped DEF LoopInv
    <3>2. ~PastLookup(t)
      BY <3>1 DEF PastLookup
    <3> HIDE DEF t
    <3> QED
      BY <2>1, <2>2, <3>1, <3>2, OnceTask
  <2>3. CASE StoreFails(r, i) /\ UNCHANGED completed
    BY <1>0, <2>1, <2>3, OnceSet DEF StoreFails
  <2> QED
    BY <1>7, <2>2, <2>3 DEF Record
<1>8. CASE Insert(r, i)
  BY <1>0, <1>8, OnceSet DEF Insert, StoreFails
<1> QED
  BY <1>1, <1>2, <1>3, <1>4, <1>5, <1>6, <1>7, <1>8 DEF TaskStep

\* A step of the request r itself: no completion is being inserted, and no task
\* comes out past its lookup.
LEMMA OnceRequest ==
  ASSUME LoopInv, OneActive, UnrecordedYet, CompletedIsCached, LoopInv',
         NEW r \in Requests,
         \A p \in Requests \ {r} : req'[p] = req[p],
         UNCHANGED <<results, completed>>,
         Active(r) \/ \A p \in Requests : ~Active(p),
         \A i \in DOMAIN req[r].tasks : req[r].tasks[i].pc # "insert",
         \A i \in DOMAIN req'[r].tasks : ~PastLookup(req'[r].tasks[i])
  PROVE  UnrecordedYet' /\ CompletedIsCached' /\ OneActive'
<1>1. UnrecordedYet'
  <2> SUFFICES ASSUME NEW p \in Requests, NEW j \in DOMAIN req'[p].tasks,
                      PastLookup(req'[p].tasks[j])
               PROVE  req'[p].tasks[j].id \notin completed
    BY DEF UnrecordedYet, PastLookup
  <2>1. p # r /\ req'[p] = req[p]
    OBVIOUS
  <2> QED
    BY <2>1 DEF UnrecordedYet
<1>2. CompletedIsCached'
  <2> SUFFICES ASSUME NEW id \in completed, id \notin results
               PROVE  \E p \in Requests : \E j \in DOMAIN req'[p].tasks :
                        req'[p].tasks[j].pc = "insert" /\ req'[p].tasks[j].id = id
    BY DEF CompletedIsCached
  <2>1. PICK p \in Requests : \E j \in DOMAIN req[p].tasks :
               req[p].tasks[j].pc = "insert" /\ req[p].tasks[j].id = id
    BY DEF CompletedIsCached
  <2>2. p # r /\ req'[p] = req[p]
    BY <2>1
  <2> QED
    BY <2>1, <2>2
<1>3. OneActive'
  BY DEF OneActive, Active
<1> QED
  BY <1>1, <1>2, <1>3

LEMMA OnceEnd ==
  ASSUME LoopInv, NEW r \in Requests, End(r)
  PROVE  /\ \A p \in Requests \ {r} : req'[p] = req[p]
         /\ \A i \in DOMAIN req'[r].tasks : ~PastLookup(req'[r].tasks[i])
BY IdleTyped DEF End, LoopInv, StateTyped

LEMMA OnceLoopStep ==
  ASSUME LoopInv, OneActive, UnrecordedYet, CompletedIsCached, LoopInv',
         NEW r \in Requests, LoopStep(r)
  PROVE  UnrecordedYet' /\ CompletedIsCached' /\ OneActive'
<1>1. CASE \E i \in DOMAIN req[r].tasks : TaskStep(r, i)
  BY <1>1, OnceTaskStep
<1>2. ASSUME req[r].pc \in {"list", "decide", "control"}
      PROVE  Active(r) /\ \A i \in DOMAIN req[r].tasks : req[r].tasks[i].pc # "insert"
  BY <1>2, NoTasksBetween DEF Active
<1>3. req \in [Requests -> ReqSet]
  BY DEF LoopInv, StateTyped
<1>4. CASE ListApproved(r)
  <2>1. DOMAIN req'[r].tasks = {} /\ \A p \in Requests \ {r} : req'[p] = req[p]
    BY <1>3, <1>4, NoTasksBetween, ReqTyped DEF ListApproved, LoopInv, ReqSet
  <2> QED
    BY <1>2, <1>4, <2>1, OnceRequest DEF ListApproved
<1>5. CASE ListFails(r)
  <2>1. Active(r) /\ \A i \in DOMAIN req[r].tasks : req[r].tasks[i].pc # "insert"
    BY <1>2, <1>5, NoTasks DEF ListFails, Active
  <2> QED
    BY <1>5, <2>1, OnceEnd, OnceRequest DEF ListFails
<1>6. CASE DrainNext(r)
  <2>1. Active(r) /\ \A i \in DOMAIN req[r].tasks : req[r].tasks[i].pc # "insert"
    BY <1>6, NoTasks DEF DrainNext, Active
  <2>2. PICK c \in req[r].queue :
          req' = [req EXCEPT ![r].queue = @ \ {c}, ![r].drained = @ \cup {c},
                             ![r].tasks = <<ApprovedTask(c)>>]
    BY <1>6 DEF DrainNext
  <2>3. ~PastLookup(ApprovedTask(c))
    BY DEF ApprovedTask, PastLookup
  <2>4. /\ req'[r].tasks = <<ApprovedTask(c)>>
        /\ \A p \in Requests \ {r} : req'[p] = req[p]
    BY <1>3, <2>2 DEF ReqSet
  <2>5. DOMAIN <<ApprovedTask(c)>> = {1} /\ <<ApprovedTask(c)>>[1] = ApprovedTask(c)
    OBVIOUS
  <2>6. \A i \in DOMAIN req'[r].tasks : ~PastLookup(req'[r].tasks[i])
    BY <2>3, <2>4, <2>5
  <2> QED
    BY <1>6, <2>1, <2>4, <2>6, OnceRequest DEF DrainNext
<1>7. CASE DrainReturned(r)
  <2>1. Active(r) /\ \A i \in DOMAIN req[r].tasks : req[r].tasks[i].pc # "insert"
    BY <1>7 DEF DrainReturned, Active, AllFinished, Finished
  <2>2. CASE req' = [req EXCEPT ![r].tasks = <<>>]
    <3>1. req'[r].tasks = <<>> /\ \A p \in Requests \ {r} : req'[p] = req[p]
      BY <1>3, <2>2 DEF ReqSet
    <3> QED
      BY <1>7, <2>1, <3>1, NoTasks, OnceRequest DEF DrainReturned
  <2> QED
    BY <1>7, <2>1, <2>2, OnceEnd, OnceRequest DEF DrainReturned
<1>8. CASE DrainRejected(r)
  <2>1. Active(r) /\ req[r].tasks = <<>>
    BY <1>8 DEF DrainRejected, Active
  <2>2. req'[r].tasks = <<>> /\ \A p \in Requests \ {r} : req'[p] = req[p]
    BY <1>3, <1>8, <2>1 DEF DrainRejected, ReqSet
  <2> QED
    BY <1>8, <2>1, <2>2, NoTasks, OnceRequest DEF DrainRejected
<1>9. CASE GiveUp(r)
  BY <1>2, <1>9, OnceEnd, OnceRequest DEF GiveUp
<1>10. CASE Decide(r)
  <2>1. PICK p \in Plans :
          req' = [req EXCEPT ![r].pc = "tools", ![r].plan = p,
                             ![r].tasks = [k \in Dispatched(p) |-> TurnTask(r, p, k)]]
    BY <1>10 DEF Decide
  <2>2. /\ req'[r].tasks = [k \in Dispatched(p) |-> TurnTask(r, p, k)]
        /\ \A s \in Requests \ {r} : req'[s] = req[s]
    BY <1>3, <2>1 DEF ReqSet
  <2>3. \A k \in Dispatched(p) : ~PastLookup(TurnTask(r, p, k))
    BY TurnTaskTyped DEF PastLookup
  <2>4. \A i \in DOMAIN req'[r].tasks : ~PastLookup(req'[r].tasks[i])
    BY <2>2, <2>3
  <2> QED
    BY <1>2, <1>10, <2>2, <2>4, OnceRequest DEF Decide
<1>11. CASE ToolsReturned(r)
  <2>1. Active(r) /\ \A i \in DOMAIN req[r].tasks : req[r].tasks[i].pc # "insert"
    BY <1>11 DEF ToolsReturned, Active, AllFinished, Finished
  <2>2. CASE req' = [req EXCEPT ![r].pc = "control", ![r].tasks = <<>>]
    <3>1. req'[r].tasks = <<>> /\ \A p \in Requests \ {r} : req'[p] = req[p]
      BY <1>3, <2>2 DEF ReqSet
    <3> QED
      BY <1>11, <2>1, <3>1, NoTasks, OnceRequest DEF ToolsReturned
  <2> QED
    BY <1>11, <2>1, <2>2, OnceEnd, OnceRequest DEF ToolsReturned
<1>12. CASE Control(r)
  <2>1. /\ req[r].pc = "control" /\ UNCHANGED <<results, completed>>
        /\ DOMAIN req[r].tasks = {}
    BY <1>12, NoTasksBetween DEF Control
  <2>2. CASE NextTurn(r)
    <3>1. \E q : req' = [req EXCEPT ![r] = q] /\ q.tasks = <<>>
      <4> DEFINE n == [IdleReq EXCEPT !.pc = "list", !.iter = req[r].iter + 1,
                                      !.drained = req[r].drained]
      <4>1. n.tasks = <<>> /\ IdleReq.tasks = <<>>
        BY DEF IdleReq
      <4>2. req' = [req EXCEPT ![r] = IdleReq] \/ req' = [req EXCEPT ![r] = n]
        BY <2>2 DEF NextTurn
      <4> HIDE DEF n
      <4> QED
        BY <4>1, <4>2
    <3>2. req'[r].tasks = <<>> /\ \A p \in Requests \ {r} : req'[p] = req[p]
      BY <1>3, <3>1
    <3> QED
      BY <1>2, <2>1, <3>2, NoTasks, OnceRequest
  <2>3. CASE req' = [req EXCEPT ![r].next = req[r].next + 1]
    <3>1. req'[r].tasks = req[r].tasks /\ \A p \in Requests \ {r} : req'[p] = req[p]
      BY <1>3, <2>3 DEF ReqSet
    <3> QED
      BY <1>2, <2>1, <3>1, OnceRequest
  <2>4. CASE End(r)
    BY <1>2, <2>1, <2>4, OnceEnd, OnceRequest
  <2> QED
    BY <1>12, <2>2, <2>3, <2>4 DEF Control
<1> QED
  BY <1>1, <1>4, <1>5, <1>6, <1>7, <1>8, <1>9, <1>10, <1>11, <1>12 DEF LoopStep

LEMMA OnceInvStarts == Init => OnceInv
<1> SUFFICES ASSUME Init PROVE OnceInv
  OBVIOUS
<1>1. \A r \in Requests : req[r] = IdleReq
  BY DEF Init
<1> QED
  BY <1>1, IdleTyped, LoopInvStarts DEF Init, OnceInv, OneActive, Active, UnrecordedYet,
     CompletedIsCached

LEMMA OnceInvKept ==
  ASSUME "overlap" \notin Env
  PROVE  OnceInv /\ [Next]_vars => OnceInv'
<1> SUFFICES ASSUME OnceInv, [Next]_vars PROVE OnceInv'
  OBVIOUS
<1>0. LoopInv' /\ LoopInv /\ OneActive /\ UnrecordedYet /\ CompletedIsCached
  BY LoopInvKept DEF OnceInv
<1>1. ASSUME NEW r \in Requests, Orchestrate(r)
      PROVE  UnrecordedYet' /\ CompletedIsCached' /\ OneActive'
  <2>1. \A p \in Requests : ~Active(p)
    BY <1>1 DEF Orchestrate
  <2>2. DOMAIN req[r].tasks = {}
    BY <1>0, <2>1, NoTasksBetween DEF Active
  <2>3. req'[r].tasks = req[r].tasks /\ \A p \in Requests \ {r} : req'[p] = req[p]
    BY <1>0, <1>1 DEF Orchestrate, Goto, LoopInv, StateTyped, ReqSet
  <2> QED
    BY <1>0, <1>1, <2>1, <2>2, <2>3, OnceRequest DEF Orchestrate
<1>2. ASSUME NEW r \in Requests, LoopStep(r)
      PROVE  UnrecordedYet' /\ CompletedIsCached' /\ OneActive'
  BY <1>0, <1>2, OnceLoopStep
<1>3. ASSUME \/ \E c \in Calls : OperatorApproves(c) \/ OperatorRejects(c)
             \/ UNCHANGED vars
      PROVE  UnrecordedYet' /\ CompletedIsCached' /\ OneActive'
  <2>1. UNCHANGED <<req, results, completed>>
    BY <1>3 DEF OperatorApproves, OperatorRejects, vars
  <2> QED
    BY <1>0, <2>1 DEF UnrecordedYet, PastLookup, CompletedIsCached, OneActive, Active
<1>4. ASSUME Restart
      PROVE  UnrecordedYet' /\ CompletedIsCached' /\ OneActive'
  <2>1. /\ \A r \in Requests : req'[r] = IdleReq
        /\ completed' = completed /\ results' = completed
    BY <1>4 DEF Restart, ReplayToolResultCache
  <2> QED
    BY <2>1, IdleTyped DEF UnrecordedYet, CompletedIsCached, OneActive, Active
<1> QED
  BY <1>0, <1>1, <1>2, <1>3, <1>4 DEF Next, OnceInv

\* When the requests of a run do not overlap, a call whose completion is in the
\* event log is not run again: not by a later turn or request that derives the
\* same id, and not after restarts, which rebuild the result cache from those
\* completions.
THEOREM RecordedIsNotRerun ==
  ASSUME "overlap" \notin Env
  PROVE  Spec => []RecordedIsFinal
<1>1. OnceInv => RecordedIsFinal
  <2> SUFFICES ASSUME OnceInv, NEW t \in Running
               PROVE  t.id \notin completed
    BY DEF RecordedIsFinal
  <2>1. PICK r \in Requests : \E i \in DOMAIN req[r].tasks :
                                t = req[r].tasks[i] /\ t.pc = "run"
    BY DEF Running
  <2> QED
    BY <2>1 DEF OnceInv, UnrecordedYet, PastLookup
<1>2. OnceInv /\ [Next]_vars => OnceInv'
  BY OnceInvKept
<1> QED
  BY <1>1, <1>2, OnceInvStarts, PTL DEF Spec
=============================================================================
