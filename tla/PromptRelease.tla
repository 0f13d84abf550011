---------------------------- MODULE PromptRelease ----------------------------
(***************************************************************************)
(* The prompt releases of one project: PromptReleaseServiceImpl of         *)
(* cairn-runtime (prompt_release_impl.rs), the projections it reads        *)
(* (in_memory.rs), the resolution of their approvals (approval_impl.rs)    *)
(* and the routes that call it (handlers/prompts.rs).                      *)
(*                                                                         *)
(* A method reads, decides and appends one event after the other, with no  *)
(* lock around them.  An append is applied to the projections in memory    *)
(* and then written to the durable log; when the write fails the caller    *)
(* gets an error and memory keeps the event.  A restart replays the        *)
(* durable log.  Attached policies and approval links are in memory alone. *)
(***************************************************************************)
EXTENDS Naturals, FiniteSets

CONSTANTS
  Releases,
  AssetOf,     \* AssetOf[r]: prompt_asset_id
  Place,       \* Place[r]: the place of r's id among the sorted ids
  Places,      \* their number
  Clients,     \* clients, each with one request at a time
  Calls,       \* the calls they make
  Loads,       \* what may come: [calls, fails], the calls and if writes fail
  Times,       \* values of created_at
  ListLimit,   \* the limit of list_by_project in activate
  Buckets,     \* selector buckets, and the share of a release with no percentage
  MaxByte,     \* u8::MAX
  Env          \* what else happens, see below

(***************************************************************************)
(* Env is a subset of                                                      *)
(*   "overlap"  requests for an asset are served at the same time          *)
(*   "restart"  the process restarts                                       *)
(***************************************************************************)
States == {"draft", "proposed", "approved", "active", "rejected", "archived"}
Decisions == {"approved", "rejected"}

\* A call; arg is the state of a transition, the target of a rollback, the
\* percentage of a rollout or the decision of an approval, and 0 otherwise.
Call(op, rel, arg) == [op |-> op, rel |-> rel, arg |-> arg]

CallSet ==
  [op : {"create", "activate", "attach", "request"}, rel : Releases, arg : {0}]
  \cup [op : {"transition"}, rel : Releases, arg : States]
  \cup [op : {"rollback"}, rel : Releases, arg : Releases]
  \cup [op : {"rollout"}, rel : Releases, arg : 0..MaxByte]
  \cup [op : {"resolve"}, rel : Releases, arg : Decisions]

ASSUME PromptAssumption ==
  /\ IsFiniteSet(Releases)
  /\ Places \in Nat /\ Place \in [Releases -> 1..Places]
  /\ \A r, s \in Releases : Place[r] = Place[s] => r = s
  /\ Calls \subseteq CallSet /\ Loads \subseteq [calls : SUBSET Calls, fails : BOOLEAN]
  /\ Times \subseteq Nat /\ ListLimit \in Nat
  /\ Buckets \in Nat /\ MaxByte \in Nat /\ 0 < Buckets /\ Buckets < MaxByte

VARIABLES
  load,    \* what comes in this behaviour
  row,     \* the releases as the projections in memory have them
  disk,    \* ... and as the durable log gives them
  grant,   \* the approvals of releases in memory
  kept,    \* ... and as the durable log gives them
  policy,  \* policy_attachments
  link,    \* approval_links
  torn,    \* history: the releases about which a write has failed
  req      \* the requests under way

vars == <<load, row, disk, grant, kept, policy, link, torn, req>>

NoPct == MaxByte + 1
NoRow == [state |-> "none", pct |-> NoPct, at |-> 0]
RowSet == {NoRow} \cup [state : States, pct : 0..NoPct, at : Times]

Event(kind, rel, from, to, val) ==
  [kind |-> kind, rel |-> rel, from |-> from, to |-> to, val |-> val]

Moved(rel, from, to) == Event("moved", rel, from, to, 0)

EventSet ==
  [kind : {"created"}, rel : Releases, from : {"none"}, to : {"draft"}, val : Times]
  \cup [kind : {"moved"}, rel : Releases, from : States, to : States, val : {0}]
  \cup [kind : {"rollout"}, rel : Releases, from : {"none"}, to : {"active"}, val : 0..MaxByte]
  \cup [kind : {"requested"}, rel : Releases, from : {"none"}, to : {"none"}, val : {0}]
  \cup [kind : {"resolved"}, rel : Releases, from : {"none"}, to : Decisions, val : {0}]

\* What PromptRolloutStarted makes of a release.
RolledOut(rec, e) == [rec EXCEPT !.pct = e.val, !.state = "active"]

\* apply_projection: a release that is created again starts anew, events of an
\* unknown release are ignored.
Project(rows, e) ==
  CASE e.kind = "created" ->
         [rows EXCEPT ![e.rel] = [state |-> "draft", pct |-> NoPct, at |-> e.val]]
    [] e.kind = "moved" /\ rows[e.rel] # NoRow -> [rows EXCEPT ![e.rel].state = e.to]
    [] e.kind = "rollout" /\ rows[e.rel] # NoRow ->
         [rows EXCEPT ![e.rel] = RolledOut(@, e)]
    [] OTHER -> rows

\* ... of approvals: a request sets the decision back.
ProjectGrant(grants, e) ==
  CASE e.kind = "requested" -> [grants EXCEPT ![e.rel] = "pending"]
    [] e.kind = "resolved" /\ grants[e.rel] # "none" -> [grants EXCEPT ![e.rel] = e.to]
    [] OTHER -> grants

Active(rows, a) == {r \in Releases : AssetOf[r] = a /\ rows[r].state = "active"}

Idle == [pc |-> "idle"]
Request(pc, call) == [pc |-> pc, call |-> call]
Superseding(call, olds) == [pc |-> "olds", call |-> call, olds |-> olds]
Appending(pc, call, olds, ev) == [pc |-> pc, call |-> call, olds |-> olds, ev |-> ev]

ReqSet ==
  {Idle} \cup [pc : {"gate", "list", "target", "link", "audit"}, call : Calls]
         \cup [pc : {"olds"}, call : Calls, olds : SUBSET Releases]
         \cup [pc : {"ready", "saving"}, call : Calls, olds : SUBSET Releases, ev : EventSet]

At(c, pc) == req[c].pc = pc
Goto(c, next) == req' = [req EXCEPT ![c] = next]
Return(c) == Goto(c, Idle)

\* The assets a call is about.
AssetsOf(call) ==
  {AssetOf[call.rel]} \cup IF call.op = "rollback" THEN {AssetOf[call.arg]} ELSE {}

Disjoint(call, d) ==
  ~At(d, "idle") => AssetsOf(call) \cap AssetsOf(req[d].call) = {}

Begin(c, call) ==
  /\ At(c, "idle")
  /\ "overlap" \in Env \/ \A d \in Clients : Disjoint(call, d)

Init ==
  /\ load \in Loads
  /\ row = [r \in Releases |-> NoRow] /\ disk = row
  /\ grant = [r \in Releases |-> "none"] /\ kept = grant
  /\ policy = {} /\ link = {} /\ torn = {}
  /\ req = [c \in Clients |-> Idle]

-----------------------------------------------------------------------------
(* The first step of a request: read the release, decide, prepare an event *)

Prepare(c, call, ev) ==
  Goto(c, Appending("ready", call, {}, ev)) /\ UNCHANGED <<load, row, disk, grant, kept, policy, link, torn>>

\* Create is refused with Conflict if the id is taken.
Create(c, call) ==
  /\ Begin(c, call) /\ call.op = "create" /\ row[call.rel] = NoRow
  /\ \E at \in Times : Prepare(c, call, Event("created", call.rel, "none", "draft", at))

\* Mutant: the state before is taken to be draft.
TransitionUnread(c, call) ==
  /\ Begin(c, call) /\ call.op = "transition" /\ row[call.rel] # NoRow
  /\ Prepare(c, call, Moved(call.rel, "draft", call.arg))

\* transition takes any state to any other.
Transition(c, call) ==
  /\ Begin(c, call) /\ call.op = "transition" /\ row[call.rel] # NoRow
  /\ Prepare(c, call, Moved(call.rel, row[call.rel].state, call.arg))

\* The first half of rollback: the current release is archived, whatever it is.
Rollback(c, call) ==
  /\ Begin(c, call) /\ call.op = "rollback" /\ row[call.rel] # NoRow
  /\ Prepare(c, call, Moved(call.rel, row[call.rel].state, "archived"))

StartRollout(c, call) ==
  /\ Begin(c, call) /\ call.op = "rollout" /\ row[call.rel] # NoRow
  /\ Prepare(c, call, Event("rollout", call.rel, "none", "active", call.arg))

RequestApproval(c, call) ==
  /\ Begin(c, call) /\ call.op = "request" /\ row[call.rel] # NoRow
  /\ Prepare(c, call, Event("requested", call.rel, "none", "none", 0))

\* ApprovalService::resolve refuses an approval that is decided.
Resolve(c, call) ==
  /\ Begin(c, call) /\ call.op = "resolve" /\ grant[call.rel] = "pending"
  /\ Prepare(c, call, Event("resolved", call.rel, "none", call.arg, 0))

\* attach_approval_policy appends nothing.
AttachPolicy(c, call) ==
  /\ Begin(c, call) /\ call.op = "attach" /\ row[call.rel] # NoRow
  /\ policy' = policy \cup {call.rel}
  /\ UNCHANGED <<load, row, disk, grant, kept, link, torn, req>>

\* activate refuses a release that is not approved.
Activate(c, call) ==
  /\ Begin(c, call) /\ call.op = "activate" /\ row[call.rel].state = "approved"
  /\ Goto(c, Request("gate", call))
  /\ UNCHANGED <<load, row, disk, grant, kept, policy, link, torn>>

-----------------------------------------------------------------------------
(* The rest of activate and rollback *)

\* Mutant: a pending approval lets the activation pass.
GatePending(c) ==
  LET r == req[c].call.rel IN
  /\ At(c, "gate")
  /\ IF r \in policy => r \in link /\ grant[r] # "rejected"
     THEN Goto(c, Request("list", req[c].call)) ELSE Return(c)
  /\ UNCHANGED <<load, row, disk, grant, kept, policy, link, torn>>

\* The policy, the link and the decision; policies and links are never taken
\* back, so that reading the three one after the other is reading them at once.
Gate(c) ==
  LET r == req[c].call.rel IN
  /\ At(c, "gate")
  /\ IF r \in policy => r \in link /\ grant[r] = "approved"
     THEN Goto(c, Request("list", req[c].call)) ELSE Return(c)
  /\ UNCHANGED <<load, row, disk, grant, kept, policy, link, torn>>

\* list_by_project: the first ListLimit releases by created_at; those created at
\* the same time are in any order.
Listings ==
  LET all == {r \in Releases : row[r] # NoRow} IN
  {l \in SUBSET all :
     /\ Cardinality(l) = IF Cardinality(all) <= ListLimit THEN Cardinality(all) ELSE ListLimit
     /\ \A r \in l, s \in all \ l : row[r].at <= row[s].at}

List(c) ==
  LET call == req[c].call IN
  /\ At(c, "list")
  /\ \E l \in Listings :
       Goto(c, Superseding(call, (l \cap Active(row, AssetOf[call.rel])) \ {call.rel}))
  /\ UNCHANGED <<load, row, disk, grant, kept, policy, link, torn>>

\* Mutant: only one active release is moved back.
SupersedeOne(c) ==
  /\ At(c, "olds")
  /\ \E r \in req[c].olds :
       Goto(c, Appending("ready", req[c].call, {}, Moved(r, "active", "approved")))
  /\ UNCHANGED <<load, row, disk, grant, kept, policy, link, torn>>

\* Each active release is moved back to approved by an event of its own, whatever
\* it is by then; they come in the order of the listing, which nothing depends on.
Supersede(c) ==
  /\ At(c, "olds")
  /\ \E r \in req[c].olds :
       Goto(c, Appending("ready", req[c].call, req[c].olds \ {r}, Moved(r, "active", "approved")))
  /\ UNCHANGED <<load, row, disk, grant, kept, policy, link, torn>>

\* The release that a request makes active in the end.
Target(call) == IF call.op = "rollback" THEN call.arg ELSE call.rel

\* Mutant: the activation does not wait for the others to be moved back.
ReadTargetAtOnce(c) ==
  LET r == Target(req[c].call) IN
  /\ At(c, "target") \/ At(c, "olds")
  /\ IF row[r] = NoRow THEN Return(c)
     ELSE Goto(c, Appending("ready", req[c].call, {}, Moved(r, row[r].state, "active")))
  /\ UNCHANGED <<load, row, disk, grant, kept, policy, link, torn>>

\* transition(.., "active"): its state is read again, and not checked.
ReadTarget(c) ==
  LET r == Target(req[c].call) IN
  /\ At(c, "target") \/ (At(c, "olds") /\ req[c].olds = {})
  /\ IF row[r] = NoRow THEN Return(c)
     ELSE Goto(c, Appending("ready", req[c].call, {}, Moved(r, row[r].state, "active")))
  /\ UNCHANGED <<load, row, disk, grant, kept, policy, link, torn>>

-----------------------------------------------------------------------------
(* Appends *)

\* InMemoryStore::append: the projections change under the lock ...
Append(c) ==
  /\ At(c, "ready")
  /\ row' = Project(row, req[c].ev) /\ grant' = ProjectGrant(grant, req[c].ev)
  /\ Goto(c, [req[c] EXCEPT !.pc = "saving"])
  /\ UNCHANGED <<load, disk, kept, policy, link, torn>>

\* Where a request goes on after an append.
After(x) ==
  CASE x.call.op = "activate" /\ x.ev.to = "approved" -> Superseding(x.call, x.olds)
    [] x.call.op = "activate" /\ x.ev.to = "active" -> Request("audit", x.call)
    [] x.call.op = "rollback" /\ x.ev.to = "archived" -> Request("target", x.call)
    [] x.call.op = "request" -> Request("link", x.call)
    [] OTHER -> Idle

\* ... and then the event is written to the durable log, or the write fails and
\* the request with it.
Save(c) ==
  /\ At(c, "saving")
  /\ disk' = Project(disk, req[c].ev) /\ kept' = ProjectGrant(kept, req[c].ev)
  /\ Goto(c, After(req[c]))
  /\ UNCHANGED <<load, row, grant, policy, link, torn>>

SaveFails(c) ==
  /\ At(c, "saving") /\ load.fails
  /\ torn' = torn \cup {req[c].ev.rel}
  /\ Return(c)
  /\ UNCHANGED <<load, row, disk, grant, kept, policy, link>>

\* The link of a release to its approval is stored after the append.
Link(c) ==
  /\ At(c, "link")
  /\ link' = link \cup {req[c].call.rel}
  /\ Return(c)
  /\ UNCHANGED <<load, row, disk, grant, kept, policy, torn>>

\* The route records the activation in the audit log and answers.
Audit(c) == At(c, "audit") /\ Return(c) /\ UNCHANGED <<load, row, disk, grant, kept, policy, link, torn>>

\* The process dies with its requests, and replays the durable log.
Restart ==
  /\ "restart" \in Env
  /\ row' = disk /\ grant' = kept
  /\ policy' = {} /\ link' = {}
  /\ req' = [c \in Clients |-> Idle]
  /\ UNCHANGED <<load, disk, kept, torn>>

Start(c, call) ==
  \/ Create(c, call) \/ Transition(c, call) \/ Rollback(c, call) \/ StartRollout(c, call)
  \/ RequestApproval(c, call) \/ Resolve(c, call) \/ AttachPolicy(c, call)
  \/ Activate(c, call)

Step(c) ==
  \/ Gate(c) \/ List(c) \/ Supersede(c) \/ ReadTarget(c) \/ Append(c) \/ Save(c)
  \/ SaveFails(c) \/ Link(c) \/ Audit(c)

Next ==
  \/ \E c \in Clients, call \in load.calls : Start(c, call)
  \/ \E c \in Clients : Step(c)
  \/ Restart

Spec == Init /\ [][Next]_vars

-----------------------------------------------------------------------------
(* Resolution: active_for_selector *)

\* The percentage of an active release.
Share(r) == IF row[r].pct = NoPct THEN Buckets ELSE row[r].pct

ShareAt(a, n) ==
  IF \E r \in Active(row, a) : Place[r] = n
  THEN Share(CHOOSE r \in Active(row, a) : Place[r] = n) ELSE 0

\* saturating_add
Sum(x, y) == IF x + y > MaxByte THEN MaxByte ELSE x + y

\* The shares of the active releases up to a place.
Upto(a) ==
  LET f[n \in 0..Places] == IF n = 0 THEN 0 ELSE Sum(f[n - 1], ShareAt(a, n)) IN f

\* Mutant: a bucket at the boundary goes to the release before it.
AheadOfClosed(a, b) == {r \in Active(row, a) : b <= Upto(a)[Place[r]]}

AheadOf(a, b) == {r \in Active(row, a) : b < Upto(a)[Place[r]]}

\* The release for a bucket, if one is active: by percentages if there are any,
\* the last one taking what is left, and otherwise the first by id.  No event
\* sets the routing fields that the code compares before that.
Route(a, b) ==
  LET all == Active(row, a)
      first(s) == CHOOSE r \in s : \A x \in s : Place[r] <= Place[x]
      last(s) == CHOOSE r \in s : \A x \in s : Place[x] <= Place[r]
  IN IF \A r \in all : row[r].pct = NoPct THEN first(all)
     ELSE IF AheadOf(a, b) # {} THEN first(AheadOf(a, b)) ELSE last(all)

-----------------------------------------------------------------------------
(* Properties *)

\* Every part of the state has its type.
TypeOK ==
  /\ load \in Loads
  /\ row \in [Releases -> RowSet] /\ disk \in [Releases -> RowSet]
  /\ grant \in [Releases -> {"none", "pending"} \cup Decisions]
  /\ kept \in [Releases -> {"none", "pending"} \cup Decisions]
  /\ policy \subseteq Releases /\ link \subseteq Releases /\ torn \subseteq Releases
  /\ req \in [Clients -> ReqSet]

\* Activate alone makes releases of the asset active.
Governed(a) ==
  \A x \in load.calls : a \in AssetsOf(x) =>
    x.op \notin {"rollout", "rollback"} /\ (x.op = "transition" => x.arg # "active")

Whole(a) == \A r \in torn : AssetOf[r] # a

\* An asset whose releases become active by activate alone has at most one active
\* release, unless a write about it failed: activate moves the others back in
\* appends of their own before it appends the activation, and a restart may fall
\* between any two of them.
OneActive ==
  \A r, s \in Releases :
    /\ AssetOf[r] = AssetOf[s] /\ Governed(AssetOf[r]) /\ Whole(AssetOf[r])
    /\ row[r].state = "active" /\ row[s].state = "active"
    => r = s

\* When activate has appended its last event, its release is the only active one
\* of the asset, whatever rollouts, transitions and failed writes made of the
\* asset before.
ActivationReplaces ==
  \A c \in Clients :
    At(c, "audit") =>
      LET r == req[c].call.rel IN Active(row, AssetOf[r]) = {r}

Activates(c) == At(c, "ready") /\ req[c].call.op = "activate" /\ req[c].ev.to = "active"

\* activate makes a release active that is approved at the time of the append, and
\* whose approval is granted then if it has a policy, many steps after it was
\* found so.
ActivatesCleared ==
  \A c \in Clients :
    Activates(c) =>
      LET r == req[c].call.rel IN
      /\ row[r].state = "approved"
      /\ r \in policy => r \in link /\ grant[r] = "approved"

\* The history of a release connects: a release is created when there is none, and
\* moved from the state it is in, in memory when the event is appended and in the
\* durable log when it is written there, unless a write about it failed before.
HistoryConnects ==
  \A c \in Clients :
    At(c, "ready") \/ At(c, "saving") =>
      LET e == req[c].ev IN
      e.kind \in {"created", "moved"} =>
        /\ At(c, "ready") => e.from = row[e.rel].state
        /\ At(c, "saving") /\ e.rel \notin torn => e.from = disk[e.rel].state

Served(a, r) == {b \in 0..Buckets - 1 : Route(a, b) = r}

\* Percentages are exact: if all active releases of an asset have one and they do
\* not exceed the whole, each but the last by id is served to as many selector
\* buckets as it says.
SplitIsExact ==
  \A r \in Releases :
    LET all == Active(row, AssetOf[r]) IN
    /\ r \in all /\ \E x \in all : Place[r] < Place[x]
    /\ \A x \in all : row[x].pct # NoPct
    /\ Upto(AssetOf[r])[Places] <= Buckets
    => Cardinality(Served(AssetOf[r], r)) = row[r].pct

(* What the documents say and the code does not keep in every case.        *)

\* A release that is rolled out beside one that has no percentage gets the
\* percentage of the selectors it was rolled out at.
RolloutGetsShare ==
  \A r, s \in Releases :
    /\ r # s /\ Active(row, AssetOf[r]) = {r, s}
    /\ row[r].pct <= Buckets /\ row[s].pct = NoPct
    => Cardinality(Served(AssetOf[r], r)) = row[r].pct

\* A policy blocks activation until approval is granted: it is not forgotten.
PoliciesStay == [][policy \subseteq policy']_vars
=============================================================================
