------------------------- MODULE PromptReleaseProofs -------------------------
(***************************************************************************)
(* Theorems about PromptRelease, for every set of releases, assets,        *)
(* clients and calls.                                                      *)
(***************************************************************************)
EXTENDS PromptRelease, FiniteSetTheorems, WellFoundedInduction, TLAPS

-----------------------------------------------------------------------------
(* What an event changes.                                                  *)

Grants == {"none", "pending"} \cup Decisions

LEMMA ProjectTyped ==
  ASSUME NEW rows \in [Releases -> RowSet], NEW e \in EventSet
  PROVE  Project(rows, e) \in [Releases -> RowSet]
<1> USE PromptAssumption
<1>1. e.rel \in Releases /\ rows[e.rel] \in RowSet
  BY DEF EventSet
<1>2. CASE e.kind = "created"
  <2>1. e.val \in Times /\ NoPct \in 0..NoPct
    BY <1>2 DEF EventSet, NoPct
  <2>2. [state |-> "draft", pct |-> NoPct, at |-> e.val] \in RowSet
    BY <2>1 DEF RowSet, States
  <2> QED
    BY <1>1, <1>2, <2>2 DEF Project
<1>3. CASE e.kind = "moved" /\ rows[e.rel] # NoRow
  <2>1. e.to \in States
    BY <1>3 DEF EventSet
  <2>2. [rows[e.rel] EXCEPT !.state = e.to] \in RowSet
    BY <1>1, <1>3, <2>1 DEF RowSet
  <2> QED
    BY <1>1, <1>3, <2>2 DEF Project
<1>4. CASE e.kind = "rollout" /\ rows[e.rel] # NoRow
  <2>1. e.val \in 0..NoPct
    BY <1>4 DEF EventSet, NoPct
  <2>2. RolledOut(rows[e.rel], e) \in RowSet
    BY <1>1, <1>4, <2>1 DEF RowSet, RolledOut, States
  <2> QED
    BY <1>1, <1>4, <2>2 DEF Project
<1> QED
  BY <1>2, <1>3, <1>4 DEF Project

LEMMA GrantTyped ==
  ASSUME NEW grants \in [Releases -> Grants], NEW e \in EventSet
  PROVE  ProjectGrant(grants, e) \in [Releases -> Grants]
<1>1. e.rel \in Releases /\ (e.kind = "resolved" => e.to \in Decisions)
  BY DEF EventSet
<1> QED
  BY <1>1 DEF ProjectGrant, Grants

\* An event leaves the other releases alone.
LEMMA ProjectFrame ==
  ASSUME NEW rows \in [Releases -> RowSet], NEW grants \in [Releases -> Grants],
         NEW e \in EventSet, NEW r \in Releases, r # e.rel
  PROVE  Project(rows, e)[r] = rows[r] /\ ProjectGrant(grants, e)[r] = grants[r]
BY DEF Project, ProjectGrant

\* A change of state, a creation, and the events of approvals.
LEMMA ProjectMoved ==
  ASSUME NEW rows \in [Releases -> RowSet], NEW e \in EventSet
  PROVE  /\ e.kind = "moved" /\ rows[e.rel] # NoRow => Project(rows, e)[e.rel].state = e.to
         /\ e.kind = "created" => Project(rows, e)[e.rel].state = "draft"
         /\ e.kind \in {"requested", "resolved"} => Project(rows, e) = rows
<1>1. e.rel \in Releases /\ rows[e.rel] \in RowSet
  BY DEF EventSet
<1>2. ASSUME e.kind = "moved", rows[e.rel] # NoRow
      PROVE  Project(rows, e)[e.rel].state = e.to
  <2>1. rows[e.rel] \in [state : States, pct : 0..NoPct, at : Times]
    BY <1>1, <1>2 DEF RowSet
  <2> QED
    BY <1>1, <1>2, <2>1 DEF Project
<1> QED
  BY <1>1, <1>2 DEF Project

\* What an event makes of a release depends on that release alone.
LEMMA ProjectLocal ==
  ASSUME NEW rows \in [Releases -> RowSet], NEW others \in [Releases -> RowSet],
         NEW e \in EventSet, rows[e.rel] = others[e.rel]
  PROVE  Project(rows, e)[e.rel] = Project(others, e)[e.rel]
<1>1. e.rel \in Releases
  BY DEF EventSet
<1> QED
  BY <1>1 DEF Project

-----------------------------------------------------------------------------
(* Types.                                                                  *)

LEMMA CallTyped ==
  ASSUME NEW x \in Calls
  PROVE  /\ x \in CallSet /\ x.rel \in Releases
         /\ x.op = "rollback" => x.arg \in Releases
         /\ x.op = "transition" => x.arg \in States
         /\ x.op = "rollout" => x.arg \in 0..MaxByte
         /\ x.op = "resolve" => x.arg \in Decisions
         /\ x.op \in {"create", "activate", "attach", "request", "transition",
                      "rollback", "rollout", "resolve"}
BY PromptAssumption DEF CallSet

LEMMA LoadTyped == TypeOK => load.calls \subseteq Calls
BY PromptAssumption DEF TypeOK

\* A step is one of a request, or concerns all.
LEMMA NextSplit ==
  ASSUME TypeOK, [Next]_vars
  PROVE  \/ \E c \in Clients, x \in Calls : x \in load.calls /\ Start(c, x)
         \/ \E c \in Clients : Step(c)
         \/ Restart \/ UNCHANGED vars
BY LoadTyped DEF Next

LEMMA ReqTyped ==
  ASSUME NEW x \in ReqSet
  PROVE  /\ x.pc \in {"idle", "gate", "list", "target", "link", "audit", "olds", "ready", "saving"}
         /\ x.pc = "idle" => x = Idle
         /\ x.pc # "idle" => x.call \in Calls
         /\ x.pc \in {"olds", "ready", "saving"} => x.olds \subseteq Releases
         /\ x.pc \in {"ready", "saving"} =>
              /\ x.ev \in EventSet
              /\ x = Appending(x.pc, x.call, x.olds, x.ev)
BY DEF ReqSet, Idle, Appending

LEMMA RequestMade ==
  ASSUME NEW x \in Calls
  PROVE  \A pc \in {"gate", "list", "target", "link", "audit"} : Request(pc, x) \in ReqSet
BY DEF ReqSet, Request

LEMMA SupersedingMade ==
  ASSUME NEW x \in Calls, NEW o \in SUBSET Releases
  PROVE  Superseding(x, o) \in ReqSet
BY DEF ReqSet, Superseding

LEMMA AppendingMade ==
  ASSUME NEW x \in Calls, NEW o \in SUBSET Releases, NEW e \in EventSet
  PROVE  \A pc \in {"ready", "saving"} : Appending(pc, x, o, e) \in ReqSet
BY DEF ReqSet, Appending

LEMMA MovedTyped ==
  ASSUME NEW r \in Releases, NEW s \in States, NEW u \in States
  PROVE  Moved(r, s, u) \in EventSet
BY DEF Moved, Event, EventSet

LEMMA RowState ==
  ASSUME NEW rows \in [Releases -> RowSet], NEW r \in Releases
  PROVE  /\ rows[r] # NoRow => rows[r].state \in States
         /\ rows[r] = NoRow => rows[r].state = "none"
BY DEF RowSet, NoRow

LEMMA AfterTyped ==
  ASSUME NEW x \in ReqSet, x.pc = "saving"
  PROVE  After(x) \in ReqSet
<1>1. x.call \in Calls /\ x.olds \in SUBSET Releases /\ x.ev \in EventSet
  BY ReqTyped
<1> QED
  BY <1>1, RequestMade, SupersedingMade DEF After, ReqSet

LEMMA EventsMade ==
  ASSUME NEW r \in Releases
  PROVE  /\ \A at \in Times : Event("created", r, "none", "draft", at) \in EventSet
         /\ \A n \in 0..MaxByte : Event("rollout", r, "none", "active", n) \in EventSet
         /\ Event("requested", r, "none", "none", 0) \in EventSet
         /\ \A d \in Decisions : Event("resolved", r, "none", d, 0) \in EventSet
BY DEF Event, EventSet

LEMMA TypedInit == Init => TypeOK
<1> SUFFICES ASSUME Init PROVE TypeOK
  OBVIOUS
<1>1. NoRow \in RowSet /\ Idle \in ReqSet
  BY DEF RowSet, ReqSet
<1> QED
  BY <1>1 DEF Init, TypeOK

\* An event prepared for a call of its kind.
LEMMA StartTyped ==
  ASSUME TypeOK, NEW c \in Clients, NEW x \in Calls, Start(c, x)
  PROVE  TypeOK'
<1>1. /\ x.rel \in Releases /\ row \in [Releases -> RowSet]
      /\ row[x.rel] # NoRow => row[x.rel].state \in States
  BY CallTyped, RowState DEF TypeOK
<1>2. ASSUME NEW e \in EventSet, Prepare(c, x, e) PROVE TypeOK'
  <2>1. Appending("ready", x, {}, e) \in ReqSet
    BY AppendingMade
  <2> QED
    BY <1>2, <2>1 DEF Prepare, Goto, TypeOK
<1>3. CASE Create(c, x)
  BY <1>1, <1>2, <1>3, EventsMade DEF Create
<1>4. CASE Transition(c, x)
  <2>1. x.arg \in States
    BY <1>4, CallTyped DEF Transition
  <2> QED
    BY <1>1, <1>2, <1>4, <2>1, MovedTyped DEF Transition
<1>5. CASE Rollback(c, x)
  <2>1. "archived" \in States
    BY DEF States
  <2> QED
    BY <1>1, <1>2, <1>5, <2>1, MovedTyped DEF Rollback
<1>6. CASE StartRollout(c, x)
  <2>1. x.arg \in 0..MaxByte
    BY <1>6, CallTyped DEF StartRollout
  <2> QED
    BY <1>1, <1>2, <1>6, <2>1, EventsMade DEF StartRollout
<1>7. CASE RequestApproval(c, x)
  BY <1>1, <1>2, <1>7, EventsMade DEF RequestApproval
<1>8. CASE Resolve(c, x)
  <2>1. x.arg \in Decisions
    BY <1>8, CallTyped DEF Resolve
  <2> QED
    BY <1>1, <1>2, <1>8, <2>1, EventsMade DEF Resolve
<1>9. CASE AttachPolicy(c, x)
  BY <1>1, <1>9 DEF AttachPolicy, TypeOK
<1>10. CASE Activate(c, x)
  BY <1>10, RequestMade DEF Activate, Goto, TypeOK
<1> QED
  BY <1>3, <1>4, <1>5, <1>6, <1>7, <1>8, <1>9, <1>10 DEF Start

LEMMA StepTyped ==
  ASSUME TypeOK, NEW c \in Clients, Step(c)
  PROVE  TypeOK'
<1> DEFINE x == req[c]
<1>1. x \in ReqSet /\ row \in [Releases -> RowSet] /\ Idle \in ReqSet
  BY DEF TypeOK, ReqSet
<1>2. At(c, x.pc)
  BY DEF At
<1>3. CASE Gate(c)
  <2>1. x.call \in Calls
    BY <1>1, <1>3, ReqTyped DEF Gate, At
  <2> QED
    BY <1>1, <1>3, <2>1, RequestMade DEF Gate, Goto, Return, TypeOK
<1>4. CASE List(c)
  <2>1. x.call \in Calls
    BY <1>1, <1>4, ReqTyped DEF List, At
  <2>2. \A l \in Listings :
          Superseding(x.call, (l \cap Active(row, AssetOf[x.call.rel])) \ {x.call.rel}) \in ReqSet
    BY <2>1, SupersedingMade DEF Active
  <2> QED
    BY <1>1, <1>4, <2>2 DEF List, Goto, TypeOK
<1>5. CASE Supersede(c)
  <2>1. x.call \in Calls /\ x.olds \subseteq Releases
    BY <1>1, <1>5, ReqTyped DEF Supersede, At
  <2>2. \A r \in x.olds :
          Appending("ready", x.call, x.olds \ {r}, Moved(r, "active", "approved")) \in ReqSet
    <3>1. "active" \in States /\ "approved" \in States
      BY DEF States
    <3> QED
      BY <2>1, <3>1, AppendingMade, MovedTyped
  <2> QED
    BY <1>1, <1>5, <2>2 DEF Supersede, Goto, TypeOK
<1>6. CASE ReadTarget(c)
  <2> DEFINE r == Target(x.call)
  <2>1. x.call \in Calls /\ r \in Releases
    <3>1. x.call \in Calls
      BY <1>1, <1>6, ReqTyped DEF ReadTarget, At
    <3> QED
      BY <3>1, CallTyped DEF Target
  <2>2. row[r] # NoRow => Appending("ready", x.call, {}, Moved(r, row[r].state, "active")) \in ReqSet
    <3>1. "active" \in States
      BY DEF States
    <3> QED
      BY <1>1, <2>1, <3>1, AppendingMade, MovedTyped, RowState
  <2> QED
    BY <1>1, <1>6, <2>2 DEF ReadTarget, Goto, Return, TypeOK
<1>7. CASE Append(c)
  <2>1. x.ev \in EventSet /\ x.call \in Calls /\ x.olds \subseteq Releases
        /\ x = Appending("ready", x.call, x.olds, x.ev)
    BY <1>1, <1>7, ReqTyped DEF Append, At
  <2>2. [x EXCEPT !.pc = "saving"] \in ReqSet
    <3>1. [x EXCEPT !.pc = "saving"] = Appending("saving", x.call, x.olds, x.ev)
      BY <2>1 DEF Appending
    <3> QED
      BY <2>1, <3>1, AppendingMade
  <2>3. row' \in [Releases -> RowSet] /\ grant' \in [Releases -> Grants]
    BY <1>7, <2>1, ProjectTyped, GrantTyped DEF Append, TypeOK, Grants
  <2> QED
    BY <1>7, <2>2, <2>3 DEF Append, Goto, TypeOK, Grants
<1>8. CASE Save(c)
  <2>1. x.ev \in EventSet /\ After(x) \in ReqSet
    BY <1>1, <1>8, ReqTyped, AfterTyped DEF Save, At
  <2>2. disk' \in [Releases -> RowSet] /\ kept' \in [Releases -> Grants]
    BY <1>8, <2>1, ProjectTyped, GrantTyped DEF Save, TypeOK, Grants
  <2> QED
    BY <1>8, <2>1, <2>2 DEF Save, Goto, TypeOK, Grants
<1>9. CASE SaveFails(c) \/ Audit(c)
  <2>1. SaveFails(c) => x.ev.rel \in Releases
    BY <1>1, ReqTyped DEF SaveFails, At, EventSet
  <2> QED
    BY <1>1, <1>9, <2>1 DEF SaveFails, Audit, Return, Goto, TypeOK
<1>10. CASE Link(c)
  <2>1. x.call.rel \in Releases
    BY <1>1, <1>10, ReqTyped, CallTyped DEF Link, At
  <2> QED
    BY <1>1, <1>10, <2>1 DEF Link, Return, Goto, TypeOK
<1> QED
  BY <1>3, <1>4, <1>5, <1>6, <1>7, <1>8, <1>9, <1>10 DEF Step

LEMMA TypedStep == TypeOK /\ [Next]_vars => TypeOK'
<1> SUFFICES ASSUME TypeOK, [Next]_vars PROVE TypeOK'
  OBVIOUS
<1>1. CASE Restart
  <2>1. Idle \in ReqSet
    BY DEF ReqSet
  <2> QED
    BY <1>1, <2>1 DEF Restart, TypeOK
<1>2. CASE UNCHANGED vars
  BY <1>2 DEF vars, TypeOK
<1> QED
  BY <1>1, <1>2, StartTyped, StepTyped, NextSplit

\* The releases and approvals, in memory and on disk, the policies, links and
\* requests keep their types.
THEOREM PromptTypeCorrect == Spec => []TypeOK
BY TypedInit, TypedStep, PTL DEF Spec

-----------------------------------------------------------------------------
(* Requests for an asset one at a time.                                    *)

Busy(c) == ~At(c, "idle")

Writing(x) == x.pc \in {"ready", "saving"}

\* Another active release of the asset.
Rival(x, r) == r # x.call.rel /\ AssetOf[r] = AssetOf[x.call.rel]

\* The phase of a request, and its event, are those of its call.
Fits(x) ==
  /\ x.pc \in {"gate", "list", "olds", "audit"} => x.call.op = "activate"
  /\ x.pc = "target" => x.call.op = "rollback"
  /\ x.pc = "olds" => \A r \in x.olds : Rival(x, r)
  /\ Writing(x) =>
       /\ x.call.op = "activate" =>
            /\ x.ev.kind = "moved" /\ \A r \in x.olds : Rival(x, r)
            /\ \/ x.ev.to = "approved" /\ Rival(x, x.ev.rel)
               \/ x.ev.to = "active" /\ x.ev.rel = x.call.rel /\ x.olds = {}
       /\ x.call.op = "rollback" => x.ev.kind = "moved" /\ x.ev.rel \in {x.call.rel, x.call.arg}
       /\ x.call.op \notin {"activate", "rollback"} => x.ev.rel = x.call.rel
       /\ x.call.op = "transition" => x.ev.kind = "moved" /\ x.ev.to = x.call.arg
       /\ x.call.op = "create" => x.ev.kind = "created"
       /\ x.call.op = "request" => x.ev.kind = "requested"
       /\ x.call.op = "resolve" => x.ev.kind = "resolved"
       /\ x.call.op = "rollout" => x.ev.kind = "rollout"
       /\ x.call.op # "attach"

AllFit == \A c \in Clients : Fits(req[c])

\* Requests under way are about different assets.
Apart ==
  \A c, d \in Clients :
    c # d /\ Busy(c) /\ Busy(d) => AssetsOf(req[c].call) \cap AssetsOf(req[d].call) = {}

Granted(r) == r \in policy => r \in link /\ grant[r] = "approved"

Cleared(r) == row[r].state = "approved" /\ Granted(r)

AllListed == Cardinality(Releases) <= ListLimit

\* The active releases of an asset as an activation has them from its listing.
Covers(live, s) == s \subseteq live /\ (AllListed => live = s)

\* What an activation knows of its asset, phase by phase.
Phase(c) ==
  LET x == req[c]
      r == x.call.rel
      live == Active(row, AssetOf[r])
      turn(pc, to) == x.pc = pc /\ x.call.op = "activate" /\ x.ev.to = to
  IN /\ x.pc = "gate" => row[r].state = "approved"
     /\ x.pc = "list" => Cleared(r)
     /\ x.pc = "olds" => Cleared(r) /\ Covers(live, x.olds)
     /\ turn("ready", "approved") =>
          Cleared(r) /\ Covers(live, x.olds \cup {x.ev.rel}) /\ x.ev.rel \notin x.olds
     /\ turn("saving", "approved") => Cleared(r) /\ Covers(live, x.olds)
     /\ turn("ready", "active") => Cleared(r) /\ Covers(live, {})
     /\ turn("saving", "active") => Covers(live, {r})
     /\ x.pc = "audit" => Covers(live, {r})

\* The release is still as it was when the event was prepared.
Connected(c) ==
  At(c, "ready") =>
    LET e == req[c].ev IN
    /\ e.kind = "moved" => row[e.rel] # NoRow /\ e.from = row[e.rel].state
    /\ e.kind = "created" => row[e.rel] = NoRow

MemInv == AllFit /\ Apart /\ \A c \in Clients : Phase(c) /\ Connected(c)

LEMMA FitsStart ==
  ASSUME TypeOK, NEW c \in Clients, NEW x \in Calls, Start(c, x)
  PROVE  Fits(req'[c]) \/ req' = req
<1> USE DEF Prepare, Goto, Fits, Writing, Appending, Event, Moved
<1>1. c \in DOMAIN req
  BY DEF TypeOK
<1>2. CASE Create(c, x)
  BY <1>1, <1>2 DEF Create
<1>3. CASE Transition(c, x)
  BY <1>1, <1>3 DEF Transition
<1>4. CASE Rollback(c, x)
  BY <1>1, <1>4 DEF Rollback
<1>5. CASE StartRollout(c, x)
  BY <1>1, <1>5 DEF StartRollout
<1>6. CASE RequestApproval(c, x)
  BY <1>1, <1>6 DEF RequestApproval
<1>7. CASE Resolve(c, x)
  BY <1>1, <1>7 DEF Resolve
<1>8. CASE AttachPolicy(c, x)
  BY <1>8 DEF AttachPolicy
<1>9. CASE Activate(c, x)
  BY <1>1, <1>9 DEF Activate, Request
<1> QED
  BY <1>2, <1>3, <1>4, <1>5, <1>6, <1>7, <1>8, <1>9 DEF Start

\* Where a request stands after an event of its.
LEMMA AfterFits ==
  ASSUME NEW x \in ReqSet, x.pc = "saving", Fits(x)
  PROVE  Fits(After(x)) /\ (After(x) = Idle \/ After(x).call = x.call)
BY DEF After, Fits, Rival, Writing, Superseding, Request, Idle

\* A step of a request keeps its call, or ends it.
LEMMA FitsStep ==
  ASSUME TypeOK, AllFit, NEW c \in Clients, Step(c)
  PROVE  /\ Busy(c) /\ Fits(req'[c])
         /\ req'[c] = Idle \/ req'[c].call = req[c].call
<1> DEFINE x == req[c]
           y == req'[c]
<1>1. /\ x \in ReqSet /\ Fits(x) /\ c \in DOMAIN req
      /\ \A z : Goto(c, z) => y = z
  BY DEF TypeOK, AllFit, Goto
<1>2. Fits(Idle)
  BY DEF Fits, Writing, Idle
<1>3. CASE Gate(c)
  BY <1>1, <1>2, <1>3 DEF Gate, Return, Busy, At, Fits, Writing, Request
<1>4. CASE List(c)
  <2>1. At(c, "list") /\ Busy(c) /\ x.call.op = "activate"
    BY <1>1, <1>4 DEF List, At, Busy, Fits
  <2>2. PICK l : y = Superseding(x.call, (l \cap Active(row, AssetOf[x.call.rel])) \ {x.call.rel})
    BY <1>1, <1>4 DEF List
  <2>3. /\ y.pc = "olds" /\ y.call = x.call
        /\ \A r \in y.olds : r # x.call.rel /\ AssetOf[r] = AssetOf[x.call.rel]
    BY <2>2 DEF Superseding, Active
  <2> QED
    BY <2>1, <2>3 DEF Fits, Writing, Rival
<1>5. CASE Supersede(c)
  <2>1. x.pc = "olds" /\ Busy(c) /\ x.call.op = "activate" /\ \A r \in x.olds : Rival(x, r)
    BY <1>1, <1>5 DEF Supersede, At, Busy, Fits
  <2>2. PICK r \in x.olds :
          y = Appending("ready", x.call, x.olds \ {r}, Moved(r, "active", "approved"))
    BY <1>1, <1>5 DEF Supersede
  <2> QED
    BY <2>1, <2>2 DEF Fits, Writing, Rival, Appending, Moved, Event
<1>6. CASE ReadTarget(c)
  <2>1. /\ Busy(c) /\ x.call.op \in {"activate", "rollback"}
        /\ Target(x.call) \in {x.call.rel, x.call.arg}
        /\ x.call.op = "activate" => Target(x.call) = x.call.rel
    BY <1>1, <1>6 DEF ReadTarget, At, Busy, Fits, Target
  <2>2. \/ y = Idle
        \/ y = Appending("ready", x.call, {},
                         Moved(Target(x.call), row[Target(x.call)].state, "active"))
    BY <1>1, <1>6 DEF ReadTarget, Return
  <2> QED
    BY <1>2, <2>1, <2>2 DEF Fits, Writing, Appending, Moved, Event
<1>7. CASE Append(c)
  <2>1. x = Appending("ready", x.call, x.olds, x.ev) /\ Busy(c)
    BY <1>1, <1>7, ReqTyped DEF Append, At, Busy
  <2>2. y = [x EXCEPT !.pc = "saving"]
    BY <1>1, <1>7 DEF Append
  <2>3. y = Appending("saving", x.call, x.olds, x.ev)
    BY <2>1, <2>2 DEF Appending
  <2> QED
    BY <1>1, <2>1, <2>3 DEF Fits, Writing, Rival, Appending
<1>8. CASE Save(c)
  BY <1>1, <1>8, AfterFits DEF Save, At, Busy
<1>9. CASE SaveFails(c) \/ Audit(c) \/ Link(c)
  BY <1>1, <1>2, <1>9 DEF SaveFails, Audit, Link, Return, At, Busy
<1> QED
  BY <1>3, <1>4, <1>5, <1>6, <1>7, <1>8, <1>9 DEF Step

LEMMA OthersWait ==
  ASSUME TypeOK, NEW c \in Clients, NEW d \in Clients, d # c,
         Step(c) \/ \E x \in Calls : Start(c, x)
  PROVE  req'[d] = req[d]
<1>1. CASE Step(c)
  BY <1>1 DEF TypeOK, Step, Gate, List, Supersede, ReadTarget, Append, Save, SaveFails, Link,
              Audit, Return, Goto
<1>2. ASSUME NEW x \in Calls, Start(c, x) PROVE req'[d] = req[d]
  BY <1>2 DEF TypeOK, Start, Create, Transition, Rollback, StartRollout, RequestApproval,
              Resolve, AttachPolicy, Activate, Prepare, Goto
<1> QED
  BY <1>1, <1>2

-----------------------------------------------------------------------------
(* What a request leaves alone: everything about other assets.             *)

LEMMA EventOfAsset ==
  ASSUME NEW x \in ReqSet, Fits(x), Writing(x)
  PROVE  AssetOf[x.ev.rel] \in AssetsOf(x.call) /\ x.ev \in EventSet /\ x.ev.rel \in Releases
<1>1. x.call \in Calls /\ x.ev \in EventSet /\ x.ev.rel \in Releases
  BY ReqTyped DEF Writing, EventSet
<1> QED
  BY <1>1 DEF Fits, Rival, AssetsOf

LEMMA StepFrame ==
  ASSUME TypeOK, AllFit, NEW c \in Clients, Step(c),
         NEW r \in Releases, AssetOf[r] \notin AssetsOf(req[c].call)
  PROVE  /\ row'[r] = row[r] /\ disk'[r] = disk[r]
         /\ grant'[r] = grant[r] /\ kept'[r] = kept[r]
         /\ policy' = policy /\ link \subseteq link'
<1>1. req[c] \in ReqSet /\ Fits(req[c])
  BY DEF TypeOK, AllFit
<1>2. CASE Append(c)
  <2>1. r # req[c].ev.rel /\ req[c].ev \in EventSet
    BY <1>1, <1>2, EventOfAsset DEF Append, At, Writing
  <2> QED
    BY <1>2, <2>1, ProjectFrame DEF Append, TypeOK, Grants
<1>3. CASE Save(c)
  <2>1. r # req[c].ev.rel /\ req[c].ev \in EventSet
    BY <1>1, <1>3, EventOfAsset DEF Save, At, Writing
  <2> QED
    BY <1>3, <2>1, ProjectFrame DEF Save, TypeOK, Grants
<1>4. CASE Gate(c) \/ List(c) \/ Supersede(c) \/ ReadTarget(c) \/ SaveFails(c) \/ Link(c)
           \/ Audit(c)
  BY <1>4 DEF Gate, List, Supersede, ReadTarget, SaveFails, Link, Audit
<1> QED
  BY <1>2, <1>3, <1>4 DEF Step

LEMMA StartFrame ==
  ASSUME NEW c \in Clients, NEW x \in Calls, Start(c, x)
  PROVE  /\ Begin(c, x)
         /\ row' = row /\ disk' = disk /\ grant' = grant /\ kept' = kept /\ link' = link
         /\ load' = load /\ torn' = torn
         /\ policy \subseteq policy' /\ policy' \subseteq policy \cup {x.rel}
BY DEF Start, Create, Transition, Rollback, StartRollout, RequestApproval, Resolve,
       AttachPolicy, Activate, Prepare

\* What an activation knows, and what a request knows of the release of its
\* event, outlives whatever leaves its assets alone.
LEMMA KnowledgeStays ==
  ASSUME TypeOK, NEW d \in Clients, req'[d] = req[d], Fits(req[d]),
         \A r \in Releases : AssetOf[r] \in AssetsOf(req[d].call) =>
           /\ row'[r] = row[r] /\ grant'[r] = grant[r]
           /\ r \in policy' => r \in policy /\ (r \in link => r \in link'),
         Phase(d), Connected(d), Busy(d)
  PROVE  Phase(d)' /\ Connected(d)'
<1>1. req[d] \in ReqSet /\ req[d].call \in Calls /\ req[d].call.rel \in Releases
  BY ReqTyped, CallTyped DEF TypeOK, Busy, At
<1> PICK r \in Releases : r = req[d].call.rel
  BY <1>1
<1>2. \A s \in Releases : AssetOf[s] = AssetOf[r] => row'[s] = row[s]
  BY DEF AssetsOf
<1>3. Active(row', AssetOf[r]) = Active(row, AssetOf[r])
  BY <1>2 DEF Active
<1>4. Cleared(r) => Cleared(r)'
  BY DEF Cleared, Granted, AssetsOf
<1>5. row'[r] = row[r]
  BY <1>2
<1>6. Phase(d)'
  BY <1>3, <1>4, <1>5 DEF Phase
<1>7. Connected(d)'
  <2> SUFFICES ASSUME At(d, "ready") PROVE Connected(d)'
    BY DEF Connected, At
  <2>1. row'[req[d].ev.rel] = row[req[d].ev.rel]
    BY <1>1, EventOfAsset DEF At, Writing
  <2> QED
    BY <2>1 DEF Connected, At
<1> QED
  BY <1>6, <1>7

LEMMA IdleKnows ==
  ASSUME NEW c, req[c] = Idle
  PROVE  Phase(c) /\ Connected(c)
BY DEF Phase, Connected, At, Idle

LEMMA FitStays ==
  ASSUME TypeOK, "overlap" \notin Env, AllFit, Apart, [Next]_vars
  PROVE  AllFit' /\ Apart'
<1>1. \A d \in Clients : Fits(req[d])
  BY DEF AllFit
<1>2. ASSUME NEW c \in Clients, Step(c) PROVE AllFit' /\ Apart'
  <2>1. Busy(c) /\ Fits(req'[c]) /\ (req'[c] = Idle \/ req'[c].call = req[c].call)
    BY <1>2, FitsStep
  <2>2. \A d \in Clients : d # c => req'[d] = req[d]
    BY <1>2, OthersWait
  <2>3. AllFit'
    BY <1>1, <2>1, <2>2 DEF AllFit
  <2>4. ASSUME NEW d \in Clients, Busy(d)' PROVE Busy(d) /\ req'[d].call = req[d].call
    BY <2>1, <2>2, <2>4 DEF Busy, At, Idle
  <2> QED
    BY <2>3, <2>4 DEF Apart
<1>3. ASSUME NEW c \in Clients, NEW x \in Calls, Start(c, x) PROVE AllFit' /\ Apart'
  <2>1. Fits(req'[c]) \/ req' = req
    BY <1>3, FitsStart
  <2>2. \A d \in Clients : d # c => req'[d] = req[d]
    BY <1>3, OthersWait
  <2>3. AllFit'
    BY <1>1, <2>1, <2>2 DEF AllFit
  <2>4. /\ req'[c] = Idle \/ req'[c].call = x
        /\ \A d \in Clients : Busy(d) => AssetsOf(x) \cap AssetsOf(req[d].call) = {}
    <3>1. Begin(c, x) /\ req[c] = Idle
      BY <1>3, StartFrame, ReqTyped DEF Begin, At, TypeOK
    <3>2. req' = req \/ req'[c].call = x
      BY <1>3 DEF Start, Create, Transition, Rollback, StartRollout, RequestApproval, Resolve,
                  AttachPolicy, Activate, Prepare, Goto, TypeOK, Appending, Request
    <3> QED
      BY <3>1, <3>2 DEF Begin, Disjoint, Busy
  <2>5. ASSUME NEW d \in Clients, NEW e \in Clients, d # e, Busy(d)', Busy(e)'
        PROVE  AssetsOf(req'[d].call) \cap AssetsOf(req'[e].call) = {}
    <3>1. CASE d = c
      BY <2>2, <2>4, <2>5, <3>1 DEF Busy, At, Idle
    <3>2. CASE e = c
      BY <2>2, <2>4, <2>5, <3>2 DEF Busy, At, Idle
    <3>3. CASE d # c /\ e # c
      BY <2>2, <2>5, <3>3 DEF Busy, At, Apart
    <3> QED
      BY <3>1, <3>2, <3>3
  <2> QED
    BY <2>3, <2>5 DEF Apart
<1>4. CASE Restart
  <2>1. \A d \in Clients : req'[d] = Idle
    BY <1>4 DEF Restart
  <2> QED
    BY <2>1 DEF AllFit, Apart, Fits, Writing, Busy, At, Idle
<1>5. CASE UNCHANGED vars
  BY <1>5 DEF vars, AllFit, Apart, Busy, At
<1> QED
  BY <1>2, <1>3, <1>4, <1>5, NextSplit

\* With a limit that no project reaches, activate lists all releases.
LEMMA ListsAll ==
  ASSUME AllListed, NEW l \in Listings
  PROVE  l = {r \in Releases : row[r] # NoRow}
<1> DEFINE all == {r \in Releases : row[r] # NoRow}
<1>1. IsFiniteSet(all) /\ Cardinality(all) <= Cardinality(Releases)
  BY PromptAssumption, FS_Subset
<1>2. Cardinality(all) \in Nat /\ Cardinality(Releases) \in Nat
  BY <1>1, PromptAssumption, FS_CardinalityType
<1>3. l \in SUBSET all /\ Cardinality(l) = Cardinality(all)
  BY <1>1, <1>2, PromptAssumption DEF Listings, AllListed
<1> QED
  BY <1>1, <1>3, FS_Subset

LEMMA KnowsStart ==
  ASSUME TypeOK, NEW c \in Clients, NEW x \in Calls, Start(c, x)
  PROVE  Phase(c)' /\ Connected(c)'
<1>1. c \in DOMAIN req /\ req[c] = Idle /\ row' = row /\ x.rel \in Releases
  BY StartFrame, CallTyped, ReqTyped DEF TypeOK, Begin, At
<1>2. CASE req' = req
  BY <1>1, <1>2 DEF Phase, Connected, At, Idle
<1>3. ASSUME x.op = "activate", req' # req PROVE Phase(c)' /\ Connected(c)'
  <2>1. Activate(c, x)
    BY <1>3 DEF Start, Create, Transition, Rollback, StartRollout, RequestApproval, Resolve,
                AttachPolicy
  <2>2. req'[c] = Request("gate", x) /\ row[x.rel].state = "approved"
    BY <1>1, <2>1 DEF Activate, Goto
  <2> QED
    BY <1>1, <2>2 DEF Phase, Connected, At, Request
<1>4. ASSUME x.op # "activate", req' # req PROVE Phase(c)' /\ Connected(c)'
  <2>1. PICK e : /\ req'[c] = Appending("ready", x, {}, e)
                 /\ e.kind = "moved" => row[e.rel] # NoRow /\ e.from = row[e.rel].state
                 /\ e.kind = "created" => row[e.rel] = NoRow
    <3> USE <1>1 DEF Prepare, Goto, Event, Moved
    <3>1. CASE Create(c, x)
      BY <3>1 DEF Create
    <3>2. CASE Transition(c, x)
      BY <3>2 DEF Transition
    <3>3. CASE Rollback(c, x)
      BY <3>3 DEF Rollback
    <3>4. CASE StartRollout(c, x)
      BY <3>4 DEF StartRollout
    <3>5. CASE RequestApproval(c, x)
      BY <3>5 DEF RequestApproval
    <3>6. CASE Resolve(c, x)
      BY <3>6 DEF Resolve
    <3>7. CASE AttachPolicy(c, x) \/ Activate(c, x)
      BY <1>4, <3>7 DEF AttachPolicy, Activate
    <3> QED
      BY <3>1, <3>2, <3>3, <3>4, <3>5, <3>6, <3>7 DEF Start
  <2>2. Phase(c)'
    BY <1>4, <2>1 DEF Phase, Appending
  <2>3. Connected(c)'
    BY <1>1, <2>1 DEF Connected, At, Appending
  <2> QED
    BY <2>2, <2>3
<1> QED
  BY <1>2, <1>3, <1>4

\* An activation on its way to its last event.
LEMMA KnowsReads ==
  ASSUME TypeOK, NEW c \in Clients, Fits(req[c]),
         Phase(c), Connected(c), Gate(c) \/ List(c) \/ Supersede(c) \/ ReadTarget(c)
  PROVE  Phase(c)' /\ Connected(c)'
<1> DEFINE x == req[c]
           y == req'[c]
<1>1. /\ x \in ReqSet /\ x.call.rel \in Releases
      /\ row' = row /\ grant' = grant /\ policy' = policy /\ link' = link
      /\ \A z : Goto(c, z) => y = z
  BY ReqTyped, CallTyped DEF TypeOK, Gate, List, Supersede, ReadTarget, At, Goto
<1> PICK r \in Releases : r = x.call.rel
  BY <1>1
<1> DEFINE live == Active(row, AssetOf[r])
<1>2. CASE y = Idle
  BY <1>2 DEF Phase, Connected, At, Idle
<1>3. CASE Gate(c) /\ y # Idle
  <2>1. y = Request("list", x.call) /\ Cleared(r)
    BY <1>1, <1>3 DEF Gate, Return, Phase, Cleared, Granted, At
  <2>2. Cleared(r)'
    BY <1>1, <2>1 DEF Cleared, Granted
  <2> QED
    BY <2>1, <2>2 DEF Phase, Connected, At, Request
<1>4. CASE List(c)
  <2>1. PICK l \in Listings : y = Superseding(x.call, (l \cap live) \ {r})
    BY <1>1, <1>4 DEF List
  <2>2. Covers(live, (l \cap live) \ {r}) /\ r \notin live
    <3>1. \A s \in live : row[s] # NoRow
      BY DEF Active, NoRow
    <3>2. live \subseteq Releases /\ r \notin live
      BY <1>1, <1>4 DEF List, Phase, Cleared, Active, At
    <3> QED
      BY <2>1, <3>1, <3>2, ListsAll DEF Covers
  <2>3. Cleared(r)
    BY <1>4 DEF List, Phase, At
  <2>4. Cleared(r)' /\ Active(row', AssetOf[r]) = live
    BY <1>1, <2>3 DEF Cleared, Granted
  <2> QED
    BY <2>1, <2>2, <2>4 DEF Phase, Connected, At, Superseding
<1>5. CASE Supersede(c)
  <2>1. PICK s \in x.olds :
          y = Appending("ready", x.call, x.olds \ {s}, Moved(s, "active", "approved"))
    BY <1>1, <1>5 DEF Supersede
  <2>2. /\ Cleared(r) /\ Covers(live, (x.olds \ {s}) \cup {s})
        /\ row[s].state = "active" /\ s \notin x.olds \ {s}
    BY <1>5, <2>1 DEF Supersede, Phase, At, Active, Covers
  <2>3. Cleared(r)' /\ Active(row', AssetOf[r]) = live
    BY <1>1, <2>2 DEF Cleared, Granted
  <2>4. Phase(c)'
    <3>1. /\ y.pc = "ready" /\ y.call = x.call /\ y.olds = x.olds \ {s}
          /\ y.ev.rel = s /\ y.ev.to = "approved"
      BY <2>1 DEF Appending, Moved, Event
    <3>2. Covers(Active(row', AssetOf[r]), y.olds \cup {y.ev.rel}) /\ y.ev.rel \notin y.olds
      BY <2>2, <2>3, <3>1
    <3> QED
      BY <2>3, <3>1, <3>2 DEF Phase
  <2>5. Connected(c)'
    BY <1>1, <2>1, <2>2 DEF Connected, At, Appending, Moved, Event, NoRow
  <2> QED
    BY <2>4, <2>5
<1>6. CASE ReadTarget(c) /\ y # Idle
  <2> PICK t : t = Target(x.call)
    OBVIOUS
  <2>1. row[t] # NoRow /\ y = Appending("ready", x.call, {}, Moved(t, row[t].state, "active"))
    BY <1>1, <1>6 DEF ReadTarget, Return
  <2>2. x.call.op = "activate" => Cleared(r) /\ Covers(live, {})
    BY <1>6 DEF ReadTarget, Phase, At, Fits
  <2>3. Cleared(r) => Cleared(r)'
    BY <1>1 DEF Cleared, Granted
  <2>4. Phase(c)'
    BY <1>1, <2>1, <2>2, <2>3 DEF Phase, Appending, Moved, Event
  <2>5. Connected(c)'
    BY <1>1, <2>1 DEF Connected, At, Appending, Moved, Event
  <2> QED
    BY <2>4, <2>5
<1> QED
  BY <1>2, <1>3, <1>4, <1>5, <1>6

\* ... through its appends.
LEMMA KnowsAppends ==
  ASSUME TypeOK, NEW c \in Clients, Fits(req[c]), Phase(c), Connected(c), Append(c)
  PROVE  Phase(c)' /\ Connected(c)'
<1> DEFINE x == req[c]
           y == req'[c]
<1>1. /\ x \in ReqSet /\ x.call.rel \in Releases /\ x.ev \in EventSet /\ x.ev.rel \in Releases
      /\ x.pc = "ready" /\ x = Appending("ready", x.call, x.olds, x.ev)
  BY ReqTyped, CallTyped DEF TypeOK, Append, At, EventSet
<1>2. y = [x EXCEPT !.pc = "saving"]
  BY DEF TypeOK, Append, Goto
<1>3. y = Appending("saving", x.call, x.olds, x.ev)
  BY <1>1, <1>2 DEF Appending
<1>4. Connected(c)'
  BY <1>3 DEF Connected, At, Appending
<1>5. CASE x.call.op # "activate"
  BY <1>3, <1>4, <1>5 DEF Phase, Appending
<1>6. CASE x.call.op = "activate"
  <2> PICK r \in Releases : r = x.call.rel
    BY <1>1
  <2> PICK e \in EventSet : e = x.ev
    BY <1>1
  <2> DEFINE live == Active(row, AssetOf[r])
  <2>1. e.kind = "moved" /\ row[e.rel] # NoRow /\ e.rel \in Releases
    BY <1>1, <1>6 DEF Fits, Writing, Connected, At
  <2>2. grant' = grant /\ policy' = policy /\ link' = link
    BY <2>1 DEF Append, ProjectGrant
  <2>3. row' = Project(row, e)
    BY DEF Append
  <2>4. row'[e.rel].state = e.to
    BY <2>1, <2>3, ProjectMoved DEF TypeOK
  <2>5. \A s \in Releases : s # e.rel => row'[s] = row[s]
    BY <2>3, ProjectFrame DEF TypeOK, Grants
  <2>6. CASE e.to = "approved"
    <3>1. /\ Rival(x, e.rel) /\ Cleared(r) /\ Covers(live, x.olds \cup {e.rel})
          /\ e.rel \notin x.olds
      BY <1>1, <1>6, <2>6 DEF Fits, Writing, Phase
    <3>2. Active(row', AssetOf[r]) = live \ {e.rel}
      BY <2>4, <2>5, <2>6, <3>1 DEF Active, Rival
    <3>4. Covers(live \ {e.rel}, x.olds)
      BY <3>1 DEF Covers
    <3>3. Cleared(r)'
      BY <2>2, <2>5, <3>1 DEF Cleared, Granted, Rival
    <3> QED
      BY <1>3, <1>4, <2>6, <3>2, <3>3, <3>4 DEF Phase, Appending
  <2>7. CASE e.to = "active"
    <3>1. e.rel = r /\ Covers(live, {})
      BY <1>1, <1>6, <2>7 DEF Fits, Writing, Phase
    <3>2. Active(row', AssetOf[r]) = live \cup {r}
      BY <2>4, <2>5, <2>7, <3>1 DEF Active
    <3>3. Covers(live \cup {r}, {r})
      BY <3>1 DEF Covers
    <3> QED
      BY <1>3, <1>4, <2>7, <3>2, <3>3 DEF Phase, Appending
  <2> QED
    BY <1>1, <1>6, <2>6, <2>7 DEF Fits, Writing
<1> QED
  BY <1>5, <1>6

LEMMA KnowsSaves ==
  ASSUME TypeOK, NEW c \in Clients, Fits(req[c]), Phase(c),
         Save(c) \/ SaveFails(c) \/ Link(c) \/ Audit(c)
  PROVE  Phase(c)' /\ Connected(c)'
<1> DEFINE x == req[c]
           y == req'[c]
<1>1. /\ x \in ReqSet /\ x.call.rel \in Releases
      /\ row' = row /\ grant' = grant /\ policy' = policy
      /\ \A z : Goto(c, z) => y = z
  BY ReqTyped, CallTyped DEF TypeOK, Save, SaveFails, Link, Audit, At, Goto
<1>2. CASE y = Idle
  BY <1>2 DEF Phase, Connected, At, Idle
<1>3. CASE Save(c) /\ y # Idle
  <2> PICK r \in Releases : r = x.call.rel
    BY <1>1
  <2>1. x.pc = "saving" /\ y = After(x) /\ link' = link
    BY <1>1, <1>3 DEF Save, At
  <2>2. Connected(c)'
    BY <2>1 DEF Connected, At, After, Superseding, Request, Idle
  <2>3. CASE x.call.op = "activate" /\ x.ev.to = "approved"
    <3>1. y = Superseding(x.call, x.olds) /\ Cleared(r) /\ Covers(Active(row, AssetOf[r]), x.olds)
      BY <2>1, <2>3 DEF After, Phase
    <3>2. Cleared(r)'
      BY <1>1, <2>1, <3>1 DEF Cleared, Granted
    <3> QED
      BY <1>1, <2>2, <3>1, <3>2 DEF Phase, Superseding
  <2>4. CASE x.call.op = "activate" /\ x.ev.to = "active"
    <3>1. y = Request("audit", x.call) /\ Covers(Active(row, AssetOf[r]), {r})
      BY <2>1, <2>4 DEF After, Phase
    <3> QED
      BY <1>1, <2>2, <3>1 DEF Phase, Request
  <2>5. CASE x.call.op # "activate"
    <3>1. y.pc \in {"target", "link"}
      BY <1>3, <2>1, <2>5 DEF After, Request
    <3> QED
      BY <2>2, <3>1 DEF Phase
  <2> QED
    BY <2>1, <2>3, <2>4, <2>5 DEF Fits, Writing
<1>4. CASE SaveFails(c) \/ Link(c) \/ Audit(c)
  BY <1>1, <1>2, <1>4 DEF SaveFails, Link, Audit, Return
<1> QED
  BY <1>2, <1>3, <1>4

LEMMA MemInit == Init => MemInv
BY DEF Init, MemInv, AllFit, Apart, Fits, Writing, Phase, Connected, Busy, At, Idle

LEMMA KnowsStep ==
  ASSUME TypeOK, NEW c \in Clients, Fits(req[c]),
         Phase(c), Connected(c), Step(c)
  PROVE  Phase(c)' /\ Connected(c)'
BY KnowsReads, KnowsAppends, KnowsSaves DEF Step

\* The invariant that the theorems about memory rest on.
LEMMA MemStep ==
  ASSUME TypeOK, "overlap" \notin Env, MemInv, [Next]_vars
  PROVE  MemInv'
<1>1. AllFit /\ Apart /\ \A c \in Clients : Fits(req[c]) /\ Phase(c) /\ Connected(c)
  BY DEF MemInv, AllFit
<1>2. AllFit' /\ Apart'
  BY <1>1, FitStays
<1>3. ASSUME NEW c \in Clients, Step(c), NEW d \in Clients PROVE Phase(d)' /\ Connected(d)'
  <2>1. CASE d = c
    BY <1>1, <1>3, <2>1, KnowsStep
  <2>2. CASE d # c /\ ~Busy(d)
    <3>1. req'[d] = Idle
      BY <1>3, <2>2, OthersWait, ReqTyped DEF TypeOK, Busy, At
    <3> QED
      BY <3>1 DEF Phase, Connected, At, Idle
  <2>3. CASE d # c /\ Busy(d)
    <3>1. req'[d] = req[d] /\ Busy(c)
      BY <1>1, <1>3, <2>3, OthersWait, FitsStep
    <3>2. AssetsOf(req[d].call) \cap AssetsOf(req[c].call) = {}
      BY <1>1, <2>3, <3>1 DEF Apart
    <3>3. \A r \in Releases : AssetOf[r] \in AssetsOf(req[d].call) =>
            /\ row'[r] = row[r] /\ grant'[r] = grant[r]
            /\ r \in policy' => r \in policy /\ (r \in link => r \in link')
      BY <1>1, <1>3, <3>2, StepFrame
    <3> QED
      BY <1>1, <2>3, <3>1, <3>3, KnowledgeStays
  <2> QED
    BY <2>1, <2>2, <2>3
<1>4. ASSUME NEW c \in Clients, NEW x \in Calls, Start(c, x), NEW d \in Clients
      PROVE  Phase(d)' /\ Connected(d)'
  <2>1. CASE d = c
    BY <1>4, <2>1, KnowsStart
  <2>2. CASE d # c /\ ~Busy(d)
    <3>1. req'[d] = Idle
      BY <1>4, <2>2, OthersWait, ReqTyped DEF TypeOK, Busy, At
    <3> QED
      BY <3>1 DEF Phase, Connected, At, Idle
  <2>3. CASE d # c /\ Busy(d)
    <3>1. req'[d] = req[d] /\ AssetOf[x.rel] \in AssetsOf(x)
      BY <1>4, <2>3, OthersWait DEF AssetsOf
    <3>2. AssetsOf(x) \cap AssetsOf(req[d].call) = {}
      BY <1>4, <2>3, StartFrame DEF Begin, Disjoint, Busy
    <3>3. \A r \in Releases : AssetOf[r] \in AssetsOf(req[d].call) =>
            /\ row'[r] = row[r] /\ grant'[r] = grant[r]
            /\ r \in policy' => r \in policy /\ (r \in link => r \in link')
      BY <1>4, <3>1, <3>2, StartFrame
    <3> QED
      BY <1>1, <2>3, <3>1, <3>3, KnowledgeStays
  <2> QED
    BY <2>1, <2>2, <2>3
<1>5. ASSUME Restart, NEW d \in Clients PROVE Phase(d)' /\ Connected(d)'
  <2>1. req'[d] = Idle
    BY <1>5 DEF Restart
  <2> QED
    BY <2>1 DEF Phase, Connected, At, Idle
<1>6. ASSUME UNCHANGED vars, NEW d \in Clients PROVE Phase(d)' /\ Connected(d)'
  BY <1>1, <1>6 DEF vars, Phase, Connected, At, Cleared, Granted, Active
<1> QED
  BY <1>2, <1>3, <1>4, <1>5, <1>6, NextSplit DEF MemInv

\* The theorems about memory: for any releases, assets, clients and calls, rollouts,
\* rollbacks and transitions to active among them, with failed writes and restarts,
\* as long as requests for an asset come one at a time.
LEMMA MemHolds ==
  ASSUME "overlap" \notin Env
  PROVE  Spec => [](TypeOK /\ MemInv)
<1>1. TypeOK /\ MemInv /\ [Next]_vars => (TypeOK /\ MemInv)'
  BY TypedStep, MemStep
<1> QED
  BY <1>1, TypedInit, MemInit, PTL DEF Spec

\* ActivationReplaces: when activate is done its release is the only active one,
\* although the others are moved back one append at a time.
THEOREM ActivationIsAlone ==
  ASSUME "overlap" \notin Env, AllListed
  PROVE  Spec => []ActivationReplaces
<1>1. MemInv => ActivationReplaces
  BY DEF MemInv, ActivationReplaces, Phase, At, Covers
<1> QED
  BY <1>1, MemHolds, PTL

\* ActivatesCleared: what activate found out at its start, about its release and the
\* approval of its policy, holds at its last append.
THEOREM ActivationIsCleared ==
  ASSUME "overlap" \notin Env
  PROVE  Spec => []ActivatesCleared
<1>1. MemInv => ActivatesCleared
  BY DEF MemInv, ActivatesCleared, Activates, Phase, Cleared, Granted, At
<1> QED
  BY <1>1, MemHolds, PTL

-----------------------------------------------------------------------------
(* Memory and the durable log.                                             *)

SavingFor(c, r) == At(c, "saving") /\ req[c].ev.rel = r

\* Memory is ahead of the log by the events that are being written, and by those
\* whose write failed.
Synced ==
  \A r \in Releases \ torn : (\A c \in Clients : ~SavingFor(c, r)) => row[r] = disk[r]

Pending ==
  \A c \in Clients : At(c, "saving") /\ req[c].ev.rel \notin torn =>
    LET e == req[c].ev IN
    /\ row[e.rel] = Project(disk, e)[e.rel]
    /\ e.kind \in {"created", "moved"} => e.from = disk[e.rel].state

LogInv == Synced /\ Pending

\* No two requests write about one asset.
LEMMA OneWriter ==
  ASSUME TypeOK, AllFit, Apart, NEW c \in Clients, NEW d \in Clients,
         Writing(req[c]), Writing(req[d]), AssetOf[req[c].ev.rel] = AssetOf[req[d].ev.rel]
  PROVE  c = d
<1>1. /\ AssetOf[req[c].ev.rel] \in AssetsOf(req[c].call)
      /\ AssetOf[req[d].ev.rel] \in AssetsOf(req[d].call)
  BY EventOfAsset DEF AllFit, TypeOK
<1>2. Busy(c) /\ Busy(d)
  BY DEF Busy, At, Writing
<1> QED
  BY <1>1, <1>2 DEF Apart

\* When a request has written its event, the log agrees with memory about the asset.
LEMMA SaveSyncs ==
  ASSUME TypeOK, AllFit, Apart, LogInv, NEW c \in Clients, Save(c),
         NEW r \in Releases \ torn, AssetOf[r] = AssetOf[req[c].ev.rel]
  PROVE  disk'[r] = row[r]
<1>1. At(c, "saving") /\ disk' = Project(disk, req[c].ev) /\ req[c].ev \in EventSet
  BY ReqTyped DEF Save, At, TypeOK
<1>2. CASE r = req[c].ev.rel
  BY <1>1, <1>2 DEF LogInv, Pending
<1>3. CASE r # req[c].ev.rel
  <2>1. disk'[r] = disk[r]
    BY <1>1, <1>3, ProjectFrame DEF TypeOK, Grants
  <2>2. \A d \in Clients : ~SavingFor(d, r)
    BY <1>1, <1>3, OneWriter DEF SavingFor, At, Writing
  <2> QED
    BY <2>1, <2>2 DEF LogInv, Synced
<1> QED
  BY <1>2, <1>3

LEMMA LogSaves ==
  ASSUME TypeOK, AllFit, Apart, LogInv, NEW c \in Clients, Save(c)
  PROVE  LogInv'
<1> PICK e \in EventSet : e = req[c].ev
  BY ReqTyped DEF Save, At, TypeOK
<1>1. /\ row' = row /\ disk' = Project(disk, e) /\ At(c, "saving") /\ e.rel \in Releases
      /\ torn' = torn
      /\ \A d \in Clients : d # c => req'[d] = req[d]
      /\ req'[c].pc # "saving"
  <2>1. req'[c] = After(req[c])
    BY DEF Save, Goto, TypeOK
  <2>2. After(req[c]).pc # "saving"
    BY DEF After, Superseding, Request, Idle
  <2> QED
    BY <2>1, <2>2 DEF Save, Goto, TypeOK, EventSet
<1>2. \A r \in Releases : r # e.rel => disk'[r] = disk[r]
  BY <1>1, ProjectFrame DEF TypeOK, Grants
<1>3. e.rel \notin torn => disk'[e.rel] = row[e.rel]
  BY <1>1, SaveSyncs
<1>4. Synced'
  <2> SUFFICES ASSUME NEW r \in Releases \ torn, \A d \in Clients : ~SavingFor(d, r)', r # e.rel
               PROVE  row'[r] = disk'[r]
    BY <1>1, <1>3 DEF Synced, SavingFor, At
  <2>1. \A d \in Clients : ~SavingFor(d, r)
    BY <1>1 DEF SavingFor, At
  <2> QED
    BY <1>1, <1>2, <2>1 DEF LogInv, Synced
<1>5. Pending'
  <2> SUFFICES ASSUME NEW d \in Clients, At(d, "saving")', req'[d].ev.rel \notin torn
               PROVE  LET k == req'[d].ev IN
                      /\ row'[k.rel] = Project(disk', k)[k.rel]
                      /\ k.kind \in {"created", "moved"} => k.from = disk'[k.rel].state
    BY <1>1 DEF Pending, At
  <2>1. d # c /\ req'[d] = req[d] /\ At(d, "saving")
    BY <1>1 DEF At
  <2> PICK k \in EventSet : k = req[d].ev
    BY <2>1, ReqTyped DEF At, TypeOK
  <2>2. k.rel # e.rel /\ k.rel \in Releases
    BY <1>1, <2>1, OneWriter DEF At, Writing, EventSet
  <2>3. disk[k.rel] = disk'[k.rel] /\ disk' \in [Releases -> RowSet]
    BY <1>1, <1>2, <2>2, ProjectTyped DEF TypeOK
  <2>4. Project(disk', k)[k.rel] = Project(disk, k)[k.rel]
    BY <2>3, ProjectLocal DEF TypeOK
  <2> QED
    BY <1>1, <2>1, <2>3, <2>4 DEF LogInv, Pending
<1> QED
  BY <1>4, <1>5 DEF LogInv

\* An event in hand names the state that its release is in.
LEMMA ConnectedFrom ==
  ASSUME TypeOK, NEW c \in Clients, At(c, "ready"), Connected(c)
  PROVE  req[c].ev.kind \in {"created", "moved"} => req[c].ev.from = row[req[c].ev.rel].state
<1>1. req[c].ev \in EventSet
  BY ReqTyped DEF At, TypeOK
<1>2. req[c].ev.kind = "created" => req[c].ev.from = "none"
  BY <1>1 DEF EventSet
<1> QED
  BY <1>2 DEF Connected, NoRow

LEMMA LogAppends ==
  ASSUME TypeOK, AllFit, Apart, LogInv, NEW c \in Clients, Connected(c), Append(c)
  PROVE  LogInv'
<1>1. req[c] \in ReqSet /\ At(c, "ready")
  BY DEF Append, TypeOK
<1> PICK e \in EventSet : e = req[c].ev
  BY <1>1, ReqTyped DEF At
<1>2. /\ row' = Project(row, e) /\ disk' = disk /\ torn' = torn /\ e.rel \in Releases
      /\ \A d \in Clients : d # c => req'[d] = req[d]
      /\ req'[c].pc = "saving" /\ req'[c].ev = e
  <2>1. req[c] = Appending("ready", req[c].call, req[c].olds, req[c].ev)
    BY <1>1, ReqTyped DEF At
  <2>2. req'[c] = [req[c] EXCEPT !.pc = "saving"]
    BY DEF Append, Goto, TypeOK
  <2>3. req'[c].pc = "saving" /\ req'[c].ev = e
    BY <2>1, <2>2 DEF Appending
  <2> QED
    BY <2>3 DEF Append, Goto, TypeOK, EventSet
<1>3. \A r \in Releases : r # e.rel => row'[r] = row[r]
  BY <1>2, ProjectFrame DEF TypeOK, Grants
<1>4. e.rel \notin torn => row[e.rel] = disk[e.rel]
  <2>1. \A d \in Clients : ~SavingFor(d, e.rel)
    BY <1>1, OneWriter DEF SavingFor, At, Writing
  <2> QED
    BY <1>2, <2>1 DEF LogInv, Synced
<1>5. Synced'
  <2> SUFFICES ASSUME NEW r \in Releases \ torn, \A d \in Clients : ~SavingFor(d, r)'
               PROVE  row'[r] = disk'[r]
    BY <1>2 DEF Synced
  <2>1. r # e.rel /\ \A d \in Clients : ~SavingFor(d, r)
    BY <1>1, <1>2 DEF SavingFor, At
  <2> QED
    BY <1>2, <1>3, <2>1 DEF LogInv, Synced
<1>6. Pending'
  <2> SUFFICES ASSUME NEW d \in Clients, At(d, "saving")', req'[d].ev.rel \notin torn
               PROVE  LET k == req'[d].ev IN
                      /\ row'[k.rel] = Project(disk', k)[k.rel]
                      /\ k.kind \in {"created", "moved"} => k.from = disk'[k.rel].state
    BY <1>2 DEF Pending, At
  <2>1. CASE d = c
    <3>1. row[e.rel] = disk[e.rel]
      BY <1>2, <1>4, <2>1
    <3>2. Project(row, e)[e.rel] = Project(disk, e)[e.rel]
      BY <3>1, ProjectLocal DEF TypeOK
    <3>3. e.kind \in {"created", "moved"} => e.from = row[e.rel].state
      BY <1>1, ConnectedFrom
    <3> QED
      BY <1>2, <2>1, <3>1, <3>2, <3>3
  <2>2. CASE d # c
    <3>1. req'[d] = req[d] /\ At(d, "saving")
      BY <1>2, <2>2 DEF At
    <3> PICK k \in EventSet : k = req[d].ev
      BY <3>1, ReqTyped DEF At, TypeOK
    <3>2. k.rel # e.rel /\ k.rel \in Releases
      BY <1>1, <2>2, <3>1, OneWriter DEF At, Writing, EventSet
    <3> QED
      BY <1>2, <1>3, <3>1, <3>2 DEF LogInv, Pending
  <2> QED
    BY <2>1, <2>2
<1> QED
  BY <1>5, <1>6 DEF LogInv

\* What neither appends nor writes keeps memory and the log.
LEMMA LogRests ==
  ASSUME TypeOK, LogInv, row' = row, disk' = disk, torn' = torn,
         \A d \in Clients : At(d, "saving")' => At(d, "saving") /\ req'[d] = req[d],
         \A d \in Clients : At(d, "saving") => req'[d] = req[d]
  PROVE  LogInv'
<1>1. Synced'
  BY DEF LogInv, Synced, SavingFor, At
<1>2. Pending'
  BY DEF LogInv, Pending, At
<1> QED
  BY <1>1, <1>2 DEF LogInv

\* A failed write leaves them apart, for its release.
LEMMA LogTears ==
  ASSUME TypeOK, LogInv, NEW c \in Clients, SaveFails(c)
  PROVE  LogInv'
<1>1. /\ row' = row /\ disk' = disk /\ torn' = torn \cup {req[c].ev.rel}
      /\ \A d \in Clients : d # c => req'[d] = req[d]
      /\ req'[c] = Idle
  BY DEF SaveFails, Return, Goto, TypeOK
<1>2. Synced'
  <2> SUFFICES ASSUME NEW r \in Releases \ torn', \A d \in Clients : ~SavingFor(d, r)'
               PROVE  row[r] = disk[r]
    BY <1>1 DEF Synced
  <2>1. \A d \in Clients : ~SavingFor(d, r)
    BY <1>1 DEF SavingFor, At
  <2> QED
    BY <1>1, <2>1 DEF LogInv, Synced
<1>3. Pending'
  BY <1>1 DEF LogInv, Pending, At, Idle
<1> QED
  BY <1>2, <1>3 DEF LogInv

LEMMA LogStep ==
  ASSUME TypeOK, "overlap" \notin Env, MemInv, LogInv, [Next]_vars
  PROVE  LogInv'
<1>1. AllFit /\ Apart /\ \A c \in Clients : Connected(c)
  BY DEF MemInv
<1>2. ASSUME NEW c \in Clients, Step(c) PROVE LogInv'
  <2>1. CASE Append(c)
    BY <1>1, <2>1, LogAppends
  <2>2. CASE Save(c)
    BY <1>1, <2>2, LogSaves
  <2>3. CASE Gate(c) \/ List(c) \/ Supersede(c) \/ ReadTarget(c) \/ Link(c) \/ Audit(c)
    <3>1. row' = row /\ disk' = disk /\ torn' = torn /\ ~At(c, "saving")
      BY <2>3 DEF Gate, List, Supersede, ReadTarget, Link, Audit, At
    <3>2. \A d \in Clients : d # c => req'[d] = req[d]
      BY <1>2, OthersWait
    <3>3. req'[c].pc # "saving"
      BY <2>3 DEF Gate, List, Supersede, ReadTarget, Link, Audit, Goto, Return, TypeOK, Idle,
                  Request, Superseding, Appending
    <3> QED
      BY <3>1, <3>2, <3>3, LogRests DEF At
  <2> QED
    BY <1>2, <2>1, <2>2, <2>3, LogTears DEF Step
<1>3. ASSUME NEW c \in Clients, NEW x \in Calls, Start(c, x) PROVE LogInv'
  <2>1. row' = row /\ disk' = disk /\ torn' = torn /\ req[c] = Idle
    BY <1>3, StartFrame, ReqTyped DEF Begin, At, TypeOK
  <2>2. \A d \in Clients : d # c => req'[d] = req[d]
    BY <1>3, OthersWait
  <2>3. req'[c].pc # "saving"
    BY <1>3, <2>1 DEF Start, Create, Transition, Rollback, StartRollout, RequestApproval, Resolve,
                AttachPolicy, Activate, Prepare, Goto, TypeOK, Appending, Request, Idle
  <2> QED
    BY <2>1, <2>2, <2>3, LogRests DEF At, Idle
<1>4. CASE Restart
  BY <1>4 DEF Restart, LogInv, Synced, Pending, At, Idle
<1>5. CASE UNCHANGED vars
  BY <1>5, LogRests DEF vars, At
<1> QED
  BY <1>2, <1>3, <1>4, <1>5, NextSplit

LEMMA LogInit == Init => LogInv
BY DEF Init, LogInv, Synced, Pending, At, Idle

LEMMA LogHolds ==
  ASSUME "overlap" \notin Env
  PROVE  Spec => [](TypeOK /\ MemInv /\ LogInv)
<1>1. TypeOK /\ MemInv /\ LogInv /\ [Next]_vars => (TypeOK /\ MemInv /\ LogInv)'
  BY TypedStep, MemStep, LogStep
<1> QED
  BY <1>1, TypedInit, MemInit, LogInit, PTL DEF Spec

\* HistoryConnects: the state an event names as the one before is the state of the
\* release when it is appended to memory, and when it is written to the log unless
\* a write about the release failed.
THEOREM HistoryIsConnected ==
  ASSUME "overlap" \notin Env
  PROVE  Spec => []HistoryConnects
<1>1. TypeOK /\ MemInv /\ LogInv => HistoryConnects
  <2> SUFFICES ASSUME TypeOK, MemInv, LogInv, NEW c \in Clients,
                      At(c, "ready") \/ At(c, "saving"),
                      req[c].ev.kind \in {"created", "moved"}
               PROVE  LET e == req[c].ev IN
                      /\ At(c, "ready") => e.from = row[e.rel].state
                      /\ At(c, "saving") /\ e.rel \notin torn => e.from = disk[e.rel].state
    BY DEF HistoryConnects
  <2>1. At(c, "ready") => req[c].ev.from = row[req[c].ev.rel].state
    BY ConnectedFrom DEF MemInv
  <2>2. At(c, "saving") /\ req[c].ev.rel \notin torn => req[c].ev.from = disk[req[c].ev.rel].state
    BY DEF LogInv, Pending
  <2> QED
    BY <2>1, <2>2
<1> QED
  BY <1>1, LogHolds, PTL

-----------------------------------------------------------------------------
(* One active release, where activate alone makes releases active.         *)

\* Requests make calls of the behaviour.
Sent == \A c \in Clients : Busy(c) => req[c].call \in load.calls

LEMMA SentStep ==
  ASSUME TypeOK, MemInv, Sent, [Next]_vars
  PROVE  Sent'
<1>1. ASSUME NEW c \in Clients, Step(c) PROVE Sent'
  <2>1. load' = load
    BY <1>1 DEF Step, Gate, List, Supersede, ReadTarget, Append, Save, SaveFails, Link, Audit
  <2>2. Busy(c) /\ (req'[c] = Idle \/ req'[c].call = req[c].call)
    BY <1>1, FitsStep DEF MemInv
  <2>3. \A d \in Clients : d # c => req'[d] = req[d]
    BY <1>1, OthersWait
  <2> QED
    BY <2>1, <2>2, <2>3 DEF Sent, Busy, At, Idle
<1>2. ASSUME NEW c \in Clients, NEW x \in Calls, x \in load.calls, Start(c, x) PROVE Sent'
  <2>1. req'[c].call = x \/ req'[c] = req[c]
    BY <1>2 DEF Start, Create, Transition, Rollback, StartRollout, RequestApproval, Resolve,
                AttachPolicy, Activate, Prepare, Goto, TypeOK, Appending, Request
  <2>2. \A d \in Clients : d # c => req'[d] = req[d]
    BY <1>2, OthersWait
  <2>3. load' = load
    BY <1>2, StartFrame
  <2> QED
    BY <1>2, <2>1, <2>2, <2>3 DEF Sent, Busy, At
<1>3. CASE Restart
  BY <1>3 DEF Restart, Sent, Busy, At, Idle
<1>4. CASE UNCHANGED vars
  BY <1>4 DEF vars, Sent, Busy, At
<1> QED
  BY <1>1, <1>2, <1>3, <1>4, NextSplit

\* OneActive, of memory or of the log.
One(rows) ==
  \A r, s \in Releases :
    /\ AssetOf[r] = AssetOf[s] /\ Governed(AssetOf[r]) /\ Whole(AssetOf[r])
    /\ rows[r].state = "active" /\ rows[s].state = "active"
    => r = s

\* Only the last event of an activation makes a release of such an asset active.
LEMMA GovernedEvents ==
  ASSUME NEW x \in ReqSet, Fits(x), Writing(x), x.call \in load.calls,
         Governed(AssetOf[x.ev.rel])
  PROVE  /\ x.ev.kind # "rollout"
         /\ x.ev.kind = "moved" /\ x.ev.to = "active" =>
              x.call.op = "activate" /\ x.ev.rel = x.call.rel
<1>1. x.call \in Calls /\ x.ev \in EventSet /\ AssetOf[x.ev.rel] \in AssetsOf(x.call)
  BY ReqTyped, EventOfAsset DEF Writing
<1>2. /\ x.call.op \notin {"rollout", "rollback"}
      /\ x.call.op = "transition" => x.call.arg # "active"
  BY <1>1 DEF Governed
<1>3. x.call.op \in {"create", "activate", "request", "transition", "resolve"}
  BY <1>1, <1>2, CallTyped DEF Fits
<1> QED
  BY <1>1, <1>2, <1>3 DEF Fits, Rival

\* An event that makes no release active.
LEMMA ProjectCalm ==
  ASSUME NEW rows \in [Releases -> RowSet], NEW e \in EventSet, e.kind # "rollout",
         ~(e.kind = "moved" /\ e.to = "active"), NEW r \in Releases,
         Project(rows, e)[r].state = "active"
  PROVE  rows[r].state = "active"
<1>1. e.rel \in Releases /\ e.kind \in {"created", "moved", "requested", "resolved"}
  BY DEF EventSet
<1>2. r # e.rel => Project(rows, e)[r] = rows[r]
  BY <1>1 DEF Project
<1>3. e.kind = "moved" /\ rows[e.rel] = NoRow => Project(rows, e) = rows
  BY DEF Project
<1> QED
  BY <1>1, <1>2, <1>3, ProjectMoved

LEMMA OneAppend ==
  ASSUME TypeOK, Sent, AllListed, NEW c \in Clients, Fits(req[c]), Phase(c), Connected(c), Append(c),
         One(row)
  PROVE  One(row)'
<1> DEFINE x == req[c]
<1>1. x \in ReqSet /\ x.pc = "ready"
  BY DEF Append, TypeOK, At
<1> PICK e \in EventSet : e = x.ev
  BY <1>1, ReqTyped
<1>2. /\ row' = Project(row, e) /\ e.rel \in Releases
      /\ load' = load /\ torn' = torn /\ x.call \in load.calls
  BY <1>1 DEF Append, EventSet, Sent, Busy, At
<1>3. \A r \in Releases : r # e.rel => row'[r] = row[r]
  BY <1>2, ProjectFrame DEF TypeOK, Grants
<1>4. CASE ~Governed(AssetOf[e.rel])
  BY <1>2, <1>3, <1>4 DEF One, Governed, Whole
<1>5. CASE Governed(AssetOf[e.rel]) /\ e.kind = "moved" /\ e.to = "active"
  <2>1. x.call.op = "activate" /\ e.rel = x.call.rel
    BY <1>1, <1>2, <1>5, GovernedEvents DEF Writing
  <2>2. Active(row, AssetOf[e.rel]) = {}
    BY <1>1, <1>5, <2>1 DEF Phase, Covers
  <2> QED
    BY <1>2, <1>3, <2>2 DEF One, Active, Governed, Whole
<1>6. CASE Governed(AssetOf[e.rel]) /\ ~(e.kind = "moved" /\ e.to = "active")
  <2>1. e.kind # "rollout"
    BY <1>1, <1>2, <1>6, GovernedEvents DEF Writing
  <2>2. \A r \in Releases : row'[r].state = "active" => row[r].state = "active"
    BY <1>2, <1>6, <2>1, ProjectCalm DEF TypeOK
  <2> QED
    BY <1>2, <2>2 DEF One, Governed, Whole
<1> QED
  BY <1>4, <1>5, <1>6

LEMMA OneSave ==
  ASSUME TypeOK, AllFit, Apart, LogInv, NEW c \in Clients, Save(c), One(row), One(disk)
  PROVE  One(disk)'
<1> PICK e \in EventSet : e = req[c].ev
  BY ReqTyped DEF Save, At, TypeOK
<1>1. \A r \in Releases \ torn : AssetOf[r] = AssetOf[e.rel] => disk'[r] = row[r]
  BY SaveSyncs
<1>2. \A r \in Releases : AssetOf[r] # AssetOf[e.rel] => disk'[r] = disk[r]
  BY ProjectFrame DEF Save, TypeOK, Grants
<1>3. load' = load /\ torn' = torn
  BY DEF Save
<1> SUFFICES ASSUME NEW r \in Releases, NEW s \in Releases,
                    AssetOf[r] = AssetOf[s], Governed(AssetOf[r]), Whole(AssetOf[r]),
                    disk'[r].state = "active", disk'[s].state = "active"
             PROVE  r = s
  BY <1>3 DEF One, Governed, Whole
<1>4. CASE AssetOf[r] = AssetOf[e.rel]
  <2>1. r \notin torn /\ s \notin torn
    BY DEF Whole
  <2> QED
    BY <1>1, <1>4, <2>1 DEF One
<1>5. CASE AssetOf[r] # AssetOf[e.rel]
  BY <1>2, <1>5 DEF One
<1> QED
  BY <1>4, <1>5

\* What leaves the releases alone.
LEMMA OneRests ==
  ASSUME row' = row, disk' = disk, load' = load, torn \subseteq torn', One(row), One(disk)
  PROVE  One(row)' /\ One(disk)'
BY DEF One, Governed, Whole

LEMMA OneStep ==
  ASSUME TypeOK, Sent, AllListed, MemInv, LogInv, One(row), One(disk), [Next]_vars
  PROVE  One(row)' /\ One(disk)'
<1>1. AllFit /\ Apart /\ \A c \in Clients : Fits(req[c]) /\ Phase(c) /\ Connected(c)
  BY DEF MemInv, AllFit
<1>2. ASSUME NEW c \in Clients, Step(c) PROVE One(row)' /\ One(disk)'
  <2>1. CASE Append(c)
    BY <1>1, <2>1, OneAppend DEF Append, One, Governed, Whole
  <2>2. CASE Save(c)
    BY <1>1, <2>2, OneSave DEF Save, One, Governed, Whole
  <2>3. CASE Gate(c) \/ List(c) \/ Supersede(c) \/ ReadTarget(c) \/ SaveFails(c) \/ Link(c)
             \/ Audit(c)
    <3>1. row' = row /\ disk' = disk /\ load' = load /\ torn \subseteq torn'
      BY <2>3 DEF Gate, List, Supersede, ReadTarget, SaveFails, Link, Audit
    <3> QED
      BY <3>1, OneRests
  <2> QED
    BY <1>2, <2>1, <2>2, <2>3 DEF Step
<1>3. ASSUME NEW c \in Clients, NEW x \in Calls, Start(c, x) PROVE One(row)' /\ One(disk)'
  BY <1>3, StartFrame, OneRests
<1>4. CASE Restart
  BY <1>4 DEF Restart, One, Governed, Whole
<1>5. CASE UNCHANGED vars
  BY <1>5, OneRests DEF vars
<1> QED
  BY <1>2, <1>3, <1>4, <1>5, NextSplit

\* OneActive: an asset whose releases become active by activate alone has one active
\* release at most, whatever the restarts and the failures about other assets.
THEOREM OneIsActive ==
  ASSUME "overlap" \notin Env, AllListed
  PROVE  Spec => []OneActive
<1> DEFINE Inv == TypeOK /\ MemInv /\ LogInv
           Both == Sent /\ One(row) /\ One(disk)
<1>1. Init => Both
  BY DEF Init, One, NoRow, Sent, Busy, At, Idle
<1>2. Inv /\ Both /\ [Next]_vars => Both'
  BY OneStep, SentStep
<1>3. Both => OneActive
  BY DEF One, OneActive
<1>4. Spec => []Inv
  BY LogHolds
<1> QED
  <2> HIDE DEF Inv, Both
  <2> QED
    BY <1>1, <1>2, <1>3, <1>4, PTL DEF Spec

-----------------------------------------------------------------------------
(* The split of the selectors.                                             *)

LEMMA LeastNatural ==
  ASSUME NEW T, T \subseteq Nat, T # {}
  PROVE  \E x \in T : \A y \in T : x <= y
<1> DEFINE R == OpToRel(<, Nat)
<1>1. IsWellFoundedOn(R, Nat)
  BY NatLessThanWellFounded
<1>2. \A x, y \in Nat : y < x => <<y, x>> \in R
  BY DEF OpToRel
<1> HIDE DEF R
<1>3. PICK x \in T : \A y \in T : ~ (<<y, x>> \in R)
  BY <1>1, WFMin
<1>4. \A y \in T : x \in Nat /\ y \in Nat /\ ~(y < x)
  BY <1>2, <1>3
<1> QED
  BY <1>4

\* A set that holds 0 and each successor holds every natural number up to n.
LEMMA UpToHolds ==
  ASSUME NEW n \in Nat, NEW P, 0 \in P, \A i \in 1..n : i - 1 \in P => i \in P
  PROVE  \A i \in 0..n : i \in P
<1> DEFINE T == {i \in 0..n : i \notin P}
<1> SUFFICES ASSUME T # {} PROVE FALSE
  OBVIOUS
<1>1. PICK x \in T : \A y \in T : x <= y
  <2>1. T \subseteq Nat
    OBVIOUS
  <2> QED
    BY <2>1, LeastNatural
<1>2. x \in 1..n /\ x - 1 \in 0..n /\ ~(x <= x - 1)
  BY <1>1
<1>3. x - 1 \in P
  BY <1>1, <1>2
<1> QED
  BY <1>1, <1>2, <1>3

\* Of some releases, the first and the last by place.
LEMMA FirstPlace ==
  ASSUME NEW s \in SUBSET Releases, s # {}
  PROVE  \E r \in s : \A x \in s : Place[r] <= Place[x]
<1> DEFINE T == {Place[x] : x \in s}
<1>1. T \subseteq Nat /\ T # {}
  BY PromptAssumption
<1>2. PICK m \in T : \A n \in T : m <= n
  <2> HIDE DEF T
  <2> QED
    BY <1>1, LeastNatural
<1> QED
  BY <1>2

LEMMA LastPlace ==
  ASSUME NEW s \in SUBSET Releases, s # {}
  PROVE  \E r \in s : \A x \in s : Place[x] <= Place[r]
<1> DEFINE T == {Places - Place[x] : x \in s}
<1>1. T \subseteq Nat /\ T # {}
  BY PromptAssumption
<1>2. PICK r \in s : \A x \in s : Places - Place[r] <= Places - Place[x]
  <2>1. PICK m \in T : \A n \in T : m <= n
    <3> HIDE DEF T
    <3> QED
      BY <1>1, LeastNatural
  <2> QED
    BY <2>1
<1>3. \A x \in s : Place[x] \in Int /\ Place[r] \in Int /\ Places \in Int
  BY PromptAssumption
<1> QED
  BY <1>2, <1>3

LEMMA SumBounds ==
  ASSUME NEW x \in 0..MaxByte, NEW y \in Nat
  PROVE  /\ Sum(x, y) \in 0..MaxByte /\ x <= Sum(x, y)
         /\ Sum(x, y) < MaxByte => Sum(x, y) = x + y
BY PromptAssumption DEF Sum

\* Running sums exist.
Runs(k, n, s) ==
  /\ k \in [0..n -> 0..MaxByte] /\ k[0] = 0
  /\ \A i \in 1..n : k[i] = Sum(k[i - 1], s[i])

LEMMA RunsExist ==
  ASSUME NEW s \in [1..Places -> Nat]
  PROVE  \E k : Runs(k, Places, s)
<1> DEFINE P == {m \in 0..Places : \E k : Runs(k, m, s)}
<1>1. 0 \in P
  <2>1. Runs([i \in 0..0 |-> 0], 0, s)
    BY PromptAssumption DEF Runs
  <2> QED
    BY <2>1, PromptAssumption
<1>2. ASSUME NEW m \in 1..Places, m - 1 \in P PROVE m \in P
  <2>1. PICK k : Runs(k, m - 1, s)
    BY <1>2
  <2> DEFINE last == Sum(k[m - 1], s[m])
             j == [i \in 0..m |-> IF i = m THEN last ELSE k[i]]
  <2>2. /\ k \in [0..(m - 1) -> 0..MaxByte] /\ k[0] = 0
        /\ \A i \in 1..(m - 1) : k[i] = Sum(k[i - 1], s[i])
    BY <2>1 DEF Runs
  <2>3. /\ m \in Nat /\ m - 1 \in 0..(m - 1) /\ k[m - 1] \in 0..MaxByte
        /\ \A i \in 0..m : i # m => i \in 0..(m - 1)
    BY <2>2, PromptAssumption
  <2>4. last \in 0..MaxByte
    BY <2>3, SumBounds
  <2> HIDE DEF last
  <2>5. j \in [0..m -> 0..MaxByte] /\ j[0] = 0
    BY <2>2, <2>3, <2>4
  <2>6. ASSUME NEW i \in 1..m PROVE j[i] = Sum(j[i - 1], s[i])
    <3>1. i - 1 \in 0..m /\ i - 1 # m /\ j[i - 1] = k[i - 1]
      BY <2>3
    <3>2. CASE i = m
      BY <3>1, <3>2 DEF last
    <3>3. CASE i # m
      <4>1. i \in 1..(m - 1) /\ j[i] = k[i]
        BY <2>3, <3>3
      <4> QED
        BY <2>2, <3>1, <4>1
    <3> QED
      BY <3>2, <3>3
  <2>7. Runs(j, m, s)
    BY <2>5, <2>6 DEF Runs
  <2>8. m \in 0..Places
    BY PromptAssumption
  <2> QED
    BY <2>7, <2>8
<1>3. \A m \in 0..Places : m \in P
  <2> HIDE DEF P
  <2> QED
    BY <1>1, <1>2, UpToHolds, PromptAssumption
<1>4. Places \in 0..Places
  BY PromptAssumption
<1> QED
  BY <1>3, <1>4

LEMMA ShareTyped ==
  ASSUME TypeOK, NEW a
  PROVE  \A n \in 1..Places : ShareAt(a, n) \in Nat
<1>1. \A r \in Active(row, a) : row[r] \in RowSet /\ row[r] # NoRow
  BY DEF Active, NoRow, TypeOK
<1>2. \A r \in Active(row, a) : row[r].pct \in 0..NoPct
  BY <1>1 DEF RowSet
<1>3. \A r \in Active(row, a) : Share(r) \in Nat
  BY <1>2, PromptAssumption DEF Share, NoPct
<1> QED
  BY <1>3 DEF ShareAt

\* Upto is the running sum of the shares.
Sums(k, a) ==
  [n \in 0..Places |-> IF n = 0 THEN 0 ELSE Sum(k[n - 1], ShareAt(a, n))]

LEMMA UptoRuns ==
  ASSUME TypeOK, NEW a
  PROVE  Runs(Upto(a), Places, [n \in 1..Places |-> ShareAt(a, n)])
<1> DEFINE s == [n \in 1..Places |-> ShareAt(a, n)]
<1>1. s \in [1..Places -> Nat]
  BY ShareTyped
<1>2. \A n \in 1..Places : s[n] = ShareAt(a, n)
  OBVIOUS
<1> HIDE DEF s
<1>3. PICK h : Runs(h, Places, s)
  BY <1>1, RunsExist
<1>4. h = Sums(h, a)
  <2>1. h = [n \in 0..Places |-> h[n]]
    BY <1>3 DEF Runs
  <2>2. \A n \in 0..Places : n # 0 => n \in 1..Places
    BY PromptAssumption
  <2>3. \A n \in 0..Places : h[n] = IF n = 0 THEN 0 ELSE Sum(h[n - 1], ShareAt(a, n))
    BY <1>2, <1>3, <2>2 DEF Runs
  <2> QED
    BY <2>1, <2>3 DEF Sums
<1> DEFINE k == CHOOSE f : f = Sums(f, a)
<1>5. k = Sums(k, a)
  BY <1>4
<1>6. Upto(a) = k
  BY DEF Upto, Sums
<1> HIDE DEF k
<1>7. /\ k[0] = 0 /\ DOMAIN k = 0..Places /\ k = [n \in 0..Places |-> k[n]]
      /\ \A n \in 1..Places : k[n] = Sum(k[n - 1], s[n])
  <2>1. 0 \in 0..Places /\ \A n \in 1..Places : n \in 0..Places /\ n # 0
    BY PromptAssumption
  <2> QED
    BY <1>2, <1>5, <2>1 DEF Sums
<1>8. \A n \in 0..Places : k[n] \in 0..MaxByte
  <2> DEFINE P == {n \in 0..Places : k[n] \in 0..MaxByte}
  <2>1. 0 \in P
    BY <1>7, PromptAssumption
  <2>2. ASSUME NEW n \in 1..Places, n - 1 \in P PROVE n \in P
    <3>1. k[n] \in 0..MaxByte
      BY <1>1, <1>7, <2>2, SumBounds
    <3> QED
      BY <3>1, PromptAssumption
  <2> HIDE DEF P
  <2>3. \A n \in 0..Places : n \in P
    BY <2>1, <2>2, UpToHolds, PromptAssumption
  <2> QED
    BY <2>3 DEF P
<1>9. k \in [0..Places -> 0..MaxByte]
  BY <1>7, <1>8
<1> QED
  BY <1>6, <1>7, <1>9 DEF Runs, s

\* The running sum grows, and stays exact as long as it is below the maximum.
LEMMA UptoGrows ==
  ASSUME TypeOK, NEW a, NEW n \in 0..Places
  PROVE  \A m \in 0..n : Upto(a)[m] <= Upto(a)[n]
<1> PICK u : u = Upto(a)
  OBVIOUS
<1>1. Runs(u, Places, [i \in 1..Places |-> ShareAt(a, i)])
  BY UptoRuns
<1>2. /\ \A i \in 0..Places : u[i] \in 0..MaxByte
      /\ \A i \in 1..Places : u[i] = Sum(u[i - 1], ShareAt(a, i))
  BY <1>1 DEF Runs
<1> DEFINE P == {i \in 0..Places : \A m \in 0..i : u[m] <= u[i]}
<1>3. 0 \in P
  BY <1>2, PromptAssumption
<1>4. ASSUME NEW i \in 1..Places, i - 1 \in P PROVE i \in P
  <2>1. i \in 0..Places /\ i - 1 \in 0..Places /\ i \in Nat
    BY PromptAssumption
  <2>2. u[i - 1] <= u[i]
    BY <1>2, <2>1, ShareTyped, SumBounds
  <2>3. ASSUME NEW m \in 0..i PROVE u[m] <= u[i]
    <3>1. m = i \/ m \in 0..(i - 1)
      BY <2>1
    <3>2. m \in 0..Places /\ u[m] \in Int /\ u[i - 1] \in Int /\ u[i] \in Int
      BY <1>2, <2>1, PromptAssumption
    <3>3. m \in 0..(i - 1) => u[m] <= u[i - 1]
      BY <1>4
    <3> QED
      BY <2>2, <3>1, <3>2, <3>3
  <2> QED
    BY <2>1, <2>3
<1>5. \A i \in 0..Places : i \in P
  <2> HIDE DEF P
  <2> QED
    BY <1>3, <1>4, UpToHolds, PromptAssumption
<1> QED
  BY <1>5

\* The release at the head of those ahead of a bucket.
LEMMA RouteHead ==
  ASSUME NEW a, NEW b, NEW r \in Releases,
         \E x \in Active(row, a) : row[x].pct # NoPct,
         r \in AheadOf(a, b), \A x \in AheadOf(a, b) : Place[r] <= Place[x]
  PROVE  Route(a, b) = r
<1> DEFINE s == AheadOf(a, b)
<1>1. s \subseteq Releases
  BY DEF AheadOf, Active
<1>2. \A q \in s : (\A x \in s : Place[q] <= Place[x]) => q = r
  <2> SUFFICES ASSUME NEW q \in s, \A x \in s : Place[q] <= Place[x] PROVE q = r
    OBVIOUS
  <2>1. Place[q] <= Place[r] /\ Place[r] <= Place[q] /\ Place[q] \in Int /\ Place[r] \in Int
    BY <1>1, PromptAssumption
  <2> QED
    BY <1>1, <2>1, PromptAssumption
<1> HIDE DEF s
<1>3. r \in s /\ \A x \in s : Place[r] <= Place[x]
  BY DEF s
<1>4. (CHOOSE q \in s : \A x \in s : Place[q] <= Place[x]) = r
  BY <1>2, <1>3
<1> QED
  BY <1>3, <1>4 DEF Route, s

\* Beside a release that comes later, a release is only served a bucket it is ahead of.
LEMMA RouteBelow ==
  ASSUME NEW a, NEW b, NEW r \in Releases, Route(a, b) = r,
         \E x \in Active(row, a) : row[x].pct # NoPct,
         \E x \in Active(row, a) : Place[r] < Place[x]
  PROVE  r \in AheadOf(a, b) /\ \A x \in AheadOf(a, b) : Place[r] <= Place[x]
<1> DEFINE s == AheadOf(a, b)
           all == Active(row, a)
<1>1. s \in SUBSET Releases /\ all \in SUBSET Releases
  BY DEF AheadOf, Active
<1>2. CASE s # {}
  <2>1. r = CHOOSE q \in s : \A x \in s : Place[q] <= Place[x]
    BY <1>2 DEF Route
  <2>2. \E q \in s : \A x \in s : Place[q] <= Place[x]
    BY <1>1, <1>2, FirstPlace
  <2> HIDE DEF s
  <2>3. r \in s /\ \A x \in s : Place[r] <= Place[x]
    BY <2>1, <2>2
  <2> QED
    BY <2>3 DEF s
<1>3. CASE s = {}
  <2>1. r = CHOOSE q \in all : \A x \in all : Place[x] <= Place[q]
    BY <1>3 DEF Route
  <2>2. all # {} /\ \E x \in all : Place[r] < Place[x]
    OBVIOUS
  <2> HIDE DEF all
  <2>3. \E q \in all : \A x \in all : Place[x] <= Place[q]
    BY <1>1, <2>2, LastPlace
  <2>4. \A x \in all : Place[x] <= Place[r]
    BY <2>1, <2>3
  <2>5. \A x \in all : Place[x] \in Int /\ Place[r] \in Int
    BY <1>1, PromptAssumption
  <2> QED
    BY <2>2, <2>4, <2>5
<1> QED
  BY <1>2, <1>3

\* A bucket below a running sum has an active release ahead of it.
LEMMA SomeAhead ==
  ASSUME TypeOK, NEW a, NEW b \in Nat, NEW n \in 0..Places, b < Upto(a)[n]
  PROVE  \E x \in AheadOf(a, b) : Place[x] <= n
<1> PICK u : u = Upto(a)
  OBVIOUS
<1>1. /\ \A i \in 0..Places : u[i] \in 0..MaxByte
      /\ u[0] = 0 /\ \A i \in 1..Places : u[i] = Sum(u[i - 1], ShareAt(a, i))
  BY UptoRuns DEF Runs
<1> DEFINE T == {i \in 0..n : b < u[i]}
<1>2. n \in Nat /\ n <= Places /\ Places \in Nat
  BY PromptAssumption
<1>3. T \subseteq Nat /\ T # {}
  BY <1>2
<1>4. PICK i \in T : \A j \in T : i <= j
  <2> HIDE DEF T
  <2> QED
    BY <1>3, LeastNatural
<1>5. i \in 1..Places /\ i - 1 \in 0..n /\ i - 1 \in 0..Places /\ i <= n
  BY <1>1, <1>2
<1>6. u[i - 1] <= b /\ b < u[i]
  BY <1>1, <1>4, <1>5
<1>7. PICK x \in Active(row, a) : Place[x] = i
  <2> SUFFICES ASSUME ~(\E x \in Active(row, a) : Place[x] = i) PROVE FALSE
    OBVIOUS
  <2>1. ShareAt(a, i) = 0
    BY DEF ShareAt
  <2>2. Sum(u[i - 1], 0) = u[i - 1]
    BY <1>1, <1>5, PromptAssumption DEF Sum
  <2> QED
    BY <1>1, <1>5, <1>6, <2>1, <2>2
<1> QED
  BY <1>5, <1>6, <1>7 DEF AheadOf

LEMMA SplitExact == TypeOK => SplitIsExact
<1> SUFFICES ASSUME TypeOK, NEW r \in Releases, r \in Active(row, AssetOf[r]),
                    \E x \in Active(row, AssetOf[r]) : Place[r] < Place[x],
                    \A x \in Active(row, AssetOf[r]) : row[x].pct # NoPct,
                    Upto(AssetOf[r])[Places] <= Buckets
             PROVE  Cardinality(Served(AssetOf[r], r)) = row[r].pct
  BY DEF SplitIsExact
<1> PICK a : a = AssetOf[r]
  OBVIOUS
<1> PICK u : u = Upto(a)
  OBVIOUS
<1> PICK p \in 1..Places : p = Place[r]
  BY PromptAssumption
<1>1. /\ \A i \in 0..Places : u[i] \in 0..MaxByte
      /\ u[p] = Sum(u[p - 1], ShareAt(a, p))
  BY UptoRuns DEF Runs
<1>2. /\ p \in Nat /\ p - 1 \in 0..Places /\ p \in 0..Places /\ Places \in 0..Places
      /\ MaxByte \in Nat /\ Buckets \in Nat /\ Buckets < MaxByte
  BY PromptAssumption
<1>3. u[p] <= Buckets
  <2>1. u[p] <= u[Places]
    BY <1>2, UptoGrows
  <2> QED
    BY <1>1, <1>2, <2>1
<1>4. ShareAt(a, p) = row[r].pct /\ row[r].pct \in Nat
  <2>1. \A x \in Active(row, a) : Place[x] = p => x = r
    BY PromptAssumption DEF Active
  <2>2. (CHOOSE x \in Active(row, a) : Place[x] = p) = r
    BY <2>1
  <2>3. ShareAt(a, p) = row[r].pct
    BY <2>2 DEF ShareAt, Share
  <2> QED
    BY <1>2, <2>3, ShareTyped
<1>5. u[p] = u[p - 1] + row[r].pct
  <2>1. u[p - 1] \in 0..MaxByte /\ u[p] \in 0..MaxByte /\ ShareAt(a, p) \in Nat
    BY <1>1, <1>2, <1>4
  <2>2. u[p] < MaxByte
    BY <1>2, <1>3, <2>1
  <2>3. u[p] = u[p - 1] + ShareAt(a, p)
    BY <1>1, <2>1, <2>2, SumBounds
  <2> QED
    BY <1>4, <2>3
<1>6. ASSUME NEW b \in 0..Buckets - 1 PROVE Route(a, b) = r <=> u[p - 1] <= b /\ b < u[p]
  <2>1. b \in Nat /\ AheadOf(a, b) \subseteq Active(row, a)
    BY <1>2 DEF AheadOf
  <2>2. ASSUME u[p - 1] <= b, b < u[p] PROVE Route(a, b) = r
    <3>1. r \in AheadOf(a, b)
      BY <2>2 DEF AheadOf
    <3>2. ASSUME NEW x \in AheadOf(a, b) PROVE p <= Place[x]
      <4>1. Place[x] \in 1..Places /\ b < u[Place[x]]
        BY <2>1, PromptAssumption DEF AheadOf, Active
      <4>2. Place[x] \in 0..(p - 1) => u[Place[x]] <= u[p - 1]
        BY <1>2, UptoGrows
      <4>3. u[Place[x]] \in Int /\ u[p - 1] \in Int
        BY <1>1, <1>2, <4>1
      <4> QED
        BY <1>2, <2>1, <2>2, <4>1, <4>2, <4>3
    <3> QED
      BY <3>1, <3>2, RouteHead
  <2>3. ASSUME Route(a, b) = r PROVE u[p - 1] <= b /\ b < u[p]
    <3>1. r \in AheadOf(a, b) /\ \A x \in AheadOf(a, b) : p <= Place[x]
      BY <2>3, RouteBelow
    <3>2. b < u[p]
      BY <3>1 DEF AheadOf
    <3>3. ASSUME b < u[p - 1] PROVE FALSE
      <4>1. PICK x \in AheadOf(a, b) : Place[x] <= p - 1
        BY <1>2, <2>1, <3>3, SomeAhead
      <4>2. Place[x] \in Int
        BY <2>1, PromptAssumption DEF Active
      <4> QED
        BY <1>2, <3>1, <4>1, <4>2
    <3> QED
      BY <1>1, <1>2, <2>1, <3>2, <3>3
  <2> QED
    BY <2>2, <2>3
<1>7. Served(a, r) = u[p - 1]..(u[p] - 1)
  <2>1. u[p - 1] \in Nat /\ u[p] \in Nat
    BY <1>1, <1>2
  <2>2. \A b : b \in Served(a, r) <=> b \in 0..Buckets - 1 /\ u[p - 1] <= b /\ b < u[p]
    BY <1>6 DEF Served
  <2>3. \A b : b \in 0..Buckets - 1 /\ u[p - 1] <= b /\ b < u[p] <=> b \in u[p - 1]..(u[p] - 1)
    BY <1>2, <1>3, <2>1
  <2> QED
    BY <2>2, <2>3
<1>8. Cardinality(u[p - 1]..(u[p] - 1)) = row[r].pct
  <2>1. u[p - 1] \in Int /\ u[p] - 1 \in Int
    BY <1>1, <1>2
  <2>2. Cardinality(u[p - 1]..(u[p] - 1)) =
          IF u[p - 1] > u[p] - 1 THEN 0 ELSE (u[p] - 1) - u[p - 1] + 1
    BY <2>1, FS_Interval
  <2> QED
    BY <1>4, <1>5, <2>1, <2>2
<1> QED
  BY <1>7, <1>8

\* SplitIsExact: with percentages that do not exceed the whole, each release but the
\* last is served to as many buckets as its percentage says.
THEOREM SplitStaysExact == Spec => []SplitIsExact
BY SplitExact, PromptTypeCorrect, PTL
=============================================================================
