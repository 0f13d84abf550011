---------------------------- MODULE SandboxProofs ----------------------------
(***************************************************************************)
(* Theorems about Sandbox, for every set of threads and runs, every set of *)
(* operations, every environment and every bound on revisions and faults;  *)
(* and about its composition with RunRecovery, for every set of runs,      *)
(* threads and approvals.                                                  *)
(***************************************************************************)
EXTENDS RunRecovery, TLAPS

-----------------------------------------------------------------------------
(* Types of what the steps are made of.                                    *)

Files == [path : BOOLEAN, rev : Revs \cup {NoRev}, meta : SandboxStates \cup {NoMeta}]

Sidecars == [rev : Revs \cup {NoRev}, drifted : BOOLEAN, present : BOOLEAN]

LEMMA RevFacts ==
  /\ 0 \in Revs /\ NoRev \notin Revs
  /\ \A v \in Revs : v < MaxRev => v + 1 \in Revs
BY SandboxAssumption DEF Revs, NoRev

\* HEAD is a revision unless the clone is missing.
LEMMA HeadTyped ==
  ASSUME TypeOK
  PROVE  Head \in Revs \cup {NoRev}
BY DEF TypeOK, Head

LEMMA SessionTyped ==
  ASSUME NEW s \in SandboxStates, NEW a \in BOOLEAN,
         NEW m \in SandboxStates \cup {NoMeta}, NEW l \in BOOLEAN
  PROVE  Session(s, a, m, l) \in Sessions
BY DEF Session, Sessions

\* The fields of a session, whether there is one or not.
LEMMA SessionFields ==
  ASSUME TypeOK, NEW r \in Runs
  PROVE  /\ session[r] \in Sessions
         /\ session[r].state \in SandboxStates \cup {"none"}
         /\ session[r].sandbox \in BOOLEAN /\ session[r].limits \in BOOLEAN
         /\ session[r].meta \in SandboxStates \cup {NoMeta}
<1>1. session[r] \in Sessions
  BY DEF TypeOK
<1>2. CASE session[r] = NoSession
  BY <1>1, <1>2 DEF NoSession, Session, NoMeta
<1>3. CASE session[r] # NoSession
  BY <1>1, <1>3 DEF Sessions
<1> QED
  BY <1>2, <1>3

\* A session that changes its state stays a session.
LEMMA StateChanged ==
  ASSUME TypeOK, NEW r \in Runs, NEW s \in SandboxStates
  PROVE  [session[r] EXCEPT !.state = s] \in Sessions
BY SessionFields DEF Sessions, NoSession, Session

LEMMA SessionsUpdated ==
  ASSUME TypeOK, NEW r \in Runs, NEW s \in Sessions, SetSession(r, s)
  PROVE  session' \in [Runs -> Sessions]
BY DEF TypeOK, SetSession

LEMMA ThreadsUpdated ==
  ASSUME TypeOK, NEW t \in Threads, NEW c \in ThreadSet, Goto(t, c)
  PROVE  thread' \in [Threads -> ThreadSet]
BY DEF TypeOK, Goto

\* What a thread holds at each point of its call.
LEMMA CallFields ==
  ASSUME TypeOK, NEW t \in Threads
  PROVE  /\ thread[t] \in ThreadSet
         /\ thread[t].pc # "idle" => thread[t].run \in Runs
         /\ thread[t].pc \in {"install", "registry"} => thread[t].rev \in Revs
         /\ thread[t].pc = "persist" => thread[t].meta \in SandboxStates \cup {NoMeta}
         /\ thread[t].pc = "destroy" => thread[t].preserve \in BOOLEAN
         /\ thread[t].pc = "idle" => thread[t] = Idle
BY DEF TypeOK, ThreadSet, Idle

LEMMA CallTyped ==
  /\ Idle \in ThreadSet
  /\ \A r \in Runs :
       /\ \A pc \in {"claim", "provision", "ready", "beat", "checkpointed", "forget",
                     "destroyed"} : Call(pc, r) \in ThreadSet
       /\ \A m \in SandboxStates \cup {NoMeta} : SnapCall(r, m) \in ThreadSet
       /\ \A v \in Revs, pc \in {"install", "registry"} :
            [pc |-> pc, run |-> r, rev |-> v] \in ThreadSet
       /\ \A p \in BOOLEAN : [pc |-> "destroy", run |-> r, preserve |-> p] \in ThreadSet
BY DEF ThreadSet, Call, SnapCall

LEMMA StatesTyped ==
  {"Initial", "Provisioning", "Ready", "Active", "Checkpointed", "Preserved",
   "Destroying", "Destroyed", "Failed"} \subseteq SandboxStates
BY DEF SandboxStates

LEMMA FaultCounted ==
  ASSUME TypeOK, faults < MaxFaults, faults' = faults + 1
  PROVE  faults' \in 0 .. MaxFaults
BY SandboxAssumption DEF TypeOK

-----------------------------------------------------------------------------
(* Type correctness.                                                       *)

LEMMA DiskUpdated ==
  ASSUME TypeOK, NEW r \in Runs, NEW f \in Files, disk' = [disk EXCEPT ![r] = f]
  PROVE  disk' \in [Runs -> Files]
BY DEF TypeOK, Files

LEMMA FilesChanged ==
  ASSUME TypeOK, NEW r \in Runs,
         NEW p \in BOOLEAN, NEW v \in Revs \cup {NoRev},
         NEW m \in SandboxStates \cup {NoMeta}
  PROVE  /\ disk \in [Runs -> Files] /\ disk[r] \in Files
         /\ NoFiles \in Files
         /\ [disk EXCEPT ![r].path = p] \in [Runs -> Files]
         /\ [disk EXCEPT ![r].meta = m] \in [Runs -> Files]
         /\ [disk EXCEPT ![r].path = p, ![r].rev = v] \in [Runs -> Files]
         /\ [disk EXCEPT ![r].meta = m, ![r].path = p] \in [Runs -> Files]
         /\ [disk EXCEPT ![r] = NoFiles] \in [Runs -> Files]
<1>1. disk \in [Runs -> Files] /\ disk[r] \in Files
  BY DEF TypeOK, Files
<1>2. NoFiles \in Files
  BY DEF NoFiles, Files
<1>3. \A f \in Files : [disk EXCEPT ![r] = f] \in [Runs -> Files]
  BY <1>1
<1>4. /\ [disk[r] EXCEPT !.path = p] \in Files
      /\ [disk[r] EXCEPT !.meta = m] \in Files
      /\ [disk[r] EXCEPT !.path = p, !.rev = v] \in Files
      /\ [disk[r] EXCEPT !.meta = m, !.path = p] \in Files
  BY <1>1 DEF Files
<1>5. /\ [disk EXCEPT ![r].path = p] \in [Runs -> Files]
      /\ [disk EXCEPT ![r].meta = m] \in [Runs -> Files]
  BY <1>1, <1>4
<1>6. [disk EXCEPT ![r].path = p, ![r].rev = v] \in [Runs -> Files]
  BY <1>1, <1>4
<1>7. [disk EXCEPT ![r].meta = m, ![r].path = p] \in [Runs -> Files]
  BY <1>1, <1>4
<1> QED
  BY <1>1, <1>2, <1>3, <1>5, <1>6, <1>7

\* The part of the state that a step of a call may change.
LEMMA TypeOfCall ==
  ASSUME TypeOK,
         session' \in [Runs -> Sessions], disk' \in [Runs -> Files],
         registry' \in [Runs -> Sidecars], clone' \in [present : BOOLEAN, rev : Revs],
         thread' \in [Threads -> ThreadSet], faults' \in 0 .. MaxFaults,
         boot' = boot
  PROVE  TypeOK'
BY DEF TypeOK, Files, Sidecars

LEMMA TypeParts ==
  ASSUME TypeOK
  PROVE  /\ session \in [Runs -> Sessions] /\ disk \in [Runs -> Files]
         /\ registry \in [Runs -> Sidecars] /\ clone \in [present : BOOLEAN, rev : Revs]
         /\ thread \in [Threads -> ThreadSet] /\ faults \in 0 .. MaxFaults
BY DEF TypeOK, Files, Sidecars

LEMMA SidecarsUpdated ==
  ASSUME TypeOK, NEW r \in Runs
  PROVE  /\ [registry EXCEPT ![r] = NoEntry] \in [Runs -> Sidecars]
         /\ [registry EXCEPT ![r].drifted = TRUE] \in [Runs -> Sidecars]
<1>1. registry \in [Runs -> Sidecars]
  BY TypeParts
<1>2. NoEntry \in Sidecars
  BY DEF NoEntry, Sidecars
<1>3. [registry[r] EXCEPT !.drifted = TRUE] \in Sidecars
  BY <1>1 DEF Sidecars
<1> QED
  BY <1>1, <1>2, <1>3

LEMMA FailsTyped ==
  ASSUME TypeOK, Fails
  PROVE  faults' \in 0 .. MaxFaults
BY FaultCounted DEF Fails

LEMMA ProvisioningFailsTyped ==
  ASSUME TypeOK, NEW t \in Threads, NEW r \in Runs, ProvisioningFails(t, r)
  PROVE  session' \in [Runs -> Sessions] /\ thread' \in [Threads -> ThreadSet]
BY StateChanged, SessionsUpdated, ThreadsUpdated, CallTyped, StatesTyped
   DEF ProvisioningFails, Return

LEMMA ProvisionedTyped ==
  ASSUME TypeOK, NEW t \in Threads, NEW r \in Runs, NEW v \in Revs, Provisioned(t, r, v)
  PROVE  session' \in [Runs -> Sessions] /\ thread' \in [Threads -> ThreadSet]
<1>1. Session("Ready", TRUE, "Ready", TRUE) \in Sessions
  BY SessionTyped, StatesTyped
<1>2. [pc |-> "registry", run |-> r, rev |-> v] \in ThreadSet
  BY CallTyped
<1> QED
  BY <1>1, <1>2, SessionsUpdated, ThreadsUpdated DEF Provisioned

LEMMA EnterTyped ==
  ASSUME TypeOK, NEW t \in Threads, NEW r \in Runs, NEW state \in SandboxStates,
         session[r] # NoSession, Enter(t, r, state)
  PROVE  session' \in [Runs -> Sessions] /\ thread' \in [Threads -> ThreadSet]
<1> DEFINE s == session[r]
           meta == IF s.meta = NoMeta THEN NoMeta ELSE state
<1>1. meta \in SandboxStates \cup {NoMeta}
  OBVIOUS
<1>2. [s EXCEPT !.state = state, !.meta = meta] \in Sessions
  BY <1>1, SessionFields DEF Sessions
<1>3. SetSession(r, [s EXCEPT !.state = state, !.meta = meta])
      /\ IF meta = NoMeta THEN Goto(t, Idle) ELSE Goto(t, SnapCall(r, meta))
  BY DEF Enter, Return
<1>4. SnapCall(r, meta) \in ThreadSet
  BY <1>1, CallTyped
<1> HIDE DEF meta, s
<1> QED
  BY <1>2, <1>3, <1>4, SessionsUpdated, ThreadsUpdated, CallTyped

\* The state a call writes is a state of a sandbox.
LEMMA FromCall ==
  ASSUME TypeOK, NEW t \in Threads, NEW pc, At(t, pc), pc # "idle"
  PROVE  thread[t].run \in Runs
BY CallFields DEF At

\* A step of a call that is under way keeps the types.
LEMMA StepTyped ==
  ASSUME TypeOK, NEW t \in Threads, Step(t)
  PROVE  TypeOK'
<1> DEFINE r == thread[t].run
<1> USE TypeParts
<1>1. CASE Claim(t)
  <2> DEFINE s == IF session[r] = NoSession
                  THEN Session("Initial", FALSE, NoMeta, TRUE) ELSE session[r]
             ok == <<s.state, "Provisioning">> \in CanTransition
             new == IF ok THEN [s EXCEPT !.state = "Provisioning", !.limits = TRUE] ELSE s
  <2>1. r \in Runs
    BY <1>1, FromCall DEF Claim
  <2>2. s \in Sessions /\ s # NoSession
    BY <2>1, SessionTyped, StatesTyped DEF Session, NoSession
  <2>3. [s EXCEPT !.state = "Provisioning", !.limits = TRUE] \in Sessions
    BY <2>2, StatesTyped DEF Sessions
  <2>4. new \in Sessions
    BY <2>2, <2>3
  <2>5. /\ SetSession(r, new)
        /\ IF ok THEN Goto(t, Call("provision", r)) ELSE Goto(t, Idle)
        /\ UNCHANGED <<disk, registry, clone, boot, faults>>
    BY <1>1 DEF Claim, Return
  <2> HIDE DEF new, ok, s
  <2>6. session' \in [Runs -> Sessions] /\ thread' \in [Threads -> ThreadSet]
    BY <2>1, <2>4, <2>5, SessionsUpdated, ThreadsUpdated, CallTyped
  <2> QED
    BY <2>5, <2>6, TypeOfCall
<1>2. CASE ProviderProvision(t)
  <2>1. r \in Runs
    BY <1>2, FromCall DEF ProviderProvision
  <2>2. UNCHANGED <<registry, clone, boot>>
    BY <1>2 DEF ProviderProvision
  <2>3. CASE /\ Reconnect(r) = "ok"
             /\ disk' = [disk EXCEPT ![r].path = TRUE]
             /\ Provisioned(t, r, disk[r].rev)
             /\ UNCHANGED faults
    <3>1. disk[r].rev \in Revs
      BY <2>1, <2>3, FilesChanged DEF Reconnect, Files
    <3> QED
      BY <2>1, <2>2, <2>3, <3>1, ProvisionedTyped, FilesChanged, TypeOfCall
  <2>4. CASE /\ Head # NoRev
             /\ disk' = [disk EXCEPT ![r].path = TRUE]
             /\ Goto(t, [pc |-> "install", run |-> r, rev |-> Head])
             /\ UNCHANGED <<session, faults>>
    <3>1. Head \in Revs
      BY <2>4, HeadTyped
    <3>2. [pc |-> "install", run |-> r, rev |-> Head] \in ThreadSet
      BY <2>1, <3>1, CallTyped
    <3> QED
      BY <2>1, <2>2, <2>4, <3>2, ThreadsUpdated, FilesChanged, TypeOfCall
  <2>5. CASE ProvisioningFails(t, r) /\ UNCHANGED <<disk, faults>>
    BY <2>1, <2>2, <2>5, ProvisioningFailsTyped, TypeOfCall
  <2>6. CASE Fails /\ ProvisioningFails(t, r) /\ UNCHANGED disk
    BY <2>1, <2>2, <2>6, ProvisioningFailsTyped, FailsTyped, TypeOfCall
  <2> QED
    BY <1>2, <2>3, <2>4, <2>5, <2>6 DEF ProviderProvision
<1>3. CASE InstallState(t)
  <2>1. r \in Runs /\ thread[t].rev \in Revs
    BY <1>3, FromCall, CallFields DEF InstallState, At
  <2>2. UNCHANGED <<registry, clone, boot>>
    BY <1>3 DEF InstallState
  <2>3. CASE /\ disk' = [disk EXCEPT ![r].path = TRUE, ![r].rev = thread[t].rev]
             /\ Provisioned(t, r, thread[t].rev)
             /\ UNCHANGED faults
    BY <2>1, <2>2, <2>3, ProvisionedTyped, FilesChanged, TypeOfCall
  <2>4. CASE Fails /\ ProvisioningFails(t, r) /\ UNCHANGED disk
    BY <2>1, <2>2, <2>4, ProvisioningFailsTyped, FailsTyped, TypeOfCall
  <2> QED
    BY <1>3, <2>3, <2>4 DEF InstallState
<1>4. CASE WriteRegistry(t)
  <2>1. r \in Runs /\ thread[t].rev \in Revs
    BY <1>4, FromCall, CallFields DEF WriteRegistry, At
  <2>2. UNCHANGED <<disk, clone, boot>>
    BY <1>4 DEF WriteRegistry
  <2>3. CASE /\ registry' = [registry EXCEPT ![r] = Entry(thread[t].rev)]
             /\ Goto(t, Call("ready", r))
             /\ UNCHANGED <<session, faults>>
    <3>1. Entry(thread[t].rev) \in Sidecars
      BY <2>1 DEF Entry, Sidecars
    <3>2. registry' \in [Runs -> Sidecars]
      BY <2>1, <2>3, <3>1
    <3> QED
      BY <2>1, <2>2, <2>3, <3>2, ThreadsUpdated, CallTyped, TypeOfCall
  <2>4. CASE Fails /\ ProvisioningFails(t, r) /\ UNCHANGED registry
    BY <2>1, <2>2, <2>4, ProvisioningFailsTyped, FailsTyped, TypeOfCall
  <2> QED
    BY <1>4, <2>3, <2>4 DEF WriteRegistry
<1>5. CASE PersistReady(t)
  <2>1. r \in Runs
    BY <1>5, FromCall DEF PersistReady
  <2>2. UNCHANGED <<registry, clone, boot>>
    BY <1>5 DEF PersistReady
  <2>3. CASE /\ disk' = [disk EXCEPT ![r].meta = "Ready"]
             /\ Return(t)
             /\ UNCHANGED <<session, faults>>
    BY <2>1, <2>2, <2>3, ThreadsUpdated, CallTyped, StatesTyped, FilesChanged, TypeOfCall
       DEF Return
  <2>4. CASE Fails /\ ProvisioningFails(t, r) /\ UNCHANGED disk
    BY <2>1, <2>2, <2>4, ProvisioningFailsTyped, FailsTyped, TypeOfCall
  <2> QED
    BY <1>5, <2>3, <2>4 DEF PersistReady
<1>6. CASE Persist(t)
  <2>1. r \in Runs /\ thread[t].meta \in SandboxStates \cup {NoMeta}
    BY <1>6, FromCall, CallFields DEF Persist, At
  <2>2. thread' \in [Threads -> ThreadSet] /\ UNCHANGED <<session, registry, clone, boot>>
    BY <1>6, ThreadsUpdated, CallTyped DEF Persist, Return
  <2>3. CASE disk' = [disk EXCEPT ![r].meta = thread[t].meta] /\ UNCHANGED faults
    BY <2>1, <2>2, <2>3, FilesChanged, TypeOfCall
  <2>4. CASE Fails /\ UNCHANGED disk
    BY <2>2, <2>4, FailsTyped, TypeOfCall
  <2> QED
    BY <1>6, <2>3, <2>4 DEF Persist
<1>7. CASE Beat(t)
  <2>1. r \in Runs
    BY <1>7, FromCall DEF Beat
  <2>2. SnapCall(r, session[r].meta) \in ThreadSet
    BY <2>1, SessionFields, CallTyped
  <2> QED
    BY <1>7, <2>2, ThreadsUpdated, TypeOfCall DEF Beat
<1>8. CASE Checkpointed(t)
  <2>1. r \in Runs /\ UNCHANGED <<disk, registry, clone, boot, faults>>
    BY <1>8, FromCall DEF Checkpointed
  <2>2. CASE MayEnter(session[r].state, "Checkpointed") /\ Enter(t, r, "Checkpointed")
    <3>1. session[r] # NoSession
      BY <2>2 DEF MayEnter, CanTransition, NoSession, Session
    <3> QED
      BY <2>1, <2>2, <3>1, EnterTyped, StatesTyped, TypeOfCall
  <2>3. CASE Return(t) /\ UNCHANGED session
    BY <2>1, <2>3, ThreadsUpdated, CallTyped, TypeOfCall DEF Return
  <2> QED
    BY <1>8, <2>2, <2>3 DEF Checkpointed
<1>9. CASE ProviderDestroy(t)
  <2>1. r \in Runs /\ UNCHANGED <<session, registry, clone, boot>>
    BY <1>9, FromCall DEF ProviderDestroy
  <2>2. CASE /\ disk' = IF thread[t].preserve THEN disk ELSE [disk EXCEPT ![r] = NoFiles]
             /\ Goto(t, Call(IF thread[t].preserve THEN "destroyed" ELSE "forget", r))
             /\ UNCHANGED faults
    <3>1. disk' \in [Runs -> Files]
      BY <2>1, <2>2, FilesChanged
    <3>2. Call(IF thread[t].preserve THEN "destroyed" ELSE "forget", r) \in ThreadSet
      BY <2>1, CallTyped
    <3> QED
      BY <2>1, <2>2, <3>1, <3>2, ThreadsUpdated, TypeOfCall
  <2>3. CASE Return(t) /\ UNCHANGED <<disk, faults>>
    BY <2>1, <2>3, ThreadsUpdated, CallTyped, TypeOfCall DEF Return
  <2>4. CASE Fails /\ Return(t) /\ UNCHANGED disk
    BY <2>1, <2>4, ThreadsUpdated, CallTyped, FailsTyped, TypeOfCall DEF Return
  <2> QED
    BY <1>9, <2>2, <2>3, <2>4 DEF ProviderDestroy
<1>10. CASE Forget(t)
  <2>1. r \in Runs /\ UNCHANGED <<session, disk, clone, boot>>
    BY <1>10, FromCall DEF Forget
  <2>2. CASE /\ registry' = [registry EXCEPT ![r] = NoEntry]
             /\ Goto(t, Call("destroyed", r))
             /\ UNCHANGED faults
    <3>1. registry' \in [Runs -> Sidecars]
      BY <2>1, <2>2, SidecarsUpdated
    <3> QED
      BY <2>1, <2>2, <3>1, ThreadsUpdated, CallTyped, TypeOfCall
  <2>3. CASE Fails /\ Return(t) /\ UNCHANGED registry
    BY <2>1, <2>3, ThreadsUpdated, CallTyped, FailsTyped, TypeOfCall DEF Return
  <2> QED
    BY <1>10, <2>2, <2>3 DEF Forget
<1>11. CASE Destroyed(t)
  <2> DEFINE new == IF MayEnter(session[r].state, "Destroyed")
                    THEN [session[r] EXCEPT !.state = "Destroyed", !.meta = "Destroyed"]
                    ELSE session[r]
  <2>1. r \in Runs /\ UNCHANGED <<disk, registry, clone, boot, faults>>
    BY <1>11, FromCall DEF Destroyed
  <2>2. new \in Sessions
    <3>1. CASE MayEnter(session[r].state, "Destroyed")
      <4>1. session[r] # NoSession
        BY <3>1 DEF MayEnter, CanTransition, NoSession, Session
      <4> QED
        BY <2>1, <3>1, <4>1, SessionFields, StatesTyped DEF Sessions
    <3> QED
      BY <2>1, <3>1, SessionFields
  <2>3. SetSession(r, new) /\ Goto(t, Idle)
    BY <1>11 DEF Destroyed, Return
  <2> HIDE DEF new
  <2> QED
    BY <2>1, <2>2, <2>3, SessionsUpdated, ThreadsUpdated, CallTyped, TypeOfCall
<1> QED
  BY <1>1, <1>2, <1>3, <1>4, <1>5, <1>6, <1>7, <1>8, <1>9, <1>10, <1>11 DEF Step

LEMMA DestroyRunTyped ==
  ASSUME TypeOK, NEW t \in Threads, NEW r \in Runs, NEW preserve \in BOOLEAN,
         DestroyRun(t, r, preserve)
  PROVE  TypeOK'
<1> DEFINE s == [session[r] EXCEPT !.state = "Destroying", !.meta = "Destroying"]
<1>1. session[r] # NoSession
  BY DEF DestroyRun, Attached, NoSession, Session
<1>2. s \in Sessions
  BY <1>1, SessionFields, StatesTyped DEF Sessions
<1>3. [pc |-> "destroy", run |-> r, preserve |-> preserve] \in ThreadSet
  BY CallTyped
<1>4. /\ SetSession(r, s)
      /\ Goto(t, [pc |-> "destroy", run |-> r, preserve |-> preserve])
      /\ UNCHANGED <<disk, registry, clone, boot, faults>>
  BY DEF DestroyRun
<1> HIDE DEF s
<1> QED
  BY <1>2, <1>3, <1>4, TypeParts, SessionsUpdated, ThreadsUpdated, TypeOfCall

LEMMA PreserveRunTyped ==
  ASSUME TypeOK, NEW t \in Threads, NEW r \in Runs, PreserveRun(t, r)
  PROVE  TypeOK'
BY TypeParts, EnterTyped, StatesTyped, TypeOfCall DEF PreserveRun

\* The first step of a call keeps the types.
LEMMA RequestTyped ==
  ASSUME TypeOK, NEW t \in Threads, NEW r \in Runs, Request(t, r)
  PROVE  TypeOK'
<1> USE TypeParts
<1>1. CASE Provision(t, r)
  <2>1. clone' \in [present : BOOLEAN, rev : Revs]
    BY <1>1, RevFacts DEF Provision
  <2> QED
    BY <1>1, <2>1, ThreadsUpdated, CallTyped, TypeOfCall DEF Provision
<1>2. CASE Activate(t, r)
  <2>1. session[r] # NoSession /\ UNCHANGED <<disk, registry, clone, boot, faults>>
    BY <1>2 DEF Activate
  <2>2. CASE Enter(t, r, "Active")
    BY <2>1, <2>2, EnterTyped, StatesTyped, TypeOfCall
  <2>3. CASE SetSession(r, [session[r] EXCEPT !.state = "Active"]) /\ UNCHANGED thread
    BY <2>1, <2>3, StateChanged, SessionsUpdated, StatesTyped, TypeOfCall
  <2> QED
    BY <1>2, <2>2, <2>3 DEF Activate
<1>3. CASE Heartbeat(t, r)
  BY <1>3, ThreadsUpdated, CallTyped, TypeOfCall DEF Heartbeat
<1>4. CASE Checkpoint(t, r)
  BY <1>4, ThreadsUpdated, CallTyped, TypeOfCall DEF Checkpoint
<1>5. CASE Preserve(t, r)
  BY <1>5, PreserveRunTyped DEF Preserve
<1>6. CASE Destroy(t, r)
  BY <1>6, DestroyRunTyped DEF Destroy
<1>7. CASE ObserveResourceLimit(t, r)
  BY <1>7, PreserveRunTyped, DestroyRunTyped DEF ObserveResourceLimit
<1> QED
  BY <1>1, <1>2, <1>3, <1>4, <1>5, <1>6, <1>7 DEF Request

Boots == [phase : Phases, todo : SUBSET Runs, seen : SUBSET Runs,
          lost : SUBSET Runs, drift : SUBSET Runs, reattached : SUBSET Runs]

\* The part of the state that a step of recovery may change.
LEMMA TypeOfRecovery ==
  ASSUME TypeOK,
         session' \in [Runs -> Sessions], disk' \in [Runs -> Files],
         registry' \in [Runs -> Sidecars], boot' \in Boots, faults' \in 0 .. MaxFaults,
         UNCHANGED <<clone, thread>>
  PROVE  TypeOK'
BY DEF TypeOK, Files, Sidecars, Boots

LEMMA BootTyped ==
  ASSUME TypeOK
  PROVE  /\ boot \in Boots
         /\ \A r \in boot.todo : r \in Runs
         /\ \A phase \in Phases, a, b \in SUBSET Runs : Booting(phase, a, b) \in Boots
         /\ \A a \in SUBSET Runs : [boot EXCEPT !.todo = a] \in Boots
         /\ \A r \in Runs : /\ [boot EXCEPT !.todo = @ \ {r}] \in Boots
                             /\ [boot EXCEPT !.todo = @ \ {r}, !.lost = @ \cup {r}] \in Boots
                             /\ [boot EXCEPT !.todo = @ \ {r}, !.drift = @ \cup {r}] \in Boots
                             /\ [boot EXCEPT !.todo = @ \ {r}, !.reattached = @ \cup {r}] \in Boots
<1>1. boot \in Boots
  BY DEF TypeOK, Boots
<1> QED
  BY <1>1 DEF Boots, Booting

\* What a provider finds on disk for a listed run is a state.
LEMMA RecoveredTyped ==
  ASSUME TypeOK, NEW r \in Runs, NEW state \in SandboxStates, NEW attached \in BOOLEAN,
         Recovered(r, state, attached)
  PROVE  session' \in [Runs -> Sessions] /\ disk' \in [Runs -> Files]
<1>1. disk \in [Runs -> Files] /\ (attached \/ disk[r].path) \in BOOLEAN
  BY TypeParts DEF Files
<1>2. [disk[r] EXCEPT !.meta = state, !.path = attached \/ @] \in Files
  BY <1>1 DEF Files
<1>3. disk' = [disk EXCEPT ![r] = [disk[r] EXCEPT !.meta = state, !.path = attached \/ @]]
  BY <1>1 DEF Recovered
<1>4. disk' \in [Runs -> Files]
  BY <1>1, <1>2, <1>3
<1>5. Session(state, attached, state, FALSE) \in Sessions
  BY SessionTyped
<1> QED
  BY <1>4, <1>5, SessionsUpdated DEF Recovered

\* A step of recover_all for a run keeps the types.
LEMMA RecoverRunTyped ==
  ASSUME TypeOK, NEW r \in Runs, RecoverRun(r)
  PROVE  TypeOK'
<1> USE TypeParts, BootTyped
<1>1. CASE ReconnectRun(r)
  <2>1. boot' \in Boots /\ UNCHANGED <<registry, clone, thread, faults>>
    BY <1>1 DEF ReconnectRun
  <2>2. CASE Reconnect(r) = "ok" /\ Recovered(r, RecoveredState(disk[r].meta), TRUE)
    <3>1. disk[r].meta \in SandboxStates
      BY <2>2 DEF Reconnect, Files
    <3>2. RecoveredState(disk[r].meta) \in SandboxStates
      BY <3>1, StatesTyped DEF RecoveredState
    <3> QED
      BY <2>1, <2>2, <3>2, RecoveredTyped, TypeOfRecovery
  <2>3. CASE Recovered(r, "Preserved", FALSE) \/ Recovered(r, "Failed", FALSE)
    BY <2>1, <2>3, StatesTyped, RecoveredTyped, TypeOfRecovery
  <2>4. CASE UNCHANGED <<disk, session>>
    BY <2>1, <2>4, TypeOfRecovery
  <2>5. Reconnect(r) \in {"ok", "drift", "error", "none"}
    BY DEF Reconnect
  <2>6. CASE Reconnect(r) = "ok"
    BY <1>1, <2>2, <2>6 DEF ReconnectRun
  <2>7. CASE Reconnect(r) = "drift"
    BY <1>1, <2>3, <2>7 DEF ReconnectRun
  <2>8. CASE Reconnect(r) = "error"
    BY <1>1, <2>3, <2>8 DEF ReconnectRun
  <2>9. CASE Reconnect(r) = "none"
    BY <1>1, <2>4, <2>9 DEF ReconnectRun
  <2> QED
    BY <2>5, <2>6, <2>7, <2>8, <2>9
<1>2. CASE LoseRun(r)
  BY <1>2, SidecarsUpdated, TypeOfRecovery DEF LoseRun
<1>3. CASE DriftRun(r)
  BY <1>3, SidecarsUpdated, TypeOfRecovery DEF DriftRun
<1>4. CASE ReattachRun(r)
  BY <1>4, TypeOfRecovery DEF ReattachRun
<1> QED
  BY <1>1, <1>2, <1>3, <1>4 DEF RecoverRun

\* Phases of the boot, and the faults around the process.
LEMMA ProcessTyped ==
  ASSUME TypeOK,
         \/ Boot \/ NextPhase \/ RecoveryFails \/ Serve \/ Crash \/ MoveHead
         \/ \E r \in Runs : Wipe(r)
  PROVE  TypeOK'
<1> USE TypeParts, BootTyped
<1>1. CASE Boot
  <2> DEFINE listed == {r \in Runs : disk[r].meta # NoMeta}
             todo == {r \in listed : ~IsTerminal(disk[r].meta)}
  <2>1. listed \in SUBSET Runs /\ todo \in SUBSET Runs
    OBVIOUS
  <2>2. boot' = Booting("reconnect", todo, listed)
    BY <1>1 DEF Boot
  <2> HIDE DEF listed, todo
  <2>3. boot' \in Boots
    BY <2>1, <2>2 DEF Phases
  <2> QED
    BY <1>1, <2>3, TypeOfRecovery DEF Boot
<1>2. CASE NextPhase
  <2>1. PICK next \in Phases : boot' = [boot EXCEPT !.phase = next, !.todo = Due(next)]
    BY <1>2 DEF NextPhase, Phases
  <2>2. Due(next) \in SUBSET Runs
    BY DEF Due
  <2>3. boot' \in Boots
    BY <2>1, <2>2 DEF Boots
  <2> QED
    BY <1>2, <2>3, TypeOfRecovery DEF NextPhase
<1>3. CASE RecoveryFails
  <2>1. boot' \in Boots
    BY <1>3 DEF RecoveryFails, Phases
  <2> QED
    BY <1>3, <2>1, FailsTyped, TypeOfRecovery DEF RecoveryFails
<1>4. CASE Serve
  <2>1. boot' \in Boots
    BY <1>4 DEF Serve, Phases
  <2> QED
    BY <1>4, <2>1, TypeOfRecovery DEF Serve
<1>5. CASE Crash
  <2>1. boot' \in Boots
    BY <1>5 DEF Crash, Phases
  <2>2. session' \in [Runs -> Sessions] /\ thread' \in [Threads -> ThreadSet]
    BY <1>5, CallTyped DEF Crash, Sessions
  <2>3. faults' \in 0 .. MaxFaults
    BY <1>5, FaultCounted DEF Crash, Fault
  <2> QED
    BY <1>5, <2>1, <2>2, <2>3 DEF Crash, TypeOK, Boots
<1>6. CASE MoveHead
  <2>1. clone' \in [present : BOOLEAN, rev : Revs]
    BY <1>6, RevFacts DEF MoveHead
  <2>2. faults' \in 0 .. MaxFaults
    BY <1>6, FaultCounted DEF MoveHead, Fault
  <2> QED
    BY <1>6, <2>1, <2>2, TypeOfCall DEF MoveHead
<1>7. CASE \E r \in Runs : Wipe(r)
  <2>1. PICK r \in Runs : Wipe(r)
    BY <1>7
  <2>2. faults' \in 0 .. MaxFaults
    BY <2>1, FaultCounted DEF Wipe, Fault
  <2>3. disk' \in [Runs -> Files]
    BY <2>1, FilesChanged DEF Wipe
  <2> QED
    BY <2>1, <2>2, <2>3, TypeOfCall DEF Wipe
<1> QED
  BY <1>1, <1>2, <1>3, <1>4, <1>5, <1>6, <1>7

LEMMA InitTyped == SandboxInit => TypeOK
<1> SUFFICES ASSUME SandboxInit PROVE TypeOK
  OBVIOUS
<1>1. session \in [Runs -> Sessions]
  BY DEF SandboxInit, Sessions
<1>2. disk \in [Runs -> Files]
  BY DEF SandboxInit, NoFiles, Files
<1>3. registry \in [Runs -> Sidecars]
  BY DEF SandboxInit, NoEntry, Sidecars
<1>4. thread \in [Threads -> ThreadSet]
  BY CallTyped DEF SandboxInit
<1>5. boot \in Boots
  BY DEF SandboxInit, Booting, Boots, Phases
<1>6. clone \in [present : BOOLEAN, rev : Revs] /\ faults \in 0 .. MaxFaults
  BY RevFacts, SandboxAssumption DEF SandboxInit
<1> QED
  BY <1>1, <1>2, <1>3, <1>4, <1>5, <1>6 DEF TypeOK, Files, Sidecars, Boots

LEMMA SandboxNextTyped == TypeOK /\ [Next]_sandboxVars => TypeOK'
<1> SUFFICES ASSUME TypeOK, [Next]_sandboxVars PROVE TypeOK'
  OBVIOUS
<1>1. CASE \E t \in Threads : Step(t)
  BY <1>1, StepTyped
<1>2. CASE \E t \in Threads, r \in Runs : Request(t, r)
  BY <1>2, RequestTyped
<1>3. CASE \E r \in Runs : RecoverRun(r)
  BY <1>3, RecoverRunTyped
<1>4. CASE \/ Boot \/ NextPhase \/ RecoveryFails \/ Serve \/ Crash \/ MoveHead
           \/ \E r \in Runs : Wipe(r)
  BY <1>4, ProcessTyped
<1>5. CASE UNCHANGED sandboxVars
  BY <1>5 DEF TypeOK, sandboxVars
<1> QED
  BY <1>1, <1>2, <1>3, <1>4, <1>5 DEF Next, SandboxNext

\* Type correctness of the sandbox service: no interleaving of calls, faults,
\* crashes and recoveries leaves a session, a state file, a sidecar or a call
\* ill-formed; in particular the state file never holds an unresolved revision
\* as if it were one.
THEOREM SandboxTypeCorrect == Spec => []TypeOK
<1>1. SandboxInit => TypeOK
  BY InitTyped
<1>2. TypeOK /\ [Next]_sandboxVars => TypeOK'
  BY SandboxNextTyped
<1> QED
  BY <1>1, <1>2, PTL DEF Spec

-----------------------------------------------------------------------------
(* One provisioner per run, and recovery on the recorded revision.         *)

\* Calls are under way only while the process serves.
ThreadsServe == ~Serving => \A t \in Threads : thread[t] = Idle

InProvider(t) == thread[t].pc \in {"provision", "install"}

\* As long as a call is in the provider, the session it claimed is in a state
\* from which no other call may claim it: nobody takes it back to Initial,
\* Checkpointed or Preserved, whatever other calls do meanwhile.
ClaimHeld ==
  \A t \in Threads :
     InProvider(t) => session[thread[t].run].state \in {"Provisioning", "Failed"}

\* A process that is down has no session.
DownIsEmpty == boot.phase = "down" => session = [r \in Runs |-> NoSession]

SandboxInv ==
  /\ TypeOK
  /\ ThreadsServe
  /\ ClaimHeld
  /\ OneProvisioner
  /\ DownIsEmpty
  /\ RecoveredOnItsRevision

Claimed(r) == session[r].state \in {"Provisioning", "Failed"}

\* A step of t that takes the session of r to s and t to c keeps the claims,
\* when it does not release the claim of another call, and enters the provider
\* only with a claim of its own.
LEMMA ClaimsKept ==
  ASSUME SandboxInv, NEW t \in Threads, NEW r \in Runs, NEW s, NEW c,
         SetSession(r, s), Goto(t, c),
         Claimed(r) => \/ s.state \in {"Provisioning", "Failed"}
                       \/ InProvider(t) /\ thread[t].run = r,
         c.pc \in {"provision", "install"} =>
            /\ c.run = r
            /\ s.state \in {"Provisioning", "Failed"}
            /\ ~Claimed(r) \/ (InProvider(t) /\ thread[t].run = r)
  PROVE  ClaimHeld' /\ OneProvisioner'
<1>1. /\ thread' = [thread EXCEPT ![t] = c] /\ session' = [session EXCEPT ![r] = s]
      /\ DOMAIN thread = Threads /\ DOMAIN session = Runs
  BY DEF SandboxInv, TypeOK, SetSession, Goto
<1>2. ASSUME NEW u \in Threads, InProvider(u)'
      PROVE  session'[thread'[u].run].state \in {"Provisioning", "Failed"}
  <2>1. CASE u = t
    BY <1>1, <1>2, <2>1 DEF InProvider
  <2>2. CASE u # t
    <3>1. thread'[u] = thread[u] /\ InProvider(u)
      BY <1>1, <1>2, <2>2 DEF InProvider
    <3>2. session[thread[u].run].state \in {"Provisioning", "Failed"}
      BY <3>1 DEF SandboxInv, ClaimHeld
    <3>3. thread[u].run \in Runs
      BY <3>1, CallFields DEF SandboxInv, InProvider
    <3>4. CASE thread[u].run # r
      BY <1>1, <3>1, <3>2, <3>3, <3>4
    <3>5. CASE thread[u].run = r
      <4>1. ~(InProvider(t) /\ thread[t].run = r)
        BY <2>2, <3>1, <3>5 DEF SandboxInv, OneProvisioner, InProvider
      <4> QED
        BY <1>1, <3>1, <3>2, <3>5, <4>1 DEF Claimed
    <3> QED
      BY <3>4, <3>5
  <2> QED
    BY <2>1, <2>2
<1>3. ASSUME NEW u \in Threads, u # t, InProvider(u)', InProvider(t)',
             thread'[u].run = thread'[t].run
      PROVE  FALSE
  <2>1. thread'[t] = c /\ thread'[u] = thread[u] /\ InProvider(u)
    BY <1>1, <1>3 DEF InProvider
  <2>2. thread[u].run = r
    BY <1>3, <2>1 DEF InProvider
  <2>3. Claimed(r)
    BY <2>1, <2>2 DEF SandboxInv, ClaimHeld, Claimed
  <2>4. InProvider(t) /\ thread[t].run = r
    BY <1>3, <2>1, <2>3 DEF InProvider
  <2> QED
    BY <1>3, <2>1, <2>2, <2>4 DEF SandboxInv, OneProvisioner, InProvider
<1>4. ASSUME NEW u \in Threads, NEW v \in Threads, u # v, InProvider(u)', InProvider(v)',
             thread'[u].run = thread'[v].run
      PROVE  FALSE
  <2>1. CASE u # t /\ v # t
    BY <1>1, <1>4, <2>1 DEF SandboxInv, OneProvisioner, InProvider
  <2> QED
    BY <1>3, <1>4, <2>1
<1> QED
  BY <1>2, <1>4 DEF ClaimHeld, OneProvisioner, InProvider

\* The same for a step that leaves the sessions alone.
LEMMA ClaimsKeptByCall ==
  ASSUME SandboxInv, NEW t \in Threads, NEW c, UNCHANGED session, Goto(t, c),
         c.pc \in {"provision", "install"} => InProvider(t) /\ c.run = thread[t].run
  PROVE  ClaimHeld' /\ OneProvisioner'
<1>1. thread' = [thread EXCEPT ![t] = c] /\ DOMAIN thread = Threads
  BY DEF SandboxInv, TypeOK, Goto
<1>2. \A u \in Threads : InProvider(u)' => InProvider(u) /\ thread'[u].run = thread[u].run
  BY <1>1 DEF InProvider
<1>3. ClaimHeld'
  BY <1>2 DEF SandboxInv, ClaimHeld
<1>4. OneProvisioner'
  BY <1>2 DEF SandboxInv, OneProvisioner, InProvider
<1> QED
  BY <1>3, <1>4

\* States from which a call moves on are not those of a claim.
LEMMA EnterKeeps ==
  ASSUME SandboxInv, NEW t \in Threads, NEW r \in Runs, NEW state \in SandboxStates,
         MayEnter(session[r].state, state), state \in {"Active", "Checkpointed", "Preserved"},
         Enter(t, r, state)
  PROVE  ClaimHeld' /\ OneProvisioner'
<1> DEFINE meta == IF session[r].meta = NoMeta THEN NoMeta ELSE state
           c == IF meta = NoMeta THEN Idle ELSE SnapCall(r, meta)
           s == [session[r] EXCEPT !.state = state, !.meta = meta]
<1>1. ~Claimed(r)
  BY DEF Claimed, MayEnter, CanTransition
<1>2. c.pc \notin {"provision", "install"}
  BY DEF Idle, SnapCall
<1>3. SetSession(r, s) /\ Goto(t, c)
  BY DEF Enter, Return
<1> HIDE DEF s, c
<1> QED
  BY <1>1, <1>2, <1>3, ClaimsKept

LEMMA ProvisioningFailsKeeps ==
  ASSUME SandboxInv, NEW t \in Threads, NEW r \in Runs, ProvisioningFails(t, r)
  PROVE  ClaimHeld' /\ OneProvisioner'
<1> DEFINE s == [session[r] EXCEPT !.state = "Failed"]
<1>1. s.state = "Failed"
  BY SessionFields DEF SandboxInv, Sessions, NoSession, Session
<1>2. SetSession(r, s) /\ Goto(t, Idle) /\ Idle.pc = "idle"
  BY DEF ProvisioningFails, Return, Idle
<1> HIDE DEF s
<1> QED
  BY <1>1, <1>2, ClaimsKept

LEMMA ProvisionedKeeps ==
  ASSUME SandboxInv, NEW t \in Threads, NEW r \in Runs, NEW v,
         InProvider(t), thread[t].run = r, Provisioned(t, r, v)
  PROVE  ClaimHeld' /\ OneProvisioner'
<1> DEFINE c == [pc |-> "registry", run |-> r, rev |-> v]
           s == Session("Ready", TRUE, "Ready", TRUE)
<1>1. SetSession(r, s) /\ Goto(t, c) /\ c.pc = "registry"
  BY DEF Provisioned
<1> HIDE DEF s, c
<1> QED
  BY <1>1, ClaimsKept

LEMMA DestroyRunKeeps ==
  ASSUME SandboxInv, NEW t \in Threads, NEW r \in Runs, NEW preserve,
         DestroyRun(t, r, preserve)
  PROVE  ClaimHeld' /\ OneProvisioner'
<1> DEFINE s == [session[r] EXCEPT !.state = "Destroying", !.meta = "Destroying"]
           c == [pc |-> "destroy", run |-> r, preserve |-> preserve]
<1>1. SetSession(r, s) /\ Goto(t, c) /\ c.pc = "destroy"
  BY DEF DestroyRun
<1>2. ~Claimed(r)
  BY DEF DestroyRun, Claimed, MayEnter, CanTransition
<1> HIDE DEF s, c
<1> QED
  BY <1>1, <1>2, ClaimsKept

\* A step of a call that is under way keeps the claims.
LEMMA StepKeepsClaims ==
  ASSUME SandboxInv, NEW t \in Threads, Step(t)
  PROVE  ClaimHeld' /\ OneProvisioner'
<1> DEFINE r == thread[t].run
<1>0. TypeOK
  BY DEF SandboxInv
<1>1. CASE Claim(t)
  <2> DEFINE s == IF session[r] = NoSession
                  THEN Session("Initial", FALSE, NoMeta, TRUE) ELSE session[r]
             ok == <<s.state, "Provisioning">> \in CanTransition
             new == IF ok THEN [s EXCEPT !.state = "Provisioning", !.limits = TRUE] ELSE s
             c == IF ok THEN Call("provision", r) ELSE Idle
  <2>1. r \in Runs
    BY <1>0, <1>1, FromCall DEF Claim
  <2>2. SetSession(r, new) /\ Goto(t, c)
    BY <1>1 DEF Claim, Return
  <2>3. CASE ok
    <3>1. ~Claimed(r)
      BY <2>3 DEF Claimed, CanTransition, NoSession, Session
    <3>2. s \in Sessions
      BY <1>0, <2>1, SessionFields, SessionTyped, StatesTyped
    <3>3. new.state = "Provisioning" /\ c.run = r
      BY <2>3, <3>2 DEF Sessions, NoSession, Session, Call
    <3> HIDE DEF new, c
    <3> QED
      BY <2>1, <2>2, <3>1, <3>3, ClaimsKept
  <2>4. CASE ~ok
    <3>1. new = session[r]
      BY <2>4 DEF CanTransition, Session
    <3>2. c.pc = "idle"
      BY <2>4 DEF Idle
    <3> HIDE DEF new, c
    <3> QED
      BY <2>1, <2>2, <3>1, <3>2, ClaimsKept DEF Claimed
  <2> QED
    BY <2>3, <2>4
<1>2. CASE ProviderProvision(t)
  <2>1. r \in Runs /\ InProvider(t)
    BY <1>0, <1>2, FromCall DEF ProviderProvision, InProvider, At
  <2>2. CASE \E v : Provisioned(t, r, v)
    BY <2>1, <2>2, ProvisionedKeeps
  <2>3. CASE Goto(t, [pc |-> "install", run |-> r, rev |-> Head]) /\ UNCHANGED session
    BY <2>1, <2>3, ClaimsKeptByCall
  <2>4. CASE ProvisioningFails(t, r)
    BY <2>1, <2>4, ProvisioningFailsKeeps
  <2> QED
    BY <1>2, <2>2, <2>3, <2>4 DEF ProviderProvision
<1>3. CASE InstallState(t)
  <2>1. r \in Runs /\ InProvider(t)
    BY <1>0, <1>3, FromCall DEF InstallState, InProvider, At
  <2> QED
    BY <1>3, <2>1, ProvisionedKeeps, ProvisioningFailsKeeps DEF InstallState
<1>4. CASE WriteRegistry(t)
  <2>1. r \in Runs
    BY <1>0, <1>4, FromCall DEF WriteRegistry
  <2>2. CASE Goto(t, Call("ready", r)) /\ UNCHANGED session
    BY <2>2, ClaimsKeptByCall DEF Call
  <2> QED
    BY <1>4, <2>1, <2>2, ProvisioningFailsKeeps DEF WriteRegistry
<1>5. CASE PersistReady(t)
  <2>1. r \in Runs
    BY <1>0, <1>5, FromCall DEF PersistReady
  <2>2. CASE Return(t) /\ UNCHANGED session
    BY <2>2, ClaimsKeptByCall DEF Return, Idle
  <2> QED
    BY <1>5, <2>1, <2>2, ProvisioningFailsKeeps DEF PersistReady
<1>6. CASE Persist(t)
  BY <1>6, ClaimsKeptByCall DEF Persist, Return, Idle
<1>7. CASE Beat(t)
  BY <1>7, ClaimsKeptByCall DEF Beat, SnapCall
<1>8. CASE Checkpointed(t)
  <2>1. r \in Runs
    BY <1>0, <1>8, FromCall DEF Checkpointed
  <2>2. CASE MayEnter(session[r].state, "Checkpointed") /\ Enter(t, r, "Checkpointed")
    BY <2>1, <2>2, EnterKeeps, StatesTyped
  <2>3. CASE Return(t) /\ UNCHANGED session
    BY <2>3, ClaimsKeptByCall DEF Return, Idle
  <2> QED
    BY <1>8, <2>2, <2>3 DEF Checkpointed
<1>9. CASE ProviderDestroy(t)
  <2>1. CASE Goto(t, Call(IF thread[t].preserve THEN "destroyed" ELSE "forget", r))
    BY <1>9, <2>1, ClaimsKeptByCall DEF ProviderDestroy, Call
  <2>2. CASE Return(t)
    BY <1>9, <2>2, ClaimsKeptByCall DEF ProviderDestroy, Return, Idle
  <2> QED
    BY <1>9, <2>1, <2>2 DEF ProviderDestroy
<1>10. CASE Forget(t)
  <2>1. CASE Goto(t, Call("destroyed", r))
    BY <1>10, <2>1, ClaimsKeptByCall DEF Forget, Call
  <2>2. CASE Return(t)
    BY <1>10, <2>2, ClaimsKeptByCall DEF Forget, Return, Idle
  <2> QED
    BY <1>10, <2>1, <2>2 DEF Forget
<1>11. CASE Destroyed(t)
  <2> DEFINE new == IF MayEnter(session[r].state, "Destroyed")
                    THEN [session[r] EXCEPT !.state = "Destroyed", !.meta = "Destroyed"]
                    ELSE session[r]
  <2>1. r \in Runs /\ SetSession(r, new) /\ Goto(t, Idle) /\ Idle.pc = "idle"
    BY <1>0, <1>11, FromCall DEF Destroyed, Return, Idle
  <2>2. Claimed(r) => new = session[r]
    BY DEF Claimed, MayEnter, CanTransition
  <2> HIDE DEF new
  <2> QED
    BY <2>1, <2>2, ClaimsKept DEF Claimed
<1> QED
  BY <1>1, <1>2, <1>3, <1>4, <1>5, <1>6, <1>7, <1>8, <1>9, <1>10, <1>11 DEF Step

\* The first step of a call keeps the claims.
LEMMA RequestKeepsClaims ==
  ASSUME SandboxInv, NEW t \in Threads, NEW r \in Runs, Request(t, r)
  PROVE  ClaimHeld' /\ OneProvisioner'
<1>1. CASE Provision(t, r)
  BY <1>1, ClaimsKeptByCall DEF Provision, Call
<1>2. CASE Activate(t, r)
  <2>1. MayEnter(session[r].state, "Active")
    BY <1>2 DEF Activate
  <2>2. CASE Enter(t, r, "Active")
    BY <2>1, <2>2, EnterKeeps, StatesTyped
  <2>3. CASE SetSession(r, [session[r] EXCEPT !.state = "Active"]) /\ UNCHANGED thread
    <3>1. ~Claimed(r)
      BY <2>1 DEF Claimed, MayEnter, CanTransition
    <3>2. Goto(t, thread[t])
      BY <2>3 DEF Goto, SandboxInv, TypeOK
    <3>3. thread[t].pc = "idle"
      BY <1>2 DEF Activate, Begin
    <3> QED
      BY <2>3, <3>1, <3>2, <3>3, ClaimsKept
  <2> QED
    BY <1>2, <2>2, <2>3 DEF Activate
<1>3. CASE Heartbeat(t, r)
  BY <1>3, ClaimsKeptByCall DEF Heartbeat, Call
<1>4. CASE Checkpoint(t, r)
  BY <1>4, ClaimsKeptByCall DEF Checkpoint, Call
<1>5. CASE PreserveRun(t, r)
  BY <1>5, EnterKeeps, StatesTyped DEF PreserveRun
<1>6. CASE \E preserve \in BOOLEAN : DestroyRun(t, r, preserve)
  BY <1>6, DestroyRunKeeps
<1> QED
  BY <1>1, <1>2, <1>3, <1>4, <1>5, <1>6
     DEF Request, Preserve, Destroy, ObserveResourceLimit

\* A call takes its steps while the process serves, and leaves the boot alone.
LEMMA CallsServe ==
  ASSUME SandboxInv, NEW t \in Threads,
         Step(t) \/ \E r \in Runs : Request(t, r)
  PROVE  Serving /\ Serving'
<1>1. boot' = boot
  BY DEF Step, Claim, ProviderProvision, InstallState, WriteRegistry, PersistReady, Persist,
         Beat, Checkpointed, ProviderDestroy, Forget, Destroyed, Request, Provision, Activate,
         Heartbeat, Checkpoint, Preserve, PreserveRun, Destroy, DestroyRun,
         ObserveResourceLimit
<1>2. CASE Step(t)
  <2>1. thread[t].pc # "idle"
    BY <1>2 DEF Step, Claim, ProviderProvision, InstallState, WriteRegistry, PersistReady,
                Persist, Beat, Checkpointed, ProviderDestroy, Forget, Destroyed, At
  <2>2. Serving
    BY <2>1 DEF SandboxInv, ThreadsServe, Idle
  <2> QED
    BY <1>1, <2>2 DEF Serving
<1>3. CASE \E r \in Runs : Request(t, r)
  <2>1. Serving
    BY <1>3 DEF Request, Provision, Activate, Heartbeat, Checkpoint, Preserve, Destroy,
                ObserveResourceLimit, Begin
  <2> QED
    BY <1>1, <2>1 DEF Serving
<1> QED
  BY <1>2, <1>3

\* While no thread is in a call, nothing is claimed.
LEMMA IdleClaimsNothing ==
  ASSUME (\A t \in Threads : thread[t] = Idle)'
  PROVE  ThreadsServe' /\ ClaimHeld' /\ OneProvisioner'
BY DEF ThreadsServe, ClaimHeld, OneProvisioner, InProvider, Idle

LEMMA SandboxInvKept == SandboxInv /\ [Next]_sandboxVars => SandboxInv'
<1> SUFFICES ASSUME SandboxInv, [Next]_sandboxVars PROVE SandboxInv'
  OBVIOUS
<1>1. TypeOK'
  BY SandboxNextTyped DEF SandboxInv
<1>2. ASSUME NEW t \in Threads, Step(t) \/ \E r \in Runs : Request(t, r)
      PROVE  SandboxInv'
  <2>1. Serving'
    BY <1>2, CallsServe
  <2>2. ClaimHeld' /\ OneProvisioner'
    BY <1>2, StepKeepsClaims, RequestKeepsClaims
  <2> QED
    BY <1>1, <2>1, <2>2 DEF SandboxInv, ThreadsServe, DownIsEmpty, RecoveredOnItsRevision, Serving
<1>3. ASSUME NEW r \in Runs, ReconnectRun(r)
      PROVE  SandboxInv'
  <2>1. /\ boot.phase = "reconnect" /\ boot' = [boot EXCEPT !.todo = @ \ {r}]
        /\ UNCHANGED <<clone, thread>>
    BY <1>3 DEF ReconnectRun
  <2>2. boot'.phase = "reconnect"
    BY <2>1 DEF SandboxInv, TypeOK
  <2>3. \A t \in Threads : thread'[t] = Idle
    BY <2>1 DEF SandboxInv, ThreadsServe, Serving
  <2>4. Reconnect(r) \in {"ok", "drift", "error", "none"} /\ Head' = Head
    BY <2>1 DEF Reconnect, Head
  <2>5. RecoveredOnItsRevision'
    <3> SUFFICES ASSUME NEW q \in OverlayRuns, Attached(q)'
                 PROVE  disk'[q].rev = Head
      BY <2>4 DEF RecoveredOnItsRevision
    <3>1. q \in Runs /\ disk \in [Runs -> Files] /\ session \in [Runs -> Sessions]
      BY SandboxAssumption, TypeParts DEF SandboxInv
    <3>2. Attached(q) => disk[q].rev = Head
      BY <2>1 DEF SandboxInv, RecoveredOnItsRevision
    <3>3. CASE UNCHANGED <<disk, session>>
      BY <3>2, <3>3 DEF Attached
    <3>4. ASSUME NEW state, NEW a \in BOOLEAN, Recovered(r, state, a),
                 a => Reconnect(r) = "ok"
          PROVE  disk'[q].rev = Head
      <4>1. disk'[q].rev = disk[q].rev
        BY <3>1, <3>4 DEF Recovered, Files
      <4>2. CASE q # r
        BY <3>1, <3>2, <3>4, <4>1, <4>2 DEF Recovered, SetSession, Attached
      <4>3. CASE q = r
        <5>1. a
          BY <3>1, <3>4, <4>3 DEF Recovered, SetSession, Attached, Session
        <5>2. disk[q].rev = Head
          BY <3>4, <4>3, <5>1 DEF Reconnect
        <5> QED
          BY <4>1, <5>2
      <4> QED
        BY <4>2, <4>3
    <3>5. CASE Reconnect(r) = "ok"
      BY <1>3, <3>4, <3>5 DEF ReconnectRun
    <3>6. CASE Reconnect(r) = "drift"
      BY <1>3, <3>4, <3>6 DEF ReconnectRun
    <3>7. CASE Reconnect(r) = "error"
      BY <1>3, <3>4, <3>7 DEF ReconnectRun
    <3>8. CASE Reconnect(r) = "none"
      BY <1>3, <3>3, <3>8 DEF ReconnectRun
    <3> QED
      BY <2>4, <3>5, <3>6, <3>7, <3>8
  <2> QED
    BY <1>1, <2>2, <2>3, <2>5, IdleClaimsNothing DEF SandboxInv, DownIsEmpty
<1>4. ASSUME /\ UNCHANGED <<session, clone, thread>>
             /\ boot.phase \notin {"down", "serving"} /\ boot'.phase # "down"
             /\ \A q \in Runs : disk'[q].rev = disk[q].rev
      PROVE  SandboxInv'
  <2>1. \A t \in Threads : thread'[t] = Idle
    BY <1>4 DEF SandboxInv, ThreadsServe, Serving
  <2>2. RecoveredOnItsRevision'
    BY <1>4, SandboxAssumption DEF SandboxInv, RecoveredOnItsRevision, Attached, Head
  <2> QED
    BY <1>1, <1>4, <2>1, <2>2, IdleClaimsNothing DEF SandboxInv, DownIsEmpty
<1>5. ASSUME NEW r \in Runs, LoseRun(r) \/ DriftRun(r) \/ ReattachRun(r)
      PROVE  SandboxInv'
  <2>1. boot'.phase = boot.phase
    BY <1>5 DEF LoseRun, DriftRun, ReattachRun, SandboxInv, TypeOK
  <2> QED
    BY <1>4, <1>5, <2>1 DEF LoseRun, DriftRun, ReattachRun
<1>6. CASE NextPhase
  <2>1. boot'.phase \in {"lost", "drift", "reattach", "runs"}
    BY <1>6 DEF NextPhase, SandboxInv, TypeOK
  <2> QED
    BY <1>4, <1>6, <2>1 DEF NextPhase
<1>7. CASE RecoveryFails
  BY <1>4, <1>7 DEF RecoveryFails, Booting
<1>8. CASE Serve
  BY <1>4, <1>8 DEF Serve, Booting
<1>9. CASE Boot
  <2>1. boot'.phase = "reconnect" /\ boot.phase = "down"
    BY <1>9 DEF Boot, Booting
  <2>2. \A t \in Threads : thread'[t] = Idle
    BY <1>9, <2>1 DEF Boot, SandboxInv, ThreadsServe, Serving
  <2>3. session' = [r \in Runs |-> NoSession]
    BY <1>9, <2>1 DEF Boot, SandboxInv, DownIsEmpty
  <2>4. RecoveredOnItsRevision'
    BY <2>3, SandboxAssumption DEF RecoveredOnItsRevision, Attached, NoSession, Session
  <2> QED
    BY <1>1, <2>1, <2>2, <2>4, IdleClaimsNothing DEF SandboxInv, DownIsEmpty
<1>10. CASE Crash
  <2>1. /\ boot'.phase = "down" /\ session' = [r \in Runs |-> NoSession]
        /\ thread' = [t \in Threads |-> Idle]
    BY <1>10 DEF Crash, Booting
  <2> QED
    BY <1>1, <2>1, IdleClaimsNothing DEF SandboxInv, DownIsEmpty, RecoveredOnItsRevision
<1>11. CASE MoveHead
  <2>1. Serving /\ UNCHANGED <<session, thread, boot>>
    BY <1>11 DEF MoveHead
  <2> QED
    BY <1>1, <2>1 DEF SandboxInv, ThreadsServe, ClaimHeld, OneProvisioner, InProvider,
                      DownIsEmpty, RecoveredOnItsRevision, Serving
<1>12. CASE \E r \in Runs : Wipe(r)
  <2>1. boot.phase \in {"down", "serving"} /\ UNCHANGED <<session, thread, boot>>
    BY <1>12 DEF Wipe
  <2> QED
    BY <1>1, <2>1 DEF SandboxInv, ThreadsServe, ClaimHeld, OneProvisioner, InProvider,
                      DownIsEmpty, RecoveredOnItsRevision, Serving
<1>13. CASE UNCHANGED sandboxVars
  BY <1>1, <1>13 DEF SandboxInv, ThreadsServe, ClaimHeld, OneProvisioner, InProvider,
                     DownIsEmpty, RecoveredOnItsRevision, Serving, sandboxVars, Attached, Head
<1> QED
  BY <1>2, <1>3, <1>5, <1>6, <1>7, <1>8, <1>9, <1>10, <1>11, <1>12, <1>13
     DEF Next, SandboxNext, RecoverRun

LEMMA SandboxInvInit == SandboxInit => SandboxInv
<1> SUFFICES ASSUME SandboxInit PROVE SandboxInv
  OBVIOUS
<1>1. TypeOK
  BY InitTyped
<1>2. Serving /\ \A t \in Threads : thread[t] = Idle
  BY DEF SandboxInit, Serving, Booting
<1> QED
  BY <1>1, <1>2 DEF SandboxInv, ThreadsServe, ClaimHeld, OneProvisioner, InProvider, Idle,
                    DownIsEmpty, RecoveredOnItsRevision, Serving

LEMMA SandboxInvariant == Spec => []SandboxInv
<1>1. SandboxInit => SandboxInv
  BY SandboxInvInit
<1>2. SandboxInv /\ [Next]_sandboxVars => SandboxInv'
  BY SandboxInvKept
<1> QED
  BY <1>1, <1>2, PTL DEF Spec

\* The claim in provision_or_reconnect is enough: although the session lock is
\* released between the look-up, the claim and the provider call, the provider
\* never provisions one run for two callers at once.
THEOREM ProvisioningExclusive == Spec => []OneProvisioner
<1>1. SandboxInv => OneProvisioner
  BY DEF SandboxInv
<1> QED
  BY <1>1, SandboxInvariant, PTL

\* recover_all attaches an overlay sandbox only while HEAD is the revision in
\* its state file, and that stays so until the process serves.
THEOREM RecoveryPinsRevision == Spec => []RecoveredOnItsRevision
<1>1. SandboxInv => RecoveredOnItsRevision
  BY DEF SandboxInv
<1> QED
  BY <1>1, SandboxInvariant, PTL

-----------------------------------------------------------------------------
(* Calls for a run that come one at a time: what is on disk is registered  *)
(* and current.                                                            *)

\* No two calls for a run overlap.
OneCallPerRun ==
  \A t, u \in Threads :
     thread[t].pc # "idle" /\ thread[u].pc # "idle" /\ thread[t].run = thread[u].run => t = u

Ended == {"Failed", "Destroying", "Destroyed"}
Unsaved == {NoMeta, "Destroying", "Destroyed"}

\* The sidecar, for a run with the session s, the files f, the sidecar e and the
\* call c (Idle when there is none).  meta.json never stands beside a missing
\* sidecar: a call that provisions writes the sidecar first, a destroy removes
\* the directory first, and every other writer works on a session that has one.
Registered(s, f, e, c) ==
  /\ f.meta # NoMeta => e.present
  /\ s.sandbox => s.meta # NoMeta
  /\ s.meta # NoMeta /\ s.state \notin Ended => e.present \/ c.pc = "registry"
  /\ c.pc \in {"ready", "persist"} => e.present
  /\ c.pc = "beat" => s.state \notin Ended /\ s.meta # NoMeta
  /\ c.pc \in {"destroy", "forget", "destroyed"} => s.state = "Destroying"
  /\ c.pc = "forget" => f.meta = NoMeta

\* An attached session and its metadata are in one state, and meta.json has it
\* or the call is about to write it.  The calls that set the state alone work on
\* a session without a sandbox.
Saved(s, f, c) ==
  /\ s.sandbox => s.state = s.meta
  /\ c.pc \in {"claim", "provision", "install"} => ~s.sandbox
  /\ s.meta \notin Unsaved /\ f # NoFiles =>
        f.meta = s.meta \/ c.pc \in {"install", "registry", "ready", "persist"}
  /\ c.pc \in {"registry", "ready"} => s.meta = "Ready"
  /\ c.pc = "persist" => s.meta = c.meta

RunOK(s, f, e, c) ==
  Registered(s, f, e, c) /\ ("fail" \notin Env => Saved(s, f, c))

CallOf(t, r) == thread[t].pc # "idle" /\ thread[t].run = r

\* The sweep for lost sandboxes looks only at runs without metadata.
SweepSparesListed ==
  /\ boot.phase = "reconnect" => \A r \in boot.todo : disk[r].meta # NoMeta
  /\ boot.phase \in {"reconnect", "lost"} =>
        \A r \in Runs : disk[r].meta # NoMeta \/ session[r].meta # NoMeta => r \in boot.seen
  /\ boot.phase = "lost" => \A r \in boot.todo : r \notin boot.seen

CallsInv ==
  /\ \A r \in Runs :
       /\ \A t \in Threads : CallOf(t, r) => RunOK(session[r], disk[r], registry[r], thread[t])
       /\ (\A t \in Threads : ~CallOf(t, r)) => RunOK(session[r], disk[r], registry[r], Idle)
  /\ SweepSparesListed

\* A step of a call t for r that keeps what is known of r keeps it of all runs.
LEMMA CallsKept ==
  ASSUME SandboxInv, CallsInv, OneCallPerRun, OneCallPerRun', Serving',
         NEW t \in Threads, NEW r \in Runs,
         \A q \in Runs \ {r} : /\ session'[q] = session[q] /\ disk'[q] = disk[q]
                               /\ registry'[q] = registry[q],
         \A u \in Threads \ {t} : thread'[u] = thread[u],
         thread[t].pc # "idle" => thread[t].run = r,
         thread'[t].pc = "idle" => thread'[t] = Idle,
         thread'[t].pc # "idle" => thread'[t].run = r,
         thread[t].pc # "idle" \/ thread'[t].pc # "idle",
         RunOK(session[r], disk[r], registry[r], thread[t]) =>
            RunOK(session'[r], disk'[r], registry'[r], thread'[t])
  PROVE  CallsInv'
<1>1. \A u \in Threads \ {t} : ~CallOf(u, r)
  BY DEF CallOf, OneCallPerRun
<1>2. RunOK(session[r], disk[r], registry[r], thread[t])
  <2>1. CASE thread[t].pc # "idle"
    BY <2>1 DEF CallsInv, CallOf
  <2>2. CASE thread[t].pc = "idle"
    <3>1. thread[t] = Idle
      BY <2>2, CallFields DEF SandboxInv
    <3>2. \A u \in Threads : ~CallOf(u, r)
      BY <1>1, <2>2 DEF CallOf
    <3> QED
      BY <3>1, <3>2 DEF CallsInv
  <2> QED
    BY <2>1, <2>2
<1>3. RunOK(session'[r], disk'[r], registry'[r], thread'[t])
  BY <1>2
<1>4. \A u \in Threads : CallOf(u, r)' => u = t
  BY <1>1 DEF CallOf
<1>5. (\A u \in Threads : ~CallOf(u, r)') => thread'[t] = Idle
  BY DEF CallOf
<1>6. ASSUME NEW q \in Runs, q # r
      PROVE  \A u \in Threads : /\ CallOf(u, q)' <=> CallOf(u, q)
                                /\ CallOf(u, q) => thread'[u] = thread[u]
  BY <1>6 DEF CallOf
<1>7. ASSUME NEW q \in Runs
      PROVE  /\ \A u \in Threads :
                  CallOf(u, q)' => RunOK(session'[q], disk'[q], registry'[q], thread'[u])
             /\ (\A u \in Threads : ~CallOf(u, q)') =>
                  RunOK(session'[q], disk'[q], registry'[q], Idle)
  <2>1. CASE q = r
    BY <1>3, <1>4, <1>5, <2>1
  <2>2. CASE q # r
    <3>1. session'[q] = session[q] /\ disk'[q] = disk[q] /\ registry'[q] = registry[q]
      BY <2>2
    <3> QED
      BY <1>6, <2>2, <3>1 DEF CallsInv
  <2> QED
    BY <2>1, <2>2
<1>8. SweepSparesListed'
  BY DEF SweepSparesListed, Serving
<1> QED
  BY <1>7, <1>8 DEF CallsInv

\* A step that neither begins nor ends a call, for a run without a sandbox.
LEMMA QuietStep ==
  ASSUME SandboxInv, CallsInv, Serving', NEW r \in Runs, NEW s \in Sessions,
         SetSession(r, s), UNCHANGED <<disk, registry, thread>>,
         s.meta = session[r].meta, ~s.sandbox, ~session[r].sandbox,
         s.state \notin Ended, session[r].state \notin Ended
  PROVE  CallsInv'
<1>1. session' = [session EXCEPT ![r] = s] /\ DOMAIN session = Runs
  BY DEF SetSession, SandboxInv, TypeOK
<1>2. \A f, e, c : RunOK(session[r], f, e, c) => RunOK(s, f, e, c)
  BY DEF RunOK, Registered, Saved, Ended
<1>3. \A q \in Runs \ {r} : session'[q] = session[q]
  BY <1>1
<1>4. session'[r] = s
  BY <1>1
<1>5. \A u \in Threads, q \in Runs : CallOf(u, q)' <=> CallOf(u, q)
  BY DEF CallOf
<1>6. ASSUME NEW q \in Runs
      PROVE  /\ \A u \in Threads :
                  CallOf(u, q)' => RunOK(session'[q], disk'[q], registry'[q], thread'[u])
             /\ (\A u \in Threads : ~CallOf(u, q)') =>
                  RunOK(session'[q], disk'[q], registry'[q], Idle)
  <2>1. \A c : RunOK(session[q], disk[q], registry[q], c) =>
                  RunOK(session'[q], disk'[q], registry'[q], c)
    <3>1. CASE q = r
      BY <1>2, <1>4, <3>1
    <3>2. CASE q # r
      BY <1>3, <3>2
    <3> QED
      BY <3>1, <3>2
  <2> QED
    BY <1>5, <2>1 DEF CallsInv
<1>7. SweepSparesListed'
  BY DEF SweepSparesListed, Serving
<1> QED
  BY <1>6, <1>7 DEF CallsInv

\* A session that enters a state it may enter is registered, and the write of
\* the state comes next.
LEMMA EnterKeepsRun ==
  ASSUME TypeOK, NEW t \in Threads, NEW r \in Runs,
         NEW state \in {"Active", "Checkpointed", "Preserved"},
         MayEnter(session[r].state, state), Enter(t, r, state),
         thread[t].pc \in {"idle", "checkpointed"},
         disk'[r] = disk[r], registry'[r] = registry[r],
         RunOK(session[r], disk[r], registry[r], thread[t])
  PROVE  RunOK(session'[r], disk'[r], registry'[r], thread'[t])
<1> DEFINE meta == IF session[r].meta = NoMeta THEN NoMeta ELSE state
           c == IF meta = NoMeta THEN Idle ELSE SnapCall(r, meta)
           s == [session[r] EXCEPT !.state = state, !.meta = meta]
<1>1. session[r].state \notin Ended
  BY DEF MayEnter, CanTransition, Ended
<1>2. session'[r] = s /\ thread'[t] = c
  BY TypeParts DEF Enter, Return, Goto, SetSession
<1>3. s.meta = meta /\ s.sandbox = session[r].sandbox /\ s.state = state
  BY SessionFields DEF Sessions, NoSession, Session
<1>4. (meta # NoMeta <=> session[r].meta # NoMeta) /\ (meta # NoMeta => meta = state)
  BY DEF NoMeta
<1>5. c.pc \in {"idle", "persist"} /\ (c.pc = "persist" <=> meta # NoMeta)
      /\ (c.pc = "persist" => c.meta = meta)
  BY DEF Idle, SnapCall
<1> HIDE DEF meta, c, s
<1> QED
  BY <1>1, <1>2, <1>3, <1>4, <1>5 DEF RunOK, Registered, Saved, Unsaved

\* A step of a call changes what belongs to its run, and its own thread.
LEMMA StepFrame ==
  ASSUME TypeOK, NEW t \in Threads, Step(t)
  PROVE  /\ \A q \in Runs \ {thread[t].run} :
              /\ session'[q] = session[q] /\ disk'[q] = disk[q]
              /\ registry'[q] = registry[q]
         /\ \A u \in Threads \ {t} : thread'[u] = thread[u]
         /\ thread[t].pc # "idle" /\ thread[t].run \in Runs
         /\ thread'[t].pc = "idle" => thread'[t] = Idle
         /\ thread'[t].pc # "idle" => thread'[t].run = thread[t].run
<1> DEFINE r == thread[t].run
<1> DEFINE Frame ==
      /\ \A q \in Runs \ {thread[t].run} :
           /\ session'[q] = session[q] /\ disk'[q] = disk[q] /\ registry'[q] = registry[q]
      /\ \A u \in Threads \ {t} : thread'[u] = thread[u]
      /\ thread'[t].pc = "idle" => thread'[t] = Idle
      /\ thread'[t].pc # "idle" => thread'[t].run = thread[t].run
<1>busy. thread[t].pc # "idle"
  BY DEF Step, Claim, ProviderProvision, InstallState, WriteRegistry, PersistReady,
         Persist, Beat, Checkpointed, ProviderDestroy, Forget, Destroyed, At
<1>typed. thread[t].run \in Runs
  BY <1>busy, CallFields
<1> USE TypeParts, <1>busy, <1>typed DEF Goto, Return, SetSession, Call, SnapCall, Idle
<1>failed. ASSUME ProvisioningFails(t, r)
      PROVE  /\ \A q \in Runs \ {r} : session'[q] = session[q]
             /\ \A u \in Threads \ {t} : thread'[u] = thread[u]
             /\ thread'[t] = Idle
  BY <1>failed DEF ProvisioningFails
<1>provisioned. ASSUME NEW v, Provisioned(t, r, v)
      PROVE  /\ \A q \in Runs \ {r} : session'[q] = session[q]
             /\ \A u \in Threads \ {t} : thread'[u] = thread[u]
             /\ thread'[t].pc = "registry" /\ thread'[t].run = r
  BY <1>provisioned DEF Provisioned
<1>1. Claim(t) => Frame
  <2> SUFFICES ASSUME Claim(t) PROVE Frame
    OBVIOUS
  <2>1. \E s : session' = [session EXCEPT ![r] = s]
    BY DEF Claim
  <2>2. \/ thread' = [thread EXCEPT ![t] = Idle]
        \/ thread' = [thread EXCEPT ![t] = Call("provision", r)]
    BY DEF Claim
  <2>3. UNCHANGED <<disk, registry>>
    BY DEF Claim
  <2> QED
    BY <2>1, <2>2, <2>3
<1>2. ProviderProvision(t) => Frame
  <2> SUFFICES ASSUME ProviderProvision(t) PROVE Frame
    OBVIOUS
  <2>1. \A q \in Runs \ {r} : disk'[q] = disk[q] /\ registry'[q] = registry[q]
    BY DEF ProviderProvision
  <2>2. CASE ProvisioningFails(t, r) \/ \E v : Provisioned(t, r, v)
    BY <2>1, <2>2, <1>failed, <1>provisioned
  <2>3. CASE Goto(t, [pc |-> "install", run |-> r, rev |-> Head]) /\ UNCHANGED session
    BY <2>1, <2>3
  <2> QED
    BY <2>2, <2>3 DEF ProviderProvision
<1>3. InstallState(t) => Frame
  <2> SUFFICES ASSUME InstallState(t) PROVE Frame
    OBVIOUS
  <2>1. \A q \in Runs \ {r} : disk'[q] = disk[q] /\ registry'[q] = registry[q]
    BY DEF InstallState
  <2> QED
    BY <2>1, <1>failed, <1>provisioned DEF InstallState
<1>4. WriteRegistry(t) => Frame
  <2> SUFFICES ASSUME WriteRegistry(t) PROVE Frame
    OBVIOUS
  <2>1. \A q \in Runs \ {r} : disk'[q] = disk[q] /\ registry'[q] = registry[q]
    BY DEF WriteRegistry
  <2>2. CASE ProvisioningFails(t, r)
    BY <2>1, <2>2, <1>failed
  <2>3. CASE Goto(t, Call("ready", r)) /\ UNCHANGED session
    BY <2>1, <2>3
  <2> QED
    BY <2>2, <2>3 DEF WriteRegistry
<1>5. PersistReady(t) => Frame
  BY DEF PersistReady, ProvisioningFails
<1>6. Persist(t) => Frame
  BY DEF Persist
<1>7. Beat(t) => Frame
  BY DEF Beat
<1>8. Checkpointed(t) => Frame
  BY DEF Checkpointed, Enter
<1>9. ProviderDestroy(t) => Frame
  BY DEF ProviderDestroy
<1>10. Forget(t) => Frame
  BY DEF Forget
<1>11. Destroyed(t) => Frame
  BY DEF Destroyed
<1>12. Frame
  BY <1>1, <1>2, <1>3, <1>4, <1>5, <1>6, <1>7, <1>8, <1>9, <1>10, <1>11 DEF Step
<1> HIDE DEF Frame
<1> QED
  BY <1>12, <1>busy, <1>typed DEF Frame

\* Every step of a call keeps what is known of its run.
LEMMA StepKeepsRun ==
  ASSUME TypeOK, NEW t \in Threads, NEW r \in Runs, r = thread[t].run, Step(t),
         RunOK(session[r], disk[r], registry[r], thread[t])
  PROVE  RunOK(session'[r], disk'[r], registry'[r], thread'[t])
<1> USE TypeParts
<1>1. session[r] = NoSession => session[r].meta = NoMeta /\ ~session[r].sandbox
  BY DEF NoSession, Session
<1>2. CASE Claim(t)
  <2> DEFINE s == IF session[r] = NoSession
                  THEN Session("Initial", FALSE, NoMeta, TRUE) ELSE session[r]
             ok == <<s.state, "Provisioning">> \in CanTransition
             new == IF ok THEN [s EXCEPT !.state = "Provisioning", !.limits = TRUE] ELSE s
             c == IF ok THEN Call("provision", r) ELSE Idle
  <2>1. /\ session'[r] = new /\ disk'[r] = disk[r] /\ registry'[r] = registry[r]
        /\ thread'[t] = c
    BY <1>2 DEF Claim, Goto, Return, SetSession
  <2>2. s \in Sessions /\ s.meta = session[r].meta /\ s.sandbox = session[r].sandbox
    BY <1>1, SessionFields, SessionTyped, StatesTyped DEF Session
  <2>3. new.meta = s.meta /\ new.sandbox = s.sandbox
    BY <2>2 DEF Sessions, NoSession, Session
  <2>4. c.pc \in {"provision", "idle"}
    BY DEF Call, Idle
  <2>5. session[r].meta # NoMeta /\ new.state \notin Ended => session[r].state \notin Ended
    BY <1>1, <2>2 DEF Ended, CanTransition, Sessions, NoSession, Session
  <2>6. thread[t].pc = "claim"
    BY <1>2 DEF Claim, At
  <2> HIDE DEF new, s, c, ok
  <2> QED
    BY <2>1, <2>2, <2>3, <2>4, <2>5, <2>6 DEF RunOK, Registered, Saved
<1>3. ASSUME ProvisioningFails(t, r), registry'[r] = registry[r],
             disk'[r] = disk[r], thread[t].pc # "install" \/ "fail" \in Env,
             thread[t].pc \in {"provision"} \/ "fail" \in Env
      PROVE  RunOK(session'[r], disk'[r], registry'[r], thread'[t])
  <2> DEFINE new == [session[r] EXCEPT !.state = "Failed"]
  <2>1. session'[r] = new /\ thread'[t] = Idle
    BY <1>3 DEF ProvisioningFails, Return, Goto, SetSession
  <2>2. new.state = "Failed" /\ new.meta = session[r].meta /\ new.sandbox = session[r].sandbox
    BY SessionFields DEF Sessions, NoSession, Session
  <2> HIDE DEF new
  <2> QED
    BY <1>3, <2>1, <2>2 DEF RunOK, Registered, Saved, Ended, Idle
<1>4. ASSUME NEW v, Provisioned(t, r, v), registry'[r] = registry[r],
             disk'[r].meta = disk[r].meta
      PROVE  RunOK(session'[r], disk'[r], registry'[r], thread'[t])
  <2>1. /\ session'[r] = Session("Ready", TRUE, "Ready", TRUE)
        /\ thread'[t] = [pc |-> "registry", run |-> r, rev |-> v]
    BY <1>4 DEF Provisioned, Goto, SetSession
  <2> QED
    BY <1>4, <2>1 DEF RunOK, Registered, Saved, Session, NoMeta
<1>5. CASE ProviderProvision(t)
  <2>1. thread[t].pc = "provision" /\ registry'[r] = registry[r]
    BY <1>5 DEF ProviderProvision, At
  <2>2. CASE disk' = [disk EXCEPT ![r].path = TRUE] /\ Provisioned(t, r, disk[r].rev)
    <3>1. disk'[r].meta = disk[r].meta
      BY <2>2 DEF Files
    <3> QED
      BY <1>4, <2>1, <2>2, <3>1
  <2>3. CASE /\ disk' = [disk EXCEPT ![r].path = TRUE]
             /\ Goto(t, [pc |-> "install", run |-> r, rev |-> Head])
             /\ UNCHANGED session
    <3>1. disk'[r].meta = disk[r].meta
      BY <2>3 DEF Files
    <3>2. thread'[t].pc = "install" /\ session'[r] = session[r]
      BY <2>3 DEF Goto
    <3> QED
      BY <2>1, <3>1, <3>2 DEF RunOK, Registered, Saved
  <2>4. CASE ProvisioningFails(t, r) /\ UNCHANGED disk
    BY <1>3, <2>1, <2>4
  <2> QED
    BY <1>5, <2>2, <2>3, <2>4 DEF ProviderProvision
<1>6. CASE InstallState(t)
  <2>1. registry'[r] = registry[r]
    BY <1>6 DEF InstallState
  <2>2. CASE /\ disk' = [disk EXCEPT ![r].path = TRUE, ![r].rev = thread[t].rev]
             /\ Provisioned(t, r, thread[t].rev)
    <3>1. disk'[r].meta = disk[r].meta
      BY <2>2 DEF Files
    <3> QED
      BY <1>4, <2>1, <2>2, <3>1
  <2>3. CASE Fails /\ ProvisioningFails(t, r) /\ UNCHANGED disk
    BY <1>3, <2>1, <2>3 DEF Fails
  <2> QED
    BY <1>6, <2>2, <2>3 DEF InstallState
<1>7. CASE WriteRegistry(t)
  <2>1. disk'[r] = disk[r] /\ thread[t].pc = "registry"
    BY <1>7 DEF WriteRegistry, At
  <2>2. CASE /\ registry' = [registry EXCEPT ![r] = Entry(thread[t].rev)]
             /\ Goto(t, Call("ready", r))
             /\ UNCHANGED session
    <3>1. /\ registry'[r].present /\ thread'[t].pc = "ready" /\ session'[r] = session[r]
      BY <2>2 DEF Entry, Goto, Call
    <3> QED
      BY <2>1, <3>1 DEF RunOK, Registered, Saved
  <2>3. CASE Fails /\ ProvisioningFails(t, r) /\ UNCHANGED registry
    BY <1>3, <2>1, <2>3 DEF Fails
  <2> QED
    BY <1>7, <2>2, <2>3 DEF WriteRegistry
<1>8. CASE PersistReady(t)
  <2>1. registry'[r] = registry[r] /\ thread[t].pc = "ready"
    BY <1>8 DEF PersistReady, At
  <2>2. CASE /\ disk' = [disk EXCEPT ![r].meta = "Ready"]
             /\ Return(t)
             /\ UNCHANGED session
    <3>1. disk'[r].meta = "Ready" /\ thread'[t].pc = "idle" /\ session'[r] = session[r]
      BY <2>2 DEF Files, Return, Goto, Idle
    <3> QED
      BY <2>1, <3>1 DEF RunOK, Registered, Saved
  <2>3. CASE Fails /\ ProvisioningFails(t, r) /\ UNCHANGED disk
    BY <1>3, <2>1, <2>3 DEF Fails
  <2> QED
    BY <1>8, <2>2, <2>3 DEF PersistReady
<1>9. CASE Persist(t)
  <2>1. /\ registry'[r] = registry[r] /\ session'[r] = session[r]
        /\ thread[t].pc = "persist" /\ thread'[t].pc = "idle"
    BY <1>9 DEF Persist, At, Return, Goto, Idle
  <2>2. CASE disk' = [disk EXCEPT ![r].meta = thread[t].meta]
    <3>1. disk'[r].meta = thread[t].meta
      BY <2>2 DEF Files
    <3> QED
      BY <2>1, <3>1 DEF RunOK, Registered, Saved
  <2>3. CASE Fails /\ UNCHANGED disk
    BY <2>1, <2>3 DEF RunOK, Registered, Saved, Fails
  <2> QED
    BY <1>9, <2>2, <2>3 DEF Persist
<1>10. CASE Beat(t)
  <2>1. /\ registry'[r] = registry[r] /\ session'[r] = session[r] /\ disk'[r] = disk[r]
        /\ thread[t].pc = "beat" /\ thread'[t] = SnapCall(r, session[r].meta)
    BY <1>10 DEF Beat, At, Goto
  <2> QED
    BY <2>1 DEF RunOK, Registered, Saved, SnapCall
<1>11. CASE Checkpointed(t)
  <2>1. /\ registry'[r] = registry[r] /\ disk'[r] = disk[r]
        /\ thread[t].pc = "checkpointed"
    BY <1>11 DEF Checkpointed, At
  <2>2. CASE MayEnter(session[r].state, "Checkpointed") /\ Enter(t, r, "Checkpointed")
    BY <2>1, <2>2, StatesTyped, EnterKeepsRun
  <2>3. CASE Return(t) /\ UNCHANGED session
    <3>1. session'[r] = session[r] /\ thread'[t].pc = "idle"
      BY <2>3 DEF Return, Goto, Idle
    <3> QED
      BY <2>1, <3>1 DEF RunOK, Registered, Saved
  <2> QED
    BY <1>11, <2>2, <2>3 DEF Checkpointed
<1>12. CASE ProviderDestroy(t)
  <2>1. /\ registry'[r] = registry[r] /\ session'[r] = session[r]
        /\ thread[t].pc = "destroy"
    BY <1>12 DEF ProviderDestroy, At
  <2>2. CASE /\ disk' = IF thread[t].preserve THEN disk ELSE [disk EXCEPT ![r] = NoFiles]
             /\ Goto(t, Call(IF thread[t].preserve THEN "destroyed" ELSE "forget", r))
    <3>1. thread'[t].pc = IF thread[t].preserve THEN "destroyed" ELSE "forget"
      BY <2>2 DEF Goto, Call
    <3>2. disk'[r] = IF thread[t].preserve THEN disk[r] ELSE NoFiles
      BY <2>2
    <3> QED
      BY <2>1, <3>1, <3>2 DEF RunOK, Registered, Saved, NoFiles
  <2>3. CASE Return(t) /\ UNCHANGED disk
    <3>1. disk'[r] = disk[r] /\ thread'[t].pc = "idle"
      BY <2>3 DEF Return, Goto, Idle
    <3> QED
      BY <2>1, <3>1 DEF RunOK, Registered, Saved
  <2> QED
    BY <1>12, <2>2, <2>3 DEF ProviderDestroy
<1>13. CASE Forget(t)
  <2>1. disk'[r] = disk[r] /\ session'[r] = session[r] /\ thread[t].pc = "forget"
    BY <1>13 DEF Forget, At
  <2>2. CASE registry' = [registry EXCEPT ![r] = NoEntry] /\ Goto(t, Call("destroyed", r))
    <3>1. thread'[t].pc = "destroyed"
      BY <2>2 DEF Goto, Call
    <3> QED
      BY <2>1, <3>1 DEF RunOK, Registered, Saved, Ended
  <2>3. CASE Return(t) /\ UNCHANGED registry
    <3>1. registry'[r] = registry[r] /\ thread'[t].pc = "idle"
      BY <2>3 DEF Return, Goto, Idle
    <3> QED
      BY <2>1, <3>1 DEF RunOK, Registered, Saved
  <2> QED
    BY <1>13, <2>2, <2>3 DEF Forget
<1>14. CASE Destroyed(t)
  <2>1. /\ disk'[r] = disk[r] /\ registry'[r] = registry[r]
        /\ thread[t].pc = "destroyed" /\ thread'[t].pc = "idle"
    BY <1>14 DEF Destroyed, At, Return, Goto, Idle
  <2>2. session[r].state = "Destroying"
    BY <2>1 DEF RunOK, Registered
  <2>3. session'[r] = [session[r] EXCEPT !.state = "Destroyed", !.meta = "Destroyed"]
    BY <1>14, <2>2 DEF Destroyed, SetSession, MayEnter, CanTransition
  <2>4. session'[r].state = "Destroyed" /\ session'[r].meta = "Destroyed"
    BY <2>3, SessionFields DEF Sessions, NoSession, Session
  <2> QED
    BY <2>1, <2>4 DEF RunOK, Registered, Saved, Ended, Unsaved, NoMeta
<1> QED
  BY <1>2, <1>5, <1>6, <1>7, <1>8, <1>9, <1>10, <1>11, <1>12, <1>13, <1>14 DEF Step

LEMMA StepKeepsCalls ==
  ASSUME SandboxInv, CallsInv, OneCallPerRun, OneCallPerRun', NEW t \in Threads, Step(t)
  PROVE  CallsInv'
<1> DEFINE r == thread[t].run
<1>1. TypeOK /\ Serving'
  BY CallsServe DEF SandboxInv
<1>2. r \in Runs /\ thread[t].pc # "idle"
  BY <1>1, StepFrame
<1>3. RunOK(session[r], disk[r], registry[r], thread[t]) =>
         RunOK(session'[r], disk'[r], registry'[r], thread'[t])
  BY <1>1, <1>2, StepKeepsRun
<1> QED
  BY <1>1, <1>2, <1>3, StepFrame, CallsKept

\* A request that begins a call changes what belongs to its run, and its thread.
LEMMA BeginKeepsCalls ==
  ASSUME SandboxInv, CallsInv, OneCallPerRun, OneCallPerRun', NEW t \in Threads,
         NEW r \in Runs, Serving', thread[t].pc = "idle",
         NEW s, SetSession(r, s), NEW c, Goto(t, c), c.pc # "idle", c.run = r,
         UNCHANGED <<disk, registry>>,
         RunOK(session[r], disk[r], registry[r], thread[t]) =>
            RunOK(s, disk[r], registry[r], c)
  PROVE  CallsInv'
<1>1. /\ session'[r] = s /\ thread'[t] = c
      /\ \A q \in Runs \ {r} : session'[q] = session[q]
      /\ \A u \in Threads \ {t} : thread'[u] = thread[u]
  BY DEF SetSession, Goto, SandboxInv, TypeOK
<1> QED
  BY <1>1, CallsKept

\* A change of state made by Enter, at the beginning of a call.
LEMMA EnterKeepsCalls ==
  ASSUME SandboxInv, CallsInv, OneCallPerRun, OneCallPerRun', NEW t \in Threads,
         NEW r \in Runs, Serving', thread[t].pc = "idle",
         NEW state \in {"Active", "Preserved"}, session[r] # NoSession,
         MayEnter(session[r].state, state), Enter(t, r, state),
         UNCHANGED <<disk, registry>>
  PROVE  CallsInv'
<1>0. TypeOK /\ session[r] \in Sessions /\ thread[t] = Idle
  BY SessionFields, CallFields DEF SandboxInv
<1>1. CASE session[r].meta = NoMeta
  <2> DEFINE s == [session[r] EXCEPT !.state = state, !.meta = NoMeta]
  <2>1. SetSession(r, s) /\ UNCHANGED thread
    BY <1>0, <1>1 DEF Enter, Return, Goto, TypeOK
  <2>2. s \in Sessions /\ s.meta = NoMeta /\ s.sandbox = session[r].sandbox /\ s.state = state
    BY <1>0, StatesTyped DEF Sessions
  <2>3. session[r].state \notin Ended /\ state \notin Ended
    BY DEF MayEnter, CanTransition, Ended
  <2>4. ~session[r].sandbox
    BY <1>1 DEF CallsInv, RunOK, Registered
  <2> HIDE DEF s
  <2> QED
    BY <1>1, <2>1, <2>2, <2>3, <2>4, QuietStep
<1>2. CASE session[r].meta # NoMeta
  <2> DEFINE s == [session[r] EXCEPT !.state = state, !.meta = state]
             c == SnapCall(r, state)
  <2>1. SetSession(r, s) /\ Goto(t, c)
    BY <1>2 DEF Enter, NoMeta
  <2>2. c.pc # "idle" /\ c.run = r
    BY DEF SnapCall
  <2>3. session'[r] = s /\ thread'[t] = c
    BY <1>0, <2>1 DEF SetSession, Goto, TypeOK
  <2>4. RunOK(session[r], disk[r], registry[r], thread[t]) =>
           RunOK(s, disk[r], registry[r], c)
    BY <1>0, <2>3, EnterKeepsRun
  <2> HIDE DEF s, c
  <2> QED
    BY <2>1, <2>2, <2>4, BeginKeepsCalls
<1> QED
  BY <1>1, <1>2

LEMMA RequestKeepsCalls ==
  ASSUME SandboxInv, CallsInv, OneCallPerRun, OneCallPerRun', NEW t \in Threads,
         NEW r \in Runs, Request(t, r)
  PROVE  CallsInv'
<1>0. TypeOK /\ Serving' /\ session[r] \in Sessions
  BY CallsServe, SessionFields DEF SandboxInv
<1>1. thread[t].pc = "idle" /\ UNCHANGED <<disk, registry>>
  BY DEF Request, Provision, Activate, Heartbeat, Checkpoint, Preserve, Destroy,
         ObserveResourceLimit, Begin, PreserveRun, DestroyRun
<1>2. ASSUME NEW pc \in {"claim", "beat", "checkpointed"}, Goto(t, Call(pc, r)),
             UNCHANGED session,
             pc = "beat" => Attached(r) /\ session[r].state = "Active",
             pc = "claim" => ~Attached(r)
      PROVE  CallsInv'
  <2> DEFINE c == Call(pc, r)
  <2>1. SetSession(r, session[r])
    BY <1>0, <1>2 DEF SetSession, TypeOK
  <2>2. c.pc = pc /\ c.run = r /\ Goto(t, c)
    BY <1>2 DEF Call
  <2>3. RunOK(session[r], disk[r], registry[r], thread[t]) =>
           RunOK(session[r], disk[r], registry[r], c)
    BY <1>1, <1>2, <2>2 DEF RunOK, Registered, Saved, Ended, Attached
  <2> HIDE DEF c
  <2> QED
    BY <1>0, <1>1, <2>1, <2>2, <2>3, BeginKeepsCalls
<1>3. CASE Provision(t, r)
  BY <1>2, <1>3 DEF Provision
<1>4. CASE Activate(t, r)
  <2>1. session[r] # NoSession /\ MayEnter(session[r].state, "Active")
    BY <1>4 DEF Activate
  <2>2. CASE Enter(t, r, "Active")
    BY <1>0, <1>1, <2>1, <2>2, EnterKeepsCalls
  <2>3. CASE /\ ~session[r].sandbox
             /\ SetSession(r, [session[r] EXCEPT !.state = "Active"]) /\ UNCHANGED thread
    <3> DEFINE s == [session[r] EXCEPT !.state = "Active"]
    <3>1. s \in Sessions /\ s.meta = session[r].meta /\ s.sandbox = session[r].sandbox
          /\ s.state = "Active"
      BY <1>0, <2>1, StatesTyped DEF Sessions
    <3>2. session[r].state \notin Ended /\ "Active" \notin Ended
      BY <2>1 DEF MayEnter, CanTransition, Ended
    <3>3. SetSession(r, s) /\ UNCHANGED thread
      BY <2>3
    <3> HIDE DEF s
    <3> QED
      BY <1>0, <1>1, <2>3, <3>1, <3>2, <3>3, QuietStep
  <2> QED
    BY <1>4, <2>2, <2>3 DEF Activate
<1>5. CASE Heartbeat(t, r)
  BY <1>2, <1>5 DEF Heartbeat
<1>6. CASE Checkpoint(t, r)
  BY <1>2, <1>6 DEF Checkpoint
<1>7. CASE PreserveRun(t, r)
  BY <1>0, <1>1, <1>7, EnterKeepsCalls DEF PreserveRun
<1>8. CASE \E preserve \in BOOLEAN : DestroyRun(t, r, preserve)
  <2>1. PICK preserve \in BOOLEAN : DestroyRun(t, r, preserve)
    BY <1>8
  <2> DEFINE s == [session[r] EXCEPT !.state = "Destroying", !.meta = "Destroying"]
             c == [pc |-> "destroy", run |-> r, preserve |-> preserve]
  <2>2. SetSession(r, s) /\ Goto(t, c) /\ c.pc = "destroy" /\ c.run = r
    BY <2>1 DEF DestroyRun
  <2>3. s.state = "Destroying" /\ s.meta = "Destroying"
    BY <1>0 DEF Sessions, NoSession, Session
  <2>4. RunOK(session[r], disk[r], registry[r], thread[t]) =>
           RunOK(s, disk[r], registry[r], c)
    BY <2>2, <2>3 DEF RunOK, Registered, Saved, Ended, Unsaved, NoMeta
  <2> HIDE DEF s, c
  <2> QED
    BY <1>0, <1>1, <2>2, <2>4, BeginKeepsCalls
<1> QED
  BY <1>3, <1>4, <1>5, <1>6, <1>7, <1>8
     DEF Request, Preserve, Destroy, ObserveResourceLimit

\* What is known of a run while no call is under way.
Resting(r) == RunOK(session[r], disk[r], registry[r], Idle)

LEMMA RestingMeans ==
  ASSUME \A t \in Threads : thread[t] = Idle
  PROVE  CallsInv <=> (\A r \in Runs : Resting(r)) /\ SweepSparesListed
BY DEF CallsInv, CallOf, Resting, Idle

LEMMA RecoverRunKeepsCalls ==
  ASSUME SandboxInv, CallsInv, NEW r \in Runs, RecoverRun(r)
  PROVE  CallsInv'
<1>0. TypeOK /\ ~Serving /\ thread' = thread /\ \A t \in Threads : thread[t] = Idle
  BY DEF RecoverRun, ReconnectRun, LoseRun, DriftRun, ReattachRun, SandboxInv, ThreadsServe,
         Serving
<1>1. (\A q \in Runs : Resting(q)) /\ SweepSparesListed
  BY <1>0, RestingMeans
<1>2. /\ disk \in [Runs -> Files] /\ session \in [Runs -> Sessions]
      /\ registry \in [Runs -> Sidecars] /\ boot \in Boots
  BY <1>0, TypeParts, BootTyped
<1>3. CASE ReconnectRun(r)
  <2>1. /\ boot.phase = "reconnect" /\ r \in boot.todo
        /\ boot'.phase = "reconnect" /\ boot'.todo = boot.todo \ {r} /\ boot'.seen = boot.seen
        /\ registry' = registry
    BY <1>2, <1>3 DEF ReconnectRun, Boots
  <2>2. disk[r].meta # NoMeta /\ r \in boot.seen
    BY <1>1, <2>1 DEF SweepSparesListed
  <2>3. registry[r].present
    BY <1>1, <2>2 DEF Resting, RunOK, Registered
  <2>4. CASE UNCHANGED <<disk, session>>
    <3>1. (\A q \in Runs : Resting(q)') /\ SweepSparesListed'
      BY <1>1, <2>1, <2>4 DEF Resting, SweepSparesListed
    <3> QED
      BY <1>0, <3>1, RestingMeans DEF CallsInv, CallOf, Resting, Idle
  <2>5. ASSUME NEW state \in SandboxStates, NEW a \in BOOLEAN, Recovered(r, state, a)
        PROVE  CallsInv'
    <3>1. /\ session'[r] = Session(state, a, state, FALSE) /\ disk'[r].meta = state
          /\ \A q \in Runs \ {r} : session'[q] = session[q] /\ disk'[q] = disk[q]
      BY <1>2, <2>5 DEF Recovered, SetSession, Files
    <3>2. state # NoMeta
      BY DEF SandboxStates, NoMeta
    <3>3. \A q \in Runs : Resting(q)'
      <4>1. Resting(r)'
        BY <2>1, <2>3, <3>1, <3>2 DEF Resting, RunOK, Registered, Saved, Idle, Session
      <4>2. \A q \in Runs \ {r} : Resting(q)'
        BY <1>1, <2>1, <3>1 DEF Resting
      <4> QED
        BY <4>1, <4>2
    <3>4. SweepSparesListed'
      BY <1>1, <2>1, <2>2, <3>1, <1>2 DEF SweepSparesListed, Boots
    <3> QED
      BY <1>0, <3>3, <3>4 DEF CallsInv, CallOf, Resting, Idle
  <2>6. Reconnect(r) \in {"ok", "drift", "error", "none"}
    BY DEF Reconnect
  <2>7. RecoveredState(disk[r].meta) \in SandboxStates
    BY <1>2, <2>2 DEF RecoveredState, Files, SandboxStates
  <2>8. CASE Reconnect(r) = "ok"
    BY <1>3, <2>5, <2>7, <2>8 DEF ReconnectRun
  <2>9. CASE Reconnect(r) = "drift"
    BY <1>3, <2>5, <2>9, StatesTyped DEF ReconnectRun
  <2>10. CASE Reconnect(r) = "error"
    BY <1>3, <2>5, <2>10, StatesTyped DEF ReconnectRun
  <2>11. CASE Reconnect(r) = "none"
    BY <1>3, <2>4, <2>11 DEF ReconnectRun
  <2> QED
    BY <2>6, <2>8, <2>9, <2>10, <2>11
<1>4. CASE LoseRun(r)
  <2>1. /\ boot.phase = "lost" /\ r \in boot.todo
        /\ boot'.phase = "lost" /\ boot'.todo = boot.todo \ {r} /\ boot'.seen = boot.seen
        /\ UNCHANGED <<session, disk>>
        /\ \A q \in Runs \ {r} : registry'[q] = registry[q]
    BY <1>2, <1>4 DEF LoseRun, Boots
  <2>2. disk[r].meta = NoMeta /\ session[r].meta = NoMeta
    BY <1>1, <2>1 DEF SweepSparesListed
  <2>3. \A q \in Runs : Resting(q)'
    <3>1. Resting(r)'
      BY <1>1, <2>1, <2>2 DEF Resting, RunOK, Registered, Saved, Idle, Unsaved
    <3>2. \A q \in Runs \ {r} : Resting(q)'
      BY <1>1, <2>1 DEF Resting
    <3> QED
      BY <3>1, <3>2
  <2>4. SweepSparesListed'
    BY <1>1, <2>1 DEF SweepSparesListed
  <2> QED
    BY <1>0, <2>3, <2>4 DEF CallsInv, CallOf, Resting, Idle
<1>5. CASE DriftRun(r)
  <2>1. /\ boot'.phase = "drift" /\ UNCHANGED <<session, disk>>
        /\ \A q \in Runs : registry'[q].present = registry[q].present
    BY <1>2, <1>5 DEF DriftRun, Boots, Sidecars
  <2>2. \A q \in Runs : Resting(q)'
    BY <1>1, <2>1 DEF Resting, RunOK, Registered, Saved
  <2> QED
    BY <1>0, <2>1, <2>2 DEF CallsInv, CallOf, Resting, Idle, SweepSparesListed
<1>6. CASE ReattachRun(r)
  <2>1. boot'.phase = "reattach" /\ UNCHANGED <<session, disk, registry>>
    BY <1>2, <1>6 DEF ReattachRun, Boots
  <2> QED
    BY <1>0, <1>1, <2>1 DEF CallsInv, CallOf, Resting, Idle, SweepSparesListed
<1> QED
  BY <1>3, <1>4, <1>5, <1>6 DEF RecoverRun

LEMMA ProcessKeepsCalls ==
  ASSUME SandboxInv, CallsInv,
         \/ Boot \/ NextPhase \/ RecoveryFails \/ Serve \/ Crash \/ MoveHead
         \/ \E r \in Runs : Wipe(r)
  PROVE  CallsInv'
<1>1. CASE Boot
  <2> DEFINE listed == {r \in Runs : disk[r].meta # NoMeta}
             todo == {r \in listed : ~IsTerminal(disk[r].meta)}
  <2>1. /\ boot.phase = "down" /\ boot' = Booting("reconnect", todo, listed)
        /\ UNCHANGED <<session, disk, registry, thread>>
    BY <1>1 DEF Boot
  <2>2. \A r \in Runs : session[r] = NoSession
    BY <2>1 DEF SandboxInv, DownIsEmpty
  <2>3. boot'.phase = "reconnect" /\ boot'.todo = todo /\ boot'.seen = listed
    BY <2>1 DEF Booting
  <2>4. SweepSparesListed'
    BY <2>1, <2>2, <2>3 DEF SweepSparesListed, NoSession, Session
  <2> QED
    BY <2>1, <2>4 DEF CallsInv, CallOf
<1>2. CASE NextPhase
  <2>1. /\ boot'.phase = "lost" => boot.phase = "reconnect" /\ boot'.todo = Due("lost")
        /\ boot'.phase \in {"lost", "drift", "reattach", "runs"} /\ boot'.seen = boot.seen
        /\ UNCHANGED <<session, disk, registry, thread>>
    <3>1. boot \in Boots
      BY BootTyped DEF SandboxInv
    <3> QED
      BY <1>2, <3>1 DEF NextPhase, Boots
  <2>2. \A r \in Due("lost") : r \notin boot.seen
    BY DEF Due
  <2>3. SweepSparesListed'
    BY <2>1, <2>2 DEF SweepSparesListed, CallsInv
  <2> QED
    BY <2>1, <2>3 DEF CallsInv, CallOf
<1>3. CASE RecoveryFails
  BY <1>3 DEF RecoveryFails, CallsInv, CallOf, SweepSparesListed, Booting
<1>4. CASE Serve
  BY <1>4 DEF Serve, CallsInv, CallOf, SweepSparesListed, Booting
<1>5. CASE MoveHead
  BY <1>5 DEF MoveHead, CallsInv, CallOf, SweepSparesListed, Serving
<1>6. CASE Crash
  <2>1. /\ boot'.phase = "down" /\ UNCHANGED <<disk, registry>>
        /\ \A r \in Runs : session'[r] = NoSession
        /\ \A t \in Threads : thread'[t] = Idle
    BY <1>6 DEF Crash, Booting
  <2>2. \A r \in Runs : \E c : RunOK(session[r], disk[r], registry[r], c)
    BY DEF CallsInv
  <2>3. \A r \in Runs : Resting(r)'
    BY <2>1, <2>2 DEF Resting, RunOK, Registered, Saved, Idle, NoSession, Session, Unsaved
  <2> QED
    BY <2>1, <2>3 DEF CallsInv, CallOf, Resting, Idle, SweepSparesListed
<1>7. CASE \E r \in Runs : Wipe(r)
  <2>1. PICK r \in Runs : Wipe(r)
    BY <1>7
  <2>2. /\ boot'.phase \in {"down", "serving"} /\ disk'[r] = NoFiles
        /\ \A q \in Runs \ {r} : disk'[q] = disk[q]
        /\ UNCHANGED <<session, registry, thread>>
    BY <2>1, TypeParts DEF Wipe, SandboxInv
  <2>3. \A s, e, c : RunOK(s, disk[r], e, c) => RunOK(s, NoFiles, e, c)
    BY DEF RunOK, Registered, Saved, NoFiles
  <2>4. ASSUME NEW q \in Runs
        PROVE  \A c : RunOK(session[q], disk[q], registry[q], c) =>
                         RunOK(session'[q], disk'[q], registry'[q], c)
    BY <2>2, <2>3
  <2> QED
    BY <2>2, <2>4 DEF CallsInv, CallOf, SweepSparesListed
<1> QED
  BY <1>1, <1>2, <1>3, <1>4, <1>5, <1>6, <1>7

LEMMA CallsInvKept ==
  SandboxInv /\ CallsInv /\ OneCallPerRun /\ OneCallPerRun' /\ [Next]_sandboxVars => CallsInv'
<1> SUFFICES ASSUME SandboxInv, CallsInv, OneCallPerRun, OneCallPerRun', [Next]_sandboxVars
             PROVE  CallsInv'
  OBVIOUS
<1>1. CASE UNCHANGED sandboxVars
  BY <1>1 DEF sandboxVars, CallsInv, CallOf, SweepSparesListed
<1> QED
  BY <1>1, StepKeepsCalls, RequestKeepsCalls, RecoverRunKeepsCalls, ProcessKeepsCalls
     DEF Next, SandboxNext

LEMMA CallsInvInit == SandboxInit => CallsInv
<1> SUFFICES ASSUME SandboxInit PROVE CallsInv
  OBVIOUS
<1>1. \A r \in Runs : session[r] = NoSession /\ disk[r] = NoFiles
  BY DEF SandboxInit
<1>2. \A t \in Threads : thread[t] = Idle
  BY DEF SandboxInit
<1>3. \A e : RunOK(NoSession, NoFiles, e, Idle)
  BY DEF RunOK, Registered, Saved, NoSession, Session, NoFiles, Idle
<1>4. SweepSparesListed
  BY DEF SandboxInit, SweepSparesListed, Booting
<1> QED
  BY <1>1, <1>2, <1>3, <1>4 DEF CallsInv, CallOf, Idle

LEMMA CallsInvariant == Spec /\ []OneCallPerRun => []CallsInv
<1>1. SandboxInit => CallsInv
  BY CallsInvInit
<1>2. SandboxInv /\ CallsInv /\ OneCallPerRun /\ OneCallPerRun' /\ [Next]_sandboxVars
         => CallsInv'
  BY CallsInvKept
<1> QED
  BY <1>1, <1>2, SandboxInvariant, PTL DEF Spec

\* As long as the calls for a run do not overlap, and whatever fails, is lost or
\* crashes between their steps, a sandbox that recover_all can reconnect to has
\* its registry sidecar: provision_or_reconnect writes the sidecar before
\* meta.json, and destroy removes it after the directory.
THEOREM SidecarBeforeMetadata == Spec /\ []OneCallPerRun => []ReconnectableIsRegistered
<1>1. CallsInv => ReconnectableIsRegistered
  BY DEF CallsInv, RunOK, Registered, ReconnectableIsRegistered
<1> QED
  BY <1>1, CallsInvariant, PTL

\* As long as the calls for a run do not overlap and no write fails, meta.json,
\* which is all that a later boot sees of a session, has the lifecycle state of
\* every session with a sandbox whenever the calls have returned, although each
\* writes it after its unlock.  A session that recovery left without a sandbox is
\* not meant: a failing provision and an activate change its state in memory only.
THEOREM MetadataFollowsSession ==
  ASSUME "fail" \notin Env
  PROVE  Spec /\ []OneCallPerRun => []MetadataOnDiskIsCurrent
<1>1. CallsInv => MetadataOnDiskIsCurrent
  <2> SUFFICES ASSUME CallsInv, NEW r \in Runs,
                      \A t \in Threads : thread[t] = Idle,
                      Attached(r), session[r].state \notin {"Destroying", "Destroyed"},
                      disk[r] # NoFiles
               PROVE  disk[r].meta = session[r].state
    BY DEF MetadataOnDiskIsCurrent
  <2>1. Resting(r)
    BY RestingMeans
  <2> QED
    BY <2>1 DEF Resting, RunOK, Registered, Saved, Unsaved, Attached, Idle
<1> QED
  BY <1>1, CallsInvariant, PTL

-----------------------------------------------------------------------------
(* Run recovery.  The composition implements the sandbox service, so what  *)
(* is proved of Spec above holds of it too.                                *)


\* The state of the sandbox service moves by its own steps, whatever the engine,
\* the operators and run recovery do.
LEMMA RecoveryStepsSandbox == [RunNext]_vars => [Next]_sandboxVars
<1> SUFFICES ASSUME [RunNext]_vars PROVE [Next]_sandboxVars
  OBVIOUS
<1>1. CASE SandboxSteps
  BY <1>1 DEF SandboxSteps, Next, SandboxNext
<1>2. CASE \E r \in Runs, a \in Approvals : RequestApproval(r, a)
  BY <1>2 DEF RequestApproval
<1>3. CASE \E r \in Runs, a \in Approvals, d \in {"approved", "rejected"} : ReadApproval(r, a, d)
  BY <1>3 DEF ReadApproval
<1>4. CASE ResolveApproval
  BY <1>4 DEF ResolveApproval
<1>5. CASE \E r \in Runs, to \in RunStates : EngineMoves(r, to)
  BY <1>5 DEF EngineMoves
<1>6. CASE RecoverRuns
  BY <1>6 DEF RecoverRuns, Next
<1>7. CASE CrashAll
  BY <1>7 DEF CrashAll, Next, SandboxNext
<1>8. CASE UNCHANGED vars
  BY <1>8 DEF vars
<1> QED
  BY <1>1, <1>2, <1>3, <1>4, <1>5, <1>6, <1>7, <1>8 DEF RunNext

\* Boot, run recovery and the engine together implement the sandbox service:
\* running the recovery matrix before the process serves is, for the sandboxes,
\* the step into service.
THEOREM RecoveryImplementsSandbox == RunSpec => Spec
<1>1. Init => SandboxInit
  BY DEF Init
<1>2. [RunNext]_vars => [Next]_sandboxVars
  BY RecoveryStepsSandbox
<1> QED
  BY <1>1, <1>2, PTL DEF RunSpec, Spec

-----------------------------------------------------------------------------
(* Type correctness of the composition.                                    *)

Resolutions ==
  [pc : {"append"}, run : Runs, id : Approvals,
   decision : {"approved", "rejected"}, from : RunStates]

Decisions == {"none", "pending", "approved", "rejected"}

RunsTyped ==
  /\ run \in [Runs -> RunStates]
  /\ approval \in [Runs -> [Approvals -> Decisions]]
  /\ latest \in [Runs -> Approvals \cup {NoApproval}]
  /\ resolving \in {Quiet} \cup Resolutions

LEMMA MovedTyped ==
  ASSUME NEW from \in RunStates, NEW to \in RunStates
  PROVE  Moved(from, to) \in RunStates
BY DEF Moved

LEMMA RunStatesHave ==
  {"Pending", "Running", "WaitingApproval", "WaitingDependency", "Paused",
   "Completed", "Failed", "Canceled"} \subseteq RunStates
BY DEF RunStates

\* A decision on one approval keeps the table of approvals.
LEMMA ApprovalsUpdated ==
  ASSUME RunsTyped, NEW r \in Runs, NEW a \in Approvals, NEW d \in Decisions
  PROVE  /\ [approval[r] EXCEPT ![a] = d] \in [Approvals -> Decisions]
         /\ [approval EXCEPT ![r][a] = d] \in [Runs -> [Approvals -> Decisions]]
BY DEF RunsTyped

LEMMA PlannedTyped ==
  ASSUME RunsTyped, NEW r \in Runs, NEW wedged \in BOOLEAN
  PROVE  Planned(r, wedged) \in RunStates /\ LostTo(r) \in RunStates
<1>1. run[r] \in RunStates
  BY DEF RunsTyped
<1>2. \A d : Follows(d) \in RunStates
  BY RunStatesHave DEF Follows
<1>3. \A to \in RunStates : Moved(run[r], to) \in RunStates
  BY <1>1, MovedTyped
<1> QED
  BY <1>1, <1>2, <1>3, RunStatesHave DEF Planned, LostTo

LEMMA RunsTypedKept == RunsTyped /\ [RunNext]_vars => RunsTyped'
<1> SUFFICES ASSUME RunsTyped, [RunNext]_vars PROVE RunsTyped'
  OBVIOUS
<1>1. CASE SandboxSteps
  BY <1>1 DEF SandboxSteps, recoveryVars, RunsTyped
<1>2. ASSUME NEW r \in Runs, NEW a \in Approvals, RequestApproval(r, a)
      PROVE  RunsTyped'
  <2>1. Moved(run[r], "WaitingApproval") \in RunStates
    BY MovedTyped, RunStatesHave DEF RunsTyped
  <2>2. approval' \in [Runs -> [Approvals -> Decisions]]
    BY <1>2, ApprovalsUpdated DEF RequestApproval, Decisions
  <2> QED
    BY <1>2, <2>1, <2>2 DEF RequestApproval, RunsTyped
<1>3. ASSUME NEW r \in Runs, NEW a \in Approvals, NEW d \in {"approved", "rejected"},
             ReadApproval(r, a, d)
      PROVE  RunsTyped'
  <2>1. resolving' \in Resolutions
    BY <1>3 DEF ReadApproval, Resolutions, RunsTyped
  <2> QED
    BY <1>3, <2>1 DEF ReadApproval, RunsTyped
<1>4. CASE ResolveApproval
  <2>1. /\ resolving.run \in Runs /\ resolving.id \in Approvals
        /\ resolving.decision \in Decisions /\ Follows(resolving.decision) \in RunStates
    BY <1>4, RunStatesHave DEF ResolveApproval, RunsTyped, Resolutions, Decisions, Follows
  <2>2. approval' \in [Runs -> [Approvals -> Decisions]]
    BY <1>4, <2>1, ApprovalsUpdated DEF ResolveApproval
  <2> QED
    BY <1>4, <2>1, <2>2 DEF ResolveApproval, RunsTyped
<1>5. ASSUME NEW r \in Runs, NEW to \in RunStates, EngineMoves(r, to)
      PROVE  RunsTyped'
  BY <1>5 DEF EngineMoves, RunsTyped
<1>6. CASE RecoverRuns
  <2>1. PICK wedged \in [Runs -> BOOLEAN] :
          run' = [r \in Runs |->
                    CASE r \in boot.lost -> LostTo(r)
                      [] r \in boot.drift \ boot.lost -> Moved(run[r], "WaitingApproval")
                      [] OTHER -> Planned(r, wedged[r])]
    BY <1>6 DEF RecoverRuns
  <2>2. \A r \in Runs : /\ Planned(r, wedged[r]) \in RunStates /\ LostTo(r) \in RunStates
                        /\ Moved(run[r], "WaitingApproval") \in RunStates
    BY PlannedTyped, MovedTyped, RunStatesHave DEF RunsTyped
  <2>3. run' \in [Runs -> RunStates]
    BY <2>1, <2>2
  <2>4. \A r \in Runs : [approval[r] EXCEPT ![DriftApproval] = "pending"] \in
                           [Approvals -> Decisions]
    BY ApprovalsUpdated, ApprovalsAssumption DEF Decisions
  <2>5. approval' \in [Runs -> [Approvals -> Decisions]]
    BY <1>6, <2>4 DEF RecoverRuns, RunsTyped
  <2> QED
    BY <1>6, <2>3, <2>5 DEF RecoverRuns, RunsTyped
<1>7. CASE CrashAll
  BY <1>7 DEF CrashAll, RunsTyped
<1>8. CASE UNCHANGED vars
  BY <1>8 DEF vars, recoveryVars, RunsTyped
<1> QED
  BY <1>1, <1>2, <1>3, <1>4, <1>5, <1>6, <1>7, <1>8 DEF RunNext

LEMMA RunsTypedInit == Init => RunsTyped
BY DEF Init, RunsTyped, RunStates, Decisions

LEMMA RunsInvariant == RunSpec => []RunsTyped
<1>1. Init => RunsTyped
  BY RunsTypedInit
<1>2. RunsTyped /\ [RunNext]_vars => RunsTyped'
  BY RunsTypedKept
<1> QED
  BY <1>1, <1>2, PTL DEF RunSpec

\* Type correctness of the composition: the operator that resolves an approval
\* holds a well-formed reading of it across a crash, a boot and the recovery
\* matrix, and the matrix moves runs to run states only.
THEOREM RecoveryTypeCorrect == RunSpec => []RecoveryTypeOK
<1>1. TypeOK /\ RunsTyped => RecoveryTypeOK
  BY DEF RecoveryTypeOK, RunsTyped, Resolutions, Decisions
<1> QED
  BY <1>1, RunsInvariant, RecoveryImplementsSandbox, SandboxTypeCorrect, PTL

-----------------------------------------------------------------------------
(* No run comes out of a boot stranded.                                    *)

\* A run that the matrix leaves waiting is waiting for a pending approval, or
\* none of its approvals was ever resolved.
LEMMA MatrixStrandsNone ==
  ASSUME RunsTyped, NEW r \in Runs, NEW wedged,
         Planned(r, wedged) = "WaitingApproval"
  PROVE  HasPending(r) \/ latest[r] = NoApproval
<1>1. CASE run[r] = "WaitingApproval" /\ ~HasPending(r) /\ latest[r] # NoApproval
  <2>1. Planned(r, wedged) = Moved("WaitingApproval", Follows(approval[r][latest[r]]))
    BY <1>1 DEF Planned
  <2>2. \A d : Moved("WaitingApproval", Follows(d)) # "WaitingApproval"
    BY DEF Moved, Follows, RunTransitions
  <2> QED
    BY <2>1, <2>2
<1>2. CASE run[r] # "WaitingApproval"
  BY <1>2 DEF Planned
<1> QED
  BY <1>1, <1>2

\* A lost run is not left waiting.
LEMMA LostStrandsNone ==
  ASSUME NEW r \in Runs
  PROVE  LostTo(r) # "WaitingApproval"
BY DEF LostTo, Moved, RunTransitions

LEMMA BootStrandsNone ==
  ASSUME TypeOK, RunsTyped, [RunNext]_vars, ~Serving, boot'.phase = "serving",
         NEW r \in Runs, run'[r] = "WaitingApproval"
  PROVE  (\E a \in Approvals : approval'[r][a] = "pending") \/ latest'[r] = NoApproval
<1>1. RecoverRuns
  <2>1. ~SandboxSteps
    <3> SUFFICES ASSUME SandboxSteps PROVE FALSE
      OBVIOUS
    <3>1. ASSUME NEW t \in Threads, Step(t) PROVE boot' = boot
      BY <3>1 DEF Step, Claim, ProviderProvision, InstallState, WriteRegistry, PersistReady,
                  Persist, Beat, Checkpointed, ProviderDestroy, Forget, Destroyed
    <3>2. ASSUME NEW t \in Threads, NEW q \in Runs, Request(t, q) PROVE Serving
      BY <3>2 DEF Request, Provision, Activate, Heartbeat, Checkpoint, Preserve, Destroy,
                  ObserveResourceLimit, Begin
    <3>0. boot \in Boots
      BY BootTyped
    <3>3. ASSUME NEW q \in Runs, RecoverRun(q) \/ Wipe(q) PROVE boot'.phase # "serving"
      BY <3>0, <3>3 DEF Boots, RecoverRun, ReconnectRun, LoseRun, DriftRun, ReattachRun, Wipe, Serving
    <3>4. NextPhase => boot'.phase # "serving"
      <4> SUFFICES ASSUME NextPhase PROVE boot'.phase # "serving"
        OBVIOUS
      <4>1. PICK next \in {"lost", "drift", "reattach", "runs"} :
              boot' = [boot EXCEPT !.phase = next, !.todo = Due(next)]
        BY DEF NextPhase
      <4> QED
        BY <3>0, <4>1 DEF Boots
    <3>5. Boot \/ RecoveryFails => boot'.phase # "serving"
      BY DEF Boot, RecoveryFails, Booting
    <3>6. MoveHead => boot' = boot
      BY DEF MoveHead
    <3> QED
      BY <3>1, <3>2, <3>3, <3>4, <3>5, <3>6 DEF SandboxSteps, Serving
  <2>2. ~CrashAll
    BY DEF CrashAll, Crash, Booting
  <2> QED
    BY <2>1, <2>2 DEF RunNext, RequestApproval, ReadApproval, ResolveApproval, EngineMoves,
                      vars, sandboxVars, Serving
<1>2. PICK wedged \in [Runs -> BOOLEAN] :
        run' = [q \in Runs |->
                  CASE q \in boot.lost -> LostTo(q)
                    [] q \in boot.drift \ boot.lost -> Moved(run[q], "WaitingApproval")
                    [] OTHER -> Planned(q, wedged[q])]
  BY <1>1 DEF RecoverRuns
<1>3. CASE r \in boot.lost
  BY <1>2, <1>3, LostStrandsNone
<1>4. CASE r \in boot.drift \ boot.lost
  <2>1. approval'[r] = [approval[r] EXCEPT ![DriftApproval] = "pending"]
    BY <1>1, <1>4 DEF RecoverRuns
  <2>2. approval'[r][DriftApproval] = "pending"
    BY <2>1, ApprovalsAssumption DEF RunsTyped
  <2> QED
    BY <2>2, ApprovalsAssumption
<1>5. CASE r \notin boot.lost /\ r \notin boot.drift
  <2>1. approval'[r] = approval[r] /\ latest' = latest
    BY <1>1, <1>5 DEF RecoverRuns
  <2>2. Planned(r, wedged[r]) = "WaitingApproval"
    BY <1>2, <1>5
  <2> QED
    BY <2>1, <2>2, MatrixStrandsNone DEF HasPending
<1> QED
  BY <1>3, <1>4, <1>5

\* Whatever crashed before, the append of the recovery matrix leaves no run
\* waiting for approvals that are all resolved: it moves such a run on as the
\* resolution that was cut short would have done.
THEOREM BootsUnstranded == RunSpec => NoRunBootsStranded
<1>1. TypeOK /\ RunsTyped /\ [RunNext]_vars =>
        [~Serving /\ boot'.phase = "serving" =>
           \A r \in Runs :
             run'[r] = "WaitingApproval" =>
               \/ \E a \in Approvals : approval'[r][a] = "pending"
               \/ latest'[r] = NoApproval]_vars
  BY BootStrandsNone
<1> QED
  BY <1>1, RunsInvariant, RecoveryImplementsSandbox, SandboxTypeCorrect, PTL
     DEF RunSpec, NoRunBootsStranded
=============================================================================
