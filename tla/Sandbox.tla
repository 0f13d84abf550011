---------------------------- MODULE Sandbox ----------------------------
(***************************************************************************)
(* The sandbox service of cairn-workspace: one sandbox per run, kept as a  *)
(* session in memory (the lifecycle state, whether a provisioned sandbox   *)
(* is attached, the metadata), and on disk as the directory of the         *)
(* provider, the meta.json the service writes into it and a registry       *)
(* sidecar outside it.  Operations run in threads; they hold the session   *)
(* lock only while they change the session, so a provider call, a registry *)
(* write and a metadata write are steps of their own.                      *)
(*                                                                         *)
(* A crash loses the sessions and the threads.  The next boot runs         *)
(* recover_all: reconnect what the providers list, then sweep the registry *)
(* for lost, drifted and reattached sandboxes.  The sweep for revoked      *)
(* repositories asks an in-memory allowlist that is empty at boot, and     *)
(* skips projects whose allowlist is empty, so it changes nothing here.    *)
(***************************************************************************)
EXTENDS Naturals, FiniteSets

CONSTANTS
    Threads,      \* threads that call the service
    Runs,         \* run ids; a run has at most one sandbox
    OverlayRuns,  \* the runs whose sandbox is an overlay; the others reflink
    MaxRev,       \* bound on the revisions the clone's HEAD goes through
    Ops,          \* Ops[r]: the operations the threads call for r
    Env,          \* faults: "crash", "fail" (an I/O error), "wipe", "move"
    MaxFaults     \* bound on the number of faults

SandboxOps == {"provision", "activate", "heartbeat", "checkpoint", "preserve",
               "destroy", "limit"}

ASSUME SandboxAssumption ==
    /\ OverlayRuns \subseteq Runs
    /\ Ops \in [Runs -> SUBSET SandboxOps]
    /\ MaxRev \in Nat /\ MaxFaults \in Nat

VARIABLES
    session,   \* run -> its session, or NoSession
    disk,      \* run -> what its sandbox directory holds
    registry,  \* run -> its recovery registry sidecar, or NoEntry
    clone,     \* the locked clone of the repository: present, HEAD
    thread,    \* thread -> the call it is in
    boot,      \* the process: down, a phase of recovery, or serving
    faults

sandboxVars == <<session, disk, registry, clone, thread, boot, faults>>

----------------------------------------------------------------------------
(* States *)

SandboxStates ==
    {"Initial", "Provisioning", "Ready", "Active", "Checkpointed",
     "Preserved", "Destroying", "Destroyed", "Failed"}

\* SandboxState::can_transition_to
CanTransition ==
    {<<"Initial", "Provisioning">>,
     <<"Provisioning", "Ready">>, <<"Provisioning", "Failed">>,
     <<"Ready", "Active">>, <<"Ready", "Preserved">>, <<"Ready", "Destroying">>,
     <<"Active", "Checkpointed">>, <<"Active", "Preserved">>,
     <<"Active", "Destroying">>, <<"Checkpointed", "Provisioning">>,
     <<"Checkpointed", "Active">>, <<"Checkpointed", "Preserved">>,
     <<"Checkpointed", "Destroying">>, <<"Preserved", "Provisioning">>,
     <<"Preserved", "Active">>, <<"Preserved", "Destroying">>,
     <<"Destroying", "Destroyed">>}

IsTerminal(s) == s \in {"Destroyed", "Failed"}

\* SandboxService::transition: to the same state is allowed.
MayEnter(s, next) == s = next \/ <<s, next>> \in CanTransition

NoRev == MaxRev + 1
Revs == 0 .. MaxRev
NoMeta == "none"
Session(s, attached, meta, limits) ==
    [state |-> s, sandbox |-> attached, meta |-> meta, limits |-> limits]
NoSession == Session("none", FALSE, NoMeta, FALSE)

\* path: the mounted root; rev: the revision in the provider's state file;
\* meta: the state in meta.json.
NoFiles == [path |-> FALSE, rev |-> NoRev, meta |-> NoMeta]
NoEntry == [rev |-> NoRev, drifted |-> FALSE, present |-> FALSE]
Entry(rev) == [rev |-> rev, drifted |-> FALSE, present |-> TRUE]

Head == IF clone.present THEN clone.rev ELSE NoRev

Idle == [pc |-> "idle"]
Call(pc, r) == [pc |-> pc, run |-> r]
SnapCall(r, meta) == [pc |-> "persist", run |-> r, meta |-> meta]

Phases == {"down", "reconnect", "lost", "drift", "reattach", "runs", "serving"}
Booting(phase, todo, seen) ==
    [phase |-> phase, todo |-> todo, seen |-> seen,
     lost |-> {}, drift |-> {}, reattached |-> {}]
Serving == boot.phase = "serving"

Sessions ==
    {NoSession} \cup
    [state : SandboxStates, sandbox : BOOLEAN,
     meta : SandboxStates \cup {NoMeta}, limits : BOOLEAN]

ThreadSet ==
    {Idle} \cup [pc : {"claim", "provision", "ready", "beat", "checkpointed",
                       "forget", "destroyed"}, run : Runs]
           \cup [pc : {"install", "registry"}, run : Runs, rev : Revs]
           \cup [pc : {"destroy"}, run : Runs, preserve : BOOLEAN]
           \cup [pc : {"persist"}, run : Runs, meta : SandboxStates \cup {NoMeta}]

SandboxInit ==
    /\ session = [r \in Runs |-> NoSession]
    /\ disk = [r \in Runs |-> NoFiles]
    /\ registry = [r \in Runs |-> NoEntry]
    /\ clone = [present |-> FALSE, rev |-> 0]
    /\ thread = [t \in Threads |-> Idle]
    /\ boot = Booting("serving", {}, {})
    /\ faults = 0

----------------------------------------------------------------------------
(* Steps of a call *)

Begin(t, op, r) == Serving /\ op \in Ops[r] /\ thread[t].pc = "idle"
At(t, pc) == thread[t].pc = pc
Goto(t, next) == thread' = [thread EXCEPT ![t] = next]
Return(t) == Goto(t, Idle)
SetSession(r, s) == session' = [session EXCEPT ![r] = s]

\* A filesystem call fails.
Fails == "fail" \in Env /\ faults < MaxFaults /\ faults' = faults + 1

Attached(r) == session[r].sandbox

\* Mutant: a moved HEAD is not noticed.
ReconnectUnpinned(r) ==
    IF disk[r].rev = NoRev THEN "none"
    ELSE IF disk[r].meta = NoMeta \/ Head = NoRev THEN "error" ELSE "ok"

\* What the provider makes of the files of a run: reconnect.
Reconnect(r) ==
    LET d == disk[r] IN
    IF d.rev = NoRev THEN "none"
    ELSE IF d.meta = NoMeta \/ Head = NoRev THEN "error"
    ELSE IF r \in OverlayRuns /\ d.rev # Head THEN "drift"
    ELSE IF r \notin OverlayRuns /\ ~d.path THEN "error"
    ELSE "ok"

----------------------------------------------------------------------------
(* provision_or_reconnect *)

\* working_dir_for_run clones the repository if it is missing, then the
\* service returns the attached sandbox or refuses a terminal session.
Provision(t, r) ==
    /\ Begin(t, "provision", r)
    /\ ~IsTerminal(session[r].state) /\ ~Attached(r)
    /\ clone.present \/ clone.rev < MaxRev
    /\ clone' = IF clone.present THEN clone
                ELSE [present |-> TRUE, rev |-> clone.rev + 1]
    /\ Goto(t, Call("claim", r))
    /\ UNCHANGED <<session, disk, registry, boot, faults>>

\* Mutant: the claim does not look at the state.
ClaimUnchecked(t) ==
    /\ At(t, "claim")
    /\ SetSession(thread[t].run, Session("Provisioning", FALSE, NoMeta, TRUE))
    /\ Goto(t, Call("provision", thread[t].run))
    /\ UNCHANGED <<disk, registry, clone, boot, faults>>

\* The session enters Provisioning under the write lock, or the call is
\* refused because the state does not allow it.
Claim(t) ==
    LET r == thread[t].run
        s == IF session[r] = NoSession
             THEN Session("Initial", FALSE, NoMeta, TRUE) ELSE session[r]
        ok == <<s.state, "Provisioning">> \in CanTransition
    IN /\ At(t, "claim")
       /\ SetSession(r, IF ok THEN [s EXCEPT !.state = "Provisioning", !.limits = TRUE]
                        ELSE s)
       /\ IF ok THEN Goto(t, Call("provision", r)) ELSE Return(t)
       /\ UNCHANGED <<disk, registry, clone, boot, faults>>

ProvisioningFails(t, r) ==
    SetSession(r, [session[r] EXCEPT !.state = "Failed"]) /\ Return(t)

\* Mutant: the metadata is written without a registry sidecar.
ProvisionedUnregistered(t, r, rev) ==
    /\ SetSession(r, Session("Ready", TRUE, "Ready", TRUE))
    /\ Goto(t, Call("ready", r))

\* On success the session is Ready with the sandbox attached.
Provisioned(t, r, rev) ==
    /\ SetSession(r, Session("Ready", TRUE, "Ready", TRUE))
    /\ Goto(t, [pc |-> "registry", run |-> r, rev |-> rev])

\* SandboxProvider::provision: reconnect to what is there, or mount a new
\* root and then write its state file.
ProviderProvision(t) ==
    LET r == thread[t].run
        found == Reconnect(r)
    IN /\ At(t, "provision")
       /\ \/ /\ found = "ok"
             /\ disk' = [disk EXCEPT ![r].path = TRUE]
             /\ Provisioned(t, r, disk[r].rev)
             /\ UNCHANGED faults
          \/ /\ found = "none" /\ Head # NoRev
             /\ disk' = [disk EXCEPT ![r].path = TRUE]
             /\ Goto(t, [pc |-> "install", run |-> r, rev |-> Head])
             /\ UNCHANGED <<session, faults>>
          \/ /\ found \in {"error", "drift"} \/ (found = "none" /\ Head = NoRev)
             /\ ProvisioningFails(t, r)
             /\ UNCHANGED <<disk, faults>>
          \/ /\ found \in {"ok", "none"}
             /\ Fails /\ ProvisioningFails(t, r)
             /\ UNCHANGED disk
       /\ UNCHANGED <<registry, clone, boot>>

InstallState(t) ==
    LET r == thread[t].run IN
    /\ At(t, "install")
    /\ \/ /\ disk' = [disk EXCEPT ![r].path = TRUE, ![r].rev = thread[t].rev]
          /\ Provisioned(t, r, thread[t].rev)
          /\ UNCHANGED faults
       \/ Fails /\ ProvisioningFails(t, r) /\ UNCHANGED disk
    /\ UNCHANGED <<registry, clone, boot>>

\* The registry sidecar is written before the metadata.
WriteRegistry(t) ==
    LET r == thread[t].run IN
    /\ At(t, "registry")
    /\ \/ /\ registry' = [registry EXCEPT ![r] = Entry(thread[t].rev)]
          /\ Goto(t, Call("ready", r))
          /\ UNCHANGED <<session, faults>>
       \/ Fails /\ ProvisioningFails(t, r) /\ UNCHANGED registry
    /\ UNCHANGED <<disk, clone, boot>>

PersistReady(t) ==
    LET r == thread[t].run IN
    /\ At(t, "ready")
    /\ \/ /\ disk' = [disk EXCEPT ![r].meta = "Ready"]
          /\ Return(t)
          /\ UNCHANGED <<session, faults>>
       \/ Fails /\ ProvisioningFails(t, r) /\ UNCHANGED disk
    /\ UNCHANGED <<registry, clone, boot>>

----------------------------------------------------------------------------
(* activate, heartbeat, checkpoint, preserve, destroy *)

\* The metadata a call cloned under the lock is written after the unlock.
Persist(t) ==
    LET r == thread[t].run IN
    /\ At(t, "persist")
    /\ \/ disk' = [disk EXCEPT ![r].meta = thread[t].meta] /\ UNCHANGED faults
       \/ Fails /\ UNCHANGED disk
    /\ Return(t)
    /\ UNCHANGED <<session, registry, clone, boot>>

\* Mutant: the new state is not written.
EnterUnsaved(t, r, state) ==
    SetSession(r, [session[r] EXCEPT !.state = state, !.meta = state]) /\ Return(t)

\* A change of state made under the lock, and the write it leads to.
Enter(t, r, state) ==
    LET s == session[r]
        meta == IF s.meta = NoMeta THEN NoMeta ELSE state
    IN /\ SetSession(r, [s EXCEPT !.state = state, !.meta = meta])
       /\ IF meta = NoMeta THEN Return(t) ELSE Goto(t, SnapCall(r, meta))

\* The state changes before the call finds that no sandbox is attached.
Activate(t, r) ==
    /\ Begin(t, "activate", r)
    /\ session[r] # NoSession /\ MayEnter(session[r].state, "Active")
    /\ IF session[r].sandbox
       THEN Enter(t, r, "Active")
       ELSE SetSession(r, [session[r] EXCEPT !.state = "Active"]) /\ UNCHANGED thread
    /\ UNCHANGED <<disk, registry, clone, boot, faults>>

Heartbeat(t, r) ==
    /\ Begin(t, "heartbeat", r)
    /\ Attached(r) /\ session[r].state = "Active"
    /\ disk[r].rev # NoRev
    /\ Goto(t, Call("beat", r))
    /\ UNCHANGED <<session, disk, registry, clone, boot, faults>>

\* After the provider answered, whatever state the session is in by then.
Beat(t) ==
    /\ At(t, "beat")
    /\ Goto(t, SnapCall(thread[t].run, session[thread[t].run].meta))
    /\ UNCHANGED <<session, disk, registry, clone, boot, faults>>

\* The overlay provider resolves the base again, the reflink one does not.
Checkpoint(t, r) ==
    /\ Begin(t, "checkpoint", r)
    /\ Attached(r)
    /\ disk[r].rev # NoRev
    /\ r \in OverlayRuns => disk[r].meta # NoMeta /\ Head # NoRev
    /\ Goto(t, Call("checkpointed", r))
    /\ UNCHANGED <<session, disk, registry, clone, boot, faults>>

Checkpointed(t) ==
    LET r == thread[t].run IN
    /\ At(t, "checkpointed")
    /\ IF MayEnter(session[r].state, "Checkpointed")
       THEN Enter(t, r, "Checkpointed")
       ELSE Return(t) /\ UNCHANGED session
    /\ UNCHANGED <<disk, registry, clone, boot, faults>>

PreserveRun(t, r) ==
    /\ session[r] # NoSession /\ MayEnter(session[r].state, "Preserved")
    /\ Enter(t, r, "Preserved")
    /\ UNCHANGED <<disk, registry, clone, boot, faults>>

Preserve(t, r) == Begin(t, "preserve", r) /\ PreserveRun(t, r)

\* The new state is not written to disk.
DestroyRun(t, r, preserve) ==
    /\ Attached(r) /\ MayEnter(session[r].state, "Destroying")
    /\ SetSession(r, [session[r] EXCEPT !.state = "Destroying", !.meta = "Destroying"])
    /\ Goto(t, [pc |-> "destroy", run |-> r, preserve |-> preserve])
    /\ UNCHANGED <<disk, registry, clone, boot, faults>>

Destroy(t, r) ==
    Begin(t, "destroy", r) /\ \E preserve \in BOOLEAN : DestroyRun(t, r, preserve)

\* The provider removes the directory unless it is to be preserved; when it
\* fails the session stays Destroying.
ProviderDestroy(t) ==
    LET r == thread[t].run IN
    /\ At(t, "destroy")
    /\ \/ /\ disk[r].rev # NoRev
          /\ disk' = IF thread[t].preserve THEN disk ELSE [disk EXCEPT ![r] = NoFiles]
          /\ Goto(t, Call(IF thread[t].preserve THEN "destroyed" ELSE "forget", r))
          /\ UNCHANGED faults
       \/ disk[r].rev = NoRev /\ Return(t) /\ UNCHANGED <<disk, faults>>
       \/ Fails /\ Return(t) /\ UNCHANGED disk
    /\ UNCHANGED <<session, registry, clone, boot>>

Forget(t) ==
    LET r == thread[t].run IN
    /\ At(t, "forget")
    /\ \/ /\ registry' = [registry EXCEPT ![r] = NoEntry]
          /\ Goto(t, Call("destroyed", r))
          /\ UNCHANGED faults
       \/ Fails /\ Return(t) /\ UNCHANGED registry
    /\ UNCHANGED <<session, disk, clone, boot>>

Destroyed(t) ==
    LET r == thread[t].run IN
    /\ At(t, "destroyed")
    /\ SetSession(r, IF MayEnter(session[r].state, "Destroyed")
                     THEN [session[r] EXCEPT !.state = "Destroyed", !.meta = "Destroyed"]
                     ELSE session[r])
    /\ Return(t)
    /\ UNCHANGED <<disk, registry, clone, boot, faults>>

\* A recovered session has a policy without limits, and the call fails.
ObserveResourceLimit(t, r) ==
    /\ Begin(t, "limit", r)
    /\ session[r] # NoSession /\ session[r].limits
    /\ PreserveRun(t, r) \/ DestroyRun(t, r, FALSE)

----------------------------------------------------------------------------
(* recover_all *)

\* recovered_state
RecoveredState(s) ==
    IF s \in {"Initial", "Provisioning", "Active"} THEN "Ready" ELSE s

Boot ==
    LET listed == {r \in Runs : disk[r].meta # NoMeta} IN
    /\ boot.phase = "down"
    /\ boot' = Booting("reconnect", {r \in listed : ~IsTerminal(disk[r].meta)}, listed)
    /\ UNCHANGED <<session, disk, registry, clone, thread, faults>>

\* What recovery writes to disk and remembers for a listed sandbox.
Recovered(r, state, attached) ==
    /\ disk' = [disk EXCEPT ![r].meta = state, ![r].path = attached \/ @]
    /\ SetSession(r, Session(state, attached, state, FALSE))

ReconnectRun(r) ==
    /\ boot.phase = "reconnect" /\ r \in boot.todo
    /\ boot' = [boot EXCEPT !.todo = @ \ {r}]
    /\ CASE Reconnect(r) = "ok"    -> Recovered(r, RecoveredState(disk[r].meta), TRUE)
         [] Reconnect(r) = "drift" -> Recovered(r, "Preserved", FALSE)
         [] Reconnect(r) = "error" -> Recovered(r, "Failed", FALSE)
         [] Reconnect(r) = "none"  -> UNCHANGED <<disk, session>>
    /\ UNCHANGED <<registry, clone, thread, faults>>

\* The registry entries the sweep of a phase is about.
Due(phase) ==
    {r \in Runs :
        /\ registry[r].present
        /\ CASE phase = "lost"     -> r \notin boot.seen /\ ~disk[r].path
             [] phase = "drift"    -> /\ ~registry[r].drifted /\ r \in OverlayRuns
                                      /\ Head # NoRev /\ registry[r].rev # Head
             [] phase = "reattach" -> /\ r \notin boot.seen /\ disk[r].path
                                      /\ ~registry[r].drifted
             [] OTHER              -> FALSE}

NextPhase ==
    /\ boot.phase \in {"reconnect", "lost", "drift", "reattach"} /\ boot.todo = {}
    /\ LET next == CASE boot.phase = "reconnect" -> "lost"
                     [] boot.phase = "lost"      -> "drift"
                     [] boot.phase = "drift"     -> "reattach"
                     [] boot.phase = "reattach"  -> "runs"
       IN boot' = [boot EXCEPT !.phase = next, !.todo = Due(next)]
    /\ UNCHANGED <<session, disk, registry, clone, thread, faults>>

\* The sidecar is removed once SandboxLost is published.
LoseRun(r) ==
    /\ boot.phase = "lost" /\ r \in boot.todo
    /\ registry' = [registry EXCEPT ![r] = NoEntry]
    /\ boot' = [boot EXCEPT !.todo = @ \ {r}, !.lost = @ \cup {r}]
    /\ UNCHANGED <<session, disk, clone, thread, faults>>

DriftRun(r) ==
    /\ boot.phase = "drift" /\ r \in boot.todo
    /\ registry' = [registry EXCEPT ![r].drifted = TRUE]
    /\ boot' = [boot EXCEPT !.todo = @ \ {r}, !.drift = @ \cup {r}]
    /\ UNCHANGED <<session, disk, clone, thread, faults>>

ReattachRun(r) ==
    /\ boot.phase = "reattach" /\ r \in boot.todo
    /\ boot' = [boot EXCEPT !.todo = @ \ {r}, !.reattached = @ \cup {r}]
    /\ UNCHANGED <<session, disk, registry, clone, thread, faults>>

\* An error ends recover_all; startup reports it and goes on with empty
\* lists of lost, drifted and reattached runs.
RecoveryFails ==
    /\ boot.phase \in {"reconnect", "lost", "drift", "reattach"}
    /\ Fails
    /\ boot' = Booting("runs", {}, {})
    /\ UNCHANGED <<session, disk, registry, clone, thread>>

\* The run-level recovery is done and the process serves requests.
Serve ==
    /\ boot.phase = "runs"
    /\ boot' = Booting("serving", {}, {})
    /\ UNCHANGED <<session, disk, registry, clone, thread, faults>>

----------------------------------------------------------------------------
(* The environment *)

Fault(kind) == kind \in Env /\ faults < MaxFaults /\ faults' = faults + 1

Crash ==
    /\ boot.phase # "down"
    /\ Fault("crash")
    /\ session' = [r \in Runs |-> NoSession]
    /\ thread' = [t \in Threads |-> Idle]
    /\ boot' = Booting("down", {}, {})
    /\ UNCHANGED <<disk, registry, clone>>

\* Somebody removes the directory of a sandbox.
Wipe(r) ==
    /\ boot.phase \in {"down", "serving"}
    /\ disk[r] # NoFiles
    /\ Fault("wipe")
    /\ disk' = [disk EXCEPT ![r] = NoFiles]
    /\ UNCHANGED <<session, registry, clone, thread, boot>>

\* A refresh moves HEAD, and the sweep of the clone cache removes a clone.
MoveHead ==
    /\ Serving /\ clone.present /\ clone.rev < MaxRev
    /\ Fault("move")
    /\ clone' \in {[clone EXCEPT !.rev = @ + 1], [clone EXCEPT !.present = FALSE]}
    /\ UNCHANGED <<session, disk, registry, thread, boot>>

Step(t) ==
    \/ Claim(t) \/ ProviderProvision(t) \/ InstallState(t) \/ WriteRegistry(t) \/ PersistReady(t)
    \/ Persist(t) \/ Beat(t) \/ Checkpointed(t)
    \/ ProviderDestroy(t) \/ Forget(t) \/ Destroyed(t)

Request(t, r) ==
    \/ Provision(t, r) \/ Activate(t, r) \/ Heartbeat(t, r) \/ Checkpoint(t, r)
    \/ Preserve(t, r) \/ Destroy(t, r) \/ ObserveResourceLimit(t, r)

RecoverRun(r) == ReconnectRun(r) \/ LoseRun(r) \/ DriftRun(r) \/ ReattachRun(r)

SandboxNext ==
    \/ \E t \in Threads : Step(t)
    \/ \E t \in Threads, r \in Runs : Request(t, r)
    \/ \E r \in Runs : RecoverRun(r) \/ Wipe(r)
    \/ Boot \/ NextPhase \/ RecoveryFails
    \/ Crash \/ MoveHead

Next == SandboxNext \/ Serve

Spec == SandboxInit /\ [][Next]_sandboxVars

----------------------------------------------------------------------------
(* Properties *)

\* Sessions, files, sidecars and calls are well formed; in particular the
\* provider never records a sandbox on a revision that was not resolved.
TypeOK ==
    /\ session \in [Runs -> Sessions]
    /\ disk \in [Runs -> [path : BOOLEAN, rev : Revs \cup {NoRev},
                          meta : SandboxStates \cup {NoMeta}]]
    /\ registry \in [Runs -> [rev : Revs \cup {NoRev}, drifted : BOOLEAN,
                              present : BOOLEAN]]
    /\ clone \in [present : BOOLEAN, rev : Revs]
    /\ thread \in [Threads -> ThreadSet]
    /\ boot \in [phase : Phases, todo : SUBSET Runs, seen : SUBSET Runs,
                 lost : SUBSET Runs, drift : SUBSET Runs, reattached : SUBSET Runs]
    /\ faults \in 0 .. MaxFaults

\* The provider is never provisioning the same run for two callers: the claim
\* of provision_or_reconnect excludes them even though the lock is released
\* between the look-up, the claim and the provider call.
OneProvisioner ==
    \A t, u \in Threads :
        /\ thread[t].pc \in {"provision", "install"}
        /\ thread[u].pc \in {"provision", "install"}
        /\ thread[t].run = thread[u].run
        => t = u

\* A sandbox that the next boot can reconnect to has a registry sidecar, at
\* every point a crash may come: recovery can attribute it to its run when
\* its directory is lost later.
ReconnectableIsRegistered ==
    \A r \in Runs :
        disk[r].rev # NoRev /\ disk[r].meta # NoMeta => registry[r].present

\* While no call is under way, the state in meta.json, which is all the next
\* boot sees, is the state of a session that has its sandbox attached, as long
\* as the calls for a run come one at a time: two that overlap may write in the
\* opposite order.  A destroy is exempt: it is only kept in memory.
MetadataOnDiskIsCurrent ==
    \A r \in Runs :
        /\ \A t \in Threads : thread[t] = Idle
        /\ Attached(r) /\ session[r].state \notin {"Destroying", "Destroyed"}
        /\ disk[r] # NoFiles
        => disk[r].meta = session[r].state

\* The same of every session.  It does not hold of one that recovery left
\* without a sandbox: a failing provision, or an activate that finds none to
\* activate, changes its state and writes nothing.
MetadataOfEverySession ==
    \A r \in Runs :
        /\ \A t \in Threads : thread[t] = Idle
        /\ session[r].state \notin {"none", "Destroying", "Destroyed"}
        /\ disk[r].meta # NoMeta
        => disk[r].meta = session[r].state

\* Recovery attaches an overlay sandbox only on the revision it was made from:
\* HEAD does not move while the process boots.
RecoveredOnItsRevision ==
    \A r \in OverlayRuns :
        boot.phase \notin {"down", "serving"} /\ Attached(r) => disk[r].rev = Head

\* A sandbox that the reattach sweep reports has survived the crash: the
\* next provision_or_reconnect does not fail on it.
ReattachedIsUsable ==
    \A r \in boot.reattached : Reconnect(r) # "error"

============================================================================
