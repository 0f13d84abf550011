---------------------------- MODULE RunRecovery ----------------------------
(***************************************************************************)
(* Boot of cairn-app: the sandbox service recovers its sandboxes, hands    *)
(* the lists of lost, drifted and reattached runs to the run-level         *)
(* recovery service, and that service moves the runs in one append of      *)
(* events before the process serves requests.  While it serves, operators  *)
(* resolve approvals and the engine moves runs.                            *)
(***************************************************************************)
EXTENDS Sandbox

CONSTANT Approvals   \* the approvals of a run; one of them is DriftApproval

DriftApproval == "approval-base-revision-drift"
ASSUME ApprovalsAssumption == DriftApproval \in Approvals

VARIABLES
    run,        \* run -> its state in the run projection
    approval,   \* run -> approval -> "none", "pending" or the decision
    latest,     \* run -> the approval that was resolved last
    resolving   \* the resolution an operator's request is about to append

recoveryVars == <<run, approval, latest, resolving>>
vars == <<sandboxVars, recoveryVars>>

RunStates ==
    {"Pending", "Running", "WaitingApproval", "WaitingDependency", "Paused",
     "Completed", "Failed", "Canceled"}
RunTerminal == {"Completed", "Failed", "Canceled"}

\* can_transition_run_state
RunTransitions ==
    ({"Pending"} \X {"Running", "WaitingApproval", "WaitingDependency", "Paused",
                     "Failed", "Canceled"})
    \cup ({"Running"} \X {"WaitingApproval", "WaitingDependency", "Paused",
                          "Completed", "Failed", "Canceled"})
    \cup ({"WaitingApproval"} \X {"Running", "Paused", "Failed", "Canceled"})
    \cup ({"Paused"} \X {"Pending", "Running", "Failed", "Canceled"})
    \cup ({"WaitingDependency"} \X {"Running", "Paused", "Completed", "Failed", "Canceled"})

\* The state of a run after RunStateChanged, which is only emitted when the
\* transition is allowed from the state that was read.
Moved(from, to) == IF <<from, to>> \in RunTransitions THEN to ELSE from

NoApproval == "no approval"
Quiet == [pc |-> "idle"]

HasPending(r) == \E a \in Approvals : approval[r][a] = "pending"

\* The state an approval's decision sends its run to.
Follows(decision) == IF decision = "approved" THEN "Running" ELSE "Failed"

Init ==
    /\ SandboxInit
    /\ run = [r \in Runs |-> "Running"]
    /\ approval = [r \in Runs |-> [a \in Approvals |-> "none"]]
    /\ latest = [r \in Runs |-> NoApproval]
    /\ resolving = Quiet

----------------------------------------------------------------------------
(* ApprovalServiceImpl and the engine *)

\* The request and the move to WaitingApproval are one append.  Each id is
\* requested once.
RequestApproval(r, a) ==
    /\ Serving /\ a # DriftApproval
    /\ approval[r][a] = "none"
    /\ approval' = [approval EXCEPT ![r][a] = "pending"]
    /\ run' = [run EXCEPT ![r] = Moved(@, "WaitingApproval")]
    /\ UNCHANGED <<sandboxVars, latest, resolving>>

\* resolve reads the approval and the run, and appends later.
ReadApproval(r, a, decision) ==
    /\ Serving /\ resolving = Quiet
    /\ approval[r][a] = "pending"
    /\ resolving' = [pc |-> "append", run |-> r, id |-> a, decision |-> decision,
                     from |-> run[r]]
    /\ UNCHANGED <<sandboxVars, run, approval, latest>>

\* The decision and the move of the run are one append.
ResolveApproval ==
    LET r == resolving.run
        to == Follows(resolving.decision)
    IN /\ Serving /\ resolving # Quiet
       /\ approval' = [approval EXCEPT ![r][resolving.id] = resolving.decision]
       /\ latest' = [latest EXCEPT ![r] = resolving.id]
       /\ run' = [run EXCEPT ![r] =
                     IF <<resolving.from, to>> \in RunTransitions THEN to ELSE @]
       /\ resolving' = Quiet
       /\ UNCHANGED sandboxVars

\* The execution engine pauses, suspends, resumes or ends a run.
EngineMoves(r, to) ==
    /\ Serving
    /\ <<run[r], to>> \in RunTransitions
    /\ run[r] # "WaitingApproval"
    /\ run' = [run EXCEPT ![r] = to]
    /\ UNCHANGED <<sandboxVars, approval, latest, resolving>>

----------------------------------------------------------------------------
(* RecoveryServiceImpl::recover_all *)

\* Mutant: recovery only notes that the run is there.
PlannedAdvisory(r, wedged) == run[r]

\* plan_for_run.  wedged: the run has no checkpoint and made no progress for
\* five minutes.
Planned(r, wedged) ==
    CASE run[r] = "Running" /\ wedged -> "Failed"
      [] run[r] = "WaitingApproval" /\ ~HasPending(r) /\ latest[r] # NoApproval ->
            Moved(run[r], Follows(approval[r][latest[r]]))
      [] OTHER -> run[r]

\* Mutant: a paused run is left as it is.
LostUnlessPaused(r) == IF run[r] = "Paused" THEN run[r] ELSE Moved(run[r], "Failed")

\* A lost run fails unless it has ended.
LostTo(r) == Moved(run[r], "Failed")

\* The runs of each list, then the matrix for the other runs, in one append.
RecoverRuns ==
    /\ boot.phase = "runs"
    /\ \E wedged \in [Runs -> BOOLEAN] :
         run' = [r \in Runs |->
                    CASE r \in boot.lost -> LostTo(r)
                      [] r \in boot.drift \ boot.lost -> Moved(run[r], "WaitingApproval")
                      [] OTHER -> Planned(r, wedged[r])]
    /\ approval' = [r \in Runs |->
                       IF r \in boot.drift \ boot.lost
                       THEN [approval[r] EXCEPT ![DriftApproval] = "pending"]
                       ELSE approval[r]]
    /\ Serve
    /\ UNCHANGED <<latest, resolving>>

\* A crash also loses the operator's request.
CrashAll == Crash /\ resolving' = Quiet /\ UNCHANGED <<run, approval, latest>>

\* The steps of the sandbox service; it serves the runs that are under way.
SandboxSteps ==
    /\ \/ \E t \in Threads : Step(t)
       \/ \E t \in Threads, r \in Runs : run[r] = "Running" /\ Request(t, r)
       \/ \E r \in Runs : RecoverRun(r) \/ Wipe(r)
       \/ Boot \/ NextPhase \/ RecoveryFails \/ MoveHead
    /\ UNCHANGED recoveryVars

RunNext ==
    \/ SandboxSteps
    \/ \E r \in Runs, a \in Approvals :
         \/ RequestApproval(r, a)
         \/ \E d \in {"approved", "rejected"} : ReadApproval(r, a, d)
    \/ ResolveApproval
    \/ \E r \in Runs, to \in RunStates : EngineMoves(r, to)
    \/ RecoverRuns \/ CrashAll

RunSpec == Init /\ [][RunNext]_vars

\* A booting process goes on and the filesystem answers in the end.
RunFairSpec ==
    /\ RunSpec
    /\ WF_vars(Boot /\ UNCHANGED recoveryVars)
    /\ WF_vars(NextPhase /\ UNCHANGED recoveryVars)
    /\ WF_vars(RecoverRuns)
    /\ \A r \in Runs : WF_vars(RecoverRun(r) /\ UNCHANGED recoveryVars)

----------------------------------------------------------------------------
(* Properties *)

\* The composition keeps the types of both services: run states, approvals and
\* the resolution an operator's request holds between its read and its append.
RecoveryTypeOK ==
    /\ TypeOK
    /\ run \in [Runs -> RunStates]
    /\ approval \in [Runs -> [Approvals -> {"none", "pending", "approved", "rejected"}]]
    /\ latest \in [Runs -> Approvals \cup {NoApproval}]
    /\ resolving \in {Quiet} \cup
         [pc : {"append"}, run : Runs, id : Approvals,
          decision : {"approved", "rejected"}, from : RunStates]

\* No run comes out of a boot waiting for approvals that are all resolved:
\* recovery moves it on as the resolution would have done.
NoRunBootsStranded ==
    [][~Serving /\ boot'.phase = "serving" =>
         \A r \in Runs :
            run'[r] = "WaitingApproval" =>
               \/ \E a \in Approvals : approval'[r][a] = "pending"
               \/ latest'[r] = NoApproval]_vars

\* A run in the list of lost runs that a completed sandbox recovery returns
\* ends, unless a crash interrupts the boot.
ReportedLostRunEnds ==
    \A r \in Runs :
        r \in boot.lost /\ boot.phase = "runs"
           ~> run[r] \in RunTerminal \/ boot.phase = "down"

\* Every run whose sandbox the sweep found lost ends: what the recovery
\* service documents for SandboxLostRun.
LostRunEnds ==
    \A r \in Runs : r \in boot.lost ~> run[r] \in RunTerminal

============================================================================
