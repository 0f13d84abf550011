--------------------------- MODULE ApprovalLedger ---------------------------
(***************************************************************************)
(* What the approval machinery of cairn-rs promises about a tool call,     *)
(* seen from the tool_call_approvals table: a proposal opens a call, a     *)
(* resolution answers a proposal and is the only one to do so, an approval *)
(* is final, and a call is run only once it stands approved.               *)
(*                                                                         *)
(* ToolCallApproval implements this ledger with critical sections, appends *)
(* and rollbacks; OrchestratorLoop is built on it and implements it again, *)
(* with the tool executions of its dispatch paths as the deliveries.       *)
(***************************************************************************)
CONSTANTS Calls, Args, NoArgs

VARIABLES
  ledger,     \* ledger[c]: the state of call c, whether a proposal of it is
              \* unanswered, and the approver's override of its arguments
  delivered   \* the calls handed to an executor

States == {"absent", "pending", "approved", "rejected"}

LedgerSet == [state : States, open : BOOLEAN, override : Args \cup {NoArgs}]

NoCall == [state |-> "absent", open |-> FALSE, override |-> NoArgs]

LedgerInit ==
  /\ ledger = [c \in Calls |-> NoCall]
  /\ delivered = {}

\* A proposal of a rejected call opens it again; its row says rejected until
\* somebody answers.
Proposed(e) ==
  [e EXCEPT !.state = IF @ = "absent" THEN "pending" ELSE @, !.open = TRUE]

Propose(c) ==
  /\ ledger[c].state # "approved"
  /\ ledger' = [ledger EXCEPT ![c] = Proposed(@)]
  /\ UNCHANGED delivered

Answered(e, verdict, args) ==
  [state |-> verdict, open |-> FALSE,
   override |-> IF verdict = "approved" THEN args ELSE e.override]

Resolve(c, verdict, args) ==
  /\ ledger[c].open
  /\ ledger' = [ledger EXCEPT ![c] = Answered(@, verdict, args)]
  /\ UNCHANGED delivered

Deliver(c) ==
  /\ ledger[c].state = "approved"
  /\ delivered' = delivered \cup {c}
  /\ UNCHANGED ledger

LedgerNext ==
  \E c \in Calls :
    \/ Propose(c)
    \/ \E a \in Args \cup {NoArgs}, v \in {"approved", "rejected"} : Resolve(c, v, a)
    \/ Deliver(c)

LedgerSpec == LedgerInit /\ [][LedgerNext]_<<ledger, delivered>>
=============================================================================
