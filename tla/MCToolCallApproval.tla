------------------------ MODULE MCToolCallApproval ------------------------
(* A small instance of ToolCallApproval: two calls of one session, of one  *)
(* tool and with the same arguments, which a path policy covers.           *)
EXTENDS ToolCallApproval, TLC

CONSTANTS c1, c2, s1, t1, a1, a2, p1

MCSessionOf == [c \in Calls |-> s1]
MCToolOf    == [c \in Calls |-> t1]
MCOrigArgs  == [c \in Calls |-> a1]
MCCovers    == [p \in Paths |-> {a1}]

\* All operations on the first call; the second is submitted beside them.
MCOps == {<<c1, op>> : op \in OpNames} \cup {<<c2, "submit">>}
=============================================================================
