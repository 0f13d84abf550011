--------------------------- MODULE MCDecisionCache ---------------------------
(* Small instances of DecisionCache: a key whose decisions are always      *)
(* cached and one whose approvals are, in one project.                     *)
EXTENDS DecisionCache, TLC

CONSTANTS k1, k2, s1

MCKindTags == {"workspace_provision", "trigger_fire"}
MCKindOf == [k \in Keys |-> IF k = k1 THEN "workspace_provision" ELSE "trigger_fire"]
MCScopeOf == [k \in Keys |-> s1]
MCScopeText == [s \in Scopes |-> <<"project", "t/w/p">>]
MCHashOf == [k \in Keys |-> "hash"]
MCPolicy == [k \in Keys |-> IF k = k1 THEN "always" ELSE "if_approved"]
MCTTL == [k \in Keys |-> 1]

EvalSymmetry == Permutations(Evals)
=============================================================================
