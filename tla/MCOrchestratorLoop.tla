------------------------- MODULE MCOrchestratorLoop -------------------------
(* Small instances of OrchestratorLoop: turns that mix gated and plain tool *)
(* calls with the proposals that end a turn.                                *)
EXTENDS OrchestratorLoop

CONSTANTS a1, a2

Gated(a) == [kind |-> "tool", args |-> a, gated |-> TRUE]
Plain(a) == [kind |-> "tool", args |-> a, gated |-> FALSE]
Other(k) == [kind |-> k, args |-> a1, gated |-> FALSE]

MCPlans == {<<Gated(a1), Plain(a2)>>, <<Other("complete"), Plain(a2)>>,
            <<Other("memory"), Other("spawn")>>}
=============================================================================
