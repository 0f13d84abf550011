--------------------------- MODULE MCPromptRelease ---------------------------
(* Small instances of PromptRelease: three releases of one asset and one of *)
(* another.                                                                 *)
EXTENDS PromptRelease, TLC

CONSTANTS r1, r2, r3, r4, a1, a2

MCAssetOf == [r \in Releases |-> IF r = r4 THEN a2 ELSE a1]
MCPlace == (r1 :> 1) @@ (r2 :> 2) @@ (r3 :> 3) @@ (r4 :> 4)

Plain(ops, rels) == {Call(op, r, 0) : op \in ops, r \in rels}
To(rels, states) == {Call("transition", r, s) : r \in rels, s \in states}

\* Releases become active by activate alone, and one is under approval.
Reviewed(rels) ==
  Plain({"create", "activate"}, rels) \cup To(rels, {"approved"})
  \cup Plain({"attach", "request"}, {r1}) \cup {Call("resolve", r1, d) : d \in Decisions}

\* Rollouts and a rollback beside activations of one asset.
Mixed ==
  Plain({"create"}, {r1, r2, r3}) \cup Plain({"activate"}, {r1, r2})
  \cup To({r1, r2}, {"approved"})
  \cup {Call("rollout", r, 1) : r \in {r1, r2, r3}} \cup {Call("rollback", r2, r1)}

MCLoads ==
  { [calls |-> Reviewed({r1, r2, r4}) \cup To({r1, r4}, {"archived"}), fails |-> FALSE],
    [calls |-> Reviewed({r1, r2}), fails |-> TRUE],
    [calls |-> Mixed, fails |-> TRUE] }

MCCalls == UNION {l.calls : l \in MCLoads}

ClientSymmetry == Permutations(Clients)
=============================================================================
