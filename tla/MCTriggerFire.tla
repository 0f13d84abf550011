---------------------------- MODULE MCTriggerFire ----------------------------
(* Small instances of TriggerFire: a project that starts with a template   *)
(* and its triggers, or with nothing.                                      *)
EXTENDS TriggerFire, TLC

CONSTANTS t1, t2, p1

MCTemplateOf == [t \in Triggers |-> p1]
MCRank == [t \in Triggers |-> IF t = t1 THEN 1 ELSE 2]
MCAll == Triggers \X Signals
MCBoot1 == <<Event("template_created", p1), Event("trigger_created", t1)>>
MCBoot2 == MCBoot1 \o <<Event("trigger_created", t2)>>

RequestSymmetry == Permutations(Deliveries) \cup Permutations(Operators)
=============================================================================
