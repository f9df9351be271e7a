---------------------------- MODULE MCPlanPause ----------------------------
(* PlanPause for TLC: two plans on the workflow, or one of them an agent's. *)
(* Two agents' plans share nothing.                                        *)
EXTENDS PlanPause

CONSTANTS p1, p2

MCEffects == {[p \in {p1, p2} |-> "run_workflow"],
              [p \in {p1, p2} |->
                IF p = p1 THEN "run_agent" ELSE "run_workflow"]}
============================================================================
