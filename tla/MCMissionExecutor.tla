------------------------- MODULE MCMissionExecutor -------------------------
(***************************************************************************)
(* Small missions for MissionExecutor: two plans of the same two tasks     *)
(* under different gates (so that plan drift can happen), a plan with a    *)
(* mutating task and a plan whose task names an unknown agent family.      *)
(***************************************************************************)
EXTENDS MissionExecutor, TLC

CONSTANTS p1, p3, p4, p5, t1, t2

A(t, gate) == [task_id |-> t, execution_gate |-> gate, mutation |-> FALSE, family |-> TRUE]

MCAssignments ==
    [p \in Plan |->
        CASE p = p1 -> <<A(t1, "plan_approval"), A(t2, "separate_human_approval")>>
          [] p = p3 -> <<A(t1, "plan_approval"), [A(t2, "plan_approval") EXCEPT !.mutation = TRUE]>>
          [] p = p4 -> <<[A(t1, "separate_human_approval") EXCEPT !.family = FALSE]>>
          [] p = p5 -> <<A(t1, "separate_human_approval"), A(t2, "separate_human_approval")>>]

Perms == Permutations(Session)
============================================================================
