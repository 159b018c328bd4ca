-------------------------- MODULE MissionContract --------------------------
(***************************************************************************)
(* What resumable execution promises, without files, locks, sessions or    *)
(* faults: the tasks of one plan are invoked in order, each at most once,  *)
(* each only after its start was recorded and the previous one succeeded,  *)
(* and a stopped mission never starts again.                               *)
(***************************************************************************)
EXTENDS Integers, Sequences

CONSTANTS Task, Plan, Assignments, None

VARIABLES
    bound,   \* the plan the mission is bound to, None before anything is recorded
    done,    \* how many tasks have completed
    phase,   \* "ready", "started", "complete" or "stopped"
    runs     \* runs[t]: invocations of task t

cvars == <<bound, done, phase, runs>>

ContractInit ==
    /\ bound = None
    /\ done = 0
    /\ phase = "ready"
    /\ runs = [t \in Task |-> 0]

BindTo(p) == bound \in {None, p} /\ bound' = p

NextTask == Assignments[bound][done + 1].task_id

\* A gate is reached: the mission is bound to its plan and waits.
Wait(p) ==
    /\ phase = "ready"
    /\ BindTo(p)
    /\ UNCHANGED <<done, phase, runs>>

\* The start of the next task is recorded.
Start(p) ==
    /\ phase = "ready"
    /\ done < Len(Assignments[p])
    /\ BindTo(p)
    /\ phase' = "started"
    /\ UNCHANGED <<done, runs>>

\* The provider is invoked for the recorded task, which never ran before.
InvokeTask ==
    /\ phase = "started"
    /\ runs[NextTask] = 0
    /\ runs' = [runs EXCEPT ![NextTask] = 1]
    /\ UNCHANGED <<bound, done, phase>>

Complete ==
    /\ phase = "started"
    /\ runs[NextTask] = 1
    /\ done' = done + 1
    /\ phase' = IF done' = Len(Assignments[bound]) THEN "complete" ELSE "ready"
    /\ UNCHANGED <<bound, runs>>

Stop(p) ==
    /\ BindTo(p)
    /\ phase' = "stopped"
    /\ UNCHANGED <<done, runs>>

ContractNext ==
    \/ \E p \in Plan : Wait(p) \/ Start(p) \/ Stop(p)
    \/ InvokeTask
    \/ Complete

ContractSpec == ContractInit /\ [][ContractNext]_cvars

============================================================================
