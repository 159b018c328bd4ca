-------------------------- MODULE MissionExecutor --------------------------
(***************************************************************************)
(* Resumable execution of one mission: execute_or_resume_plan and its      *)
(* _execute_or_resume_plan_locked body (tools/konoha_v4/executor.py),      *)
(* driven by the terminal loop _run_resumable_execution                    *)
(* (tools/konoha_v4/conversation.py).                                      *)
(*                                                                         *)
(* Several operating-system processes (Session) may drive the same mission *)
(* directory.  They share three files: execution.lock, plan.json and       *)
(* execution_state.json, and the evidence directory.  A process may fail   *)
(* to write, be interrupted from the keyboard or die between any two       *)
(* steps.                                                                  *)
(***************************************************************************)
EXTENDS Integers, Sequences, FiniteSets

CONSTANTS
    Session,      \* processes that run the conversation or --resume on the mission
    Task,         \* task identifiers
    Plan,         \* plan contents, one per plan_identity
    Assignments,  \* Assignments[p]: the ordered assignments of plan p
    None,         \* Python's None, and "no such file"
    Torn          \* content of a file that was only partly written

Gates == {"plan_approval", "separate_human_approval"}

\* family: whether CapabilityRegistry.agent_family finds the assignment's family.
Assignment == [task_id : Task, execution_gate : Gates, mutation : BOOLEAN, family : BOOLEAN]

ASSUME AssignmentsType == Assignments \in [Plan -> Seq(Assignment)]

\* hokage.validate_plan refuses duplicate task identifiers, and the schema empty plans.
ASSUME PlansValidated ==
    \A p \in Plan :
        /\ Assignments[p] # << >>
        /\ \A i, j \in 1..Len(Assignments[p]) :
              Assignments[p][i].task_id = Assignments[p][j].task_id => i = j

ASSUME NoneIsNone ==
    /\ None \notin Task \cup Plan \cup Session \cup Nat \cup {Torn}
    /\ "stale" \notin Session \cup {None}

VARIABLES
    lock,      \* execution.lock: None, its live owner, or "stale" when nobody will remove it
    planFile,  \* plan.json: [identity, approval], or Torn by a partial write
    disk,      \* execution_state.json, None before its first save
    evidence,  \* evidence/*.json: records [id, task_id, status]
    runs,      \* runs[t]: how often a provider was invoked for task t
    nonces,    \* approval nonces shown so far (secrets.token_hex never repeats one)
    granted,   \* approvals a human pasted at a terminal
    pc,        \* pc[s]: where session s is
    plan,      \* plan[s]: the MissionPlan s read or is about to write
    st,        \* st[s]: the local `state` of the body, attempt.state after it
    approval,  \* approval[s]: the pending_approval s passes to the next call
    record,    \* record[s]: the EvidenceRecord s built
    diag       \* diag[s]: attempt.diagnostic

files == <<lock, planFile, disk, evidence>>
history == <<runs, nonces, granted>>
local == <<pc, plan, st, approval, record, diag>>
vars == <<files, history, local>>

----------------------------------------------------------------------------
(* Data.                                                                   *)

PlanApproval == {"pending", "approved", "rejected"}
MissionPlan == [identity : Plan, approval : PlanApproval]

\* _approval_id hashes exactly these; the remaining hashed fields are constant here.
AssignmentApproval == [task_id : Task, plan_identity : Plan, nonce : Nat]

EvidenceId == Task \X Nat
EvidenceRecord == [id : EvidenceId, task_id : Task, status : {"completed", "blocked", "failed"}]

NON_RESUMABLE == {"completed", "failed", "blocked", "recovery_required"}
EXECUTION_STATUSES == {"in_progress", "waiting_for_approval", "executing"} \cup NON_RESUMABLE

OrNone(S) == S \cup {None}

ASSUME NoneIsNoRecord == None \notin AssignmentApproval \cup EvidenceRecord \cup MissionPlan

\* The reason codes of attempts and states; "persist_failed" stands for every
\* *_persist_failed but the one told apart, "not_ready" for required_sources:*,
\* provider_not_ready:* and model_not_ready:*.
Diagnostic ==
    {"plan_load_error", "state_load_error", "plan_drift", "inconsistent_state",
     "interrupted_while_executing", "missing_or_corrupt_completed_evidence",
     "cursor_exhausted_without_completed_status", "non_resumable_status",
     "mutation_runtime_not_supported", "plan_approval_not_satisfied",
     "waiting_for_approval", "task_id_mismatch", "no_pending_approval",
     "plan_identity_mismatch", "nonce_mismatch", "approval_already_consumed",
     "unknown_agent_family", "not_ready", "git_status_failed", "completed", "in_progress",
     "blocked", "failed", "persist_failed", "unknown_family_persist_failed",
     "lock_release_error"}

ExecutionState ==
    [plan_identity          : Plan,
     status                 : EXECUTION_STATUSES,
     next                   : Nat,
     completed_task_ids     : Seq(Task),
     pending_task_id        : OrNone(Task),
     pending_execution_gate : OrNone(Gates),
     approval_nonce         : OrNone(Nat),
     active_approval_id     : OrNone(AssignmentApproval),
     consumed_approval_ids  : SUBSET AssignmentApproval,
     evidence_ids_by_task   : SUBSET (Task \X EvidenceId),
     executing_task_id      : OrNone(Task),
     pause_reason           : OrNone(Diagnostic),
     diagnostic             : OrNone(Diagnostic)]

ASSUME NoneIsNoState == None \notin Diagnostic \cup Gates \cup ExecutionState

Total(p) == Len(Assignments[p])
TaskIds(p) == {Assignments[p][i].task_id : i \in 1..Total(p)}
HasCurrent(p, state) == state.next < Total(p)
CurrentTask(p, state) == Assignments[p][state.next + 1]
Elements(seq) == {seq[i] : i \in 1..Len(seq)}

----------------------------------------------------------------------------
(* _validate_execution_state_invariants: the first violated condition.     *)

\* completed_task_ids is a prefix of the plan's order and the cursor points after it.
VerifyPrefix(p, state) ==
    /\ state.next = Len(state.completed_task_ids)
    /\ state.next \in 0..Total(p)
    /\ \A i \in 1..state.next : state.completed_task_ids[i] = Assignments[p][i].task_id

NothingPending(state) ==
    /\ state.pending_task_id = None
    /\ state.pending_execution_gate = None
    /\ state.approval_nonce = None
    /\ state.active_approval_id = None
    /\ state.executing_task_id = None

PendingIsCurrent(p, state) ==
    /\ HasCurrent(p, state)
    /\ state.pending_task_id = CurrentTask(p, state).task_id
    /\ state.pending_execution_gate = CurrentTask(p, state).execution_gate

NoApprovalInFlight(state) ==
    /\ state.approval_nonce = None
    /\ state.active_approval_id = None
    /\ state.executing_task_id = None

StatusConsistent(p, state) ==
    /\ state.status \in {"in_progress", "completed"} => NothingPending(state)
    /\ state.status \in {"waiting_for_approval", "executing", "failed", "blocked"} =>
          PendingIsCurrent(p, state)
    /\ state.status \in {"failed", "blocked"} => NoApprovalInFlight(state)
    /\ state.status = "waiting_for_approval" =>
          /\ state.pending_execution_gate = "separate_human_approval"
          /\ state.approval_nonce # None
          /\ state.active_approval_id = None
          /\ state.executing_task_id = None
          /\ state.pause_reason # None
    /\ state.status = "executing" =>
          /\ state.executing_task_id = state.pending_task_id
          /\ IF state.pending_execution_gate = "separate_human_approval"
               THEN state.approval_nonce # None /\ state.active_approval_id # None
               ELSE state.approval_nonce = None /\ state.active_approval_id = None
    /\ state.status = "completed" => state.next = Total(p)
    /\ state.status \in {"failed", "recovery_required"} => state.diagnostic # None
    /\ state.status = "blocked" => state.pause_reason # None

\* What the persisted state must satisfy against the plan it was written for.
StructurallySound(p, state) ==
    /\ VerifyPrefix(p, state)
    /\ {state.pending_task_id, state.executing_task_id} \subseteq OrNone(TaskIds(p))
    /\ {e[1] : e \in state.evidence_ids_by_task} \subseteq TaskIds(p)
    /\ state.active_approval_id \notin state.consumed_approval_ids
    /\ StatusConsistent(p, state)

\* _verify_completed_evidence: every completed task has its own completed record.
EvidenceVerified(state) ==
    \A t \in Elements(state.completed_task_ids) :
        \E r \in evidence :
            /\ <<t, r.id>> \in state.evidence_ids_by_task
            /\ r.task_id = t
            /\ r.status = "completed"

\* Mutant: a state left at "executing" by a dead process is simply continued.
RecoveryReason_ReinvokesExecuting(p, state) ==
    IF state.plan_identity # p THEN "plan_drift"
    ELSE IF ~StructurallySound(p, state) THEN "inconsistent_state"
    ELSE IF state.status \in NON_RESUMABLE THEN None
    ELSE IF ~EvidenceVerified(state) THEN "missing_or_corrupt_completed_evidence"
    ELSE None

\* The reason the body gives up on a state, None when it may go on.
RecoveryReason(p, state) ==
    IF state.plan_identity # p THEN "plan_drift"
    ELSE IF ~StructurallySound(p, state) THEN "inconsistent_state"
    ELSE IF state.status \in NON_RESUMABLE THEN None
    ELSE IF state.status = "executing" THEN "interrupted_while_executing"
    ELSE IF ~EvidenceVerified(state) THEN "missing_or_corrupt_completed_evidence"
    ELSE IF ~HasCurrent(p, state) THEN "cursor_exhausted_without_completed_status"
    ELSE None

\* _validate_assignment_approval on an approval the terminal loop built.
ApprovalRejection(a, p, state) ==
    IF a.task_id # CurrentTask(p, state).task_id \/ a.task_id # state.pending_task_id
      THEN "task_id_mismatch"
    ELSE IF state.status # "waiting_for_approval" THEN "no_pending_approval"
    ELSE IF a.plan_identity # p \/ state.plan_identity # p THEN "plan_identity_mismatch"
    ELSE IF a.nonce # state.approval_nonce THEN "nonce_mismatch"
    ELSE IF a \in state.consumed_approval_ids THEN "approval_already_consumed"
    ELSE None

----------------------------------------------------------------------------
(* The pure transitions (Bloque E1).                                       *)

NewExecutionState(p) ==
    [plan_identity |-> p, status |-> "in_progress", next |-> 0,
     completed_task_ids |-> << >>, pending_task_id |-> None,
     pending_execution_gate |-> None, approval_nonce |-> None,
     active_approval_id |-> None, consumed_approval_ids |-> {},
     evidence_ids_by_task |-> {}, executing_task_id |-> None,
     pause_reason |-> None, diagnostic |-> None]

\* Shared by the blocked and failed transitions: the cursor stays on the task.
StoppedAt(state, task, status, consumed, reason, pause) ==
    [state EXCEPT !.status = status,
                  !.pending_task_id = task.task_id,
                  !.pending_execution_gate = task.execution_gate,
                  !.approval_nonce = None,
                  !.active_approval_id = None,
                  !.executing_task_id = None,
                  !.consumed_approval_ids = state.consumed_approval_ids \cup consumed,
                  !.pause_reason = pause,
                  !.diagnostic = reason]

TransitionToBlocked(state, task, reason) ==
    StoppedAt(state, task, "blocked", {}, reason, reason)

\* Mutant: a failed task is left open, to be tried again.
TransitionToFailed_Retryable(state, task, consumed, reason) ==
    [state EXCEPT !.status = "in_progress",
                  !.pending_task_id = None, !.pending_execution_gate = None,
                  !.approval_nonce = None, !.active_approval_id = None,
                  !.executing_task_id = None, !.pause_reason = None, !.diagnostic = None,
                  !.consumed_approval_ids = @ \cup consumed]

TransitionToFailed(state, task, consumed, reason) ==
    StoppedAt(state, task, "failed", consumed, reason, None)

TransitionToWaiting(state, task, nonce) ==
    [state EXCEPT !.status = "waiting_for_approval",
                  !.pending_task_id = task.task_id,
                  !.pending_execution_gate = task.execution_gate,
                  !.approval_nonce = nonce,
                  !.active_approval_id = None,
                  !.executing_task_id = None,
                  !.pause_reason = "waiting_for_approval",
                  !.diagnostic = None]

TransitionToExecuting(state, task, approvalId) ==
    LET separate == task.execution_gate = "separate_human_approval"
    IN  [state EXCEPT !.status = "executing",
                      !.pending_task_id = task.task_id,
                      !.pending_execution_gate = task.execution_gate,
                      !.executing_task_id = task.task_id,
                      !.approval_nonce = IF separate THEN state.approval_nonce ELSE None,
                      !.active_approval_id = IF separate THEN approvalId ELSE None,
                      !.pause_reason = None,
                      !.diagnostic = None]

\* Mutant: off by one, the last task leaves the mission in progress.
TransitionAfterCompleted_OffByOne(state, p, task, evidenceId, consumed) ==
    [state EXCEPT !.status = IF state.next >= Total(p) THEN "completed" ELSE "in_progress",
                  !.next = state.next + 1,
                  !.completed_task_ids = Append(state.completed_task_ids, task.task_id),
                  !.pending_task_id = None,
                  !.pending_execution_gate = None,
                  !.approval_nonce = None,
                  !.active_approval_id = None,
                  !.executing_task_id = None,
                  !.evidence_ids_by_task = state.evidence_ids_by_task \cup {<<task.task_id, evidenceId>>},
                  !.consumed_approval_ids = state.consumed_approval_ids \cup consumed]

TransitionAfterCompleted(state, p, task, evidenceId, consumed) ==
    [state EXCEPT !.status = IF state.next + 1 >= Total(p) THEN "completed" ELSE "in_progress",
                  !.next = state.next + 1,
                  !.completed_task_ids = Append(state.completed_task_ids, task.task_id),
                  !.pending_task_id = None,
                  !.pending_execution_gate = None,
                  !.approval_nonce = None,
                  !.active_approval_id = None,
                  !.executing_task_id = None,
                  !.pause_reason = None,
                  !.diagnostic = None,
                  !.evidence_ids_by_task = state.evidence_ids_by_task \cup {<<task.task_id, evidenceId>>},
                  !.consumed_approval_ids = state.consumed_approval_ids \cup consumed]

RecoveryResult(state, reason) ==
    [state EXCEPT !.status = "recovery_required", !.diagnostic = reason]

----------------------------------------------------------------------------
(* Steps.                                                                  *)

Locked == {"locked", "planned", "decide", "invoke", "running", "persist_evidence",
           "finalise", "release"}
Labels == Locked \cup {"idle", "truncate_plan", "write_plan", "call", "returned",
                       "ask_plan", "ask_assignment"}

Init ==
    /\ lock = None
    /\ planFile \in OrNone([identity : Plan, approval : {"pending", "approved"}])
    /\ disk = None
    /\ evidence = {}
    /\ runs = [t \in Task |-> 0]
    /\ nonces = 0
    /\ granted = {}
    /\ pc = [s \in Session |-> "idle"]
    /\ plan = [s \in Session |-> None]
    /\ st = [s \in Session |-> None]
    /\ approval = [s \in Session |-> None]
    /\ record = [s \in Session |-> None]
    /\ diag = [s \in Session |-> None]

Goto(s, label) == pc' = [pc EXCEPT ![s] = label]

\* The process returns to its caller or is gone: nothing of its memory survives.
Ends(s) ==
    /\ Goto(s, "idle")
    /\ plan' = [plan EXCEPT ![s] = None]
    /\ st' = [st EXCEPT ![s] = None]
    /\ approval' = [approval EXCEPT ![s] = None]
    /\ record' = [record EXCEPT ![s] = None]
    /\ diag' = [diag EXCEPT ![s] = None]

\* The body returns ExecutionAttempt(state, diagnostic); the lock is released next.
Returns(s, state, diagnostic) ==
    /\ Goto(s, "release")
    /\ st' = [st EXCEPT ![s] = state]
    /\ diag' = [diag EXCEPT ![s] = diagnostic]
    /\ approval' = [approval EXCEPT ![s] = None]
    /\ record' = [record EXCEPT ![s] = None]
    /\ UNCHANGED plan

\* Mutant: a failed save goes unnoticed and the unsaved state is reported.
SavesAndReturns_IgnoresFailure(s, state, diagnostic, failure) ==
    /\ disk' \in {disk, state}
    /\ Returns(s, state, diagnostic)

\* _save_execution_state (temporary file, then os.replace) followed by a return:
\* the new state is durable and returned, or the write fails and the old one is.
SavesAndReturns(s, state, diagnostic, failure) ==
    \/ /\ disk' = state
       /\ Returns(s, state, diagnostic)
    \/ /\ UNCHANGED disk
       /\ Returns(s, st[s], failure)

----------------------------------------------------------------------------
(* execute_or_resume_plan: lock, load, decide.                             *)

\* resume_mission: a process starts the terminal loop on the stored mission.
ResumeMission(s) ==
    /\ pc[s] = "idle"
    /\ Goto(s, "call")
    /\ UNCHANGED <<files, history, plan, st, approval, record, diag>>

\* run(): a conversation ends with an approved plan for this mission_id, stored next.
RunConversation(s, p) ==
    /\ pc[s] = "idle"
    /\ plan' = [plan EXCEPT ![s] = [identity |-> p, approval |-> "approved"]]
    /\ Goto(s, "truncate_plan")
    /\ UNCHANGED <<files, history, st, approval, record, diag>>

\* _MissionLock.acquire creates execution.lock exclusively.
AcquireLock(s) ==
    /\ pc[s] = "call"
    /\ lock = None
    /\ lock' = s
    /\ Goto(s, "locked")
    /\ UNCHANGED <<planFile, disk, evidence, history, plan, st, approval, record, diag>>

\* lock_busy or lock_acquire_error: attempt.state is None and the loop gives up.  When
\* closing the file just created fails, removing it may fail as well.
LockNotAcquired(s) ==
    /\ pc[s] = "call"
    /\ lock' = lock \/ (lock = None /\ lock' = "stale")
    /\ Ends(s)
    /\ UNCHANGED <<planFile, disk, evidence, history>>

\* load_persisted_plan; an absent, partial or unreadable file is plan_load_error.
LoadPlan(s) ==
    /\ pc[s] = "locked"
    /\ \/ /\ planFile \in MissionPlan
          /\ plan' = [plan EXCEPT ![s] = planFile]
          /\ Goto(s, "planned")
          /\ UNCHANGED <<st, approval, record, diag>>
       \/ Returns(s, None, "plan_load_error")
    /\ UNCHANGED <<files, history>>

\* Mutant: a state written for another plan is silently replaced by a fresh one.
LoadState_RestartsOnDrift(s) ==
    /\ pc[s] = "planned"
    /\ st' = [st EXCEPT ![s] = IF disk = None THEN NewExecutionState(plan[s].identity)
                               ELSE IF disk.plan_identity # plan[s].identity
                                      THEN NewExecutionState(plan[s].identity)
                               ELSE disk]
    /\ Goto(s, "decide")
    /\ UNCHANGED <<files, history, plan, approval, record, diag>>

\* _load_execution_state, or a fresh state that is not itself persisted.
LoadState(s) ==
    /\ pc[s] = "planned"
    /\ \/ /\ st' = [st EXCEPT ![s] =
                     IF disk = None THEN NewExecutionState(plan[s].identity) ELSE disk]
          /\ Goto(s, "decide")
          /\ UNCHANGED <<plan, approval, record, diag>>
       \/ Returns(s, None, "state_load_error")
    /\ UNCHANGED <<files, history>>

Reason(s) == RecoveryReason(plan[s].identity, st[s])
Current(s) == CurrentTask(plan[s].identity, st[s])

\* _recover: the persisted state cannot be trusted; only status and diagnostic change.
Recover(s) ==
    /\ pc[s] = "decide"
    /\ Reason(s) # None
    /\ SavesAndReturns(s, RecoveryResult(st[s], Reason(s)), Reason(s), "persist_failed")
    /\ UNCHANGED <<lock, planFile, evidence, history>>

NonResumable(s) ==
    /\ pc[s] = "decide"
    /\ Reason(s) = None
    /\ st[s].status \in NON_RESUMABLE
    /\ Returns(s, st[s], "non_resumable_status")
    /\ UNCHANGED <<files, history>>

\* The state is sound and the cursor is on a task that may still run.
Resumable(s) ==
    /\ pc[s] = "decide"
    /\ Reason(s) = None
    /\ st[s].status \notin NON_RESUMABLE

\* Evidence that is on disk but cannot be read now counts as corrupt.
EvidenceUnreadable(s) ==
    /\ Resumable(s)
    /\ st[s].completed_task_ids # << >>
    /\ SavesAndReturns(s, RecoveryResult(st[s], "missing_or_corrupt_completed_evidence"),
                       "missing_or_corrupt_completed_evidence", "persist_failed")
    /\ UNCHANGED <<lock, planFile, evidence, history>>

\* _block_before_execution: refused before any gate is looked at.
BlockMutation(s) ==
    /\ Resumable(s)
    /\ Current(s).mutation
    /\ SavesAndReturns(s, TransitionToBlocked(st[s], Current(s), "mutation_runtime_not_supported"),
                       "mutation_runtime_not_supported", "persist_failed")
    /\ UNCHANGED <<lock, planFile, evidence, history>>

\* plan_approval_not_satisfied writes nothing: plan.json is read again next time.
PlanNotApproved(s) ==
    /\ Resumable(s)
    /\ ~Current(s).mutation
    /\ Current(s).execution_gate = "plan_approval"
    /\ plan[s].approval # "approved"
    /\ Returns(s, st[s], "plan_approval_not_satisfied")
    /\ UNCHANGED <<files, history>>

\* First arrival at a separate_human_approval task: a fresh nonce, made durable.
EnterWaiting(s) ==
    /\ Resumable(s)
    /\ ~Current(s).mutation
    /\ Current(s).execution_gate = "separate_human_approval"
    /\ st[s].status # "waiting_for_approval"
    /\ \/ /\ nonces' = nonces + 1
          /\ disk' = TransitionToWaiting(st[s], Current(s), nonces')
          /\ Returns(s, disk', "waiting_for_approval")
       \/ /\ Returns(s, st[s], "persist_failed")
          /\ UNCHANGED <<nonces, disk>>
    /\ UNCHANGED <<lock, planFile, evidence, runs, granted>>

\* No approval, or one that does not authorise this task: the mission keeps waiting.
KeepWaiting(s) ==
    /\ Resumable(s)
    /\ ~Current(s).mutation
    /\ Current(s).execution_gate = "separate_human_approval"
    /\ st[s].status = "waiting_for_approval"
    /\ IF approval[s] = None
         THEN Returns(s, st[s], "waiting_for_approval")
         ELSE LET reason == ApprovalRejection(approval[s], plan[s].identity, st[s])
              IN  reason # None /\ Returns(s, st[s], reason)
    /\ UNCHANGED <<files, history>>

\* Mutant: a waiting task is started by any approval a human ever pasted.
GateOpen_AnyApproval(s) ==
    /\ Resumable(s)
    /\ ~Current(s).mutation
    /\ IF Current(s).execution_gate = "plan_approval"
         THEN plan[s].approval = "approved"
         ELSE st[s].status = "waiting_for_approval" /\ approval[s] # None

\* The gate of the current task is open for this call.
GateOpen(s) ==
    /\ Resumable(s)
    /\ ~Current(s).mutation
    /\ IF Current(s).execution_gate = "plan_approval"
         THEN plan[s].approval = "approved"
         ELSE /\ st[s].status = "waiting_for_approval"
              /\ approval[s] # None
              /\ ApprovalRejection(approval[s], plan[s].identity, st[s]) = None

\* approval_id_to_consume, None for a plan_approval task.
ApprovalToConsume(s) ==
    IF Current(s).execution_gate = "plan_approval" THEN None ELSE approval[s]

\* Mutant: None is recorded as a consumed approval.
Consumed_KeepsNone(a) == {a}

Consumed(a) == {a} \ {None}

\* unknown_agent_family consumes a validated approval.
UnknownFamily(s) ==
    /\ GateOpen(s)
    /\ ~Current(s).family
    /\ SavesAndReturns(s, TransitionToFailed(st[s], Current(s), Consumed(ApprovalToConsume(s)),
                                             "unknown_agent_family"),
                       "unknown_agent_family", "unknown_family_persist_failed")
    /\ UNCHANGED <<lock, planFile, evidence, history>>

\* _required_sources_gate or _readiness_diagnostic: nothing is written or consumed.
NotReady(s) ==
    /\ GateOpen(s)
    /\ Current(s).family
    /\ Returns(s, st[s], "not_ready")
    /\ UNCHANGED <<files, history>>

\* A failing Git baseline fails the task before it ran and keeps the approval unused.
GitBaselineFails(s) ==
    /\ GateOpen(s)
    /\ Current(s).family
    /\ SavesAndReturns(s, TransitionToFailed(st[s], Current(s), {}, "git_status_failed"),
                       "git_status_failed", "persist_failed")
    /\ UNCHANGED <<lock, planFile, evidence, history>>

\* "executing" is made durable before the provider is invoked.
BeginExecuting(s) ==
    /\ GateOpen(s)
    /\ Current(s).family
    /\ \/ /\ disk' = TransitionToExecuting(st[s], Current(s), ApprovalToConsume(s))
          /\ st' = [st EXCEPT ![s] = disk']
          /\ Goto(s, "invoke")
          /\ UNCHANGED <<plan, approval, record, diag>>
       \/ /\ Returns(s, st[s], "persist_failed")
          /\ UNCHANGED disk
    /\ UNCHANGED <<lock, planFile, evidence, history>>

----------------------------------------------------------------------------
(* _run_assignment and what follows it.                                    *)

Invoke(s) ==
    /\ pc[s] = "invoke"
    /\ runs' = [runs EXCEPT ![Current(s).task_id] = @ + 1]
    /\ Goto(s, "running")
    /\ UNCHANGED <<files, nonces, granted, plan, st, approval, record, diag>>

\* The provider's answer, its validation and the closing Git check give one status.
AssignmentEnds(s, status) ==
    /\ pc[s] = "running"
    /\ record' = [record EXCEPT ![s] =
                     [id |-> <<Current(s).task_id, runs[Current(s).task_id]>>,
                      task_id |-> Current(s).task_id, status |-> status]]
    /\ Goto(s, "persist_evidence")
    /\ UNCHANGED <<files, history, plan, st, approval, diag>>

\* Mutant: a failed write of the evidence file is ignored.
PersistEvidence_IgnoresFailure(s) ==
    /\ pc[s] = "persist_evidence"
    /\ evidence' \in {evidence, evidence \cup {record[s]}}
    /\ Goto(s, "finalise")
    /\ UNCHANGED <<lock, planFile, disk, history, plan, st, approval, record, diag>>

PersistEvidence(s) ==
    /\ pc[s] = "persist_evidence"
    /\ \/ /\ evidence' = evidence \cup {record[s]}
          /\ Goto(s, "finalise")
          /\ UNCHANGED <<plan, st, approval, record, diag>>
       \/ /\ Returns(s, st[s], "persist_failed")
          /\ UNCHANGED evidence
    /\ UNCHANGED <<lock, planFile, disk, history>>

FinalState(s) ==
    LET consumed == Consumed(ApprovalToConsume(s))
    IN  IF record[s].status = "completed"
          THEN TransitionAfterCompleted(st[s], plan[s].identity, Current(s), record[s].id, consumed)
        ELSE IF record[s].status = "blocked"
          THEN StoppedAt(st[s], Current(s), "blocked", consumed, "blocked", "blocked")
        ELSE TransitionToFailed(st[s], Current(s), consumed, "failed")

Finalise(s) ==
    /\ pc[s] = "finalise"
    /\ SavesAndReturns(s, FinalState(s), FinalState(s).status, "persist_failed")
    /\ UNCHANGED <<lock, planFile, evidence, history>>

\* _MissionLock.release unlinks the file whoever owns it; a failure leaves it behind.
ReleaseLock(s) ==
    /\ pc[s] = "release"
    /\ \/ lock' = None /\ UNCHANGED diag
       \/ lock' = "stale" /\ diag' = [diag EXCEPT ![s] = "lock_release_error"]
    /\ Goto(s, "returned")
    /\ UNCHANGED <<planFile, disk, evidence, history, plan, st, approval, record>>

----------------------------------------------------------------------------
(* _run_resumable_execution: what the terminal loop does with an attempt.   *)

Fatal == {"persist_failed", "unknown_family_persist_failed", "lock_release_error"}

\* Mutant: a provider that is not ready is polled again at once.
LoopStops_Polls(s) ==
    st[s] # None => diag[s] \in Fatal \/ st[s].status \in NON_RESUMABLE

\* No state, a durability failure, a pause for the environment, or a final status.
LoopStops(s) ==
    st[s] # None =>
        diag[s] \in Fatal \cup {"not_ready"} \/ st[s].status \in NON_RESUMABLE

StopSession(s) ==
    /\ pc[s] = "returned"
    /\ LoopStops(s)
    /\ Ends(s)
    /\ UNCHANGED <<files, history>>

NextAttempt(s) ==
    /\ pc[s] = "returned"
    /\ ~LoopStops(s)
    /\ st[s].status = "in_progress"
    /\ diag[s] # "plan_approval_not_satisfied"
    /\ Goto(s, "call")
    /\ st' = [st EXCEPT ![s] = None]
    /\ plan' = [plan EXCEPT ![s] = None]
    /\ diag' = [diag EXCEPT ![s] = None]
    /\ UNCHANGED <<files, history, approval, record>>

\* _resolve_pending_plan_approval loads its own copy; nobody catches its
\* MissionLookupError when that fails.
AskPlanApproval(s) ==
    /\ pc[s] = "returned"
    /\ ~LoopStops(s)
    /\ st[s].status = "in_progress"
    /\ diag[s] = "plan_approval_not_satisfied"
    /\ \/ /\ planFile \in MissionPlan
          /\ plan' = [plan EXCEPT ![s] = planFile]
          /\ st' = [st EXCEPT ![s] = None]
          /\ diag' = [diag EXCEPT ![s] = None]
          /\ Goto(s, "ask_plan")
          /\ UNCHANGED <<approval, record>>
       \/ Ends(s)
    /\ UNCHANGED <<files, history>>

AskAssignmentApproval(s) ==
    /\ pc[s] = "returned"
    /\ ~LoopStops(s)
    /\ st[s].status = "waiting_for_approval"
    /\ Goto(s, "ask_assignment")
    /\ plan' = [plan EXCEPT ![s] = None]
    /\ diag' = [diag EXCEPT ![s] = None]
    /\ UNCHANGED <<files, history, st, approval, record>>

\* The human confirms the plan challenge, or rejects the plan; stored next.
DecidePlan(s, decision) ==
    /\ pc[s] = "ask_plan"
    /\ plan' = [plan EXCEPT ![s].approval = decision]
    /\ Goto(s, "truncate_plan")
    /\ UNCHANGED <<files, history, st, approval, record, diag>>

\* The exact command printed for attempt.state.
PasteApproval(s) ==
    /\ pc[s] = "ask_assignment"
    /\ LET a == [task_id |-> st[s].pending_task_id, plan_identity |-> st[s].plan_identity,
                 nonce |-> st[s].approval_nonce]
       IN  /\ approval' = [approval EXCEPT ![s] = a]
           /\ granted' = granted \cup {a}
    /\ st' = [st EXCEPT ![s] = None]
    /\ Goto(s, "call")
    /\ UNCHANGED <<files, runs, nonces, plan, record, diag>>

\* Anything else that is not an exit word: the loop calls again without approval.
MistypeApproval(s) ==
    /\ pc[s] = "ask_assignment"
    /\ st' = [st EXCEPT ![s] = None]
    /\ Goto(s, "call")
    /\ UNCHANGED <<files, history, plan, approval, record, diag>>

Pause(s) ==
    /\ pc[s] \in {"ask_plan", "ask_assignment"}
    /\ Ends(s)
    /\ UNCHANGED <<files, history>>

----------------------------------------------------------------------------
(* _persist_plan: Path.write_text truncates, then writes; no lock is held.  *)

TruncatePlan(s) ==
    /\ pc[s] = "truncate_plan"
    /\ \/ planFile' = Torn /\ Goto(s, "write_plan")
          /\ UNCHANGED <<plan, st, approval, record, diag>>
       \/ Ends(s) /\ UNCHANGED planFile
    /\ UNCHANGED <<lock, disk, evidence, history>>

\* A writer that opened the file earlier may find another's text in it: the shorter
\* text then leaves the longer one's tail behind.
WritePlan(s) ==
    /\ pc[s] = "write_plan"
    /\ \/ /\ \/ planFile' = plan[s]
             \/ planFile # Torn /\ planFile' = Torn
          /\ IF plan[s].approval = "approved"
               THEN /\ Goto(s, "call")
                    /\ plan' = [plan EXCEPT ![s] = None]
                    /\ UNCHANGED <<st, approval, record, diag>>
               ELSE Ends(s)
       \/ planFile' = Torn /\ Ends(s)
    /\ UNCHANGED <<lock, disk, evidence, history>>

----------------------------------------------------------------------------
(* Faults.                                                                 *)

\* KeyboardInterrupt, or an exception nobody catches, in the body: the lock is released
\* (or that fails too) and it propagates.
Interrupt(s) ==
    /\ pc[s] \in Locked \ {"release"}
    /\ lock' \in {None, "stale"}
    /\ Ends(s)
    /\ UNCHANGED <<planFile, disk, evidence, history>>

\* The process dies: files stay as they are, execution.lock included.
Crash(s) ==
    /\ pc[s] # "idle"
    /\ lock' = IF lock = s THEN "stale" ELSE lock
    /\ Ends(s)
    /\ UNCHANGED <<planFile, disk, evidence, history>>

\* An operator deletes by hand a lock that no live process owns.
RemoveStaleLock ==
    /\ lock = "stale"
    /\ lock' = None
    /\ UNCHANGED <<planFile, disk, evidence, history, local>>

----------------------------------------------------------------------------
\* What a session does by itself, without a human at the terminal.
CodeStep(s) ==
    \/ AcquireLock(s) \/ LockNotAcquired(s) \/ LoadPlan(s) \/ LoadState(s)
    \/ Recover(s) \/ NonResumable(s) \/ EvidenceUnreadable(s) \/ BlockMutation(s) \/ PlanNotApproved(s)
    \/ EnterWaiting(s) \/ KeepWaiting(s) \/ UnknownFamily(s) \/ NotReady(s)
    \/ GitBaselineFails(s) \/ BeginExecuting(s) \/ Invoke(s)
    \/ \E status \in {"completed", "blocked", "failed"} : AssignmentEnds(s, status)
    \/ PersistEvidence(s) \/ Finalise(s) \/ ReleaseLock(s)
    \/ StopSession(s) \/ NextAttempt(s) \/ AskPlanApproval(s) \/ AskAssignmentApproval(s)
    \/ TruncatePlan(s) \/ WritePlan(s)

HumanStep(s) ==
    \/ ResumeMission(s)
    \/ \E p \in Plan : RunConversation(s, p)
    \/ \E decision \in {"approved", "rejected"} : DecidePlan(s, decision)
    \/ PasteApproval(s) \/ MistypeApproval(s) \/ Pause(s)

Fault(s) == Interrupt(s) \/ Crash(s)

Next ==
    \/ \E s \in Session : CodeStep(s) \/ HumanStep(s) \/ Fault(s)
    \/ RemoveStaleLock

Spec == Init /\ [][Next]_vars

\* A running process keeps running: subprocesses (provider, git) have timeouts.
FairSpec == Spec /\ \A s \in Session : WF_vars(CodeStep(s))

----------------------------------------------------------------------------
(* Properties.                                                             *)

\* Types of the mission's files and of the sessions' local state: what executor.py and
\* the conversation can have written or hold at each label.
TypeOK ==
    /\ lock \in Session \cup {None, "stale"}
    /\ planFile \in MissionPlan \cup {None, Torn}
    /\ disk \in OrNone(ExecutionState)
    /\ evidence \subseteq EvidenceRecord
    /\ runs \in [Task -> Nat]
    /\ nonces \in Nat
    /\ granted \subseteq AssignmentApproval
    /\ pc \in [Session -> Labels]
    /\ plan \in [Session -> OrNone(MissionPlan)]
    /\ st \in [Session -> OrNone(ExecutionState)]
    /\ approval \in [Session -> OrNone(AssignmentApproval)]
    /\ record \in [Session -> OrNone(EvidenceRecord)]
    /\ diag \in [Session -> OrNone(Diagnostic)]

\* No task is handed to a provider twice, whatever crashes, failed writes, concurrent
\* sessions and hand-removed locks happen ("a persistence failure after invoke never
\* triggers an automatic re-invocation", ExecutionAttempt).
InvokedAtMostOnce == \A t \in Task : runs[t] <= 1

\* Between the durable "executing" and the end of the attempt the file on disk names
\* exactly the task being run, so that a crash is always found by the next call.
ExecutingIsDurable ==
    \A s \in Session :
        pc[s] \in {"invoke", "running", "persist_evidence", "finalise"} =>
            /\ lock = s
            /\ disk # None
            /\ disk.status = "executing"
            /\ disk.executing_task_id = Current(s).task_id

\* The runtime's own transitions never leave a file that the runtime's own validator
\* calls corrupt, or completed work without its evidence.
OwnStatesAreSound ==
    disk # None => StructurallySound(disk.plan_identity, disk) /\ EvidenceVerified(disk)

\* So a mission is given up because the plan changed under it, a run was cut short or
\* evidence could not be read, never for an inconsistent or exhausted cursor ("only
\* reachable via external tampering, never via our own transitions").
RecoveryReasons ==
    disk # None /\ disk.status = "recovery_required" =>
        disk.diagnostic \in {"plan_drift", "interrupted_while_executing",
                             "missing_or_corrupt_completed_evidence"}

\* A provider runs only with authority: a plan that was approved when this call read it,
\* or an approval a human pasted for this very task, plan and nonce, not spent before.
RunsAreAuthorised ==
    \A s \in Session :
        pc[s] \in {"invoke", "running"} =>
            /\ plan[s].identity = disk.plan_identity
            /\ ~Current(s).mutation
            /\ \/ Current(s).execution_gate = "plan_approval" /\ plan[s].approval = "approved"
               \/ /\ disk.active_approval_id \in granted \ disk.consumed_approval_ids
                  /\ disk.active_approval_id.task_id = Current(s).task_id
                  /\ disk.active_approval_id.plan_identity = disk.plan_identity
                  /\ disk.active_approval_id.nonce = disk.approval_nonce

\* The loop reports "completed" only when completion is on disk and every task ran.
SuccessIsDurable ==
    \A s \in Session :
        pc[s] = "returned" /\ st[s] # None /\ st[s].status = "completed" /\ diag[s] \notin Fatal =>
            /\ disk # None
            /\ disk.status \in {"completed", "recovery_required"}
            /\ \A t \in TaskIds(disk.plan_identity) : runs[t] = 1

\* A save never undoes progress: the plan identity is fixed by the first save, the cursor
\* advances by single tasks, spent approvals stay spent; and a final status is only ever
\* replaced by recovery_required, with everything done, consumed and evidenced kept.
ProgressStep ==
    disk # None =>
        /\ disk' # None
        /\ disk'.plan_identity = disk.plan_identity
        /\ disk'.next \in {disk.next, disk.next + 1}
        /\ disk.consumed_approval_ids \subseteq disk'.consumed_approval_ids
        /\ disk'.next = disk.next + 1 => disk.status = "executing"
        /\ disk.status \in NON_RESUMABLE =>
              /\ disk'.status \in {disk.status, "recovery_required"}
              /\ disk'.completed_task_ids = disk.completed_task_ids
              /\ disk'.consumed_approval_ids = disk.consumed_approval_ids
              /\ disk'.evidence_ids_by_task = disk.evidence_ids_by_task

\* No save of execution_state.json, by whichever session and after whatever failure, takes
\* back what an earlier one recorded.
ProgressIsMonotone == [][ProgressStep]_disk

\* A started loop always hands control back to a human: it ends or asks.
ReturnsToHuman ==
    \A s \in Session : (pc[s] # "idle") ~> (pc[s] \in {"idle", "ask_plan", "ask_assignment"})

----------------------------------------------------------------------------
(* Refinement.                                                             *)

\* Only the durable state counts: what a session knows but has not saved is nothing.
PhaseOf(state) ==
    IF state = None THEN "ready"
    ELSE IF state.status \in {"in_progress", "waiting_for_approval"} THEN "ready"
    ELSE IF state.status = "executing" THEN "started"
    ELSE IF state.status = "completed" THEN "complete"
    ELSE "stopped"

Contract == INSTANCE MissionContract WITH
    bound <- IF disk = None THEN None ELSE disk.plan_identity,
    done  <- IF disk = None THEN 0 ELSE disk.next,
    phase <- PhaseOf(disk)

\* The runtime implements MissionContract whatever faults and interleavings occur.
ImplementsContract == Contract!ContractSpec

============================================================================
