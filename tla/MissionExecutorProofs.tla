----------------------- MODULE MissionExecutorProofs -----------------------
(***************************************************************************)
(* Safety of MissionExecutor for every set of sessions, tasks and plans.   *)
(*                                                                         *)
(* IInv is inductive.  It says who owns execution.lock, what a session     *)
(* that holds it knows about the file on disk, that this file passes the   *)
(* runtime's own validator, and which tasks can have been invoked.         *)
(***************************************************************************)
EXTENDS MissionExecutor, TLAPS

Sound(state) == StructurallySound(state.plan_identity, state)

\* Holding the lock and being inside the locked body are the same thing.
LockInv == \A s \in Session : pc[s] \in Locked <=> lock = s

InRun == {"invoke", "running", "persist_evidence", "finalise"}
HasPlan == {"planned", "decide", "truncate_plan", "write_plan", "ask_plan"} \cup InRun

\* The authority the current run of s rests on.
Authorised(s) ==
    /\ ~Current(s).mutation
    /\ \/ Current(s).execution_gate = "plan_approval" /\ plan[s].approval = "approved"
       \/ /\ Current(s).execution_gate = "separate_human_approval"
          /\ approval[s] \in AssignmentApproval
          /\ st[s].active_approval_id = approval[s]
          /\ approval[s].task_id = Current(s).task_id
          /\ approval[s].plan_identity = st[s].plan_identity
          /\ approval[s].nonce = st[s].approval_nonce

RunInv(s) ==
    /\ disk = st[s]
    /\ st[s] \in ExecutionState
    /\ st[s].status = "executing"
    /\ st[s].plan_identity = plan[s].identity
    /\ Authorised(s)
    /\ runs[Current(s).task_id] = IF pc[s] = "invoke" THEN 0 ELSE 1
    /\ pc[s] \in {"persist_evidence", "finalise"} =>
          record[s] \in EvidenceRecord /\ record[s].task_id = Current(s).task_id
    /\ pc[s] = "finalise" => record[s] \in evidence

SessionInv(s) ==
    /\ pc[s] \in HasPlan => plan[s] \in MissionPlan
    /\ approval[s] # None => approval[s] \in granted
    /\ pc[s] = "decide" =>
          /\ st[s] \in ExecutionState
          /\ disk = st[s] \/ (disk = None /\ st[s] = NewExecutionState(plan[s].identity))
    /\ pc[s] \in InRun => RunInv(s)
    /\ pc[s] \in {"release", "returned"} /\ st[s] # None => Sound(st[s])
    /\ pc[s] = "ask_assignment" =>
          st[s] \in ExecutionState /\ Sound(st[s]) /\ st[s].status = "waiting_for_approval"

DiskInv == disk # None => Sound(disk) /\ EvidenceVerified(disk)

\* A task has been invoked only if it completed or the mission stopped at it.
InvocationInv ==
    \A t \in Task :
        /\ runs[t] \in {0, 1}
        /\ runs[t] = 1 =>
              /\ disk # None
              /\ \/ t \in Elements(disk.completed_task_ids)
                 \/ /\ disk.status \in {"executing", "failed", "blocked", "recovery_required"}
                    /\ t = disk.pending_task_id

IInv ==
    /\ TypeOK
    /\ LockInv
    /\ \A s \in Session : SessionInv(s)
    /\ DiskInv
    /\ InvocationInv

----------------------------------------------------------------------------
(* The pure transitions keep a state sound.                                *)

\* The memberships the types below rest on, with the large sets kept opaque.
LEMMA TypeFacts ==
    /\ EXECUTION_STATUSES = {"in_progress", "waiting_for_approval", "executing", "completed",
                             "failed", "blocked", "recovery_required"}
    /\ \A S : None \in OrNone(S) /\ S \subseteq OrNone(S)
    /\ None \notin Diagnostic /\ None \notin Gates /\ None \notin ExecutionState
    /\ None \notin AssignmentApproval /\ None \notin EvidenceRecord /\ None \notin MissionPlan
    /\ None \notin Task /\ None \notin Nat
  <1>1. EXECUTION_STATUSES = {"in_progress", "waiting_for_approval", "executing", "completed",
                              "failed", "blocked", "recovery_required"}
    BY DEF EXECUTION_STATUSES, NON_RESUMABLE
  <1>2. \A S : None \in OrNone(S) /\ S \subseteq OrNone(S)
    BY DEF OrNone
  <1> QED
    BY <1>1, <1>2, NoneIsNone, NoneIsNoRecord, NoneIsNoState

\* The reasons the code gives are diagnostics.
LEMMA DiagnosticFacts ==
    {"plan_load_error", "state_load_error", "missing_or_corrupt_completed_evidence",
     "non_resumable_status", "mutation_runtime_not_supported", "plan_approval_not_satisfied",
     "waiting_for_approval", "unknown_agent_family", "not_ready", "git_status_failed",
     "completed", "in_progress", "blocked", "failed", "persist_failed",
     "unknown_family_persist_failed", "lock_release_error"} \subseteq Diagnostic
  BY DEF Diagnostic

\* The task under the cursor is an assignment of the plan.
LEMMA CurrentIsAssignment ==
    ASSUME NEW p \in Plan, NEW state \in ExecutionState, HasCurrent(p, state)
    PROVE  /\ CurrentTask(p, state) \in Assignment
           /\ CurrentTask(p, state).task_id \in TaskIds(p)
           /\ CurrentTask(p, state).task_id \in Task
  <1>1. Assignments[p] \in Seq(Assignment)
    BY AssignmentsType
  <1>2. state.next + 1 \in 1..Len(Assignments[p])
    BY <1>1 DEF HasCurrent, Total, ExecutionState
  <1>3. CurrentTask(p, state) \in Assignment
    BY <1>1, <1>2 DEF CurrentTask
  <1> QED
    BY <1>2, <1>3 DEF CurrentTask, TaskIds, Total, Assignment

\* A fresh state is sound for a validated plan (comment before `state = existing_state ...`
\* in _execute_or_resume_plan_locked).
LEMMA NewStateSound ==
    ASSUME NEW p \in Plan
    PROVE  /\ NewExecutionState(p) \in ExecutionState
           /\ Sound(NewExecutionState(p))
  <1>1. Total(p) \in Nat
    BY AssignmentsType DEF Total
  <1>2. NewExecutionState(p) \in ExecutionState
    <2>1. "in_progress" \in EXECUTION_STATUSES /\ << >> \in Seq(Task)
      BY TypeFacts
    <2> QED
      BY <2>1, TypeFacts DEF NewExecutionState, ExecutionState
  <1>3. VerifyPrefix(p, NewExecutionState(p))
    BY <1>1 DEF NewExecutionState, VerifyPrefix
  <1>4. StatusConsistent(p, NewExecutionState(p))
    BY DEF NewExecutionState, StatusConsistent, NothingPending
  <1> QED
    BY <1>2, <1>3, <1>4 DEF Sound, StructurallySound, NewExecutionState, OrNone

\* _recovery_result changes nothing the validator looks at except the status.
LEMMA RecoverySound ==
    ASSUME NEW state \in ExecutionState, Sound(state), NEW reason \in Diagnostic
    PROVE  /\ RecoveryResult(state, reason) \in ExecutionState
           /\ Sound(RecoveryResult(state, reason))
  <1> DEFINE new == RecoveryResult(state, reason)
  <1>1. new \in ExecutionState
    <2>1. "recovery_required" \in EXECUTION_STATUSES /\ reason \in OrNone(Diagnostic)
      BY TypeFacts
    <2> QED
      BY <2>1 DEF RecoveryResult, ExecutionState
  <1>2. /\ new.plan_identity = state.plan_identity
        /\ new.next = state.next
        /\ new.completed_task_ids = state.completed_task_ids
        /\ new.pending_task_id = state.pending_task_id
        /\ new.executing_task_id = state.executing_task_id
        /\ new.evidence_ids_by_task = state.evidence_ids_by_task
        /\ new.active_approval_id = state.active_approval_id
        /\ new.consumed_approval_ids = state.consumed_approval_ids
        /\ new.status = "recovery_required"
        /\ new.diagnostic = reason
    BY DEF RecoveryResult, ExecutionState
  <1>3. StatusConsistent(new.plan_identity, new)
    BY <1>2, TypeFacts DEF StatusConsistent
  <1> QED
    BY <1>1, <1>2, <1>3 DEF Sound, StructurallySound, VerifyPrefix

\* Stopping at the current task, before or after it ran, keeps the cursor there.
LEMMA StoppedSound ==
    ASSUME NEW state \in ExecutionState, Sound(state),
           HasCurrent(state.plan_identity, state),
           NEW status \in {"failed", "blocked"},
           NEW consumed \in SUBSET AssignmentApproval,
           NEW reason \in Diagnostic, NEW pause \in OrNone(Diagnostic),
           status = "blocked" => pause # None
    PROVE  LET task == CurrentTask(state.plan_identity, state)
               new == StoppedAt(state, task, status, consumed, reason, pause)
           IN  new \in ExecutionState /\ Sound(new)
  <1> DEFINE p == state.plan_identity
             task == CurrentTask(p, state)
             new == StoppedAt(state, task, status, consumed, reason, pause)
  <1>0. p \in Plan
    BY DEF ExecutionState
  <1>1. task.task_id \in TaskIds(p) /\ task.task_id \in Task /\ task.execution_gate \in Gates
    BY <1>0, CurrentIsAssignment DEF Assignment
  <1>2. new \in ExecutionState
    <2>1. status \in EXECUTION_STATUSES /\ reason \in OrNone(Diagnostic)
      BY TypeFacts
    <2>2. task.task_id \in OrNone(Task) /\ task.execution_gate \in OrNone(Gates)
      BY <1>1, TypeFacts
    <2>3. /\ None \in OrNone(AssignmentApproval) /\ None \in OrNone(Task)
          /\ None \in OrNone(Nat)
      BY TypeFacts
    <2>4. state.consumed_approval_ids \cup consumed \in SUBSET AssignmentApproval
      BY DEF ExecutionState
    <2> QED
      BY <2>1, <2>2, <2>3, <2>4 DEF StoppedAt, ExecutionState
  <1>3. /\ new.plan_identity = p
        /\ new.next = state.next
        /\ new.completed_task_ids = state.completed_task_ids
        /\ new.evidence_ids_by_task = state.evidence_ids_by_task
        /\ new.pending_task_id = task.task_id
        /\ new.pending_execution_gate = task.execution_gate
        /\ new.executing_task_id = None
        /\ new.approval_nonce = None
        /\ new.active_approval_id = None
        /\ new.consumed_approval_ids \subseteq AssignmentApproval
        /\ new.status = status
        /\ new.diagnostic = reason
        /\ new.pause_reason = pause
    BY DEF StoppedAt, ExecutionState
  <1>4. PendingIsCurrent(p, new) /\ NoApprovalInFlight(new)
    BY <1>3 DEF PendingIsCurrent, NoApprovalInFlight, HasCurrent, CurrentTask
  <1>5. StatusConsistent(p, new)
    BY <1>3, <1>4, TypeFacts DEF StatusConsistent
  <1>6. VerifyPrefix(p, new)
    BY <1>3 DEF Sound, StructurallySound, VerifyPrefix
  <1>7. new.active_approval_id \notin new.consumed_approval_ids
    BY <1>3, NoneIsNoRecord
  <1>8. /\ {new.pending_task_id, new.executing_task_id} \subseteq OrNone(TaskIds(p))
        /\ {e[1] : e \in new.evidence_ids_by_task} \subseteq TaskIds(p)
    BY <1>1, <1>3 DEF Sound, StructurallySound, OrNone
  <1> QED
    BY <1>2, <1>3, <1>5, <1>6, <1>7, <1>8 DEF Sound, StructurallySound

\* The waiting transition shows a fresh nonce for the current, separately gated task.
LEMMA WaitingSound ==
    ASSUME NEW state \in ExecutionState, Sound(state),
           HasCurrent(state.plan_identity, state),
           CurrentTask(state.plan_identity, state).execution_gate = "separate_human_approval",
           NEW nonce \in Nat
    PROVE  LET new == TransitionToWaiting(state, CurrentTask(state.plan_identity, state), nonce)
           IN  new \in ExecutionState /\ Sound(new)
  <1> DEFINE p == state.plan_identity
             task == CurrentTask(p, state)
             new == TransitionToWaiting(state, task, nonce)
  <1>0. p \in Plan
    BY DEF ExecutionState
  <1>1. task.task_id \in TaskIds(p) /\ task.task_id \in Task /\ task.execution_gate \in Gates
    BY <1>0, CurrentIsAssignment DEF Assignment
  <1>2. new \in ExecutionState
    <2>1. /\ "waiting_for_approval" \in EXECUTION_STATUSES
          /\ "waiting_for_approval" \in OrNone(Diagnostic)
      BY TypeFacts, DiagnosticFacts
    <2>2. task.task_id \in OrNone(Task) /\ task.execution_gate \in OrNone(Gates)
      BY <1>1, TypeFacts
    <2>3. /\ None \in OrNone(AssignmentApproval) /\ None \in OrNone(Task)
          /\ None \in OrNone(Diagnostic) /\ nonce \in OrNone(Nat)
      BY TypeFacts
    <2> QED
      BY <2>1, <2>2, <2>3 DEF TransitionToWaiting, ExecutionState
  <1>3. /\ new.plan_identity = p
        /\ new.next = state.next
        /\ new.completed_task_ids = state.completed_task_ids
        /\ new.evidence_ids_by_task = state.evidence_ids_by_task
        /\ new.consumed_approval_ids = state.consumed_approval_ids
        /\ new.pending_task_id = task.task_id
        /\ new.pending_execution_gate = task.execution_gate
        /\ new.executing_task_id = None
        /\ new.approval_nonce = nonce
        /\ new.active_approval_id = None
        /\ new.status = "waiting_for_approval"
        /\ new.pause_reason = "waiting_for_approval"
    BY DEF TransitionToWaiting, ExecutionState
  <1>4. PendingIsCurrent(p, new)
    BY <1>3 DEF PendingIsCurrent, HasCurrent, CurrentTask
  <1>5. StatusConsistent(p, new)
    <2>1. "waiting_for_approval" # None /\ nonce # None
      BY TypeFacts, DiagnosticFacts
    <2> QED
      BY <1>3, <1>4, <2>1 DEF StatusConsistent
  <1>6. VerifyPrefix(p, new)
    BY <1>3 DEF Sound, StructurallySound, VerifyPrefix
  <1>7. new.active_approval_id \notin new.consumed_approval_ids
    BY <1>3, NoneIsNoRecord DEF ExecutionState
  <1>8. /\ {new.pending_task_id, new.executing_task_id} \subseteq OrNone(TaskIds(p))
        /\ {e[1] : e \in new.evidence_ids_by_task} \subseteq TaskIds(p)
    BY <1>1, <1>3 DEF Sound, StructurallySound, OrNone
  <1> QED
    BY <1>2, <1>3, <1>5, <1>6, <1>7, <1>8 DEF Sound, StructurallySound

\* "executing" names the current task and, for a separate gate, an unspent approval.
LEMMA ExecutingSound ==
    ASSUME NEW state \in ExecutionState, Sound(state),
           HasCurrent(state.plan_identity, state),
           NEW a \in OrNone(AssignmentApproval),
           CurrentTask(state.plan_identity, state).execution_gate = "separate_human_approval" =>
               /\ state.approval_nonce # None
               /\ a # None
               /\ a \notin state.consumed_approval_ids
    PROVE  LET new == TransitionToExecuting(state, CurrentTask(state.plan_identity, state), a)
           IN  new \in ExecutionState /\ Sound(new)
  <1> DEFINE p == state.plan_identity
             task == CurrentTask(p, state)
             new == TransitionToExecuting(state, task, a)
             separate == task.execution_gate = "separate_human_approval"
  <1>0. p \in Plan
    BY DEF ExecutionState
  <1>1. task.task_id \in TaskIds(p) /\ task.task_id \in Task /\ task.execution_gate \in Gates
    BY <1>0, CurrentIsAssignment DEF Assignment
  <1>2. new \in ExecutionState
    <2>1. "executing" \in EXECUTION_STATUSES
      BY TypeFacts
    <2>2. task.task_id \in OrNone(Task) /\ task.execution_gate \in OrNone(Gates)
      BY <1>1, TypeFacts
    <2>3. /\ None \in OrNone(AssignmentApproval) /\ None \in OrNone(Nat)
          /\ None \in OrNone(Diagnostic)
      BY TypeFacts
    <2> QED
      BY <2>1, <2>2, <2>3 DEF TransitionToExecuting, ExecutionState
  <1>3. /\ new.plan_identity = p
        /\ new.next = state.next
        /\ new.completed_task_ids = state.completed_task_ids
        /\ new.evidence_ids_by_task = state.evidence_ids_by_task
        /\ new.consumed_approval_ids = state.consumed_approval_ids
        /\ new.pending_task_id = task.task_id
        /\ new.pending_execution_gate = task.execution_gate
        /\ new.executing_task_id = task.task_id
        /\ new.approval_nonce = IF separate THEN state.approval_nonce ELSE None
        /\ new.active_approval_id = IF separate THEN a ELSE None
        /\ new.status = "executing"
    BY DEF TransitionToExecuting, ExecutionState
  <1>4. PendingIsCurrent(p, new)
    BY <1>3 DEF PendingIsCurrent, HasCurrent, CurrentTask
  <1>5. StatusConsistent(p, new)
    BY <1>3, <1>4 DEF StatusConsistent
  <1>6. VerifyPrefix(p, new)
    BY <1>3 DEF Sound, StructurallySound, VerifyPrefix
  <1>7. new.active_approval_id \notin new.consumed_approval_ids
    BY <1>3, NoneIsNoRecord DEF ExecutionState
  <1>8. /\ {new.pending_task_id, new.executing_task_id} \subseteq OrNone(TaskIds(p))
        /\ {e[1] : e \in new.evidence_ids_by_task} \subseteq TaskIds(p)
    BY <1>1, <1>3 DEF Sound, StructurallySound, OrNone
  <1> QED
    BY <1>2, <1>3, <1>5, <1>6, <1>7, <1>8 DEF Sound, StructurallySound

\* Completing the current task extends the prefix by exactly that task.
LEMMA CompletedSound ==
    ASSUME NEW state \in ExecutionState, Sound(state),
           HasCurrent(state.plan_identity, state),
           NEW id \in EvidenceId,
           NEW consumed \in SUBSET AssignmentApproval
    PROVE  LET task == CurrentTask(state.plan_identity, state)
               new == TransitionAfterCompleted(state, state.plan_identity, task, id, consumed)
           IN  /\ new \in ExecutionState
               /\ Sound(new)
               /\ Elements(new.completed_task_ids) =
                     Elements(state.completed_task_ids) \cup {task.task_id}
  <1> DEFINE p == state.plan_identity
             task == CurrentTask(p, state)
             new == TransitionAfterCompleted(state, p, task, id, consumed)
  <1>0. p \in Plan /\ Total(p) \in Nat
    BY AssignmentsType DEF ExecutionState, Total
  <1>1. task.task_id \in TaskIds(p) /\ task.task_id \in Task /\ task.execution_gate \in Gates
    BY <1>0, CurrentIsAssignment DEF Assignment
  <1>2. new \in ExecutionState
    <2>1. "completed" \in EXECUTION_STATUSES /\ "in_progress" \in EXECUTION_STATUSES
      BY TypeFacts
    <2>2. /\ None \in OrNone(AssignmentApproval) /\ None \in OrNone(Nat)
          /\ None \in OrNone(Diagnostic) /\ None \in OrNone(Task) /\ None \in OrNone(Gates)
      BY TypeFacts
    <2>3. Append(state.completed_task_ids, task.task_id) \in Seq(Task) /\ state.next + 1 \in Nat
      BY <1>1 DEF ExecutionState
    <2>4. /\ state.evidence_ids_by_task \cup {<<task.task_id, id>>} \in SUBSET (Task \X EvidenceId)
          /\ state.consumed_approval_ids \cup consumed \in SUBSET AssignmentApproval
      BY <1>1 DEF ExecutionState
    <2> QED
      BY <2>1, <2>2, <2>3, <2>4 DEF TransitionAfterCompleted, ExecutionState
  <1>3. /\ new.plan_identity = p
        /\ new.next = state.next + 1
        /\ new.completed_task_ids = Append(state.completed_task_ids, task.task_id)
        /\ new.evidence_ids_by_task = state.evidence_ids_by_task \cup {<<task.task_id, id>>}
        /\ new.pending_task_id = None
        /\ new.pending_execution_gate = None
        /\ new.executing_task_id = None
        /\ new.approval_nonce = None
        /\ new.active_approval_id = None
        /\ new.consumed_approval_ids \subseteq AssignmentApproval
        /\ new.status = IF state.next + 1 >= Total(p) THEN "completed" ELSE "in_progress"
    BY DEF TransitionAfterCompleted, ExecutionState
  <1>4. /\ state.next \in Nat /\ state.completed_task_ids \in Seq(Task)
        /\ state.next = Len(state.completed_task_ids)
        /\ state.next < Total(p)
        /\ \A i \in 1..state.next : state.completed_task_ids[i] = Assignments[p][i].task_id
    BY DEF ExecutionState, Sound, StructurallySound, VerifyPrefix, HasCurrent
  <1>5. VerifyPrefix(p, new)
    <2>1. new.next = Len(new.completed_task_ids) /\ new.next \in 0..Total(p)
      BY <1>0, <1>1, <1>3, <1>4
    <2>2. ASSUME NEW i \in 1..new.next
          PROVE  new.completed_task_ids[i] = Assignments[p][i].task_id
      <3>1. CASE i = state.next + 1
        <4>1. Append(state.completed_task_ids, task.task_id)[state.next + 1] = task.task_id
          BY <1>1, <1>4
        <4>2. task.task_id = Assignments[p][state.next + 1].task_id
          BY DEF CurrentTask
        <4> QED
          BY <1>3, <3>1, <4>1, <4>2
      <3>2. CASE i \in 1..state.next
        BY <1>1, <1>3, <1>4, <3>2
      <3> QED
        BY <1>3, <1>4, <3>1, <3>2
    <2> QED
      BY <2>1, <2>2 DEF VerifyPrefix
  <1>6. StatusConsistent(p, new)
    BY <1>0, <1>3, <1>4 DEF StatusConsistent, NothingPending
  <1>7. new.active_approval_id \notin new.consumed_approval_ids
    BY <1>3, NoneIsNoRecord
  <1>8. {new.pending_task_id, new.executing_task_id} \subseteq OrNone(TaskIds(p))
    BY <1>3 DEF OrNone
  <1>9. {e[1] : e \in new.evidence_ids_by_task} \subseteq TaskIds(p)
    BY <1>1, <1>3 DEF Sound, StructurallySound
  <1>10. Elements(new.completed_task_ids) = Elements(state.completed_task_ids) \cup {task.task_id}
    BY <1>1, <1>3, <1>4 DEF Elements
  <1> QED
    BY <1>2, <1>3, <1>5, <1>6, <1>7, <1>8, <1>9, <1>10 DEF Sound, StructurallySound

----------------------------------------------------------------------------
(* Frames: what a step of one session leaves true of the others.           *)

OthersUnchanged(s) ==
    \A q \in Session \ {s} :
        /\ pc'[q] = pc[q]
        /\ plan'[q] = plan[q]
        /\ st'[q] = st[q]
        /\ approval'[q] = approval[q]
        /\ record'[q] = record[q]

\* Only the owner of the lock writes execution_state.json or invokes a provider, so what
\* the others know stays true.
LEMMA Frame ==
    ASSUME IInv, NEW s \in Session,
           TypeOK', OthersUnchanged(s), SessionInv(s)', DiskInv', InvocationInv',
           pc[s] \in Locked \/ UNCHANGED <<disk, runs>>,
           granted \subseteq granted', evidence \subseteq evidence',
           lock' = lock \/ {lock, lock'} \subseteq {None, "stale", s},
           pc'[s] \in Locked <=> lock' = s
    PROVE  IInv'
  <1>1. ASSUME NEW q \in Session \ {s}
        PROVE  pc'[q] \in Locked <=> lock' = q
    <2>1. None \notin Session /\ "stale" \notin Session
      BY NoneIsNone
    <2>2. (pc[q] \in Locked <=> lock = q) /\ (pc[s] \in Locked <=> lock = s)
      BY DEF IInv, LockInv
    <2>3. pc'[q] = pc[q]
      BY DEF OthersUnchanged
    <2>4. lock' = q <=> lock = q
      BY <2>1, <2>2
    <2> QED
      BY <2>2, <2>3, <2>4
  <1>2. LockInv'
    BY <1>1 DEF LockInv
  <1>3. ASSUME NEW q \in Session \ {s}
        PROVE  SessionInv(q)'
    <2>1. SessionInv(q)
      BY DEF IInv
    <2>2. /\ pc'[q] = pc[q] /\ plan'[q] = plan[q] /\ st'[q] = st[q]
          /\ approval'[q] = approval[q] /\ record'[q] = record[q]
      BY DEF OthersUnchanged
    <2>3. pc[q] \in Locked => UNCHANGED <<disk, runs>>
      BY NoneIsNone DEF IInv, LockInv
    <2>4. "decide" \in Locked /\ InRun \subseteq Locked
      BY DEF Locked, InRun
    <2>5. pc'[q] \in InRun => RunInv(q)'
      <3> SUFFICES ASSUME pc[q] \in InRun PROVE RunInv(q)'
        BY <2>2
      <3>1. UNCHANGED <<disk, runs>> /\ RunInv(q)
        BY <2>1, <2>3, <2>4 DEF SessionInv
      <3>2. Current(q)' = Current(q)
        BY <2>2 DEF Current
      <3>3. Authorised(q)'
        BY <3>1, <3>2, <2>2 DEF RunInv, Authorised
      <3> QED
        BY <3>1, <3>2, <3>3, <2>2 DEF RunInv
    <2> QED
      BY <2>1, <2>2, <2>3, <2>4, <2>5 DEF SessionInv
  <1> QED
    BY <1>2, <1>3 DEF IInv

\* A step that touches neither the state file, the evidence nor the run counters.
LEMMA QuietFrame ==
    ASSUME IInv, NEW s \in Session,
           TypeOK', OthersUnchanged(s), SessionInv(s)',
           UNCHANGED <<disk, evidence, runs>>,
           granted \subseteq granted',
           lock' = lock \/ {lock, lock'} \subseteq {None, "stale", s},
           pc'[s] \in Locked <=> lock' = s
    PROVE  IInv'
  <1>1. DiskInv'
    BY DEF IInv, DiskInv, EvidenceVerified
  <1>2. InvocationInv'
    BY DEF IInv, InvocationInv
  <1> QED
    BY <1>1, <1>2, Frame

\* Leaving the program, in whatever way the lock is left behind.
LEMMA EndsKeepsInv ==
    ASSUME IInv, NEW s \in Session, Ends(s),
           UNCHANGED <<disk, evidence, history>>,
           planFile' \in MissionPlan \cup {None, Torn},
           IF lock = s THEN lock' \in {None, "stale"}
                       ELSE lock' = lock \/ (lock = None /\ lock' = "stale")
    PROVE  IInv'
  <1>1. TypeOK'
    BY DEF IInv, TypeOK, Ends, Goto, OrNone, Labels, history
  <1>2. OthersUnchanged(s)
    BY DEF IInv, TypeOK, Ends, Goto, OthersUnchanged
  <1>3. /\ pc'[s] = "idle" /\ approval'[s] = None
    BY DEF IInv, TypeOK, Ends, Goto
  <1>4. SessionInv(s)'
    BY <1>3 DEF SessionInv, HasPlan, InRun
  <1>5. pc'[s] \notin Locked /\ lock' # s
    BY <1>3, NoneIsNone DEF Locked
  <1> QED
    BY <1>1, <1>2, <1>4, <1>5, QuietFrame DEF history

\* Returning from the locked body: the lock is still held, the caller gets a sound state.
LEMMA ReturnsKeepsInv ==
    ASSUME IInv, NEW s \in Session, pc[s] \in Locked,
           NEW x \in OrNone(ExecutionState), x # None => Sound(x),
           NEW d \in Diagnostic, Returns(s, x, d),
           disk' \in OrNone(ExecutionState), nonces' \in Nat,
           UNCHANGED <<lock, planFile, evidence, runs, granted>>,
           DiskInv', InvocationInv'
    PROVE  IInv'
  <1>1. TypeOK'
    BY DEF IInv, TypeOK, Returns, Goto, OrNone, Labels, Locked
  <1>2. OthersUnchanged(s)
    BY DEF IInv, TypeOK, Returns, Goto, OthersUnchanged
  <1>3. /\ pc'[s] = "release" /\ st'[s] = x /\ approval'[s] = None
    BY DEF IInv, TypeOK, Returns, Goto
  <1>4. SessionInv(s)'
    BY <1>3 DEF SessionInv, HasPlan, InRun
  <1>5. pc'[s] \in Locked /\ lock' = s
    BY <1>3 DEF Locked, IInv, LockInv
  <1> QED
    BY <1>1, <1>2, <1>4, <1>5, Frame

\* The same when nothing was written.
LEMMA ReturnsUnchangedKeepsInv ==
    ASSUME IInv, NEW s \in Session, pc[s] \in Locked,
           NEW x \in OrNone(ExecutionState), x # None => Sound(x),
           NEW d \in Diagnostic, Returns(s, x, d),
           UNCHANGED <<files, history>>
    PROVE  IInv'
  <1>1. DiskInv' /\ InvocationInv'
    BY DEF IInv, DiskInv, EvidenceVerified, InvocationInv, files, history
  <1>2. disk' \in OrNone(ExecutionState) /\ nonces' \in Nat
    BY DEF IInv, TypeOK, files, history
  <1> QED
    BY <1>1, <1>2, ReturnsKeepsInv DEF files, history

\* What a session in "decide" knows about its state.
LEMMA DecideFacts ==
    ASSUME IInv, NEW s \in Session, pc[s] = "decide"
    PROVE  /\ plan[s] \in MissionPlan
           /\ st[s] \in ExecutionState
           /\ Sound(st[s])
           /\ \A t \in Task : runs[t] = 1 => disk = st[s]
           /\ disk # None => disk = st[s]
           /\ EvidenceVerified(st[s])
  <1>1. SessionInv(s) /\ DiskInv /\ InvocationInv /\ plan[s] \in MissionPlan
    BY DEF IInv, SessionInv, HasPlan
  <1>2. st[s] \in ExecutionState
    BY <1>1 DEF SessionInv
  <1>3. CASE disk = st[s] /\ disk # None
    BY <1>1, <1>2, <1>3 DEF DiskInv
  <1>4. CASE disk = None
    <2>1. st[s] = NewExecutionState(plan[s].identity) \/ st[s] = None
      BY <1>1, <1>4 DEF SessionInv
    <2>2. st[s] = NewExecutionState(plan[s].identity) /\ plan[s].identity \in Plan
      BY <1>1, <1>2, <2>1, TypeFacts DEF MissionPlan
    <2>3. EvidenceVerified(st[s])
      BY <2>2 DEF EvidenceVerified, NewExecutionState, Elements
    <2>4. \A t \in Task : runs[t] # 1
      BY <1>1, <1>4 DEF InvocationInv
    <2> QED
      BY <1>1, <1>2, <1>4, <2>2, <2>3, <2>4, NewStateSound
  <1> QED
    BY <1>1, <1>2, <1>3, <1>4 DEF SessionInv

----------------------------------------------------------------------------
(* The facts the actions start from.                                       *)

\* The current task is not among the completed ones: task identifiers are unique.
LEMMA CurrentIsNew ==
    ASSUME NEW p \in Plan, NEW state \in ExecutionState,
           VerifyPrefix(p, state), HasCurrent(p, state)
    PROVE  CurrentTask(p, state).task_id \notin Elements(state.completed_task_ids)
  <1> SUFFICES ASSUME NEW i \in 1..Len(state.completed_task_ids),
                      state.completed_task_ids[i] = CurrentTask(p, state).task_id
               PROVE  FALSE
    BY DEF Elements
  <1>1. /\ state.next \in Nat /\ state.next = Len(state.completed_task_ids)
        /\ state.next < Len(Assignments[p]) /\ Len(Assignments[p]) \in Nat
    BY AssignmentsType DEF ExecutionState, VerifyPrefix, HasCurrent, Total
  <1>2. Assignments[p][i].task_id = Assignments[p][state.next + 1].task_id
    BY <1>1 DEF VerifyPrefix, CurrentTask
  <1>3. i = state.next + 1
    BY <1>1, <1>2, PlansValidated
  <1> QED
    BY <1>1, <1>3

\* RecoveryReason is a diagnostic, or None when every check of the body passed.
LEMMA ReasonFacts ==
    ASSUME NEW p, NEW state
    PROVE  /\ RecoveryReason(p, state) \in OrNone(Diagnostic)
           /\ RecoveryReason(p, state) = None =>
                 /\ state.plan_identity = p
                 /\ StructurallySound(p, state)
                 /\ state.status \notin NON_RESUMABLE =>
                       state.status # "executing" /\ HasCurrent(p, state)
  <1>1. {"plan_drift", "inconsistent_state", "interrupted_while_executing",
         "missing_or_corrupt_completed_evidence",
         "cursor_exhausted_without_completed_status"} \subseteq Diagnostic
    BY DEF Diagnostic
  <1>2. None \notin Diagnostic
    BY TypeFacts
  <1> HIDE DEF Diagnostic
  <1> QED
    BY <1>1, <1>2 DEF RecoveryReason, OrNone

LEMMA ResumableFacts ==
    ASSUME IInv, NEW s \in Session, Resumable(s)
    PROVE  /\ st[s].plan_identity = plan[s].identity
           /\ st[s].plan_identity \in Plan
           /\ HasCurrent(st[s].plan_identity, st[s])
           /\ Current(s) = CurrentTask(st[s].plan_identity, st[s])
           /\ Current(s) \in Assignment
           /\ st[s].status \in {"in_progress", "waiting_for_approval"}
           /\ \A t \in Task : runs[t] = 1 => t \in Elements(st[s].completed_task_ids)
           /\ runs[Current(s).task_id] = 0
  <1>0. pc[s] = "decide" /\ InvocationInv
    BY DEF IInv, Resumable
  <1>1. /\ st[s] \in ExecutionState /\ Sound(st[s])
        /\ \A t \in Task : runs[t] = 1 => disk = st[s]
    BY <1>0, DecideFacts
  <1>2. /\ st[s].plan_identity = plan[s].identity
        /\ st[s].status # "executing" /\ st[s].status \notin NON_RESUMABLE
        /\ HasCurrent(plan[s].identity, st[s])
    BY ReasonFacts DEF Resumable, Reason
  <1>3. st[s].plan_identity \in Plan /\ st[s].status \in EXECUTION_STATUSES
    BY <1>1 DEF ExecutionState
  <1>4. st[s].status \in {"in_progress", "waiting_for_approval"}
    BY <1>2, <1>3 DEF EXECUTION_STATUSES
  <1>5. Current(s) = CurrentTask(st[s].plan_identity, st[s]) /\ Current(s) \in Assignment
    BY <1>1, <1>2, <1>3, CurrentIsAssignment DEF Current
  <1>6. \A t \in Task : runs[t] = 1 => t \in Elements(st[s].completed_task_ids)
    BY <1>0, <1>1, <1>4 DEF InvocationInv
  <1>7. Current(s).task_id \notin Elements(st[s].completed_task_ids)
    BY <1>1, <1>2, <1>3, <1>5, CurrentIsNew DEF Sound, StructurallySound
  <1>8. Current(s).task_id \in Task
    BY <1>5 DEF Assignment
  <1> QED
    BY <1>0, <1>2, <1>3, <1>4, <1>5, <1>6, <1>7, <1>8 DEF InvocationInv

\* What an invoked session knows, from the "executing" state it made durable.
LEMMA RunFacts ==
    ASSUME IInv, NEW s \in Session, pc[s] \in InRun
    PROVE  /\ RunInv(s)
           /\ Sound(st[s]) /\ EvidenceVerified(st[s])
           /\ st[s].plan_identity \in Plan
           /\ HasCurrent(st[s].plan_identity, st[s])
           /\ Current(s) = CurrentTask(st[s].plan_identity, st[s])
           /\ Current(s) \in Assignment /\ Current(s).task_id \in Task
           /\ st[s].pending_task_id = Current(s).task_id
           /\ plan[s] \in MissionPlan
  <1>1. RunInv(s) /\ plan[s] \in MissionPlan /\ DiskInv
    BY DEF IInv, SessionInv, HasPlan
  <1>2. st[s] \in ExecutionState /\ disk = st[s] /\ st[s].status = "executing"
    BY <1>1 DEF RunInv
  <1>3. Sound(st[s]) /\ EvidenceVerified(st[s])
    BY <1>1, <1>2, TypeFacts DEF DiskInv
  <1>4. st[s].plan_identity \in Plan /\ st[s].plan_identity = plan[s].identity
    BY <1>1, <1>2 DEF ExecutionState, RunInv
  <1>5. PendingIsCurrent(st[s].plan_identity, st[s])
    BY <1>2, <1>3 DEF Sound, StructurallySound, StatusConsistent
  <1>6. HasCurrent(st[s].plan_identity, st[s])
    BY <1>5 DEF PendingIsCurrent
  <1>7. Current(s) = CurrentTask(st[s].plan_identity, st[s])
    BY <1>4 DEF Current
  <1>8. Current(s) \in Assignment /\ Current(s).task_id \in Task
    BY <1>2, <1>4, <1>6, <1>7, CurrentIsAssignment
  <1> QED
    BY <1>1, <1>3, <1>4, <1>5, <1>6, <1>7, <1>8 DEF PendingIsCurrent

----------------------------------------------------------------------------
(* Saving a state and returning it.                                        *)

\* A save may only lose invocations it accounts for.
LEMMA SavesKeepsInv ==
    ASSUME IInv, NEW s \in Session, pc[s] \in Locked,
           st[s] \in ExecutionState, Sound(st[s]),
           NEW x \in ExecutionState, Sound(x), EvidenceVerified(x),
           \A t \in Task : runs[t] = 1 =>
               \/ t \in Elements(x.completed_task_ids)
               \/ /\ x.status \in {"failed", "blocked", "recovery_required"}
                  /\ t = x.pending_task_id,
           NEW d \in Diagnostic, NEW failure \in Diagnostic,
           SavesAndReturns(s, x, d, failure),
           UNCHANGED <<lock, planFile, evidence, history>>
    PROVE  IInv'
  <1>1. CASE disk' = x /\ Returns(s, x, d)
    <2>1. x # None /\ disk' \in OrNone(ExecutionState) /\ x \in OrNone(ExecutionState)
      BY <1>1, TypeFacts
    <2>2. DiskInv'
      BY <1>1 DEF DiskInv, EvidenceVerified
    <2>3. \A t \in Task : runs[t] \in {0, 1}
      BY DEF IInv, InvocationInv
    <2>4. InvocationInv'
      BY <1>1, <2>1, <2>3 DEF InvocationInv, history
    <2>5. nonces' \in Nat
      BY DEF IInv, TypeOK, history
    <2> QED
      BY <1>1, <2>1, <2>2, <2>4, <2>5, ReturnsKeepsInv DEF history
  <1>2. CASE UNCHANGED disk /\ Returns(s, st[s], failure)
    <2>1. st[s] \in OrNone(ExecutionState)
      BY TypeFacts
    <2> QED
      BY <1>2, <2>1, ReturnsUnchangedKeepsInv DEF files
  <1> QED
    BY <1>1, <1>2 DEF SavesAndReturns

\* _recover: from any state the body can have loaded or made.
LEMMA RecoverKeepsInv ==
    ASSUME IInv, NEW s \in Session, pc[s] = "decide", NEW reason \in Diagnostic,
           SavesAndReturns(s, RecoveryResult(st[s], reason), reason, "persist_failed"),
           UNCHANGED <<lock, planFile, evidence, history>>
    PROVE  IInv'
  <1> DEFINE x == RecoveryResult(st[s], reason)
  <1>1. /\ st[s] \in ExecutionState /\ Sound(st[s]) /\ EvidenceVerified(st[s])
        /\ \A t \in Task : runs[t] = 1 => disk = st[s]
    BY DecideFacts
  <1>2. x \in ExecutionState /\ Sound(x)
    BY <1>1, RecoverySound
  <1>3. /\ x.completed_task_ids = st[s].completed_task_ids
        /\ x.evidence_ids_by_task = st[s].evidence_ids_by_task
        /\ x.pending_task_id = st[s].pending_task_id
        /\ x.status = "recovery_required"
    BY <1>1 DEF RecoveryResult, ExecutionState
  <1>4. EvidenceVerified(x)
    BY <1>1, <1>3 DEF EvidenceVerified
  <1>5. \A t \in Task : runs[t] = 1 =>
           \/ t \in Elements(x.completed_task_ids)
           \/ /\ x.status \in {"failed", "blocked", "recovery_required"}
              /\ t = x.pending_task_id
    BY <1>1, <1>3 DEF IInv, InvocationInv
  <1>6. pc[s] \in Locked /\ "persist_failed" \in Diagnostic
    BY DiagnosticFacts DEF Locked
  <1> HIDE DEF x
  <1> QED
    BY <1>1, <1>2, <1>4, <1>5, <1>6, SavesKeepsInv DEF x

\* Stopping at a task before it ran.
LEMMA StopBeforeRunKeepsInv ==
    ASSUME IInv, NEW s \in Session, Resumable(s),
           NEW status \in {"failed", "blocked"},
           NEW consumed \in SUBSET AssignmentApproval,
           NEW reason \in Diagnostic, NEW failure \in Diagnostic,
           NEW pause \in OrNone(Diagnostic), status = "blocked" => pause # None,
           SavesAndReturns(s, StoppedAt(st[s], Current(s), status, consumed, reason, pause),
                           reason, failure),
           UNCHANGED <<lock, planFile, evidence, history>>
    PROVE  IInv'
  <1> DEFINE x == StoppedAt(st[s], Current(s), status, consumed, reason, pause)
  <1>1. pc[s] = "decide"
    BY DEF Resumable
  <1>2. st[s] \in ExecutionState /\ Sound(st[s]) /\ EvidenceVerified(st[s])
    BY <1>1, DecideFacts
  <1>3. /\ HasCurrent(st[s].plan_identity, st[s])
        /\ Current(s) = CurrentTask(st[s].plan_identity, st[s])
        /\ \A t \in Task : runs[t] = 1 => t \in Elements(st[s].completed_task_ids)
    BY ResumableFacts
  <1>4. x \in ExecutionState /\ Sound(x)
    BY <1>2, <1>3, StoppedSound
  <1>5. /\ x.completed_task_ids = st[s].completed_task_ids
        /\ x.evidence_ids_by_task = st[s].evidence_ids_by_task
    BY <1>2 DEF StoppedAt, ExecutionState
  <1>6. EvidenceVerified(x)
    BY <1>2, <1>5 DEF EvidenceVerified
  <1>7. \A t \in Task : runs[t] = 1 => t \in Elements(x.completed_task_ids)
    BY <1>3, <1>5
  <1>8. pc[s] \in Locked
    BY <1>1 DEF Locked
  <1> HIDE DEF x
  <1> QED
    BY <1>2, <1>4, <1>6, <1>7, <1>8, SavesKeepsInv DEF x

----------------------------------------------------------------------------
(* Running a task.                                                         *)

\* The gate is open only on the authority the guide asks for.
LEMMA GateOpenFacts ==
    ASSUME IInv, NEW s \in Session, GateOpen(s)
    PROVE  /\ Resumable(s)
           /\ ~Current(s).mutation
           /\ Consumed(ApprovalToConsume(s)) \in SUBSET AssignmentApproval
           /\ \/ Current(s).execution_gate = "plan_approval" /\ plan[s].approval = "approved"
              \/ /\ Current(s).execution_gate = "separate_human_approval"
                 /\ approval[s] \in AssignmentApproval
                 /\ st[s].status = "waiting_for_approval"
                 /\ approval[s].task_id = Current(s).task_id
                 /\ approval[s].plan_identity = st[s].plan_identity
                 /\ approval[s].nonce = st[s].approval_nonce
                 /\ approval[s] \notin st[s].consumed_approval_ids
  <1>1. Resumable(s) /\ ~Current(s).mutation
    BY DEF GateOpen
  <1>2. /\ Current(s).execution_gate \in Gates
        /\ st[s].plan_identity = plan[s].identity
        /\ Current(s) = CurrentTask(plan[s].identity, st[s])
    BY <1>1, ResumableFacts DEF Assignment
  <1>3. approval[s] \in OrNone(AssignmentApproval)
    BY DEF IInv, TypeOK
  <1>4. Consumed(ApprovalToConsume(s)) \in SUBSET AssignmentApproval
    BY <1>3 DEF Consumed, ApprovalToConsume, OrNone
  <1>5. CASE Current(s).execution_gate = "plan_approval"
    BY <1>1, <1>4, <1>5 DEF GateOpen
  <1>6. CASE Current(s).execution_gate = "separate_human_approval"
    <2>1. /\ approval[s] # None /\ st[s].status = "waiting_for_approval"
          /\ ApprovalRejection(approval[s], plan[s].identity, st[s]) = None
      BY <1>6 DEF GateOpen
    <2>2. {"task_id_mismatch", "no_pending_approval", "plan_identity_mismatch",
           "nonce_mismatch", "approval_already_consumed"} \subseteq Diagnostic
      BY DEF Diagnostic
    <2>3. /\ approval[s].task_id = Current(s).task_id
          /\ approval[s].plan_identity = st[s].plan_identity
          /\ approval[s].nonce = st[s].approval_nonce
          /\ approval[s] \notin st[s].consumed_approval_ids
      BY <1>2, <2>1, <2>2, TypeFacts DEF ApprovalRejection
    <2> QED
      BY <1>1, <1>3, <1>4, <1>6, <2>1, <2>3 DEF OrNone
  <1> QED
    BY <1>2, <1>5, <1>6 DEF Gates

\* "executing" becomes durable, carrying the authority for the run.
LEMMA BeginExecutingKeepsInv ==
    ASSUME IInv, NEW s \in Session, BeginExecuting(s)
    PROVE  IInv'
  <1> DEFINE x == TransitionToExecuting(st[s], Current(s), ApprovalToConsume(s))
  <1>1. GateOpen(s) /\ Resumable(s) /\ pc[s] = "decide" /\ pc[s] \in Locked
    BY GateOpenFacts DEF BeginExecuting, GateOpen, Resumable, Locked
  <1>2. /\ st[s] \in ExecutionState /\ Sound(st[s]) /\ EvidenceVerified(st[s])
        /\ plan[s] \in MissionPlan
    BY <1>1, DecideFacts
  <1>3. /\ HasCurrent(st[s].plan_identity, st[s])
        /\ st[s].plan_identity = plan[s].identity
        /\ Current(s) = CurrentTask(st[s].plan_identity, st[s])
        /\ Current(s) \in Assignment
        /\ \A t \in Task : runs[t] = 1 => t \in Elements(st[s].completed_task_ids)
        /\ runs[Current(s).task_id] = 0
    BY <1>1, ResumableFacts
  <1>4. CASE Returns(s, st[s], "persist_failed") /\ UNCHANGED <<files, history>>
    <2>1. st[s] \in OrNone(ExecutionState) /\ "persist_failed" \in Diagnostic
      BY <1>2, TypeFacts, DiagnosticFacts
    <2> QED
      BY <1>1, <1>2, <1>4, <2>1, ReturnsUnchangedKeepsInv
  <1>5. CASE /\ disk' = x /\ st' = [st EXCEPT ![s] = disk'] /\ Goto(s, "invoke")
             /\ UNCHANGED <<plan, approval, record, diag, lock, planFile, evidence, history>>
    <2>1. /\ Current(s).execution_gate \in Gates
          /\ \/ Current(s).execution_gate = "plan_approval"
             \/ Current(s).execution_gate = "separate_human_approval"
      BY <1>3 DEF Assignment, Gates
    <2>2. ApprovalToConsume(s) \in OrNone(AssignmentApproval)
      BY TypeFacts DEF IInv, TypeOK, ApprovalToConsume
    <2>3. Current(s).execution_gate = "separate_human_approval" =>
             /\ ApprovalToConsume(s) = approval[s]
             /\ approval[s] \in AssignmentApproval
             /\ approval[s].nonce = st[s].approval_nonce
             /\ approval[s] \notin st[s].consumed_approval_ids
             /\ approval[s] # None
             /\ st[s].approval_nonce # None
      <3> SUFFICES ASSUME Current(s).execution_gate = "separate_human_approval"
                   PROVE  /\ ApprovalToConsume(s) = approval[s]
                          /\ approval[s] \in AssignmentApproval
                          /\ approval[s].nonce = st[s].approval_nonce
                          /\ approval[s] \notin st[s].consumed_approval_ids
                          /\ approval[s] # None
                          /\ st[s].approval_nonce # None
        OBVIOUS
      <3>1. /\ approval[s] \in AssignmentApproval
            /\ approval[s].nonce = st[s].approval_nonce
            /\ approval[s] \notin st[s].consumed_approval_ids
        BY <1>1, GateOpenFacts
      <3>2. approval[s].nonce \in Nat
        BY <3>1 DEF AssignmentApproval
      <3> QED
        BY <3>1, <3>2, TypeFacts DEF ApprovalToConsume
    <2>4. x \in ExecutionState /\ Sound(x)
      BY <1>2, <1>3, <2>2, <2>3, ExecutingSound
    <2>5. /\ x.plan_identity = st[s].plan_identity
          /\ x.next = st[s].next
          /\ x.completed_task_ids = st[s].completed_task_ids
          /\ x.evidence_ids_by_task = st[s].evidence_ids_by_task
          /\ x.status = "executing"
          /\ Current(s).execution_gate = "separate_human_approval" =>
                x.active_approval_id = approval[s] /\ x.approval_nonce = st[s].approval_nonce
      BY <1>2, <2>3 DEF TransitionToExecuting, ExecutionState
    <2> HIDE DEF x
    <2>6. pc'[s] = "invoke" /\ st'[s] = x /\ plan'[s] = plan[s] /\ approval'[s] = approval[s]
      BY <1>5 DEF IInv, TypeOK, Goto
    <2>7. TypeOK'
      <3>1. pc' \in [Session -> Labels]
        BY <1>5 DEF IInv, TypeOK, Goto, Labels, Locked
      <3>2. disk' \in OrNone(ExecutionState) /\ st' \in [Session -> OrNone(ExecutionState)]
        BY <1>5, <2>4, TypeFacts DEF IInv, TypeOK
      <3> QED
        BY <1>5, <3>1, <3>2 DEF IInv, TypeOK, history
    <2>8. OthersUnchanged(s)
      BY <1>5 DEF IInv, TypeOK, OthersUnchanged, Goto
    <2>9. Current(s)' = Current(s)
      BY <2>5, <2>6 DEF Current, CurrentTask
    <2>10. Authorised(s)'
      <3>1. CASE Current(s).execution_gate = "plan_approval"
        BY <1>1, <2>6, <2>9, <3>1, GateOpenFacts DEF Authorised
      <3>2. CASE Current(s).execution_gate = "separate_human_approval"
        BY <1>1, <2>5, <2>6, <2>9, <3>2, GateOpenFacts DEF Authorised
      <3> QED
        BY <2>1, <3>1, <3>2
    <2>11. RunInv(s)'
      BY <1>3, <1>5, <2>4, <2>5, <2>6, <2>9, <2>10 DEF RunInv, history
    <2>12. approval[s] # None => approval[s] \in granted
      BY DEF IInv, SessionInv
    <2>13. SessionInv(s)'
      BY <1>2, <1>5, <2>6, <2>11, <2>12 DEF SessionInv, history
    <2>14. EvidenceVerified(x)
      BY <1>2, <2>5 DEF EvidenceVerified
    <2>15. DiskInv'
      BY <1>5, <2>4, <2>14 DEF DiskInv, EvidenceVerified
    <2>16. InvocationInv'
      <3>1. x # None /\ \A t \in Task : runs[t] \in {0, 1}
        BY <2>4, TypeFacts DEF IInv, InvocationInv
      <3> QED
        BY <1>3, <1>5, <2>5, <3>1 DEF InvocationInv, history
    <2>17. lock' = lock /\ pc'[s] \in Locked /\ lock = s
      BY <1>1, <1>5, <2>6 DEF IInv, LockInv, Locked
    <2> QED
      BY <1>1, <1>5, <2>7, <2>8, <2>13, <2>15, <2>16, <2>17, Frame DEF history
  <1> QED
    BY <1>4, <1>5 DEF BeginExecuting, files, history

\* The provider is invoked: only for a task that was never invoked before.
LEMMA InvokeKeepsInv ==
    ASSUME IInv, NEW s \in Session, Invoke(s)
    PROVE  IInv'
  <1>1. pc[s] = "invoke" /\ pc[s] \in InRun /\ pc[s] \in Locked
    BY DEF Invoke, InRun, Locked
  <1>2. /\ RunInv(s) /\ plan[s] \in MissionPlan /\ Current(s).task_id \in Task
        /\ st[s].pending_task_id = Current(s).task_id
    BY <1>1, RunFacts
  <1>3. /\ runs' = [runs EXCEPT ![Current(s).task_id] = runs[Current(s).task_id] + 1]
        /\ UNCHANGED <<lock, planFile, disk, evidence, nonces, granted, plan, st, approval,
                       record, diag>>
    BY DEF Invoke, files
  <1>4. runs \in [Task -> Nat] /\ runs[Current(s).task_id] = 0
    BY <1>1, <1>2 DEF IInv, TypeOK, RunInv
  <1>5. runs'[Current(s).task_id] = 1 /\ runs' \in [Task -> Nat]
        /\ \A t \in Task : t # Current(s).task_id => runs'[t] = runs[t]
    BY <1>2, <1>3, <1>4
  <1>6. pc'[s] = "running" /\ pc' \in [Session -> Labels]
    BY DEF Invoke, Goto, IInv, TypeOK, Labels, Locked
  <1>7. TypeOK'
    BY <1>3, <1>5, <1>6 DEF IInv, TypeOK
  <1>8. OthersUnchanged(s)
    BY <1>3 DEF IInv, TypeOK, OthersUnchanged, Invoke, Goto
  <1>9. Current(s)' = Current(s)
    BY <1>3 DEF Current
  <1>10. Authorised(s)'
    BY <1>2, <1>3, <1>9 DEF RunInv, Authorised
  <1>11. RunInv(s)'
    BY <1>2, <1>3, <1>5, <1>6, <1>9, <1>10 DEF RunInv
  <1>12. SessionInv(s)'
    BY <1>2, <1>3, <1>6, <1>11 DEF SessionInv, IInv
  <1>13. DiskInv'
    BY <1>3 DEF IInv, DiskInv, EvidenceVerified
  <1>14. InvocationInv'
    <2>1. disk # None /\ disk.status = "executing" /\ disk.pending_task_id = Current(s).task_id
      BY <1>2, TypeFacts DEF RunInv
    <2>2. ASSUME NEW t \in Task, t # Current(s).task_id
          PROVE  /\ runs'[t] \in {0, 1}
                 /\ runs'[t] = 1 =>
                       /\ disk # None
                       /\ \/ t \in Elements(disk.completed_task_ids)
                          \/ /\ disk.status \in {"executing", "failed", "blocked", "recovery_required"}
                             /\ t = disk.pending_task_id
      BY <1>5, <2>2 DEF IInv, InvocationInv
    <2> QED
      BY <1>3, <1>5, <2>1, <2>2 DEF InvocationInv
  <1>15. lock' = lock /\ pc'[s] \in Locked /\ lock = s
    BY <1>1, <1>3, <1>6 DEF IInv, LockInv, Locked
  <1> QED
    BY <1>1, <1>3, <1>7, <1>8, <1>12, <1>13, <1>14, <1>15, Frame

\* The answer becomes a record about the task that ran.
LEMMA AssignmentEndsKeepsInv ==
    ASSUME IInv, NEW s \in Session, NEW status \in {"completed", "blocked", "failed"},
           AssignmentEnds(s, status)
    PROVE  IInv'
  <1> DEFINE r == [id |-> <<Current(s).task_id, runs[Current(s).task_id]>>,
                   task_id |-> Current(s).task_id, status |-> status]
  <1>1. pc[s] = "running" /\ pc[s] \in InRun /\ pc[s] \in Locked
    BY DEF AssignmentEnds, InRun, Locked
  <1>2. RunInv(s) /\ plan[s] \in MissionPlan /\ Current(s).task_id \in Task
    BY <1>1, RunFacts
  <1>3. /\ record' = [record EXCEPT ![s] = r]
        /\ UNCHANGED <<lock, planFile, disk, evidence, runs, nonces, granted, plan, st,
                       approval, diag>>
    BY DEF AssignmentEnds, files, history
  <1>4. r \in EvidenceRecord /\ r.task_id = Current(s).task_id
    BY <1>2 DEF IInv, TypeOK, EvidenceRecord, EvidenceId
  <1> HIDE DEF r
  <1>5. pc'[s] = "persist_evidence" /\ pc' \in [Session -> Labels] /\ record'[s] = r
    BY <1>3 DEF AssignmentEnds, Goto, IInv, TypeOK, Labels, Locked
  <1>6. TypeOK'
    <2>1. record' \in [Session -> OrNone(EvidenceRecord)]
      BY <1>3, <1>4, TypeFacts DEF IInv, TypeOK
    <2> QED
      BY <1>3, <1>5, <2>1 DEF IInv, TypeOK
  <1>7. OthersUnchanged(s)
    BY <1>3 DEF IInv, TypeOK, OthersUnchanged, AssignmentEnds, Goto
  <1>8. Current(s)' = Current(s)
    BY <1>3 DEF Current
  <1>9. Authorised(s)'
    BY <1>2, <1>3, <1>8 DEF RunInv, Authorised
  <1>10. RunInv(s)'
    BY <1>1, <1>2, <1>3, <1>4, <1>5, <1>8, <1>9 DEF RunInv
  <1>11. SessionInv(s)'
    BY <1>2, <1>3, <1>5, <1>10 DEF SessionInv, IInv
  <1>12. lock' = lock /\ pc'[s] \in Locked /\ lock = s
    BY <1>1, <1>3, <1>5 DEF IInv, LockInv, Locked
  <1> QED
    BY <1>3, <1>6, <1>7, <1>11, <1>12, QuietFrame

\* Evidence only grows, so what was verified stays verified.
LEMMA PersistEvidenceKeepsInv ==
    ASSUME IInv, NEW s \in Session, PersistEvidence(s)
    PROVE  IInv'
  <1>1. pc[s] = "persist_evidence" /\ pc[s] \in InRun /\ pc[s] \in Locked
    BY DEF PersistEvidence, InRun, Locked
  <1>2. RunInv(s) /\ Sound(st[s]) /\ plan[s] \in MissionPlan
    BY <1>1, RunFacts
  <1>3. st[s] \in ExecutionState /\ record[s] \in EvidenceRecord
    BY <1>1, <1>2 DEF RunInv
  <1>4. CASE Returns(s, st[s], "persist_failed") /\ UNCHANGED <<files, history>>
    <2>1. st[s] \in OrNone(ExecutionState) /\ "persist_failed" \in Diagnostic
      BY <1>3, TypeFacts, DiagnosticFacts
    <2> QED
      BY <1>1, <1>2, <1>4, <2>1, ReturnsUnchangedKeepsInv
  <1>5. CASE /\ evidence' = evidence \cup {record[s]} /\ Goto(s, "finalise")
             /\ UNCHANGED <<lock, planFile, disk, runs, nonces, granted, plan, st, approval,
                            record, diag>>
    <2>1. pc'[s] = "finalise" /\ pc' \in [Session -> Labels]
      BY <1>5 DEF Goto, IInv, TypeOK, Labels, Locked
    <2>2. TypeOK'
      BY <1>3, <1>5, <2>1 DEF IInv, TypeOK
    <2>3. OthersUnchanged(s)
      BY <1>5 DEF IInv, TypeOK, OthersUnchanged, Goto
    <2>4. Current(s)' = Current(s)
      BY <1>5 DEF Current
    <2>5. Authorised(s)'
      BY <1>2, <1>5, <2>4 DEF RunInv, Authorised
    <2>6. RunInv(s)'
      BY <1>1, <1>2, <1>5, <2>1, <2>4, <2>5 DEF RunInv
    <2>7. SessionInv(s)'
      BY <1>2, <1>5, <2>1, <2>6 DEF SessionInv, IInv
    <2>8. DiskInv'
      BY <1>5 DEF IInv, DiskInv, EvidenceVerified
    <2>9. InvocationInv'
      BY <1>5 DEF IInv, InvocationInv
    <2>10. lock' = lock /\ pc'[s] \in Locked /\ lock = s
      BY <1>1, <1>5, <2>1 DEF IInv, LockInv, Locked
    <2> QED
      BY <1>1, <1>5, <2>2, <2>3, <2>7, <2>8, <2>9, <2>10, Frame
  <1> QED
    BY <1>4, <1>5 DEF PersistEvidence, files, history

\* The final save: the invoked task is completed with its record, or the mission stops at it.
LEMMA FinaliseKeepsInv ==
    ASSUME IInv, NEW s \in Session, Finalise(s)
    PROVE  IInv'
  <1> DEFINE task == Current(s)
             consumed == Consumed(ApprovalToConsume(s))
             x == FinalState(s)
  <1>1. pc[s] = "finalise" /\ pc[s] \in InRun /\ pc[s] \in Locked
    BY DEF Finalise, InRun, Locked
  <1>2. /\ RunInv(s) /\ Sound(st[s]) /\ EvidenceVerified(st[s])
        /\ st[s].plan_identity \in Plan
        /\ HasCurrent(st[s].plan_identity, st[s])
        /\ task = CurrentTask(st[s].plan_identity, st[s])
        /\ task.task_id \in Task
        /\ st[s].pending_task_id = task.task_id
    BY <1>1, RunFacts
  <1>3. /\ st[s] \in ExecutionState /\ disk = st[s]
        /\ st[s].plan_identity = plan[s].identity
        /\ record[s] \in EvidenceRecord /\ record[s].task_id = task.task_id
        /\ record[s] \in evidence
    BY <1>1, <1>2 DEF RunInv
  <1>4. /\ record[s].id \in EvidenceId
        /\ record[s].status \in {"completed", "blocked", "failed"}
    BY <1>3 DEF EvidenceRecord
  <1>5. consumed \in SUBSET AssignmentApproval
    BY DEF IInv, TypeOK, Consumed, ApprovalToConsume, OrNone
  <1>6. \A t \in Task : runs[t] = 1 =>
           t \in Elements(st[s].completed_task_ids) \/ t = task.task_id
    BY <1>2, <1>3 DEF IInv, InvocationInv
  <1>7. SavesAndReturns(s, x, x.status, "persist_failed")
        /\ UNCHANGED <<lock, planFile, evidence, history>>
    BY DEF Finalise
  <1>8. {"completed", "in_progress", "blocked", "failed", "persist_failed"} \subseteq Diagnostic
    BY DiagnosticFacts
  <1> DEFINE Good ==
        /\ x \in ExecutionState /\ Sound(x) /\ EvidenceVerified(x)
        /\ x.status \in Diagnostic
        /\ \A t \in Task : runs[t] = 1 =>
               \/ t \in Elements(x.completed_task_ids)
               \/ /\ x.status \in {"failed", "blocked", "recovery_required"}
                  /\ t = x.pending_task_id
  <1>9. ASSUME record[s].status = "completed" PROVE Good
    <2>1. x = TransitionAfterCompleted(st[s], st[s].plan_identity, task, record[s].id, consumed)
      BY <1>3, <1>9 DEF FinalState
    <2> HIDE DEF task, consumed, x
    <2>2. /\ x \in ExecutionState /\ Sound(x)
          /\ Elements(x.completed_task_ids) =
                Elements(st[s].completed_task_ids) \cup {task.task_id}
      BY <1>2, <1>3, <1>4, <1>5, <2>1, CompletedSound
    <2>3. /\ x.evidence_ids_by_task =
                st[s].evidence_ids_by_task \cup {<<task.task_id, record[s].id>>}
          /\ x.status \in {"completed", "in_progress"}
      BY <1>3, <2>1 DEF TransitionAfterCompleted, ExecutionState
    <2>4. EvidenceVerified(x)
      BY <1>2, <1>3, <1>9, <2>2, <2>3 DEF EvidenceVerified
    <2> QED
      BY <1>6, <1>8, <2>2, <2>3, <2>4
  <1>10. ASSUME record[s].status \in {"blocked", "failed"} PROVE Good
    <2>1. PICK status \in {"blocked", "failed"}, pause \in {"blocked", None} :
             /\ status = "blocked" => pause = "blocked"
             /\ x = StoppedAt(st[s], task, status, consumed, status, pause)
      BY <1>10 DEF FinalState, TransitionToFailed
    <2>2. status \in Diagnostic /\ pause \in OrNone(Diagnostic)
      BY <1>8, TypeFacts
    <2>3. status = "blocked" => pause # None
      BY <1>8, <2>1, TypeFacts
    <2>4. x \in ExecutionState /\ Sound(x)
      BY <1>2, <1>3, <1>5, <2>1, <2>2, <2>3, StoppedSound
    <2>5. /\ x.completed_task_ids = st[s].completed_task_ids
          /\ x.evidence_ids_by_task = st[s].evidence_ids_by_task
          /\ x.pending_task_id = task.task_id
          /\ x.status = status
      BY <1>3, <2>1 DEF StoppedAt, ExecutionState
    <2>6. EvidenceVerified(x)
      BY <1>2, <2>5 DEF EvidenceVerified
    <2> QED
      BY <1>6, <2>2, <2>4, <2>5, <2>6
  <1>11. Good
    BY <1>4, <1>9, <1>10
  <1> HIDE DEF x
  <1> QED
    BY <1>1, <1>2, <1>3, <1>7, <1>8, <1>11, SavesKeepsInv

\* A move of one session outside its run that leaves the shared files' contents alone
\* (the lock excepted).
LEMMA MoveKeepsInv ==
    ASSUME IInv, NEW s \in Session, NEW label \in Labels, Goto(s, label),
           label \notin InRun,
           lock' = lock \/ {lock, lock'} \subseteq {None, "stale", s},
           label \in Locked <=> lock' = s,
           lock' \in {lock, None, "stale", s},
           NEW q \in OrNone(MissionPlan), plan' = [plan EXCEPT ![s] = q],
           label \in HasPlan => q # None,
           NEW x \in OrNone(ExecutionState), st' = [st EXCEPT ![s] = x],
           label \in {"release", "returned"} /\ x # None => Sound(x),
           label = "ask_assignment" =>
               x # None /\ Sound(x) /\ x.status = "waiting_for_approval",
           label = "decide" =>
               x # None /\ (disk = x \/ (disk = None /\ x = NewExecutionState(q.identity))),
           NEW d \in OrNone(Diagnostic), diag' = [diag EXCEPT ![s] = d],
           planFile' \in MissionPlan \cup {None, Torn},
           UNCHANGED <<disk, evidence, runs, nonces, granted, approval, record>>
    PROVE  IInv'
  <1>1. pc'[s] = label /\ plan'[s] = q /\ st'[s] = x /\ approval'[s] = approval[s]
    BY DEF IInv, TypeOK, Goto
  <1>2. pc' \in [Session -> Labels] /\ lock' \in Session \cup {None, "stale"}
    BY DEF IInv, TypeOK, Goto
  <1>3. /\ plan' \in [Session -> OrNone(MissionPlan)]
        /\ st' \in [Session -> OrNone(ExecutionState)]
        /\ diag' \in [Session -> OrNone(Diagnostic)]
    BY DEF IInv, TypeOK
  <1>4. TypeOK'
    BY <1>2, <1>3 DEF IInv, TypeOK
  <1>5. OthersUnchanged(s)
    BY DEF IInv, TypeOK, OthersUnchanged, Goto
  <1>6. label \in HasPlan => q \in MissionPlan
    BY DEF OrNone
  <1>7. label \in {"decide", "ask_assignment"} => x \in ExecutionState
    BY DEF OrNone
  <1>8. SessionInv(s)'
    BY <1>1, <1>6, <1>7 DEF SessionInv, IInv
  <1> QED
    BY <1>1, <1>4, <1>5, <1>8, QuietFrame

\* IInv is preserved by every step of the specification.
THEOREM NextKeepsInv ==
    ASSUME IInv, [Next]_vars
    PROVE  IInv'
  <1>0. /\ TypeOK /\ \A s \in Session : SessionInv(s)
        /\ \A s \in Session : (pc[s] \in Locked <=> lock = s)
        /\ None \notin Session /\ "stale" \notin Session
    BY NoneIsNone DEF IInv, LockInv
  <1>1. CASE UNCHANGED vars
    BY SMTT(30), <1>1 DEF vars, files, history, local, IInv, TypeOK, LockInv, SessionInv, RunInv,
                Authorised, Current, DiskInv, EvidenceVerified, InvocationInv
  <1>2. CASE RemoveStaleLock
    <2>1. /\ lock = "stale" /\ lock' = None
          /\ UNCHANGED <<planFile, disk, evidence, runs, nonces, granted, pc, plan, st,
                         approval, record, diag>>
      BY <1>2 DEF RemoveStaleLock, history, local
    <2>2. TypeOK' /\ LockInv' /\ DiskInv' /\ InvocationInv'
      BY <1>0, <2>1 DEF IInv, TypeOK, LockInv, DiskInv, EvidenceVerified, InvocationInv
    <2>3. \A s \in Session : SessionInv(s)'
      BY <1>0, <2>1 DEF SessionInv, RunInv, Authorised, Current
    <2> QED
      BY <2>2, <2>3 DEF IInv
  <1>3. ASSUME NEW s \in Session, CodeStep(s) \/ HumanStep(s) \/ Fault(s)
        PROVE  IInv'
    <2>0. /\ SessionInv(s) /\ (pc[s] \in Locked <=> lock = s)
          /\ plan[s] \in OrNone(MissionPlan) /\ st[s] \in OrNone(ExecutionState)
          /\ diag[s] \in OrNone(Diagnostic) /\ approval[s] \in OrNone(AssignmentApproval)
          /\ planFile \in MissionPlan \cup {None, Torn}
          /\ lock \in Session \cup {None, "stale"}
          /\ plan = [plan EXCEPT ![s] = plan[s]]
          /\ st = [st EXCEPT ![s] = st[s]]
          /\ diag = [diag EXCEPT ![s] = diag[s]]
      BY <1>0 DEF TypeOK
    <2>l. {"idle", "call", "planned", "decide", "returned", "truncate_plan", "write_plan",
           "ask_plan", "ask_assignment", "locked", "release"} \subseteq Labels
      BY DEF Labels, Locked
    <2>n. \A S : None \in OrNone(S) /\ S \subseteq OrNone(S)
      BY TypeFacts
    <2>1. CASE ResumeMission(s)
      BY <2>1, <2>0, <2>l, MoveKeepsInv
      DEF ResumeMission, files, history, InRun, HasPlan, Locked
    <2>2. CASE \E p \in Plan : RunConversation(s, p)
      <3>1. PICK p \in Plan : RunConversation(s, p)
        BY <2>2
      <3> DEFINE q == [identity |-> p, approval |-> "approved"]
      <3>a. q \in MissionPlan
        BY DEF MissionPlan, PlanApproval
      <3>2. q \in OrNone(MissionPlan) /\ q # None
        BY <3>a, TypeFacts
      <3> QED
        BY <3>1, <3>2, <2>0, <2>l, MoveKeepsInv
        DEF RunConversation, files, history, InRun, Locked
    <2>3. CASE AcquireLock(s)
      BY <2>3, <2>0, <2>l, MoveKeepsInv DEF AcquireLock, history, InRun, HasPlan, Locked
    <2>4. CASE LockNotAcquired(s)
      BY <2>4, <2>0, EndsKeepsInv DEF LockNotAcquired, Locked
    <2>5. CASE LoadPlan(s)
      <3>1. CASE planFile \in MissionPlan /\ plan' = [plan EXCEPT ![s] = planFile]
                 /\ Goto(s, "planned") /\ UNCHANGED <<st, approval, record, diag, files, history>>
        <4>1. planFile # None /\ planFile \in OrNone(MissionPlan)
          BY <3>1, TypeFacts
        <4>2. lock = s /\ UNCHANGED <<lock, planFile, disk, evidence, runs, nonces, granted>>
          BY <3>1, <2>5, <2>0 DEF LoadPlan, Locked, files, history
        <4>3. "planned" \notin InRun /\ "planned" \in Locked
          BY DEF InRun, Locked
        <4> QED
          BY <3>1, <4>1, <4>2, <4>3, <2>0, <2>l, MoveKeepsInv
      <3>2. CASE Returns(s, None, "plan_load_error") /\ UNCHANGED <<files, history>>
        BY <3>2, <2>5, <2>n, DiagnosticFacts, ReturnsUnchangedKeepsInv DEF LoadPlan, Locked
      <3> QED
        BY <3>1, <3>2, <2>5 DEF LoadPlan
    <2>6. CASE LoadState(s)
      <3>0. plan[s] \in MissionPlan /\ plan[s] # None
        BY <2>6, <2>0, TypeFacts DEF LoadState, SessionInv, HasPlan
      <3> DEFINE x == IF disk = None THEN NewExecutionState(plan[s].identity) ELSE disk
      <3>1. CASE st' = [st EXCEPT ![s] = x] /\ Goto(s, "decide")
                 /\ UNCHANGED <<plan, approval, record, diag, files, history>>
        <4>1. plan[s].identity \in Plan /\ disk \in OrNone(ExecutionState)
          BY <3>0, <1>0 DEF MissionPlan, TypeOK
        <4>2. NewExecutionState(plan[s].identity) \in ExecutionState
          BY <4>1, NewStateSound
        <4>3. x \in ExecutionState /\ x \in OrNone(ExecutionState) /\ x # None
          BY <4>1, <4>2, TypeFacts DEF OrNone
        <4>4. disk = x \/ (disk = None /\ x = NewExecutionState(plan[s].identity))
          OBVIOUS
        <4> HIDE DEF x
        <4>5. lock = s /\ UNCHANGED <<lock, planFile, disk, evidence, runs, nonces, granted>>
          BY <3>1, <2>6, <2>0 DEF LoadState, Locked, files, history
        <4>6. "decide" \notin InRun /\ "decide" \in Locked
          BY DEF InRun, Locked
        <4> QED
          BY ZenonT(60), <3>0, <3>1, <4>3, <4>4, <4>5, <4>6, <2>0, <2>l, MoveKeepsInv
      <3>2. CASE Returns(s, None, "state_load_error") /\ UNCHANGED <<files, history>>
        BY <3>2, <2>6, <2>n, DiagnosticFacts, ReturnsUnchangedKeepsInv DEF LoadState, Locked
      <3> QED
        BY <3>1, <3>2, <2>6 DEF LoadState
    <2>7. CASE Recover(s)
      <3>1. Reason(s) \in Diagnostic
        BY <2>7, ReasonFacts DEF Recover, Reason, OrNone
      <3> QED
        BY <2>7, <3>1, RecoverKeepsInv DEF Recover
    <2>d. ASSUME pc[s] = "decide"
          PROVE  /\ st[s] \in ExecutionState /\ Sound(st[s]) /\ pc[s] \in Locked
                 /\ st[s] \in OrNone(ExecutionState)
      BY <2>d, <2>n, DecideFacts DEF Locked
    <2>8. CASE NonResumable(s)
      BY <2>8, <2>d, DiagnosticFacts, ReturnsUnchangedKeepsInv DEF NonResumable
    <2>9. CASE EvidenceUnreadable(s)
      BY <2>9, DiagnosticFacts, RecoverKeepsInv DEF EvidenceUnreadable, Resumable
    <2>10. CASE BlockMutation(s)
      <3>1. /\ "mutation_runtime_not_supported" \in Diagnostic /\ "persist_failed" \in Diagnostic
            /\ "mutation_runtime_not_supported" # None
            /\ "mutation_runtime_not_supported" \in OrNone(Diagnostic)
        BY DiagnosticFacts, TypeFacts
      <3> QED
        BY <2>10, <3>1, StopBeforeRunKeepsInv DEF BlockMutation, TransitionToBlocked
    <2>11. CASE PlanNotApproved(s)
      BY <2>11, <2>d, DiagnosticFacts, ReturnsUnchangedKeepsInv DEF PlanNotApproved, Resumable
    <2>12. CASE EnterWaiting(s)
      <3>0. Resumable(s) /\ pc[s] = "decide"
        BY <2>12 DEF EnterWaiting, Resumable
      <3>1. CASE Returns(s, st[s], "persist_failed") /\ UNCHANGED <<nonces, disk>>
        BY <3>0, <3>1, <2>12, <2>d, DiagnosticFacts, ReturnsUnchangedKeepsInv
        DEF EnterWaiting, files, history
      <3>2. CASE /\ nonces' = nonces + 1
                 /\ disk' = TransitionToWaiting(st[s], Current(s), nonces')
                 /\ Returns(s, disk', "waiting_for_approval")
        <4> DEFINE x == TransitionToWaiting(st[s], Current(s), nonces + 1)
        <4>1. /\ st[s] \in ExecutionState /\ Sound(st[s]) /\ EvidenceVerified(st[s])
              /\ pc[s] \in Locked
          BY <3>0, DecideFacts DEF Locked
        <4>2. /\ HasCurrent(st[s].plan_identity, st[s])
              /\ Current(s) = CurrentTask(st[s].plan_identity, st[s])
              /\ \A t \in Task : runs[t] = 1 => t \in Elements(st[s].completed_task_ids)
          BY <3>0, ResumableFacts
        <4>3. nonces + 1 \in Nat /\ Current(s).execution_gate = "separate_human_approval"
          BY <1>0, <2>12 DEF TypeOK, EnterWaiting
        <4>4. x \in ExecutionState /\ Sound(x)
          BY <4>1, <4>2, <4>3, WaitingSound
        <4>5. /\ x.completed_task_ids = st[s].completed_task_ids
              /\ x.evidence_ids_by_task = st[s].evidence_ids_by_task
          BY <4>1 DEF TransitionToWaiting, ExecutionState
        <4>6. EvidenceVerified(x)
          BY <4>1, <4>5 DEF EvidenceVerified
        <4>7. disk' = x
          BY <3>2
        <4> HIDE DEF x
        <4>8. UNCHANGED <<lock, planFile, evidence, runs, granted>>
          BY <2>12 DEF EnterWaiting
        <4>9. DiskInv'
          BY <4>4, <4>6, <4>7, <4>8 DEF DiskInv, EvidenceVerified
        <4>10. InvocationInv'
          <5>1. x # None /\ \A t \in Task : runs[t] \in {0, 1}
            BY <4>4, TypeFacts DEF IInv, InvocationInv
          <5> QED
            BY <4>2, <4>5, <4>7, <4>8, <5>1 DEF InvocationInv
        <4>11. x \in OrNone(ExecutionState) /\ nonces' \in Nat
          BY <3>2, <4>3, <4>4, <2>n
        <4>12. Returns(s, x, "waiting_for_approval") /\ "waiting_for_approval" \in Diagnostic
          BY <3>2, <4>7, DiagnosticFacts
        <4> QED
          BY <4>1, <4>4, <4>7, <4>8, <4>9, <4>10, <4>11, <4>12, ReturnsKeepsInv
      <3> QED
        BY <3>1, <3>2, <2>12 DEF EnterWaiting
    <2>13. CASE KeepWaiting(s)
      <3>1. PICK d \in Diagnostic : Returns(s, st[s], d)
        <4>1. CASE approval[s] = None
          BY <4>1, <2>13, DiagnosticFacts DEF KeepWaiting
        <4>2. CASE approval[s] # None
          <5>1. {"task_id_mismatch", "no_pending_approval", "plan_identity_mismatch",
                 "nonce_mismatch", "approval_already_consumed"} \subseteq Diagnostic
            BY DEF Diagnostic
          <5>2. ApprovalRejection(approval[s], plan[s].identity, st[s]) \in Diagnostic \cup {None}
            BY <5>1 DEF ApprovalRejection
          <5> QED
            BY <4>2, <5>2, <2>13 DEF KeepWaiting
        <4> QED
          BY <4>1, <4>2
      <3> QED
        BY <2>13, <3>1, <2>d, ReturnsUnchangedKeepsInv DEF KeepWaiting, Resumable
    <2>14. CASE UnknownFamily(s)
      <3>1. /\ "unknown_agent_family" \in Diagnostic /\ "unknown_family_persist_failed" \in Diagnostic
            /\ None \in OrNone(Diagnostic)
        BY DiagnosticFacts, TypeFacts
      <3>2. Resumable(s) /\ Consumed(ApprovalToConsume(s)) \in SUBSET AssignmentApproval
        BY <2>14, GateOpenFacts DEF UnknownFamily
      <3> QED
        BY <2>14, <3>1, <3>2, StopBeforeRunKeepsInv DEF UnknownFamily, TransitionToFailed
    <2>15. CASE NotReady(s)
      BY <2>15, <2>d, DiagnosticFacts, ReturnsUnchangedKeepsInv
      DEF NotReady, GateOpen, Resumable
    <2>16. CASE GitBaselineFails(s)
      <3>1. /\ "git_status_failed" \in Diagnostic /\ "persist_failed" \in Diagnostic
            /\ None \in OrNone(Diagnostic)
        BY DiagnosticFacts, TypeFacts
      <3>2. Resumable(s)
        BY <2>16 DEF GitBaselineFails, GateOpen
      <3> QED
        BY <2>16, <3>1, <3>2, StopBeforeRunKeepsInv DEF GitBaselineFails, TransitionToFailed
    <2>17. CASE BeginExecuting(s)
      BY <2>17, BeginExecutingKeepsInv
    <2>18. CASE Invoke(s)
      BY <2>18, InvokeKeepsInv
    <2>19. CASE \E status \in {"completed", "blocked", "failed"} : AssignmentEnds(s, status)
      BY <2>19, AssignmentEndsKeepsInv
    <2>20. CASE PersistEvidence(s)
      BY <2>20, PersistEvidenceKeepsInv
    <2>21. CASE Finalise(s)
      BY <2>21, FinaliseKeepsInv
    <2>22. CASE ReleaseLock(s)
      <3>1. pc[s] = "release" /\ lock = s
        BY <2>22, <2>0 DEF ReleaseLock, Locked
      <3>2. PICK d \in OrNone(Diagnostic) :
               lock' \in {None, "stale"} /\ diag' = [diag EXCEPT ![s] = d]
        BY <2>22, <2>0, <2>n, DiagnosticFacts DEF ReleaseLock
      <3>3. st[s] # None => Sound(st[s])
        BY <2>0, <3>1 DEF SessionInv
      <3>4. /\ lock' # s /\ {lock, lock'} \subseteq {None, "stale", s}
            /\ lock' \in {lock, None, "stale", s}
        BY <1>0, <3>1, <3>2
      <3>5. /\ Goto(s, "returned")
            /\ UNCHANGED <<planFile, disk, evidence, runs, nonces, granted, plan, st, approval,
                           record>>
        BY <2>22 DEF ReleaseLock, history
      <3>6. "returned" \notin InRun /\ "returned" \notin Locked /\ "returned" \notin HasPlan
        BY DEF InRun, Locked, HasPlan
      <3> QED
        <4>1. /\ st' = [st EXCEPT ![s] = st[s]] /\ plan' = [plan EXCEPT ![s] = plan[s]]
              /\ diag' = [diag EXCEPT ![s] = d]
              /\ planFile' \in MissionPlan \cup {None, Torn}
          BY <2>0, <3>2, <3>5
        <4>2. /\ "returned" \in Labels
              /\ plan[s] \in OrNone(MissionPlan) /\ st[s] \in OrNone(ExecutionState)
          BY <2>0, <2>l
        <4>3. "returned" # "ask_assignment" /\ "returned" # "decide"
          OBVIOUS
        <4> QED
          BY <3>3, <3>4, <3>5, <3>6, <4>1, <4>2, <4>3, MoveKeepsInv
    <2>r. ASSUME pc[s] = "returned", ~LoopStops(s)
          PROVE  /\ st[s] \in ExecutionState /\ st[s] # None /\ Sound(st[s])
                 /\ pc[s] \notin Locked
      BY <2>r, <2>0 DEF LoopStops, SessionInv, OrNone, Locked
    <2>23. CASE StopSession(s)
      BY <2>23, <2>0, EndsKeepsInv DEF StopSession, files, Locked
    <2>24. CASE NextAttempt(s)
      BY <2>24, <2>0, <2>l, <2>n, MoveKeepsInv
      DEF NextAttempt, files, history, InRun, HasPlan, Locked
    <2>25. CASE AskPlanApproval(s)
      <3>1. CASE Ends(s)
        BY <2>25, <3>1, <2>0, EndsKeepsInv DEF AskPlanApproval, files, Locked
      <3>2. CASE /\ planFile \in MissionPlan
                 /\ plan' = [plan EXCEPT ![s] = planFile]
                 /\ st' = [st EXCEPT ![s] = None]
                 /\ diag' = [diag EXCEPT ![s] = None]
                 /\ Goto(s, "ask_plan")
                 /\ UNCHANGED <<approval, record>>
        <4>1. planFile # None /\ planFile \in OrNone(MissionPlan)
          BY <3>2, TypeFacts
        <4> QED
          BY <2>25, <3>2, <4>1, <2>0, <2>l, <2>n, MoveKeepsInv
          DEF AskPlanApproval, files, history, InRun, Locked
      <3> QED
        BY <2>25, <3>1, <3>2 DEF AskPlanApproval
    <2>26. CASE AskAssignmentApproval(s)
      BY ZenonT(60), <2>26, <2>r, <2>0, <2>l, <2>n, MoveKeepsInv
      DEF AskAssignmentApproval, files, history, InRun, HasPlan, Locked
    <2>27. CASE \E decision \in {"approved", "rejected"} : DecidePlan(s, decision)
      <3>1. PICK decision \in {"approved", "rejected"} : DecidePlan(s, decision)
        BY <2>27
      <3> DEFINE q == [plan[s] EXCEPT !.approval = decision]
      <3>2. plan[s] \in MissionPlan
        BY <3>1, <2>0 DEF DecidePlan, SessionInv, HasPlan
      <3>3. q \in MissionPlan
        BY <3>1, <3>2 DEF MissionPlan, PlanApproval
      <3>4. q \in OrNone(MissionPlan) /\ q # None
        BY <3>3, TypeFacts
      <3>5. plan' = [plan EXCEPT ![s] = q]
        BY <3>1 DEF DecidePlan
      <3> HIDE DEF q
      <3> QED
        BY ZenonT(60), <3>1, <3>4, <3>5, <2>0, <2>l, MoveKeepsInv
        DEF DecidePlan, files, history, InRun, Locked
    <2>28. CASE PasteApproval(s)
      <3> DEFINE a == [task_id |-> st[s].pending_task_id,
                       plan_identity |-> st[s].plan_identity,
                       nonce |-> st[s].approval_nonce]
      <3>1. /\ pc[s] = "ask_assignment" /\ Goto(s, "call")
            /\ approval' = [approval EXCEPT ![s] = a] /\ granted' = granted \cup {a}
            /\ st' = [st EXCEPT ![s] = None]
            /\ UNCHANGED <<lock, planFile, disk, evidence, runs, nonces, plan, record, diag>>
        BY <2>28 DEF PasteApproval, files
      <3>2. st[s] \in ExecutionState /\ Sound(st[s]) /\ st[s].status = "waiting_for_approval"
        BY <3>1, <2>0 DEF SessionInv
      <3>3. /\ PendingIsCurrent(st[s].plan_identity, st[s])
            /\ st[s].approval_nonce # None /\ st[s].plan_identity \in Plan
            /\ st[s].approval_nonce \in OrNone(Nat)
        BY <3>2 DEF Sound, StructurallySound, StatusConsistent, ExecutionState
      <3>4. st[s].pending_task_id \in Task
        BY <3>2, <3>3, CurrentIsAssignment DEF PendingIsCurrent
      <3>5. a \in AssignmentApproval
        BY <3>3, <3>4 DEF AssignmentApproval, OrNone
      <3> HIDE DEF a
      <3>6. TypeOK'
        <4>1. pc' \in [Session -> Labels]
          BY <1>0, <2>l, <3>1 DEF TypeOK, Goto
        <4>2. /\ st' \in [Session -> OrNone(ExecutionState)]
              /\ approval' \in [Session -> OrNone(AssignmentApproval)]
              /\ granted' \subseteq AssignmentApproval
          BY <1>0, <2>n, <3>1, <3>5 DEF TypeOK
        <4> QED
          BY <1>0, <3>1, <4>1, <4>2 DEF TypeOK
      <3>7. OthersUnchanged(s)
        BY <1>0, <3>1 DEF TypeOK, OthersUnchanged, Goto
      <3>8. pc'[s] = "call" /\ approval'[s] = a
        BY <1>0, <3>1 DEF TypeOK, Goto
      <3>9. SessionInv(s)'
        BY <3>1, <3>8 DEF SessionInv, HasPlan, InRun
      <3>10. pc'[s] \notin Locked /\ lock' # s /\ lock' = lock
        BY <2>0, <3>1, <3>8 DEF Locked
      <3> QED
        BY <3>1, <3>6, <3>7, <3>9, <3>10, QuietFrame
    <2>29. CASE MistypeApproval(s)
      BY ZenonT(60), <2>29, <2>0, <2>l, <2>n, MoveKeepsInv
      DEF MistypeApproval, files, history, InRun, HasPlan, Locked
    <2>30. CASE Pause(s)
      BY <2>30, <2>0, EndsKeepsInv DEF Pause, files, Locked
    <2>w. ASSUME pc[s] \in {"truncate_plan", "write_plan"}
          PROVE  plan[s] \in MissionPlan /\ plan[s] # None /\ pc[s] \notin Locked
      BY <2>w, <2>0, TypeFacts DEF SessionInv, HasPlan, Locked
    <2>31. CASE TruncatePlan(s)
      <3>1. CASE Ends(s) /\ UNCHANGED planFile
        BY <2>31, <3>1, <2>0, <2>w, EndsKeepsInv DEF TruncatePlan
      <3>2. CASE /\ planFile' = Torn /\ Goto(s, "write_plan")
                 /\ UNCHANGED <<plan, st, approval, record, diag>>
        BY <2>31, <3>2, <2>0, <2>l, <2>w, MoveKeepsInv
        DEF TruncatePlan, history, InRun, Locked
      <3> QED
        BY <2>31, <3>1, <3>2 DEF TruncatePlan
    <2>32. CASE WritePlan(s)
      <3>0. planFile' \in MissionPlan \cup {None, Torn}
        BY <2>32, <2>w DEF WritePlan
      <3>1. CASE Ends(s)
        BY <2>32, <3>0, <3>1, <2>0, <2>w, EndsKeepsInv DEF WritePlan
      <3>2. CASE /\ Goto(s, "call") /\ plan' = [plan EXCEPT ![s] = None]
                 /\ UNCHANGED <<st, approval, record, diag>>
        BY <2>32, <3>0, <3>2, <2>0, <2>l, <2>n, <2>w, MoveKeepsInv
        DEF WritePlan, history, InRun, HasPlan, Locked
      <3> QED
        BY <2>32, <3>1, <3>2 DEF WritePlan
    <2>33. CASE Interrupt(s)
      BY <2>33, <2>0, EndsKeepsInv DEF Interrupt
    <2>34. CASE Crash(s)
      BY <2>34, <2>0, EndsKeepsInv DEF Crash
    <2> QED
      BY <1>3, <2>1, <2>2, <2>3, <2>4, <2>5, <2>6, <2>7, <2>8, <2>9, <2>10, <2>11, <2>12,
         <2>13, <2>14, <2>15, <2>16, <2>17, <2>18, <2>19, <2>20, <2>21, <2>22, <2>23, <2>24,
         <2>25, <2>26, <2>27, <2>28, <2>29, <2>30, <2>31, <2>32, <2>33, <2>34
      DEF CodeStep, HumanStep, Fault
  <1> QED
    BY <1>1, <1>2, <1>3 DEF Next

----------------------------------------------------------------------------
(* The theorems.                                                           *)

\* The initial states satisfy the inductive invariant.
THEOREM InitInv == Init => IInv
  <1> SUFFICES ASSUME Init PROVE IInv
    OBVIOUS
  <1>1. /\ pc = [s \in Session |-> "idle"] /\ lock = None /\ disk = None
        /\ runs = [t \in Task |-> 0] /\ approval = [s \in Session |-> None]
    BY DEF Init
  <1>2. TypeOK
    <2>1. "idle" \in Labels
      BY DEF Labels
    <2>2. planFile \in MissionPlan \cup {None, Torn}
      BY DEF Init, OrNone, MissionPlan, PlanApproval
    <2> QED
      BY <2>1, <2>2, TypeFacts DEF Init, TypeOK
  <1>3. LockInv
    BY <1>1, NoneIsNone DEF LockInv, Locked
  <1>4. \A s \in Session : SessionInv(s)
    BY <1>1 DEF SessionInv, HasPlan, InRun
  <1>5. DiskInv /\ InvocationInv
    BY <1>1 DEF DiskInv, InvocationInv
  <1> QED
    BY <1>2, <1>3, <1>4, <1>5 DEF IInv

\* The inductive invariant holds in every reachable state.
THEOREM Invariance == Spec => []IInv
  BY InitInv, NextKeepsInv, PTL DEF Spec

\* Every variable keeps its type: in particular the state file is always a whole state.
THEOREM TypeCorrect == Spec => []TypeOK
  <1>1. IInv => TypeOK
    BY DEF IInv
  <1> QED
    BY <1>1, Invariance, PTL

\* No task is handed to a provider twice, for any number of sessions, any plans and any
\* pattern of crashes, failed writes and hand-removed locks (execute_or_resume_plan).
THEOREM AtMostOnce == Spec => []InvokedAtMostOnce
  <1>1. IInv => InvokedAtMostOnce
    BY DEF IInv, InvocationInv, InvokedAtMostOnce
  <1> QED
    BY <1>1, Invariance, PTL

\* While a provider runs or its result is being stored, the caller owns the lock and the
\* file on disk says "executing" and names that task (the save before _run_assignment).
THEOREM ExecutingDurable == Spec => []ExecutingIsDurable
  <1>1. IInv => ExecutingIsDurable
    <2> SUFFICES ASSUME IInv, NEW s \in Session,
                        pc[s] \in {"invoke", "running", "persist_evidence", "finalise"}
                 PROVE  /\ lock = s
                        /\ disk # None
                        /\ disk.status = "executing"
                        /\ disk.executing_task_id = Current(s).task_id
      BY DEF ExecutingIsDurable
    <2>1. pc[s] \in InRun /\ lock = s
      BY DEF InRun, IInv, LockInv, Locked
    <2>2. RunInv(s) /\ Sound(st[s]) /\ st[s].pending_task_id = Current(s).task_id
      BY <2>1, RunFacts
    <2>3. disk = st[s] /\ disk # None /\ st[s].status = "executing"
      BY <2>2, TypeFacts DEF RunInv
    <2>4. st[s].executing_task_id = st[s].pending_task_id
      BY <2>2, <2>3 DEF Sound, StructurallySound, StatusConsistent
    <2> QED
      BY <2>1, <2>2, <2>3, <2>4
  <1> QED
    BY <1>1, Invariance, PTL

\* Whatever fails, the file on disk passes _validate_execution_state_invariants and every
\* task it calls completed has its evidence.
THEOREM StatesSound == Spec => []OwnStatesAreSound
  <1>1. IInv => OwnStatesAreSound
    BY DEF IInv, DiskInv, Sound, OwnStatesAreSound
  <1> QED
    BY <1>1, Invariance, PTL

\* A provider only runs under an approved plan or an unspent approval a human pasted for
\* this task, plan and nonce (the gate checks of _execute_or_resume_plan_locked).
THEOREM Authority == Spec => []RunsAreAuthorised
  <1>1. IInv => RunsAreAuthorised
    <2> SUFFICES ASSUME IInv, NEW s \in Session, pc[s] \in {"invoke", "running"}
                 PROVE  /\ plan[s].identity = disk.plan_identity
                        /\ ~Current(s).mutation
                        /\ \/ /\ Current(s).execution_gate = "plan_approval"
                              /\ plan[s].approval = "approved"
                           \/ /\ disk.active_approval_id \in granted \ disk.consumed_approval_ids
                              /\ disk.active_approval_id.task_id = Current(s).task_id
                              /\ disk.active_approval_id.plan_identity = disk.plan_identity
                              /\ disk.active_approval_id.nonce = disk.approval_nonce
      BY DEF RunsAreAuthorised
    <2>1. RunInv(s) /\ Sound(st[s])
      BY RunFacts DEF InRun
    <2>2. disk = st[s] /\ disk.plan_identity = plan[s].identity /\ Authorised(s)
      BY <2>1 DEF RunInv
    <2>3. disk.active_approval_id \notin disk.consumed_approval_ids
      BY <2>1, <2>2 DEF Sound, StructurallySound
    <2>4. approval[s] # None => approval[s] \in granted
      BY DEF IInv, SessionInv
    <2>5. approval[s] \in AssignmentApproval => approval[s] \in granted
      BY <2>4, TypeFacts
    <2> QED
      BY <2>2, <2>3, <2>5 DEF Authorised
  <1> QED
    BY <1>1, Invariance, PTL

----------------------------------------------------------------------------
(* Progress: why a mission is given up, what a save may change, when       *)
(* completion is reported, and that the runtime implements                 *)
(* MissionContract.  Only five transitions write execution_state.json      *)
(* (DiskSteps), each from the state its session loaded; everything here    *)
(* follows from what they keep.                                            *)

\* The reasons a mission may be given up for.
Causes == {"plan_drift", "interrupted_while_executing", "missing_or_corrupt_completed_evidence"}

\* A mission in progress still has a task under its cursor.
CursorInv ==
    disk # None /\ disk.status = "in_progress" => HasCurrent(disk.plan_identity, disk)

\* The writes of execution_state.json: each is a transition from the state s loaded.
Writes(s) ==
    \/ pc[s] = "decide" /\ \E reason \in Causes : disk' = RecoveryResult(st[s], reason)
    \/ Resumable(s) /\ \E status \in {"failed", "blocked"}, reason \in Diagnostic,
                          consumed \in SUBSET AssignmentApproval, pause \in OrNone(Diagnostic) :
          /\ status = "blocked" => pause # None
          /\ disk' = StoppedAt(st[s], Current(s), status, consumed, reason, pause)
    \/ EnterWaiting(s) /\ disk' = TransitionToWaiting(st[s], Current(s), nonces + 1)
    \/ GateOpen(s) /\ disk' = TransitionToExecuting(st[s], Current(s), ApprovalToConsume(s))
    \/ pc[s] = "finalise" /\ disk' = FinalState(s)

----------------------------------------------------------------------------
(* Which steps write.                                                      *)

\* The body gives up only on another plan, a run that was cut short or missing evidence.
LEMMA GivesUpForCause ==
    ASSUME IInv, CursorInv, NEW s \in Session, pc[s] = "decide", Reason(s) # None
    PROVE  Reason(s) \in Causes
  <1>1. /\ plan[s] \in MissionPlan /\ st[s] \in ExecutionState /\ Sound(st[s])
        /\ disk # None => disk = st[s]
    BY DecideFacts
  <1>2. disk = st[s] \/ (disk = None /\ st[s] = NewExecutionState(plan[s].identity))
    BY DEF IInv, SessionInv
  <1>3. plan[s].identity \in Plan /\ st[s].status \in EXECUTION_STATUSES
    BY <1>1 DEF MissionPlan, ExecutionState
  <1>4. ASSUME st[s].plan_identity = plan[s].identity,
               st[s].status \notin NON_RESUMABLE, st[s].status # "executing"
        PROVE  HasCurrent(plan[s].identity, st[s])
    <2>1. st[s].status \in {"in_progress", "waiting_for_approval"}
      BY <1>3, <1>4 DEF EXECUTION_STATUSES
    <2>2. CASE st[s].status = "waiting_for_approval"
      BY <1>1, <1>4, <2>2 DEF Sound, StructurallySound, StatusConsistent, PendingIsCurrent
    <2>3. CASE st[s].status = "in_progress" /\ disk = st[s]
      BY <1>1, <1>4, <2>3, TypeFacts DEF CursorInv
    <2>4. CASE st[s] = NewExecutionState(plan[s].identity)
      <3>1. Assignments[plan[s].identity] \in Seq(Assignment)
            /\ Assignments[plan[s].identity] # << >>
        BY <1>3, AssignmentsType, PlansValidated
      <3>2. 0 < Total(plan[s].identity)
        BY <3>1 DEF Total
      <3> QED
        BY <2>4, <3>2 DEF NewExecutionState, HasCurrent
    <2> QED
      BY <1>2, <2>1, <2>2, <2>3, <2>4
  <1>5. st[s].plan_identity = plan[s].identity => StructurallySound(plan[s].identity, st[s])
    BY <1>1 DEF Sound
  <1> QED
    BY <1>4, <1>5 DEF Reason, RecoveryReason, Causes

\* Every step leaves the state file and the run counters alone, invokes a provider, or is
\* one of the writes.
LEMMA DiskSteps ==
    ASSUME IInv, CursorInv, [Next]_vars
    PROVE  \/ UNCHANGED <<disk, runs>>
           \/ \E s \in Session : Invoke(s)
           \/ \E s \in Session : Writes(s) /\ UNCHANGED runs
  <1> USE DEF files, history
  <1>1. CASE UNCHANGED vars \/ RemoveStaleLock
    BY <1>1 DEF vars, RemoveStaleLock
  <1>2. ASSUME NEW s \in Session, HumanStep(s) \/ Fault(s)
        PROVE  UNCHANGED <<disk, runs>>
    BY <1>2 DEF HumanStep, Fault, ResumeMission, RunConversation, DecidePlan, PasteApproval,
                MistypeApproval, Pause, Interrupt, Crash
  <1>3. ASSUME NEW s \in Session, CodeStep(s)
        PROVE  UNCHANGED <<disk, runs>> \/ Invoke(s) \/ (Writes(s) /\ UNCHANGED runs)
    <2>1. CASE \/ AcquireLock(s) \/ LockNotAcquired(s) \/ LoadPlan(s) \/ LoadState(s)
               \/ NonResumable(s) \/ PlanNotApproved(s) \/ KeepWaiting(s) \/ NotReady(s)
      BY <2>1 DEF AcquireLock, LockNotAcquired, LoadPlan, LoadState, NonResumable,
                  PlanNotApproved, KeepWaiting, NotReady
    <2>2. CASE \/ \E status \in {"completed", "blocked", "failed"} : AssignmentEnds(s, status)
               \/ PersistEvidence(s) \/ ReleaseLock(s) \/ StopSession(s) \/ NextAttempt(s)
               \/ AskPlanApproval(s) \/ AskAssignmentApproval(s) \/ TruncatePlan(s)
               \/ WritePlan(s)
      BY <2>2 DEF AssignmentEnds, PersistEvidence, ReleaseLock, StopSession, NextAttempt,
                  AskPlanApproval, AskAssignmentApproval, TruncatePlan, WritePlan
    <2>3. CASE Recover(s)
      BY <2>3, GivesUpForCause DEF Recover, SavesAndReturns, Writes
    <2>4. CASE EvidenceUnreadable(s)
      BY <2>4 DEF EvidenceUnreadable, Resumable, SavesAndReturns, Writes, Causes
    <2>5. CASE BlockMutation(s)
      <3>1. /\ "mutation_runtime_not_supported" \in Diagnostic
            /\ "mutation_runtime_not_supported" # None
            /\ "mutation_runtime_not_supported" \in OrNone(Diagnostic)
            /\ {} \in SUBSET AssignmentApproval
        BY DiagnosticFacts, TypeFacts
      <3> QED
        BY <2>5, <3>1 DEF BlockMutation, TransitionToBlocked, SavesAndReturns, Writes
    <2>6. CASE UnknownFamily(s)
      <3>1. "unknown_agent_family" \in Diagnostic /\ None \in OrNone(Diagnostic)
        BY DiagnosticFacts, TypeFacts
      <3>2. Resumable(s) /\ Consumed(ApprovalToConsume(s)) \in SUBSET AssignmentApproval
        BY <2>6, GateOpenFacts DEF UnknownFamily
      <3> QED
        BY <2>6, <3>1, <3>2 DEF UnknownFamily, TransitionToFailed, SavesAndReturns, Writes
    <2>7. CASE GitBaselineFails(s)
      <3>1. /\ "git_status_failed" \in Diagnostic /\ None \in OrNone(Diagnostic)
            /\ {} \in SUBSET AssignmentApproval
        BY DiagnosticFacts, TypeFacts
      <3>2. Resumable(s)
        BY <2>7 DEF GitBaselineFails, GateOpen
      <3> QED
        BY <2>7, <3>1, <3>2 DEF GitBaselineFails, TransitionToFailed, SavesAndReturns, Writes
    <2>8. CASE EnterWaiting(s)
      BY <2>8 DEF EnterWaiting, Writes
    <2>9. CASE BeginExecuting(s)
      BY <2>9 DEF BeginExecuting, Writes
    <2>10. CASE Finalise(s)
      BY <2>10 DEF Finalise, SavesAndReturns, Writes
    <2> QED
      BY <1>3, <2>1, <2>2, <2>3, <2>4, <2>5, <2>6, <2>7, <2>8, <2>9, <2>10 DEF CodeStep
  <1> QED
    BY <1>1, <1>2, <1>3 DEF Next

----------------------------------------------------------------------------
(* What a write keeps.                                                     *)

\* The bookkeeping of completed work is as it was.
SameWork(old, new) ==
    /\ new.next = old.next
    /\ new.completed_task_ids = old.completed_task_ids
    /\ new.evidence_ids_by_task = old.evidence_ids_by_task

\* _recover: status and diagnostic alone.
GivesUp(old, new) ==
    /\ SameWork(old, new)
    /\ new.consumed_approval_ids = old.consumed_approval_ids
    /\ new.status = "recovery_required"
    /\ new.diagnostic \in Causes

\* The current task is held up, started or given up.
AtTask(old, new) ==
    /\ SameWork(old, new)
    /\ \/ /\ old.status \in {"in_progress", "waiting_for_approval"}
          /\ new.status \in {"waiting_for_approval", "executing", "failed", "blocked"}
       \/ old.status = "executing" /\ new.status \in {"failed", "blocked"}

\* The current task is done.
Completes(old, new) ==
    /\ old.status = "executing"
    /\ new.next = old.next + 1
    /\ Elements(new.completed_task_ids) =
          Elements(old.completed_task_ids) \cup {CurrentTask(old.plan_identity, old).task_id}
    /\ new.status = IF old.next + 1 >= Total(old.plan_identity) THEN "completed"
                                                                ELSE "in_progress"

\* Every write starts from what is on disk, or from a fresh state when nothing is, and does
\* one of the three.
LEMMA WriteFacts ==
    ASSUME IInv, CursorInv, NEW s \in Session, Writes(s)
    PROVE  /\ st[s] \in ExecutionState /\ Sound(st[s])
           /\ disk = st[s] \/ (disk = None /\ \E p \in Plan : st[s] = NewExecutionState(p))
           /\ disk' \in ExecutionState
           /\ disk'.plan_identity = st[s].plan_identity
           /\ st[s].consumed_approval_ids \subseteq disk'.consumed_approval_ids
           /\ \/ GivesUp(st[s], disk')
              \/ AtTask(st[s], disk') /\ HasCurrent(st[s].plan_identity, st[s])
              \/ /\ Completes(st[s], disk') /\ HasCurrent(st[s].plan_identity, st[s])
                 /\ runs[CurrentTask(st[s].plan_identity, st[s]).task_id] = 1
  <1> DEFINE old == st[s]
             new == disk'
             Base == /\ old \in ExecutionState /\ Sound(old)
                     /\ old = disk \/ (disk = None /\ \E p \in Plan : old = NewExecutionState(p))
  <1>1. ASSUME pc[s] = "decide" PROVE Base
    <2>1. plan[s] \in MissionPlan /\ old \in ExecutionState /\ Sound(old)
      BY <1>1, DecideFacts
    <2>2. disk = old \/ (disk = None /\ old = NewExecutionState(plan[s].identity))
      BY <1>1 DEF IInv, SessionInv
    <2> QED
      BY <2>1, <2>2 DEF MissionPlan
  <1>2. ASSUME Resumable(s)
        PROVE  /\ Base
               /\ HasCurrent(old.plan_identity, old)
               /\ Current(s) = CurrentTask(old.plan_identity, old)
               /\ old.status \in {"in_progress", "waiting_for_approval"}
    BY <1>1, <1>2, ResumableFacts DEF Resumable
  <1>3. CASE pc[s] = "decide" /\ \E reason \in Causes : disk' = RecoveryResult(st[s], reason)
    <2>1. PICK reason \in Causes : new = RecoveryResult(old, reason)
      BY <1>3
    <2>2. reason \in Diagnostic
      BY DEF Causes, Diagnostic
    <2>3. new \in ExecutionState
      BY <1>1, <1>3, <2>1, <2>2, RecoverySound
    <2>4. /\ GivesUp(old, new)
          /\ new.plan_identity = old.plan_identity
      BY <1>1, <1>3, <2>1 DEF RecoveryResult, ExecutionState, GivesUp, SameWork
    <2> QED
      BY <1>1, <1>3, <2>3, <2>4 DEF GivesUp
  <1>4. ASSUME NEW status \in {"failed", "blocked"}, NEW reason \in Diagnostic,
               NEW consumed \in SUBSET AssignmentApproval, NEW pause \in OrNone(Diagnostic),
               status = "blocked" => pause # None,
               Base, HasCurrent(old.plan_identity, old),
               Current(s) = CurrentTask(old.plan_identity, old),
               old.status \in {"in_progress", "waiting_for_approval", "executing"},
               new = StoppedAt(old, Current(s), status, consumed, reason, pause)
        PROVE  /\ new \in ExecutionState /\ new.plan_identity = old.plan_identity
               /\ old.consumed_approval_ids \subseteq new.consumed_approval_ids
               /\ AtTask(old, new)
    <2>1. new \in ExecutionState
      BY <1>4, StoppedSound
    <2>2. /\ SameWork(old, new) /\ new.status = status
          /\ new.plan_identity = old.plan_identity
          /\ old.consumed_approval_ids \subseteq new.consumed_approval_ids
      BY <1>4 DEF StoppedAt, ExecutionState, SameWork
    <2> QED
      BY <1>4, <2>1, <2>2 DEF AtTask
  <1>5. CASE /\ Resumable(s)
             /\ \E status \in {"failed", "blocked"}, reason \in Diagnostic,
                   consumed \in SUBSET AssignmentApproval, pause \in OrNone(Diagnostic) :
                   /\ status = "blocked" => pause # None
                   /\ disk' = StoppedAt(st[s], Current(s), status, consumed, reason, pause)
    BY <1>2, <1>4, <1>5
  <1>6. CASE EnterWaiting(s) /\ disk' = TransitionToWaiting(st[s], Current(s), nonces + 1)
    <2>1. Resumable(s) /\ Current(s).execution_gate = "separate_human_approval"
      BY <1>6 DEF EnterWaiting
    <2>2. nonces + 1 \in Nat
      BY DEF IInv, TypeOK
    <2>3. new \in ExecutionState
      BY <1>2, <1>6, <2>1, <2>2, WaitingSound
    <2>4. /\ SameWork(old, new) /\ new.status = "waiting_for_approval"
          /\ new.plan_identity = old.plan_identity
          /\ old.consumed_approval_ids \subseteq new.consumed_approval_ids
      BY <1>2, <1>6, <2>1 DEF TransitionToWaiting, ExecutionState, SameWork
    <2> QED
      BY <1>2, <2>1, <2>3, <2>4 DEF AtTask
  <1>7. CASE GateOpen(s) /\ disk' = TransitionToExecuting(st[s], Current(s), ApprovalToConsume(s))
    <2>1. Resumable(s)
      BY <1>7 DEF GateOpen
    <2>2. new \in ExecutionState
      <3>1. ApprovalToConsume(s) \in OrNone(AssignmentApproval)
        BY TypeFacts DEF IInv, TypeOK, ApprovalToConsume
      <3>2. Current(s).execution_gate = "separate_human_approval" =>
               /\ old.approval_nonce # None
               /\ ApprovalToConsume(s) # None
               /\ ApprovalToConsume(s) \notin old.consumed_approval_ids
        <4> SUFFICES ASSUME Current(s).execution_gate = "separate_human_approval"
                     PROVE  /\ old.approval_nonce # None
                            /\ ApprovalToConsume(s) # None
                            /\ ApprovalToConsume(s) \notin old.consumed_approval_ids
          OBVIOUS
        <4>1. /\ approval[s] \in AssignmentApproval
              /\ approval[s].nonce = st[s].approval_nonce
              /\ approval[s] \notin st[s].consumed_approval_ids
          BY <1>7, GateOpenFacts
        <4>2. approval[s].nonce \in Nat
          BY <4>1 DEF AssignmentApproval
        <4> QED
          BY <4>1, <4>2, TypeFacts DEF ApprovalToConsume
      <3> QED
        BY <1>2, <1>7, <2>1, <3>1, <3>2, ExecutingSound
    <2>3. /\ SameWork(old, new) /\ new.status = "executing"
          /\ new.plan_identity = old.plan_identity
          /\ old.consumed_approval_ids \subseteq new.consumed_approval_ids
      BY <1>2, <1>7, <2>1 DEF TransitionToExecuting, ExecutionState, SameWork
    <2> QED
      BY <1>2, <2>1, <2>2, <2>3 DEF AtTask
  <1>8. CASE pc[s] = "finalise" /\ disk' = FinalState(s)
    <2> DEFINE consumed == Consumed(ApprovalToConsume(s))
    <2>1. pc[s] \in InRun
      BY <1>8 DEF InRun
    <2>2. /\ RunInv(s) /\ Sound(old)
          /\ HasCurrent(old.plan_identity, old)
          /\ Current(s) = CurrentTask(old.plan_identity, old)
      BY <2>1, RunFacts
    <2>3. /\ old \in ExecutionState /\ disk = old /\ old.status = "executing"
          /\ old.plan_identity = plan[s].identity
          /\ record[s] \in EvidenceRecord
          /\ runs[CurrentTask(old.plan_identity, old).task_id] = 1
      BY <1>8, <2>2 DEF RunInv
    <2>4. consumed \in SUBSET AssignmentApproval
      BY DEF IInv, TypeOK, Consumed, ApprovalToConsume, OrNone
    <2>5. /\ record[s].id \in EvidenceId
          /\ record[s].status \in {"completed", "blocked", "failed"}
      BY <2>3 DEF EvidenceRecord
    <2>6. CASE record[s].status = "completed"
      <3>1. new = TransitionAfterCompleted(old, old.plan_identity,
                      CurrentTask(old.plan_identity, old), record[s].id, consumed)
        BY <1>8, <2>2, <2>3, <2>6 DEF FinalState
      <3> HIDE DEF consumed
      <3>2. /\ new \in ExecutionState
            /\ Elements(new.completed_task_ids) =
                  Elements(old.completed_task_ids)
                    \cup {CurrentTask(old.plan_identity, old).task_id}
        BY <2>2, <2>3, <2>4, <2>5, <3>1, CompletedSound
      <3>3. /\ new.next = old.next + 1
            /\ new.plan_identity = old.plan_identity
            /\ old.consumed_approval_ids \subseteq new.consumed_approval_ids
            /\ new.status = IF old.next + 1 >= Total(old.plan_identity) THEN "completed"
                                                                        ELSE "in_progress"
        BY <2>3, <3>1 DEF TransitionAfterCompleted, ExecutionState
      <3> QED
        BY <2>2, <2>3, <3>2, <3>3 DEF Completes
    <2>7. CASE record[s].status \in {"blocked", "failed"}
      <3>1. PICK status \in {"blocked", "failed"}, pause \in {"blocked", None} :
               /\ status = "blocked" => pause = "blocked"
               /\ new = StoppedAt(old, Current(s), status, consumed, status, pause)
        BY <1>8, <2>7 DEF FinalState, TransitionToFailed
      <3>2. /\ status \in Diagnostic /\ pause \in OrNone(Diagnostic)
            /\ status = "blocked" => pause # None
        BY <3>1, DiagnosticFacts, TypeFacts
      <3> HIDE DEF consumed
      <3>3. /\ new \in ExecutionState /\ new.plan_identity = old.plan_identity
            /\ old.consumed_approval_ids \subseteq new.consumed_approval_ids
            /\ AtTask(old, new)
        BY <1>4, <2>2, <2>3, <2>4, <3>1, <3>2
      <3> QED
        BY <2>2, <2>3, <3>3
    <2> QED
      BY <2>5, <2>6, <2>7
  <1> QED
    BY <1>3, <1>5, <1>6, <1>7, <1>8 DEF Writes

----------------------------------------------------------------------------
(* Progress.                                                               *)

\* What completed has run, once.
DoneInv ==
    disk # None => \A t \in Elements(disk.completed_task_ids) : runs[t] = 1

Back == {"release", "returned"}

\* A session that holds a "completed" attempt: the file says so too, or was given up later.
CompletionInv ==
    \A s \in Session :
        pc[s] \in Back /\ st[s] # None /\ st[s].status = "completed" =>
            /\ disk # None
            /\ disk.status \in {"completed", "recovery_required"}
            /\ disk.next = Total(disk.plan_identity)

\* The strengthening of IInv the results below are drawn from.
ProgressInv == IInv /\ CursorInv /\ RecoveryReasons /\ DoneInv /\ CompletionInv

\* A write takes back nothing.
LEMMA WriteProgresses ==
    ASSUME IInv, CursorInv, NEW s \in Session, Writes(s)
    PROVE  ProgressStep
  <1> SUFFICES ASSUME disk # None
               PROVE  /\ disk' # None
                      /\ disk'.plan_identity = disk.plan_identity
                      /\ disk'.next \in {disk.next, disk.next + 1}
                      /\ disk.consumed_approval_ids \subseteq disk'.consumed_approval_ids
                      /\ disk'.next = disk.next + 1 => disk.status = "executing"
                      /\ disk.status \in NON_RESUMABLE =>
                            /\ disk'.status \in {disk.status, "recovery_required"}
                            /\ disk'.completed_task_ids = disk.completed_task_ids
                            /\ disk'.consumed_approval_ids = disk.consumed_approval_ids
                            /\ disk'.evidence_ids_by_task = disk.evidence_ids_by_task
    BY DEF ProgressStep
  <1>1. /\ disk \in ExecutionState
        /\ disk' \in ExecutionState
        /\ disk'.plan_identity = disk.plan_identity
        /\ disk.consumed_approval_ids \subseteq disk'.consumed_approval_ids
        /\ GivesUp(disk, disk') \/ AtTask(disk, disk') \/ Completes(disk, disk')
    BY WriteFacts
  <1>2. disk.next \in Nat /\ disk' # None
    BY <1>1, TypeFacts DEF ExecutionState
  <1>3. CASE GivesUp(disk, disk')
    BY <1>1, <1>2, <1>3 DEF GivesUp, SameWork
  <1>4. CASE AtTask(disk, disk')
    BY <1>1, <1>2, <1>4 DEF AtTask, SameWork, NON_RESUMABLE
  <1>5. CASE Completes(disk, disk')
    BY <1>1, <1>2, <1>5 DEF Completes, NON_RESUMABLE
  <1> QED
    BY <1>1, <1>3, <1>4, <1>5

\* No step takes back anything.
LEMMA StepProgresses ==
    ASSUME IInv, CursorInv, [Next]_vars
    PROVE  ProgressStep
  <1>1. CASE UNCHANGED disk
    <2>1. disk # None => disk \in ExecutionState
      BY DEF IInv, TypeOK, OrNone
    <2>2. disk # None => disk.next \in Nat
      BY <2>1 DEF ExecutionState
    <2> QED
      BY <1>1, <2>2 DEF ProgressStep
  <1>2. CASE \E s \in Session : Writes(s)
    BY <1>2, WriteProgresses
  <1>3. CASE \E s \in Session : Invoke(s)
    BY <1>1, <1>3 DEF Invoke, files
  <1> QED
    BY <1>1, <1>2, <1>3, DiskSteps

\* A write keeps the cursor on a task, and gives up only for a cause.
LEMMA WriteKeepsCursor ==
    ASSUME IInv, CursorInv, NEW s \in Session, Writes(s)
    PROVE  CursorInv' /\ RecoveryReasons'
  <1>1. /\ st[s] \in ExecutionState /\ disk' \in ExecutionState
        /\ disk'.plan_identity = st[s].plan_identity
        /\ \/ GivesUp(st[s], disk') \/ AtTask(st[s], disk')
           \/ Completes(st[s], disk')
    BY WriteFacts
  <1>2. /\ st[s].next \in Nat /\ st[s].plan_identity \in Plan
        /\ Total(st[s].plan_identity) \in Nat
    BY <1>1, AssignmentsType DEF ExecutionState, Total
  <1>3. CASE GivesUp(st[s], disk')
    BY <1>3 DEF GivesUp, CursorInv, RecoveryReasons, Causes
  <1>4. CASE AtTask(st[s], disk')
    BY <1>4 DEF AtTask, CursorInv, RecoveryReasons
  <1>5. CASE Completes(st[s], disk')
    BY <1>1, <1>2, <1>5 DEF Completes, CursorInv, RecoveryReasons, HasCurrent
  <1> QED
    BY <1>1, <1>3, <1>4, <1>5

\* A write calls completed only what has run.
LEMMA WriteKeepsDone ==
    ASSUME IInv, CursorInv, DoneInv, NEW s \in Session, Writes(s), UNCHANGED runs
    PROVE  DoneInv'
  <1>1. \A t \in Elements(st[s].completed_task_ids) : runs[t] = 1
    <2>1. CASE disk = st[s] /\ st[s] \in ExecutionState
      BY <2>1, TypeFacts DEF DoneInv
    <2>2. CASE \E p \in Plan : st[s] = NewExecutionState(p)
      BY <2>2 DEF NewExecutionState, Elements
    <2> QED
      BY <2>1, <2>2, WriteFacts
  <1>2. CASE GivesUp(st[s], disk') \/ AtTask(st[s], disk')
    BY <1>1, <1>2 DEF GivesUp, AtTask, SameWork, DoneInv
  <1>3. CASE /\ Completes(st[s], disk')
             /\ runs[CurrentTask(st[s].plan_identity, st[s]).task_id] = 1
    BY <1>1, <1>3 DEF Completes, DoneInv
  <1> QED
    BY <1>2, <1>3, WriteFacts

\* An invocation is the current task's first.
LEMMA InvokeFacts ==
    ASSUME IInv, NEW s \in Session, Invoke(s)
    PROVE  /\ disk \in ExecutionState /\ disk.status = "executing" /\ UNCHANGED disk
           /\ HasCurrent(disk.plan_identity, disk)
           /\ LET t == CurrentTask(disk.plan_identity, disk).task_id
              IN  t \in Task /\ runs[t] = 0 /\ runs' = [runs EXCEPT ![t] = 1]
  <1>1. pc[s] = "invoke" /\ pc[s] \in InRun
    BY DEF Invoke, InRun
  <1>2. /\ RunInv(s)
        /\ HasCurrent(st[s].plan_identity, st[s])
        /\ Current(s) = CurrentTask(st[s].plan_identity, st[s])
        /\ Current(s).task_id \in Task
    BY <1>1, RunFacts
  <1>3. /\ disk = st[s] /\ st[s] \in ExecutionState /\ st[s].status = "executing"
        /\ runs[Current(s).task_id] = 0
    BY <1>1, <1>2 DEF RunInv
  <1>4. runs' = [runs EXCEPT ![Current(s).task_id] = 1]
    BY <1>3 DEF Invoke
  <1> QED
    BY <1>2, <1>3, <1>4 DEF Invoke, files

\* The cursor, the causes and the completed work under any step.
LEMMA StepKeepsWork ==
    ASSUME IInv, CursorInv, RecoveryReasons, DoneInv, [Next]_vars
    PROVE  CursorInv' /\ RecoveryReasons' /\ DoneInv'
  <1>1. CASE UNCHANGED <<disk, runs>>
    BY <1>1 DEF CursorInv, RecoveryReasons, DoneInv
  <1>2. CASE \E s \in Session : Invoke(s)
    <2>1. PICK t \in Task : runs[t] = 0 /\ runs' = [runs EXCEPT ![t] = 1] /\ UNCHANGED disk
      BY <1>2, InvokeFacts
    <2>2. runs \in [Task -> Nat]
      BY DEF IInv, TypeOK
    <2>3. disk # None => disk \in ExecutionState
      BY DEF IInv, TypeOK, OrNone
    <2>4. disk # None => Elements(disk.completed_task_ids) \subseteq Task
      BY <2>3 DEF ExecutionState, Elements
    <2>5. DoneInv'
      BY <2>1, <2>2, <2>4 DEF DoneInv
    <2> QED
      BY <2>1, <2>5 DEF CursorInv, RecoveryReasons
  <1>3. CASE \E s \in Session : Writes(s) /\ UNCHANGED runs
    BY <1>3, WriteKeepsCursor, WriteKeepsDone
  <1> QED
    BY <1>1, <1>2, <1>3, DiskSteps

\* A completed state in the hands of the body is the one on disk.
LEMMA CompletedIsLoaded ==
    ASSUME IInv, NEW s \in Session, pc[s] \in {"decide"} \cup InRun,
           st[s].status = "completed"
    PROVE  st[s] = disk
  <1>1. CASE pc[s] = "decide"
    <2>1. disk = st[s] \/ st[s] = NewExecutionState(plan[s].identity)
      BY <1>1 DEF IInv, SessionInv
    <2> QED
      BY <2>1 DEF NewExecutionState
  <1>2. CASE pc[s] \in InRun
    BY <1>2 DEF IInv, SessionInv, RunInv
  <1> QED
    BY <1>1, <1>2

\* A completed attempt comes from the file, not from a save that failed.
LEMMA CompletedIsReturned ==
    ASSUME IInv, [Next]_vars, NEW s \in Session,
           pc'[s] \in Back, st'[s] # None, st'[s].status = "completed"
    PROVE  (pc[s] \in Back /\ st'[s] = st[s]) \/ st'[s] = disk'
  <1> USE DEF files, history
  <1>0. pc \in [Session -> Labels] /\ st \in [Session -> OrNone(ExecutionState)]
    BY DEF IInv, TypeOK
  <1> DEFINE Local(r) == \A q \in Session \ {r} : pc'[q] = pc[q] /\ st'[q] = st[q]
  <1>1. CASE UNCHANGED vars \/ RemoveStaleLock
    BY <1>1 DEF vars, RemoveStaleLock, local
  <1>2. ASSUME NEW r \in Session, HumanStep(r) \/ Fault(r)
        PROVE  Local(r) /\ pc'[r] \notin Back
    BY <1>0, <1>2 DEF HumanStep, Fault, ResumeMission, RunConversation, DecidePlan, PasteApproval,
                MistypeApproval, Pause, Interrupt, Crash, Ends, Goto, Back
  <1>3. ASSUME NEW r \in Session, NEW x, NEW d, Returns(r, x, d)
        PROVE  Local(r) /\ st'[r] = x
    BY <1>0, <1>3 DEF Returns, Goto
  <1>4. ASSUME NEW r \in Session, CodeStep(r)
        PROVE  /\ Local(r)
               /\ r = s => (pc[s] \in Back /\ st'[s] = st[s]) \/ st'[s] = disk'
    <2>1. ASSUME NEW d, Returns(r, st[r], d), pc[r] \in {"decide"} \cup InRun, UNCHANGED disk
          PROVE  Local(r) /\ (r = s => st'[s] = disk')
      BY <1>3, <2>1, CompletedIsLoaded
    <2>2. ASSUME NEW x, NEW d, NEW failure, SavesAndReturns(r, x, d, failure),
                 pc[r] \in {"decide"} \cup InRun
          PROVE  Local(r) /\ (r = s => st'[s] = disk')
      BY <1>3, <2>1, <2>2 DEF SavesAndReturns
    <2>3. CASE \/ AcquireLock(r) \/ LockNotAcquired(r)
               \/ Invoke(r) \/ \E status \in {"completed", "blocked", "failed"} : AssignmentEnds(r, status)
               \/ StopSession(r) \/ NextAttempt(r) \/ AskPlanApproval(r)
               \/ AskAssignmentApproval(r) \/ TruncatePlan(r) \/ WritePlan(r)
      <3>1. Local(r)
        BY <1>0, <2>3 DEF AcquireLock, LockNotAcquired, Invoke, AssignmentEnds, StopSession,
                          NextAttempt, AskPlanApproval, AskAssignmentApproval, TruncatePlan,
                          WritePlan, Ends, Goto
      <3>2. pc'[r] \notin Back
        BY <1>0, <2>3 DEF AcquireLock, LockNotAcquired, Invoke, AssignmentEnds, StopSession,
                          NextAttempt, AskPlanApproval, AskAssignmentApproval, TruncatePlan,
                          WritePlan, Ends, Goto, Back
      <3> QED
        BY <3>1, <3>2
    <2>4. CASE LoadPlan(r)
      <3>1. CASE Returns(r, None, "plan_load_error")
        BY <1>3, <3>1
      <3>2. CASE Goto(r, "planned") /\ UNCHANGED st
        BY <1>0, <3>2 DEF Goto, Back
      <3> QED
        BY <2>4, <3>1, <3>2 DEF LoadPlan
    <2>5. CASE LoadState(r)
      <3>1. CASE Returns(r, None, "state_load_error")
        BY <1>3, <3>1
      <3>2. CASE /\ Goto(r, "decide")
                 /\ st' = [st EXCEPT ![r] =
                       IF disk = None THEN NewExecutionState(plan[r].identity) ELSE disk]
        BY <1>0, <3>2 DEF Goto, Back
      <3> QED
        BY <2>5, <3>1, <3>2 DEF LoadState
    <2>6. CASE \/ Recover(r) \/ EvidenceUnreadable(r) \/ BlockMutation(r) \/ UnknownFamily(r)
               \/ GitBaselineFails(r) \/ Finalise(r)
      <3>1. pc[r] \in {"decide"} \cup InRun
        BY <2>6 DEF Recover, EvidenceUnreadable, BlockMutation, UnknownFamily, GitBaselineFails,
                    Finalise, GateOpen, Resumable, InRun
      <3>2. \E x, d, failure : SavesAndReturns(r, x, d, failure)
        BY <2>6 DEF Recover, EvidenceUnreadable, BlockMutation, UnknownFamily, GitBaselineFails,
                    Finalise
      <3> QED
        BY <2>2, <3>1, <3>2
    <2>7. CASE NonResumable(r) \/ PlanNotApproved(r) \/ KeepWaiting(r) \/ NotReady(r)
      <3>1. pc[r] \in {"decide"} \cup InRun
        BY <2>7 DEF NonResumable, PlanNotApproved, KeepWaiting, NotReady, GateOpen, Resumable
      <3>2. (\E d : Returns(r, st[r], d)) /\ UNCHANGED disk
        BY <2>7 DEF NonResumable, PlanNotApproved, KeepWaiting, NotReady
      <3> QED
        BY <2>1, <3>1, <3>2
    <2>8. CASE EnterWaiting(r)
      <3>1. pc[r] \in {"decide"} \cup InRun
        BY <2>8 DEF EnterWaiting, Resumable
      <3>2. \/ \E d : Returns(r, disk', d)
            \/ (\E d : Returns(r, st[r], d)) /\ UNCHANGED disk
        BY <2>8 DEF EnterWaiting
      <3> QED
        BY <1>3, <2>1, <3>1, <3>2
    <2>9. CASE BeginExecuting(r)
      <3>1. pc[r] \in {"decide"} \cup InRun
        BY <2>9 DEF BeginExecuting, GateOpen, Resumable
      <3>2. CASE (\E d : Returns(r, st[r], d)) /\ UNCHANGED disk
        BY <2>1, <3>1, <3>2
      <3>3. CASE st' = [st EXCEPT ![r] = disk'] /\ Goto(r, "invoke")
        BY <1>0, <3>3 DEF Goto
      <3> QED
        BY <2>9, <3>2, <3>3 DEF BeginExecuting
    <2>10. CASE PersistEvidence(r)
      <3>1. pc[r] \in {"decide"} \cup InRun
        BY <2>10 DEF PersistEvidence, InRun
      <3>2. CASE (\E d : Returns(r, st[r], d)) /\ UNCHANGED disk
        BY <2>1, <3>1, <3>2
      <3>3. CASE UNCHANGED st /\ Goto(r, "finalise")
        BY <1>0, <3>3 DEF Goto, Back
      <3> QED
        BY <2>10, <3>2, <3>3 DEF PersistEvidence
    <2>11. CASE ReleaseLock(r)
      BY <1>0, <2>11 DEF ReleaseLock, Goto, Back
    <2> QED
      BY <1>4, <2>3, <2>4, <2>5, <2>6, <2>7, <2>8, <2>9, <2>10, <2>11 DEF CodeStep
  <1> QED
    BY <1>1, <1>2, <1>4 DEF Next

\* Whoever holds a completed attempt, the file still says that everything is done.
LEMMA StepKeepsCompletion ==
    ASSUME IInv, IInv', CursorInv, CompletionInv, [Next]_vars
    PROVE  CompletionInv'
  <1> SUFFICES ASSUME NEW s \in Session,
                      pc'[s] \in Back, st'[s] # None, st'[s].status = "completed"
               PROVE  /\ disk' # None
                      /\ disk'.status \in {"completed", "recovery_required"}
                      /\ disk'.next = Total(disk'.plan_identity)
    BY DEF CompletionInv, Back
  <1>1. CASE st'[s] = disk'
    BY <1>1 DEF IInv, DiskInv, Sound, StructurallySound, StatusConsistent
  <1>2. CASE pc[s] \in Back /\ st'[s] = st[s]
    <2>1. /\ disk # None
          /\ disk.status \in {"completed", "recovery_required"}
          /\ disk.next = Total(disk.plan_identity)
      BY <1>2 DEF CompletionInv
    <2> QED
      BY <2>1, StepProgresses DEF ProgressStep, NON_RESUMABLE
  <1> QED
    BY <1>1, <1>2, CompletedIsReturned

\* ProgressInv is inductive.
THEOREM ProgressInvariance == Spec => []ProgressInv
  <1>1. Init => ProgressInv
    <2> SUFFICES ASSUME Init PROVE ProgressInv
      OBVIOUS
    <2>1. disk = None /\ pc = [s \in Session |-> "idle"]
      BY DEF Init
    <2>2. CompletionInv
      BY <2>1 DEF CompletionInv, Back
    <2> QED
      BY <2>1, <2>2, InitInv DEF ProgressInv, CursorInv, RecoveryReasons, DoneInv
  <1>2. ProgressInv /\ [Next]_vars => ProgressInv'
    BY NextKeepsInv, StepKeepsWork, StepKeepsCompletion DEF ProgressInv
  <1> QED
    BY <1>1, <1>2, PTL DEF Spec

\* A mission is given up because the plan changed under it, a run was cut short or evidence
\* is gone, never for an inconsistent state or an exhausted cursor (_recover).
THEOREM GivenUpForCause == Spec => []RecoveryReasons
  <1>1. ProgressInv => RecoveryReasons
    BY DEF ProgressInv
  <1> QED
    BY <1>1, ProgressInvariance, PTL

\* No save of execution_state.json, by whichever session and after whatever failure, takes
\* back what an earlier one recorded (_save_execution_state).
THEOREM Monotone == Spec => ProgressIsMonotone
  <1>1. ProgressInv /\ [Next]_vars => [ProgressStep]_disk
    BY StepProgresses DEF ProgressInv
  <1> QED
    BY <1>1, ProgressInvariance, PTL DEF Spec, ProgressIsMonotone

\* The terminal loop reports "completed" only when completion is on disk and every task of
\* the plan ran (_run_resumable_execution on attempt.state).
THEOREM SuccessDurable == Spec => []SuccessIsDurable
  <1>1. ProgressInv => SuccessIsDurable
    <2> SUFFICES ASSUME ProgressInv, NEW s \in Session,
                        pc[s] = "returned", st[s] # None, st[s].status = "completed"
                 PROVE  /\ disk # None
                        /\ disk.status \in {"completed", "recovery_required"}
                        /\ \A t \in TaskIds(disk.plan_identity) : runs[t] = 1
      BY DEF SuccessIsDurable
    <2>1. /\ disk # None
          /\ disk.status \in {"completed", "recovery_required"}
          /\ disk.next = Total(disk.plan_identity)
      BY DEF ProgressInv, CompletionInv, Back
    <2>2. VerifyPrefix(disk.plan_identity, disk)
      BY <2>1 DEF ProgressInv, IInv, DiskInv, Sound, StructurallySound
    <2>3. TaskIds(disk.plan_identity) \subseteq Elements(disk.completed_task_ids)
      BY <2>1, <2>2 DEF VerifyPrefix, TaskIds, Elements
    <2> QED
      BY <2>1, <2>3 DEF ProgressInv, DoneInv
  <1> QED
    BY <1>1, ProgressInvariance, PTL

----------------------------------------------------------------------------
(* Refinement: the writes are the contract's steps.                        *)

Bound(state) == IF state = None THEN None ELSE state.plan_identity
DoneCount(state) == IF state = None THEN 0 ELSE state.next

\* A write is one of the contract's steps on the plan it is for.
LEMMA WriteRefines ==
    ASSUME IInv, CursorInv, NEW s \in Session, Writes(s), UNCHANGED runs
    PROVE  Contract!ContractNext
  <1> DEFINE old == st[s]
             new == disk'
             p == old.plan_identity
  <1>1. /\ old \in ExecutionState /\ new \in ExecutionState
        /\ new.plan_identity = p
        /\ disk = old \/ (disk = None /\ old.status = "in_progress" /\ old.next = 0)
    <2>1. \A q : NewExecutionState(q).status = "in_progress" /\ NewExecutionState(q).next = 0
      BY DEF NewExecutionState
    <2> QED
      BY <2>1, WriteFacts
  <1>2. p \in Plan /\ old.next \in Nat /\ Total(p) \in Nat
    BY <1>1, AssignmentsType DEF ExecutionState, Total
  <1>3. new # None /\ old # None
    BY <1>1, TypeFacts
  <1>4. /\ Bound(disk) \in {None, p} /\ Bound(new) = p
        /\ DoneCount(disk) = old.next /\ DoneCount(new) = new.next
        /\ PhaseOf(disk) = PhaseOf(old)
    BY <1>1, <1>3 DEF Bound, DoneCount, PhaseOf
  <1>5. ASSUME new.next = old.next, PhaseOf(new) = "stopped" PROVE Contract!Stop(p)
    BY <1>4, <1>5 DEF Contract!Stop, Contract!BindTo, Bound, DoneCount
  <1>6. CASE GivesUp(old, new)
    BY <1>2, <1>3, <1>5, <1>6 DEF GivesUp, SameWork, PhaseOf, Contract!ContractNext
  <1>7. CASE AtTask(old, new) /\ HasCurrent(p, old)
    <2>1. new.next = old.next
      BY <1>7 DEF AtTask, SameWork
    <2>2. CASE new.status \in {"failed", "blocked"}
      BY <1>2, <1>3, <1>5, <2>1, <2>2 DEF PhaseOf, Contract!ContractNext
    <2>3. CASE new.status = "waiting_for_approval"
      <3>1. PhaseOf(old) = "ready" /\ PhaseOf(new) = "ready"
        BY <1>3, <1>7, <2>3 DEF AtTask, PhaseOf
      <3>2. Contract!Wait(p)
        BY <1>4, <2>1, <3>1 DEF Contract!Wait, Contract!BindTo, Bound, DoneCount
      <3> QED
        BY <1>2, <3>2 DEF Contract!ContractNext
    <2>4. CASE new.status = "executing"
      <3>1. PhaseOf(old) = "ready" /\ PhaseOf(new) = "started"
        BY <1>3, <1>7, <2>4 DEF AtTask, PhaseOf
      <3>2. old.next < Len(Assignments[p])
        BY <1>7 DEF HasCurrent, Total
      <3>3. Contract!Start(p)
        BY <1>4, <2>1, <3>1, <3>2 DEF Contract!Start, Contract!BindTo, Bound, DoneCount
      <3> QED
        BY <1>2, <3>3 DEF Contract!ContractNext
    <2> QED
      BY <1>7, <2>2, <2>3, <2>4 DEF AtTask
  <1>8. CASE /\ Completes(old, new) /\ HasCurrent(p, old)
             /\ runs[CurrentTask(p, old).task_id] = 1
    <2>1. disk = old
      BY <1>1, <1>8 DEF Completes
    <2>2. PhaseOf(old) = "started" /\ Bound(disk) = p
      BY <1>3, <1>8, <2>1 DEF Completes, PhaseOf, Bound
    <2>3. Contract!NextTask = CurrentTask(p, old).task_id
      BY <1>4, <2>2 DEF Contract!NextTask, CurrentTask, Bound, DoneCount
    <2>4. new.next = old.next + 1 /\ old.next < Len(Assignments[p])
      BY <1>8 DEF Completes, HasCurrent, Total
    <2>5. new.status = IF new.next = Len(Assignments[p]) THEN "completed" ELSE "in_progress"
      BY <1>2, <1>8, <2>4 DEF Completes, Total
    <2>6. PhaseOf(new) = IF new.next = Len(Assignments[p]) THEN "complete" ELSE "ready"
      BY <1>3, <2>5 DEF PhaseOf
    <2>7. Contract!Complete
      BY <1>4, <1>8, <2>2, <2>3, <2>4, <2>6 DEF Contract!Complete, Bound, DoneCount
    <2> QED
      BY <2>7 DEF Contract!ContractNext
  <1> QED
    BY <1>6, <1>7, <1>8, WriteFacts

\* The invocation of a provider is the contract's, of a task that never ran before.
LEMMA InvokeRefines ==
    ASSUME IInv, NEW s \in Session, Invoke(s)
    PROVE  Contract!ContractNext
  <1>1. /\ disk \in ExecutionState /\ disk.status = "executing" /\ UNCHANGED disk
        /\ LET t == CurrentTask(disk.plan_identity, disk).task_id
           IN  t \in Task /\ runs[t] = 0 /\ runs' = [runs EXCEPT ![t] = 1]
    BY InvokeFacts
  <1>2. disk # None
    BY <1>1, TypeFacts
  <1>3. PhaseOf(disk) = "started"
    BY <1>1, <1>2 DEF PhaseOf
  <1>4. Contract!NextTask = CurrentTask(disk.plan_identity, disk).task_id
    BY <1>2 DEF Contract!NextTask, CurrentTask
  <1>5. Contract!InvokeTask
    BY <1>1, <1>2, <1>3, <1>4 DEF Contract!InvokeTask
  <1> QED
    BY <1>5 DEF Contract!ContractNext

\* The runtime implements MissionContract, whatever faults and interleavings occur: tasks of
\* one plan, in order, each invoked at most once after its start was recorded.
THEOREM Refinement == Spec => ImplementsContract
  <1>1. Init => Contract!ContractInit
    BY DEF Init, Contract!ContractInit, PhaseOf
  <1>2. ProgressInv /\ [Next]_vars => [Contract!ContractNext]_(Contract!cvars)
    <2> SUFFICES ASSUME ProgressInv, [Next]_vars
                 PROVE  [Contract!ContractNext]_(Contract!cvars)
      OBVIOUS
    <2>1. CASE UNCHANGED <<disk, runs>>
      BY <2>1 DEF Contract!cvars, PhaseOf
    <2>2. CASE \E s \in Session : Invoke(s)
      BY <2>2, InvokeRefines DEF ProgressInv
    <2>3. CASE \E s \in Session : Writes(s) /\ UNCHANGED runs
      BY <2>3, WriteRefines DEF ProgressInv
    <2> QED
      BY <2>1, <2>2, <2>3, DiskSteps DEF ProgressInv
  <1> QED
    BY <1>1, <1>2, ProgressInvariance, PTL DEF Spec, ImplementsContract, Contract!ContractSpec

============================================================================
