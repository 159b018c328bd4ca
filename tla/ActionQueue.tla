----------------------------- MODULE ActionQueue -----------------------------
(***************************************************************************)
(* The action queue of one conversational mission: class ActionQueue with  *)
(* its queue lock, execution leases and write-once execution claims        *)
(* (tools/hokage_orchestrator/skill_runtime.py, publish_once of            *)
(* authority.py), and the terminal loop that drives it: approve_action,    *)
(* reject_action, the follow-ups they append and the review they propose   *)
(* (run_conversational_hokage.py, lifecycle.py).                           *)
(*                                                                         *)
(* Several processes (Session) may work on one mission directory.  The     *)
(* queue lock and the leases are flocks, which the operating system frees  *)
(* when their holder dies; the queue file is replaced atomically; claims   *)
(* and the review proposal are created first and filled afterwards.        *)
(***************************************************************************)
EXTENDS Integers, Sequences

CONSTANTS
    Session,  \* processes that run the conversation, or a recovery call, on the mission
    Action,   \* action identifiers
    Initial,  \* charter["proposed_skills"], the actions the queue starts with, in order
    Audit,    \* the invoke_local_model_audit action
    Patch,    \* its follow-up apply_validated_patch
    Tests,    \* the follow-up run_post_patch_tests
    Allowed,  \* follow-ups the charter's allowed_followup_skills and constraints permit
    Faults,   \* what may go wrong: "crash", "io", "authority"
    None      \* no session, no action

ASSUME ActionsKnown ==
    /\ Initial \in Seq(Action)
    /\ {Audit, Patch, Tests} \subseteq Action

\* real_proposed_skills never names a follow-up skill.
ASSUME FollowupsAreNew ==
    /\ Audit \notin {Patch, Tests} /\ Patch # Tests
    /\ \A i \in 1..Len(Initial) : Initial[i] \notin {Patch, Tests}

ASSUME NoneIsNobody == None \notin Session \cup Action

VARIABLES
    queueLock,  \* holder of the flock on action_queue.lock
    status,     \* status[a] in action_queue.json, "absent" when it is not listed
    claim,      \* action_claims/<a>.json: "none", "torn" (created, not written) or "valid"
    lease,      \* lease[a]: holder of the flock on action_leases/<a>.lock
    authority,  \* do charter, decision and receipt on disk still agree
    review,     \* conversation/review_proposal.json: "none", "torn" or "proposed"
    runs,       \* history: runs[a] counts the calls of dispatch(a)
    pc,         \* pc[s]: where session s is
    target      \* target[s]: the action s is working on

files == <<status, claim, review, authority>>
vars == <<queueLock, lease, files, runs, pc, target>>

Outcomes == {"completed", "failed"}
Terminal == Outcomes \cup {"rejected", "blocked"}
Statuses == Terminal \cup {"absent", "proposed", "running"}

\* Order of the "actions" list: the initial ones, then the follow-ups as they are appended.
Listing == Initial \o <<Patch, Tests>>

\* next_pending(): the first proposed action, read without the lock.
Pending == {i \in 1..Len(Listing) : status[Listing[i]] = "proposed"}

\* Mutant: answers the position instead of the action.
NextPendingByIndex ==
    IF Pending = {} THEN None ELSE CHOOSE i \in Pending : \A j \in Pending : i <= j

NextPending ==
    IF Pending = {} THEN None
    ELSE Listing[CHOOSE i \in Pending : \A j \in Pending : i <= j]

\* Where a call waits for the queue lock, and where it continues when it has it.
Waiting == {"init", "approve", "completed", "failed", "append", "reject", "recover"}
Inside == [w \in Waiting |->
    CASE w = "init"      -> "init_locked"
      [] w = "approve"   -> "approve_locked"
      [] w = "completed" -> "completed_locked"
      [] w = "failed"    -> "failed_locked"
      [] w = "append"    -> "append_locked"
      [] w = "reject"    -> "reject_locked"
      [] w = "recover"   -> "recover_locked"]
Locked == {"init_locked", "approve_locked", "claiming", "claimed", "predispatch",
           "completed_locked", "failed_locked", "append_locked", "reject_locked",
           "recover_locked"}
Leased == {"predispatch", "dispatch", "working",
           "completed", "failed", "completed_locked", "failed_locked"}
Points == Waiting \cup Locked \cup Leased
            \cup {"off", "loop", "prompt", "followup", "next", "review", "gate", "refused",
                  "truncate", "write"}

\* The charter has just been approved.  Sessions at "init" come from approve_charter: one,
\* several whose approvals raced, or none when the only one died after writing the receipt.
Init ==
    /\ queueLock = None
    /\ status = [a \in Action |-> "absent"]
    /\ claim = [a \in Action |-> "none"]
    /\ lease = [a \in Action |-> None]
    /\ authority = TRUE
    /\ review = "none"
    /\ runs = [a \in Action |-> 0]
    /\ pc \in [Session -> {"off", "init"}]
    /\ target = [s \in Session |-> None]

Go(s, where) == pc' = [pc EXCEPT ![s] = where]

SetStatus(a, new) == status' = [status EXCEPT ![a] = new]

Unlock(s) == queueLock' = IF queueLock = s THEN None ELSE queueLock

\* Leaving the call by return or exception: the with-block and the finally-clause
\* release the queue lock and the lease.
Leave(s, where) ==
    /\ Go(s, where)
    /\ Unlock(s)
    /\ lease' = [a \in Action |-> IF lease[a] = s THEN None ELSE lease[a]]
    /\ target' = [target EXCEPT ![s] = IF where \in {"off", "loop"} THEN None ELSE target[s]]

Io == "io" \in Faults  \* any read or write may raise OSError

-----------------------------------------------------------------------------
(* Starting a session and the prompt. *)

Open(s) ==
    /\ pc[s] = "off"
    /\ Go(s, "loop")
    /\ UNCHANGED <<queueLock, lease, files, runs, target>>

\* Top of interactive(): the next action and the lifecycle files are read.  A torn review
\* file raises JSONDecodeError out of the loop.
Prompt(s) ==
    /\ pc[s] = "loop"
    /\ IF review = "torn"
       THEN Go(s, "off") /\ UNCHANGED target
       ELSE Go(s, "prompt") /\ target' = [target EXCEPT ![s] = NextPending]
    /\ UNCHANGED <<queueLock, lease, files, runs>>

\* The human types the approval or the rejection phrase of the action that was shown.
TypePhrase(s) ==
    /\ pc[s] = "prompt"
    /\ target[s] # None
    /\ \E w \in {"approve", "reject"} : Go(s, w)
    /\ UNCHANGED <<queueLock, lease, files, runs, target>>

\* Anything else: a command, a wrong phrase, or /exit.
TypeOther(s) ==
    /\ pc[s] = "prompt"
    /\ \E w \in {"loop", "off"} : Go(s, w)
    /\ target' = [target EXCEPT ![s] = None]
    /\ UNCHANGED <<queueLock, lease, files, runs>>

\* A human calls block_interrupted_action_checked for some action.
StartRecovery(s) ==
    /\ pc[s] = "off"
    /\ Go(s, "recover")
    /\ \E a \in Action : target' = [target EXCEPT ![s] = a]
    /\ UNCHANGED <<queueLock, lease, files, runs>>

-----------------------------------------------------------------------------
(* The queue lock. *)

Lock(s) ==
    /\ pc[s] \in Waiting
    /\ queueLock = None
    /\ queueLock' = s
    /\ Go(s, Inside[pc[s]])
    /\ UNCHANGED <<lease, files, runs, target>>

\* Mutant: waits for the lock without a deadline.
WaitForEver(s) == FALSE

\* Ten seconds pass with the lock in other hands: action_queue_lock_timeout.  approve_action
\* and reject_action report it; from the other callers it ends the process.
LockTimeout(s) ==
    /\ pc[s] \in Waiting
    /\ queueLock # None
    /\ Leave(s, IF pc[s] \in {"init", "append", "recover"} THEN "off" ELSE "loop")
    /\ UNCHANGED <<files, runs>>

-----------------------------------------------------------------------------
(* initialize() *)

Listed == \E a \in Action : status[a] # "absent"

\* Mutant: an existing queue is written again.
Reinitialize(s) ==
    /\ pc[s] = "init_locked"
    /\ authority
    /\ status' = [a \in Action |->
          IF \E i \in 1..Len(Initial) : Initial[i] = a THEN "proposed" ELSE status[a]]
    /\ Leave(s, "loop")
    /\ UNCHANGED <<claim, review, authority, runs>>

\* An existing queue is only validated; a new one lists the charter's proposed skills.
InitializeQueue(s) ==
    /\ pc[s] = "init_locked"
    /\ authority
    /\ IF Listed
       THEN UNCHANGED status
       ELSE status' = [a \in Action |->
               IF \E i \in 1..Len(Initial) : Initial[i] = a THEN "proposed" ELSE status[a]]
    /\ Leave(s, "loop")
    /\ UNCHANGED <<claim, review, authority, runs>>

InitializeRaises(s) ==
    /\ pc[s] = "init_locked"
    /\ ~authority \/ Io
    /\ Leave(s, "off")
    /\ UNCHANGED <<files, runs>>

-----------------------------------------------------------------------------
(* approve_and_dispatch() *)

\* The action is proposed, authority holds, and O_EXCL creates the claim file.
CreateClaim(s) ==
    /\ pc[s] = "approve_locked"
    /\ authority
    /\ status[target[s]] = "proposed"
    /\ claim[target[s]] = "none"
    /\ claim' = [claim EXCEPT ![target[s]] = "torn"]
    /\ Go(s, "claiming")
    /\ UNCHANGED <<queueLock, lease, status, review, authority, runs, target>>

\* A claim that exists is never taken over, whatever its content.
ApproveRaises(s) ==
    /\ pc[s] = "approve_locked"
    /\ \/ ~authority
       \/ status[target[s]] # "proposed"
       \/ claim[target[s]] # "none"
       \/ Io
    /\ Leave(s, "loop")
    /\ UNCHANGED <<files, runs>>

WriteClaim(s) ==
    /\ pc[s] = "claiming"
    /\ claim' = [claim EXCEPT ![target[s]] = "valid"]
    /\ Go(s, "claimed")
    /\ UNCHANGED <<queueLock, lease, status, review, authority, runs, target>>

WriteClaimRaises(s) ==
    /\ pc[s] = "claiming"
    /\ Io
    /\ Leave(s, "loop")
    /\ UNCHANGED <<files, runs>>

\* The lease is taken and _transition_locked saves proposed -> running.
StartRunning(s) ==
    /\ pc[s] = "claimed"
    /\ lease[target[s]] = None
    /\ status[target[s]] = "proposed"
    /\ claim[target[s]] = "valid"
    /\ lease' = [lease EXCEPT ![target[s]] = s]
    /\ SetStatus(target[s], "running")
    /\ Go(s, "predispatch")
    /\ UNCHANGED <<queueLock, claim, review, authority, runs, target>>

StartRaises(s) ==
    /\ pc[s] = "claimed"
    /\ \/ lease[target[s]] # None
       \/ status[target[s]] # "proposed"
       \/ claim[target[s]] # "valid"
       \/ Io
    /\ Leave(s, "loop")
    /\ UNCHANGED <<files, runs>>

PreDispatch(s) ==
    /\ pc[s] = "predispatch"
    /\ authority
    /\ claim[target[s]] = "valid"
    /\ Unlock(s)
    /\ Go(s, "dispatch")
    /\ UNCHANGED <<lease, files, runs, target>>

\* Mutant: reports an action that was never dispatched as failed.
PreDispatchReportsFailure(s) ==
    /\ pc[s] = "predispatch"
    /\ ~authority \/ claim[target[s]] # "valid" \/ Io
    /\ SetStatus(target[s], "failed")
    /\ Leave(s, "loop")
    /\ UNCHANGED <<claim, review, authority, runs>>

\* _mark_blocked_locked checks status, claim and authority once more before it saves, so it
\* can fail as well; then the action stays "running".
PreDispatchFails(s) ==
    /\ pc[s] = "predispatch"
    /\ ~authority \/ claim[target[s]] # "valid" \/ Io
    /\ \/ /\ authority /\ claim[target[s]] = "valid" /\ status[target[s]] = "running"
          /\ SetStatus(target[s], "blocked")
       \/ /\ ~authority \/ claim[target[s]] # "valid" \/ Io
          /\ UNCHANGED status
    /\ Leave(s, "loop")
    /\ UNCHANGED <<claim, review, authority, runs>>

\* dispatch(action) starts, under the lease alone.
Dispatch(s) ==
    /\ pc[s] = "dispatch"
    /\ runs' = [runs EXCEPT ![target[s]] = @ + 1]
    /\ Go(s, "working")
    /\ UNCHANGED <<queueLock, lease, files, target>>

\* It returns a result or raises; the subprocess has a timeout.
DispatchEnds(s) ==
    /\ pc[s] = "working"
    /\ \E o \in Outcomes : Go(s, o)
    /\ UNCHANGED <<queueLock, lease, files, runs, target>>

OutcomeOf(point) == IF point = "completed_locked" THEN "completed" ELSE "failed"

\* Mutant: a failed action is proposed again and its claim removed.
FinishForRetry(s) ==
    /\ pc[s] \in {"completed_locked", "failed_locked"}
    /\ status[target[s]] = "running"
    /\ claim[target[s]] = "valid"
    /\ IF pc[s] = "completed_locked"
       THEN SetStatus(target[s], "completed") /\ UNCHANGED claim
       ELSE SetStatus(target[s], "proposed") /\ claim' = [claim EXCEPT ![target[s]] = "none"]
    /\ Leave(s, IF pc[s] = "completed_locked" THEN "followup" ELSE "loop")
    /\ UNCHANGED <<review, authority, runs>>

\* Mutant: a failed action gets its follow-ups too.
FinishWithFollowups(s) ==
    /\ pc[s] \in {"completed_locked", "failed_locked"}
    /\ status[target[s]] = "running"
    /\ claim[target[s]] = "valid"
    /\ SetStatus(target[s], OutcomeOf(pc[s]))
    /\ Leave(s, "followup")
    /\ UNCHANGED <<claim, review, authority, runs>>

\* _transition_locked saves running -> completed or failed; only the first has follow-ups.
FinishAction(s) ==
    /\ pc[s] \in {"completed_locked", "failed_locked"}
    /\ status[target[s]] = "running"
    /\ claim[target[s]] = "valid"
    /\ SetStatus(target[s], OutcomeOf(pc[s]))
    /\ Leave(s, IF pc[s] = "completed_locked" THEN "followup" ELSE "loop")
    /\ UNCHANGED <<claim, review, authority, runs>>

FinishRaises(s) ==
    /\ pc[s] \in {"completed_locked", "failed_locked"}
    /\ status[target[s]] # "running" \/ claim[target[s]] # "valid" \/ Io
    /\ Leave(s, "loop")
    /\ UNCHANGED <<files, runs>>

-----------------------------------------------------------------------------
(* Follow-ups: _append_followups_if_needed() and append_action_checked() *)

\* A completed audit is followed by its patch, or by the tests when it proposes none.
FollowupsOf(a) ==
    CASE a = Audit -> {Patch, Tests}
      [] a = Patch -> {Tests}
      [] OTHER -> {}

Followup(s) ==
    /\ pc[s] = "followup"
    /\ \/ /\ FollowupsOf(target[s]) = {}
          /\ Go(s, "next")
          /\ UNCHANGED target
       \/ \E f \in FollowupsOf(target[s]) :
             /\ target' = [target EXCEPT ![s] = f]
             /\ Go(s, "append")
    /\ UNCHANGED <<queueLock, lease, files, runs>>

\* An action that is listed already is returned as it is.
AppendAction(s) ==
    /\ pc[s] = "append_locked"
    /\ authority
    /\ target[s] \in Allowed
    /\ IF status[target[s]] = "absent"
       THEN SetStatus(target[s], "proposed")
       ELSE UNCHANGED status
    /\ Leave(s, "next")
    /\ UNCHANGED <<claim, review, authority, runs>>

\* Nothing catches the exception, or one of the audit flow before it: the process ends.
AppendRaises(s) ==
    /\ pc[s] = "append_locked"
    /\ ~authority \/ target[s] \notin Allowed \/ Io
    /\ Leave(s, "off")
    /\ UNCHANGED <<files, runs>>

-----------------------------------------------------------------------------
(* reject_action_checked() and block_interrupted_action_checked() *)

RejectAction(s) ==
    /\ pc[s] = "reject_locked"
    /\ authority
    /\ status[target[s]] = "proposed"
    /\ claim[target[s]] = "none"
    /\ SetStatus(target[s], "rejected")
    /\ Go(s, IF target[s] = Patch THEN "append" ELSE "next")
    /\ target' = [target EXCEPT ![s] = IF target[s] = Patch THEN Tests ELSE target[s]]
    /\ Unlock(s)
    /\ UNCHANGED <<lease, claim, review, authority, runs>>

\* An AuthorityBindingError is reported, an OSError of the save ends the process.
RejectRaises(s) ==
    /\ pc[s] = "reject_locked"
    /\ \/ /\ ~authority \/ status[target[s]] # "proposed" \/ claim[target[s]] # "none" \/ Io
          /\ Leave(s, "loop")
       \/ Io /\ Leave(s, "off")
    /\ UNCHANGED <<files, runs>>

\* Mutant: does not look at the lease.
BlockAnyway(s) ==
    /\ pc[s] = "recover_locked"
    /\ status[target[s]] \in {"proposed", "running"}
    /\ claim[target[s]] = "valid"
    /\ authority
    /\ SetStatus(target[s], "blocked")
    /\ Leave(s, "off")
    /\ UNCHANGED <<claim, review, authority, runs>>

\* The lease is taken, which shows that nobody dispatches the action, and given back.
BlockInterrupted(s) ==
    /\ pc[s] = "recover_locked"
    /\ status[target[s]] \in {"proposed", "running"}
    /\ claim[target[s]] = "valid"
    /\ authority
    /\ lease[target[s]] = None
    /\ SetStatus(target[s], "blocked")
    /\ Leave(s, "off")
    /\ UNCHANGED <<claim, review, authority, runs>>

BlockRaises(s) ==
    /\ pc[s] = "recover_locked"
    /\ \/ status[target[s]] \notin {"proposed", "running"}
       \/ claim[target[s]] # "valid"
       \/ ~authority
       \/ lease[target[s]] # None
       \/ Io
    /\ Leave(s, "off")
    /\ UNCHANGED <<files, runs>>

-----------------------------------------------------------------------------
(* After an action: next_action(), or _prepare_review() when nothing is pending *)

AfterAction(s) ==
    /\ pc[s] = "next"
    /\ IF NextPending = None
       THEN Go(s, "review") /\ UNCHANGED target
       ELSE Go(s, "loop") /\ target' = [target EXCEPT ![s] = None]
    /\ UNCHANGED <<queueLock, lease, files, runs>>

\* LifecycleStore.validate_actions
Reviewable ==
    /\ \A a \in Action : status[a] \notin {"failed", "proposed", "running"}
    /\ \E a \in Action : status[a] = "completed"

\* The queue is read once more, without the lock, and judged as it was then.
LoadForReview(s) ==
    /\ pc[s] = "review"
    /\ Go(s, IF Reviewable THEN "gate" ELSE "refused")
    /\ UNCHANGED <<queueLock, lease, files, runs, target>>

\* A review that exists is returned; ValueError and JSONDecodeError end the process.
ReviewGate(s) ==
    /\ pc[s] \in {"gate", "refused"}
    /\ \/ review = "proposed" /\ Leave(s, "loop")
       \/ review = "torn" /\ Leave(s, "off")
       \/ review = "none" /\ pc[s] = "refused" /\ Leave(s, "off")
       \/ review = "none" /\ pc[s] = "gate" /\ Io /\ Leave(s, "off")
       \/ review = "none" /\ pc[s] = "gate" /\ Leave(s, "truncate")
    /\ UNCHANGED <<files, runs>>

\* write_json is Path.write_text: truncate, then write.
TruncateReview(s) ==
    /\ pc[s] = "truncate"
    /\ review' = "torn"
    /\ Go(s, "write")
    /\ UNCHANGED <<queueLock, lease, status, claim, authority, runs, target>>

WriteReview(s) ==
    /\ pc[s] = "write"
    /\ review' = "proposed"
    /\ Leave(s, "loop")
    /\ UNCHANGED <<status, claim, authority, runs>>

WriteReviewRaises(s) ==
    /\ pc[s] = "write"
    /\ Io
    /\ Leave(s, "off")
    /\ UNCHANGED <<files, runs>>

-----------------------------------------------------------------------------
(* Faults *)

\* The process dies; the operating system frees its flocks.
Crash(s) ==
    /\ "crash" \in Faults
    /\ pc[s] # "off"
    /\ Leave(s, "off")
    /\ UNCHANGED <<files, runs>>

\* propose() for the same request writes a new decision and an unapproved charter over the
\* approved ones, and the receipt keeps them from ever being approved again.  A second
\* approval that raced the first one does the same.
ReplaceCharter ==
    /\ "authority" \in Faults
    /\ authority
    /\ authority' = FALSE
    /\ UNCHANGED <<queueLock, lease, status, claim, review, runs, pc, target>>

-----------------------------------------------------------------------------

\* The steps a process takes by itself once the human has spoken.
CodeStep(s) ==
    \/ Lock(s) \/ LockTimeout(s)
    \/ InitializeQueue(s) \/ InitializeRaises(s)
    \/ CreateClaim(s) \/ ApproveRaises(s) \/ WriteClaim(s) \/ WriteClaimRaises(s)
    \/ StartRunning(s) \/ StartRaises(s) \/ PreDispatch(s) \/ PreDispatchFails(s)
    \/ Dispatch(s) \/ DispatchEnds(s) \/ FinishAction(s) \/ FinishRaises(s)
    \/ Followup(s) \/ AppendAction(s) \/ AppendRaises(s)
    \/ RejectAction(s) \/ RejectRaises(s) \/ BlockInterrupted(s) \/ BlockRaises(s)
    \/ AfterAction(s) \/ LoadForReview(s) \/ ReviewGate(s)
    \/ TruncateReview(s) \/ WriteReview(s) \/ WriteReviewRaises(s)

HumanStep(s) ==
    Open(s) \/ Prompt(s) \/ TypePhrase(s) \/ TypeOther(s) \/ StartRecovery(s)

Next ==
    \/ \E s \in Session : CodeStep(s) \/ HumanStep(s) \/ Crash(s)
    \/ ReplaceCharter

Spec == Init /\ [][Next]_vars

\* A process that runs is scheduled, and its subprocesses have timeouts.
FairSpec == Spec /\ \A s \in Session : WF_vars(CodeStep(s))

\* Moreover the human keeps coming back to the terminal, without having to type any phrase.
ReturningSpec == FairSpec /\ \A s \in Session : SF_vars(Open(s)) /\ WF_vars(Prompt(s))

-----------------------------------------------------------------------------
(* Properties *)

\* Types of the queue's files and of the sessions' local state: a status, a claim and
\* a lease are values skill_runtime.py can have written.
TypeOK ==
    /\ queueLock \in Session \cup {None}
    /\ status \in [Action -> Statuses]
    /\ claim \in [Action -> {"none", "torn", "valid"}]
    /\ lease \in [Action -> Session \cup {None}]
    /\ authority \in BOOLEAN
    /\ review \in {"none", "torn", "proposed"}
    /\ runs \in [Action -> Nat]
    /\ pc \in [Session -> Points]
    /\ target \in [Session -> Action \cup {None}]

\* approve_and_dispatch never dispatches an action_id twice: not from two terminals, not
\* after a crash between claim and CAS, not after a failed save or a recovery.
DispatchedAtMostOnce == \A a \in Action : runs[a] <= 1

\* The queue file does not lie about effects: what it lists as proposed or rejected was never
\* dispatched, what it lists as completed or failed was.
LedgerIsTruthful ==
    \A a \in Action :
        /\ status[a] \in {"absent", "proposed", "rejected"} => runs[a] = 0
        /\ status[a] \in Outcomes => runs[a] = 1

\* find_recovery_candidates classifies by claim and lease: a running action has a valid claim
\* (its absence is "corruption"), and one whose lease is free, or which is settled, has no
\* process behind it that could still dispatch it or overwrite its status.
RecoveryIsSound ==
    \A a \in Action :
        /\ status[a] = "running" => claim[a] = "valid"
        /\ status[a] \in Terminal \/ lease[a] = None =>
              ~\E s \in Session : target[s] = a /\ pc[s] \in Leased

\* The patch is only ever proposed by a completed audit, and the tests never overtake it: they
\* are listed when the audit proposed no patch or when the patch was applied or rejected.
FollowupsInOrder ==
    /\ status[Patch] # "absent" => status[Audit] = "completed"
    /\ status[Tests] # "absent" =>
          /\ status[Audit] = "completed"
          /\ status[Patch] \in {"absent", "completed", "rejected"}

\* The queue implements the ledger its callers rely on: one-way statuses, an effect at most
\* once and only under "running", outcomes only of effects that happened.
Ledger == INSTANCE ActionLedger
ImplementsLedger == Ledger!LedgerSpec

\* Every call of session s returns to the prompt or ends: no wait for the queue lock lasts
\* for ever.
CallReturns(s) ==
    pc[s] \notin {"off", "loop", "prompt"} ~> pc[s] \in {"off", "loop"}

-----------------------------------------------------------------------------
(* What a guide says, and the code does not keep *)

\* Lifecycle guide: once every action is completed or rejected, a review is proposed.
AllDone ==
    /\ \A a \in Action : status[a] \in {"absent", "completed", "rejected"}
    /\ \E a \in Action : status[a] = "completed"
ReviewIsProposed == AllDone ~> review = "proposed" \/ ~AllDone
=============================================================================
