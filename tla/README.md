# Verification of the Konoha Agentic Academy runtime

Konoha is a local-first framework for supervised AI missions: a human states a goal, the
"Hokage" plans it as an ordered list of assignments for agent families, a human approves
the plan (and some assignments once more), providers (Codex, Claude, Ollama, ...) run the
assignments one at a time, and every result is kept as evidence. Around it stand an older
conversational runtime with its own charter, receipt and action queue, a study mode for
repositories, deterministic validators for supervised actions, and the release tooling.
What makes the program correct is not any single function but what survives failures and
concurrent terminals: a provider must not be invoked twice for a task, nothing may run
without a human's authority, what is reported as done must be true, and the files a mission
leaves behind must be resumable or honestly say that they are not. This directory holds the
TLA+ models of that logic, the TLC runs that check them, and TLAPS proofs.

    tlc -workers 2 -config ExecutorCrash.cfg MCMissionExecutor
    tlc -workers 2 -config Authority.cfg MCMissionAuthority
    tlapm MissionExecutorProofs.tla
    tlapm ReleaseProofs.tla

## 1. Inventory of the system

| component (under `src/tools/`) | state it keeps | operations | what makes it correct |
|---|---|---|---|
| resumable executor, `konoha_v4/executor.py` | per mission: `execution.lock`, `execution_state.json`, `evidence/*.json` | `execute_or_resume_plan`: lock, load, validate, gate, invoke, persist, release | at-most-once invocation, authority, durable progress, states the validator accepts |
| conversation, `konoha_v4/conversation.py`, `terminal_input.py`, `continuity.py` | `plan.json`, `continuity.json`, type-ahead, the dialogue | `run`, `resume_mission`, `_approval_loop`, `_build_validated_plan` (3 attempts), `_run_resumable_execution` | a human's exact words, about the plan on screen, are the only authority; no loop polls |
| plans, `konoha_v4/hokage.py`, `planner.py`, `context_acquisition.py` | none | `validate_plan`, `build_plan`, the document walk | only well-formed plans, constrained by human words, reach approval |
| required sources, `konoha_v4/required_sources.py` | none | resolve, materialise, gate | stale, missing or undelivered material stops a task before its provider runs |
| repository study, `konoha_v4/repository_conversation.py`, `repo_evidence/` | `repository-studies/<id>/`, evidence packs, a session | request, authorise, acquire, teach back, recommend | nothing is read without consent; advice rests on current, understood evidence |
| authority, `hokage_orchestrator/authority.py`, `charter.py`, `mission_decision.py`, `intent.py` | `mission_decision.json`, `mission_charter.json`, `mission_authority.json` | propose, approve, reject, verify, restore | one receipt per mission authorises exactly what was shown, within the human's limits |
| action queue, `hokage_orchestrator/skill_runtime.py` | `action_queue.json`, `action_claims/`, `action_leases/`, `action_queue.lock` | append, approve-and-dispatch, reject, find and block interrupted actions | an action is dispatched at most once; a crash leaves it blockable |
| lifecycle, `run_conversational_hokage.py`, `lifecycle.py`, `continuity.py`, `mission_closure/`, `teachback/` | review, Teachback and closure files, `user_state.json` | review, Teachback, closure, handoff | a mission is closed only by its human, for the evidence approved |
| supervised actions, `task_contract/`, `task_evidence/`, `action_proposal/` | reports under `sandbox/` | three validators | what passes is complete, supported and inside the contract |
| release, `release_workflow/`, `release_closure/`, `beta_runtime/` | the checkout, the remote, GitHub, reports | preflight, commit, push, tag, publish, guard, status | only a tested commit is published; closure is reported truthfully |
| package delivery, `package_installation/`, `release_delivery/` | the extracted package | inspect, helper, suites, smoke, release | a helper acts once; a retry resumes |
| providers, audit flow, shell, UI, some forty one-shot tools | none, or report files | - | not modelled, section 5 |

How they interact. The conversation writes `plan.json` and calls the executor; the executor
reads `plan.json` again at every call and never trusts the caller's copy. The executor's
answer (`ExecutionAttempt`) tells the conversation whether to call again, ask a human or
stop. Providers, Git and the required-source gate are called from inside the lock. A study
hands evidence packs to planning; planning records which pack a plan was made from and the
gate compares it with the workspace again. In the conversational Hokage one session class
runs all phases: request, charter and receipt, then the action queue (bound to the receipt
and verified again before each dispatch, its bridge holding only that action's lease), then
review, Teachback and closure through two command-line gates. The package wrapper runs the
installer and, as a child process, the release workflow, which runs the closure guard and
the beta runtime's Git commands, and reads their report files.

What is hard: several terminals on one mission directory; death of a process between any
two writes, or inside one; every write failing; files that are checked and then used; a
lock file nobody reclaims; approvals that were printed before the mission moved on; plans,
workspaces and remotes that change underneath; commands that time out after their effect.
`PROJECT.json` lists these hazards at their lines, with the properties that watch them.

## 2. Modules

| module | models | main source |
|---|---|---|
| `MissionExecutor` | the resumable executor driven by the terminal loop, with any number of sessions, and the faults | `executor.py`, `conversation.py` |
| `MissionContract` | the abstract promise: a mission binds one plan, finishes its tasks in order, ends at most once | what the guide and the callers rely on |
| `ActionQueue` | the action queue with its lock, claims and leases, driven by the conversational terminal, and the faults | `skill_runtime.py`, `run_conversational_hokage.py`, `lifecycle.py` |
| `ActionLedger` | the abstract promise of the queue: one-way statuses, an effect at most once | docstrings of `ActionQueue` |
| `MissionAuthority` | from a request to authority to act: intent, decision, charter, receipt, queue binding, dispatch checks | `authority.py`, `charter.py`, `mission_decision.py`, `intent.py`, `continuity.py` |
| `MissionClosure` | from the review proposal to the closed mission | `lifecycle.py`, `close_mission.py`, `manage_teachback.py` |
| `RequiredSources` | the one resolver of an assignment's required sources, as operators | `required_sources.py` |
| `PlanConversation` | from mission text to dispatched workers; extends `RequiredSources` | `conversation.py`, `planner.py`, `hokage.py`, `context_acquisition.py` |
| `RepositoryStudy` | the study conversation over checkouts that are edited | `repository_conversation.py`, `repo_evidence/` |
| `SupervisedAction` | the three validators over files that are edited | `task_contract/`, `task_evidence/`, `action_proposal/` |
| `SupervisedRelease` | the release workflow with its guard, over checkout, remote and GitHub | `run_supervised_release.py`, `check_release_closure.py`, `run_konoha_beta.py` |
| `PackageDelivery` | installer and wrapper; composes with `SupervisedRelease`, which it extends | `run_supervised_package_installation.py`, `run_supervised_package_release.py` |
| `MissionExecutorProofs`, `ActionQueueProofs`, `AuthorityProofs`, `ClosureProofs`, `ConversationProofs`, `StudyProofs`, `SupervisedActionProofs`, `ReleaseProofs` | inductive invariants, lemmas and theorems (section 4) | - |
| `MC...` | small instances for TLC | - |

The exact lines behind each definition are in `PROJECT.json`. Common conventions: a digest
is the record it is taken of (hashes are assumed free of collisions); a plain
`Path.write_text` is a truncation and a write, so a file may be `Torn`, and a replacement by
rename is one step; one action is one stretch of code between two points where another
process can see or change a file. The newer modules choose the surroundings of a behaviour
(who takes part, how many crashes, edits or seconds) once, in `Init`, from a set the MC module
gives; each bound is named there. Operators with an underscore and a suffix
(`LoopStops_Polls`) are deliberate bugs and are used only to see that a property notices.

### MissionExecutor

Variables and the code they stand for: `lock` is `execution.lock`; `planFile` is
`plan.json`; `disk` is `execution_state.json` (replaced atomically by `os.replace`, so it
is never torn); `evidence` is the set of records in `evidence/`; `runs`, `nonces` and
`granted` are history: provider invocations per task, nonces drawn and approvals pasted;
`pc`, `plan`, `st`, `approval`, `record`, `diag` are the local variables of one process.

One action is one stretch of code between two points where another process can see or
change a file. `AcquireLock`, `LoadPlan`, `LoadState` open the call. In `"decide"` exactly
one of the early returns is taken (`Recover`, `NonResumable`, `BlockMutation`,
`PlanNotApproved`, `EnterWaiting`, `KeepWaiting`, `UnknownFamily`, `NotReady`,
`GitBaselineFails`) or the run begins (`BeginExecuting`, `Invoke`, `AssignmentEnds`,
`PersistEvidence`, `Finalise`). `ReleaseLock` ends the call; `StopSession`, `NextAttempt`,
`AskPlanApproval`, `AskAssignmentApproval` are the loop's reaction; `DecidePlan`,
`PasteApproval`, `MistypeApproval`, `Pause` are the human's. `TruncatePlan` and `WritePlan`
are the two halves of `Path.write_text`. Faults: any save may fail (each action that saves
has that branch), `Interrupt` is an exception in the locked body, `Crash` the death of the
process anywhere, `RemoveStaleLock` the operator who deletes a lock no process owns.

Data kept: all status fields of `ExecutionState`, as sets and records. Data abstracted:
task text, roles, provider and model names, timestamps and hashes. `plan_identity` (a
SHA-256 of the canonical plan) is the plan's model value, and an approval identifier (a
hash of mission, task, plan identity, nonce and gate) is the record of what is hashed, so
hashes are assumed free of collisions. The diagnostics the code distinguishes are kept;
those it treats alike (`*_persist_failed`, the readiness codes) are one value each.
What the provider answers, how the answer is validated and the closing Git check appear
as the resulting status only.

### MissionContract

`bound` (the plan of the first durable state), `done` (the tasks completed) and `phase`.
`MissionExecutor` implements it with `bound = disk.plan_identity`, `done =` the completed
prefix and `phase` read from the durable status; `ImplementsContract` is checked as a
property of the detailed specification.

### ActionQueue

Variables: `status` is the status of every action in `action_queue.json` (replaced
atomically); `claim` the write-once file `action_claims/<id>.json`, which `publish_once`
creates with `O_EXCL` and fills afterwards, so that `"torn"` is a state of its own;
`queueLock` and `lease` the two kinds of `flock`; `authority` whether charter, decision and
receipt on disk still agree, which is what `validate_action_authority` establishes at every
checkpoint; `review` is `review_proposal.json`; `runs` is history, the calls of `dispatch`;
`pc` and `target` belong to a process.

`Lock` and `LockTimeout` are `_QueueLock.__enter__`; everything a method does under the lock
up to the next visible file change is one action. `approve_and_dispatch` is `CreateClaim`,
`WriteClaim`, `StartRunning` (lease and CAS to `running`), `PreDispatch` or
`PreDispatchFails`, `Dispatch`, `DispatchEnds` (without the lock, under the lease), a second
`Lock` and `FinishAction`. Each has its `...Raises` twin for the checks that fail and for an
`OSError`; these show whether the caller reports the exception or the process ends.
`Followup`, `AppendAction` are the second locked section that lists a follow-up;
`AfterAction`, `LoadForReview`, `ReviewGate`, `TruncateReview`, `WriteReview` are the end of
`approve_action` and `reject_action`. `BlockInterrupted` is the human recovery. Faults:
`Crash` (the operating system frees the flocks), `Io` (any read or write raises), and
`ReplaceCharter`, a new proposal or a racing second approval that makes the authority files
disagree for good.

Abstracted: arguments, hashes, phrases and evidence contents. An action is its identifier,
which in the code is a hash of skill and arguments; the phrase a human types is the one of
the action shown. Commands that only print are the loop's `TypeOther`. What a dispatched
tool does is one of two outcomes.

### ActionLedger

`status` and `runs` alone. An action is proposed, then rejected, blocked or running; its
effect starts at most once and only while it is running; `completed` and `failed` are
recorded only of an effect that started. `ActionQueue` implements it under the identity
mapping, with every lock, lease, claim and session hidden.

### MissionAuthority

Files: `decision`, `charter` and `receipt` per mission, the `.tmp` siblings `atomic_write_json`
writes first (`temps`, one per file and shared by all sessions), `queue` by skill, and the two
continuity files `user` and `active`. A session has `pc`, what it is `doing`, its pending charter
and decision, the pair it is writing, which name its open temporary file has now (`inode`: a
second session may rename it away), and the decision it calls authoritative. A mission id is
the request it is derived from, so a repeated request meets its own older files; `utc_now` has
a resolution of one second, so two approvals may or may not be distinguishable.

Actions follow a session: `Start` and `Restore`, `Propose` (intent, decision, charter, then the
writes), `Approve` (the look for a receipt, both writes, `O_EXCL` creation and filling of the
receipt, bootstrap, queue), rejection with its read-modify-write of the continuity files, and
approval of an action with the checks of `validate_action_authority`. An action whose authority is
lost after the claim stays `running`, as in the code; a dispatched one ends `completed` or `failed`.
At the prompt a text is taken for a new proposal as soon as no charter and no action is pending: the
review, Teachback and closure that may still be asked for come before it in the code and are
`MissionClosure`'s subject. A session may die
anywhere. Each queue method is one step here; its lock, claims and leases are `ActionQueue`'s
subject, which in turn has charter and receipt as one condition (`authority`).

### MissionClosure

`disk` maps the mission's files to their contents; `proc` is one session (its phase, what it
loaded, what it is writing); `said` is what the human typed; `raced` remembers which command-line
gates two sessions were in at once. The offer at the prompt, recording the review (`--force`),
`mark_review_recorded`, the Teachback request and record, the closure proposal, the approval
phrase and `close_mission` with its six outputs are separate steps, each plain write in two
halves, each output of `close_mission` checked for identity before it is written. The action
queue is settled before this module starts.

### RequiredSources and PlanConversation

`RequiredSources` is pure: the vocabulary, the resolver of each kind of source, what counts as
material, and `ResolveAll`. `PlanConversation` has the continuity record (`store`), `plan.json`
(`planfile`), the evidence packs, the version of the workspace, the ready providers, the lines
typed and not read yet, and the challenges shown. `Plan` is context acquisition, drafting and
validation with up to `MAX_PLAN_ATTEMPTS` attempts; `Record`, `Decide` and `Execute` are the
approval loop and the hand-over, step by step where a death leaves different files. A human may
type any line at any time; a line either copies a displayed challenge or does not.

### RepositoryStudy

Checkouts with files, a version-control state and edits by somebody else; study records; one
conversation per terminal. A turn is routed as `_handle` does. Acquisition enumerates the
checkout, reads the files one at a time and builds the pack; loading a study re-reads what the
pack names (`Current`). Teachback replaces `study.json` through `teachback-update.json`.

### SupervisedAction

Four documents that people edit at any time, three validators and their reports. A validator
hashes a referenced file, reads it again to parse it, judges, truncates its report and writes
it; an edit between hash and parse marks the run `raced`, which the properties exempt where
the code cannot know.

### SupervisedRelease and PackageDelivery

A ref is the sequence of commits after the planned base. The workflow fetches, preflights,
plans, stages and commits through the beta runtime, then loops: guard, report file, one
action, at most `MaxTransitions` times. `Outside` holds the developer, upstream, GitHub and
sandbox disturbances; any command may fail, with or without its effect, and any process may
die. Somebody who keeps taking the latest mark (`Demote`) is not counted as a disturbance and
acts as often as he likes. The developer only adds commits: one who resets or amends the branch,
pushes it by hand or makes the version's annotated tag takes the release over, and
`PublishedIsTested` and `DeliveredIsPublished` say nothing of him (`--status` reports test evidence
and does not ask for it).

`PackageDelivery` adds the installer, the helper and the wrapper, and interleaves them
with the release it starts. A helper at work writes as often as it likes, paths of its own
(`own`) or direct paths it should leave alone (`foreign`), until it exits, fails or is killed by
its timeout, so it may also end having changed nothing or a direct path only. `DCrash` ends the
wrapper; the release child it started goes on, and so may its installer with the helper
(`Orphan`), beside a wrapper that is started again. `determine_state` sees the names of changed
paths and no record of the run, so a run that changed direct paths only looks like none: the
retry takes their hashes anew, runs the helper again and accepts the change. This is a known
weakness; `HelperActsOnce` is about the helper's own paths, and exempts extractions on which two
helpers were at work at once, against which the code has no lock.

## 3. Runs

| run | instance | properties |
|---|---|---|
| `executor_crash` | 2 sessions, 2 plans (a plan-approved task before a separately gated one, two separately gated ones), all faults | `TypeOK`, `InvokedAtMostOnce`, `RunsAreAuthorised`, `OwnStatesAreSound`, `RecoveryReasons`, `SuccessIsDurable`, `ProgressIsMonotone`, `ImplementsContract` |
| `executor_liveness` | 2 sessions; a mutating task, an unknown family; all faults, fairness | `ReturnsToHuman` |
| `queue_faults` | 2 processes; an inspection, an audit, its patch and tests; all faults, fairness | `TypeOK`, `DispatchedAtMostOnce`, `LedgerIsTruthful`, `RecoveryIsSound`, `FollowupsInOrder`, `ImplementsLedger`, `CallsReturn` |
| `authority` | 2 sessions; requests with and without constraints; racing, dying, repeated and refused ones | `OneAuthority`, `LimitsHold`, `SessionSeesReceipt` |
| `closure` | one session at a time with 4 openings and 2 deaths, two at once with 1 | `ClosedIsEarned`, `ReportIsBacked`, `ClosesWhatWasApproved`, `NeverStranded` |
| `planning` | 8 drafts, 4 scenarios (type-ahead, plan only, edits, two missions with a death), fairness | `ApprovedWasShown`, `AuthorityIsHuman`, `EvidenceIsRetained`, `WorkersAreSupervised`, `FedByProducers`, `PlanningEnds` |
| `study` | 2 terminals, a workspace and three external checkouts (one private), up to two edits, a death | `ConsentBeforeReading`, `AdviceIsCurrent`, `AdviceIsUnderstood` |
| `supervised_action` | contracts, bundles and proposals with one defect each, one edit, two runs | `ProposedIsComplete`, `ProposedIsAuthorised`, `ReviewCoversRisk` |
| `delivery` | a delivery among outside actors, among failing commands and crashes, and with a dying wrapper; the release alone with every fault, and with two disturbances; fairness | `PublishedIsTested`, `ResumeIsAccepted`, `DeliveredIsPublished`, `HelperActsOnce`, `DeliveryEnds` |
| `guide_review_proposed` | 1 process, no faults | `ReviewIsProposed`, expected to be violated |
| `docstring_preview_diverges` | drafts with the `architect` family, no faults | `PreviewAgreesWithGate`, expected to be violated |
| `docstring_second_approval` | as `authority` | `ApprovalSparesFrozen`, expected to be violated |

Each property is explained above its definition. The `TypeOK` of the newer modules states the
types of their variables for the reader; only those of `MissionExecutor` and
`ActionQueue` are properties of a run. `CallsReturn` follows one of the two processes: the specification treats them
alike, so it holds of both.

Bounds. Two sessions suffice for every race the executor's lock is about: all shared state is
three files and the invariants relate at most two owners; the proofs below remove the bound. Two
tasks give a first, a last and a middle cursor position; the first of them has either gate,
and two separately gated ones in a row let a spent or stale approval meet the next task. Nonces
and evidence identifiers need no cap: the state machine allows at most one per task position. For the queue, two processes are one that dispatches and one that
approves, rejects, recovers or initialises against it; the four actions are the longest chain
the follow-ups allow, and the inspection in front of them lets a second action be pending while
the first runs. In the authority model two sessions and two seconds give a winner and a loser
of the receipt with equal and with different stamps (and, where they find different providers
ready, with different decisions in one second), three starts a restore after a death. In
the closure model four openings reach closure with a death in each half. `MaxTransitions = 4`
(five rounds of the loop) is exactly enough for an undisturbed release, so one demotion
exhausts it; without it the demotions, which are free, would keep the loop going, and the mutant
`NextGuard_Unbounded` does. One disturbance of a delivery is combined with any number of helper
writes, retries and re-extractions; a death of the wrapper is the one that leaves children behind.
The study scenarios bound the turns of all terminals together. A behaviour from no
record to advice takes four; the two-terminal one starts where both have the same unclosed study at
hand (`hand`), so its four turns are an answer by each, a report and a request for advice, in any
order. A mixed snapshot comes from two edits during one acquisition, and from a stored record
(`Mixed`) with a later edit; two open external checkouts let the command for one be typed while the
other's is on offer. Three planning
attempts are the code's own limit; `MaxItems = 1` puts the cut of a produced list before its second
row, and the outputs have a complete row on either side of it. Sessions, and the open external
checkouts of a study, are symmetric; symmetry is used only without fairness.

Deadlock. Where a session or an execution can always be started again (executor, queue,
delivery) deadlock checking is on. The other specifications have budgets (turns, openings, crashes) and really
stop when these are used up.

Fairness. `FairSpec` of `MissionExecutor` and `ActionQueue` asks weak fairness of `CodeStep(s)`,
the steps a process takes by itself: the operating system schedules it, and the provider and
Git subprocesses are started with timeouts. `DFairSpec` asks the same of the wrapper, the
installer and the workflow (every command has a timeout), and strong fairness of starting the
release: the model has room for two release children, so a wrapper restarted beside two orphaned
ones waits for one of them to end, which the operating system would not make it do.
`FairSpec` of `PlanConversation` of the conversation's own
steps. Nothing is asked of the human, of faults, of outside actors or of the operator.
`ReturningSpec`, used only by `guide_review_proposed`, adds a human who keeps opening the terminal
and reaching the prompt, but need not type anything: without it an unproposed review would only
mean that nobody came back.

Findings (the runs that expect a violation):

- `guide_review_proposed`: an audit whose charter allows no follow-ups (no patch was asked for)
  still appends one when it completes; the exception ends the session and nothing proposes the
  review afterwards.
- `docstring_second_approval`: two sessions approve one charter; both find no receipt, and the
  one that loses the race replaces the frozen charter with its own. No action can be
  dispatched under either afterwards (`OneAuthority` holds), but the mission is lost.
- `docstring_preview_diverges`: the planner's preview resolves `failure_logs` without a directory
  and reports a gap that the executor's gate does not find.

Further differences between text and code that were met while modelling, and that the models
contain without a run of their own:

- `docs/guides/konoha_v4_resumable_execution_runtime.md:252` puts the unknown-family failure after
  `executing` is persisted; the code looks the family up before. Line 217 says a recovery keeps
  reporting `non_resumable_status`; after plan drift it keeps reporting `plan_drift`.
- `approve_and_dispatch`'s docstring says an action whose authority is lost after the claim is
  marked blocked; the same check fails in `_mark_blocked_locked` and it stays `running`. A claim
  torn by a death can be neither approved, rejected nor recovered, and is offered first.
- Between saving `completed` and listing the follow-up another terminal may propose the review.
- `unified_supervised_release_gate.md:134` says lightweight tags stop the workflow; an existing local
  one on the right commit is reused and pushed. The installer takes the hashes of the direct
  paths anew on a retry, so a change by a failed first helper run is its baseline.
- `conversational_hokage_lifecycle.md` says no mission is active after closure; a second session
  that writes back an older `user_state.json` can make it active again.
- A death between `mark_review_recorded` and `build_teachback_request`, or between the receipt and
  the queue, strands the mission: no later session builds what is missing.

## 4. Proofs

`MissionExecutorProofs` proves, for every set of sessions, tasks and validated plans:

| theorem | statement |
|---|---|
| `Invariance` | `Spec => []IInv` |
| `TypeCorrect` | `Spec => []TypeOK` |
| `AtMostOnce` | `Spec => []InvokedAtMostOnce` |
| `ExecutingDurable` | `Spec => []ExecutingIsDurable` |
| `StatesSound` | `Spec => []OwnStatesAreSound` |
| `Authority` | `Spec => []RunsAreAuthorised` |

Assumptions: the named `ASSUME`s of `MissionExecutor`. `PlansValidated` (tasks of a plan
have different identifiers, which `validate_plan` enforces) is essential: without it the
same task would legitimately run twice. The others separate `None` from real values.

`InvokedAtMostOnce` is not inductive: that a task about to be invoked was not invoked
before depends on the file the session loaded, on nobody else having written it since, and
on what that file says about past invocations. `IInv` adds exactly this: `LockInv` (being in
the locked body is owning the lock), `SessionInv` (what a session knows at each point, in
particular that its `state` still equals the file), `DiskInv` (the file is sound and its
evidence complete) and `InvocationInv` (an invoked task is completed, or is the pending task
of a state from which nothing is invoked any more). The lemmas show that each pure
transition preserves soundness; `Frame` and `QuietFrame` carry the other sessions through a
step; one step per action finishes the induction.

`ActionQueueProofs` proves, for every set of sessions and actions, every list of initial
actions and every combination of faults:

| theorem | statement |
|---|---|
| `Invariance` | `Spec => []IInv` |
| `TypeCorrect` | `Spec => []TypeOK` |
| `AtMostOnce` | `Spec => []DispatchedAtMostOnce` |
| `Truthful` | `Spec => []LedgerIsTruthful` |
| `RecoverySound` | `Spec => []RecoveryIsSound` |
| `Refinement` | `Spec => ImplementsLedger` |
| `FollowupOrder` | `Spec => []FollowupsInOrder` |

Assumptions: `ActionsKnown`, `FollowupsAreNew` and `NoneIsNobody` of `ActionQueue`. None of the
properties is inductive: that `Dispatch` finds `runs = 0` rests on the lease it took when the
action was still `proposed`, and on nobody having settled the action since. `IInv` says so:
`LockInv` (a process is inside a locked section exactly when it holds the queue lock),
`LeaseInv` (it is at a leased point of an action exactly when it holds that lease),
`TargetInv` (a process at work has an action), `SessionInv` (what status, claim and run count
a process may rely on at each point) and `LedgerInv` (what each status says of claim and
runs). Lemmas for steps that change no file, that leave a call and that settle an action
carry the other processes through; `Refinement` uses `IInv` to map each action to a ledger
step or a stutter.

`FollowupOrder` needs a second layer, `OrderInv` (what follow-ups may be listed for each state of
the audit and the patch) with `TurnInv` (what a process between a completed action and its
follow-up may rely on). It rests on `OneHand`: while a process is between a completed audit and its
follow-up, no other is there and none is about to list the tests, although nobody holds the
queue lock in that gap: the audit completes once.

The second part of `MissionExecutorProofs` proves, under the same assumptions:

| theorem | statement |
|---|---|
| `ProgressInvariance` | `Spec => []ProgressInv` |
| `GivenUpForCause` | `Spec => []RecoveryReasons` |
| `SuccessDurable` | `Spec => []SuccessIsDurable` |
| `Monotone` | `Spec => ProgressIsMonotone` |
| `Refinement` | `Spec => ImplementsContract` |

`DiskSteps` shows that only five transitions ever write `execution_state.json`, each from the
state its session loaded. `ProgressInv` adds to `IInv` that a mission in progress has a task under
its cursor (`CursorInv`), that every completed task was run exactly once (`DoneInv`) and that
where a session holds a completed attempt the file says so too (`CompletionInv`). The action property
and the refinement are then proved transition by transition; every other action is a stutter of
the contract.

`AuthorityProofs` proves, for any sessions, requests, seconds and crashes:

| theorem | statement |
|---|---|
| `Authorised` | `Spec => []OneAuthority` |
| `Limited` | `Spec => []LimitsHold` |
| `SessionsAgree` | `Spec => []SessionSeesReceipt` |

Charter and decision files prove nothing: sessions overwrite each other's, also through a
temporary another one has renamed. The argument rests on the receipt, which is created once,
filled by its creator only (`Claimed`: at most one session is about to fill a receipt)
and never rewritten; `SessionInv` says what the charter and decision a session holds were derived
from at each point. Assumptions: `SentinelsAssumption`, `EnvironmentAssumption` (types of the
surroundings) and `FilesAssumption` (the marks for an absent or torn file are not contents).

`ClosureProofs` proves, for any sessions, explanations, stamps and crashes:

| theorem | statement |
|---|---|
| `ClosureInvariance` | `Spec => []EarnedInv` |
| `Earned` | `Spec => []ClosedIsEarned` |
| `ReportBacked` | `Spec => []ReportIsBacked` |
| `ClosesApproved` | `Spec => []ClosesWhatWasApproved` |
| `Unstranded` | `Spec => []NeverStranded` |

The invariant has three layers, each proved with those before it. `EarnedInv` holds whatever
sessions do: a point is reached only after the words that lead to it were typed, and outputs are
written in order. `OneInv` holds where one session is open at a time: an accepted record is not
written again, so what is closed is what the phrase named. `CalmInv` holds where nothing was
killed either: a torn file is being written, and where nothing is being written the mission has
a next step. The layers are the very conditions of the properties, so nothing is assumed that
the properties do not say themselves. Assumption: `BoundAssumption` (`Session` is finite because the number of
open sessions is bounded through `Cardinality`; a bound on reviews and a stamp exist).

`ConversationProofs` proves, for any drafts, families, workers, missions and lines typed:

| theorem | statement |
|---|---|
| `ConversationInvariance` | `Spec => []PlanInv` |
| `GrantedWasShown` | `Spec => []ApprovedWasShown` |
| `HumansDecide` | `Spec => []AuthorityIsHuman` |
| `PacksRetained` | `Spec => []EvidenceIsRetained` |
| `Supervised` | `Spec => []WorkersAreSupervised` |
| `Fed` | `Spec => []FedByProducers` |

`PlanInv` has five parts: `ShapeInv` (types), `LineInv` (a challenge is displayed after every line
already typed, so a line that copies the last challenge was typed while its plan was shown),
`PhaseInv` (how what the conversation holds is related to the disk at each point: the pack of a
turn is new and is whole before the continuity is touched), `DiskInv` (what was recorded stays
good) and `HistoryInv` (what is already granted or dispatched). Assumptions: `PlanAssumption` and
`MaxItemsAssumption`.

`StudyProofs` proves, for any checkouts, terminals, stored studies, edits, commits and crashes:

| theorem | statement |
|---|---|
| `StudyInvariance` | `Spec => []StudyInv` |
| `ConsentComesFirst` | `Spec => []ConsentBeforeReading` |
| `CurrentAdvice` | `Spec => []AdviceIsCurrent` |
| `UnderstoodAdvice` | `Spec => []AdviceIsUnderstood` |

Two terminals write the same records and checkouts change between any two reads, so nothing a turn
loaded need still be so when it is used. What does stay is: a record once written keeps its pack, a
study once closed stays closed, permission is not taken back within a conversation (`Grows`), and what
was read is still there or was replaced since the turn began (`Recalls`). `StudyInv` is stated with
these alone: `HandInv` (the studies at hand are of checkouts the session may read, and the
pending request is the one whose command is displayed), `OverInv` (a report is over studies that were
understood), `WorkInv` (what an acquisition, a load, a check and an update rest on, in particular
`CheckedInv`: the part of the report already loaded again in this turn is fresh) and `WorldInv` (an
`understood` record, or one being written, belongs to a closed study). A step then has only its own
session to justify. Assumptions: `RepositoryAssumption` (the sets of paths and checkouts fit together)
and `ScenarioAssumption` (the stored records a behaviour starts with were written by the code: each
is of a known checkout, and an understood one exists; a study at hand is a readable one of the
workspace).

`SupervisedActionProofs` proves, for any contracts, bundles, proposals, edits and runs:

| theorem | statement |
|---|---|
| `ValidatorInvariance` | `Spec => []ActionInv` |
| `ProposedAuthorised` | `Spec => []ProposedIsAuthorised` |
| `ProposedComplete` | `Spec => []ProposedIsComplete` |
| `ReviewCovers` | `Spec => []ReviewCoversRisk` |

That the checks imply what the properties say of the documents they were given is first-order
(`Authorises`, `Supports`, `Completes`, `Covers`; the last of several entries for one key is found
as a least position, `LastPosition`). That they were given the cited bytes is the invariant: a
file parsed is the file hashed unless an edit fell between the two reads (`MatchInv`), and what a
verdict was taken from does not change before the report is out (`OkInv`). Assumption:
`DocumentAssumption` (the lists of a document are sequences, and `None` is not an exit code).

`ReleaseProofs` proves, for any environments, branch lengths and numbers of transitions:

| theorem | statement |
|---|---|
| `TypeCorrect` | `DSpec => []TypeOK` |
| `WorkflowPublishesTested`, `WorkflowClosesTruly` | the workflow alone, `Spec`, publishes only what was tested and reports closure truthfully |
| `PublishesTested` | `DSpec => []PublishedIsTested` |
| `DeliversPublished` | `DSpec => []DeliveredIsPublished` |
| `ResumesAccepted` | `DSpec => []ResumeIsAccepted` |
| `HelperOnce` | `DSpec => []HelperActsOnce` |

Evidence travels from the test gate through report files of several executions to push, tag and
release. `ReleaseInv` says what a report file stands for whoever wrote it (`ReportInv`), what an
execution knows at each point (`RunInv`) and what holds of the refs (`GlobalInv`), all of it from
facts no step takes back (`Grows`), so that a step has only its own execution to justify.
`DeliveryInv` adds the wrapper. `HelperOnce` holds for any number of wrappers, deaths and orphaned
installers. It rests on `HelperInv`: none has acted while the checkout looks freshly extracted and, unless
helpers overlapped, at most one is at work and, while it has not acted, no other has.
Assumptions: `BoundsAssumption`, `EnvironmentsAssumption`, `OrphanAssumption` (the orphaned installer
is not one of the executions).

Only model-checked: `ReturnsToHuman`, `CallsReturn`, `DeliveryEnds` and `PlanningEnds` (liveness
under fairness is out of the prover's reach), and the three violations of section 3. The invariants
above were checked by TLC on the instances of section 3 before they were proved.

## 5. Not modelled, and why

Power failure (a write that returned is taken to survive; the code fsyncs the file, not the
directory). Deleting `execution.lock` of a live process, which the code's own comment puts
outside its guarantees. `restore` and `find_recovery_candidates` of the queue read and validate
only and are not actions. Provider I/O, rendering, packaging and the UI (pure I/O). The audit
flow's patch (provider output applied by Git; its outcomes are the follow-ups of the queue).
The older mission commands of the beta runtime, the Hokage shell and the one-shot tools:
single processes that check a token and a plan file and act or report, without shared state.
The legacy `execute_plan` loop and charter 1.0, which the current entry points do not use.
Purely structural schema checks are one field of a document (`form`, `valid`).

Simplifications inside what is modelled: the shared `.tmp` sibling is followed in `MissionAuthority`
and not in `MissionClosure`, where `atomic_write` is one step; the private memory note written after
the closure is left out; in `PlanConversation` the gate and the run of a worker are one step
(`MissionExecutor` has them apart), `excluded_paths` is empty, the constrained fields of a plan are one
of each kind, and the checks of task patterns and of the word "Hokage" in an objective are left out;
in `SupervisedRelease` the Git commands of `collect_local_git` are one snapshot.

## 6. Plan

1. `MissionExecutor`, `MissionContract` and the proofs above (done).
2. `ActionQueue`, `ActionLedger` and their proofs (done).
3. `PlanConversation`, `RequiredSources` and `RepositoryStudy` (modelled, checked, proved).
4. `MissionAuthority` and `MissionClosure` (modelled, checked, proved).
5. `SupervisedAction`, `SupervisedRelease`, `PackageDelivery` (modelled, checked, proved).
6. `AuditFlow` and the token-gated tools over one abstract gate.
