-------------------------- MODULE SupervisedRelease --------------------------
(***************************************************************************)
(* The unified supervised release: tools/release_workflow drives one       *)
(* checkout from a reviewed working tree to a closed GitHub Release, one   *)
(* guarded transition at a time.  Before every transition the closure      *)
(* guard of tools/release_closure looks at the checkout, the remote and    *)
(* GitHub and writes a report; the workflow loads that report and performs *)
(* the one action its status asks for.  Git operations go through the      *)
(* beta runtime (git-plan, git-stage, git-commit, git-push).               *)
(*                                                                         *)
(* A ref is the sequence of commits after the planned base: <<>> is the    *)
(* base, <<"rel">> the planned release commit, "own" a commit a developer  *)
(* makes in the checkout, "up" a commit pushed by somebody else.           *)
(***************************************************************************)
EXTENDS Naturals, Sequences, SequencesExt

CONSTANTS Run,              \* executions of the workflow on this checkout
          MaxTransitions,   \* plan["max_transitions"]
          MaxCommits,       \* bound on the length of a branch after the base
          Environments,     \* the surroundings a behaviour may have, see Environment
          None, Torn        \* no such file, ref or value; a half-written file

ASSUME BoundsAssumption == MaxTransitions \in Nat /\ MaxCommits \in Nat
\* Who takes part: the executions that are started, whether a wrapper starts them
\* (PackageDelivery), whether the package is installed at the start, the faults and outside
\* actors that are present, and how often outside actors interfere at most.
FaultKinds == {"crash", "wrapper", "command", "upstream", "developer", "github", "lightweight", "sandbox"}
Environment == [live : SUBSET Run, wrapped : BOOLEAN, installed : BOOLEAN,
                faults : SUBSET FaultKinds, disturbances : Nat]
ASSUME EnvironmentsAssumption == Environments \subseteq Environment

VARIABLES
    head,       \* local branch of the checkout
    planned,    \* the planned public paths, see Planned
    stray,      \* the checkout is dirty beyond that: another path, or a later edit
    track,      \* remote-tracking ref
    main,       \* branch on the remote
    tag, rtag,  \* the version tag here and on the remote
    rel,        \* the GitHub Release of the version
    bplan,      \* sandbox/<id>-beta-git-plan.json
    cache,      \* sandbox/reports/<id>-closure-tests.json
    trans,      \* sandbox/reports/<id>-transition-<n>.json
    tested,     \* history: commits on which the canonical gate really passed
    run,        \* memory of every execution
    env,        \* the environment of this behaviour
    disturbed   \* how often outside actors interfered

repo == <<head, planned, stray, track, tag>>
remote == <<main, rtag, rel>>
files == <<bplan, cache, trans>>
vars == <<head, planned, stray, track, main, tag, rtag, rel, bplan, cache, trans, tested, run, env, disturbed>>

Base == <<>>
Branches == SeqOf({"rel", "own", "up"}, MaxCommits)
Steps == 0 .. MaxTransitions + 1

\* The planned public paths: only the direct paths of the package are there, some of the
\* others too, all are edited, some staged, all staged, all committed.
Planned == {"extracted", "halfway", "edited", "partial", "staged", "committed"}

\* A tag object: lightweight tags have no object of their own (annotated = FALSE).
Tag == [target : Branches, annotated : BOOLEAN, by : {"workflow", "outside"}]
Release == [state : {"none", "published", "draft", "prerelease"}, titled : BOOLEAN,
            latest : BOOLEAN, by : {"workflow", "outside"}]

\* The statuses the workflow acts on; every other status of the guard stops it.
ExpectedAction ==
    [BLOCKED_BRANCH_NOT_SYNCED |-> "push_main", NEEDS_TAG_CREATION |-> "create_tag",
     NEEDS_TAG_PUBLICATION |-> "push_tag", NEEDS_RELEASE_PUBLICATION |-> "publish_release",
     NEEDS_LATEST_PROMOTION |-> "promote_latest", RELEASE_CLOSED |-> "complete"]
EXPECTED_STATES == DOMAIN ExpectedAction
Statuses == EXPECTED_STATES \cup {"BLOCKED"}

\* A closure report: the HEAD it saw, whether its test gate passed, and the HEAD
\* the tests ran on.
Report == [status : Statuses, head : Branches, passed : BOOLEAN, head_after : Branches]

Clean == planned = "committed" /\ ~stray
\* collect_scope: unstaged and untracked paths only; the index is not looked at.
ScopeMatches == planned = "edited" /\ ~stray
\* Parent, subject and paths are those of the plan.
Aligned(h) == h = <<"rel">>
Ahead(t, h) == IF IsPrefix(t, h) THEN Len(h) - Len(t) ELSE Len(h)
Behind(t, h) == IF IsPrefix(t, h) THEN 0 ELSE Len(t)
-----------------------------------------------------------------------------
(***************************************************************************)
(* The closure guard.                                                      *)
(***************************************************************************)
\* What collect_local_git saw: a snapshot the later parts of the report rest on.  Its git
\* commands run one right after the other and are taken together.
LocalGit == [head |-> head, clean |-> Clean, synced |-> track = head, tag |-> tag]

\* decide_status over the local snapshot s, the test gate and what the network says.
DecideStatus(s, passed, remoteOk, ghOk) ==
    IF ~s.clean \/ ~passed THEN "BLOCKED"
    ELSE IF ~s.synced THEN "BLOCKED_BRANCH_NOT_SYNCED"
    ELSE IF s.tag = None THEN "NEEDS_TAG_CREATION"
    ELSE IF s.tag.target # s.head \/ ~remoteOk \/ main # s.head THEN "BLOCKED"
    ELSE IF rtag = None THEN "NEEDS_TAG_PUBLICATION"
    ELSE IF ~rtag.annotated \/ rtag.target # s.head \/ ~ghOk THEN "BLOCKED"
    ELSE IF rel.state = "none" THEN "NEEDS_RELEASE_PUBLICATION"
    ELSE IF rel.state # "published" THEN "BLOCKED"
    ELSE IF ~rel.latest THEN "NEEDS_LATEST_PROMOTION"
    ELSE "RELEASE_CLOSED"

\* load_test_evidence: a prior report counts for the same HEAD only.
EvidencePasses(e, h) == e.passed /\ e.head = h /\ e.head_after = h

\* inspect_cached_test_evidence and the first half of run_initial_closure_guard.
CacheState(h) ==
    CASE cache = None -> "absent"
      [] cache = Torn -> "corrupt"
      [] cache # None /\ cache # Torn /\ ~cache.passed -> "corrupt"
      [] OTHER -> IF cache.head = h /\ cache.head_after = h THEN "valid" ELSE "stale"
-----------------------------------------------------------------------------
(***************************************************************************)
(* The read-only --status answer, with --allow-network or without, and the *)
(* decision of preflight.                                                  *)
(***************************************************************************)
\* Mutant: the remote branch is taken for synchronized once it left the base.
DeriveRecoveryState_TrustsRemote(network) ==
    IF head = Base /\ Clean THEN "NEEDS_PACKAGE_APPLY"
    ELSE IF head = Base THEN IF ScopeMatches THEN "NEEDS_GIT_DELIVERY" ELSE "BLOCKED"
    ELSE IF ~Aligned(head) \/ ~Clean THEN "BLOCKED"
    ELSE IF main = Base THEN "NEEDS_BRANCH_PUSH"
    ELSE "NEEDS_TAG_CREATION"

\* Mutant: the tag objects are not compared, only their kinds and targets.
DeriveRecoveryState_TargetsOnly(network) ==
    IF head = Base /\ Clean THEN "NEEDS_PACKAGE_APPLY"
    ELSE IF head = Base THEN IF ScopeMatches THEN "NEEDS_GIT_DELIVERY" ELSE "BLOCKED"
    ELSE IF ~Aligned(head) \/ ~Clean THEN "BLOCKED"
    ELSE IF ~network
         THEN IF Behind(track, head) > 0 \/ Ahead(track, head) > 1 THEN "BLOCKED"
              ELSE IF Ahead(track, head) = 1 THEN "NEEDS_BRANCH_PUSH"
              ELSE "NEEDS_REMOTE_INSPECTION"
    ELSE IF main = Base THEN "NEEDS_BRANCH_PUSH"
    ELSE IF main # head THEN "BLOCKED"
    ELSE IF tag = None THEN "NEEDS_TAG_CREATION"
    ELSE IF ~tag.annotated \/ tag.target # head THEN "BLOCKED"
    ELSE IF rtag = None THEN "NEEDS_TAG_PUBLICATION"
    ELSE IF ~rtag.annotated \/ rtag.target # head THEN "BLOCKED"
    ELSE IF rel.state = "none" THEN "NEEDS_RELEASE_PUBLICATION"
    ELSE IF rel.state # "published" \/ ~rel.titled THEN "BLOCKED"
    ELSE IF ~rel.latest THEN "NEEDS_LATEST_PROMOTION"
    ELSE "RELEASE_CLOSED"

\* derive_recovery_state; every BLOCKED_* code is "BLOCKED".
DeriveRecoveryState(network) ==
    IF head = Base /\ Clean THEN "NEEDS_PACKAGE_APPLY"
    ELSE IF head = Base THEN IF ScopeMatches THEN "NEEDS_GIT_DELIVERY" ELSE "BLOCKED"
    ELSE IF ~Aligned(head) \/ ~Clean THEN "BLOCKED"
    ELSE IF ~network
         THEN IF Behind(track, head) > 0 \/ Ahead(track, head) > 1 THEN "BLOCKED"
              ELSE IF Ahead(track, head) = 1 THEN "NEEDS_BRANCH_PUSH"
              ELSE "NEEDS_REMOTE_INSPECTION"
    ELSE IF main = Base THEN "NEEDS_BRANCH_PUSH"
    ELSE IF main # head THEN "BLOCKED"
    ELSE IF tag = None THEN "NEEDS_TAG_CREATION"
    ELSE IF ~tag.annotated \/ tag.target # head THEN "BLOCKED"
    ELSE IF rtag = None THEN "NEEDS_TAG_PUBLICATION"
    ELSE IF ~rtag.annotated \/ rtag.target # head \/ rtag # tag THEN "BLOCKED"
    ELSE IF rel.state = "none" THEN "NEEDS_RELEASE_PUBLICATION"
    ELSE IF rel.state # "published" \/ ~rel.titled THEN "BLOCKED"
    ELSE IF ~rel.latest THEN "NEEDS_LATEST_PROMOTION"
    ELSE "RELEASE_CLOSED"

\* inspect_release_status; a remote query that fails is BLOCKED_REMOTE_INSPECTION.
InspectReleaseStatus(network, remoteOk) ==
    IF network /\ ~remoteOk THEN "BLOCKED" ELSE DeriveRecoveryState(network)
SafeToResume(network) ==
    InspectReleaseStatus(network, TRUE) \notin {"BLOCKED", "NEEDS_PACKAGE_APPLY"}

PreflightMode(t) ==
    CASE head = Base /\ t = Base /\ ScopeMatches -> "needs_commit"
      [] /\ Aligned(head) /\ Clean
         /\ Behind(t, head) = 0 /\ Ahead(t, head) \in {0, 1} /\ t \in {Base, head} -> "resume_committed"
      [] OTHER -> "refused"
-----------------------------------------------------------------------------
Idle == [pc |-> "idle", cur |-> None, status |-> None, step |-> 0, mode |-> None,
         snap |-> None, gate |-> None, report |-> None]

Init ==
    /\ head = Base /\ track = Base /\ main = Base
    /\ stray = FALSE
    /\ tag = None /\ rtag = None
    /\ rel = [state |-> "none", titled |-> TRUE, latest |-> FALSE, by |-> "outside"]
    /\ bplan = None /\ cache = None /\ trans = [n \in Steps |-> None]
    /\ tested = {}
    /\ run = [r \in Run |-> Idle]
    /\ env \in Environments /\ disturbed = 0
    /\ planned = IF env.installed THEN "edited" ELSE "extracted"

Ended == {"idle", "closed", "blocked"}
Goto(r, pc) == run' = [run EXCEPT ![r].pc = pc]
\* WorkflowError: the report says BLOCKED_WORKFLOW and the process ends.
Blocks(r) == run' = [run EXCEPT ![r] = [Idle EXCEPT !.pc = "blocked"]]
\* A command times out or fails; what it did to the repository may stand.
CommandFails == "command" \in env.faults
MayFail(r) == CommandFails /\ Blocks(r)

\* execute: fresh memory; validate_tokens is satisfied by the operator.  Transition
\* reports are overwritten before they are read, so the ones of executions that have
\* all ended are forgotten.
Start(r) ==
    /\ run[r].pc \in Ended
    /\ run' = [run EXCEPT ![r] = [Idle EXCEPT !.pc = "fetch"]]
    /\ trans' = IF \A q \in Run : run[q].pc \in Ended THEN [n \in Steps |-> None] ELSE trans
    /\ UNCHANGED <<repo, remote, bplan, cache, tested, env, disturbed>>

\* git fetch and gh auth status.
FetchPreflight(r) ==
    /\ run[r].pc = "fetch"
    /\ \/ track' = main /\ Goto(r, "preflight")
       \/ track' \in {track, main} /\ MayFail(r)
    /\ UNCHANGED <<head, planned, stray, tag, remote, files, tested, env, disturbed>>

Preflight(r) ==
    /\ run[r].pc = "preflight"
    /\ CASE PreflightMode(track) = "needs_commit" -> Goto(r, "plan")
         [] PreflightMode(track) = "resume_committed" ->
                run' = [run EXCEPT ![r].pc = "local", ![r].cur = head]
         [] OTHER -> Blocks(r)
    /\ UNCHANGED <<repo, remote, files, tested, env, disturbed>>

\* beta git-plan --force: write_json truncates the file and then writes it.
TruncateGitPlan(r) ==
    /\ run[r].pc = "plan"
    /\ bplan' = Torn
    /\ Goto(r, "planning")
    /\ UNCHANGED <<repo, remote, cache, trans, tested, env, disturbed>>

WriteGitPlan(r) ==
    /\ run[r].pc = "planning"
    /\ bplan' = "plan"
    /\ Goto(r, IF run[r].cur = None THEN "stage" ELSE "pushcheck")
    /\ UNCHANGED <<repo, remote, cache, trans, tested, env, disturbed>>

\* beta git-stage: one git add per path; a failing one leaves the others staged.
GitStage(r) ==
    /\ run[r].pc = "stage"
    /\ IF bplan # "plan" THEN Blocks(r) /\ UNCHANGED planned
       ELSE \/ /\ planned' = CASE planned \in {"edited", "partial"} -> "staged"
                               [] planned \in {"extracted", "halfway"} -> "partial"
                               [] OTHER -> planned
               /\ Goto(r, "staged") \/ MayFail(r)
            \/ /\ CommandFails /\ planned = "edited"
               /\ planned' = "partial"
               /\ Blocks(r)
    /\ UNCHANGED <<head, stray, track, tag, remote, files, tested, env, disturbed>>

CheckStaged(r) ==
    /\ run[r].pc = "staged"
    /\ IF planned = "staged" THEN Goto(r, "commit") ELSE Blocks(r)
    /\ UNCHANGED <<repo, remote, files, tested, env, disturbed>>

\* beta git-commit: git commit fails when nothing is staged.
GitCommit(r) ==
    /\ run[r].pc = "commit"
    /\ IF bplan = "plan" /\ planned \in {"staged", "partial"} /\ Len(head) < MaxCommits
       THEN /\ head' = Append(head, IF planned = "staged" THEN "rel" ELSE "own")
            /\ planned' = IF planned = "staged" THEN "committed" ELSE "halfway"
            /\ Goto(r, "committed") \/ MayFail(r)
       ELSE Blocks(r) /\ UNCHANGED <<head, planned>>
    /\ UNCHANGED <<stray, track, tag, remote, files, tested, env, disturbed>>

\* The rest of create_commit.
VerifyCommit(r) ==
    /\ run[r].pc = "committed"
    /\ IF Aligned(head) /\ Clean
       THEN run' = [run EXCEPT ![r].pc = "local", ![r].cur = head]
       ELSE Blocks(r)
    /\ UNCHANGED <<repo, remote, files, tested, env, disturbed>>
-----------------------------------------------------------------------------
\* Which file the guard of this step reuses, and which one it writes.
Evidence(r) == IF run[r].step = 0 THEN cache
               ELSE IF run[r].step = 1 /\ run[r].mode = "tests" THEN cache
               ELSE trans[run[r].step - 1]

RunsTests(r) == run[r].step = 0 /\ run[r].mode = "tests"

\* A guard process that ends with an error: the reuse of cached evidence falls back
\* to fresh tests, every other guard stops the workflow.
GuardFails(r) ==
    IF run[r].step = 0 /\ run[r].mode = "cached"
    THEN run' = [run EXCEPT ![r].pc = "local", ![r].mode = "tests",
                            ![r].snap = None, ![r].gate = None, ![r].report = None]
    ELSE Blocks(r)

\* run_initial_closure_guard: reuse the cached evidence when it is valid, else run the tests.
ChooseEvidence(r) ==
    /\ run[r].pc = "local" /\ run[r].mode = None
    /\ run' = [run EXCEPT ![r].mode = IF CacheState(run[r].cur) = "valid" THEN "cached" ELSE "tests"]
    /\ UNCHANGED <<repo, remote, files, tested, env, disturbed>>

\* The guard reads the checkout and, unless it is to run the tests, the prior evidence,
\* whatever that file holds by now.
GuardLocal(r) ==
    /\ run[r].pc = "local" /\ run[r].mode # None
    /\ IF RunsTests(r)
       THEN run' = [run EXCEPT ![r].pc = "tests", ![r].snap = LocalGit]
       ELSE IF Evidence(r) \in {None, Torn} THEN GuardFails(r)
       ELSE run' = [run EXCEPT ![r].pc = "observe", ![r].snap = LocalGit,
                               ![r].gate = [passed |-> EvidencePasses(Evidence(r), head),
                                            head_after |-> Evidence(r).head_after]]
    /\ UNCHANGED <<repo, remote, files, tested, env, disturbed>>

\* run_canonical_tests: head_before now, head_after when the suites are done.
StartTests(r) ==
    /\ run[r].pc = "tests"
    /\ run' = [run EXCEPT ![r].pc = "testing", ![r].gate = [passed |-> FALSE, head_after |-> head]]
    /\ UNCHANGED <<repo, remote, files, tested, env, disturbed>>

\* Mutant: the exit code of the suites is not looked at.
EndTests_IgnoresResult(r) ==
    /\ run[r].pc = "testing"
    /\ \E ok \in BOOLEAN :
          /\ run' = [run EXCEPT ![r].pc = "observe",
                                ![r].gate = [passed |-> @.head_after = head, head_after |-> head]]
          /\ tested' = IF ok /\ run[r].gate.head_after = head THEN tested \cup {head} ELSE tested
    /\ UNCHANGED <<repo, remote, files, env, disturbed>>

EndTests(r) ==
    /\ run[r].pc = "testing"
    /\ \E ok \in BOOLEAN :
          LET passed == ok /\ run[r].gate.head_after = head IN
          /\ run' = [run EXCEPT ![r].pc = "observe",
                                ![r].gate = [passed |-> passed, head_after |-> head]]
          /\ tested' = IF passed THEN tested \cup {head} ELSE tested
    /\ UNCHANGED <<repo, remote, files, env, disturbed>>

\* The remote and GitHub are read, the status decided; the report file is truncated.
Observe(r) ==
    /\ run[r].pc = "observe"
    /\ \E ok \in {TRUE, ~CommandFails} :
          run' = [run EXCEPT ![r].pc = "report",
                             ![r].report = [status |-> DecideStatus(run[r].snap, run[r].gate.passed, ok, ok),
                                            head |-> run[r].snap.head,
                                            passed |-> run[r].gate.passed,
                                            head_after |-> run[r].gate.head_after]]
    /\ IF RunsTests(r) THEN cache' = Torn /\ UNCHANGED trans
       ELSE trans' = [trans EXCEPT ![run[r].step] = Torn] /\ UNCHANGED cache
    /\ UNCHANGED <<repo, remote, bplan, tested, env, disturbed>>

WriteReport(r) ==
    /\ run[r].pc = "report"
    /\ IF RunsTests(r) THEN cache' = run[r].report /\ UNCHANGED trans
       ELSE trans' = [trans EXCEPT ![run[r].step] = run[r].report] /\ UNCHANGED cache
    /\ Goto(r, "load")
    /\ UNCHANGED <<repo, remote, bplan, tested, env, disturbed>>

\* The workflow loads whatever the file holds by now and compares it with the exit
\* code of its own guard.
Loaded(r) == IF RunsTests(r) THEN cache ELSE trans[run[r].step]

ReportAccepted(r, rep) ==
    /\ rep \notin {None, Torn}
    /\ rep.status \in EXPECTED_STATES
    /\ (rep.status = "RELEASE_CLOSED") <=> (run[r].report.status = "RELEASE_CLOSED")
    /\ rep.passed
    /\ rep.head = run[r].cur

LoadReport(r) ==
    /\ run[r].pc = "load"
    /\ IF ReportAccepted(r, Loaded(r))
       THEN run' = [run EXCEPT ![r].pc = "act", ![r].status = Loaded(r).status,
                               ![r].snap = None, ![r].gate = None, ![r].report = None]
       ELSE GuardFails(r)
    /\ UNCHANGED <<repo, remote, files, tested, env, disturbed>>
-----------------------------------------------------------------------------
(***************************************************************************)
(* The transitions.  Acts(r, a): the loop of execute asks for action a.    *)
(***************************************************************************)
Acts(r, a) ==
    /\ run[r].pc = "act"
    /\ run[r].step <= MaxTransitions
    /\ ExpectedAction[run[r].status] = a

\* Mutant: the loop goes on beyond max_transitions.
NextGuard_Unbounded(r) ==
    run' = [run EXCEPT ![r].pc = "local", ![r].status = None,
                       ![r].step = IF @ < MaxTransitions THEN @ + 1 ELSE @]

\* A transition succeeded: the next guard, one step further.
NextGuard(r) == run' = [run EXCEPT ![r].pc = "local", ![r].step = @ + 1, ![r].status = None]
\* The effect happened; the command may still be reported as failed.
Done(r) == NextGuard(r) \/ MayFail(r)

TransitionsExceeded(r) ==
    /\ run[r].pc = "act" /\ run[r].step > MaxTransitions
    /\ Blocks(r)
    /\ UNCHANGED <<repo, remote, files, tested, env, disturbed>>

\* ensure_beta_plan looks only at the existence of the file.
EnsureBetaPlan(r) ==
    /\ Acts(r, "push_main") /\ bplan = None
    /\ Goto(r, "plan")
    /\ UNCHANGED <<repo, remote, files, tested, env, disturbed>>

CheckPush(r) ==
    /\ run[r].pc = "pushcheck" \/ (Acts(r, "push_main") /\ bplan # None)
    /\ IF Behind(track, head) = 0 /\ Ahead(track, head) = 1 THEN Goto(r, "push") ELSE Blocks(r)
    /\ UNCHANGED <<repo, remote, files, tested, env, disturbed>>

\* beta git-push: git push <remote> <branch> of the plan, never forced.
GitPushAccepted == bplan = "plan" /\ IsPrefix(main, head)

\* The push of the branch, whatever it holds by now; it moves the tracking ref too.
PushMain(r) ==
    /\ run[r].pc = "push"
    /\ IF GitPushAccepted
       THEN /\ main' = head
            /\ \/ track' = head /\ Goto(r, "pushed")
               \/ track' \in {track, head} /\ MayFail(r)
       ELSE Blocks(r) /\ UNCHANGED <<main, track>>
    /\ UNCHANGED <<head, planned, stray, tag, rtag, rel, files, tested, env, disturbed>>

\* git fetch: somebody else may have pushed in between.
FetchMain(r) ==
    /\ run[r].pc = "pushed"
    /\ \/ track' = main /\ NextGuard(r)
       \/ track' \in {track, main} /\ MayFail(r)
    /\ UNCHANGED <<head, planned, stray, tag, remote, files, tested, env, disturbed>>

CreateTag(r) ==
    /\ Acts(r, "create_tag")
    /\ CASE tag = None ->
              /\ tag' = [target |-> run[r].cur, annotated |-> TRUE, by |-> "workflow"]
              /\ Done(r)
         [] tag # None /\ tag.target = run[r].cur /\ tag.annotated -> NextGuard(r) /\ UNCHANGED tag
         [] OTHER -> Blocks(r) /\ UNCHANGED tag
    /\ UNCHANGED <<head, planned, stray, track, remote, files, tested, env, disturbed>>

PushTag(r) ==
    /\ Acts(r, "push_tag")
    /\ IF tag # None /\ rtag \in {None, tag}
       THEN rtag' = tag /\ Done(r)
       ELSE Blocks(r) /\ UNCHANGED rtag
    /\ UNCHANGED <<repo, main, rel, files, tested, env, disturbed>>

\* gh release create --verify-tag --latest
PublishRelease(r) ==
    /\ Acts(r, "publish_release")
    /\ IF rtag # None /\ rel.state = "none"
       THEN /\ rel' = [state |-> "published", titled |-> TRUE, latest |-> TRUE, by |-> "workflow"]
            /\ Done(r)
       ELSE Blocks(r) /\ UNCHANGED rel
    /\ UNCHANGED <<repo, main, rtag, files, tested, env, disturbed>>

\* gh release edit --latest
PromoteLatest(r) ==
    /\ Acts(r, "promote_latest")
    /\ IF rel.state # "none"
       THEN rel' = [rel EXCEPT !.latest = TRUE] /\ Done(r)
       ELSE Blocks(r) /\ UNCHANGED rel
    /\ UNCHANGED <<repo, main, rtag, files, tested, env, disturbed>>

\* verify_final, first half: HEAD, the remote branch and the tags.
VerifyRefs(r) ==
    /\ Acts(r, "complete")
    /\ IF /\ head = run[r].cur /\ main = run[r].cur
          /\ tag # None /\ tag.target = run[r].cur
          /\ rtag = tag /\ rtag.annotated
       THEN Goto(r, "verify") ELSE Blocks(r)
    /\ UNCHANGED <<repo, remote, files, tested, env, disturbed>>

\* verify_final, second half: the release, the working tree and the tracking ref.
VerifyRelease(r) ==
    /\ run[r].pc = "verify"
    /\ IF /\ rel.state = "published" /\ rel.titled /\ rel.latest
          /\ Clean /\ track = head
       THEN Goto(r, "closed") ELSE Blocks(r)
    /\ UNCHANGED <<repo, remote, files, tested, env, disturbed>>

\* A guard or a read-only query that times out (run_logged raises).
QueryFails(r) ==
    /\ CommandFails
    /\ run[r].pc \in {"plan", "stage", "commit", "push", "act", "verify"}
    /\ Blocks(r)
    /\ UNCHANGED <<repo, remote, files, tested, env, disturbed>>

GuardTimesOut(r) ==
    /\ CommandFails
    /\ run[r].pc \in {"tests", "testing", "observe"}
    /\ GuardFails(r)
    /\ UNCHANGED <<repo, remote, files, tested, env, disturbed>>
-----------------------------------------------------------------------------
(***************************************************************************)
(* Faults and outside actors.                                              *)
(***************************************************************************)
Crash(r) ==
    /\ "crash" \in env.faults
    /\ run[r].pc \notin Ended
    /\ run' = [run EXCEPT ![r] = Idle]
    /\ UNCHANGED <<repo, remote, files, tested, env, disturbed>>

Disturbs(actor) ==
    /\ actor \in env.faults
    /\ disturbed < env.disturbances
    /\ disturbed' = disturbed + 1

\* Somebody else pushes to the branch.
UpstreamPush ==
    /\ Disturbs("upstream")
    /\ Len(main) < MaxCommits
    /\ main' = Append(main, "up")
    /\ UNCHANGED <<repo, rtag, rel, files, tested, run, env>>

\* Somebody else pushes an annotated tag of that name.
UpstreamTag ==
    /\ Disturbs("upstream")
    /\ rtag = None
    /\ rtag' = [target |-> main, annotated |-> TRUE, by |-> "outside"]
    /\ UNCHANGED <<repo, main, rel, files, tested, run, env>>

\* A developer works in the checkout: a commit (with whatever is staged), a stray edit.
\* A developer who rewrites the branch (reset, amend), pushes it by hand or makes an
\* annotated tag of the version takes the release over; that is not modelled.
DeveloperCommit ==
    /\ Disturbs("developer")
    /\ Len(head) < MaxCommits
    /\ head' = Append(head, "own")
    /\ planned' = IF planned = "staged" THEN "committed" ELSE planned
    /\ UNCHANGED <<stray, track, tag, remote, files, tested, run, env>>

StrayEdit ==
    /\ Disturbs("developer")
    /\ stray' = ~stray
    /\ UNCHANGED <<head, planned, track, tag, remote, files, tested, run, env>>

\* What the status report asks for after a stopped staging: git reset.
RestoreScope ==
    /\ planned \in {"partial", "staged"}
    /\ planned' = "edited"
    /\ UNCHANGED <<head, stray, track, tag, remote, files, tested, run, env, disturbed>>

LightweightTag ==
    /\ Disturbs("lightweight")
    /\ tag = None
    /\ tag' = [target |-> head, annotated |-> FALSE, by |-> "outside"]
    /\ UNCHANGED <<head, planned, stray, track, remote, files, tested, run, env>>

\* Another release becomes the latest, as often as it likes.
Demote ==
    /\ "github" \in env.faults /\ rel.latest
    /\ rel' = [rel EXCEPT !.latest = FALSE]
    /\ UNCHANGED <<repo, main, rtag, files, tested, run, env, disturbed>>

\* Somebody else makes the release, perhaps as a draft or under another title.
OtherRelease ==
    /\ Disturbs("github")
    /\ rel.state = "none"
    /\ \E s \in {"draft", "prerelease", "published"}, t \in BOOLEAN :
          rel' = [state |-> s, titled |-> t, latest |-> FALSE, by |-> "outside"]
    /\ UNCHANGED <<repo, main, rtag, files, tested, run, env>>

\* sandbox/ is not under version control and may be emptied.
CleanSandbox ==
    /\ Disturbs("sandbox")
    /\ bplan' = None /\ cache' = None /\ trans' = [n \in Steps |-> None]
    /\ UNCHANGED <<repo, remote, tested, run, env>>

Step(r) ==
    \/ FetchPreflight(r) \/ Preflight(r)
    \/ TruncateGitPlan(r) \/ WriteGitPlan(r) \/ GitStage(r) \/ CheckStaged(r) \/ GitCommit(r) \/ VerifyCommit(r)
    \/ ChooseEvidence(r) \/ GuardLocal(r) \/ StartTests(r) \/ EndTests(r)
    \/ Observe(r) \/ WriteReport(r) \/ LoadReport(r)
    \/ EnsureBetaPlan(r) \/ CheckPush(r) \/ PushMain(r) \/ FetchMain(r) \/ CreateTag(r) \/ PushTag(r)
    \/ PublishRelease(r) \/ PromoteLatest(r) \/ TransitionsExceeded(r)
    \/ VerifyRefs(r) \/ VerifyRelease(r) \/ QueryFails(r) \/ GuardTimesOut(r)

Outside ==
    \/ UpstreamPush \/ UpstreamTag \/ DeveloperCommit \/ StrayEdit \/ RestoreScope
    \/ LightweightTag \/ Demote \/ OtherRelease \/ CleanSandbox

Next == Outside \/ \E r \in Run : (r \in env.live /\ Start(r)) \/ Step(r) \/ Crash(r)

Spec == Init /\ [][Next]_vars
-----------------------------------------------------------------------------
(***************************************************************************)
(* Properties.                                                             *)
(***************************************************************************)
Reports == Report \cup {None, Torn}
Memory ==
    [pc : Ended \cup {"fetch", "preflight", "plan", "planning", "stage", "staged", "commit",
                      "committed", "local", "tests", "testing", "observe", "report",
                      "load", "act", "pushcheck", "push", "pushed", "verify"},
     cur : {None, <<"rel">>}, status : EXPECTED_STATES \cup {None}, step : Steps,
     mode : {None, "cached", "tests"},
     snap : [head : Branches, clean : BOOLEAN, synced : BOOLEAN, tag : Tag \cup {None}] \cup {None},
     gate : [passed : BOOLEAN, head_after : Branches] \cup {None},
     report : Report \cup {None}]

\* Every ref, file and memory keeps its type; in particular an execution only ever
\* works for the exactly planned commit (current_head).
TypeOK ==
    /\ head \in Branches /\ track \in Branches /\ main \in Branches
    /\ planned \in Planned /\ stray \in BOOLEAN
    /\ tag \in Tag \cup {None} /\ rtag \in Tag \cup {None} /\ rel \in Release
    /\ bplan \in {None, Torn, "plan"} /\ cache \in Reports /\ trans \in [Steps -> Reports]
    /\ tested \subseteq Branches
    /\ run \in [Run -> Memory]
    /\ env \in Environments /\ disturbed \in 0 .. env.disturbances

\* The tag and the release the workflow puts on the remote belong to the planned commit,
\* and the canonical gate has passed on that very commit, whatever evidence was reused,
\* torn, stale or written by another execution (load_test_evidence, push_tag,
\* publish_release).
PublishedIsTested ==
    /\ rtag # None /\ rtag.by = "workflow" => Aligned(rtag.target) /\ rtag.target \in tested
    /\ rel.by = "workflow" => rtag # None /\ Aligned(rtag.target) /\ rtag.target \in tested

\* An execution that reported RELEASE_CLOSED told the truth about everything nobody can
\* undo without force: the tested commit is on the remote branch, the annotated tag there
\* is the local one and names it, the release is published (verify_final).
ClosedIsTrue ==
    \A r \in Run : run[r].pc = "closed" =>
        /\ run[r].cur \in tested
        /\ IsPrefix(run[r].cur, main)
        /\ rtag = tag /\ rtag.target = run[r].cur /\ rtag.annotated
        /\ rel.state = "published" /\ rel.titled

\* --status and preflight were written apart and must agree: a release commit that the
\* status calls safe to resume is accepted by the preflight, for the remote branch as it
\* is (--allow-network) and for the remote-tracking ref (offline).  Of the base this cannot
\* be said: NEEDS_GIT_DELIVERY is called resumable whatever the tracking ref is, and the
\* preflight refuses a base that is not synchronised with it.
ResumeIsAccepted ==
    head # Base => \A network \in BOOLEAN :
        SafeToResume(network) => PreflightMode(IF network THEN main ELSE track) = "resume_committed"
==============================================================================
