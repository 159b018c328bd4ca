--------------------------- MODULE PackageDelivery ---------------------------
(***************************************************************************)
(* From an extracted package to a closed release: the wrapper of           *)
(* tools/release_delivery runs the installer of tools/package_installation,*)
(* focused suites and a smoke test on the planned base, and then the       *)
(* supervised release (SupervisedRelease) as a child process; on the       *)
(* release commit it asks --status and resumes.  The installer runs a      *)
(* bounded helper that edits the remaining paths, and must not touch the   *)
(* files the package brought (the direct paths).                           *)
(*                                                                         *)
(* A wrapper that dies leaves its children at work: the release it started *)
(* (deliver[r].child) goes on, and so may its installer and the helper.    *)
(***************************************************************************)
EXTENDS SupervisedRelease

\* The installer that outlived its wrapper; no more than one is followed at a time.
CONSTANT Orphan
ASSUME OrphanAssumption == Orphan \notin Run

Installer == Run \cup {Orphan}

VARIABLES
    direct,     \* content of the direct paths: as packaged or changed
    applied,    \* history: how many helper runs changed a path of theirs in this extraction
    overlapped, \* history: two helpers were at work on this extraction at the same time
    deliver     \* memory of every wrapper and of the orphaned installer

dvars == <<direct, applied, overlapped, deliver>>
allvars == <<vars, dvars>>

\* pc of the wrapper and of the installer it runs; the SHA-256 of the direct paths the
\* installer took before the helper; whether its helper has changed a path of its own
\* (history); the execution of the release it waits for.
DIdle == [pc |-> "idle", before |-> None, acted |-> FALSE, child |-> None]
DEnded == {"idle", "closed", "blocked"}

DInit ==
    /\ Init
    /\ direct = "package" /\ applied = 0 /\ overlapped = FALSE
    /\ deliver = [p \in Installer |-> DIdle]

DGoto(p, pc) == deliver' = [deliver EXCEPT ![p].pc = pc]
\* DeliveryError or InstallationError: a blocked report, and the process ends.
DBlocks(p) == deliver' = [deliver EXCEPT ![p] = IF p = Orphan THEN DIdle ELSE [DIdle EXCEPT !.pc = "blocked"]]
DMayFail(p) == CommandFails /\ DBlocks(p)
package == <<direct, applied, overlapped>>

\* DeliveryRunner.execute: tokens, alignment of the two plans, and which half to run.
StartDelivery(r) ==
    /\ r \in env.live /\ env.wrapped
    /\ deliver[r].pc \in DEnded
    /\ DGoto(r, IF head = Base THEN "inspect" ELSE "prestatus") \/ DMayFail(r)
    /\ UNCHANGED <<vars, package>>

\* determine_state over the unstaged and untracked paths.
DetermineState ==
    CASE planned = "extracted" /\ ~stray -> "READY_FOR_HELPER_APPLY"
      [] ScopeMatches -> "INSTALLED"
      [] OTHER -> "BLOCKED_SCOPE_MISMATCH"
\* collect_staged_scope
NothingStaged == planned \notin {"partial", "staged"}

HelperAtWork(p) == deliver[p].pc = "helper"

\* The installer goes on to the helper, or past it.
Proceeds(p, pc) ==
    /\ deliver' = [deliver EXCEPT ![p] = [DIdle EXCEPT !.pc = pc, !.before = direct]]
    /\ overlapped' = (overlapped \/ (pc = "helper" /\ \E q \in Installer \ {p} : HelperAtWork(q)))

\* Mutant: the helper runs again over what it already changed.
InspectPackage_HelpsAgain(p) ==
    /\ deliver[p].pc = "inspect"
    /\ IF head = Base /\ track = Base /\ NothingStaged /\ ~stray
       THEN Proceeds(p, "helper")
       ELSE DBlocks(p) /\ UNCHANGED overlapped
    /\ UNCHANGED <<vars, direct, applied>>

\* inspect_or_install up to the helper: branch, base and index are checked, the names of
\* the changed paths decide, the direct paths are hashed as they are now; an installed
\* package skips the helper.
InspectPackage(p) ==
    /\ deliver[p].pc = "inspect"
    /\ IF head = Base /\ track = Base /\ NothingStaged /\ DetermineState # "BLOCKED_SCOPE_MISMATCH"
       THEN Proceeds(p, IF DetermineState = "INSTALLED" THEN "confirm" ELSE "helper")
       ELSE DBlocks(p) /\ UNCHANGED overlapped
    /\ UNCHANGED <<vars, direct, applied>>

\* The helper writes: paths of its own, direct paths if it misbehaves, at any time and as
\* often as it likes.  What it writes after the paths were staged makes the checkout dirty.
HelperWrites(p, own, foreign) ==
    /\ HelperAtWork(p) /\ (own \/ foreign)
    /\ LET late == planned \in {"partial", "staged", "committed"} IN
       /\ planned' \in IF ~own \/ late \/ planned = "edited" THEN {planned} ELSE {"halfway", "edited"}
       /\ stray' = (stray \/ (late /\ (own \/ foreign)))
    /\ direct' = IF foreign THEN "changed" ELSE direct
    /\ applied' = IF own /\ ~deliver[p].acted THEN applied + 1 ELSE applied
    /\ deliver' = [deliver EXCEPT ![p].acted = @ \/ own]
    /\ UNCHANGED <<head, track, tag, remote, files, tested, run, env, disturbed, overlapped>>

\* run_helper ends with the helper: it exits, fails or is killed by the timeout, wherever
\* it has got to.
HelperEnds(p) ==
    /\ HelperAtWork(p)
    /\ DGoto(p, "confirm") \/ DMayFail(p)
    /\ UNCHANGED <<vars, package>>

\* The rest of inspect_or_install and the wrapper's reading of its report, which an
\* orphaned installer may have overwritten with its own.
ConfirmInstalled(p) ==
    /\ deliver[p].pc = "confirm"
    /\ \/ /\ DetermineState = "INSTALLED" /\ direct = deliver[p].before /\ NothingStaged
          /\ deliver' = [deliver EXCEPT ![p] = IF p = Orphan THEN DIdle ELSE [DIdle EXCEPT !.pc = "accept"]]
       \/ /\ \/ ~(DetermineState = "INSTALLED" /\ direct = deliver[p].before /\ NothingStaged)
             \/ deliver[Orphan].pc \notin DEnded
          /\ DBlocks(p)
    /\ UNCHANGED <<vars, package>>

\* run_focused_suites and the clean-install smoke.
Accept(r) ==
    /\ deliver[r].pc = "accept"
    /\ DGoto(r, "release") \/ DBlocks(r)
    /\ UNCHANGED <<vars, package>>

\* The resumed half: --status --allow-network must call the aligned commit safe.
PreStatus(r) ==
    /\ deliver[r].pc = "prestatus"
    /\ \E remoteOk \in {TRUE, ~CommandFails} :
          LET status == InspectReleaseStatus(TRUE, remoteOk) IN
          IF Aligned(head) /\ status \notin {"BLOCKED", "NEEDS_PACKAGE_APPLY"}
          THEN DGoto(r, IF status = "RELEASE_CLOSED" THEN "closed" ELSE "release")
          ELSE DBlocks(r)
    /\ UNCHANGED <<vars, package>>

\* The supervised release runs as a child process, in its own memory unless the release a
\* dead wrapper left behind is still using that one.
StartRelease(r) ==
    /\ deliver[r].pc = "release"
    /\ \E q \in Run :
          /\ q = r \/ run[r].pc \notin Ended
          /\ \A w \in Run : deliver[w].pc = "releasing" => deliver[w].child # q
          /\ Start(q)
          /\ deliver' = [deliver EXCEPT ![r].pc = "releasing", ![r].child = q]
    /\ UNCHANGED package

\* It ends: only a closed release goes on.
ReleaseEnds(r) ==
    /\ deliver[r].pc = "releasing" /\ run[deliver[r].child].pc \in Ended
    /\ IF run[deliver[r].child].pc = "closed" THEN DGoto(r, "status") ELSE DBlocks(r)
    /\ UNCHANGED <<vars, package>>

\* The final read-only status.
FinalStatus(r) ==
    /\ deliver[r].pc = "status"
    /\ \E remoteOk \in {TRUE, ~CommandFails} :
          IF InspectReleaseStatus(TRUE, remoteOk) = "RELEASE_CLOSED" THEN DGoto(r, "closed") ELSE DBlocks(r)
    /\ UNCHANGED <<vars, package>>

\* The wrapper dies.  The release it started goes on (Crash ends that one), and so may the
\* installer with its helper.
DCrash(r) ==
    /\ Disturbs("wrapper")
    /\ deliver[r].pc \notin DEnded
    /\ \/ deliver' = [deliver EXCEPT ![r] = DIdle]
       \/ /\ deliver[r].pc \in {"inspect", "helper", "confirm"} /\ deliver[Orphan].pc \in DEnded
          /\ deliver' = [deliver EXCEPT ![r] = DIdle, ![Orphan] = deliver[r]]
    /\ UNCHANGED <<repo, remote, files, tested, run, env, package>>

\* The operator restores the base and extracts the package again.
Reextract ==
    /\ env.wrapped /\ head = Base
    /\ planned' = "extracted" /\ stray' = FALSE /\ direct' = "package" /\ applied' = 0
    /\ overlapped' = \E p, q \in Installer : p # q /\ HelperAtWork(p) /\ HelperAtWork(q)
    /\ deliver' = [p \in Installer |-> [deliver[p] EXCEPT !.acted = FALSE]]
    /\ UNCHANGED <<head, track, tag, remote, files, tested, run, env, disturbed>>

InstallStep(p) ==
    \/ InspectPackage(p) \/ HelperEnds(p) \/ ConfirmInstalled(p)

DStep(r) ==
    \/ InstallStep(r) \/ Accept(r) \/ PreStatus(r)
    \/ StartRelease(r) \/ ReleaseEnds(r) \/ FinalStatus(r)

ReleaseNext ==
    /\ \/ Outside
       \/ \E r \in Run : Step(r) \/ Crash(r)
       \/ \E r \in Run : ~env.wrapped /\ r \in env.live /\ Start(r)
    /\ UNCHANGED dvars

DNext ==
    \/ Reextract \/ ReleaseNext
    \/ InstallStep(Orphan)
    \/ \E p \in Installer, own, foreign \in BOOLEAN : HelperWrites(p, own, foreign)
    \/ \E r \in Run : StartDelivery(r) \/ DStep(r) \/ DCrash(r)

DSpec == DInit /\ [][DNext]_allvars
\* Every command of the wrapper and of the workflow, the helper included, has a timeout, so
\* both keep moving; a child process starts at once, and waits here only for a free memory.
DFairSpec ==
    /\ DSpec
    /\ WF_allvars(InstallStep(Orphan))
    /\ \A r \in Run : /\ WF_allvars(DStep(r)) /\ WF_allvars(Step(r) /\ UNCHANGED dvars)
                      /\ SF_allvars(StartRelease(r))
-----------------------------------------------------------------------------
\* A report of closure is true, the workflow's (ClosedIsTrue) and the wrapper's:
\* PACKAGE_RELEASE_CLOSED is true also when the release was found closed by --status
\* alone: the tested commit is on the remote branch under the version tag and released.
DeliveredIsPublished ==
    /\ ClosedIsTrue
    /\ \A r \in Run : deliver[r].pc = "closed" =>
        /\ rtag = tag /\ rtag.target \in tested /\ IsPrefix(rtag.target, main)
        /\ rel.state = "published" /\ rel.titled

\* Whatever fails, times out, dies or is retried, no second helper run writes over what a
\* first one changed of the helper's paths, unless two installers were at work at the same
\* time: determine_state and not a record of the run decides.  (A run that changed nothing
\* but direct paths may be repeated, and the retry hashes those as they are then.)
HelperActsOnce == applied <= 1 \/ overlapped

\* Every delivery ends, with a report or a refusal, even if somebody keeps demoting the
\* release: max_transitions bounds the loop of execute, and a guard is not retried.
DeliveryEnds == \A r \in Run : (deliver[r].pc \notin DEnded) ~> (deliver[r].pc \in DEnded)
==============================================================================
