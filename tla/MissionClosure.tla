--------------------------- MODULE MissionClosure ---------------------------
(***************************************************************************)
(* From the review proposal to the closed mission: the lifecycle half of   *)
(* a conversational Hokage session (LifecycleStore, ContinuityStore), the  *)
(* beta runtime's review command, the Teachback gate and the mission       *)
(* closure gate, over the files of one mission whose actions are all       *)
(* settled.  The action queue before it is module ActionQueue.             *)
(*                                                                         *)
(* A file holds Absent, Torn (truncated, or cut by a death while it was    *)
(* written) or its content, reduced to what a later step compares: a       *)
(* SHA-256 is the content hashed, a time stamp a member of Stamps (two     *)
(* runs may well stamp the same second).  Plain writes (write_text) are    *)
(* two steps, replacements of a temporary file one.  An error in a         *)
(* session, or in the tool it runs, ends the session: interactive()        *)
(* catches none of them.                                                   *)
(***************************************************************************)
EXTENDS Naturals, Sequences, FiniteSets

CONSTANTS
    Session,        \* terminals that may have a session open
    Explanation,    \* what the human may type after TEACHBACK:
    Stamps,         \* the seconds a closure may be stamped with
    MaxReviews,     \* bound: review records written
    Environments    \* [sessions open at once, openings, crashes] allowed

ASSUME BoundAssumption ==
    MaxReviews \in Nat \ {0} /\ Stamps # {} /\ IsFiniteSet(Session)

VARIABLES
    env,      \* the environment of this behaviour
    disk,     \* the mission's files
    proc,     \* the sessions
    said,     \* what the human has typed so far (history)
    raced,    \* gates two sessions were in at the same time (history)
    opened,   \* sessions opened so far
    crashes   \* sessions killed so far

vars == <<env, disk, proc, said, raced, opened, crashes>>

Absent == [is |-> "absent"]
Torn == [is |-> "torn"]

\* Mutant: the report is written before the status and the notification.
OUTPUTS_ReportFirst == <<"memory", "decision", "pack", "report", "status", "notification">>

\* The files ensure_new_or_identical_* writes, in the order they are written.
OUTPUTS == <<"memory", "decision", "pack", "status", "notification", "report">>
Outputs == {OUTPUTS[i] : i \in 1..Len(OUTPUTS)}
Files == {"user", "active", "proposal", "review", "request", "teachback",
          "closure"} \cup Outputs

Readable(f) == disk[f] \notin {Absent, Torn}
Status(f) == IF Readable(f) THEN disk[f].status ELSE "unreadable"

\* A complete review record of this phase is approved and names its reviewer; a
\* complete Teachback record is one the gate validated against the manifest.
ApprovedReview == Readable("review")
ValidRecord == Readable("teachback")
Eligible == ApprovedReview /\ ValidRecord

\* What a closure fingerprint names: the review and Teachback files as hashed.
\* The execution summary never changes in this phase, the actor and the reason
\* are the proposal's.
Fingerprints == [review : 1..MaxReviews, teachback : Explanation]
NoFp == [review |-> 0, teachback |-> "none"]

Idle == [pc |-> "off", offer |-> "none", mission |-> FALSE, text |-> "none",
         fp |-> NoFp, id |-> NoFp, at |-> 0, k |-> 0,
         file |-> "none", val |-> Absent, then |-> "off"]

Init ==
    /\ env \in Environments
    /\ disk = [f \in Files |->
                 CASE f = "user" -> [is |-> "user", active |-> TRUE]
                   [] f = "active" -> [is |-> "active", state |-> "awaiting_review_approval"]
                   [] f = "proposal" -> [is |-> "proposal", status |-> "proposed", sha |-> 0]
                   [] OTHER -> Absent]
    /\ proc = [s \in Session |-> Idle]
    /\ said = {}
    /\ raced = {}
    /\ opened = 0
    /\ crashes = 0

Go(s, pc) == proc' = [proc EXCEPT ![s].pc = pc]
Raise(s) == proc' = [proc EXCEPT ![s] = Idle]
Quiet == UNCHANGED <<env, said, raced, opened, crashes>>

-----------------------------------------------------------------------------
(* write_text(): the file is truncated, then written.                      *)

Writing(s, file, val, then) ==
    proc' = [proc EXCEPT ![s].pc = "truncate", ![s].file = file,
                         ![s].val = val, ![s].then = then]

Truncate(s) ==
    /\ proc[s].pc = "truncate"
    /\ disk' = [disk EXCEPT ![proc[s].file] = Torn]
    /\ Go(s, "write")
    /\ Quiet

Write(s) ==
    /\ proc[s].pc = "write"
    /\ disk' = [disk EXCEPT ![proc[s].file] = proc[s].val]
    /\ proc' = [proc EXCEPT ![s].pc = proc[s].then, ![s].file = "none",
                            ![s].val = Absent, ![s].then = "off"]
    /\ Quiet

-----------------------------------------------------------------------------
(* The session: opening, the prompt, /exit.                                *)

Open(s) ==
    /\ proc[s].pc = "off"
    /\ opened < env.openings
    /\ Cardinality({t \in Session : proc[t].pc # "off"}) < env.sessions
    /\ disk["user"] # Torn
    /\ disk["active"] # Torn
    /\ opened' = opened + 1
    /\ proc' = [proc EXCEPT ![s].pc = "start", ![s].mission = disk["user"].active]
    /\ UNCHANGED <<env, disk, said, raced, crashes>>

\* load_user_state() before the write: what another session changes in between
\* is written back.
StartSession(s) ==
    /\ proc[s].pc = "start"
    /\ IF Readable("user") THEN Writing(s, "user", disk["user"], "prompt")
                           ELSE Raise(s)
    /\ Quiet /\ UNCHANGED disk

Offer(s) ==
    IF ~proc[s].mission THEN "none"
    ELSE IF Status("proposal") = "proposed" THEN "review"
    ELSE IF Status("request") = "awaiting_user_explanation" THEN "teachback"
    ELSE IF Status("closure") = "proposed" THEN "closure"
    ELSE "none"

Prompt(s) ==
    /\ proc[s].pc = "prompt"
    /\ IF proc[s].mission /\ \E f \in {"proposal", "request", "closure"} : disk[f] = Torn
       THEN Raise(s)
       ELSE proc' = [proc EXCEPT ![s].pc = "ask", ![s].offer = Offer(s),
                       ![s].id = IF Offer(s) = "closure" THEN disk["closure"].id ELSE NoFp]
    /\ Quiet /\ UNCHANGED disk

Exit(s) ==
    /\ proc[s].pc = "ask"
    /\ Go(s, "handoff")
    /\ Quiet /\ UNCHANGED disk

RecordHandoff(s) ==
    /\ proc[s].pc = "handoff"
    /\ IF Readable("user") THEN Writing(s, "user", disk["user"], "off")
                           ELSE Raise(s)
    /\ Quiet /\ UNCHANGED disk

UpdateActiveState(s, state) ==
    IF Readable("active") THEN Writing(s, "active", [is |-> "active", state |-> state], "prompt")
                          ELSE Raise(s)

-----------------------------------------------------------------------------
(* Review: approve_review(), request_review_changes().                     *)

Typed(s, offer, word, pc) ==
    /\ proc[s].pc = "ask"
    /\ proc[s].offer = offer
    /\ said' = said \cup {word}
    /\ Go(s, pc)

ApproveReview(s) ==
    /\ Typed(s, "review", <<"review">>, "beta review")
    /\ UNCHANGED <<env, disk, raced, opened, crashes>>

RequestReviewChanges(s) ==
    /\ proc[s].pc = "ask"
    /\ proc[s].offer = "review"
    /\ said' = said \cup {<<"changes">>}
    /\ Writing(s, "proposal",
               [is |-> "proposal", status |-> "changes_requested", sha |-> 0], "changes")
    /\ UNCHANGED <<env, disk, raced, opened, crashes>>

ChangesRequested(s) ==
    /\ proc[s].pc = "changes"
    /\ UpdateActiveState(s, "review_changes_requested")
    /\ Quiet /\ UNCHANGED disk

\* cmd_review with --force: a record of the same review id is overwritten, with
\* a new generated_at and so a new hash.
Version == IF disk["review"] \in {Absent, Torn} THEN 0 ELSE disk["review"].version

CmdReview(s) ==
    /\ proc[s].pc = "beta review"
    /\ IF Version < MaxReviews
       THEN Writing(s, "review", [is |-> "review", version |-> Version + 1], "mark review")
       ELSE Raise(s)
    /\ Quiet /\ UNCHANGED disk

\* Mutant: the hash of the first record is kept although --force replaced it.
MarkReviewRecorded_FirstHash(s) ==
    /\ proc[s].pc = "mark review"
    /\ IF Readable("proposal") /\ Readable("review")
       THEN Writing(s, "proposal",
                    [is |-> "proposal", status |-> "recorded", sha |-> 1], "request")
       ELSE Raise(s)
    /\ Quiet /\ UNCHANGED disk

\* Mutant: the Teachback request is not built after the review.
MarkReviewRecorded_NoRequest(s) ==
    /\ proc[s].pc = "mark review"
    /\ IF Readable("proposal") /\ Readable("review")
       THEN Writing(s, "proposal",
                    [is |-> "proposal", status |-> "recorded", sha |-> Version], "reviewed")
       ELSE Raise(s)
    /\ Quiet /\ UNCHANGED disk

MarkReviewRecorded(s) ==
    /\ proc[s].pc = "mark review"
    /\ IF Readable("proposal") /\ ApprovedReview
       THEN Writing(s, "proposal",
                    [is |-> "proposal", status |-> "recorded", sha |-> Version], "request")
       ELSE Raise(s)
    /\ Quiet /\ UNCHANGED disk

BuildTeachbackRequest(s) ==
    /\ proc[s].pc = "request"
    /\ CASE disk["request"] = Torn -> Raise(s)
         [] Readable("request") -> Go(s, "reviewed")
         [] disk["request"] = Absent /\ Status("proposal") = "recorded" ->
              Writing(s, "request", [is |-> "request", status |-> "awaiting_user_explanation",
                                     sha |-> "none"], "reviewed")
         [] OTHER -> Raise(s)
    /\ Quiet /\ UNCHANGED disk

ReviewApproved(s) ==
    /\ proc[s].pc = "reviewed"
    /\ UpdateActiveState(s, "awaiting_teachback")
    /\ Quiet /\ UNCHANGED disk

-----------------------------------------------------------------------------
(* Teachback: record_teachback() and the Teachback gate it runs.           *)

Enter(s, gate, pcs) ==
    raced' = IF \E t \in Session \ {s} : proc[t].pc \in pcs \/ proc[t].then \in pcs
             THEN raced \cup {gate} ELSE raced

RecordTeachback(s) ==
    /\ proc[s].pc = "ask"
    /\ proc[s].offer = "teachback"
    /\ \E e \in Explanation :
         /\ said' = said \cup {<<"teachback", e>>}
         /\ proc' = [proc EXCEPT ![s].pc = "record", ![s].text = e]
    /\ Enter(s, "teachback", {"record", "mark teachback"})
    /\ UNCHANGED <<env, disk, opened, crashes>>

\* An existing record must hold the same human evidence; there is no force.
WriteTeachback(s) ==
    /\ proc[s].pc = "record"
    /\ CASE disk["teachback"] = Absent ->
              Writing(s, "teachback", [is |-> "teachback", text |-> proc[s].text],
                      "mark teachback")
         [] ValidRecord /\ disk["teachback"].text = proc[s].text ->
              Go(s, "mark teachback")
         [] OTHER -> Raise(s)
    /\ Quiet /\ UNCHANGED disk

MarkTeachbackRecorded(s) ==
    /\ proc[s].pc = "mark teachback"
    /\ IF Readable("request") /\ ValidRecord
       THEN Writing(s, "request", [is |-> "request", status |-> "recorded",
                                   sha |-> disk["teachback"].text], "propose closure")
       ELSE Raise(s)
    /\ Quiet /\ UNCHANGED disk

BuildClosureProposal(s) ==
    /\ proc[s].pc = "propose closure"
    /\ CASE Readable("closure") -> Go(s, "taught")
         [] disk["closure"] = Absent /\ Status("proposal") = "recorded"
                                     /\ Status("request") = "recorded" ->
              Writing(s, "closure",
                      [is |-> "closure", status |-> "proposed",
                       id |-> [review |-> disk["proposal"].sha,
                               teachback |-> disk["request"].sha]], "taught")
         [] OTHER -> Raise(s)
    /\ Quiet /\ UNCHANGED disk

\* Mutant: a passed Teachback closes the mission at once.
TeachbackRecorded_Closes(s) ==
    /\ proc[s].pc = "taught"
    /\ IF Readable("closure")
       THEN proc' = [proc EXCEPT ![s].pc = "validate", ![s].id = disk["closure"].id]
       ELSE Raise(s)
    /\ Quiet /\ UNCHANGED disk

TeachbackRecorded(s) ==
    /\ proc[s].pc = "taught"
    /\ UpdateActiveState(s, "awaiting_closure_approval")
    /\ Quiet /\ UNCHANGED disk

-----------------------------------------------------------------------------
(* Closure: approve_closure() and the closure gate it runs.                *)

Closing == {"validate", "hash", "gate", "check", "replace"}

ApproveClosure(s) ==
    /\ Typed(s, "closure", <<"closure">>, "validate")
    /\ Enter(s, "closure", Closing)
    /\ UNCHANGED <<env, disk, opened, crashes>>

\* The evidence files are parsed and validated ...
ValidateEvidence(s) ==
    /\ proc[s].pc = "validate"
    /\ IF Eligible THEN Go(s, "hash") ELSE Raise(s)
    /\ Quiet /\ UNCHANGED disk

\* ... and read again for their hashes.
BuildFingerprint(s) ==
    /\ proc[s].pc = "hash"
    /\ IF Eligible
       THEN proc' = [proc EXCEPT ![s].pc = "gate",
                       ![s].fp = [review |-> Version, teachback |-> disk["teachback"].text]]
       ELSE Raise(s)
    /\ Quiet /\ UNCHANGED disk

\* The report and the notification are named after the closure id: those of
\* another proposal are other files (the model keeps the last one written).
Found(s, f) ==
    IF f \in {"notification", "report"} /\ disk[f] # Absent /\ disk[f].id # proc[s].id
    THEN Absent ELSE disk[f]

\* The report of an identical closure is the answer; a report with another
\* fingerprint, or a closed status without a report, refuses.
CloseMission(s) ==
    /\ proc[s].pc = "gate"
    /\ IF Found(s, "report") # Absent
       THEN IF disk["report"].fp = proc[s].fp THEN Go(s, "mark closed") ELSE Raise(s)
       ELSE IF disk["status"] # Absent THEN Raise(s)
       ELSE \E t \in Stamps :
              proc' = [proc EXCEPT ![s].pc = "check", ![s].at = t, ![s].k = 1]
    /\ Quiet /\ UNCHANGED disk

\* What an output holds: every one is stamped, the decision, the status and the
\* report carry the fingerprint, the memory note the Teachback.
Content(s, f) ==
    [is |-> f, id |-> proc[s].id, at |-> proc[s].at,
     fp |-> CASE f \in {"decision", "status", "report"} -> proc[s].fp
              [] f = "memory" -> [NoFp EXCEPT !.teachback = proc[s].fp.teachback]
              [] OTHER -> NoFp]

NextOutput(s) ==
    IF proc[s].k = Len(OUTPUTS) THEN [proc[s] EXCEPT !.pc = "mark closed", !.k = 0]
                                ELSE [proc[s] EXCEPT !.pc = "check", !.k = @ + 1]

EnsureNewOrIdentical(s) ==
    /\ proc[s].pc = "check"
    /\ LET f == OUTPUTS[proc[s].k] IN
       CASE Found(s, f) = Absent -> Go(s, "replace")
         [] Found(s, f) = Content(s, f) -> proc' = [proc EXCEPT ![s] = NextOutput(s)]
         [] OTHER -> Raise(s)
    /\ Quiet /\ UNCHANGED disk

\* atomic_write, as one step: of two sessions in it at once (raced) the .tmp sibling
\* they share is not followed.
AtomicWrite(s) ==
    /\ proc[s].pc = "replace"
    /\ disk' = [disk EXCEPT ![OUTPUTS[proc[s].k]] = Content(s, OUTPUTS[proc[s].k])]
    /\ proc' = [proc EXCEPT ![s] = NextOutput(s)]
    /\ Quiet

MarkClosed(s) ==
    /\ proc[s].pc = "mark closed"
    /\ IF Readable("closure")
       THEN Writing(s, "closure", [disk["closure"] EXCEPT !.status = "closed"], "leave")
       ELSE Raise(s)
    /\ Quiet /\ UNCHANGED disk

MarkMissionClosed(s) ==
    /\ proc[s].pc = "leave"
    /\ IF Readable("user")
       THEN Writing(s, "user", [disk["user"] EXCEPT !.active = FALSE], "left")
       ELSE Raise(s)
    /\ Quiet /\ UNCHANGED disk

\* The active mission is marked too and the session lets go of the mission.
ClearActive(s) ==
    /\ proc[s].pc = "left"
    /\ IF Readable("active")
       THEN proc' = [proc EXCEPT ![s] = [Idle EXCEPT !.pc = "truncate", !.file = "active",
                       !.val = [is |-> "active", state |-> "closed"], !.then = "prompt"]]
       ELSE Raise(s)
    /\ Quiet /\ UNCHANGED disk

-----------------------------------------------------------------------------
\* The process is killed, wherever it stands: a file it truncated stays torn.
Crash(s) ==
    /\ proc[s].pc # "off"
    /\ crashes < env.crashes
    /\ crashes' = crashes + 1
    /\ Raise(s)
    /\ UNCHANGED <<env, disk, said, raced, opened>>

SessionNext(s) ==
    \/ Truncate(s) \/ Write(s)
    \/ Open(s) \/ StartSession(s) \/ Prompt(s) \/ Exit(s) \/ RecordHandoff(s)
    \/ ApproveReview(s) \/ RequestReviewChanges(s) \/ ChangesRequested(s)
    \/ CmdReview(s) \/ MarkReviewRecorded(s) \/ BuildTeachbackRequest(s) \/ ReviewApproved(s)
    \/ RecordTeachback(s) \/ WriteTeachback(s) \/ MarkTeachbackRecorded(s)
    \/ BuildClosureProposal(s) \/ TeachbackRecorded(s)
    \/ ApproveClosure(s) \/ ValidateEvidence(s) \/ BuildFingerprint(s) \/ CloseMission(s)
    \/ EnsureNewOrIdentical(s) \/ AtomicWrite(s)
    \/ MarkClosed(s) \/ MarkMissionClosed(s) \/ ClearActive(s)
    \/ Crash(s)

Next == \E s \in Session : SessionNext(s)

Spec == Init /\ [][Next]_vars

-----------------------------------------------------------------------------
(* Properties.                                                             *)

\* Types of the files, the sessions and the histories.
TypeOK ==
    /\ env \in Environments
    /\ \A f \in Files : disk[f] \in {Absent, Torn} \/ disk[f].is = f
    /\ \A f \in Outputs : disk[f] # Torn
    /\ Readable("user") => disk["user"].active \in BOOLEAN
    /\ Readable("proposal") => disk["proposal"].status \in {"proposed", "recorded", "changes_requested"}
    /\ Readable("review") => disk["review"].version \in 1..MaxReviews
    /\ Readable("teachback") => disk["teachback"].text \in Explanation
    /\ Readable("closure") => disk["closure"].id \in Fingerprints
    /\ Readable("status") => disk["status"].fp \in Fingerprints
    /\ \A s \in Session : proc[s].k \in 0..Len(OUTPUTS)
    /\ raced \subseteq {"teachback", "closure"}

\* A mission is only ever closed by its human: whatever crashes and stale
\* sessions did, a closed mission_status.json means that the human approved the
\* review, gave the very explanation the closure fingerprinted, and then
\* approved the closure.
ClosedIsEarned ==
    disk["status"] # Absent =>
        {<<"review">>, <<"closure">>, <<"teachback", disk["status"].fp.teachback>>} \subseteq said

\* The closure report is written last (close_mission): while it exists so do the
\* memory notes, the status and the notification it lists, and unless two
\* closures ran at once they all come from closures of the same evidence.
ReportIsBacked ==
    disk["report"] # Absent =>
        /\ \A f \in Outputs : disk[f] # Absent
        /\ "closure" \notin raced =>
             \A f \in {"decision", "status"} : disk[f].fp = disk["report"].fp

\* With one session at a time, over any crashes and retries, the closed evidence
\* is the evidence the closure phrase was made from (closure_id is a hash of
\* it): nothing was re-recorded between the proposal and the closure.
ClosesWhatWasApproved ==
    env.sessions = 1 /\ disk["report"] # Absent =>
        /\ disk["report"].fp = disk["report"].id
        /\ Readable("closure") => disk["closure"].id = disk["report"].id

\* While no process was killed and one session is open at a time, a session that
\* asks with nothing to offer has a mission that is closed or whose review asked
\* for changes: the lifecycle never loses its place.
NeverStranded ==
    (env.sessions = 1 /\ crashes = 0) =>
        \A s \in Session :
            proc[s].pc = "ask" /\ proc[s].offer = "none" =>
                \/ disk["report"] # Absent /\ Status("closure") = "closed"
                \/ Status("proposal") = "changes_requested"

=============================================================================
