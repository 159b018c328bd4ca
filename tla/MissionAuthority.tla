-------------------------- MODULE MissionAuthority --------------------------
(* How a request typed to the conversational Hokage becomes authority to   *)
(* act: intent, provider decision, charter, the write-once receipt that    *)
(* freezes both, the action queue bound to them, and the checks made again *)
(* before each dispatch (authority.py, charter.py, mission_decision.py,    *)
(* intent.py and run_conversational_hokage.py).  Several sessions share    *)
(* the mission directory and the continuity files.  A digest is the record *)
(* it is taken of, the mission id is the request it is derived from, and   *)
(* time has the one-second resolution of utc_now.  One check reads its     *)
(* files in one step, as all but the write-once receipt are compared with  *)
(* it.  Claims, leases and the queue lock are ActionQueue's subject; here  *)
(* each queue method is a step.                                            *)
EXTENDS Naturals, Sequences, FiniteSets, SequencesExt

CONSTANTS
    Session,        \* conversational sessions that may be open at once
    Environments,   \* the surroundings of a behaviour, one chosen in Init: the
                    \* requests, the ready providers, the ways of starting, and
                    \* bounds on open sessions, starts, crashes and seconds
    Absent,         \* a file that does not exist
    Torn,           \* a file whose bytes do not parse
    None            \* an unset field

VARIABLES
    env,        \* the chosen surroundings, with what is left of the budgets
    decision,   \* mission_decision.json of each mission
    charter,    \* mission_charter.json of each mission
    temps,      \* the .tmp siblings of the two files above
    receipt,    \* mission_authority.json of each mission
    queue,      \* action_queue.json of each mission, by skill
    user,       \* active_mission_id in user_state.json
    active,     \* mission_id in active_mission.json
    clock,      \* the current second
    pc,         \* where each session is
    doing,      \* the command or the skill it is busy with
    pend,       \* pending_charter and pending_decision
    cand,       \* the charter and decision being written
    inode,      \* the name its open temporary has now: temp, final or lost
    seen,       \* the continuity value it has read and will write back
    auth,       \* authoritative_decision
    mission     \* the mission whose queue it has open

disk == <<decision, charter, temps, receipt, queue>>
continuity == <<user, active>>
memory == <<pend, auth, mission>>
vars == <<env, disk, continuity, clock, pc, doing, pend, cand, inode, seen, auth, mission>>

-----------------------------------------------------------------------------
(* Skills, capabilities and what a request asks for. *)

Providers == {"codex", "claude", "ollama"}

(* In the order of the registry, which is the order charters list them in. *)
SkillOrder == <<"inspect_python_runtime", "inspect_git_status", "run_deterministic_audit_checks",
                "run_technical_plan", "invoke_local_model_audit", "apply_validated_patch",
                "run_post_patch_tests">>

SKILLS == ToSet(SkillOrder)

PROVIDER_SKILL_IDS == {"run_technical_plan", "invoke_local_model_audit"}

ProviderCapabilities ==
    [run_technical_plan |-> [codex |-> {"external_network"}, ollama |-> {"local_transport"}],
     invoke_local_model_audit |-> [ollama |-> {"local_transport"}]]

Supported(skill, provider) ==
    skill \in PROVIDER_SKILL_IDS => provider \in DOMAIN ProviderCapabilities[skill]

EffectiveCapabilities(skill, provider) ==
    CASE skill \in PROVIDER_SKILL_IDS -> ProviderCapabilities[skill][provider]
      [] skill = "apply_validated_patch" -> {"mutates_files"}
      [] OTHER -> {}

Constraints == {"mutation_forbidden", "network_blocked", "local_model_only",
                "private_context_restricted"}

(* The capabilities a constraint excludes.  In the bug the mutation        *)
(* constraint is left to the patch approval.                               *)
Breaks_NotMutation(limits, caps) ==
    \/ "network_blocked" \in limits /\ "external_network" \in caps
    \/ "private_context_restricted" \in limits /\ "private_context" \in caps

Breaks(limits, caps) ==
    \/ "mutation_forbidden" \in limits /\ "mutates_files" \in caps
    \/ "network_blocked" \in limits /\ "external_network" \in caps
    \/ "private_context_restricted" \in limits /\ "private_context" \in caps

IntentTypes == {"inspect_and_review", "implement_change", "validate_project", "record_memory",
                "general_mission"}

Categories == {"software_engineering", "research", "knowledge_processing", "audit_and_review",
               "general_supervised_task"}

(* What interpret_intent and classify_mission make of a text.  Every word  *)
(* that asks for a patch also makes the intent a change, unless it is a    *)
(* review already.                                                         *)
Requests ==
    {r \in [intent : IntentTypes, patch : BOOLEAN, limits : SUBSET Constraints, text : BOOLEAN,
            inScope : BOOLEAN, category : Categories] :
        /\ r.patch => r.intent \in {"inspect_and_review", "implement_change"}
        /\ ~r.text => r.intent = "general_mission" /\ r.limits = {}}

(* A file that does not exist is told from one whose bytes do not parse. *)
ASSUME SentinelsAssumption == Absent # Torn

Environment == [requests : SUBSET Requests, modes : SUBSET {"interactive", "one_shot"},
                ready : [Session -> SUBSET Providers],
                open : Nat, starts : Nat, crashes : Nat, seconds : Nat]
ASSUME EnvironmentAssumption == Environments \subseteq Environment

Inspecting(r) == r.intent \in {"inspect_and_review", "validate_project", "implement_change"}

(* interpret_intent adds findings to the outputs of a review or validation. *)
Auditing(r) == r.patch \/ r.intent \in {"inspect_and_review", "validate_project"}

ProposedSkills(r) ==
    (IF Inspecting(r) THEN {"inspect_python_runtime", "inspect_git_status"} ELSE {})
    \cup (IF Auditing(r) THEN {"run_deterministic_audit_checks", "invoke_local_model_audit"} ELSE {})

FollowupSkills(r) ==
    IF r.patch \/ r.intent = "implement_change"
    THEN {"apply_validated_patch", "run_post_patch_tests"} ELSE {}

ValidIntent(r) == r.text /\ r.inScope

-----------------------------------------------------------------------------
(* The provider decision and the charter built on it. *)

ProviderSkill(r) ==
    IF ProposedSkills(r) \cap PROVIDER_SKILL_IDS = {} THEN None
    ELSE CHOOSE s \in ProposedSkills(r) \cap PROVIDER_SKILL_IDS : TRUE

CandidateOrder(skill, r) ==
    IF "local_model_only" \in r.limits \/ skill = "invoke_local_model_audit" THEN <<"ollama">>
    ELSE IF r.category = "knowledge_processing" THEN <<"ollama", "codex", "claude">>
    ELSE IF r.category \in {"research", "general_supervised_task"} THEN <<"claude", "codex", "ollama">>
    ELSE <<"codex", "claude", "ollama">>

(* The first ready candidate whose capabilities the constraints admit; no  *)
(* provider when no skill needs one, Absent when none fits.                *)
SelectProvider(r, ready) ==
    LET skill == ProviderSkill(r)
        Fits(p) == /\ p \in ready
                   /\ Supported(skill, p)
                   /\ ~Breaks(r.limits, EffectiveCapabilities(skill, p))
        fitting == SelectSeq(CandidateOrder(skill, r), Fits)
    IN CASE skill = None -> "none"
         [] skill # None /\ fitting = <<>> -> Absent
         [] OTHER -> Head(fitting)

Decide(r, ready, at) == [request |-> r, provider |-> SelectProvider(r, ready), ready |-> ready, at |-> at]

(* approved is the second of the approval, 0 while the charter is proposed. *)
BuildCharter(d) == [decision |-> d, approved |-> 0]

IsApproved(c) == c.approved > 0

Readable(f) == f \notin {Absent, Torn}

(* The digest binding of a charter to its decision. *)
Bound(c, d) == c.decision = d

Admissible(skill, r, provider) ==
    /\ Supported(skill, provider)
    /\ ~Breaks(r.limits, EffectiveCapabilities(skill, provider))
    /\ ~("local_model_only" \in r.limits /\ provider \in {"codex", "claude"})

(* validate_charter_construction. *)
Constructible(c, d) ==
    /\ Bound(c, d)
    /\ \A s \in ProposedSkills(d.request) \cup FollowupSkills(d.request) :
           Admissible(s, d.request, d.provider)

-----------------------------------------------------------------------------
(* The files of a mission and the checks that read them. *)

(* verify_authority_receipt.  The bug compares ids where it compares       *)
(* digests.                                                                *)
Verified_ById(m) == /\ Readable(receipt[m])
                    /\ receipt[m].charter.decision.request = charter[m].decision.request
Verified(m) == /\ Readable(receipt[m])
               /\ receipt[m].charter = charter[m]
               /\ receipt[m].decision = decision[m]

(* load_authoritative_state. *)
Authoritative(m) ==
    /\ Readable(charter[m]) /\ IsApproved(charter[m])
    /\ Readable(decision[m]) /\ Bound(charter[m], decision[m])
    /\ Verified(m)

Action(m, skill, tier) ==
    [tier |-> tier, charter |-> charter[m], decision |-> decision[m], status |-> "proposed"]

(* validate_action_authority for the action a of the given skill. *)
Valid(m, skill, a) ==
    /\ Authoritative(m)
    /\ skill \in IF a.tier = "initial" THEN ProposedSkills(m) ELSE FollowupSkills(m)
    /\ a.charter = charter[m] /\ a.decision = decision[m]
    /\ Admissible(skill, m, a.decision.provider)

Listed(m) == IF queue[m] = Absent THEN {} ELSE DOMAIN queue[m]

Pending(m) == {k \in Listed(m) : queue[m][k].status = "proposed"}

Position(k) == CHOOSE i \in 1..Len(SkillOrder) : SkillOrder[i] = k

(* The pending action the queue lists first, if there is one. *)
NextPending(m) == {k \in Pending(m) : \A j \in Pending(m) : Position(k) <= Position(j)}

-----------------------------------------------------------------------------
(* What the files can hold besides nothing and torn bytes. *)

ProviderAnswers == {SelectProvider(r, q) : r \in Requests, q \in SUBSET Providers}
DecisionValue == [request : Requests, provider : ProviderAnswers, ready : SUBSET Providers, at : Nat]
CharterValue == [decision : DecisionValue, approved : Nat]
Pair == [charter : CharterValue, decision : DecisionValue]

DecisionFile == DecisionValue \cup {Absent, Torn}
CharterFile == CharterValue \cup {Absent, Torn}

(* A dispatched action ends in one of two ways. *)
Outcomes == {"completed", "failed"}
Statuses == {"proposed", "running"} \cup Outcomes
ActionValue == [tier : {"initial", "followup"}, charter : CharterFile, decision : DecisionFile,
                status : Statuses]
QueueValue == UNION {[skills -> ActionValue] : skills \in SUBSET SKILLS}

(* No missing or unparsable file is taken for a receipt, nor a missing one *)
(* for a queue.                                                            *)
ASSUME FilesAssumption ==
    /\ Absent \notin Pair /\ Torn \notin Pair
    /\ \A skills \in SUBSET SKILLS : Absent \notin [skills -> ActionValue]

-----------------------------------------------------------------------------
Init ==
    /\ env \in Environments
    /\ decision = [m \in env.requests |-> Absent]
    /\ charter = [m \in env.requests |-> Absent]
    /\ temps = [m \in env.requests |-> [decision |-> Absent, charter |-> Absent]]
    /\ receipt = [m \in env.requests |-> Absent]
    /\ queue = [m \in env.requests |-> Absent]
    /\ user = None /\ active = Absent
    /\ clock = 1
    /\ pc = [s \in Session |-> "down"]
    /\ doing = [s \in Session |-> "start"]
    /\ pend = [s \in Session |-> None]
    /\ cand = [s \in Session |-> None]
    /\ inode = [s \in Session |-> "temp"]
    /\ seen = [s \in Session |-> None]
    /\ auth = [s \in Session |-> None]
    /\ mission = [s \in Session |-> None]

Go(s, where) == pc' = [pc EXCEPT ![s] = where]

(* The process ends: an uncaught exception, the end of a one-shot, a kill. *)
Die(s) ==
    /\ Go(s, "down")
    /\ doing' = [doing EXCEPT ![s] = "start"]
    /\ pend' = [pend EXCEPT ![s] = None]
    /\ cand' = [cand EXCEPT ![s] = None]
    /\ seen' = [seen EXCEPT ![s] = None]
    /\ auth' = [auth EXCEPT ![s] = None]
    /\ mission' = [mission EXCEPT ![s] = None]

Return(s) ==
    IF doing[s] = "one_shot" THEN Die(s)
    ELSE /\ Go(s, "idle")
         /\ doing' = [doing EXCEPT ![s] = "interactive"]
         /\ cand' = [cand EXCEPT ![s] = None]
         /\ seen' = [seen EXCEPT ![s] = None]

-----------------------------------------------------------------------------
(* Opening a session: restore, then start_session rewrites user_state.json *)
(* with the active mission it read.                                        *)

Resumable(m) == m # None /\ active = m

Unreadable == \/ user = Torn
              \/ user # None /\ active = Torn
              \/ Resumable(user) /\ charter[user] = Torn
              \/ /\ Resumable(user) /\ Readable(charter[user]) /\ ~IsApproved(charter[user])
                 /\ decision[user] = Torn

Restore(s) ==
    LET resumed == Resumable(user) /\ Readable(charter[user])
        proposed == resumed /\ ~IsApproved(charter[user])
    IN /\ mission' = [mission EXCEPT ![s] = IF Resumable(user) THEN user ELSE None]
       /\ pend' = [pend EXCEPT ![s] =
                     IF proposed THEN [charter |-> charter[user], decision |-> decision[user]] ELSE None]
       /\ auth' = [auth EXCEPT ![s] =
                     IF resumed /\ Authoritative(user) THEN decision[user] ELSE None]

Open(s, how) ==
    /\ pc[s] = "down" /\ env.starts > 0
    /\ Cardinality({t \in Session : pc[t] # "down"}) < env.open
    /\ how \in env.modes
    /\ env' = [env EXCEPT !.starts = @ - 1]
    /\ \/ /\ Unreadable
          /\ UNCHANGED <<pc, doing, pend, cand, seen, auth, mission>>
       \/ /\ ~Unreadable
          /\ Restore(s)
          /\ Go(s, "start_session")
          /\ doing' = [doing EXCEPT ![s] = how]
          /\ seen' = [seen EXCEPT ![s] = user]
          /\ UNCHANGED cand
    /\ UNCHANGED <<disk, continuity, clock, inode>>

(* start_session and record_handoff write back what they read.             *)
WriteUserBack(s) ==
    /\ pc[s] \in {"start_session", "record_handoff"}
    /\ user' = seen[s]
    /\ IF pc[s] = "record_handoff" THEN Die(s)
       ELSE /\ Go(s, "idle")
            /\ seen' = [seen EXCEPT ![s] = None]
            /\ UNCHANGED <<doing, memory, cand>>
    /\ UNCHANGED <<env, disk, active, clock, inode>>

Exit(s) ==
    /\ pc[s] = "idle" /\ doing[s] = "interactive"
    /\ IF user = Torn THEN Die(s)
       ELSE /\ Go(s, "record_handoff")
            /\ seen' = [seen EXCEPT ![s] = user]
            /\ UNCHANGED <<doing, memory, cand>>
    /\ UNCHANGED <<env, disk, continuity, clock, inode>>

-----------------------------------------------------------------------------
(* utc_now is whole seconds: between two calls some pass, or none does.    *)
(* propose.  A one-shot call always proposes; the prompt only does when    *)
(* neither a charter nor an action waits for an answer.  What the prompt   *)
(* asks after the last action is MissionClosure's subject: here a text may *)
(* be taken for a proposal as soon as no action is pending, which the code *)
(* does once the mission is closed or an action is left running.  An       *)
(* exhausted provider choice and a charter that its own constraints forbid *)
(* both raise.                                                             *)

MayPropose(s) ==
    \/ doing[s] = "one_shot"
    \/ /\ pend[s] = None
       /\ mission[s] # None => Pending(mission[s]) = {}

Propose(s, r) ==
    /\ pc[s] = "idle" /\ MayPropose(s)
    /\ \E at \in clock..env.seconds :
         LET d == Decide(r, env.ready[s], at)
             c == BuildCharter(d)
         IN /\ clock' = at
            /\ CASE ~ValidIntent(r) ->
                      /\ Return(s)
                      /\ IF doing[s] = "one_shot" THEN TRUE ELSE UNCHANGED memory
                 [] ValidIntent(r) /\ (d.provider = Absent \/ ~Constructible(c, d)) -> Die(s)
                 [] OTHER ->
                      /\ Go(s, "decision_open")
                      /\ cand' = [cand EXCEPT ![s] = [charter |-> c, decision |-> d]]
                      /\ UNCHANGED <<doing, memory, seen>>
    /\ UNCHANGED <<env, disk, continuity, inode>>

-----------------------------------------------------------------------------
(* approve_charter: the checks of approve_charter_1_1 precede its writes.  *)

(* The stored receipt is looked for before either file is written. *)
MayApprove(p) == /\ p.decision # Absent
                 /\ Constructible(p.charter, p.decision)
                 /\ receipt[p.charter.decision.request] = Absent

Approve(s) ==
    /\ pc[s] = "idle" /\ doing[s] = "interactive" /\ pend[s] # None
    /\ \/ /\ MayApprove(pend[s])
          /\ Go(s, "decision_open")
          /\ doing' = [doing EXCEPT ![s] = "approve"]
          /\ clock' \in clock..env.seconds
          /\ cand' = [cand EXCEPT ![s] = [pend[s] EXCEPT !.charter.approved = clock']]
       \/ /\ ~MayApprove(pend[s])
          /\ UNCHANGED <<pc, doing, clock, cand>>
    /\ UNCHANGED <<env, disk, continuity, memory, seen, inode>>

(* atomic_write_json: open and truncate the .tmp sibling, fill it, rename  *)
(* it.  Both the proposal and the approval write the decision and then the *)
(* charter.  The sibling has one name, whoever writes: a session that had  *)
(* it open when another renamed it fills the published file, and then has  *)
(* nothing to rename.                                                      *)
FileOf(s) == IF pc[s] \in {"decision_open", "decision_fill", "decision_rename"}
             THEN "decision" ELSE "charter"

Writing(s) == cand[s].decision.request

OpenTemp(s) ==
    /\ pc[s] \in {"decision_open", "charter_open"}
    /\ temps' = [temps EXCEPT ![Writing(s)][FileOf(s)] = Torn]
    /\ inode' = [inode EXCEPT ![s] = "temp"]
    /\ Go(s, IF FileOf(s) = "decision" THEN "decision_fill" ELSE "charter_fill")
    /\ UNCHANGED <<env, decision, charter, receipt, queue, continuity, clock, doing, memory, cand, seen>>

Fill(s, file, name) == [file EXCEPT ![Writing(s)] =
                          IF FileOf(s) = name /\ inode[s] = "final" THEN cand[s][name] ELSE @]

FillTemp(s) ==
    /\ pc[s] \in {"decision_fill", "charter_fill"}
    /\ temps' = [temps EXCEPT ![Writing(s)][FileOf(s)] =
                    IF inode[s] = "temp" THEN cand[s][FileOf(s)] ELSE @]
    /\ decision' = Fill(s, decision, "decision")
    /\ charter' = Fill(s, charter, "charter")
    /\ inode' = [inode EXCEPT ![s] = "temp"]
    /\ Go(s, IF FileOf(s) = "decision" THEN "decision_rename" ELSE "charter_rename")
    /\ UNCHANGED <<env, receipt, queue, continuity, clock, doing, memory, cand, seen>>

(* What a rename by s does to a sibling that t has open. *)
Renamed(s, t) ==
    IF /\ t # s /\ pc[t] = FileOf(s) \o "_fill" /\ Writing(t) = Writing(s)
    THEN IF inode[t] = "temp" THEN "final" ELSE "lost"
    ELSE inode[t]

RenameDecision(s) ==
    LET m == Writing(s) IN
    /\ pc[s] = "decision_rename"
    /\ IF temps[m].decision = Absent
       THEN Die(s) /\ UNCHANGED <<decision, temps, inode>>
       ELSE /\ decision' = [decision EXCEPT ![m] = temps[m].decision]
            /\ temps' = [temps EXCEPT ![m].decision = Absent]
            /\ inode' = [t \in Session |-> Renamed(s, t)]
            /\ Go(s, "charter_open")
            /\ UNCHANGED <<doing, memory, cand, seen>>
    /\ UNCHANGED <<env, charter, receipt, queue, continuity, clock>>

RenameCharter(s) ==
    LET m == Writing(s) IN
    /\ pc[s] = "charter_rename"
    /\ IF temps[m].charter = Absent
       THEN Die(s) /\ UNCHANGED <<charter, temps, inode>>
       ELSE /\ charter' = [charter EXCEPT ![m] = temps[m].charter]
            /\ temps' = [temps EXCEPT ![m].charter = Absent]
            /\ inode' = [t \in Session |-> Renamed(s, t)]
            /\ IF doing[s] = "approve"
               THEN /\ Go(s, "create_receipt")
                    /\ UNCHANGED memory
               ELSE /\ Go(s, "set_active")
                    /\ pend' = [pend EXCEPT ![s] = cand[s]]
                    /\ mission' = [mission EXCEPT ![s] = m]
                    /\ UNCHANGED auth
            /\ UNCHANGED <<doing, cand, seen>>
    /\ UNCHANGED <<env, decision, receipt, queue, continuity, clock>>

(* set_active_mission: two plain writes, whatever the files held before.   *)
SetActive(s) ==
    /\ pc[s] = "set_active"
    /\ active' = mission[s]
    /\ IF user = Torn THEN Die(s) ELSE Go(s, "set_user") /\ UNCHANGED <<doing, memory, cand, seen>>
    /\ UNCHANGED <<env, disk, user, clock, inode>>

SetUser(s) ==
    /\ pc[s] = "set_user"
    /\ user' = mission[s]
    /\ Return(s)
    /\ IF doing[s] = "one_shot" THEN TRUE ELSE UNCHANGED memory
    /\ UNCHANGED <<env, disk, active, clock, inode>>

-----------------------------------------------------------------------------
(* publish_once: an exclusive create, then the bytes.  Whoever finds the   *)
(* file compares it with what it would have written.                       *)

Publication(s) == [charter |-> cand[s].charter, decision |-> cand[s].decision]

(* A bug: an existing receipt is taken for this approval's own. *)
CreateReceipt_AnyOwner(s) ==
    LET m == Writing(s) IN
    /\ pc[s] = "create_receipt"
    /\ \/ /\ receipt[m] = Absent
          /\ receipt' = [receipt EXCEPT ![m] = Torn]
          /\ Go(s, "write_receipt")
       \/ /\ receipt[m] # Absent
          /\ Go(s, "bootstrap")
          /\ UNCHANGED receipt
    /\ UNCHANGED <<env, decision, charter, temps, queue, continuity, clock, doing, memory, cand, seen, inode>>

CreateReceipt(s) ==
    LET m == Writing(s) IN
    /\ pc[s] = "create_receipt"
    /\ \/ /\ receipt[m] = Absent
          /\ receipt' = [receipt EXCEPT ![m] = Torn]
          /\ Go(s, "write_receipt")
          /\ UNCHANGED <<doing, memory, cand, seen>>
       \/ /\ receipt[m] = Publication(s)
          /\ Go(s, "bootstrap")
          /\ UNCHANGED <<receipt, doing, memory, cand, seen>>
       \/ /\ receipt[m] \notin {Absent, Publication(s)}
          /\ Return(s)
          /\ UNCHANGED <<receipt, memory>>
    /\ UNCHANGED <<env, decision, charter, temps, queue, continuity, clock, inode>>

WriteReceipt(s) ==
    /\ pc[s] = "write_receipt"
    /\ receipt' = [receipt EXCEPT ![Writing(s)] = Publication(s)]
    /\ Go(s, "bootstrap")
    /\ UNCHANGED <<env, decision, charter, temps, queue, continuity, clock, doing, memory, cand, seen, inode>>

(* RuntimeBridge.bootstrap: the beta runtime starts and plans the mission, *)
(* or it raises out of the session.                                        *)
Bootstrap(s) ==
    /\ pc[s] = "bootstrap"
    /\ \/ Go(s, "initialize") /\ UNCHANGED <<doing, memory, cand, seen>>
       \/ Die(s)
    /\ UNCHANGED <<env, disk, continuity, clock, inode>>

(* ActionQueue.initialize: an existing queue is validated, never rebuilt.  *)
InitializeQueue(s) ==
    LET m == mission[s]
        fresh == [k \in ProposedSkills(m) |-> Action(m, k, "initial")]
        built == IF queue[m] = Absent THEN fresh ELSE queue[m]
        raises == IF queue[m] = Absent THEN ~Authoritative(m)
                  ELSE \E k \in DOMAIN built : ~Valid(m, k, built[k])
    IN /\ pc[s] = "initialize"
       /\ \/ raises /\ Die(s) /\ UNCHANGED queue
          \/ /\ ~raises
             /\ queue' = [queue EXCEPT ![m] = built]
             /\ auth' = [auth EXCEPT ![s] = pend[s].decision]
             /\ pend' = [pend EXCEPT ![s] = None]
             /\ Go(s, "read_active")
             /\ UNCHANGED <<doing, mission, cand, seen>>
       /\ UNCHANGED <<env, decision, charter, temps, receipt, continuity, clock, inode>>

(* update_active_state and the end of mark_mission_rejected rewrite        *)
(* active_mission.json around the mission id they read; the latter only    *)
(* when it is the rejected one.                                            *)
ReadActive(s) ==
    /\ pc[s] = "read_active"
    /\ CASE active = Torn -> Die(s)
         [] active # Torn /\ doing[s] = "reject" /\ active # mission[s] ->
              Return(s) /\ UNCHANGED memory
         [] OTHER -> /\ Go(s, "write_active")
                     /\ seen' = [seen EXCEPT ![s] = active]
                     /\ UNCHANGED <<doing, memory, cand>>
    /\ UNCHANGED <<env, disk, continuity, clock, inode>>

WriteActive(s) ==
    /\ pc[s] = "write_active"
    /\ active' = seen[s]
    /\ Return(s)
    /\ UNCHANGED <<env, disk, user, clock, memory, inode>>

-----------------------------------------------------------------------------
(* reject_charter: refused when user_state.json names another mission.     *)

Reject(s) ==
    /\ pc[s] = "idle" /\ doing[s] = "interactive" /\ pend[s] # None
    /\ CASE user = Torn -> Die(s)
         [] user \notin {Torn, None, mission[s]} -> UNCHANGED <<pc, doing, memory, cand, seen>>
         [] OTHER -> /\ Go(s, IF user = mission[s] THEN "clear_user" ELSE "read_active")
                     /\ doing' = [doing EXCEPT ![s] = "reject"]
                     /\ pend' = [pend EXCEPT ![s] = None]
                     /\ UNCHANGED <<auth, mission, cand, seen>>
    /\ UNCHANGED <<env, disk, continuity, clock, inode>>

ClearUser(s) ==
    /\ pc[s] = "clear_user"
    /\ user' = None
    /\ Go(s, "read_active")
    /\ UNCHANGED <<env, disk, active, clock, doing, memory, cand, seen, inode>>

-----------------------------------------------------------------------------
(* approve_and_dispatch: the authority is checked before the claim, and    *)
(* again once the action is running.  Whichever check fails, and however   *)
(* the dispatch ends, approve_action then updates active_mission.json.     *)

SetStatus(m, k, status) == queue' = [queue EXCEPT ![m][k].status = status]

TakeAction(s) ==
    LET m == mission[s] IN
    /\ pc[s] = "idle" /\ doing[s] = "interactive" /\ pend[s] = None /\ m # None
    /\ \E k \in NextPending(m) :
         /\ doing' = [doing EXCEPT ![s] = k]
         /\ \/ /\ Valid(m, k, queue[m][k])
               /\ SetStatus(m, k, "running")
               /\ Go(s, "pre_dispatch")
            \/ /\ ~Valid(m, k, queue[m][k])
               /\ Go(s, "read_active")
               /\ UNCHANGED queue
    /\ UNCHANGED <<env, decision, charter, temps, receipt, continuity, clock, memory, cand, seen, inode>>

(* When the check fails, _mark_blocked_locked makes it once more and       *)
(* raises too: the action stays running and is never dispatched.           *)
PreDispatch(s) ==
    LET m == mission[s]
        k == doing[s] IN
    /\ pc[s] = "pre_dispatch"
    /\ \/ /\ Valid(m, k, queue[m][k])
          /\ \E outcome \in Outcomes :
               /\ SetStatus(m, k, outcome)
               /\ Go(s, IF outcome = "completed" THEN "followup" ELSE "read_active")
       \/ /\ ~Valid(m, k, queue[m][k])
          /\ Go(s, "read_active")
          /\ UNCHANGED queue
    /\ UNCHANGED <<env, decision, charter, temps, receipt, continuity, clock, doing, memory, cand, seen, inode>>

(* _append_followups_if_needed: a model audit is followed by its patch, or *)
(* by the tests when it proposed none; a patch by the tests.               *)
FollowupsOf(k) ==
    CASE k = "invoke_local_model_audit" -> {"apply_validated_patch", "run_post_patch_tests"}
      [] k = "apply_validated_patch" -> {"run_post_patch_tests"}
      [] OTHER -> {}

AppendFollowup(s) ==
    LET m == mission[s] IN
    /\ pc[s] = "followup"
    /\ \/ /\ FollowupsOf(doing[s]) = {}
          /\ Go(s, "read_active")
          /\ UNCHANGED <<queue, doing, memory, cand, seen>>
       \/ \E f \in FollowupsOf(doing[s]) :
            IF Authoritative(m) /\ Valid(m, f, Action(m, f, "followup"))
            THEN /\ queue' = [queue EXCEPT ![m] =
                       [k \in DOMAIN @ \cup {f} |-> IF k \in DOMAIN @ THEN @[k] ELSE Action(m, f, "followup")]]
                 /\ Go(s, "read_active")
                 /\ UNCHANGED <<doing, memory, cand, seen>>
            ELSE Die(s) /\ UNCHANGED queue
    /\ UNCHANGED <<env, decision, charter, temps, receipt, continuity, clock, inode>>

-----------------------------------------------------------------------------
(* A kill, anywhere; a plain write that it interrupts leaves a torn file.  *)
Crash(s) ==
    /\ pc[s] # "down" /\ env.crashes > 0
    /\ env' = [env EXCEPT !.crashes = @ - 1]
    /\ Die(s)
    /\ user' \in {user} \cup IF pc[s] \in {"start_session", "record_handoff", "set_user", "clear_user"}
                             THEN {Torn} ELSE {}
    /\ active' \in {active} \cup IF pc[s] \in {"set_active", "write_active"} THEN {Torn} ELSE {}
    /\ UNCHANGED <<disk, clock, inode>>

Step(s) ==
    \/ \E how \in {"interactive", "one_shot"} : Open(s, how)
    \/ WriteUserBack(s) \/ Exit(s)
    \/ \E r \in env.requests : Propose(s, r)
    \/ Approve(s) \/ OpenTemp(s) \/ FillTemp(s) \/ RenameDecision(s) \/ RenameCharter(s)
    \/ SetActive(s) \/ SetUser(s)
    \/ CreateReceipt(s) \/ WriteReceipt(s) \/ Bootstrap(s) \/ InitializeQueue(s)
    \/ ReadActive(s) \/ WriteActive(s) \/ Reject(s) \/ ClearUser(s)
    \/ TakeAction(s) \/ PreDispatch(s) \/ AppendFollowup(s)
    \/ Crash(s)

Next == \E s \in Session : Step(s)

Spec == Init /\ [][Next]_vars

-----------------------------------------------------------------------------
Decisions == [request : env.requests, provider : Providers \cup {"none"},
              ready : SUBSET Providers, at : 1..env.seconds]
Charters == [decision : Decisions, approved : 0..env.seconds]

(* Types: every file holds nothing, torn bytes or a value the code can     *)
(* have built, and a queue only lists registered skills.                   *)
TypeOK ==
    /\ \A m \in env.requests :
         /\ decision[m] \in {Absent, Torn} \/ decision[m] \in Decisions
         /\ charter[m] \in {Absent, Torn} \/ charter[m] \in Charters
         /\ receipt[m] \in {Absent, Torn} \/ receipt[m] \in [charter : Charters, decision : Decisions]
         /\ queue[m] = Absent \/ DOMAIN queue[m] \subseteq SKILLS
    /\ user \in {None, Torn} \cup env.requests
    /\ active \in {Absent, Torn} \cup env.requests
    /\ \A s \in Session : /\ mission[s] \in {None} \cup env.requests
                          /\ auth[s] = None \/ auth[s] \in Decisions
                          /\ pend[s] # None => pend[s].charter.approved = 0

Dispatched(m) == {k \in Listed(m) : queue[m][k].status \in Outcomes}

(* One authority per mission: whatever sessions proposed, approved,        *)
(* overwrote or lost in between, every action that was dispatched is bound *)
(* to the charter and the decision of the one receipt (authority.py:11-19),*)
(* and the decision is the one that charter was built on, though a death   *)
(* between the two writes leaves an older charter beside a newer decision  *)
(* of the same id.                                                         *)
OneAuthority ==
    \A m \in env.requests : \A k \in Dispatched(m) :
        /\ Readable(receipt[m])
        /\ queue[m][k].charter = receipt[m].charter
        /\ queue[m][k].decision = receipt[m].decision
        /\ queue[m][k].charter.decision = queue[m][k].decision

(* What the human excluded never runs: neither a mutating skill, nor one   *)
(* that reaches the network, nor a remote provider, however it was queued. *)
LimitsHold ==
    \A m \in env.requests : \A k \in Dispatched(m) :
        LET p == queue[m][k].decision.provider
            caps == EffectiveCapabilities(k, p) IN
          /\ "mutation_forbidden" \in m.limits => "mutates_files" \notin caps
          /\ "network_blocked" \in m.limits => "external_network" \notin caps
          /\ "local_model_only" \in m.limits /\ k \in PROVIDER_SKILL_IDS => p = "ollama"

(* A session that reports a decision as authoritative reports the one the  *)
(* receipt froze, the loser of two simultaneous approvals included.        *)
SessionSeesReceipt ==
    \A s \in Session : auth[s] # None =>
        /\ Readable(receipt[auth[s].request])
        /\ receipt[auth[s].request].decision = auth[s]

(* What the docstring of approve_charter_1_1 says: an approval attempt     *)
(* never overwrites files that a receipt has already frozen.               *)
ApprovalSparesFrozen ==
    [][\A s \in Session :
         /\ doing[s] = "approve" /\ pc[s] \in {"decision_rename", "charter_rename"}
         /\ pc'[s] # pc[s]
         /\ Readable(receipt[Writing(s)]) /\ Authoritative(Writing(s))
         => /\ charter'[Writing(s)] = charter[Writing(s)]
            /\ decision'[Writing(s)] = decision[Writing(s)]]_vars
=============================================================================
