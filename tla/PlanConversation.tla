--------------------------- MODULE PlanConversation ---------------------------
(***************************************************************************)
(* From a mission text to dispatched workers in the Konoha v4              *)
(* conversation: evidence of the repository, a plan drafted by a provider  *)
(* and validated deterministically, the approval loop at the terminal with *)
(* its challenges, the mission's continuity record, plan.json, and the     *)
(* required-sources gate in front of every worker.                         *)
(*                                                                         *)
(* A text is the set of phrases it contains, so a constraint's source_text *)
(* is a phrase and "verbatim substring" is membership.  A challenge is a   *)
(* number: commands carry a nonce, and a line equals the expected command  *)
(* only if it copies that very challenge.  Lines may be typed ahead of the *)
(* prompt that reads them.  A pack is [id, version]: the acquisition and   *)
(* the repository version it hashed.  Resuming a mission after the session *)
(* is the subject of MissionExecutor.                                      *)
(***************************************************************************)
EXTENDS RequiredSources, Integers

CONSTANTS
    Missions,     \* mission ids a provider may choose
    Changes,      \* texts of requested changes
    Findings,     \* the text of the validator's own feedback
    Drafts,       \* plans the provider may return
    Contracts,    \* family |-> [required, produces]
    Allowed,      \* <<provider, family>> the registry allows
    Docs,         \* path |-> [present, private, refs] in the workspace
    Roots,        \* the documents context acquisition starts from
    Outputs,      \* results a worker may return
    Logs,         \* memory/failures of the workspace
    Absent, Torn, \* no file, a truncated one
    Scenarios,    \* [planOnly, requests, turns, lines, edits, crashes, ready]
    MAX_PLAN_ATTEMPTS, MaxAhead, MaxTurns

ASSUME PlanAssumption ==
    /\ MAX_PLAN_ATTEMPTS \in Nat \ {0} /\ MaxAhead \in Nat /\ MaxTurns \in Nat
    /\ \A d \in Drafts : d.mission \in Missions
    /\ \A sc \in Scenarios : sc.turns \in 0..MaxTurns
    /\ \A out \in Outputs : \A id \in DOMAIN out.material : out.material[id] \in Seq(SUBSET STRING)

VARIABLES
    store,      \* missions/<id>/continuity.json
    planfile,   \* missions/<id>/plan.json
    packs,      \* the evidence packs written, by acquisition
    world,      \* version of the workspace
    ready,      \* providers whose probe succeeds
    conv,       \* the conversation's process
    typed,      \* lines typed and not read
    chal,       \* challenges displayed in this session
    left,       \* what may still happen: requests, turns, lines, edits, crashes
    granted,    \* <<plan, plan on screen, verb>> of accepted commands (history)
    ran         \* [plan, version, next, evidence] of dispatched workers (history)

vars == <<store, planfile, packs, world, ready, conv, typed, chal, left, granted, ran>>
disk == <<store, planfile, packs>>
outside == <<world, ready>>
history == <<granted, ran>>

Acquisitions == 1..MaxTurns

-----------------------------------------------------------------------------
(* Context acquisition: the documents reachable from the required ones.    *)

Loadable(f) == Docs[f].present /\ ~Docs[f].private

Loaded[n \in Nat] ==
    IF n = 0 THEN {f \in Roots : Loadable(f)}
    ELSE Loaded[n - 1] \cup {f \in UNION {Docs[g].refs : g \in Loaded[n - 1]} : Loadable(f)}

LoadedFiles == Loaded[Cardinality(DOMAIN Docs)]

\* normalize_missing_context(): what the workspace itself answers is not asked
\* of the human.
UserRequired(missing) ==
    {x \in missing : ~(x.kind = "pattern" \/ (x.kind = "file" /\ x.file \in LoadedFiles))}

-----------------------------------------------------------------------------
(* validate_plan().                                                        *)

PlanFields == {"assignment_count", "maximum_total_tokens", "replanning_reserve_tokens"}
IntFields == PlanFields \cup
    {"estimated_input_tokens", "estimated_output_tokens", "estimated_total_tokens"}
Gates == {"plan_approval", "separate_human_approval"}

Positions(d) == 0..(Len(d.tasks) - 1)

\* Key set, scope, field, position, operator and type of one constraint.
ConstraintShape(c, d) ==
    /\ c.wellFormed
    /\ (c.scope = "plan") <=> (c.field \in PlanFields)
    /\ IF c.scope = "plan" THEN c.index = -1 ELSE c.index \in Positions(d)
    /\ c.op = "at_most" => c.field \in IntFields
    /\ c.field = "dependencies" => Elements(c.value) \subseteq Positions(d)

\* One field of each kind: a plan's number, an assignment's name, flag, number and
\* list.  The other assignment fields are read and compared in the same ways.
ActualValue(c, d) ==
    CASE c.field = "assignment_count" -> Len(d.tasks)
      [] c.field = "maximum_total_tokens" -> d.budget.max
      [] c.field = "replanning_reserve_tokens" -> d.budget.reserve
      [] c.field = "provider" -> d.tasks[c.index + 1].provider
      [] c.field = "mutation" -> d.tasks[c.index + 1].mutation
      [] c.field = "estimated_total_tokens" -> d.tasks[c.index + 1].tokens
      [] c.field = "dependencies" -> d.tasks[c.index + 1].deps

ExpectedValue(c, d) ==
    IF c.field = "dependencies" THEN [i \in 1..Len(c.value) |-> d.tasks[c.value[i] + 1].id]
                                ELSE c.value

ConstraintHolds(c, d) ==
    IF c.op = "at_most" THEN ActualValue(c, d) <= c.value
                        ELSE ActualValue(c, d) = ExpectedValue(c, d)

\* Mutant: the validator's feedback counts as text of the mission.
ConstraintsHold_TrustsFindings(d, authority) ==
    \A i \in 1..Len(d.constraints) :
        LET c == d.constraints[i] IN
          /\ \A j \in 1..(i - 1) : d.constraints[j].id # c.id
          /\ ConstraintShape(c, d)
          /\ \E text \in authority \cup {Findings} : c.source \in text
          /\ ConstraintHolds(c, d)

ConstraintsHold(d, authority) ==
    \A i \in 1..Len(d.constraints) :
        LET c == d.constraints[i] IN
          /\ \A j \in 1..(i - 1) : d.constraints[j].id # c.id
          /\ ConstraintShape(c, d)
          /\ \E text \in authority : c.source \in text
          /\ ConstraintHolds(c, d)

\* The registry's checks of one assignment, and the ones of its own fields.  A
\* contract has task patterns; that no objective names the Hokage is a matter of
\* wording.
TaskAcceptable(t, d, snapshot) ==
    /\ t.family \in DOMAIN Contracts
    /\ <<t.provider, t.family>> \in Allowed
    /\ t.provider \in snapshot
    /\ ~t.mutation
    /\ t.network => "network" \in d.boundaries
    /\ t.private => "private_context" \in d.boundaries
    /\ t.gate \in Gates
    /\ t.tokens = t.tokensIn + t.tokensOut /\ t.tokens \in Nat

TotalOf(d, T) ==
    LET Sum[i \in 0..Len(d.tasks)] ==
          IF i = 0 THEN 0 ELSE Sum[i - 1] + IF i \in T THEN d.tasks[i].tokens ELSE 0
    IN Sum[Len(d.tasks)]

Tasks(d) == 1..Len(d.tasks)

BudgetHolds(d) ==
    /\ d.budget.providers = [p \in {d.tasks[i].provider : i \in Tasks(d)} |->
                               TotalOf(d, {i \in Tasks(d) : d.tasks[i].provider = p})]
    /\ d.budget.families = [f \in {d.tasks[i].family : i \in Tasks(d)} |->
                              TotalOf(d, {i \in Tasks(d) : d.tasks[i].family = f})]
    /\ d.budget.max = TotalOf(d, Tasks(d)) + d.budget.reserve
    /\ d.estimated = d.budget.max

\* Governance, teachback and workspace policies are one flag of the draft.
Valid(plan, authority, snapshot) ==
    LET d == plan.draft IN
      /\ ConstraintsHold(d, authority)
      /\ plan.missing = {}
      /\ d.policies
      /\ d.status = "pending"
      /\ \A i, j \in Tasks(d) : i # j => d.tasks[i].id # d.tasks[j].id
      /\ \A i \in Tasks(d) : TaskAcceptable(d.tasks[i], d, snapshot)
      /\ BudgetHolds(d)

-----------------------------------------------------------------------------
(* Resolution contexts of the planner and of the executor.                 *)

FamilyOf(d) ==
    [t \in {d.tasks[i].id : i \in Tasks(d)} |->
        d.tasks[CHOOSE i \in Tasks(d) : d.tasks[i].id = t].family]

\* excluded_paths, which only the gate sets, is left out: a pack excludes nothing.
Context(d, pack, request, approved, evidence, declared) ==
    [approved |-> approved, plan |-> TRUE, criteria |-> d.criteria, request |-> request,
     root |-> TRUE, pack |-> [here |-> TRUE, version |-> pack.version], world |-> world,
     contracts |-> Contracts,
     familyOf |-> FamilyOf(d), evidence |-> evidence,
     logs |-> Logs, logsDeclared |-> declared]

\* build_plan()'s preview: as if approved, before any task has run, and without
\* a failure-log directory.
PreviewContext(d, pack) == Context(d, pack, "text", TRUE, <<>>, FALSE)

Required(t) == IF t.family \in DOMAIN Contracts THEN Contracts[t.family].required ELSE {}

SourceGaps(d, pack) ==
    UNION {LET t == d.tasks[i]
               found == ResolveAll(Required(t), t, PreviewContext(d, pack), FALSE) IN
             {[kind |-> "source", file |-> id, task |-> i] :
                id \in {x \in DOMAIN found : found[x] \in {"missing", "unauthorized"}}} :
           i \in Tasks(d)}

\* build_plan(): the provider's draft bound to the acquired pack, with what it
\* lacks.
BuildPlan(d, pack) ==
    [draft |-> d, pack |-> pack, missing |-> UserRequired(d.missing) \cup SourceGaps(d, pack)]

\* The gate in front of a worker: the retained pack must be whole and current
\* even for a family that never asked for it.
GateContext(plan, m, evidence) ==
    Context(plan.draft, plan.pack, IF store[m] = Absent THEN "none" ELSE "text", TRUE, evidence, TRUE)

\* Mutant: only a family that asks for it has its pack checked.
GateOpens_WhenAsked(plan, i, evidence) ==
    LET t == plan.draft.tasks[i]
        found == ResolveAll(Required(t), t, GateContext(plan, plan.draft.mission, evidence), TRUE) IN
      \A id \in DOMAIN found : found[id] = "available"

GateOpens(plan, i, evidence) ==
    LET t == plan.draft.tasks[i]
        found == ResolveAll(Required(t), t, GateContext(plan, plan.draft.mission, evidence), TRUE) IN
      /\ packs[plan.pack.id] = "whole"
      /\ "repository_state" \notin Required(t) => plan.pack.version = world
      /\ \A id \in DOMAIN found : found[id] = "available"

\* _run_assignment(): the worker's structured claim, checked field by field.
ReviewConsistent(out, family) ==
    IF family = "jounin-review"
    THEN \/ out.review \in {"approved", "approved_with_notes"} /\ out.outcome = "completed"
         \/ out.review \in {"blocked", "changes_requested"} /\ out.outcome = out.review
    ELSE out.review = "none"

AssignmentStatus(out, family) ==
    IF /\ out.parsed /\ out.summary
       /\ out.satisfied <=> (out.outcome = "completed")
       /\ ReviewConsistent(out, family)
    THEN IF out.outcome = "changes_requested" THEN "blocked" ELSE out.outcome
    ELSE "failed"

-----------------------------------------------------------------------------
(* The conversation.                                                       *)

NoPlan == [draft |-> None, pack |-> None, missing |-> {}]

AtPrompt(snapshot) ==
    [pc |-> "prompt", request |-> {}, plan |-> NoPlan, pack |-> None, attempt |-> 0,
     authority |-> {}, replan |-> FALSE, ready |-> snapshot, change |-> {},
     next |-> 0, evidence |-> <<>>]

\* The probes of the session: none yet.
Unprobed == {"unprobed"}

Ended == [AtPrompt(Unprobed) EXCEPT !.pc = "ended"]

Init ==
    \E sc \in Scenarios :
      /\ store = [m \in Missions |-> Absent]
      /\ planfile = [m \in Missions |-> Absent]
      /\ packs = [a \in Acquisitions |-> Absent]
      /\ world = 0 /\ ready = sc.ready
      /\ conv = AtPrompt(Unprobed)
      /\ typed = <<>> /\ chal = <<>>
      /\ left = [turns |-> sc.turns, lines |-> sc.lines, edits |-> sc.edits,
                 crashes |-> sc.crashes, planOnly |-> sc.planOnly, requests |-> sc.requests]
      /\ granted = {} /\ ran = {}

OnScreen == IF conv.pc \in {"approve", "confirm", "grant"} THEN conv.plan ELSE NoPlan

\* The human types a line: an intention, a block of changes, a copy of any
\* command displayed in this session, or nothing.
Type(line) ==
    /\ conv.pc # "ended" /\ left.lines > 0 /\ Len(typed) < MaxAhead
    /\ line.kind = "command" => line.k \in 1..Len(chal)
    /\ typed' = Append(typed, [kind |-> line.kind, k |-> line.k, text |-> line.text, saw |-> OnScreen])
    /\ left' = [left EXCEPT !.lines = @ - 1]
    /\ UNCHANGED <<disk, outside, conv, chal, history>>

Reads(pc) == conv.pc = pc /\ typed # <<>> /\ typed' = Tail(typed)
Stays == UNCHANGED <<disk, outside, chal, left, history>>

\* A line left over from an approval opens a capture at the prompt; the human
\* cancels it.
StrayLine ==
    /\ Reads("prompt")
    /\ conv' = IF Head(typed).kind = "exit" THEN Ended ELSE conv
    /\ Stays

\* A mission turn: providers are probed once per session, the repository is
\* read once per turn, and a pack that is not current stops the turn.
NewMission(request) ==
    /\ request # {} /\ conv.pc = "prompt" /\ typed = <<>> /\ left.turns > 0
    /\ left' = [left EXCEPT !.turns = @ - 1]
    /\ conv' = [AtPrompt(IF conv.ready = Unprobed THEN ready ELSE conv.ready) EXCEPT
                  !.pc = "acquire", !.request = request]
    /\ UNCHANGED <<disk, outside, typed, chal, history>>

Acquire ==
    /\ conv.pc = "acquire"
    /\ conv' = [conv EXCEPT !.pc = "check", !.pack = [id |-> MaxTurns - left.turns, version |-> world]]
    /\ UNCHANGED typed /\ Stays

AcquisitionFails ==
    /\ conv.pc = "acquire"
    /\ conv' = AtPrompt(conv.ready)
    /\ UNCHANGED typed /\ Stays

CheckCurrent ==
    /\ conv.pc = "check"
    /\ conv' = IF conv.pack.version = world
               THEN [conv EXCEPT !.pc = "build", !.attempt = 1, !.authority = {conv.request}]
               ELSE AtPrompt(conv.ready)
    /\ UNCHANGED typed /\ Stays

\* A planning error ends the turn, or the approval loop of a replan.
BuildFails ==
    /\ conv.pc = "build"
    /\ conv' = AtPrompt(conv.ready)
    /\ UNCHANGED typed /\ Stays

GivesUp(plan) == plan.missing # {} \/ conv.attempt >= MAX_PLAN_ATTEMPTS

\* Mutant: a first plan that was given up is drafted all over again.
Build_StartsOver(d) ==
    /\ conv.pc = "build"
    /\ LET plan == BuildPlan(d, conv.pack)
           ok == /\ conv.replan => d.mission = conv.plan.draft.mission
                 /\ Valid(plan, conv.authority, conv.ready) IN
         /\ conv' = IF ok THEN [conv EXCEPT !.pc = IF conv.replan THEN "record" ELSE "persist", !.plan = plan]
                    ELSE IF ~GivesUp(plan) THEN [conv EXCEPT !.attempt = @ + 1]
                    ELSE IF conv.replan THEN [AtPrompt(conv.ready) EXCEPT !.plan = plan]
                    ELSE [conv EXCEPT !.attempt = 1]
         /\ store' = IF ok \/ ~conv.replan THEN store
                     ELSE [store EXCEPT ![conv.plan.draft.mission].findings = @ + 1]
    /\ UNCHANGED <<planfile, packs, outside, typed, chal, left, history>>

\* One attempt of _build_validated_plan(): the provider's draft, its preview of
\* sources, the validation, and what becomes of an invalid one.
Build(d) ==
    /\ conv.pc = "build"
    /\ LET plan == BuildPlan(d, conv.pack)
           ok == /\ conv.replan => d.mission = conv.plan.draft.mission
                 /\ Valid(plan, conv.authority, conv.ready) IN
         /\ conv' = IF ok THEN [conv EXCEPT !.pc = IF conv.replan THEN "record" ELSE "persist", !.plan = plan]
                    ELSE IF GivesUp(plan) THEN [AtPrompt(conv.ready) EXCEPT !.plan = plan]
                    ELSE [conv EXCEPT !.attempt = @ + 1]
         /\ store' = IF ok \/ ~conv.replan THEN store
                     ELSE [store EXCEPT ![conv.plan.draft.mission].findings = @ + 1]
    /\ UNCHANGED <<planfile, packs, outside, typed, chal, left, history>>

-----------------------------------------------------------------------------
(* Entering the approval loop: the pack is retained, the continuity found  *)
(* or created, the plan recorded, each before the plan is shown.           *)

\* Mutant: the pack is noted and written after the plan has been recorded.
CreatePack_Later ==
    /\ conv.pc = "persist"
    /\ packs' = [packs EXCEPT ![conv.pack.id] = Torn]
    /\ conv' = [conv EXCEPT !.pc = "open"]
    /\ UNCHANGED <<store, planfile, outside, typed, chal, left, history>>

CreatePack ==
    /\ conv.pc = "persist"
    /\ packs' = [packs EXCEPT ![conv.pack.id] = Torn]
    /\ conv' = [conv EXCEPT !.pc = "fill"]
    /\ UNCHANGED <<store, planfile, outside, typed, chal, left, history>>

FillPack ==
    /\ conv.pc = "fill"
    /\ packs' = [packs EXCEPT ![conv.pack.id] = "whole"]
    /\ conv' = [conv EXCEPT !.pc = "open"]
    /\ UNCHANGED <<store, planfile, outside, typed, chal, left, history>>

NewContinuity(request) ==
    [request |-> request, revisions |-> <<>>, changes |-> <<>>, findings |-> 0, approval |-> "pending"]

\* MissionContinuityStore.create(): an existing mission of another request is an
\* error nobody catches.
OpenContinuity ==
    /\ conv.pc = "open"
    /\ LET m == conv.plan.draft.mission IN
         IF store[m] = Absent
         THEN /\ store' = [store EXCEPT ![m] = NewContinuity(conv.request)]
              /\ conv' = [conv EXCEPT !.pc = "record"]
         ELSE /\ UNCHANGED store
              /\ conv' = IF store[m].request = conv.request THEN [conv EXCEPT !.pc = "record"] ELSE Ended
    /\ UNCHANGED <<planfile, packs, outside, typed, chal, left, history>>

RecordPlan ==
    /\ conv.pc = "record"
    /\ store' = [store EXCEPT ![conv.plan.draft.mission].revisions = Append(@, conv.plan)]
    /\ conv' = [conv EXCEPT !.pc = "approve", !.attempt = 0]
    /\ UNCHANGED <<planfile, packs, outside, typed, chal, left, history>>

-----------------------------------------------------------------------------
(* The approval loop.                                                      *)

Verb == IF left.planOnly THEN "aceptar-planificacion" ELSE "aprobar-plan"

Challenge(verb, pc) ==
    /\ chal' = Append(chal, [verb |-> verb, mission |-> conv.plan.draft.mission])
    /\ conv' = [conv EXCEPT !.pc = pc]

\* A blank line or a cancelled capture keeps the plan pending.
ReadPending ==
    /\ Reads("approve") /\ Head(typed).kind = "blank"
    /\ UNCHANGED conv /\ Stays

ReadExit ==
    /\ Reads("approve") /\ Head(typed).kind = "exit"
    /\ conv' = Ended
    /\ Stays

ReadNo ==
    /\ Reads("approve") /\ Head(typed).kind = "no"
    /\ store' = [store EXCEPT ![conv.plan.draft.mission].approval = "rejected"]
    /\ conv' = AtPrompt(conv.ready)
    /\ UNCHANGED <<planfile, packs, outside, chal, left, history>>

\* "si" is an intention: it only brings up a challenge for this plan.
ReadYes ==
    /\ Reads("approve") /\ Head(typed).kind = "yes"
    /\ Challenge(Verb, "grant")
    /\ UNCHANGED <<disk, outside, left, history>>

\* Free text, and a command pasted where none is expected, are changes to be
\* confirmed.
ReadChange ==
    /\ Reads("approve") /\ Head(typed).kind \in {"change", "command"}
    /\ chal' = Append(chal, [verb |-> "confirmar-cambios", mission |-> conv.plan.draft.mission])
    /\ conv' = [conv EXCEPT !.pc = "confirm", !.change = Head(typed).text]
    /\ UNCHANGED <<disk, outside, left, history>>

\* Mutant: a challenge without a nonce, the same for every revision.
Answers_NoNonce(line) == line.kind = "command" /\ chal[line.k] = chal[Len(chal)]

\* The line must be the command displayed last.
Answers(line) == line.kind = "command" /\ line.k = Len(chal)

Declined(pc) ==
    /\ Reads(pc) /\ ~Answers(Head(typed))
    /\ conv' = [conv EXCEPT !.pc = "approve", !.change = {}]
    /\ Stays

DeclineChange == Declined("confirm")
DeclineGrant == Declined("grant")

\* The authority of a replan: the mission and every confirmed change.
ConfirmChange ==
    /\ Reads("confirm") /\ Answers(Head(typed))
    /\ LET m == conv.plan.draft.mission
           changes == Append(store[m].changes, conv.change) IN
         /\ store' = [store EXCEPT ![m].changes = changes]
         /\ conv' = [conv EXCEPT !.pc = "build", !.attempt = 1, !.replan = TRUE, !.change = {},
                                 !.authority = {conv.request} \cup Elements(changes)]
    /\ UNCHANGED <<planfile, packs, outside, chal, left, history>>

Grant ==
    /\ Reads("grant") /\ Answers(Head(typed))
    /\ granted' = granted \cup {<<conv.plan, Head(typed).saw, chal[Head(typed).k].verb>>}
    /\ IF left.planOnly
       THEN conv' = AtPrompt(conv.ready) /\ UNCHANGED store
       ELSE /\ conv' = [conv EXCEPT !.pc = "truncate"]
            /\ store' = [store EXCEPT ![conv.plan.draft.mission].approval = "approved"]
    /\ UNCHANGED <<planfile, packs, outside, chal, left, ran>>

-----------------------------------------------------------------------------
(* plan.json is written in place; then the workers run in the plan's order.*)

TruncatePlan ==
    /\ conv.pc = "truncate"
    /\ planfile' = [planfile EXCEPT ![conv.plan.draft.mission] = Torn]
    /\ conv' = [conv EXCEPT !.pc = "write"]
    /\ UNCHANGED <<store, packs, outside, typed, chal, left, history>>

WritePlan ==
    /\ conv.pc = "write"
    /\ planfile' = [planfile EXCEPT ![conv.plan.draft.mission] = conv.plan]
    /\ conv' = [conv EXCEPT !.pc = "run", !.next = 1]
    /\ UNCHANGED <<store, packs, outside, typed, chal, left, history>>

Here == conv.plan.draft.tasks[conv.next]

With(evidence, id, record) ==
    [x \in DOMAIN evidence \cup {id} |-> IF x = id THEN record ELSE evidence[x]]

\* The executor reads plan.json again; a closed gate or a result that is not
\* completed stops the mission.  The gate and the run that follows are one step;
\* what lies between them, and a death there, is MissionExecutor's subject.
Dispatch(out) ==
    /\ conv.pc = "run" /\ GateOpens(planfile[conv.plan.draft.mission], conv.next, conv.evidence)
    /\ ran' = ran \cup {[plan |-> planfile[conv.plan.draft.mission], version |-> world,
                         next |-> conv.next, evidence |-> conv.evidence]}
    /\ LET record == [status |-> AssignmentStatus(out, Here.family), parsed |-> out.parsed,
                      summary |-> out.summary, marks |-> out.marks, material |-> out.material] IN
         conv' = IF record.status = "completed" /\ conv.next < Len(conv.plan.draft.tasks)
                 THEN [conv EXCEPT !.next = @ + 1, !.evidence = With(@, Here.id, record)]
                 ELSE AtPrompt(conv.ready)
    /\ UNCHANGED <<disk, outside, typed, chal, left, granted>>

GateStops ==
    /\ conv.pc = "run" /\ ~GateOpens(planfile[conv.plan.draft.mission], conv.next, conv.evidence)
    /\ conv' = AtPrompt(conv.ready)
    /\ UNCHANGED typed /\ Stays

-----------------------------------------------------------------------------
(* Outside: edits, providers that come and go, a session that dies.        *)

EditWorkspace ==
    /\ left.edits > 0
    /\ left' = [left EXCEPT !.edits = @ - 1]
    /\ world' = world + 1
    /\ UNCHANGED <<disk, ready, conv, typed, chal, history>>

ProviderChanges(p) ==
    /\ left.edits > 0
    /\ left' = [left EXCEPT !.edits = @ - 1]
    /\ ready' = IF p \in ready THEN ready \ {p} ELSE ready \cup {p}
    /\ UNCHANGED <<disk, world, conv, typed, chal, history>>

\* A new session starts where the old one died, with an empty terminal.
Crash ==
    /\ left.crashes > 0 /\ conv # AtPrompt(Unprobed)
    /\ left' = [left EXCEPT !.crashes = @ - 1]
    /\ conv' = AtPrompt(Unprobed) /\ typed' = <<>> /\ chal' = <<>>
    /\ UNCHANGED <<disk, outside, history>>

Lines ==
    [kind : {"yes", "no", "exit", "blank"}, k : {0}, text : {{}}]
    \cup [kind : {"change"}, k : {0}, text : Changes]
    \cup [kind : {"command"}, k : 1..8, text : {{}}]

Plan == Acquire \/ AcquisitionFails \/ CheckCurrent \/ BuildFails \/ \E d \in Drafts : Build(d)

Record == CreatePack \/ FillPack \/ OpenContinuity \/ RecordPlan

Decide ==
    \/ StrayLine \/ ReadPending \/ ReadExit \/ ReadNo \/ ReadYes \/ ReadChange
    \/ DeclineChange \/ DeclineGrant \/ ConfirmChange \/ Grant

Execute == TruncatePlan \/ WritePlan \/ GateStops \/ \E out \in Outputs : Dispatch(out)

Next ==
    \/ \E line \in Lines : Type(line)
    \/ \E request \in left.requests : NewMission(request)
    \/ Plan \/ Record \/ Decide \/ Execute
    \/ EditWorkspace \/ \E t \in Allowed : ProviderChanges(t[1])
    \/ Crash

Spec == Init /\ [][Next]_vars

\* The process keeps going: planning, recording, reading lines and executing.
FairSpec == Spec /\ WF_vars(Plan) /\ WF_vars(Record) /\ WF_vars(Decide) /\ WF_vars(Execute)

-----------------------------------------------------------------------------
(* Properties.                                                             *)

\* The records keep their shape: attempts stay within MAX_PLAN_ATTEMPTS, a plan
\* under decision is the last revision of its mission's continuity, and the
\* workers run from a plan.json that was written whole.
TypeOK ==
    /\ conv.attempt \in 0..MAX_PLAN_ATTEMPTS
    /\ \A m \in Missions : store[m] # Absent =>
         store[m].approval \in {"pending", "approved", "rejected"} /\ store[m].findings \in Nat
    /\ conv.pc \in {"approve", "confirm", "grant"} =>
         LET r == store[conv.plan.draft.mission].revisions IN
           r # <<>> /\ r[Len(r)] = conv.plan
    /\ conv.pc = "run" => planfile[conv.plan.draft.mission] = conv.plan
    /\ Len(typed) <= MaxAhead

\* Every granted plan was on screen when the human typed the command, and the
\* command was the one for that kind of decision: lines typed ahead, stale
\* commands of an earlier revision and answers to another question never
\* approve a plan (_read_plan_challenge_grant).
ApprovedWasShown ==
    \A g \in granted : g[1] = g[2] /\ g[3] = Verb

\* Constraints come from humans: every revision recorded for a mission cites
\* only phrases of the mission text or of changes confirmed for it, however
\* many corrective attempts fed the validator's findings to the provider
\* (mission_authority_texts in _approval_loop and _build_validated_plan).
AuthorityIsHuman ==
    \A m \in Missions : store[m] # Absent =>
        \A i \in 1..Len(store[m].revisions) :
            LET d == store[m].revisions[i].draft IN
              \A j \in 1..Len(d.constraints) :
                \E text \in {store[m].request} \cup Elements(store[m].changes) :
                    d.constraints[j].source \in text

\* A recorded revision's repository evidence is on disk and whole, wherever the
\* session died: a plan that can be resumed can be checked against what it was
\* planned from (persist_evidence_pack before the continuity is touched).
EvidenceIsRetained ==
    \A m \in Missions : store[m] # Absent =>
        \A i \in 1..Len(store[m].revisions) : packs[store[m].revisions[i].pack.id] = "whole"

\* A worker runs only under a plan a human granted, and only if the workspace,
\* looked at again by the gate in front of it, is the one that plan's evidence
\* describes, also when its family never asks for repository_state
\* (_required_sources_gate; an edit after the gate is not seen by the code).
WorkersAreSupervised ==
    \A r \in ran : /\ r.version = r.plan.pack.version
                   /\ \E g \in granted : g[1] = r.plan

\* No worker starts on a source its producer did not deliver: a worker that
\* needs a produced source follows a dependency whose family declares it, whose
\* result was accepted and marked it, and whose leading rows, the ones handed
\* over, hold one with every key (_resolve_assignment_produced,
\* MAX_MATERIAL_LIST_ITEMS).
FedByProducers ==
    \A r \in ran : LET t == r.plan.draft.tasks[r.next] IN
        \A id \in Required(t) \cap AssignmentProduced :
            \E x \in Elements(t.deps) \cap DOMAIN r.evidence :
                LET record == r.evidence[x] IN
                  /\ id \in Contracts[FamilyOf(r.plan.draft)[x]].produces
                  /\ record.status = "completed" /\ id \in record.marks
                  /\ id \in DOMAIN record.material
                  /\ \E k \in 1..MaxItems : /\ k \in DOMAIN record.material[id]
                                            /\ MaterialKeys[id] \subseteq record.material[id][k]

\* Planning ends: whatever the provider drafts, a turn comes back to the prompt
\* or to a plan the human can decide on (MAX_PLAN_ATTEMPTS, missing_context).
PlanningEnds ==
    (conv.pc \in {"acquire", "check", "build"}) ~> (conv.pc \in {"prompt", "approve", "ended"})

\* The planner's preview and the executor's gate agree on the plan's own
\* sources: what stopped a plan as missing is missing for the executor too
\* (resolve_all(): "planner/executor never diverge").
PreviewAgreesWithGate ==
    conv.pc = "prompt" => \A x \in {y \in conv.plan.missing : y.kind = "source"} :
        x.file \in PlanScope =>
            ResolvePlanScope(x.file, conv.plan.draft.tasks[x.task],
                Context(conv.plan.draft, conv.plan.pack, "text", TRUE, <<>>, TRUE)) # "available"
=============================================================================
