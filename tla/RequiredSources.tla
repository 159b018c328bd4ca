--------------------------- MODULE RequiredSources ---------------------------
(***************************************************************************)
(* The required_sources of an assignment: the one resolver that the        *)
(* planner's preview and the executor's gate both call, as operators of a  *)
(* task and a resolution context.                                          *)
(*                                                                         *)
(* A resolution is its availability.  A path is reduced to what the checks *)
(* find at it, a text to whether it is there, an evidence payload to the   *)
(* sources it marks and, row by row, the keys with a value.                *)
(*                                                                         *)
(*   task  [id, family, inputs (Seq of path classes), deps (Seq of ids)]   *)
(*   ctx   [approved, plan, criteria (Seq of BOOLEAN), request, root, pack,*)
(*          world, contracts, familyOf, evidence, logs, logsDeclared]      *)
(***************************************************************************)
EXTENDS Naturals, Sequences, FiniteSets

CONSTANTS
    MaxItems,  \* MAX_MATERIAL_LIST_ITEMS
    None       \* no pack

ASSUME MaxItemsAssumption == MaxItems \in Nat \ {0}

-----------------------------------------------------------------------------
(* The canonical vocabulary.                                               *)

TaskInputSources ==
    {"python_coding_rules", "python_source_files", "approved_checklist",
     "authorized_local_source", "approved_style_statute", "target_journal_rules"}

PlanScope ==
    {"mission_plan", "acceptance_criteria", "user_mission_request",
     "repository_state", "capability_registry", "failure_logs"} \cup TaskInputSources

StructuralDependency == {"target_assignment_evidence", "dependency_evidence_bundle"}

\* What one material row of a produced source must carry.
MaterialKeys ==
    [implementation_diff |-> {"locator"},
     test_evidence |-> {"command", "result"},
     review_evidence |-> {"verdict"},
     source_fact_cards |-> {"fact", "locator"}]

AssignmentProduced == DOMAIN MaterialKeys

SOURCE_VOCABULARY == PlanScope \cup StructuralDependency \cup AssignmentProduced

Elements(s) == {s[i] : i \in 1..Len(s)}
FirstItems(s) == SubSeq(s, 1, IF Len(s) < MaxItems THEN Len(s) ELSE MaxItems)
When(b) == IF b THEN "available" ELSE "missing"

-----------------------------------------------------------------------------
(* Evidence of a finished assignment: [status, parsed, summary, marks,     *)
(* material], its material a sequence of rows per source.                  *)

Readable(record) == record.status = "completed" /\ record.parsed

\* extract_produced_source_ids(): the marker rows alone.
Marked(record) == IF Readable(record) THEN record.marks \cap SOURCE_VOCABULARY ELSE {}

\* Mutant: a row with any of the keys will do.
HasMaterial_AnyKey(id, record) ==
    /\ Readable(record) /\ id \in DOMAIN record.material
    /\ \E row \in Elements(FirstItems(record.material[id])) : MaterialKeys[id] \cap row # {}

\* evaluate_produced_source_material(): one row among the first rows with every
\* key its source asks for.
HasMaterial(id, record) ==
    /\ Readable(record) /\ id \in DOMAIN record.material
    /\ \E row \in Elements(FirstItems(record.material[id])) : MaterialKeys[id] \subseteq row

-----------------------------------------------------------------------------
(* Sources of the plan's own scope.                                        *)

RepositoryState(ctx) ==
    CASE ctx.pack = None \/ ~ctx.root -> "missing"
      [] ctx.pack # None /\ ctx.root /\ ~ctx.pack.here -> "unauthorized"
      [] OTHER -> When(ctx.pack.version = ctx.world)

\* The log files are classified first, and the first of them read.
FailureLogs(ctx) ==
    LET candidates == SelectSeq(ctx.logs.files, LAMBDA f : f \in {"text", "swapped"}) IN
      CASE ~ctx.root \/ ~ctx.logsDeclared \/ ctx.logs.dir = "absent" -> "missing"
        [] ctx.root /\ ctx.logsDeclared /\ ctx.logs.dir = "link" -> "unauthorized"
        [] OTHER -> When(/\ candidates # <<>>
                         /\ "swapped" \notin Elements(FirstItems(candidates)))

Unauthorized == {"outside", "private"}

\* Every declared path is checked, the first ones are read in their order.
TaskInputs(task, ctx) ==
    LET bad == SelectSeq(FirstItems(task.inputs), LAMBDA p : p # "text") IN
      CASE task.inputs = <<>> \/ ~ctx.root -> "missing"
        [] task.inputs # <<>> /\ ctx.root /\ Elements(task.inputs) \cap Unauthorized # {} ->
             "unauthorized"
        [] OTHER -> IF bad = <<>> THEN "available"
                    ELSE IF Head(bad) \in {"ignored", "link"} THEN "unauthorized" ELSE "missing"

ResolvePlanScope(id, task, ctx) ==
    CASE id = "mission_plan" -> When(ctx.approved /\ ctx.plan)
      [] id = "acceptance_criteria" -> When(ctx.criteria # <<>> /\ FALSE \notin Elements(ctx.criteria))
      [] id = "user_mission_request" -> When(ctx.request = "text")
      [] id = "capability_registry" -> When(task.family \in DOMAIN ctx.contracts)
      [] id = "repository_state" -> RepositoryState(ctx)
      [] id = "failure_logs" -> FailureLogs(ctx)
      [] OTHER -> TaskInputs(task, ctx)

-----------------------------------------------------------------------------
(* Sources other assignments leave behind.  A producer that has not run is *)
(* only acceptable while planning.                                         *)

NotYet(enforcing) == IF enforcing THEN "missing" ELSE "pending_producer"

ResolveStructuralDependency(task, ctx, enforcing) ==
    LET deps == Elements(task.deps) IN
      CASE deps = {} -> "missing"
        [] deps # {} /\ ~(deps \subseteq DOMAIN ctx.evidence) -> NotYet(enforcing)
        [] OTHER ->
             When(/\ \A d \in deps : ctx.evidence[d].status = "completed"
                  /\ \A d \in Elements(FirstItems(task.deps)) :
                       Readable(ctx.evidence[d]) /\ ctx.evidence[d].summary)

\* The dependencies whose family declares the source.
Producers(id, task, ctx) ==
    {d \in Elements(task.deps) :
        /\ d \in DOMAIN ctx.familyOf
        /\ ctx.familyOf[d] \in DOMAIN ctx.contracts
        /\ id \in ctx.contracts[ctx.familyOf[d]].produces}

ResolveAssignmentProduced(id, task, ctx, enforcing) ==
    LET from == Producers(id, task, ctx) IN
      CASE from = {} -> "missing"
        [] from # {} /\ ~(from \subseteq DOMAIN ctx.evidence) -> NotYet(enforcing)
        [] OTHER -> When(\E d \in from : /\ id \in Marked(ctx.evidence[d])
                                          /\ HasMaterial(id, ctx.evidence[d]))

ResolveRequiredSources(id, task, ctx, enforcing) ==
    CASE id \in PlanScope -> ResolvePlanScope(id, task, ctx)
      [] id \in StructuralDependency -> ResolveStructuralDependency(task, ctx, enforcing)
      [] id \in AssignmentProduced -> ResolveAssignmentProduced(id, task, ctx, enforcing)

\* An unknown source stops the executor's gate before anything is resolved.
ResolveAll(required, task, ctx, enforcing) ==
    [id \in required |-> ResolveRequiredSources(id, task, ctx, enforcing)]
=============================================================================
