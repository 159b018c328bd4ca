------------------------- MODULE SupervisedAction -------------------------
(***************************************************************************)
(* The three deterministic validators a supervised action passes before a  *)
(* human sees it: the task contract, the evidence bundle that answers the  *)
(* contract's requirements, and the action proposal that rests on both.    *)
(* The documents are files people edit at any time.  A validator hashes a  *)
(* referenced file and then reads it again to parse it, so an edit can     *)
(* fall between the two; its report is a plain truncate-then-write.        *)
(*                                                                         *)
(* A document is a record of what the validators tell apart; its SHA-256   *)
(* is the document itself.  "form" stands for the purely structural checks *)
(* (required fields, types, non-empty texts) of the one validator that     *)
(* makes them, "typed" for report_type and schema_version.  A path pattern *)
(* is the set of repository paths it matches.                              *)
(***************************************************************************)
EXTENDS Integers, Sequences, FiniteSets

CONSTANTS Scenarios,     \* <<contract, bundle, proposal>> triples to start from
          Contracts,     \* contracts, bundles (with the contract they cite) and
          Bundles,       \*   proposals (with the contract and bundle they cite)
          Proposals,     \*   that someone saves while a validator runs
          PrivatePaths,  \* paths under a private prefix
          Torn,          \* a file truncated or half written: not JSON
          Absent,        \* no such file
          None,          \* a Python None
          MaxEdits,      \* bound on edits while the validators work
          MaxRuns        \* bound on validator runs

VARIABLES file,     \* file[d]: "contract", "evidence", "proposal", "source"
          report,   \* report[t]: the output of validator t under sandbox/
          run,      \* the validator process
          edits, runs

vars == <<file, report, run, edits, runs>>

BadId  == "bad id"
BadToken == "bad token"

Tools == {"contract", "evidence", "proposal"}
Docs  == {"contract", "evidence", "proposal", "source"}

OPERATIONS ==
    {"inspect_repository", "read_public_files", "run_deterministic_checks",
     "propose_command", "record_external_result", "invoke_local_model",
     "execute_command", "apply_patch", "git_stage", "git_commit", "git_push",
     "write_private_memory", "close_mission"}
SENSITIVE_OPERATIONS ==
    {"invoke_local_model", "execute_command", "apply_patch", "git_stage",
     "git_commit", "git_push", "write_private_memory", "close_mission"}
STATE_CHANGING_OPERATIONS == SENSITIVE_OPERATIONS \ {"invoke_local_model"}
COMMAND_OPERATIONS ==
    {"run_deterministic_checks", "invoke_local_model", "execute_command",
     "apply_patch", "git_stage", "git_commit", "git_push"}

RISK_ORDER   == [low |-> 0, medium |-> 1, high |-> 2, critical |-> 3]
REVIEW_ORDER == [standard |-> 0, strict |-> 1, critical |-> 2]
ROLLBACK_MODES == {"not_required", "manual", "command_proposal", "irreversible"}

Elems(s) == {s[i] : i \in DOMAIN s}
NoRepeat(s, Key(_)) == \A i, j \in DOMAIN s : Key(s[i]) = Key(s[j]) => i = j
IsDocument(x) == x \notin {Torn, Absent, None}

\* The contracts and bundles a file may ever hold.
ContractDocs == Contracts \cup {s[1] : s \in Scenarios}
BundleDocs   == Bundles \cup {s[2] : s \in Scenarios}
IsList(s) == s \in Seq(Elems(s))

\* None is no exit code; what the validators read as lists are lists.
ASSUME DocumentAssumption ==
    /\ None \notin {"0", "1", "2", "killed"}
    /\ \A c \in ContractDocs : IsList(c.approvals)
    /\ \A e \in BundleDocs : IsList(e.items) /\ \A it \in Elems(e.items) : IsList(it.sources)

-----------------------------------------------------------------------------
(* The contract validator.                                                 *)

\* approval_map: an unknown or repeated operation, a malformed token or an
\* empty reason blocks.
ApprovalMapClean(c) ==
    /\ \A a \in Elems(c.approvals) :
          a.op \in OPERATIONS /\ a.token # BadToken /\ a.reason
    /\ NoRepeat(c.approvals, LAMBDA a : a.op)

ContractScope(c) ==
    /\ c.allowed_paths # {} /\ c.blocked_paths # {}
    /\ \A p \in c.allowed_paths : ~p.protected
    /\ c.allowed_paths \cap c.blocked_paths = {}

\* An operation named on neither list is only a warning.
ContractOperations(c) ==
    /\ c.allowed # {} /\ c.blocked # {}
    /\ c.allowed \cup c.blocked \subseteq OPERATIONS
    /\ c.allowed \cap c.blocked = {}

ApprovedOperations(c) == {a.op : a \in Elems(c.approvals)}

ContractPolicies(c) ==
    /\ ApprovalMapClean(c)
    /\ c.allowed \cap SENSITIVE_OPERATIONS \subseteq ApprovedOperations(c)
    /\ "git_push" \in c.allowed => c.network = "explicit"
    /\ "write_private_memory" \in c.allowed => c.private = "explicit"
    /\ c.requirements # <<>> /\ c.criteria > 0 /\ c.triggers > 0

ContractReview(c) ==
    /\ c.review.required /\ c.review.reviewers
    /\ c.review.level \in DOMAIN REVIEW_ORDER
    /\ c.risk = "high" => c.review.level # "standard"
    /\ c.risk = "critical" => c.review.level = "critical"
    /\ c.teachback /\ c.authority
    /\ "close_mission" \in c.allowed => "close_mission" \in ApprovedOperations(c)

ValidateContract(c) ==
    /\ c.typed /\ c.form
    /\ ContractScope(c) /\ ContractOperations(c)
    /\ ContractPolicies(c) /\ ContractReview(c)

-----------------------------------------------------------------------------
(* The evidence validator.  Positions count from 1 here and from 0 there.  *)

ContractReference(e, hash, c) == IsDocument(c) /\ hash = e.ref /\ c.typed

ItemIdentity(e, c) ==
    /\ e.items # <<>>
    /\ \A it \in Elems(e.items) :
          /\ it.id # BadId
          /\ it.req \in DOMAIN c.requirements
          /\ it.text = c.requirements[it.req]
    /\ NoRepeat(e.items, LAMBDA it : it.id)
    /\ NoRepeat(e.items, LAMBDA it : it.req)

ItemLinks(e, c) ==
    \A it \in Elems(e.items) :
        /\ it.status \in {"satisfied", "missing", "contradicted", "unresolved"}
        /\ it.criteria \subseteq 1..c.criteria
        /\ it.ops \subseteq c.allowed \cup c.blocked

\* Source ids are unique over the whole bundle; the digest is of the file as
\* it is now.
SourcesMatch(e, src) ==
    /\ \A it \in Elems(e.items) : \A s \in Elems(it.sources) :
          s.id # BadId /\ ~s.private /\ src # Absent /\ s.sha = src
    /\ \A i, j \in DOMAIN e.items :
          \A k \in DOMAIN e.items[i].sources, l \in DOMAIN e.items[j].sources :
             e.items[i].sources[k].id = e.items[j].sources[l].id
                => i = j /\ k = l

ItemSources(e, src) ==
    /\ \A it \in Elems(e.items) :
          /\ it.status \in {"satisfied", "contradicted"} => it.sources # <<>>
          /\ it.status = "missing" => it.sources = <<>>
    /\ SourcesMatch(e, src)

RequirementsMapped(e, c) ==
    DOMAIN c.requirements \subseteq {it.req : it \in Elems(e.items)}

EvidenceItems(e, c, src) ==
    ItemIdentity(e, c) /\ ItemLinks(e, c) /\ ItemSources(e, src)
    /\ RequirementsMapped(e, c)

Claims(e) ==
    \A cl \in Elems(e.claims) :
        LET known == {it \in Elems(e.items) : it.id \in cl.ids}
        IN  /\ cl.ids \subseteq {it.id : it \in Elems(e.items)}
            /\ cl.status = "supported" =>
                  cl.ids # {} /\ \A it \in known : it.status = "satisfied"
            /\ cl.status = "contradicted" =>
                  \E it \in known : it.status = "contradicted"

Findings(e) ==
    \A f \in Elems(e.findings) :
        f.ids # {} /\ f.ids \subseteq {it.id : it \in Elems(e.items)}

\* by_requirement keeps the first item of each requirement.
StatusesByRequirement(e, c) ==
    {e.items[i].status : i \in {k \in DOMAIN e.items :
        /\ e.items[k].req \in DOMAIN c.requirements
        /\ \A j \in 1..(k - 1) : e.items[j].req # e.items[k].req}}

EvidenceState(e, c) ==
    LET statuses == StatusesByRequirement(e, c)
    IN  IF "contradicted" \in statuses THEN "contradicted"
        ELSE IF /\ RequirementsMapped(e, c)
                /\ statuses = {"satisfied"} THEN "complete"
        ELSE "incomplete"

Unresolved(e, c) ==
    /\ EvidenceState(e, c) = "complete" => e.unresolved = <<>>
    /\ EvidenceState(e, c) = "incomplete" => e.unresolved # <<>>
    /\ \A u \in Elems(e.unresolved) :
          u # {} /\ u \subseteq DOMAIN c.requirements

\* The referenced contract is not put through ValidateContract again.
ValidateBundle(e, hash, c, src) ==
    /\ e.typed /\ e.form /\ e.authority
    /\ ContractReference(e, hash, c)
    /\ e.contract_id = c.id /\ e.mission = c.mission
    /\ EvidenceItems(e, c, src)
    /\ Claims(e) /\ Findings(e) /\ Unresolved(e, c)
    /\ EvidenceState(e, c) = "complete"

-----------------------------------------------------------------------------
(* The proposal validator.                                                 *)

Reference(ref, hash, doc) == IsDocument(doc) /\ hash = ref /\ doc.typed

\* approval_map: of two well-formed declarations for an operation the last
\* one counts.
ApprovalMap(c) ==
    LET good == {i \in DOMAIN c.approvals :
                    /\ c.approvals[i].op \in OPERATIONS
                    /\ c.approvals[i].token # BadToken}
        LastOf(o) == CHOOSE i \in good :
                        /\ c.approvals[i].op = o
                        /\ \A j \in good : c.approvals[j].op = o => j <= i
    IN  [o \in {c.approvals[i].op : i \in good} |-> c.approvals[LastOf(o)].token]

PathIsPrivate(p) == p \in PrivatePaths

PathAllowedByContract_AllowWins(c, p) ==
    ~PathIsPrivate(p) /\ \E a \in c.allowed_paths : p \in a.matches

PathAllowedByContract(c, p) ==
    /\ ~PathIsPrivate(p)
    /\ \A b \in c.blocked_paths : p \notin b.matches
    /\ \E a \in c.allowed_paths : p \in a.matches

BundleAuthority(c, e, p) ==
    /\ c.authority /\ c.teachback /\ c.review.required
    /\ e.authority
    /\ e.contract_id = c.id /\ e.mission = c.mission
    /\ e.ref = p.contract_ref

\* Evidence ids and requirement indices are checked as the evidence
\* validator checks them, by code of its own.
BundleItems(c, e) == ItemIdentity(e, c)

BundleSources(e, src) ==
    /\ \A it \in Elems(e.items) : it.status = "satisfied" /\ it.sources # <<>>
    /\ SourcesMatch(e, src)

BundleCoverage_NoGaps(c, e) ==
    /\ e.unresolved = <<>>
    /\ \A cl \in Elems(e.claims) : cl.status = "supported"
    /\ \A f \in Elems(e.findings) : f.level # "error"

BundleCoverage(c, e) ==
    /\ RequirementsMapped(e, c)
    /\ e.unresolved = <<>>
    /\ \A cl \in Elems(e.claims) : cl.status = "supported"
    /\ \A f \in Elems(e.findings) : f.level # "error"

EvidenceBundle(c, e, p, src) ==
    /\ BundleAuthority(c, e, p)
    /\ BundleItems(c, e) /\ BundleSources(e, src) /\ BundleCoverage(c, e)

ActionOperations(p) == {a.op : a \in Elems(p.actions)} \cap OPERATIONS
StateChanging(p) ==
    \E a \in Elems(p.actions) : a.op \in STATE_CHANGING_OPERATIONS \/ a.destructive

ApprovalRequirements(p, c) ==
    LET declared == ApprovalMap(c)
    IN  /\ \A a \in Elems(p.approvals) :
              /\ a.op \in ActionOperations(p)
              /\ a.token # BadToken /\ a.reason
              /\ a.op \in DOMAIN declared
              /\ a.token = declared[a.op]
        /\ NoRepeat(p.approvals, LAMBDA a : a.op)
        /\ ActionOperations(p) \cap SENSITIVE_OPERATIONS \subseteq DOMAIN declared
        /\ ActionOperations(p) \cap (SENSITIVE_OPERATIONS \cup DOMAIN declared)
              \subseteq {a.op : a \in Elems(p.approvals)}

\* argv is None, a list of plain tokens, or one with a shell or control token.
CommandArgv(argv, required) == argv = "plain" \/ (argv = None /\ ~required)

ActionOperation(a, c) ==
    /\ a.op \in OPERATIONS
    /\ a.op \in c.allowed /\ a.op \notin c.blocked
    /\ a.op = "git_push" => c.network = "explicit"
    /\ a.op = "write_private_memory" => c.private = "explicit"

ActionScope(a, p, c) ==
    /\ a.status = "proposed_only" /\ ~a.irreversible
    /\ RISK_ORDER[a.risk] <= RISK_ORDER[p.risk]
    /\ a.paths # {}
    /\ \A x \in a.paths : PathAllowedByContract(c, x)

ActionLinks(a, c, e) ==
    /\ a.ids # {}
    /\ \A i \in a.ids : \E it \in Elems(e.items) :
          it.id = i /\ it.status = "satisfied"
    /\ a.criteria # {} /\ a.criteria \subseteq 1..c.criteria

ActionCommand(a, c) ==
    /\ a.argv # None => a.op \in COMMAND_OPERATIONS
    /\ CommandArgv(a.argv, a.op \in COMMAND_OPERATIONS)
    /\ a.workdir = "." \/ PathAllowedByContract(c, a.workdir)
    /\ a.op \in SENSITIVE_OPERATIONS \cup DOMAIN ApprovalMap(c) => a.requires

\* Unlike the contract validator, an operation on neither list blocks here.
Actions(p, c, e) ==
    /\ c.allowed \cap c.blocked = {}
    /\ OPERATIONS \subseteq c.allowed \cup c.blocked
    /\ p.actions # <<>>
    /\ NoRepeat(p.actions, LAMBDA a : a.id)
    /\ \A a \in Elems(p.actions) :
          /\ a.id # BadId
          /\ ActionOperation(a, c) /\ ActionScope(a, p, c)
          /\ ActionLinks(a, c, e) /\ ActionCommand(a, c)

GlobalPaths(p, c) ==
    /\ p.paths # {}
    /\ \A x \in p.paths : PathAllowedByContract(c, x)

IndexLinks(p, c) ==
    /\ p.criteria # {} /\ p.criteria \subseteq 1..c.criteria
    /\ p.triggers # {} /\ p.triggers \subseteq 1..c.triggers

Review_OwnRiskOnly(p, c) ==
    /\ p.review.required /\ p.review.reviewers
    /\ p.review.level \in DOMAIN REVIEW_ORDER
    /\ p.risk = "high" => REVIEW_ORDER[p.review.level] >= REVIEW_ORDER["strict"]
    /\ p.risk = "critical" => p.review.level = "critical"

\* The proposal's risk is its own: it is never compared with the contract's.
Review(p, c) ==
    /\ p.review.required /\ p.review.reviewers
    /\ p.review.level \in DOMAIN REVIEW_ORDER
    /\ c.review.level \in DOMAIN REVIEW_ORDER =>
          REVIEW_ORDER[p.review.level] >= REVIEW_ORDER[c.review.level]
    /\ p.risk = "high" => REVIEW_ORDER[p.review.level] >= REVIEW_ORDER["strict"]
    /\ p.risk = "critical" => p.review.level = "critical"

RollbackCommands(r) ==
    /\ \A x \in Elems(r.commands) : CommandArgv(x, TRUE)
    /\ r.mode = "not_required" => r.commands = <<>>
    /\ r.mode = "command_proposal" => r.commands # <<>>

Rollback(p) ==
    /\ p.rollback.mode \in ROLLBACK_MODES
    /\ StateChanging(p) => p.rollback.mode # "not_required"
    /\ p.rollback.mode # "irreversible"
    /\ p.rollback.lists /\ p.rollback.authority
    /\ RollbackCommands(p.rollback)

ProposalReferences(p, ch, c, eh, e) ==
    /\ Reference(p.contract_ref, ch, c) /\ Reference(p.evidence_ref, eh, e)
    /\ p.contract_id = c.id /\ p.mission = c.mission
    /\ p.bundle_id = e.id

ValidateProposal(p, ch, c, eh, e, src) ==
    /\ p.typed /\ p.form /\ p.authority
    /\ ProposalReferences(p, ch, c, eh, e)
    /\ EvidenceBundle(c, e, p, src)
    /\ GlobalPaths(p, c) /\ IndexLinks(p, c) /\ Review(p, c)
    /\ Actions(p, c, e)
    /\ p.paths = UNION {a.paths : a \in Elems(p.actions)}
    /\ ApprovalRequirements(p, c)
    /\ Rollback(p)

-----------------------------------------------------------------------------
(* The processes: one validator at a time, and the people who edit files.  *)

Fresh == [pc |-> "done", tool |-> None, force |-> FALSE, output |-> FALSE,
          own |-> None, ch |-> None, c |-> None, eh |-> None, e |-> None,
          src |-> None, raced |-> FALSE, ok |-> FALSE, exit |-> None]

Init ==
    /\ \E s \in Scenarios :
          file = [contract |-> s[1], evidence |-> s[2], proposal |-> s[3],
                  source |-> "bytes"]
    /\ report = [t \in Tools |-> Absent]
    /\ run = Fresh
    /\ edits = 0
    /\ runs = 0

Goto(pc, upd) == run' = [upd EXCEPT !.pc = pc]
Exit(code, upd) == run' = [upd EXCEPT !.pc = "done", !.exit = code]

\* main: the command line names the tool's own document, --output, --force.
Start(t, output, force) ==
    /\ run.pc = "done" /\ runs < MaxRuns
    /\ Goto("read", [Fresh EXCEPT !.tool = t, !.output = output, !.force = force])
    /\ runs' = runs + 1
    /\ UNCHANGED <<file, report, edits>>

\* read_json_object of the document under validation: exit 2 if unreadable.
ReadOwn ==
    /\ run.pc = "read"
    /\ IF ~IsDocument(file[run.tool])
       THEN Exit("2", Fresh)
       ELSE Goto(IF run.tool = "contract" THEN "judge" ELSE "hash_contract",
                 [run EXCEPT !.own = file[run.tool]])
    /\ UNCHANGED <<file, report, edits, runs>>

AfterContract == IF run.tool = "evidence" THEN "sources" ELSE "hash_evidence"
Resolves(d) == file[d] # Absent
Parsed(d) == IF IsDocument(file[d]) THEN file[d] ELSE None

\* validate_reference up to sha256_file: a missing file is a path blocker.
HashContract ==
    /\ run.pc = "hash_contract"
    /\ IF Resolves("contract")
       THEN Goto("parse_contract", [run EXCEPT !.ch = file.contract])
       ELSE Goto(AfterContract, run)
    /\ UNCHANGED <<file, report, edits, runs>>

\* ... and the second read of the same path, by read_json_object.
ParseContract ==
    /\ run.pc = "parse_contract"
    /\ Goto(AfterContract, [run EXCEPT !.c = Parsed("contract")])
    /\ UNCHANGED <<file, report, edits, runs>>

HashEvidence ==
    /\ run.pc = "hash_evidence"
    /\ IF Resolves("evidence")
       THEN Goto("parse_evidence", [run EXCEPT !.eh = file.evidence])
       ELSE Goto("sources", run)
    /\ UNCHANGED <<file, report, edits, runs>>

ParseEvidence ==
    /\ run.pc = "parse_evidence"
    /\ Goto("sources", [run EXCEPT !.e = Parsed("evidence")])
    /\ UNCHANGED <<file, report, edits, runs>>

HashSources ==
    /\ run.pc = "sources"
    /\ Goto("judge", [run EXCEPT !.src = file.source])
    /\ UNCHANGED <<file, report, edits, runs>>

Verdict ==
    CASE run.tool = "contract" -> ValidateContract(run.own)
      [] run.tool = "evidence" ->
            ValidateBundle(run.own, run.ch, run.c, run.src)
      [] run.tool = "proposal" ->
            ValidateProposal(run.own, run.ch, run.c, run.eh, run.e, run.src)

\* The report is built, then write_json refuses an existing output: the
\* validation was done, and the exit code is 2.
Judge ==
    /\ run.pc = "judge"
    /\ LET judged == [run EXCEPT !.ok = Verdict]
       IN  IF ~run.output THEN Exit(IF Verdict THEN "0" ELSE "1", judged)
           ELSE IF report[run.tool] # Absent /\ ~run.force THEN Exit("2", Fresh)
           ELSE Goto("truncate", judged)
    /\ UNCHANGED <<file, report, edits, runs>>

TruncateReport ==
    /\ run.pc = "truncate"
    /\ report' = [report EXCEPT ![run.tool] = Torn]
    /\ Goto("write", run)
    /\ UNCHANGED <<file, edits, runs>>

\* actual_sha256 of each reference goes into the report; the digest of the
\* validated document itself does not (own, src and raced are history).
BuildReport == [ok |-> run.ok, own |-> run.own, ch |-> run.ch, eh |-> run.eh,
                src |-> run.src, raced |-> run.raced]

WriteReport ==
    /\ run.pc = "write"
    /\ report' = [report EXCEPT ![run.tool] = BuildReport]
    /\ Exit(IF run.ok THEN "0" ELSE "1", run)
    /\ UNCHANGED <<file, edits, runs>>

Killed ==
    /\ run.pc # "done"
    /\ Exit("killed", Fresh)
    /\ UNCHANGED <<file, report, edits, runs>>

\* An edit that falls between the two reads of a referenced file.
Races(d) ==
    \/ d = "contract" /\ run.pc = "parse_contract"
    \/ d = "evidence" /\ run.pc = "parse_evidence"

\* Someone edits, truncates or removes a file while a validator works.
Edit(d, x) ==
    /\ edits < MaxEdits /\ run.pc # "done" /\ x # file[d]
    /\ file' = [file EXCEPT ![d] = x]
    /\ run' = [run EXCEPT !.raced = run.raced \/ Races(d)]
    /\ edits' = edits + 1
    /\ UNCHANGED <<report, runs>>

Edits(d) ==
    CASE d = "contract" -> Contracts [] d = "evidence" -> Bundles
      [] d = "proposal" -> Proposals [] d = "source" -> {"other bytes"}

Next ==
    \/ \E t \in Tools, o, f \in BOOLEAN : (f => o) /\ Start(t, o, f)
    \/ ReadOwn \/ HashContract \/ ParseContract
    \/ HashEvidence \/ ParseEvidence \/ HashSources
    \/ Judge \/ TruncateReport \/ WriteReport \/ Killed
    \/ \E d \in Docs : \E x \in Edits(d) \cup {Torn, Absent} : Edit(d, x)

Spec == Init /\ [][Next]_vars

-----------------------------------------------------------------------------
(* Properties.                                                             *)

\* Types of the documents, the reports and the running tool; exit code 0 is only ever
\* that of a run that accepted its input.
TypeOK ==
    /\ DOMAIN file = Docs /\ DOMAIN report = Tools
    /\ \A t \in Tools :
          report[t] \in {Absent, Torn} \/ (report[t].ok \in BOOLEAN /\ IsDocument(report[t].own))
    /\ run.exit \in {None, "0", "1", "2", "killed"}
    /\ run.exit = "0" => run.ok
    /\ edits \in 0..MaxEdits /\ runs \in 0..MaxRuns

\* What an accepting run leaves behind, in its exit code or in a report.
Accepted(t) ==
    {x \in {BuildReport} : run.tool = t /\ run.exit = "0"}
    \cup {x \in {report[t]} : x \notin {Absent, Torn} /\ x.ok}

\* The proposal stays inside what contract c grants: operations, tokens,
\* paths, review and a way back for every change of state.
Authorised(p, c) ==
    \A a \in Elems(p.actions) :
        /\ a.op \in c.allowed \ c.blocked
        /\ a.op \in SENSITIVE_OPERATIONS =>
              /\ a.requires
              /\ \E q \in Elems(p.approvals), k \in Elems(c.approvals) :
                    q.op = a.op /\ k.op = a.op /\ q.token = k.token
              /\ a.op # "invoke_local_model" =>
                    p.rollback.mode \in {"manual", "command_proposal"}
        /\ a.paths \cap (PrivatePaths \cup UNION {b.matches : b \in c.blocked_paths}) = {}
        /\ a.paths \subseteq p.paths \cap UNION {b.matches : b \in c.allowed_paths}

\* Each requirement of c is answered by exactly one item of e, satisfied by
\* at least one source whose digest is the source's.
Supported(e, c, src) ==
    \A r \in DOMAIN c.requirements :
        LET answers == {i \in DOMAIN e.items : e.items[i].req = r}
        IN  /\ Cardinality(answers) = 1
            /\ \A i \in answers :
                  /\ e.items[i].status = "satisfied"
                  /\ \E s \in Elems(e.items[i].sources) : s.sha = src

\* A "proposed" verdict or report (validate_proposal) is true of the contract
\* and bundle bytes whose digests it cites, whatever is edited meanwhile,
\* unless the edit falls between a file's hash and its parse.
ProposedIsAuthorised ==
    \A x \in Accepted("proposal") : ~x.raced =>
        /\ x.ch = x.own.contract_ref /\ x.eh = x.own.evidence_ref
        /\ x.eh.ref = x.ch
        /\ Authorised(x.own, x.ch)
        /\ Supported(x.eh, x.ch, x.src)

\* A "ready_for_human_review" bundle (validate_bundle) answers every
\* requirement of the contract it cites, and a supported claim of it rests
\* only on satisfied items.
ReadyIsSupported ==
    \A x \in Accepted("evidence") : ~x.raced =>
        /\ x.ch = x.own.ref
        /\ Supported(x.own, x.ch, x.src)
        /\ \A cl \in Elems(x.own.claims) : cl.status = "supported" =>
              \E it \in Elems(x.own.items) : it.id \in cl.ids /\ it.status = "satisfied"

\* Whatever passes is complete.  The two validators agree: what the proposal
\* validator accepts, even when raced, is a bundle determine_evidence_state of
\* the evidence validator calls complete for the contract that was parsed; and
\* a bundle the latter passes is supported by what it cites.
ProposedIsComplete ==
    /\ (run.tool = "proposal" /\ run.exit = "0") => EvidenceState(run.e, run.c) = "complete"
    /\ ReadyIsSupported

\* Risk and review across the two validators: a proposal accepted on a
\* contract that the contract validator calls ready is reviewed at the level
\* the contract's own risk demands, although the proposal validator never
\* reads that risk.
ReviewCoversRisk ==
    \A x \in Accepted("proposal") : ~x.raced /\ ValidateContract(x.ch) =>
        /\ x.ch.risk = "high" => x.own.review.level # "standard"
        /\ x.ch.risk = "critical" => x.own.review.level = "critical"

=============================================================================
