----------------------- MODULE SupervisedActionProofs -----------------------
(***************************************************************************)
(* Proofs about SupervisedAction, for any contracts, bundles, proposals    *)
(* and edits: what an accepting validator leaves behind is true of the     *)
(* bytes whose digests it cites.                                           *)
(*                                                                         *)
(* The argument has two halves.  What the checks imply about the documents *)
(* they were given is first-order reasoning (Authorises, Supports,         *)
(* Completes, Covers).  That they were given the cited bytes is an         *)
(* invariant of the run: a file parsed is the file hashed unless an edit   *)
(* fell between the two reads (MatchInv), and nothing the verdict was      *)
(* taken from changes before the report is out (OkInv).                    *)
(***************************************************************************)
EXTENDS SupervisedAction, FiniteSetTheorems, WellFoundedInduction, NaturalsInduction, TLAPS

-----------------------------------------------------------------------------
(* Lists. *)

\* A list with something in it has elements.
LEMMA ListHasElements == ASSUME NEW s, IsList(s), s # <<>> PROVE \E i \in DOMAIN s : s[i] \in Elems(s)
<1> DEFINE S == Elems(s)
<1>1. s \in Seq(S)
  BY DEF IsList
<1> HIDE DEF S
<1>2. Len(s) \in Nat /\ Len(s) # 0 /\ DOMAIN s = 1..Len(s)
  BY <1>1
<1>3. 1 \in DOMAIN s
  BY <1>2
<1> QED BY <1>3 DEF Elems

\* A set of positions of a list has a last one.
LEMMA LastPosition ==
    ASSUME NEW n \in Nat, NEW T \in SUBSET (1..n), T # {}
    PROVE  \E i \in T : \A j \in T : j <= i
<1> DEFINE back == {n - i : i \in T}
<1>1. back \subseteq Nat /\ back # {}
  <2>1. PICK i : i \in T
    OBVIOUS
  <2>2. n - i \in back
    BY <2>1
  <2>3. \A j \in T : n - j \in Nat
    OBVIOUS
  <2> QED BY <2>2, <2>3
<1>2. \E x \in back : \A y \in back : ~(<<y, x>> \in OpToRel(<, Nat))
  <2> HIDE DEF back
  <2> QED BY <1>1, NatLessThanWellFounded, WFMin
<1>3. PICK x \in back : \A y \in back : ~(y < x)
  BY <1>1, <1>2 DEF OpToRel
<1>4. PICK i \in T : x = n - i
  BY <1>3
<1>5. ASSUME NEW j \in T PROVE j <= i
  BY <1>3, <1>4
<1> QED BY <1>5
-----------------------------------------------------------------------------
(* What the checks imply. *)

\* The token approval_map() holds for an operation is one the contract declares for it.
LEMMA DeclaredToken ==
    ASSUME NEW c, IsList(c.approvals), NEW o \in DOMAIN ApprovalMap(c)
    PROVE  \E k \in Elems(c.approvals) : k.op = o /\ k.token = ApprovalMap(c)[o]
<1> DEFINE good == {i \in DOMAIN c.approvals : /\ c.approvals[i].op \in OPERATIONS
                                               /\ c.approvals[i].token # BadToken}
           LastOf(x) == CHOOSE i \in good : /\ c.approvals[i].op = x
                                            /\ \A j \in good : c.approvals[j].op = x => j <= i
           T == {i \in good : c.approvals[i].op = o}
<1>1. DOMAIN ApprovalMap(c) = {c.approvals[i].op : i \in good} /\ ApprovalMap(c)[o] = c.approvals[LastOf(o)].token
  BY DEF ApprovalMap
<1>2. Len(c.approvals) \in Nat /\ DOMAIN c.approvals = 1..Len(c.approvals)
  BY DEF IsList
<1>3. T \in SUBSET (1..Len(c.approvals)) /\ T # {}
  BY <1>1, <1>2
<1>4. \E i \in T : \A j \in T : j <= i
  <2> HIDE DEF T
  <2> QED BY <1>2, <1>3, LastPosition
<1>5. \E i \in good : /\ c.approvals[i].op = o
                      /\ \A j \in good : c.approvals[j].op = o => j <= i
  BY <1>4
<1>6. LastOf(o) \in good /\ c.approvals[LastOf(o)].op = o
  <2> HIDE DEF good
  <2> QED BY <1>5
<1>7. LastOf(o) \in DOMAIN c.approvals
  BY <1>6
<1> HIDE DEF LastOf
<1> QED BY <1>1, <1>6, <1>7 DEF Elems

\* An accepted proposal stays inside what its contract grants.
LEMMA Authorises ==
    ASSUME NEW p, NEW ch, NEW c, NEW eh, NEW e, NEW src, ValidateProposal(p, ch, c, eh, e, src), IsList(c.approvals)
    PROVE  Authorised(p, c)
<1> SUFFICES ASSUME NEW a \in Elems(p.actions)
             PROVE  /\ a.op \in c.allowed \ c.blocked
                    /\ a.op \in SENSITIVE_OPERATIONS =>
                          /\ a.requires
                          /\ \E q \in Elems(p.approvals), k \in Elems(c.approvals) :
                                q.op = a.op /\ k.op = a.op /\ q.token = k.token
                          /\ a.op # "invoke_local_model" =>
                                p.rollback.mode \in {"manual", "command_proposal"}
                    /\ a.paths \cap (PrivatePaths \cup UNION {b.matches : b \in c.blocked_paths}) = {}
                    /\ a.paths \subseteq p.paths \cap UNION {b.matches : b \in c.allowed_paths}
  BY DEF Authorised
<1>1. ActionOperation(a, c) /\ ActionScope(a, p, c) /\ ActionCommand(a, c)
  BY DEF ValidateProposal, Actions
<1>2. a.op \in c.allowed \ c.blocked /\ a.op \in OPERATIONS
  BY <1>1 DEF ActionOperation
<1>3. a.op \in SENSITIVE_OPERATIONS => a.requires
  BY <1>1 DEF ActionCommand
<1>4. ASSUME a.op \in SENSITIVE_OPERATIONS
      PROVE  \E q \in Elems(p.approvals), k \in Elems(c.approvals) :
                q.op = a.op /\ k.op = a.op /\ q.token = k.token
  <2>1. a.op \in ActionOperations(p)
    BY <1>2 DEF ActionOperations
  <2>2. PICK q \in Elems(p.approvals) : q.op = a.op
    BY <1>4, <2>1 DEF ValidateProposal, ApprovalRequirements
  <2>3. q.op \in DOMAIN ApprovalMap(c) /\ q.token = ApprovalMap(c)[q.op]
    BY DEF ValidateProposal, ApprovalRequirements
  <2> QED BY <2>2, <2>3, DeclaredToken
<1>5. a.op \in SENSITIVE_OPERATIONS /\ a.op # "invoke_local_model" =>
          p.rollback.mode \in {"manual", "command_proposal"}
  <2>1. a.op \in SENSITIVE_OPERATIONS /\ a.op # "invoke_local_model" => StateChanging(p)
    BY DEF StateChanging, STATE_CHANGING_OPERATIONS
  <2> QED BY <2>1 DEF ValidateProposal, Rollback, ROLLBACK_MODES
<1>6. \A x \in a.paths : PathAllowedByContract(c, x)
  BY <1>1 DEF ActionScope
<1>7. a.paths \subseteq p.paths
  BY DEF ValidateProposal
<1>8. /\ a.paths \cap (PrivatePaths \cup UNION {b.matches : b \in c.blocked_paths}) = {}
      /\ a.paths \subseteq UNION {b.matches : b \in c.allowed_paths}
  BY <1>6 DEF PathAllowedByContract, PathIsPrivate
<1> QED BY <1>2, <1>3, <1>4, <1>5, <1>7, <1>8

\* A bundle that maps every requirement once, to satisfied items with sources of the
\* digest the source has.
LEMMA Supports ==
    ASSUME NEW e, NEW c, NEW src, ItemIdentity(e, c), RequirementsMapped(e, c), SourcesMatch(e, src),
           \A it \in Elems(e.items) : IsList(it.sources) /\ it.status = "satisfied" /\ it.sources # <<>>
    PROVE  Supported(e, c, src)
<1> SUFFICES ASSUME NEW r \in DOMAIN c.requirements
             PROVE  LET answers == {i \in DOMAIN e.items : e.items[i].req = r}
                    IN  /\ Cardinality(answers) = 1
                        /\ \A i \in answers :
                              /\ e.items[i].status = "satisfied"
                              /\ \E s \in Elems(e.items[i].sources) : s.sha = src
  BY DEF Supported
<1> DEFINE answers == {i \in DOMAIN e.items : e.items[i].req = r}
<1>1. \A i \in DOMAIN e.items : e.items[i] \in Elems(e.items)
  BY DEF Elems
<1>2. PICK i \in DOMAIN e.items : e.items[i].req = r
  BY DEF RequirementsMapped, Elems
<1>3. \A k, j \in DOMAIN e.items : e.items[k].req = e.items[j].req => k = j
  BY DEF ItemIdentity, NoRepeat
<1>4. answers = {i}
  BY <1>2, <1>3
<1>5. Cardinality(answers) = 1
  BY <1>4, FS_Singleton
<1>6. ASSUME NEW j \in answers PROVE \E s \in Elems(e.items[j].sources) : s.sha = src
  <2>1. e.items[j] \in Elems(e.items)
    BY <1>1
  <2>2. PICK s : s \in Elems(e.items[j].sources)
    BY <2>1, ListHasElements
  <2> QED BY <2>1, <2>2 DEF SourcesMatch
<1> QED BY <1>1, <1>5, <1>6

\* A bundle the proposal validator takes is complete for the evidence validator.
LEMMA Completes ==
    ASSUME NEW e, NEW c, ItemIdentity(e, c), RequirementsMapped(e, c), IsList(e.items),
           \A it \in Elems(e.items) : it.status = "satisfied"
    PROVE  EvidenceState(e, c) = "complete"
<1>1. PICK i \in DOMAIN e.items : e.items[i] \in Elems(e.items)
  BY ListHasElements DEF ItemIdentity
<1>2. DOMAIN e.items = 1..Len(e.items) /\ Len(e.items) \in Nat
  BY DEF IsList
<1>3. \A k, j \in DOMAIN e.items : e.items[k].req = e.items[j].req => k = j
  BY DEF ItemIdentity, NoRepeat
<1>4. \A k \in DOMAIN e.items : e.items[k].req \in DOMAIN c.requirements /\ e.items[k].status = "satisfied"
  BY DEF ItemIdentity, Elems
<1>5. \A k \in DOMAIN e.items : \A j \in 1..(k - 1) : e.items[j].req # e.items[k].req
  BY <1>2, <1>3
<1>6. StatusesByRequirement(e, c) = {"satisfied"}
  BY <1>1, <1>4, <1>5 DEF StatusesByRequirement
<1> QED BY <1>6 DEF EvidenceState

\* And the other way: in a complete bundle every item is satisfied.
LEMMA CompleteIsSatisfied ==
    ASSUME NEW e, NEW c, ItemIdentity(e, c), IsList(e.items), EvidenceState(e, c) = "complete"
    PROVE  \A it \in Elems(e.items) : it.status = "satisfied"
<1>2. DOMAIN e.items = 1..Len(e.items) /\ Len(e.items) \in Nat
  BY DEF IsList
<1>3. \A k, j \in DOMAIN e.items : e.items[k].req = e.items[j].req => k = j
  BY DEF ItemIdentity, NoRepeat
<1>4. \A k \in DOMAIN e.items : e.items[k].req \in DOMAIN c.requirements
  BY DEF ItemIdentity, Elems
<1>5. \A k \in DOMAIN e.items : \A j \in 1..(k - 1) : e.items[j].req # e.items[k].req
  BY <1>2, <1>3
<1>6. StatusesByRequirement(e, c) = {"satisfied"}
  BY DEF EvidenceState
<1>7. \A k \in DOMAIN e.items : e.items[k].status \in StatusesByRequirement(e, c)
  BY <1>4, <1>5 DEF StatusesByRequirement
<1> QED BY <1>6, <1>7 DEF Elems
-----------------------------------------------------------------------------
(* The run. *)

RunFields == {"pc", "tool", "force", "output", "own", "ch", "c", "eh", "e", "src", "raced", "ok", "exit"}

ShapeInv ==
    /\ DOMAIN file = Docs /\ DOMAIN report = Tools /\ DOMAIN run = RunFields
    /\ run.pc # "done" => run.tool \in Tools
    /\ file.contract \in ContractDocs \cup {Torn, Absent}
    /\ file.evidence \in BundleDocs \cup {Torn, Absent}

\* What the run holds was parsed from a file, and is not held before.
ReadInv ==
    /\ run.c \in ContractDocs \cup {None} /\ run.e \in BundleDocs \cup {None}
    /\ run.pc \in {"read", "hash_contract", "parse_contract"} => run.c = None
    /\ run.pc \in {"read", "hash_contract", "parse_contract", "hash_evidence", "parse_evidence"} => run.e = None
    /\ run.tool = "evidence" /\ run.pc \notin {"read", "done"} => run.own \in BundleDocs

\* Unless an edit fell between the two reads, what was parsed is what was hashed.
MatchInv ==
    ~run.raced =>
        /\ run.c # None => run.c = run.ch
        /\ run.e # None => run.e = run.eh
        /\ run.pc = "parse_contract" => file.contract = run.ch
        /\ run.pc = "parse_evidence" => file.evidence = run.eh

\* An accepting verdict is the verdict on what the run still holds.
OkInv ==
    /\ run.ok => /\ Verdict /\ run.tool \in Tools /\ run.pc \in {"truncate", "write", "done"}
                 /\ run.tool = "evidence" => run.own \in BundleDocs
    /\ run.exit = "0" => run.ok

RunInv == ShapeInv /\ ReadInv /\ MatchInv /\ OkInv

\* What an accepted proposal, and an accepted bundle, are.
ProposalTrue(x) ==
    /\ x.ch = x.own.contract_ref /\ x.eh = x.own.evidence_ref /\ x.eh.ref = x.ch
    /\ Authorised(x.own, x.ch) /\ Supported(x.eh, x.ch, x.src)
    /\ ValidateContract(x.ch) => /\ x.ch.risk = "high" => x.own.review.level # "standard"
                                 /\ x.ch.risk = "critical" => x.own.review.level = "critical"

BundleTrue(x) ==
    /\ x.ch = x.own.ref /\ Supported(x.own, x.ch, x.src)
    /\ \A cl \in Elems(x.own.claims) : cl.status = "supported" =>
          \E it \in Elems(x.own.items) : it.id \in cl.ids /\ it.status = "satisfied"

\* The reports on disk say so.
ReportInv ==
    \A t \in Tools : report[t] \notin {Absent, Torn} /\ report[t].ok /\ ~report[t].raced =>
        (t = "proposal" => ProposalTrue(report[t])) /\ (t = "evidence" => BundleTrue(report[t]))

ActionInv == RunInv /\ ReportInv
\* An accepted proposal, when it was judged on the bytes it cites.
LEMMA ProposalVerdict ==
    ASSUME NEW x, x.ch \in ContractDocs, x.eh \in BundleDocs,
           ValidateProposal(x.own, x.ch, x.ch, x.eh, x.eh, x.src)
    PROVE  ProposalTrue(x)
<1>1. /\ IsList(x.ch.approvals) /\ IsList(x.eh.items)
      /\ \A it \in Elems(x.eh.items) : IsList(it.sources)
  BY DocumentAssumption
<1>2. x.ch = x.own.contract_ref /\ x.eh = x.own.evidence_ref
  BY DEF ValidateProposal, ProposalReferences, Reference
<1>3. EvidenceBundle(x.ch, x.eh, x.own, x.src)
  BY DEF ValidateProposal
<1>4. x.eh.ref = x.ch
  BY <1>2, <1>3 DEF EvidenceBundle, BundleAuthority
<1>5. Authorised(x.own, x.ch)
  BY <1>1, Authorises
<1>6. Supported(x.eh, x.ch, x.src)
  <2>1. /\ ItemIdentity(x.eh, x.ch) /\ RequirementsMapped(x.eh, x.ch) /\ SourcesMatch(x.eh, x.src)
        /\ \A it \in Elems(x.eh.items) : it.status = "satisfied" /\ it.sources # <<>>
    BY <1>3 DEF EvidenceBundle, BundleItems, BundleCoverage, BundleSources
  <2> QED BY <1>1, <2>1, Supports
<1>7. ASSUME ValidateContract(x.ch)
      PROVE  /\ x.ch.risk = "high" => x.own.review.level # "standard"
             /\ x.ch.risk = "critical" => x.own.review.level = "critical"
  <2> DEFINE p == x.own.review.level
             c == x.ch.review.level
  <2>1. /\ c \in DOMAIN REVIEW_ORDER /\ (x.ch.risk = "high" => c # "standard")
        /\ x.ch.risk = "critical" => c = "critical"
    BY <1>7 DEF ValidateContract, ContractReview
  <2>2. p \in DOMAIN REVIEW_ORDER /\ REVIEW_ORDER[p] >= REVIEW_ORDER[c]
    BY <2>1 DEF ValidateProposal, Review
  <2> HIDE DEF p, c
  <2>3. (c # "standard" => p # "standard") /\ (c = "critical" => p = "critical")
    BY <2>1, <2>2 DEF REVIEW_ORDER
  <2> QED BY <2>1, <2>3 DEF p, c
<1> QED BY <1>2, <1>4, <1>5, <1>6, <1>7 DEF ProposalTrue

\* An accepted bundle, likewise.
LEMMA BundleVerdict ==
    ASSUME NEW x, x.own \in BundleDocs, ValidateBundle(x.own, x.ch, x.ch, x.src)
    PROVE  BundleTrue(x)
<1> DEFINE e == x.own
<1>1. IsList(e.items) /\ \A it \in Elems(e.items) : IsList(it.sources)
  BY DocumentAssumption
<1>2. /\ x.ch = e.ref /\ ItemIdentity(e, x.ch) /\ RequirementsMapped(e, x.ch)
      /\ ItemSources(e, x.src) /\ EvidenceState(e, x.ch) = "complete" /\ Claims(e)
  BY DEF ValidateBundle, ContractReference, EvidenceItems
<1> HIDE DEF e
<1>3. \A it \in Elems(e.items) : it.status = "satisfied"
  BY <1>1, <1>2, CompleteIsSatisfied
<1>4. SourcesMatch(e, x.src) /\ \A it \in Elems(e.items) : it.sources # <<>>
  BY <1>2, <1>3 DEF ItemSources
<1>5. Supported(e, x.ch, x.src)
  BY <1>1, <1>2, <1>3, <1>4, Supports
<1>6. ASSUME NEW cl \in Elems(e.claims), cl.status = "supported"
      PROVE  \E it \in Elems(e.items) : it.id \in cl.ids /\ it.status = "satisfied"
  <2>1. cl.ids # {} /\ cl.ids \subseteq {it.id : it \in Elems(e.items)}
    BY <1>2, <1>6 DEF Claims
  <2> QED BY <1>3, <2>1
<1> QED BY <1>2, <1>5, <1>6 DEF BundleTrue, e

\* What a run that accepted its document knows.
LEMMA RunTells ==
    ASSUME RunInv, run.ok
    PROVE  /\ run.tool = "proposal" /\ ~run.raced => ProposalTrue(BuildReport)
           /\ run.tool = "evidence" /\ ~run.raced => BundleTrue(BuildReport)
           /\ run.tool = "proposal" => EvidenceState(run.e, run.c) = "complete"
<1>0. OkInv /\ ReadInv /\ MatchInv
  BY DEF RunInv
<1>1. /\ BuildReport.own = run.own /\ BuildReport.ch = run.ch /\ BuildReport.eh = run.eh
      /\ BuildReport.src = run.src
  BY DEF BuildReport
<1>2. ASSUME run.tool = "proposal"
      PROVE  /\ ValidateProposal(run.own, run.ch, run.c, run.eh, run.e, run.src)
             /\ run.c \in ContractDocs /\ run.c # None /\ run.e \in BundleDocs /\ run.e # None
  <2>1. ValidateProposal(run.own, run.ch, run.c, run.eh, run.e, run.src)
    BY <1>0, <1>2 DEF OkInv, Verdict
  <2>2. run.c # None /\ run.e # None
    BY <2>1 DEF ValidateProposal, ProposalReferences, Reference, IsDocument
  <2> QED BY <1>0, <2>1, <2>2 DEF ReadInv
<1>3. ASSUME run.tool = "proposal", ~run.raced PROVE ProposalTrue(BuildReport)
  <2>1. run.c = run.ch /\ run.e = run.eh
    BY <1>0, <1>2, <1>3 DEF MatchInv
  <2> QED BY <1>1, <1>2, <1>3, <2>1, ProposalVerdict
<1>4. ASSUME run.tool = "evidence", ~run.raced PROVE BundleTrue(BuildReport)
  <2>1. ValidateBundle(run.own, run.ch, run.c, run.src) /\ run.own \in BundleDocs
    BY <1>0, <1>4 DEF OkInv, Verdict
  <2>2. run.c = run.ch
    BY <1>0, <1>4, <2>1 DEF MatchInv, ValidateBundle, ContractReference, IsDocument
  <2> QED BY <1>1, <2>1, <2>2, BundleVerdict
<1>5. ASSUME run.tool = "proposal" PROVE EvidenceState(run.e, run.c) = "complete"
  <2>1. /\ ItemIdentity(run.e, run.c) /\ RequirementsMapped(run.e, run.c)
        /\ \A it \in Elems(run.e.items) : it.status = "satisfied"
    BY <1>2, <1>5 DEF ValidateProposal, EvidenceBundle, BundleItems, BundleCoverage, BundleSources
  <2> QED BY <1>2, <1>5, <2>1, Completes, DocumentAssumption
<1> QED BY <1>3, <1>4, <1>5
-----------------------------------------------------------------------------
(* The steps of a run. *)

\* Over, or about to start: the run holds nothing.
LEMMA FreshFacts ==
    /\ DOMAIN Fresh = RunFields /\ Fresh.c = None /\ Fresh.e = None /\ Fresh.ok = FALSE
    /\ Fresh.pc = "done" /\ Fresh.exit = None /\ Fresh.raced = FALSE
  BY DEF Fresh, RunFields

LEMMA StartKeeps ==
    ASSUME RunInv, NEW t \in Tools, NEW output, NEW force, Start(t, output, force)
    PROVE  RunInv'
<1>1. /\ DOMAIN run' = RunFields /\ run'.c = None /\ run'.e = None /\ run'.ok = FALSE
      /\ run'.pc = "read" /\ run'.exit = None /\ run'.tool = t /\ UNCHANGED <<file, report>>
  BY FreshFacts DEF Start, Goto, RunFields
<1> QED BY <1>1, DocumentAssumption DEF RunInv, ShapeInv, ReadInv, MatchInv, OkInv

\* The run is over without a verdict.
LEMMA FreshKeeps ==
    ASSUME RunInv, UNCHANGED <<file, report>>, NEW code \in {"2", "killed"}, Exit(code, Fresh)
    PROVE  RunInv'
<1>1. /\ DOMAIN run' = RunFields /\ run'.c = None /\ run'.e = None /\ run'.ok = FALSE
      /\ run'.pc = "done" /\ run'.exit = code
  BY FreshFacts DEF Exit, RunFields
<1> QED BY <1>1 DEF RunInv, ShapeInv, ReadInv, MatchInv, OkInv

LEMMA ReadOwnKeeps == ASSUME RunInv, ReadOwn PROVE RunInv'
<1>1. CASE ~IsDocument(file[run.tool])
  BY <1>1, FreshKeeps DEF ReadOwn
<1>2. CASE IsDocument(file[run.tool])
  <2>1. /\ DOMAIN run' = RunFields /\ run'.c = run.c /\ run'.e = run.e /\ run'.ok = run.ok
        /\ run'.pc \in {"judge", "hash_contract"} /\ run'.exit = run.exit /\ run'.tool = run.tool
        /\ run'.own = file[run.tool] /\ run'.raced = run.raced /\ UNCHANGED <<file, report>> /\ run.pc = "read"
        /\ run'.ch = run.ch /\ run'.eh = run.eh
    BY <1>2 DEF ReadOwn, Goto, RunFields, RunInv, ShapeInv
  <2>2. run.tool = "evidence" => file[run.tool] = file.evidence /\ file.evidence \in BundleDocs
    BY <1>2 DEF RunInv, ShapeInv, IsDocument, Docs
  <2> QED BY <2>1, <2>2 DEF RunInv, ShapeInv, ReadInv, MatchInv, OkInv
<1> QED BY <1>1, <1>2

LEMMA HashContractKeeps == ASSUME RunInv, HashContract PROVE RunInv'
<1>1. /\ DOMAIN run' = RunFields /\ run'.c = run.c /\ run'.e = run.e /\ run'.ok = run.ok
      /\ run'.exit = run.exit /\ run'.tool = run.tool /\ run'.own = run.own /\ run'.raced = run.raced
      /\ run'.eh = run.eh /\ UNCHANGED <<file, report>> /\ run.pc = "hash_contract"
      /\ \/ run'.pc = "parse_contract" /\ run'.ch = file.contract
         \/ run'.pc \in {"sources", "hash_evidence"} /\ run'.ch = run.ch
  BY DEF HashContract, Goto, AfterContract, RunFields, RunInv, ShapeInv
<1> QED BY <1>1 DEF RunInv, ShapeInv, ReadInv, MatchInv, OkInv

LEMMA ParseContractKeeps == ASSUME RunInv, ParseContract PROVE RunInv'
<1>1. /\ DOMAIN run' = RunFields /\ run'.e = run.e /\ run'.ok = run.ok /\ run'.ch = run.ch
      /\ run'.exit = run.exit /\ run'.tool = run.tool /\ run'.own = run.own /\ run'.raced = run.raced
      /\ run'.eh = run.eh /\ UNCHANGED <<file, report>> /\ run.pc = "parse_contract"
      /\ run'.pc \in {"sources", "hash_evidence"} /\ run'.c = Parsed("contract")
  BY DEF ParseContract, Goto, AfterContract, RunFields, RunInv, ShapeInv
<1>2. /\ Parsed("contract") \in ContractDocs \cup {None}
      /\ Parsed("contract") # None => Parsed("contract") = file.contract
  BY DEF Parsed, IsDocument, RunInv, ShapeInv
<1> QED BY <1>1, <1>2 DEF RunInv, ShapeInv, ReadInv, MatchInv, OkInv

LEMMA HashEvidenceKeeps == ASSUME RunInv, HashEvidence PROVE RunInv'
<1>1. /\ DOMAIN run' = RunFields /\ run'.c = run.c /\ run'.e = run.e /\ run'.ok = run.ok
      /\ run'.exit = run.exit /\ run'.tool = run.tool /\ run'.own = run.own /\ run'.raced = run.raced
      /\ run'.ch = run.ch /\ UNCHANGED <<file, report>> /\ run.pc = "hash_evidence"
      /\ \/ run'.pc = "parse_evidence" /\ run'.eh = file.evidence
         \/ run'.pc = "sources" /\ run'.eh = run.eh
  BY DEF HashEvidence, Goto, RunFields, RunInv, ShapeInv
<1> QED BY <1>1 DEF RunInv, ShapeInv, ReadInv, MatchInv, OkInv

LEMMA ParseEvidenceKeeps == ASSUME RunInv, ParseEvidence PROVE RunInv'
<1>1. /\ DOMAIN run' = RunFields /\ run'.c = run.c /\ run'.ok = run.ok /\ run'.ch = run.ch
      /\ run'.exit = run.exit /\ run'.tool = run.tool /\ run'.own = run.own /\ run'.raced = run.raced
      /\ run'.eh = run.eh /\ UNCHANGED <<file, report>> /\ run.pc = "parse_evidence"
      /\ run'.pc = "sources" /\ run'.e = Parsed("evidence")
  BY DEF ParseEvidence, Goto, RunFields, RunInv, ShapeInv
<1>2. /\ Parsed("evidence") \in BundleDocs \cup {None}
      /\ Parsed("evidence") # None => Parsed("evidence") = file.evidence
  BY DEF Parsed, IsDocument, RunInv, ShapeInv
<1> QED BY <1>1, <1>2 DEF RunInv, ShapeInv, ReadInv, MatchInv, OkInv

LEMMA HashSourcesKeeps == ASSUME RunInv, HashSources PROVE RunInv'
<1>1. /\ DOMAIN run' = RunFields /\ run'.c = run.c /\ run'.e = run.e /\ run'.ok = run.ok
      /\ run'.exit = run.exit /\ run'.tool = run.tool /\ run'.own = run.own /\ run'.raced = run.raced
      /\ run'.ch = run.ch /\ run'.eh = run.eh /\ UNCHANGED <<file, report>> /\ run.pc = "sources"
      /\ run'.pc = "judge"
  BY DEF HashSources, Goto, RunFields, RunInv, ShapeInv
<1> QED BY <1>1 DEF RunInv, ShapeInv, ReadInv, MatchInv, OkInv

\* A verdict does not change while what it was taken from does not.
LEMMA VerdictStays ==
    ASSUME run'.tool = run.tool, run'.own = run.own, run'.ch = run.ch, run'.c = run.c,
           run'.eh = run.eh, run'.e = run.e, run'.src = run.src
    PROVE  Verdict' = Verdict
  BY DEF Verdict

LEMMA JudgeKeeps == ASSUME RunInv, Judge PROVE RunInv'
<1>0. UNCHANGED <<file, report>> /\ run.pc = "judge"
  BY DEF Judge
<1>1. CASE Exit("2", Fresh)
  BY <1>0, <1>1, FreshKeeps
<1>2. CASE \/ Goto("truncate", [run EXCEPT !.ok = Verdict])
           \/ Exit(IF Verdict THEN "0" ELSE "1", [run EXCEPT !.ok = Verdict])
  <2>1. /\ DOMAIN run' = RunFields /\ run'.c = run.c /\ run'.e = run.e /\ run'.ok = Verdict
        /\ run'.tool = run.tool /\ run'.own = run.own /\ run'.raced = run.raced
        /\ run'.ch = run.ch /\ run'.eh = run.eh /\ run'.src = run.src
        /\ run'.pc \in {"truncate", "done"}
        /\ run'.exit = run.exit \/ run'.exit = IF Verdict THEN "0" ELSE "1"
    BY ZenonT(60), <1>2 DEF Goto, Exit, RunFields, RunInv, ShapeInv
  <2>2. Verdict' = Verdict
    BY <2>1, VerdictStays
  <2>3. OkInv'
    BY <1>0, <2>1, <2>2 DEF RunInv, ShapeInv, ReadInv, OkInv
  <2> QED BY <1>0, <2>1, <2>3 DEF RunInv, ShapeInv, ReadInv, MatchInv
<1> QED BY <1>1, <1>2 DEF Judge

LEMMA TruncateReportKeeps == ASSUME RunInv, TruncateReport PROVE RunInv'
<1>1. /\ DOMAIN run' = RunFields /\ run'.c = run.c /\ run'.e = run.e /\ run'.ok = run.ok
      /\ run'.exit = run.exit /\ run'.tool = run.tool /\ run'.own = run.own /\ run'.raced = run.raced
      /\ run'.ch = run.ch /\ run'.eh = run.eh /\ run'.src = run.src /\ file' = file
      /\ run.pc = "truncate" /\ run'.pc = "write" /\ DOMAIN report' = Tools
  BY DEF TruncateReport, Goto, RunFields, RunInv, ShapeInv
<1>2. Verdict' = Verdict
  BY <1>1, VerdictStays
<1> QED BY <1>1, <1>2 DEF RunInv, ShapeInv, ReadInv, MatchInv, OkInv

LEMMA WriteReportKeeps == ASSUME RunInv, WriteReport PROVE RunInv'
<1>1. /\ DOMAIN run' = RunFields /\ run'.c = run.c /\ run'.e = run.e /\ run'.ok = run.ok
      /\ run'.tool = run.tool /\ run'.own = run.own /\ run'.raced = run.raced
      /\ run'.ch = run.ch /\ run'.eh = run.eh /\ run'.src = run.src /\ file' = file
      /\ run'.exit = (IF run.ok THEN "0" ELSE "1")
      /\ run.pc = "write" /\ run'.pc = "done" /\ DOMAIN report' = Tools
  BY DEF WriteReport, Exit, RunFields, RunInv, ShapeInv
<1>2. Verdict' = Verdict
  BY <1>1, VerdictStays
<1> QED BY <1>1, <1>2 DEF RunInv, ShapeInv, ReadInv, MatchInv, OkInv

LEMMA EditKeeps ==
    ASSUME RunInv, NEW d \in Docs, NEW x \in Edits(d) \cup {Torn, Absent}, Edit(d, x)
    PROVE  RunInv'
<1>1. /\ DOMAIN run' = RunFields /\ run'.c = run.c /\ run'.e = run.e /\ run'.ok = run.ok
      /\ run'.exit = run.exit /\ run'.tool = run.tool /\ run'.own = run.own /\ run'.pc = run.pc
      /\ run'.ch = run.ch /\ run'.eh = run.eh /\ run'.src = run.src /\ report' = report
      /\ run'.raced = (run.raced \/ Races(d))
  BY DEF Edit, RunFields, RunInv, ShapeInv
<1>2. /\ DOMAIN file' = Docs
      /\ file'.contract = IF d = "contract" THEN x ELSE file.contract
      /\ file'.evidence = IF d = "evidence" THEN x ELSE file.evidence
  BY DEF Edit, RunInv, ShapeInv, Docs
<1>3. /\ d = "contract" => x \in ContractDocs \cup {Torn, Absent}
      /\ d = "evidence" => x \in BundleDocs \cup {Torn, Absent}
  BY DEF Edits, ContractDocs, BundleDocs
<1>4. MatchInv'
  BY <1>1, <1>2 DEF RunInv, MatchInv, Races
<1>5. Verdict' = Verdict
  BY <1>1, VerdictStays
<1> QED BY <1>1, <1>2, <1>3, <1>4, <1>5 DEF RunInv, ShapeInv, ReadInv, OkInv
-----------------------------------------------------------------------------
(* The specification. *)

LEMMA InitKeeps == Init => ActionInv
<1> SUFFICES ASSUME Init PROVE ActionInv
  OBVIOUS
<1>1. PICK s \in Scenarios :
          file = [contract |-> s[1], evidence |-> s[2], proposal |-> s[3], source |-> "bytes"]
  BY DEF Init
<1>2. DOMAIN file = Docs /\ file.contract \in ContractDocs /\ file.evidence \in BundleDocs
  BY <1>1 DEF Docs, ContractDocs, BundleDocs
<1>3. DOMAIN report = Tools /\ (\A t \in Tools : report[t] = Absent) /\ run = Fresh
  BY DEF Init
<1>4. RunInv
  BY <1>2, <1>3, FreshFacts, DocumentAssumption DEF RunInv, ShapeInv, ReadInv, MatchInv, OkInv
<1> QED BY <1>3, <1>4 DEF ActionInv, ReportInv

LEMMA NextKeeps == ActionInv /\ [Next]_vars => ActionInv'
<1> SUFFICES ASSUME ActionInv, [Next]_vars PROVE ActionInv'
  OBVIOUS
<1>0. RunInv
  BY DEF ActionInv
<1>1. ASSUME report' = report, RunInv' PROVE ActionInv'
  BY <1>1 DEF ActionInv, ReportInv, ProposalTrue, BundleTrue
<1>2. CASE UNCHANGED vars
  <2>1. RunInv'
    BY ZenonT(60), <1>0, <1>2 DEF vars, RunInv, ShapeInv, ReadInv, MatchInv, OkInv, Verdict
  <2> QED BY <1>1, <1>2, <2>1 DEF vars
<1>3. ASSUME NEW t \in Tools, NEW o, NEW f, Start(t, o, f) PROVE ActionInv'
  BY <1>0, <1>1, <1>3, StartKeeps DEF Start
<1>4. CASE ReadOwn
  BY <1>0, <1>1, <1>4, ReadOwnKeeps DEF ReadOwn
<1>5. CASE HashContract
  BY <1>0, <1>1, <1>5, HashContractKeeps DEF HashContract
<1>6. CASE ParseContract
  BY <1>0, <1>1, <1>6, ParseContractKeeps DEF ParseContract
<1>7. CASE HashEvidence
  BY <1>0, <1>1, <1>7, HashEvidenceKeeps DEF HashEvidence
<1>8. CASE ParseEvidence
  BY <1>0, <1>1, <1>8, ParseEvidenceKeeps DEF ParseEvidence
<1>9. CASE HashSources
  BY <1>0, <1>1, <1>9, HashSourcesKeeps DEF HashSources
<1>10. CASE Judge
  BY <1>0, <1>1, <1>10, JudgeKeeps DEF Judge
<1>11. CASE TruncateReport
  <2>1. \A t \in Tools : report'[t] = Torn \/ report'[t] = report[t]
    BY <1>0, <1>11 DEF TruncateReport, RunInv, ShapeInv
  <2>2. ReportInv'
    BY <2>1 DEF ActionInv, ReportInv
  <2> QED BY <1>0, <1>11, <2>2, TruncateReportKeeps DEF ActionInv
<1>12. CASE WriteReport
  <2>1. run.tool \in Tools
    BY <1>0, <1>12 DEF WriteReport, RunInv, ShapeInv
  <2>2. report'[run.tool] = BuildReport /\ \A t \in Tools : t # run.tool => report'[t] = report[t]
    BY <1>0, <1>12, <2>1 DEF WriteReport, RunInv, ShapeInv
  <2>3. BuildReport.ok = run.ok /\ BuildReport.raced = run.raced
    BY DEF BuildReport
  <2>4. run.ok /\ ~run.raced => /\ run.tool = "proposal" => ProposalTrue(BuildReport)
                                /\ run.tool = "evidence" => BundleTrue(BuildReport)
    BY <1>0, RunTells
  <2>5. ReportInv'
    BY <2>1, <2>2, <2>3, <2>4 DEF ActionInv, ReportInv
  <2> QED BY <1>0, <1>12, <2>5, WriteReportKeeps DEF ActionInv
<1>13. CASE Killed
  <2>1. RunInv'
    BY <1>0, <1>13, FreshKeeps DEF Killed
  <2> QED BY <1>1, <1>13, <2>1 DEF Killed
<1>14. ASSUME NEW d \in Docs, NEW x \in Edits(d) \cup {Torn, Absent}, Edit(d, x) PROVE ActionInv'
  BY <1>0, <1>1, <1>14, EditKeeps DEF Edit
<1> QED BY <1>2, <1>3, <1>4, <1>5, <1>6, <1>7, <1>8, <1>9, <1>10, <1>11, <1>12, <1>13, <1>14 DEF Next

\* The inductive invariant of the validators' runs and reports.
THEOREM ValidatorInvariance == Spec => []ActionInv
<1>1. ActionInv /\ [Next]_vars => ActionInv'
  BY NextKeeps
<1> QED BY <1>1, InitKeeps, PTL DEF Spec

\* Everything a run leaves behind as accepted.
LEMMA AcceptedTells ==
    ASSUME ActionInv
    PROVE  /\ \A x \in Accepted("proposal") : ~x.raced => ProposalTrue(x)
           /\ \A x \in Accepted("evidence") : ~x.raced => BundleTrue(x)
<1>1. RunInv /\ ReportInv
  BY DEF ActionInv
<1>2. run.exit = "0" => run.ok
  BY <1>1 DEF RunInv, OkInv
<1>3. BuildReport.raced = run.raced
  BY DEF BuildReport
<1>4. ASSUME NEW t \in {"proposal", "evidence"}, NEW x \in Accepted(t), ~x.raced
      PROVE  (t = "proposal" => ProposalTrue(x)) /\ (t = "evidence" => BundleTrue(x))
  <2>1. CASE x = BuildReport /\ run.tool = t /\ run.exit = "0"
    BY <1>1, <1>2, <1>3, <1>4, <2>1, RunTells
  <2>2. CASE x = report[t] /\ x \notin {Absent, Torn} /\ x.ok
    BY <1>1, <1>4, <2>2 DEF ReportInv, Tools
  <2> QED BY <1>4, <2>1, <2>2 DEF Accepted
<1> QED BY <1>4

\* A "proposed" verdict or report is true of the contract and bundle bytes it
\* cites, whatever is edited meanwhile, unless an edit falls between a file's
\* hash and its parse (validate_proposal).
THEOREM ProposedAuthorised == Spec => []ProposedIsAuthorised
<1>1. ActionInv => ProposedIsAuthorised
  BY AcceptedTells DEF ProposedIsAuthorised, ProposalTrue
<1> QED BY <1>1, ValidatorInvariance, PTL

\* The two validators agree on completeness, raced or not, and a bundle that
\* passes is supported by what it cites (validate_evidence_bundle,
\* determine_evidence_state, validate_claims).
THEOREM ProposedComplete == Spec => []ProposedIsComplete
<1>1. ActionInv => ProposedIsComplete
  <2> SUFFICES ASSUME ActionInv PROVE ProposedIsComplete
    OBVIOUS
  <2>1. ReadyIsSupported
    BY AcceptedTells DEF ReadyIsSupported, BundleTrue
  <2>2. run.tool = "proposal" /\ run.exit = "0" => EvidenceState(run.e, run.c) = "complete"
    BY RunTells DEF ActionInv, RunInv, OkInv
  <2> QED BY <2>1, <2>2 DEF ProposedIsComplete
<1> QED BY <1>1, ValidatorInvariance, PTL

\* A proposal accepted on a contract that is ready is reviewed at the level the
\* contract's risk demands, although validate_review never reads that risk.
THEOREM ReviewCovers == Spec => []ReviewCoversRisk
<1>1. ActionInv => ReviewCoversRisk
  BY AcceptedTells DEF ReviewCoversRisk, ProposalTrue
<1> QED BY <1>1, ValidatorInvariance, PTL
=============================================================================
