------------------------ MODULE MCSupervisedAction ------------------------
EXTENDS SupervisedAction

Pattern(paths) == [matches |-> paths, protected |-> FALSE]
Docs1    == Pattern({"docs", "docs/private", "vault"})
Private1 == Pattern({"docs/private"})
MCPrivate == {"vault"}

Approve(o, k) == [op |-> o, token |-> k, reason |-> TRUE]
ContractBase ==
    [typed |-> TRUE, form |-> TRUE, id |-> "c", mission |-> "m",
     risk |-> "high",
     allowed |-> {"inspect_repository", "apply_patch"},
     blocked |-> OPERATIONS \ {"inspect_repository", "apply_patch"},
     network |-> "blocked", private |-> "blocked",
     approvals |-> <<Approve("apply_patch", "A")>>,
     allowed_paths |-> {Docs1}, blocked_paths |-> {Private1},
     requirements |-> <<"r1", "r2">>, criteria |-> 1, triggers |-> 1,
     review |-> [required |-> TRUE, level |-> "strict", reviewers |-> TRUE],
     teachback |-> TRUE, authority |-> TRUE]

\* Each variant differs from the base in what one check of the code is about.
MCContracts ==
    LET B == ContractBase IN
    {B,
     [B EXCEPT !.allowed = {"inspect_repository"}],
     [B EXCEPT !.blocked = OPERATIONS \ {"inspect_repository"}],
     [B EXCEPT !.blocked_paths = {Docs1}],
     [B EXCEPT !.allowed_paths = {Private1}],
     [B EXCEPT !.approvals = <<>>],
     [B EXCEPT !.approvals = <<Approve("apply_patch", "A"), Approve("apply_patch", "Z")>>],
     [B EXCEPT !.requirements = <<"r1", "r2", "r3">>],
     [B EXCEPT !.requirements = <<"r2", "r1">>],
     [B EXCEPT !.risk = "critical"],
     [B EXCEPT !.risk = "critical", !.review.level = "critical"],
     [B EXCEPT !.review.level = "standard"],
     [B EXCEPT !.mission = "other"],
     [B EXCEPT !.teachback = FALSE],
     [B EXCEPT !.form = FALSE]}

Source == [id |-> "s", private |-> FALSE, sha |-> "bytes"]
Item(i, r, txt, s) ==
    [id |-> i, req |-> r, text |-> txt, status |-> s, criteria |-> {1},
     ops |-> {"apply_patch"},
     sources |-> IF s = "missing" THEN <<>> ELSE <<[Source EXCEPT !.id = i]>>]

BundleBase(c) ==
    [typed |-> TRUE, form |-> TRUE, id |-> "b", contract_id |-> "c",
     mission |-> "m", ref |-> c, authority |-> TRUE,
     items |-> <<Item("e1", 1, "r1", "satisfied"), Item("e2", 2, "r2", "satisfied")>>,
     claims |-> <<[status |-> "supported", ids |-> {"e1"}]>>,
     findings |-> <<[level |-> "info", ids |-> {"e2"}]>>,
     unresolved |-> <<>>]

BundlesOn(c) ==
    LET B == BundleBase(c) IN
    {B,
     [B EXCEPT !.items = <<B.items[1]>>],
     [B EXCEPT !.items = <<B.items[1], Item("e2", 1, "r1", "satisfied")>>],
     [B EXCEPT !.items[2].status = "contradicted"],
     [B EXCEPT !.items[2] = Item("e2", 2, "r2", "missing"), !.unresolved = <<{2}>>],
     [B EXCEPT !.items[2].sources[1].sha = "other bytes"],
     [B EXCEPT !.items[2].sources = <<>>],
     [B EXCEPT !.items[2].text = "r1"],
     [B EXCEPT !.items[2].sources[1].id = "e1"],
     [B EXCEPT !.claims[1].ids = {}],
     [B EXCEPT !.claims[1].status = "unsupported"],
     [B EXCEPT !.findings[1].level = "error"],
     [B EXCEPT !.unresolved = <<{1}>>]}

Patch ==
    [id |-> "a1", op |-> "apply_patch", status |-> "proposed_only",
     risk |-> "high", irreversible |-> FALSE, destructive |-> FALSE,
     paths |-> {"docs"}, ids |-> {"e1"}, criteria |-> {1},
     argv |-> "plain", workdir |-> ".", requires |-> TRUE]

ProposalBase(e) ==
    [typed |-> TRUE, form |-> TRUE, contract_id |-> "c", bundle_id |-> "b",
     mission |-> "m", contract_ref |-> e.ref, evidence_ref |-> e,
     risk |-> "high", paths |-> {"docs"}, actions |-> <<Patch>>,
     approvals |-> <<Approve("apply_patch", "A")>>,
     rollback |-> [mode |-> "manual", lists |-> TRUE, authority |-> TRUE,
                   commands |-> <<>>],
     criteria |-> {1}, triggers |-> {1},
     review |-> [required |-> TRUE, level |-> "strict", reviewers |-> TRUE],
     authority |-> TRUE]

ProposalsOn(e) ==
    LET B == ProposalBase(e) IN
    {B,
     [B EXCEPT !.actions[1].paths = {"docs/private"}, !.paths = {"docs/private"}],
     [B EXCEPT !.actions[1].paths = {"vault"}, !.paths = {"vault"}],
     [B EXCEPT !.actions[1].paths = {"docs", "docs/private"}],
     [B EXCEPT !.paths = {"docs", "docs/private"}],
     [B EXCEPT !.actions[1].op = "git_push"],
     [B EXCEPT !.actions[1].ids = {"e9"}],
     [B EXCEPT !.actions[1].requires = FALSE],
     [B EXCEPT !.actions[1].argv = "shell"],
     [B EXCEPT !.actions[1].risk = "critical"],
     [B EXCEPT !.actions = <<Patch, Patch>>],
     [B EXCEPT !.approvals = <<>>],
     [B EXCEPT !.approvals[1].token = "Z"],
     [B EXCEPT !.rollback.mode = "not_required"],
     [B EXCEPT !.rollback.mode = "command_proposal"],
     [B EXCEPT !.rollback.mode = "irreversible"],
     [B EXCEPT !.review.level = "critical"],
     [B EXCEPT !.review.level = "standard"],
     [B EXCEPT !.risk = "critical"],
     [B EXCEPT !.contract_ref = [ContractBase EXCEPT !.id = "old"]]}

\* The bundle cites the contract and the proposal cites both.  Every variant
\* of one document meets the base of the others; the contracts whose effect
\* depends on the other documents meet every variant of those.
Interesting ==
    {c \in MCContracts : c.risk = "critical" \/ Len(c.approvals) = 2
                         \/ Len(c.requirements) = 3 \/ c = ContractBase}
MCScenarios ==
         {<<c, BundleBase(c), ProposalBase(BundleBase(c))>> : c \in MCContracts}
    \cup UNION {{<<c, e, ProposalBase(e)>> : e \in BundlesOn(c)} : c \in Interesting}
    \cup UNION {{<<c, BundleBase(c), p>> : p \in ProposalsOn(BundleBase(c))}
                : c \in Interesting}

\* What is saved over a document during a run: the good contract, one that
\* asks for more evidence and one that grants less, the good bundle and one
\* that lost an item, the good proposal.
SavedContracts ==
    {ContractBase, [ContractBase EXCEPT !.allowed = {"inspect_repository"}],
     [ContractBase EXCEPT !.requirements = <<"r1", "r2", "r3">>]}
MCBundles   == {BundleBase(ContractBase),
                [BundleBase(ContractBase) EXCEPT !.items = <<@[1]>>]}
MCProposals == {ProposalBase(BundleBase(ContractBase))}
=============================================================================
