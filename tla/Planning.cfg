SPECIFICATION FairSpec
CONSTANTS
    MaxItems = 1
    None = None
    Missions = {"m1", "m2"}
    Changes <- MCChanges
    Findings = {"finding"}
    Drafts <- MCDrafts
    Contracts <- MCContracts
    Allowed <- MCAllowed
    Docs <- MCDocs
    Roots = {"agents"}
    Outputs <- MCOutputs
    Logs <- MCLogs
    Absent = Absent
    Torn = Torn
    Scenarios <- MCScenarios
    MAX_PLAN_ATTEMPTS = 3
    MaxAhead = 3
    MaxTurns = 2
INVARIANTS
    ApprovedWasShown
    AuthorityIsHuman
    EvidenceIsRetained
    WorkersAreSupervised
    FedByProducers
PROPERTY PlanningEnds
CHECK_DEADLOCK FALSE
