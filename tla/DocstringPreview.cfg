SPECIFICATION Spec
CONSTANTS
    MaxItems = 1
    None = None
    Missions = {"m1", "m2"}
    Changes <- MCChanges
    Findings = {"finding"}
    Drafts <- MCArchitectDrafts
    Contracts <- MCContracts
    Allowed <- MCAllowed
    Docs <- MCDocs
    Roots = {"agents"}
    Outputs <- MCOutputs
    Logs <- MCLogs
    Absent = Absent
    Torn = Torn
    Scenarios <- MCFirstScenario
    MAX_PLAN_ATTEMPTS = 3
    MaxAhead = 3
    MaxTurns = 2
INVARIANT PreviewAgreesWithGate
CHECK_DEADLOCK FALSE
