SPECIFICATION Spec
CONSTANTS
    Here = here
    External = {other, third, vault}
    PrivateRoot = {vault}
    Session = {s1, s2}
    Files <- MCFiles
    Private = {"secret.env"}
    Ignored = {}
    Tests = {"test_app.py"}
    Gone = Gone
    Link = Link
    None = None
    Scenarios <- MCScenarios
    Edits <- MCEdits
    MaxStudies = 3
    MaxTurns = 6
SYMMETRY Symmetry
INVARIANTS
    ConsentBeforeReading
    AdviceIsCurrent
    AdviceIsUnderstood
CHECK_DEADLOCK FALSE
