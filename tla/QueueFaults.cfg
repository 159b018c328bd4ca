CONSTANTS
    Session = {s1, s2}
    Action = {inspect, audit, patch, tests}
    Initial <- MCInitial
    Audit = audit
    Patch = patch
    Tests = tests
    Allowed = {patch, tests}
    Faults = {"crash", "io", "authority"}
    None = None
    inspect = inspect
    audit = audit
    patch = patch
    tests = tests
SPECIFICATION FairSpec
INVARIANTS
    TypeOK
    DispatchedAtMostOnce
    LedgerIsTruthful
    RecoveryIsSound
    FollowupsInOrder
PROPERTIES
    ImplementsLedger
    CallsReturn
