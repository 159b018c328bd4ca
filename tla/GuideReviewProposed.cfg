CONSTANTS
    Session = {s1}
    Action = {inspect, audit, patch, tests}
    Initial <- MCInitial
    Audit = audit
    Patch = patch
    Tests = tests
    Allowed = {}
    Faults = {}
    None = None
    inspect = inspect
    audit = audit
    patch = patch
    tests = tests
SPECIFICATION ReturningSpec
PROPERTIES
    ReviewIsProposed
