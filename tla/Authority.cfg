SPECIFICATION Spec
CONSTANTS
    Session = {s1, s2}
    Absent = Absent
    Torn = Torn
    None = None
    Environments <- MCEnvironments
SYMMETRY Symmetry
INVARIANTS
    OneAuthority
    LimitsHold
    SessionSeesReceipt
CHECK_DEADLOCK FALSE
