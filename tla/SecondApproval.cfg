SPECIFICATION Spec
CONSTANTS
    Session = {s1, s2}
    Absent = Absent
    Torn = Torn
    None = None
    Environments <- MCEnvironments
PROPERTY ApprovalSparesFrozen
CHECK_DEADLOCK FALSE
