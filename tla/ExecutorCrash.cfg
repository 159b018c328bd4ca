CONSTANTS
    Session = {s1, s2}
    Task = {t1, t2}
    Plan = {p1, p5}
    Assignments <- MCAssignments
    None = None
    Torn = Torn
    p1 = p1
    p3 = p3
    p4 = p4
    p5 = p5
    t1 = t1
    t2 = t2
SPECIFICATION Spec
SYMMETRY Perms
INVARIANTS
    TypeOK
    InvokedAtMostOnce
    RunsAreAuthorised
    OwnStatesAreSound
    RecoveryReasons
    SuccessIsDurable
PROPERTIES
    ProgressIsMonotone
    ImplementsContract
