CONSTANTS
    Session = {s1, s2}
    Task = {t1, t2}
    Plan = {p3, p4}
    Assignments <- MCAssignments
    None = None
    Torn = Torn
    p1 = p1
    p3 = p3
    p4 = p4
    p5 = p5
    t1 = t1
    t2 = t2
SPECIFICATION FairSpec
PROPERTIES
    ReturnsToHuman
