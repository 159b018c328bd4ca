SPECIFICATION Spec
CONSTANTS
    Session = {s1, s2}
    Explanation = {e1, e2}
    Stamps = {t1, t2}
    MaxReviews = 3
    Environments <- MCEnvironments
SYMMETRY Symmetry
INVARIANTS
    ClosedIsEarned
    ReportIsBacked
    ClosesWhatWasApproved
    NeverStranded
CHECK_DEADLOCK FALSE
