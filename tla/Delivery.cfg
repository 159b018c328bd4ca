CONSTANTS
    r1 = r1
    r2 = r2
    Run = {r1, r2}
    Orphan = orphan
    MaxTransitions = 4
    MaxCommits = 2
    Environments <- MCEnvironments
    None = None
    Torn = Torn
SPECIFICATION DFairSpec
INVARIANTS
    PublishedIsTested
    ResumeIsAccepted
    DeliveredIsPublished
    HelperActsOnce
PROPERTIES
    DeliveryEnds
