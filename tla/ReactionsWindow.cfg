SPECIFICATION FairSpec
CONSTANTS
    MaxPages = 6
    MaxCalls = 2
    MaxPosts = 3
    MaxWindows = 2
CONSTRAINT Settling
INVARIANTS
    TypeOK
    PageShown
    AcceptedIsShown
PROPERTIES
    ProgressEnds
CHECK_DEADLOCK FALSE
