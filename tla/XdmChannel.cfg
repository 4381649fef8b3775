CONSTANTS
    MaxRequests = 3
    MaxReloads = 1
SPECIFICATION FairSpec
INVARIANTS
    TypeOK
    NothingSentEarly
    HandlersAwaitAnswers
PROPERTIES
    ImplementsPromise
    CookieRequestsAnswered
CHECK_DEADLOCK FALSE
