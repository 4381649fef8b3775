CONSTANTS
    r1 = r1
    r2 = r2
    Readers = {r1, r2}
    MaxVersion = 3
    Polls = 0
SPECIFICATION FairSpec
CONSTRAINT Bounded
INVARIANTS
    TypeOK
    QuietCachesFresh
PROPERTIES
    CachesAdvance
    RequestsAnswered
CHECK_DEADLOCK FALSE
