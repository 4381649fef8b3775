SPECIFICATION FairSpec
CONSTANTS
    Elements = {e1}
    Sized = {e1}
    Sources = {s1, s2}
    Other = Other
    MaxScans = 3
    MaxRecords = 2
    MaxLists = 3
INVARIANTS TypeOK OneIndicator
PROPERTIES ScrollHeard
CHECK_DEADLOCK FALSE
