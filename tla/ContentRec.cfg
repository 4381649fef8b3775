SPECIFICATION RecFairSpec
CONSTANTS
    p1 = p1
    p2 = p2
    p3 = p3
    p4 = p4
    Widgets = {p1, p2}
    Contents <- MCContents
    Count = 2
    MaxAnswer = 3
    Prefetch = Prefetch
INVARIANTS RecTypeOK LinksElsewhere
PROPERTIES WidgetsServed
CHECK_DEADLOCK FALSE
