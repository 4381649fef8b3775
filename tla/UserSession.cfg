CONSTANTS
    f1 = f1
    f2 = f2
    Flows = {f1, f2}
    MaxTemp = 5
    MaxAccess = 2
    MaxLogins = 1
    FirstCookies = {"nobody", "temporary", "facebook", "antenna"}
    MayExpire = TRUE
    MayLogIn = TRUE
SPECIFICATION FairSpec
INVARIANTS
    TypeOK
    VisitorsPostAsOne
    CacheMatchesCookies
    LoginTakesEffect
PROPERTIES
    FlowSettles
CHECK_DEADLOCK FALSE
