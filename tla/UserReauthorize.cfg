CONSTANTS
    f1 = f1
    Flows = {f1}
    MaxTemp = 3
    MaxAccess = 2
    MaxLogins = 1
    FirstCookies = {"facebook"}
    MayExpire = TRUE
    MayLogIn = TRUE
SPECIFICATION FairSpec
PROPERTIES
    TokenErrorAnswered
CHECK_DEADLOCK FALSE
