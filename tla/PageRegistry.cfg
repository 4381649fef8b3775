CONSTANTS
    NUrls = 3
    HashOf <- SharedHash
    NPages = 4
    FirstUrl <- LastRepeats
    FirstPages = {1}
    NTexts = 3
    Extensions <- NoExtension
    Hosts = {"pages", "app"}
    MaxObjects = 4
    MaxLoads = 2
SPECIFICATION Spec
INVARIANTS
    TypeOK
    BindingKept
    ElementsFound
    TextHashesDiffer
    WidgetsGetData
CHECK_DEADLOCK FALSE
