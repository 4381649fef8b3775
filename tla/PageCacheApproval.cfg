CONSTANTS
    r1 = r1
    Readers = {r1}
    MaxVersion = 2
    Polls = 1
SPECIFICATION Spec
INVARIANTS
    ApprovalTakesEffect
CHECK_DEADLOCK FALSE
