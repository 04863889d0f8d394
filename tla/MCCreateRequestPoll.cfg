SPECIFICATION Spec
CONSTANTS
    Runs = {r1}
    Kinds = {"cr"}
    Other = other
    MaxUid = 1
INVARIANT
    KeepsPolling
CHECK_DEADLOCK FALSE
