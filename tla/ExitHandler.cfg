SPECIFICATION FairSpec
CONSTANTS
    Signals = {2, 15}
    MaxSignals = 3
    AlwaysErrCode = TRUE
INVARIANTS
    InterruptedCode
    StatusMeans
PROPERTIES
    SecondSignalEnds
    ReturnEnds
CHECK_DEADLOCK FALSE
