SPECIFICATION CheckFairSpec
CONSTANTS
    Signals = {2, 15}
    MaxSignals = 2
    AlwaysErrCode = TRUE
    Waits = {0, 3}
    Interval = 2
    CheckTime = 2
INVARIANTS
    
    InterruptReported
    TimeoutReported
    WaitBounded
    ZeroMeansReady
PROPERTIES
    ImplementsExitHandler
    CheckEnds
CHECK_DEADLOCK FALSE
