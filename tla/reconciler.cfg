CONSTANTS
    Key = {k1}
    NoKey = NoKey
    NoObject = NoObject
    ResyncPeriods = {0, 1}
    MaxChanges = 2
    MaxFaults = 2
    MaxRestarts = 1
SPECIFICATION FairSpec
INVARIANTS TypeOK NothingForgotten
PROPERTIES ImplementsDesiredState LoopRunsDown EventuallyInPlace ComesToRest
CHECK_DEADLOCK FALSE
