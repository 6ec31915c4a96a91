CONSTANTS
    Key = {k1}
    Worker = {w1, w2}
    NoKey = NoKey
    NoObject = NoObject
    ResyncPeriod = 2
    HoursPerDay = 2
    MaxChanges = 2
    MaxFaults = 1
    MaxRestarts = 1
SPECIFICATION FairSpec
INVARIANTS TypeOK OneWorkerPerKey NoChangeOverlooked
PROPERTIES NoOlderSpec StatusIsOfItsSpec ImplementsDesiredState EventuallyInPlace
