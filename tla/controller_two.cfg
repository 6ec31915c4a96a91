CONSTANTS
    Key = {k1, k2}
    Worker = {w1, w2}
    NoKey = NoKey
    NoObject = NoObject
    ResyncPeriod = 1
    HoursPerDay = 1
    MaxChanges = 1
    MaxFaults = 0
    MaxRestarts = 0
SPECIFICATION FairSpec
PROPERTY EveryKeyServed
