CONSTANTS
    Key = {k1}
    Worker = {w1}
    NoKey = NoKey
    NoObject = NoObject
    ResyncPeriod = 1
    HoursPerDay = 1
    MaxChanges = 1
    MaxFaults = 1
    MaxRestarts = 1
SPECIFICATION Spec
INVARIANT RunWaits
