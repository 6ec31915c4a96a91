CONSTANTS
    a1 = a1  a2 = a2  a3 = a3  i1 = i1  i2 = i2
    Action = {a1, a2, a3}
    NoAction = NoAction
    Id = {i1}
    KnownId = i1
    NoId = NoId
    ErrorCodes = {300, 499, 500, 999}
    Config <- ListConfigs
    NoOrder = NoOrder
    FailFast = {FALSE, TRUE}
    MaxFaults = 1
    MaxDrift = 0
SPECIFICATION Spec
INVARIANT NilMeansAllPerformed
