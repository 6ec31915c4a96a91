CONSTANTS
    a1 = a1  a2 = a2  a3 = a3  i1 = i1  i2 = i2
    Action = {a1}
    NoAction = NoAction
    Id = {i1, i2}
    KnownId = i1
    NoId = NoId
    ErrorCodes = {300, 499, 500, 999}
    Config <- AllConfigs
    NoOrder = NoOrder
    FailFast = {FALSE}
    MaxFaults = 3
    MaxDrift = 2
SPECIFICATION FairSpec
INVARIANTS TypeOK NoDuplicates SuccessMeansSeeded FallbackOnlyOnClientError CleanRunSucceeds
PROPERTIES ExistingKept NothingUndone RunsConverge
