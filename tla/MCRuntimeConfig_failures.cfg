\* Reconciliation when one map operation fails: the flag protocol holds
\* on every path and no binding outlives a shrink of its pool.
CONSTANTS
    k1 = k1
    k2 = k2
    c1 = c1
    c2 = c2
    Keys = {k1, k2}
    Ports = {1, 2}
    Cpus = {c1, c2}
    Absent = Absent
    Unspecified = Unspecified
    DestValues <- MCDestValues
    Configs <- MCConfigs
    InitConfig <- C0
    KeyOrder <- MCKeyOrder
    MaxFailures = 1
SPECIFICATION Spec
INVARIANT BindingsWithinPool
INVARIANT FlagClearedWhenIdle
PROPERTY QuiescedPurge
