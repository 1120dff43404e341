\* Reconciliation without map failures, two data-plane CPUs: no dangling
\* binding, and reconfigure implements an atomic replacement of the config.
CONSTANTS
    k1 = k1
    k2 = k2
    c1 = c1
    c2 = c2
    Keys = {k1, k2}
    Ports = {1, 2}
    Cpus = {c1, c2}
    Absent = Absent
    Unspecified = Unspecified
    DestValues <- MCDestValues
    Configs <- MCConfigs
    InitConfig <- C0
    KeyOrder <- MCKeyOrder
    MaxFailures = 0
SPECIFICATION Spec
INVARIANT NoDanglingBinding
PROPERTY ImplementsAtomicReconcile
