\* One failed map operation: a Delete whose purge fails leaves bindings to
\* an address that no longer has an external_config entry.
CONSTANTS
    k1 = k1
    k2 = k2
    c1 = c1
    c2 = c2
    Keys = {k1, k2}
    Ports = {1, 2}
    Cpus = {c1, c2}
    Absent = Absent
    Unspecified = Unspecified
    DestValues <- MCDestValues
    Configs <- MCConfigs
    InitConfig <- C0
    KeyOrder <- MCKeyOrder
    MaxFailures = 1
SPECIFICATION Spec
INVARIANT NoDanglingBinding
