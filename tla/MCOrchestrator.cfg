\* The daemon with one failure of attach, query, a map operation or a
\* hairpin update: ctx.addresses and hairpin routing match the kernel, the
\* kernel converges to the current addresses.
CONSTANTS
    a1 = a1
    a2 = a2
    c1 = c1
    Absent = Absent
    Unspecified = Unspecified
    OtherFamily = OtherFamily
    AddrKeys = {a1, a2}
    Ports = {1, 2}
    Cpus = {c1}
    InitAddrs = {a1}
    MaxAddrChanges = 2
    MaxFailures = 1
    ExternalLists <- MCExternalLists
    KeyOrder <- MCKeyOrder
SPECIFICATION Spec
 
INVARIANT HairpinRoutesFollowKernel
PROPERTY Converges
\* The daemon stops for good once it has exited, and waits forever once
\* the bounded environment has made its last address change.
CHECK_DEADLOCK FALSE
