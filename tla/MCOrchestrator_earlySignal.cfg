\* A termination signal before the handlers are installed leaves the hooks attached.
CONSTANTS
    a1 = a1
    a2 = a2
    c1 = c1
    Absent = Absent
    Unspecified = Unspecified
    OtherFamily = OtherFamily
    AddrKeys = {a1, a2}
    Ports = {1, 2}
    Cpus = {c1}
    InitAddrs = {a1}
    MaxAddrChanges = 2
    MaxFailures = 0
    ExternalLists <- MCExternalLists
    KeyOrder <- MCKeyOrder
SPECIFICATION Spec
INVARIANT NoHookOutlivesDaemon
\* The daemon stops for good once it has exited, and waits forever once
\* the bounded environment has made its last address change.
CHECK_DEADLOCK FALSE
