\* Two interfaces, each with one of six configurations, two address
\* changes, one failure of a query, a load, an attach, a hairpin set-up, a
\* reconfigure or a detach: the interfaces with a matcher converge, and
\* daemon_guard leaves behind only what failed.
CONSTANTS
    e1 = e1
    e2 = e2
    x = x
    y = y
    OtherIf = OtherIf
    Ifs = {e1, e2}
    AddrSets = {x, y}
    InitAddrs = x
    MaxAddrChanges = 2
    MaxFailures = 1
    IfOrder <- MCIfOrder
    IfConfigs <- MCIfConfigs
    Ipv6Feature = FALSE
    ConfigError = ConfigError
    None = None
    RodataDefault = RodataDefault
SPECIFICATION Spec
INVARIANT CleanupLeavesOnlyFailures
PROPERTY Converges
\* The daemon stops for good once it has exited, and waits forever once
\* the bounded environment has made its last address change.
CHECK_DEADLOCK FALSE
