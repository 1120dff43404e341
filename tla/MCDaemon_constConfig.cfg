\* ConstConfig::apply writes timeout_pkt_default into TIMEOUT_PKT_MIN: an
\* interface configured with timeout_pkt_default is loaded without it in
\* its TIMEOUT_PKT_DEFAULT slot (spec section 9, note 1).
CONSTANTS
    e1 = e1
    e2 = e2
    x = x
    y = y
    OtherIf = OtherIf
    Ifs = {e1, e2}
    AddrSets = {x, y}
    InitAddrs = x
    MaxAddrChanges = 2
    MaxFailures = 1
    IfOrder <- MCIfOrder
    IfConfigs <- MCIfConfigs
    Ipv6Feature = FALSE
    ConfigError = ConfigError
    None = None
    RodataDefault = RodataDefault
SPECIFICATION Spec
INVARIANT ConstConfigInRodata
\* The daemon stops for good once it has exited, and waits forever once
\* the bounded environment has made its last address change.
CHECK_DEADLOCK FALSE
