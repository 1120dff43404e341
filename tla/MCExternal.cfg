\* External::try_from in both builds: normalisation keeps the configured
\* ports, the ICMP containment check decides set inclusion, "too many
\* ranges" is reported only when the ports need them, and a debug build
\* accepts only canonical lists.  Ports are 0..4, so that three ICMP
\* ranges can exceed MAX_PORT_RANGES = 2.
CONSTANTS
    MaxPort = 4
    MaxPortRanges = 2
    Panic = Panic
    ErrZero = ErrZero
    ErrTooMany = ErrTooMany
    None = None
    Pending = Pending
    ErrIcmpIn = ErrIcmpIn
    ErrIcmpOut = ErrIcmpOut
    RawTcp <- MCRawTcp
    RawIcmp <- MCRawIcmp
    RawIcmpInOut <- MCRawIcmpInOut
    Defaults <- MCDefaults
    BuildSet <- MCBuildsAll
SPECIFICATION Spec
INVARIANT AcceptedPortsPreserved
INVARIANT IcmpContainmentExact
INVARIANT CanonicalInDebugBuild
INVARIANT TooManyOnlyWhenNeeded
\* The configuration is validated once; after TryFrom nothing is left to do.
CHECK_DEADLOCK FALSE
