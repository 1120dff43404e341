\* External::try_from in a release build, where `curr.end + 1` wraps at
\* the top port: an accepted list is not always canonical.
CONSTANTS
    MaxPort = 4
    MaxPortRanges = 2
    Panic = Panic
    ErrZero = ErrZero
    ErrTooMany = ErrTooMany
    None = None
    Pending = Pending
    ErrIcmpIn = ErrIcmpIn
    ErrIcmpOut = ErrIcmpOut
    RawTcp <- MCRawTcp
    RawIcmp <- MCRawIcmp
    RawIcmpInOut <- MCRawIcmpInOut
    Defaults <- MCDefaults
    BuildSet <- MCBuildsRelease
SPECIFICATION Spec
INVARIANT AcceptedRangesCanonical
\* The configuration is validated once; after TryFrom nothing is left to do.
CHECK_DEADLOCK FALSE
