\* Runtime-config builder: primary address and map keys after every address change.
CONSTANTS
    a1 = a1
    a2 = a2
    d = d
    Absent = Absent
    Unspecified = Unspecified
    OtherFamily = OtherFamily
    AddrKeys = {a1, a2}
    DestKeys = {d}
    Ports = {1, 2}
    NoSnatDests <- MCNoSnatDests
    ExternalLists <- MCExternalLists
    KeyOrder <- MCKeyOrder
SPECIFICATION Spec
INVARIANTS
    PrimaryIsFirstSnatClaim
    DestCoversExternals
