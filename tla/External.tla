------------------------------ MODULE External ------------------------------
(***************************************************************************)
(* External::try_from (src/src/instance.rs): one raw `externals` entry of  *)
(* the configuration, with the interface defaults, becomes a validated     *)
(* External or an error.  The address and the no_snat / no_hairpin flags   *)
(* are copied verbatim and are left out; what is modelled is the five      *)
(* port-range lists, their defaults, the forced-empty ICMP in/out lists    *)
(* and the containment checks.                                             *)
(*                                                                         *)
(* The configuration is parsed once at start-up, so the model has one      *)
(* step: TryFrom takes the raw entry to its result.                        *)
(***************************************************************************)
EXTENDS PortRanges, FiniteSets

CONSTANTS
    RawTcp,        \* candidate raw TCP lists (also used for UDP)
    RawIcmp,       \* candidate raw ICMP lists
    RawIcmpInOut,  \* candidate raw ICMP inbound / outbound lists
    Defaults,      \* ConfigDefaults: [Fields -> list of ranges]
    BuildSet,      \* the builds the binary may come from, a subset of Builds
    None,          \* model value: the field is absent from the entry
    Pending,       \* model value: try_from has not run yet
    ErrIcmpIn,     \* model value: "ICMP ranges ... not fully include ICMP inbound ranges"
    ErrIcmpOut     \* model value: "... not fully include ICMP outbound ranges"

Fields == {"tcp", "udp", "icmp", "icmp_in", "icmp_out"}

Errors == {Panic, ErrZero, ErrTooMany, ErrIcmpIn, ErrIcmpOut}

VARIABLES
    raw,     \* the ConfigExternal entry: [Fields -> list or None]
    build,   \* debug or release: what `curr.end + 1` does at 65535
    result   \* Pending, an error, or the External's five lists

vars == <<raw, build, result>>

RawExternals ==
    [tcp : RawTcp \cup {None}, udp : RawTcp \cup {None}, icmp : RawIcmp \cup {None},
     icmp_in : RawIcmpInOut \cup {None}, icmp_out : RawIcmpInOut \cup {None}]

\* external.X_ranges.as_ref().unwrap_or(&defaults.X_ranges)
Configured(r) == [f \in Fields |-> IF r[f] = None THEN Defaults[f] ELSE r[f]]

IsError(x) == x \in Errors

(***************************************************************************)
(* External::try_from.  Each list is normalised in the code's order and    *)
(* the first error is returned.  ICMP in/out are forced empty when ICMP    *)
(* is empty, then ICMP must contain both.                                  *)
(***************************************************************************)
ExternalTryFrom(r, b) ==
    LET c       == Configured(r)
        tcp     == ExternalRangesTryFrom(c.tcp, FALSE, b)
        udp     == ExternalRangesTryFrom(c.udp, FALSE, b)
        icmp    == ExternalRangesTryFrom(c.icmp, TRUE, b)
        icmpIn  == IF icmp = <<>> THEN <<>> ELSE ExternalRangesTryFrom(c.icmp_in, TRUE, b)
        icmpOut == IF icmp = <<>> THEN <<>> ELSE ExternalRangesTryFrom(c.icmp_out, TRUE, b)
        steps   == <<tcp, udp, icmp, icmpIn, icmpOut>>
        failed  == {i \in 1..5 : IsError(steps[i])}
        inOk    == contains(icmp, icmpIn, b)
        outOk   == contains(icmp, icmpOut, b)
    IN  IF failed # {} THEN steps[Min(failed)]
        ELSE IF inOk = Panic \/ outOk = Panic THEN Panic
        ELSE IF ~inOk THEN ErrIcmpIn
        ELSE IF ~outOk THEN ErrIcmpOut
        ELSE [tcp |-> tcp, udp |-> udp, icmp |-> icmp, icmp_in |-> icmpIn, icmp_out |-> icmpOut]

Init ==
    /\ raw \in RawExternals
    /\ build \in BuildSet
    /\ result = Pending

TryFrom ==
    /\ result = Pending
    /\ result' = ExternalTryFrom(raw, build)
    /\ UNCHANGED <<raw, build>>

Next == TryFrom

Spec == Init /\ [][Next]_vars

-----------------------------------------------------------------------------
(***************************************************************************)
(* Properties.                                                             *)
(***************************************************************************)
Accepted == result \notin Errors \cup {Pending}

\* A list in the form the data plane expects: non-empty ranges, sorted by
\* start, each separated from the next by at least one port (spec P1).
IsCanonical(xs) ==
    /\ \A i \in DOMAIN xs : ~IsEmptyRange(xs[i])
    /\ \A i \in 1..Len(xs) - 1 : xs[i].hi + 1 < xs[i+1].lo

\* The fewest ranges that denote a set of ports: one per maximal run.
RangesNeeded(S) == Cardinality({p \in S : p - 1 \notin S})

(* Every list of an accepted External is canonical: sort_and_merge_ranges  *)
(* yields sorted, disjoint, non-adjacent ranges for every input (P1).      *)
AcceptedRangesCanonical ==
    Accepted => \A f \in Fields : IsCanonical(result[f])

(* In a debug build, where `curr.end + 1` panics instead of wrapping,     *)
(* every accepted External's lists are canonical.                         *)
CanonicalInDebugBuild == build = "debug" => AcceptedRangesCanonical

(* In a debug build, try_from reports "exceed limit of max ranges" (the   *)
(* len > MAX_PORT_RANGES check after sort_and_merge_ranges) only for a     *)
(* port set that really needs more than MAX_PORT_RANGES ranges.  In a     *)
(* release build the wrap of `curr.end + 1` leaves a range unmerged and   *)
(* the check can reject a list that fits.                                  *)
TooManyOnlyWhenNeeded ==
    build = "debug" /\ result = ErrTooMany =>
        \E f \in Fields : RangesNeeded(PortsOf(Configured(raw)[f])) > MaxPortRanges

(* Normalisation keeps exactly the configured ports: an accepted External  *)
(* denotes the ports of its entry (or of the defaults), and ICMP in/out    *)
(* are empty exactly when ICMP is.                                         *)
AcceptedPortsPreserved ==
    Accepted =>
        LET c == Configured(raw)
            icmpEmpty == PortsOf(c.icmp) = {}
        IN  /\ \A f \in {"tcp", "udp", "icmp"} : PortsOf(result[f]) = PortsOf(c[f])
            /\ \A f \in {"icmp_in", "icmp_out"} :
                   PortsOf(result[f]) = IF icmpEmpty THEN {} ELSE PortsOf(c[f])

(* The ICMP containment check of try_from decides exactly set inclusion of *)
(* the ports (spec P2, P4): accepted Externals have ICMP in/out within     *)
(* ICMP, and a containment error is reported only when that fails.         *)
IcmpContainmentExact ==
    LET c == Configured(raw)
        inSet  == IF PortsOf(c.icmp) = {} THEN {} ELSE PortsOf(c.icmp_in)
        outSet == IF PortsOf(c.icmp) = {} THEN {} ELSE PortsOf(c.icmp_out)
    IN  /\ Accepted => inSet \subseteq PortsOf(c.icmp) /\ outSet \subseteq PortsOf(c.icmp)
        /\ result = ErrIcmpIn => ~(inSet \subseteq PortsOf(c.icmp))
        /\ result = ErrIcmpOut => ~(outSet \subseteq PortsOf(c.icmp))

=============================================================================
