---------------------------- MODULE ConfigBuilder ----------------------------
(***************************************************************************)
(* RuntimeConfig::init and RuntimeV4Config::from (src/src/instance.rs):   *)
(* the no-snat destinations, the validated Externals and the interface's  *)
(* addresses become the dest_config and external_config maps and the      *)
(* primary external address.  Reconfigure rebuilds them from the same     *)
(* Externals each time the addresses change, so the model's one action is *)
(* an address change followed by a rebuild.                               *)
(*                                                                         *)
(* Prefixes are model values; a matcher is the set of host prefixes it    *)
(* contains; an External's five port lists are abstracted to the set of   *)
(* ports they denote (module External shows that set is what the         *)
(* configuration says).  Maps are total functions with Absent.            *)
(***************************************************************************)
EXTENDS Integers, Sequences, SequencesExt

CONSTANTS
    AddrKeys,      \* host-width prefixes an interface may carry
    DestKeys,      \* other prefixes, only used as no-snat destinations
    Ports,         \* external ports
    NoSnatDests,   \* v4_no_snat_dests, a subset of AddrKeys \cup DestKeys
    ExternalLists, \* candidate `externals` lists of the interface
    KeyOrder,      \* AddrKeys in the prefix trie's iteration order
    Absent,        \* model value: no entry
    Unspecified,   \* model value: 0.0.0.0/32
    OtherFamily    \* model value: a static address of the other family

Keys == AddrKeys \cup DestKeys

\* External, with its address as Static or Matcher.
ExternalRecs ==
    [kind : {"static"}, ip : AddrKeys \cup {Unspecified, OtherFamily},
     noSnat : BOOLEAN, noHairpin : BOOLEAN, ports : SUBSET Ports]
    \cup
    [kind : {"matcher"}, covers : SUBSET AddrKeys,
     noSnat : BOOLEAN, noHairpin : BOOLEAN, ports : SUBSET Ports]

\* BpfDestConfig and BpfExternalConfig, and their Default values.
DestValues == [noSnat : BOOLEAN, hairpin : BOOLEAN]
ExtValues == [noSnat : BOOLEAN, ports : SUBSET Ports]
DefaultDest == [noSnat |-> FALSE, hairpin |-> FALSE]
DefaultExt == [noSnat |-> FALSE, ports |-> {}]

\* entry(k).or_default()
OrDefault(m, k, default) == IF m[k] = Absent THEN default ELSE m[k]

(***************************************************************************)
(* The matches of one External: a Static of this family that is not      *)
(* unspecified, or every remaining address inside the matcher, in the     *)
(* prefix set's order.                                                     *)
(***************************************************************************)
Matches(e, remaining) ==
    IF e.kind = "static"
    THEN IF e.ip \in AddrKeys THEN <<e.ip>> ELSE <<>>
    ELSE SelectSeq(KeyOrder, LAMBDA k : k \in remaining /\ k \in e.covers)

\* Mutant: the `continue` for no_snat moved before the dest_config update.
ApplyMatchNoSnatSkipsDest(acc, e, p) ==
    LET x == OrDefault(acc.ext, p, DefaultExt)
    IN  IF e.noSnat
        THEN [acc EXCEPT !.ext = [@ EXCEPT ![p] = [x EXCEPT !.noSnat = TRUE]]]
        ELSE [acc EXCEPT
                !.dest = [@ EXCEPT ![p] = [OrDefault(acc.dest, p, DefaultDest)
                                              EXCEPT !.hairpin = ~e.noHairpin]],
                !.ext  = [@ EXCEPT ![p] = [noSnat |-> FALSE, ports |-> e.ports]]]

\* The body of `for network in matches`: HAIRPIN in dest_config, NO_SNAT in
\* external_config, and the port arrays unless the External is no_snat.
ApplyMatch(acc, e, p) ==
    LET d == OrDefault(acc.dest, p, DefaultDest)
        x == OrDefault(acc.ext, p, DefaultExt)
    IN  [acc EXCEPT
           !.dest = [@ EXCEPT ![p] = [d EXCEPT !.hairpin = ~e.noHairpin]],
           !.ext  = [@ EXCEPT ![p] = IF e.noSnat THEN [x EXCEPT !.noSnat = TRUE]
                                     ELSE [noSnat |-> FALSE, ports |-> e.ports]]]

\* Mutant: matches not removed from addresses_set.
ApplyExternalNoRemove(acc, e) ==
    LET ms == Matches(e, acc.remaining)
        applyOne(a, p) == ApplyMatch(a, e, p)
        acc2 == [acc EXCEPT
                   !.extAddr = IF @ = Absent /\ ~e.noSnat /\ ms # <<>> THEN ms[1] ELSE @]
    IN  FoldLeft(applyOne, acc2, ms)

\* One iteration of `for external in externals`.
ApplyExternal(acc, e) ==
    LET ms == Matches(e, acc.remaining)
        applyOne(a, p) == ApplyMatch(a, e, p)
        acc2 == [acc EXCEPT
                   !.remaining = @ \ ToSet(ms),
                   !.extAddr = IF @ = Absent /\ ~e.noSnat /\ ms # <<>> THEN ms[1] ELSE @]
    IN  FoldLeft(applyOne, acc2, ms)

\* RuntimeV4Config::from(no_snat_dests, externals, addresses).
Build(noSnatDests, externals, addresses) ==
    LET seeded == [dest |-> [k \in Keys |-> IF k \in noSnatDests
                                            THEN [DefaultDest EXCEPT !.noSnat = TRUE]
                                            ELSE Absent],
                   ext |-> [k \in Keys |-> Absent],
                   extAddr |-> Absent,
                   remaining |-> addresses]
        out == FoldLeft(ApplyExternal, seeded, externals)
    IN  [dest |-> out.dest, ext |-> out.ext,
         extAddr |-> IF out.extAddr = Absent THEN Unspecified ELSE out.extAddr]

\* Mutant: the HAIRPIN prefixes without moving the external address first.
HairpinDestsUnsorted(c) ==
    SelectSeq(KeyOrder, LAMBDA k : c.dest[k] # Absent /\ c.dest[k].hairpin)

\* RuntimeConfig::hairpin_dests: the dest_config keys with HAIRPIN, in trie
\* order, stably sorted so that the external address comes first.
HairpinDests(c) ==
    LET hs == SelectSeq(KeyOrder, LAMBDA k : c.dest[k] # Absent /\ c.dest[k].hairpin)
    IN  SelectSeq(hs, LAMBDA k : k = c.extAddr) \o SelectSeq(hs, LAMBDA k : k # c.extAddr)

-----------------------------------------------------------------------------
VARIABLES
    externals,  \* InstanceConfig.externals, fixed once validated
    addrs,      \* the interface's IPv4 addresses
    rc          \* the runtime configuration built from them

vars == <<externals, addrs, rc>>

Init ==
    /\ externals \in ExternalLists
    /\ addrs \in SUBSET AddrKeys
    /\ rc = Build(NoSnatDests, externals, addrs)

\* An address-change event with a different address set: reconfigure
\* rebuilds the configuration from the stored Externals.
AddressChange ==
    \E a \in SUBSET AddrKeys :
        /\ a # addrs
        /\ addrs' = a
        /\ rc' = Build(NoSnatDests, externals, a)
        /\ UNCHANGED externals

Next == AddressChange

Spec == Init /\ [][Next]_vars

-----------------------------------------------------------------------------
(***************************************************************************)
(* Properties, against a declarative reading of spec section 4.3.          *)
(***************************************************************************)
Present(m) == {k \in DOMAIN m : m[k] # Absent}

\* The addresses External i claims: its static address, or the assigned
\* addresses in its matcher that no earlier External claimed.
RECURSIVE Claimed(_, _)
Claimed(i, a) ==
    LET e == externals[i]
        earlier == UNION {Claimed(j, a) : j \in 1..i-1}
    IN  IF e.kind = "static" THEN {e.ip} \cap AddrKeys
        ELSE (e.covers \cap a) \ earlier

\* The first External that is not no_snat and claims something.
PrimaryOwner(a) ==
    {i \in DOMAIN externals : ~externals[i].noSnat /\ Claimed(i, a) # {}}

(* The primary external address is the first address, in prefix order, of *)
(* the first External that is not no_snat and claims any address, and     *)
(* 0.0.0.0 when there is none (spec R4, step 5 and 7).                     *)
PrimaryIsFirstSnatClaim ==
    IF PrimaryOwner(addrs) = {} THEN rc.extAddr = Unspecified
    ELSE LET i == Min(PrimaryOwner(addrs))
             ordered == SelectSeq(KeyOrder, LAMBDA k : k \in Claimed(i, addrs))
         IN  rc.extAddr = ordered[1]

(* The dest_config keys are the no-snat destinations and the keys of      *)
(* external_config, and every address some External claims has an        *)
(* external_config entry (spec P6, R3).                                    *)
DestCoversExternals ==
    /\ Present(rc.dest) = NoSnatDests \cup Present(rc.ext)
    /\ Present(rc.ext) = UNION {Claimed(i, addrs) : i \in DOMAIN externals}

(* A no_snat External's entry has zero-length port arrays (spec 4.3 step  *)
(* 6, scenario S4).                                                        *)
NoSnatEntriesHaveNoPorts ==
    \A k \in Present(rc.ext) : rc.ext[k].noSnat => rc.ext[k].ports = {}

=============================================================================
