--------------------------- MODULE InstanceConfig ---------------------------
(***************************************************************************)
(* InstanceConfig::try_from and InstanceConfig::is_static                  *)
(* (src/src/instance.rs): the part of an interface's configuration the    *)
(* orchestrator acts on before anything is loaded.  try_from rejects an   *)
(* unsupported encapsulation, appends the match-any Externals of          *)
(* default_externals after the configured ones, and validates every       *)
(* External with `?`; is_static decides whether the route monitor is      *)
(* needed.                                                                 *)
(*                                                                         *)
(* A raw External is its address kind, or "invalid" when External::try_from *)
(* rejects it (module External details which port lists it rejects).      *)
(* The runtime configurations built from the Externals are module         *)
(* ConfigBuilder's.  try_from also captures the ConstConfig, which         *)
(* ConstConfig::apply writes into the object's read-only data before load: *)
(* a ConstConfig is a function from its field names to a value or None,   *)
(* and the rodata slots are named after the field meant to fill them.      *)
(***************************************************************************)
EXTENDS Integers, Sequences, SequencesExt

CONSTANTS
    Ipv6Feature,   \* cfg!(feature = "ipv6")
    ConfigError,   \* model value: try_from returned Err
    None,          \* model value: an Option that is None
    RodataDefault  \* model value: a slot's value as compiled into the object

Encaps == {"ethernet", "bareIp", "unknown", "unsupported"}

\* ConfigExternal entries: a Static address, a matcher, ConfigExternal::
\* match_any_ipv4 / match_any_ipv6, or one External::try_from rejects.
RawExternals == {"static", "matcher", "matchAny4", "matchAny6", "invalid"}

\* The ConstConfig fields, in the order ConstConfig::apply writes them.
ConstFields ==
    <<"log_level", "has_eth_encap", "ingress_ipv4", "egress_ipv4",
      "ingress_ipv6", "egress_ipv6", "enable_fib_lookup_src",
      "allow_inbound_icmpx", "timeout_fragment", "timeout_pkt_min",
      "timeout_pkt_default", "timeout_tcp_trans", "timeout_tcp_est">>

\* The ConfigNetIf options try_from copies into the ConstConfig as they are.
OptionFields == ToSet(ConstFields) \ {"log_level", "has_eth_encap", "ingress_ipv4",
                                      "egress_ipv4", "ingress_ipv6", "egress_ipv6"}

\* The ConfigNetIf fields try_from reads.
IfConfigRecs(maxExternals, values) ==
    [encap : Encaps, nat44 : BOOLEAN, nat66 : BOOLEAN,
     defaultExternals : BOOLEAN,
     externals : BoundedSeq(RawExternals \ {"matchAny4", "matchAny6"}, maxExternals),
     bpfLogLevel : values \cup {None}, opts : [OptionFields -> values \cup {None}]]

\* nat66 is only honoured when the ipv6 feature is compiled in.
Nat66(c) == Ipv6Feature /\ c.nat66

\* Mutant: the match-any Externals only when no External is configured.
DefaultExternalsWhenNoneConfigured(c) ==
    IF c.defaultExternals /\ c.externals = <<>>
    THEN (IF c.nat44 THEN <<"matchAny4">> ELSE <<>>)
         \o (IF Nat66(c) THEN <<"matchAny6">> ELSE <<>>)
    ELSE <<>>

\* default_externals: match_any_ipv4 if nat44, then match_any_ipv6 if nat66.
DefaultExternals(c) ==
    IF c.defaultExternals
    THEN (IF c.nat44 THEN <<"matchAny4">> ELSE <<>>)
         \o (IF Nat66(c) THEN <<"matchAny6">> ELSE <<>>)
    ELSE <<>>

\* The ConstConfig try_from builds: the log level capped at 5 (0 when
\* unset), the encapsulation and per-family enable bits always Some (the
\* ipv6 ones only exist in an ipv6 build; nat64 is false), the rest copied.
ConstConfigOf(c) ==
    [f \in ToSet(ConstFields) |->
        CASE f = "log_level" ->
                IF c.bpfLogLevel = None THEN 0
                ELSE IF c.bpfLogLevel < 5 THEN c.bpfLogLevel ELSE 5
          [] f = "has_eth_encap" -> c.encap = "ethernet"
          [] f \in {"ingress_ipv4", "egress_ipv4"} -> c.nat44
          [] f \in {"ingress_ipv6", "egress_ipv6"} ->
                IF Ipv6Feature THEN Nat66(c) ELSE None
          [] OTHER -> c.opts[f]]

\* The slot ConstConfig::apply writes a field to: its own, except that
\* timeout_pkt_default is assigned to TIMEOUT_PKT_MIN.
WrittenSlot(f) == IF f = "timeout_pkt_default" THEN "timeout_pkt_min" ELSE f

\* The read-only data as compiled into the object.
Rodata0 == [f \in ToSet(ConstFields) |-> RodataDefault]

\* ConstConfig::apply: each Some field, in order, overwrites its slot.
ConstConfigApply(rodata, cc) ==
    LET write(r, f) == IF cc[f] = None THEN r ELSE [r EXCEPT ![WrittenSlot(f)] = cc[f]]
    IN  FoldLeft(write, rodata, ConstFields)

\* try_from: Err on an unsupported encapsulation (Unknown falls back to no
\* encapsulation with a warning), else Err if any External of the chain
\* fails to validate, else the InstanceConfig with the validated Externals
\* and the ConstConfig.
TryFrom(c) ==
    LET chain == c.externals \o DefaultExternals(c)
    IN  IF c.encap = "unsupported" \/ "invalid" \in ToSet(chain)
        THEN ConfigError
        ELSE [externals |-> chain, constConfig |-> ConstConfigOf(c)]

\* is_static: every External has a Static address.
IsStatic(ic) == \A k \in ToSet(ic.externals) : k = "static"

=============================================================================
