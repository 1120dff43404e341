-------------------------- MODULE MCRuntimeConfig --------------------------
(***************************************************************************)
(* Two host prefixes, two ports, and five configurations between which    *)
(* reconfigure moves: every kind of diff change appears, on both keys,    *)
(* and the primary address moves, appears and disappears.                  *)
(***************************************************************************)
EXTENDS RuntimeConfig, TLC

CONSTANTS k1, k2, c1, c2

\* BpfDestConfig flags.
HAIRPIN == [noSnat |-> FALSE, hairpin |-> TRUE]
NOSNAT  == [noSnat |-> TRUE, hairpin |-> FALSE]

\* External values: a two-port pool, the same address with its pool shrunk,
\* and a no_snat external (no ports).
Pool12 == [noSnat |-> FALSE, ports |-> {1, 2}]
Pool2  == [noSnat |-> FALSE, ports |-> {2}]
NoSnat == [noSnat |-> TRUE, ports |-> {}]

Cfg(d1, d2, e1, e2, a) ==
    [dest |-> (k1 :> d1) @@ (k2 :> d2), ext |-> (k1 :> e1) @@ (k2 :> e2), extAddr |-> a]

C0 == Cfg(HAIRPIN, Absent, Pool12, Absent, k1)   \* k1 assigned
C1 == Cfg(HAIRPIN, Absent, Pool2, Absent, k1)    \* k1's pool shrunk
C2 == Cfg(Absent, HAIRPIN, Absent, Pool12, k2)   \* k1 withdrawn, k2 assigned
C3 == Cfg(HAIRPIN, NOSNAT, Pool12, NoSnat, k1)   \* k2 added as a no_snat external
C4 == Cfg(Absent, Absent, Absent, Absent, Unspecified)  \* no address: NAT44 off

MCConfigs == {C0, C1, C2, C3, C4}
MCKeyOrder == <<k1, k2>>
MCDestValues == [noSnat : BOOLEAN, hairpin : BOOLEAN]

=============================================================================
