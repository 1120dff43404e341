--------------------------- MODULE MCOrchestrator ---------------------------
(***************************************************************************)
(* One interface with addresses a1, a2 (a1 first in the prefix trie), two *)
(* ports, one CPU.  Four External lists: a matcher over both addresses;   *)
(* the same matcher followed by a no_snat static a1, whose entry for a1    *)
(* then changes value with the address set (an external_config Update);  *)
(* a static address only, for which the monitor is not started; and that *)
(* static a2 before the matcher, so that a2 is the external address while *)
(* a1, first in the trie, also has HAIRPIN.                               *)
(***************************************************************************)
EXTENDS Orchestrator, TLC

CONSTANTS a1, a2, c1

MCKeyOrder == <<a1, a2>>

Matcher == [kind |-> "matcher", covers |-> {a1, a2}, noSnat |-> FALSE, noHairpin |-> FALSE,
            ports |-> {1, 2}]
NoSnatA1 == [kind |-> "static", ip |-> a1, noSnat |-> TRUE, noHairpin |-> TRUE, ports |-> {}]
StaticA2 == [kind |-> "static", ip |-> a2, noSnat |-> FALSE, noHairpin |-> FALSE, ports |-> {2}]

MCExternalLists == {<<Matcher>>, <<Matcher, NoSnatA1>>, <<StaticA2>>, <<StaticA2, Matcher>>}

=============================================================================
