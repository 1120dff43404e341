--------------------------- MODULE MCConfigBuilder ---------------------------
(***************************************************************************)
(* Two interface addresses a1, a2 (a1 first in the prefix trie), one      *)
(* further no-snat destination prefix d, two ports.  The candidate         *)
(* Externals cover every way an External can claim an address: a static   *)
(* address, a static of the other family or 0.0.0.0, a matcher over one   *)
(* or both addresses, with and without no_snat; the candidate lists are   *)
(* all lists of up to three of them.                                       *)
(***************************************************************************)
EXTENDS ConfigBuilder, TLC

CONSTANTS a1, a2, d

MCKeyOrder == <<a1, a2>>

Snat(kind, where, ports) ==
    IF kind = "static"
    THEN [kind |-> "static", ip |-> where, noSnat |-> FALSE, noHairpin |-> FALSE, ports |-> ports]
    ELSE [kind |-> "matcher", covers |-> where, noSnat |-> FALSE, noHairpin |-> FALSE, ports |-> ports]

NoSnat(e) == [e EXCEPT !.noSnat = TRUE, !.noHairpin = TRUE]

MCCandidates ==
    { Snat("static", a2, {1}),
      NoSnat(Snat("static", a1, {})),
      Snat("static", OtherFamily, {1}),
      Snat("matcher", {a1, a2}, {1, 2}),
      NoSnat(Snat("matcher", {a1}, {})) }

MCExternalLists == UNION {[1..n -> MCCandidates] : n \in 0..3}

MCNoSnatDests == {d}

=============================================================================
