----------------------------- MODULE MCExternal -----------------------------
(***************************************************************************)
(* External::try_from over every small raw entry.  Ports are 0..4, so 4   *)
(* plays the part of 65535 and `4 + 1` wraps or panics.                    *)
(***************************************************************************)
EXTENDS External

R(l, h) == [lo |-> l, hi |-> h]

\* Every non-empty range of 0..4, and one empty range (lo > hi).
MCRanges == {r \in PortRange : r.lo <= r.hi} \cup {R(2, 1)}

\* TCP/UDP (the defaults are the valid case): one list starting at zero,
\* an unsorted overlapping pair that merges, and two ranges plus an empty
\* one, which fits MAX_PORT_RANGES = 2 only once the empty one is dropped.
MCRawTcp == {<<R(0, 1)>>, <<R(4, 4), R(1, 4)>>, <<R(1, 1), R(4, 4), R(2, 1)>>}

\* ICMP: every list of at most two ranges, and two lists of three: one
\* whose ports need three ranges, one whose ranges merge into two.
MCRawIcmp == {<<>>} \cup {<<r>> : r \in MCRanges} \cup {<<r, s>> : r, s \in MCRanges}
             \cup {<<R(0, 0), R(2, 2), R(4, 4)>>, <<R(0, 1), R(2, 2), R(4, 4)>>}

\* ICMP inbound / outbound: the empty list, an empty range, a range at
\* zero, at the top port, inside and equal to all of 0..4.
MCRawIcmpInOut == {<<>>, <<R(2, 1)>>, <<R(0, 0)>>, <<R(4, 4)>>, <<R(1, 2)>>, <<R(0, 4)>>}

MCDefaults == [tcp |-> <<R(2, 4)>>, udp |-> <<R(2, 4)>>, icmp |-> <<R(0, 4)>>,
               icmp_in |-> <<R(1, 2)>>, icmp_out |-> <<R(0, 4)>>]

MCBuildsAll   == Builds
MCBuildsDebug == {"debug"}
MCBuildsRelease == {"release"}

=============================================================================
