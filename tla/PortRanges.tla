----------------------------- MODULE PortRanges -----------------------------
(***************************************************************************)
(* The port-range algebra of src/src/instance.rs: sort_and_merge_ranges,   *)
(* ExternalRanges::try_from, ExternalRanges::contains and                  *)
(* ExternalRanges::apply_raw, as pure operators.                           *)
(*                                                                         *)
(* Ports are u16 in the code.  Here they are the integers 0..MaxPort,     *)
(* MaxPort standing for 65535, and the one addition the code does on a    *)
(* port (curr.end + 1) overflows at MaxPort: the release build wraps it   *)
(* to 0 and the debug build panics.  Which one happens is the parameter   *)
(* `build` of the operators.                                               *)
(***************************************************************************)
EXTENDS Integers, Sequences, SequencesExt

CONSTANTS
    MaxPort,        \* the largest port (u16::MAX, 65535, in the code)
    MaxPortRanges,  \* skel::MAX_PORT_RANGES
    Panic,          \* model value: the computation panicked (u16 overflow, debug build)
    ErrZero,        \* model value: "Port range ... contains zero" error
    ErrTooMany      \* model value: "exceed limit of max ... ranges" error

ASSUME MaxPort \in Nat /\ MaxPortRanges \in Nat \ {0}

\* A RangeInclusive<u16>; lo > hi is an empty range.
PortRange == [lo : 0..MaxPort, hi : 0..MaxPort]

Builds == {"debug", "release"}

IsEmptyRange(r) == r.lo > r.hi

\* The set of ports a list of ranges denotes; the reference semantics.
PortsOf(xs) == UNION {r.lo .. r.hi : r \in ToSet(xs)}

\* Mutant: adjacency forgotten, only overlapping ranges merge.
SuccPortNoAdjacent(p, build) == p

\* `*curr.end() + 1` on a u16: wraps in release, panics in debug.
SuccPort(p, build) ==
    IF p < MaxPort THEN p + 1
    ELSE IF build = "release" THEN 0 ELSE Panic

\* ranges.sort_by_key(|range| *range.start()): a stable sort by start.
RECURSIVE InsertByStart(_, _)
InsertByStart(r, s) ==
    IF s = <<>> \/ r.lo <= Head(s).lo THEN <<r>> \o s
    ELSE <<Head(s)>> \o InsertByStart(r, Tail(s))

SortByStart(xs) == FoldRight(InsertByStart, xs, <<>>)

(***************************************************************************)
(* sort_and_merge_ranges: drop empty ranges, sort, then one merge pass    *)
(* carrying the current range `curr` and the output `res`.                *)
(***************************************************************************)
\* Mutant: the `else if next.end() > curr.end()` guard dropped, so a range
\* inside the current one truncates it.
MergeStepAlwaysExtend(acc, next, build) ==
    IF acc = Panic THEN Panic
    ELSE LET succ == SuccPort(acc.curr.hi, build) IN
         IF succ = Panic THEN Panic
         ELSE IF next.lo > succ
              THEN [res |-> Append(acc.res, acc.curr), curr |-> next]
         ELSE [acc EXCEPT !.curr = [lo |-> acc.curr.lo, hi |-> next.hi]]

MergeStep(acc, next, build) ==
    IF acc = Panic THEN Panic
    ELSE LET succ == SuccPort(acc.curr.hi, build) IN
         IF succ = Panic THEN Panic
         ELSE IF next.lo > succ
              THEN [res |-> Append(acc.res, acc.curr), curr |-> next]
         ELSE IF next.hi > acc.curr.hi
              THEN [acc EXCEPT !.curr = [lo |-> acc.curr.lo, hi |-> next.hi]]
         ELSE acc

sort_and_merge_ranges(xs, build) ==
    LET ranges == SortByStart(SelectSeq(xs, LAMBDA r : ~IsEmptyRange(r)))
        step(acc, next) == MergeStep(acc, next, build)
        out == FoldLeft(step, [res |-> <<>>, curr |-> Head(ranges)], Tail(ranges))
    IN  IF Len(ranges) < 2 THEN ranges
        ELSE IF out = Panic THEN Panic
        ELSE Append(out.res, out.curr)

(***************************************************************************)
(* ExternalRanges::try_from: reject a range starting at zero unless        *)
(* allow_zero, normalise, reject more than MAX_PORT_RANGES ranges.  The    *)
(* result is a list, or one of the error values.                           *)
(***************************************************************************)
\* Mutant: off by one in the MAX_PORT_RANGES check.
ExternalRangesTryFromAtLimit(xs, allowZero, build) ==
    LET merged == sort_and_merge_ranges(xs, build) IN
    IF ~allowZero /\ \E i \in DOMAIN xs : xs[i].lo = 0 THEN ErrZero
    ELSE IF merged = Panic THEN Panic
    ELSE IF Len(merged) >= MaxPortRanges THEN ErrTooMany
    ELSE merged

ExternalRangesTryFrom(xs, allowZero, build) ==
    LET merged == sort_and_merge_ranges(xs, build) IN
    IF ~allowZero /\ \E i \in DOMAIN xs : xs[i].lo = 0 THEN ErrZero
    ELSE IF merged = Panic THEN Panic
    ELSE IF Len(merged) > MaxPortRanges THEN ErrTooMany
    ELSE merged

(***************************************************************************)
(* ExternalRanges::contains: normalise both lists, then walk `other`       *)
(* through `this` with a peekable iterator.                                *)
(***************************************************************************)
\* Mutant: the `other.start() < range.start()` check dropped.
RECURSIVE ContainsWalkNoStartCheck(_, _)
ContainsWalkNoStartCheck(this, other) ==
    IF this = <<>> THEN other = <<>>
    ELSE IF other = <<>> THEN TRUE
    ELSE LET range == Head(this)
             o     == Head(other)
         IN  IF o.lo > range.hi THEN ContainsWalkNoStartCheck(Tail(this), other)
             ELSE IF o.hi > range.hi THEN FALSE
             ELSE ContainsWalkNoStartCheck(this, Tail(other))

RECURSIVE ContainsWalk(_, _)
ContainsWalk(this, other) ==
    IF this = <<>> THEN other = <<>>
    ELSE IF other = <<>> THEN TRUE
    ELSE LET range == Head(this)
             o     == Head(other)
         IN  IF o.lo < range.lo THEN FALSE
             ELSE IF o.lo > range.hi THEN ContainsWalk(Tail(this), other)
             ELSE IF o.hi > range.hi THEN FALSE
             ELSE ContainsWalk(this, Tail(other))

contains(this, other, build) ==
    LET a == sort_and_merge_ranges(this, build)
        b == sort_and_merge_ranges(other, build)
    IN  IF a = Panic \/ b = Panic THEN Panic ELSE ContainsWalk(a, b)

(***************************************************************************)
(* ExternalRanges::apply_raw: the fixed array of MAX_PORT_RANGES slots     *)
(* the data plane reads, trailing slots zeroed, and its length byte.       *)
(***************************************************************************)
ZeroRange == [lo |-> 0, hi |-> 0]

apply_raw(xs) ==
    [ranges |-> [i \in 1..MaxPortRanges |-> IF i <= Len(xs) THEN xs[i] ELSE ZeroRange],
     len    |-> Len(xs)]

\* The ports the data plane sees in a serialised array.
RawPorts(raw) == PortsOf(SubSeq(raw.ranges, 1, raw.len))

=============================================================================
