---------------------------- MODULE MCHugePageRegion ----------------------------
(***************************************************************************)
(* HugePageRegion with pages of 2, 4 and 8 offsets: a size can then be     *)
(* unaligned within a page of any kind.  Configurations have at most two   *)
(* intervals, in either order, valid or not; Validate decides.             *)
(***************************************************************************)
EXTENDS HugePageRegion

CONSTANTS PoolSizes, Starts, Lengths

Intervals == {MemoryInterval(s, s + n, p) : s \in Starts, n \in Lengths, p \in {HUGE_2MB, HUGE_1GB}}

Apart(i, j) == i.end_offset <= j.start_offset \/ j.end_offset <= i.start_offset

\* Lists whose intervals do not overlap, which is what a configuration means.
Lists == {<<>>} \cup {<<v>> : v \in Intervals}
                \cup {p \in Intervals \X Intervals : Apart(p[1], p[2])}

ApartConfigs == [list : Lists, size : PoolSizes]
===============================================================================
