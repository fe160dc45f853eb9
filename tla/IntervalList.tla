------------------------------ MODULE IntervalList ------------------------------
(***************************************************************************)
(* The interval lists that describe a pool (MemoryIntervalList.cc), their  *)
(* validation (MemoryIntervalsValidator.cc) and the 4KB intervals that     *)
(* HugePageBackedRegion::Initialize puts between the configured ones.      *)
(* Offsets and sizes are numbers of some unit; the three page sizes are    *)
(* constants of which each divides the next, as 4KB, 2MB and 1GB do.       *)
(***************************************************************************)
EXTENDS Integers, SequencesExt

CONSTANTS BASE_4KB, HUGE_2MB, HUGE_1GB

ASSUME PageSizeAssumption ==
    /\ {BASE_4KB, HUGE_2MB, HUGE_1GB} \subseteq Nat \ {0}
    /\ BASE_4KB < HUGE_2MB /\ HUGE_2MB < HUGE_1GB
    /\ HUGE_2MB % BASE_4KB = 0 /\ HUGE_1GB % HUGE_2MB = 0

PageSizes == {BASE_4KB, HUGE_2MB, HUGE_1GB}

ROUND_UP(num, mul) == ((num + mul - 1) \div mul) * mul
IS_ALIGNED(num, alignment) == num % alignment = 0

MemoryInterval(s, e, p) == [start_offset |-> s, end_offset |-> e, page_size |-> p]
LessThan(lhs, rhs) == lhs.start_offset < rhs.start_offset

\* Sort: every pair i <= j is swapped unless it is in strict order.
Sort(list) ==
    LET n == Len(list)
        pairs == [k \in 1 .. n * n |-> <<((k - 1) \div n) + 1, ((k - 1) % n) + 1>>]
        Order(l, p) == IF p[1] > p[2] \/ LessThan(l[p[1]], l[p[2]]) THEN l
                       ELSE [l EXCEPT ![p[1]] = l[p[2]], ![p[2]] = l[p[1]]]
    IN FoldLeft(Order, list, pairs)

OfPageSize(list, p) ==
    LET Add(l, i) == IF i.page_size = p THEN Append(l, i) ELSE l
    IN FoldLeft(Add, <<>>, list)

\* CopyMemoryIntervalsOf1GBTo and CopyMemoryIntervalsOf2MBTo.
IntervalsOf1GB(list) == OfPageSize(list, HUGE_1GB)
IntervalsOf2MB(list) == OfPageSize(list, HUGE_2MB)

FindMaxEndOffset(list) == Max({0} \cup {i.end_offset : i \in ToSet(list)})

-------------------------------------------------------------------------------
(* MemoryIntervalsValidator.                                               *)

\* validateIntervalsOf: TRUE stands for SUCCESS, FALSE for any of the errors,
\* which the caller treats alike.
ValidIntervalsOf(list, p) ==
    LET sorted == Sort(list) IN
    \A k \in DOMAIN sorted :
        LET i == sorted[k]
            length == i.end_offset - i.start_offset
        IN /\ IS_ALIGNED(i.start_offset, BASE_4KB)
           /\ length > 0 /\ IS_ALIGNED(length, p)
           /\ k > 1 => IS_ALIGNED(i.start_offset - sorted[k - 1].end_offset, p)

Validate(list) ==
    LET sorted == Sort(list)
        of1GB == IntervalsOf1GB(sorted)
        of2MB == IntervalsOf2MB(sorted)
    IN /\ Len(of1GB) + Len(of2MB) = Len(list)
       /\ ValidIntervalsOf(of1GB, HUGE_1GB)
       /\ ValidIntervalsOf(of2MB, HUGE_2MB)
       /\ (of1GB # <<>> /\ of2MB # <<>>) =>
            IS_ALIGNED(Sort(of1GB)[1].start_offset - Sort(of2MB)[1].start_offset, HUGE_2MB)

\* SetIntervalConfigList accepts a list for a pool of the given size, an off_t.
Accepted(list, size) == Validate(list) /\ FindMaxEndOffset(list) <= size

-------------------------------------------------------------------------------
(* The intervals of a region (HugePageBackedRegion::Initialize).           *)

\* The gaps found so far, and the end of the interval before.
GapsTo(gaps, prev) == [gaps |-> gaps, prev |-> prev]

\* Mutant: a gap takes the page size of the interval after it.
MutantGapBefore(r, i) ==
    GapsTo(IF r.prev < i.start_offset
           THEN Append(r.gaps, MemoryInterval(r.prev, i.start_offset, i.page_size))
           ELSE r.gaps,
           i.end_offset)

\* A 4KB interval before each configured one that does not begin where the
\* previous one ends ...
GapBefore(r, i) ==
    GapsTo(IF r.prev < i.start_offset
           THEN Append(r.gaps, MemoryInterval(r.prev, i.start_offset, BASE_4KB))
           ELSE r.gaps,
           i.end_offset)

\* ... and one up to the end of the region.
Gaps(sorted, size) ==
    LET r == FoldLeft(GapBefore, GapsTo(<<>>, 0), sorted)
    IN IF r.prev < size THEN Append(r.gaps, MemoryInterval(r.prev, size, BASE_4KB))
       ELSE r.gaps

WithGaps(list, size) ==
    LET sorted == Sort(list) IN Sort(sorted \o Gaps(sorted, size))
===============================================================================
