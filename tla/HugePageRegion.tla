----------------------------- MODULE HugePageRegion -----------------------------
(***************************************************************************)
(* HugePageBackedRegion.cc: a pool's virtual range, of which the part from *)
(* its start to its current size is mapped, each interval with pages of    *)
(* its own size.  The caller (MemoryAllocator) holds a mutex around each   *)
(* method, so an action is one call.                                       *)
(*                                                                         *)
(* hpbr holds the fields of the object; mem is the kernel's view of the    *)
(* range: for each offset the size of the page that backs it (0: none) and *)
(* what it holds.  refused is set by an mmap or munmap that no kernel      *)
(* accepts, upon which the code ends the process.                          *)
(***************************************************************************)
EXTENDS IntervalList

CONSTANTS
    Limit,    \* no region has Limit offsets or more
    Configs,  \* pool sizes and interval lists in the configuration file
    Bases,    \* addresses at which the first mmap may put the pool
    Stores    \* offsets the program stores to

ASSUME LimitAssumption == Limit \in Nat

\* A configuration means intervals that do not overlap, which the library does not
\* check and legacy_memory_region.py does; which of them are valid is for Validate
\* to say.
ASSUME ConfigsAssumption ==
    \A c \in Configs :
        /\ c.size \in 0 .. Limit
        /\ c.list \in Seq([start_offset : Nat, end_offset : Nat, page_size : Nat])
        /\ \A k, m \in DOMAIN c.list :
              k # m => \/ c.list[k].end_offset <= c.list[m].start_offset
                       \/ c.list[m].end_offset <= c.list[k].start_offset

ASSUME BasesAssumption == \A a \in Bases : a \in Nat /\ IS_ALIGNED(a, BASE_4KB)
ASSUME StoresAssumption == Stores \subseteq 0 .. Limit - 1

VARIABLES
    hpbr,     \* the HugePageBackedRegion
    mem,      \* the kernel's mappings in the range
    refused,  \* did the kernel refuse a call?
    config    \* the configuration and base of this run; never changes

vars == <<hpbr, mem, refused, config>>

Offsets == 0 .. Limit - 1
Unmapped == [page |-> 0, holds |-> "none"]
Within(i, o) == i.start_offset <= o /\ o < i.end_offset

\* A region with the mappings it has made: what the methods below work on.
Region(h, m, r) == [hpbr |-> h, mem |-> m, refused |-> r]

-------------------------------------------------------------------------------
(* AllocateMemory and DeallocateMemory on [from, to) of the region.  Both  *)
(* do nothing for an empty range.  The kernel wants a multiple of the page *)
(* size on either end, and munmap must not cut a huge page.                *)

Aligned(h, from, to, page) ==
    /\ from < to
    /\ IS_ALIGNED(h.start + from, page) /\ IS_ALIGNED(h.start + to, page)

\* A fresh mapping replaces whatever was there and reads as zeros.
AllocateMemory(g, from, to, page) ==
    IF from = to THEN g
    ELSE IF ~Aligned(g.hpbr, from, to, page) THEN [g EXCEPT !.refused = TRUE]
    ELSE [g EXCEPT !.mem = [o \in Offsets |->
             IF from <= o /\ o < to THEN [page |-> page, holds |-> "zero"] ELSE @[o]]]

DeallocateMemory(g, from, to) ==
    LET cut == {g.mem[o].page : o \in Offsets \cap (from .. to - 1)} \ {0}
    IN IF from = to THEN g
       ELSE IF ~ \A page \in cut \cup {BASE_4KB} : Aligned(g.hpbr, from, to, page)
            THEN [g EXCEPT !.refused = TRUE]
       ELSE [g EXCEPT !.mem = [o \in Offsets |->
                IF from <= o /\ o < to THEN Unmapped ELSE @[o]]]

-------------------------------------------------------------------------------
\* Mutant: the interval's offset is left out of the rounding.
MutantEndIn(i, n) == ROUND_UP(n, i.page_size)

\* Where n bytes end when the last of them is in the interval.
EndIn(i, n) == i.start_offset + ROUND_UP(n - i.start_offset, i.page_size)

\* Mutant: an interval that is mapped in part is mapped from its start.
MutantExtendRegion(g, new_size) ==
    LET cur == g.hpbr.current_size
        Extend(r, i) ==
            IF ~ (i.start_offset <= Max({cur, new_size}) /\ cur < i.end_offset) THEN r
            ELSE LET to == IF new_size <= i.end_offset THEN EndIn(i, new_size)
                           ELSE i.end_offset
                 IN [AllocateMemory(r, i.start_offset, to, i.page_size)
                       EXCEPT !.hpbr.current_size = to]
    IN FoldLeft(Extend, g, g.hpbr.intervals)

\* ExtendRegion: map the rest of the interval the region ends in and of each
\* one after it, up to the page that holds new_size.  The new size is where the
\* last of these mappings ends.
ExtendRegion(g, new_size) ==
    LET cur == g.hpbr.current_size
        Extend(r, i) ==
            IF ~ (i.start_offset <= Max({cur, new_size}) /\ cur < i.end_offset) THEN r
            ELSE LET from == Max({cur, i.start_offset})
                     to == IF new_size <= i.end_offset THEN EndIn(i, new_size)
                           ELSE i.end_offset
                 IN [AllocateMemory(r, from, to, i.page_size)
                       EXCEPT !.hpbr.current_size = to]
    IN FoldLeft(Extend, g, g.hpbr.intervals)

\* ShrinkRegion: unmap from the page after new_size on.  The new size is where
\* the first of these ranges starts.
ShrinkRegion(g, new_size) ==
    LET cur == g.hpbr.current_size
        Shrink(r, i) ==
            IF ~ (Min({cur, new_size}) <= i.end_offset /\ cur > i.start_offset) THEN r
            ELSE LET to == Min({cur, i.end_offset})
                     from == IF new_size >= i.start_offset THEN EndIn(i, new_size)
                             ELSE i.start_offset
                 IN [DeallocateMemory(r, from, to)
                       EXCEPT !.hpbr.current_size = Min({@, from})]
    IN FoldLeft(Shrink, g, g.hpbr.intervals)

\* The region after Resize(new_size); refused with -ENOMEM beyond the maximum.
Resized(g, new_size) ==
    IF new_size > g.hpbr.max_size THEN g
    ELSE IF new_size > g.hpbr.current_size THEN ExtendRegion(g, new_size)
    ELSE IF new_size < g.hpbr.current_size THEN ShrinkRegion(g, new_size)
    ELSE g

-------------------------------------------------------------------------------
(* Initialize.  The whole pool is mapped once with 4KB pages, with a page  *)
(* of the largest configured size to spare, to find an address at which    *)
(* the first interval of that size is aligned; then it is unmapped and     *)
(* mapped again with the pages of the intervals.                           *)

FirstOffsetOf(list, p) == OfPageSize(Sort(list), p)[1].start_offset

\* Mutant: the pool is rounded up without a page to spare.
MutantReservation(list, size) ==
    IF IntervalsOf1GB(list) # <<>> THEN ROUND_UP(size, HUGE_1GB)
    ELSE IF IntervalsOf2MB(list) # <<>> THEN ROUND_UP(size, HUGE_2MB)
    ELSE size

Reservation(list, size) ==
    IF IntervalsOf1GB(list) # <<>> THEN ROUND_UP(size + HUGE_1GB, HUGE_1GB)
    ELSE IF IntervalsOf2MB(list) # <<>> THEN ROUND_UP(size + HUGE_2MB, HUGE_2MB)
    ELSE size

\* Mutant: the base is aligned instead of the first interval.
MutantRegionStart(list, base) ==
    IF IntervalsOf1GB(list) # <<>> THEN ROUND_UP(base, HUGE_1GB)
    ELSE IF IntervalsOf2MB(list) # <<>> THEN ROUND_UP(base, HUGE_2MB)
    ELSE base

RegionStart(list, base) ==
    LET AlignFirst(p) == ROUND_UP(base + FirstOffsetOf(list, p), p) - FirstOffsetOf(list, p)
    IN IF IntervalsOf1GB(list) # <<>> THEN AlignFirst(HUGE_1GB)
       ELSE IF IntervalsOf2MB(list) # <<>> THEN AlignFirst(HUGE_2MB)
       ELSE base

Initialized(list, size, base) ==
    LET g == Resized(Region([start |-> RegionStart(list, base), current_size |-> 0,
                             max_size |-> size, intervals |-> WithGaps(list, size)],
                            [o \in Offsets |-> Unmapped], FALSE),
                     size)
    IN [g EXCEPT !.hpbr.max_size = g.hpbr.current_size]

Becomes(g) == hpbr' = g.hpbr /\ mem' = g.mem /\ refused' = g.refused

Init ==
    \E c \in Configs, base \in Bases :
        /\ Accepted(c.list, c.size) /\ IS_ALIGNED(c.size, BASE_4KB)
        /\ config = [list |-> c.list, size |-> c.size, base |-> base]
        /\ LET g == Initialized(c.list, c.size, base)
           IN hpbr = g.hpbr /\ mem = g.mem /\ refused = g.refused

Resize(new_size) ==
    /\ ~refused
    /\ Becomes(Resized(Region(hpbr, mem, refused), new_size))
    /\ UNCHANGED config

\* The program stores something at an offset below the current size.
Write(o) ==
    /\ ~refused /\ mem[o].page # 0
    /\ mem' = [mem EXCEPT ![o].holds = "data"]
    /\ UNCHANGED <<hpbr, refused, config>>

Next ==
    \/ \E new_size \in 0 .. Limit : Resize(new_size)
    \/ \E o \in Stores : Write(o)

Spec == Init /\ [][Next]_vars

-------------------------------------------------------------------------------
(* Properties.                                                             *)

\* Type correctness, with the bookkeeping of the object: the current size
\* never passes the maximum, which is still the configured size although
\* Initialize sets it to what the last interval's rounding gave.
TypeOK ==
    /\ hpbr.max_size = config.size /\ hpbr.current_size \in 0 .. hpbr.max_size
    /\ hpbr.start \in Nat
    /\ \A i \in ToSet(hpbr.intervals) : i.page_size \in PageSizes
    /\ \A o \in Offsets : mem[o].page \in PageSizes \cup {0}
    /\ refused \in BOOLEAN

\* Every mapped offset of a configured interval is backed by a page of the
\* size configured for it, and every other one by 4KB pages (README.md:58).
Uniform ==
    \A o \in Offsets : mem[o].page # 0 =>
        /\ \A i \in ToSet(config.list) : Within(i, o) => mem[o].page = i.page_size
        /\ (\A i \in ToSet(config.list) : ~Within(i, o)) => mem[o].page = BASE_4KB

\* No mmap or munmap of a valid configuration is refused for its alignment:
\* the start found by Initialize aligns every interval of either size.
NeverRefused == ~refused

\* The region lies inside the range that the first mmap reserved, so that its
\* MAP_FIXED mappings hit nothing else.
WithinReservation ==
    /\ config.base <= hpbr.start
    /\ hpbr.start + config.size <= config.base + Reservation(config.list, config.size)

\* The region is what the pools take it for (ResizableRegion.tla): Resize moves
\* the end to a page boundary and keeps what lies below both ends.
EndOf(n) ==
    IF n = 0 THEN 0
    ELSE LET i == CHOOSE i \in ToSet(hpbr.intervals) : i.start_offset < n /\ n <= i.end_offset
         IN EndIn(i, n)

Abstract == INSTANCE ResizableRegion WITH
    max <- hpbr.max_size,
    ends <- [n \in 0 .. hpbr.max_size |-> EndOf(n)],
    size <- hpbr.current_size,
    data <- [o \in Offsets |-> mem[o].holds]

ImplementsResizable == Abstract!Spec
===============================================================================
