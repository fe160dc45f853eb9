------------------------------ MODULE ConfigScripts ------------------------------
(***************************************************************************)
(* The Python scripts at the two ends of the configuration file: what      *)
(* memory_layout_config.py writes for a layout in the new format, and      *)
(* which files legacy_memory_region.py lets through to the library, with   *)
(* the number of pages each has reserved.  The library reads the file as   *)
(* in ParseCsv.                                                            *)
(*                                                                         *)
(* written.layouts has the layout that a file was written from, if any.    *)
(***************************************************************************)
EXTENDS ParseCsv

\* The types of the other two pools, as the symbols of a field.
CONSTANTS BrkType, FileType

-------------------------------------------------------------------------------
(* legacy_memory_region.py, of the pool Type.                              *)

\* pandas splits at commas only: a blank before one stays with the type.
LegacyRows == IF written.comma = <<Space, Comma>> THEN <<>> ELSE SelectSeq(written.lines, IsRow)

\* sorted is stable.
LegacySorted ==
    LET start(k) == Field(LegacyRows[k], 3)
        order == SetToSortSeq(DOMAIN LegacyRows,
                    LAMBDA j, k : start(j) < start(k) \/ (start(j) = start(k) /\ j < k))
    IN [n \in DOMAIN order |->
           LET l == LegacyRows[order[n]] IN MemoryInterval(Field(l, 3), Field(l, 4), Field(l, 2))]

\* The first row with the page size -1 is the pool's and is removed.
FirstSize == {k \in DOMAIN LegacySorted : LegacySorted[k].page_size = -1
                 /\ \A j \in 1 .. k - 1 : LegacySorted[j].page_size # -1}
Intervals == IF FirstSize = {} THEN LegacySorted ELSE RemoveAt(LegacySorted, Max(FirstSize))

validate_region_offsets(v) ==
    /\ v.end_offset >= v.start_offset
    /\ IS_ALIGNED(v.start_offset, BASE_4KB)
    /\ IS_ALIGNED(v.end_offset - v.start_offset, v.page_size)

\* Mutant: only regions of the same page size may not overlap.
MutantOverlapping ==
    \E p \in {HUGE_2MB, HUGE_1GB} : LET of == OfPageSize(Intervals, p) IN
        \E k \in 1 .. Len(of) - 1 : of[k].end_offset > of[k + 1].start_offset

\* "regions are overlapping": each region and the next one.
Overlapping ==
    \E k \in 1 .. Len(Intervals) - 1 :
        /\ Intervals[k].page_size # -1
        /\ Intervals[k].end_offset > Intervals[k + 1].start_offset

\* validate_region_and_get_pool_size does not exit.  zip stops at the end of the
\* shorter list, so that a region beyond the pool may go unnoticed.
LegacyAccepts ==
    LET of2MB == OfPageSize(Intervals, HUGE_2MB)
        of1GB == OfPageSize(Intervals, HUGE_1GB)
    IN /\ FirstSize # {} /\ LegacySorted[Max(FirstSize)].end_offset >= 0
       /\ \A k \in DOMAIN of2MB \cap DOMAIN of1GB :
             Max({of2MB[k].end_offset, of1GB[k].end_offset})
                 <= LegacySorted[Max(FirstSize)].end_offset
       /\ \A list \in {of2MB, of1GB} : \A k \in DOMAIN list :
             /\ validate_region_offsets(list[k])
             /\ k > 1 => IS_ALIGNED(list[k].start_offset - list[k - 1].start_offset,
                                    list[k].page_size)
       /\ of2MB # <<>> /\ of1GB # <<>> =>
             IS_ALIGNED(of1GB[1].start_offset - of2MB[1].start_offset, HUGE_2MB)
       /\ ~Overlapping

get_num_of_page_size(p) ==
    FoldLeft(LAMBDA n, v : n + (v.end_offset - v.start_offset) \div p, 0, OfPageSize(Intervals, p))

-------------------------------------------------------------------------------
(* memory_layout_config.py.  A layout lists pages of each size by ranges   *)
(* <<first, last>> from an offset in the pool on.                          *)

\* PageSize.HUGE_PAGE_1GB is 1 << 20.
HUGE_PAGE_1GB == HUGE_2MB \div 2

\* list_from_ranges and set.
Items(ranges) == UNION {r[1] .. r[2] : r \in ranges}

\* Mutant: a new range begins where the last one did.
MutantListToRanges(list) ==
    LET ends == {k \in DOMAIN list : k = Len(list) \/ list[k + 1] - list[k] # 1}
    IN {<<list[1], list[k]>> : k \in ends}

\* list_to_ranges, of the items in any order: runs of numbers that ascend by 1.
ListToRanges(list) ==
    LET begins == {k \in DOMAIN list : k = 1 \/ list[k] - list[k - 1] # 1}
        ends == {k \in DOMAIN list : k = Len(list) \/ list[k + 1] - list[k] # 1}
    IN {<<list[k], list[Min({e \in ends : e >= k})]>> : k \in begins}

\* A range ends where its last page begins, unless it is a single page.
get_region_absolute_values(ranges, item_size, offset) ==
    {<<r[1] * item_size + offset,
       (IF r[1] = r[2] THEN r[2] + 1 ELSE r[2]) * item_size + offset>> : r \in ranges}

Cell(n) == Digits[n]

\* get_legacy_pool_config_rows: the items, and the pairs of a set, in any order.
PoolRows(type, layout) ==
    LET rows(ranges, size, offset) ==
            {[k \in DOMAIN s |-> <<type, Cell(size), Cell(s[k][1]), Cell(s[k][2])>>] :
                s \in UNION {SetToSeqs(get_region_absolute_values(ListToRanges(l), size, offset)) :
                                l \in SetToSeqs(Items(ranges))}}
    IN {a \o b : a \in rows(layout.list_2mb, HUGE_2MB, layout.offset_2mb),
                 b \in rows(layout.list_1gb, HUGE_PAGE_1GB, layout.offset_1gb)}

\* validate_pool_configuration.  With pages of both sizes it fails, because a
\* set has no first element (305), and so it does with two offsets above zero,
\* because there is no BASE_PAGE_1GB (322).
Validated(layout) ==
    /\ layout.list_2mb = {} \/ layout.list_1gb = {}
    /\ IS_ALIGNED(layout.offset_2mb, BASE_4KB) /\ IS_ALIGNED(layout.offset_1gb, BASE_4KB)
    /\ layout.offset_2mb = 0 \/ layout.offset_1gb = 0

\* build_legacy_configuration_layout and to_csv, of the layouts of the pool Type
\* and of brk; the file-backed pool has no such pages.
Written(layout, brk) ==
    LET size(type, n) == <<type, Cell(-1), Cell(0), Cell(n)>>
    IN IF ~Validated(layout) \/ ~Validated(brk) THEN {}
       ELSE {[lines |-> <<size(BrkType, brk.size), size(Type, layout.size), size(FileType, 0)>>
                            \o b \o l,
              comma |-> <<Comma>>, ended |-> TRUE, layouts |-> {layout}] :
                b \in PoolRows(BrkType, brk), l \in PoolRows(Type, layout)}

-------------------------------------------------------------------------------
(* Properties.                                                             *)

Bytes(list) == UNION {v.start_offset .. v.end_offset - 1 : v \in ToSet(list)}

\* The library itself lets intervals overlap
\* (MemoryIntervalsValidator.cc:52-54).  With a file of complete rows that the
\* legacy script has let through it never does, and the pages of each size that
\* it maps are as many as the script has counted (legacy_memory_region.py).
FullRows == \A l \in ToSet(written.lines) : Len(l) \in {0, 4}
LegacyApart ==
    outcome = "configured" /\ FullRows /\ LegacyAccepts =>
        LET list == data.intervalList
        IN /\ \A j, k \in DOMAIN list :
                 j < k => Bytes(<<list[j]>>) \cap Bytes(<<list[k]>>) = {}
           /\ \A p \in {HUGE_2MB, HUGE_1GB} :
                 Cardinality(Bytes(OfPageSize(list, p))) = p * get_num_of_page_size(p)

\* Of a layout in the new format, whatever order Python gives the items of a
\* set, the library backs only pages that are listed, each once, so that those
\* reserved (items_count) are enough.
BackedAsListed ==
    outcome = "configured" =>
        \A layout \in written.layouts :
            LET list == data.intervalList
                pages == Items(layout.list_2mb)
            IN /\ \A v \in ToSet(list) : v.page_size = HUGE_2MB
               /\ \A o \in Bytes(list) : (o - layout.offset_2mb) \div HUGE_2MB \in pages
               /\ FoldLeft(LAMBDA n, v : n + v.end_offset - v.start_offset, 0, list)
                     <= HUGE_2MB * Cardinality(pages)
===============================================================================
