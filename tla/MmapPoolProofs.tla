----------------------------- MODULE MmapPoolProofs -----------------------------
(***************************************************************************)
(* Proofs about MmapPool, for every pool, table size, page layout and      *)
(* threshold.  They rest on what FirstFitProofs shows of the allocator and *)
(* on what the region does in one Resize.                                  *)
(***************************************************************************)
EXTENDS MmapPool, FirstFitProofs

\* The region's half of the type invariant.
RegionOK ==
    /\ max = PoolSize /\ ends \in Layouts
    /\ size \in 0 .. PoolSize /\ ends[size] = size
    /\ data \in [HPBR!Offsets -> {"none", "zero", "data"}]
    /\ \A o \in HPBR!Offsets : data[o] = "none" <=> o >= size

\* The inductive invariant: no two regions overlap, memory reaches at least as
\* far as every region in use, and the peak is no less than the size.
PoolInv == Safe /\ PoolTypeOK /\ Backed /\ PeakCovers

LEMMA PoolSizeNat == PoolSize \in Nat /\ HPBR!Offsets = 0 .. PoolSize - 1
BY PoolAssumption DEF PoolSize, HPBR!Offsets

\* What it means for ends to be a layout.
LEMMA LayoutFacts ==
    ASSUME NEW e \in Layouts, NEW n \in 0 .. PoolSize
    PROVE  /\ e[n] \in 0 .. PoolSize
           /\ n <= e[n] /\ e[e[n]] = e[n] /\ e[0] = 0
BY LayoutsAssumption, PoolSizeNat DEF HPBR!PageEnds

\* A longer range does not end on an earlier page.
LEMMA LayoutMonotone ==
    ASSUME NEW e \in Layouts, NEW n \in 0 .. PoolSize, NEW k \in 0 .. PoolSize, n <= k
    PROVE  e[n] <= e[k]
BY LayoutsAssumption DEF HPBR!PageEnds

\* GetTopAddress finds the highest end of a set of regions.
LEMMA TopFacts ==
    ASSUME NEW O \in SUBSET Regions
    PROVE  /\ GetTopAddress(O) \in {Start} \cup {r.end : r \in O}
           /\ GetTopAddress(O) \in Start .. End
           /\ \A r \in O : r.end <= GetTopAddress(O)
<1> DEFINE T == {Start} \cup {r.end : r \in O}
<1>1. T \in SUBSET Nat /\ T # {} /\ \A t \in T : Start <= t /\ t <= End
    BY PoolAssumption DEF Regions
<1>2. PICK m \in T : \A t \in T : t <= m
    <2> HIDE DEF T
    <2> QED BY <1>1, PoolAssumption, GreatestNatural
<1>3. \A r \in O : r.end \in T
    OBVIOUS
<1>4. /\ GetTopAddress(O) \in T
      /\ \A r \in O : r.end <= GetTopAddress(O)
    BY <1>2, <1>3 DEF GetTopAddress
<1>5. GetTopAddress(O) \in Start .. End
    <2> DEFINE g == GetTopAddress(O)
    <2>1. g \in T /\ T \in SUBSET Nat /\ \A t \in T : Start <= t /\ t <= End
        BY <1>1, <1>4
    <2> HIDE DEF T, g
    <2>2. g \in Nat /\ Start <= g /\ g <= End
        BY <2>1
    <2>3. g \in Start .. End
        BY <2>2, PoolAssumption
    <2> QED BY <2>3 DEF g
<1> QED BY <1>4, <1>5

\* One Resize within the pool: it ends on the page boundary after n, and keeps
\* what lies below both the old end and the new one.
LEMMA ResizeFacts ==
    ASSUME RegionOK, NEW n \in 0 .. PoolSize, HPBR!Resize(n)
    PROVE  /\ RegionOK'
           /\ size' = ends[n] /\ n <= size' /\ ends' = ends
           /\ \A o \in HPBR!Offsets : o < size /\ o < size' => data'[o] = data[o]
<1>1. /\ size' = ends[n] /\ data' = HPBR!Resized(ends[n]) /\ max' = max /\ ends' = ends
    BY PoolSizeNat DEF HPBR!Resize, RegionOK
<1>2. ends[n] \in 0 .. PoolSize /\ n <= ends[n] /\ ends[ends[n]] = ends[n]
    BY LayoutFacts DEF RegionOK
<1>3. \A o \in HPBR!Offsets :
          data'[o] = IF o >= ends[n] THEN "none" ELSE IF o >= size THEN "zero" ELSE data[o]
    BY <1>1 DEF HPBR!Resized
<1>4. data' \in [HPBR!Offsets -> {"none", "zero", "data"}]
    BY <1>1 DEF HPBR!Resized, RegionOK
<1>5. \A o \in HPBR!Offsets : o \in Int /\ size \in Int /\ ends[n] \in Int
    BY <1>2, PoolSizeNat DEF RegionOK
<1>6. \A o \in HPBR!Offsets : data'[o] = "none" <=> o >= size'
    BY <1>1, <1>3, <1>5 DEF RegionOK
<1>7. \A o \in HPBR!Offsets : o < size /\ o < size' => data'[o] = data[o]
    BY <1>1, <1>3, <1>5
<1>8. RegionOK'
    BY <1>1, <1>2, <1>4, <1>6 DEF RegionOK
<1> QED BY <1>1, <1>2, <1>7, <1>8

LEMMA RegionUnchanged ==
    ASSUME RegionOK, UNCHANGED hpbr
    PROVE  RegionOK' /\ size' = size /\ ends' = ends /\ data' = data
BY DEF RegionOK, hpbr, HPBR!Offsets

\* The range that an allocation returns is a region of the pool.
LEMMA AllocatedRange ==
    ASSUME Safe, NEW n \in Sizes, AllocateExact(n) \/ AllocateSplit(n)
    PROVE  /\ call'.ret \in Nat /\ n \in Nat
           /\ Start <= call'.ret /\ call'.ret + n <= End
           /\ occ' = occ \cup {Region(call'.ret, n)}
<1> DEFINE f == Lowest(Fits(n))
<1>1. Fits(n) # {}
    BY DEF AllocateExact, AllocateSplit
<1>2. f \in Regions /\ f.end - f.start >= n
    <2>1. Fits(n) \in SUBSET Regions
        BY DEF Fits, Safe, TypeOK
    <2>2. f \in Fits(n)
        BY <1>1, <2>1, LowestExists
    <2> QED BY <2>1, <2>2 DEF Fits, Size
<1>3. n \in Nat
    BY SizesAssumption
<1>4. call'.ret = f.start
    BY DEF AllocateExact, AllocateSplit, Allocated
<1>5. occ' = occ \cup {Region(f.start, n)}
    <2>1. CASE AllocateExact(n)
        <3>1. occ' = occ \cup {f} /\ f.end - f.start = n
            BY <2>1 DEF AllocateExact, Size
        <3>2. f = [start |-> f.start, end |-> f.end] /\ f.start \in Nat /\ f.end \in Nat
            BY <1>2 DEF Regions
        <3>3. f.end = f.start + n
            BY <3>1, <3>2, <1>3
        <3> QED BY <3>1, <3>2, <3>3 DEF Region
    <2>2. CASE AllocateSplit(n)
        BY <2>2 DEF AllocateSplit
    <2> QED BY <2>1, <2>2
<1>6. /\ f.start \in Nat /\ f.end \in Nat
      /\ Start <= f.start /\ f.end <= End /\ Start \in Nat /\ End \in Nat
    BY <1>2, PoolAssumption DEF Regions
<1> HIDE DEF f
<1> QED BY <1>2, <1>3, <1>4, <1>5, <1>6

-------------------------------------------------------------------------------
(* The invariant is inductive.                                             *)

LEMMA PoolInitSafe == PoolInit => PoolInv
<1> SUFFICES ASSUME PoolInit PROVE PoolInv
    OBVIOUS
<1>1. Safe
    BY InitSafe DEF PoolInit
<1>2. RegionOK
    <2>1. size = 0 /\ ends \in Layouts /\ ends[0] = 0 /\ 0 \in 0 .. PoolSize
        BY LayoutFacts, PoolSizeNat DEF PoolInit
    <2>2. \A o \in HPBR!Offsets : data[o] = "none" /\ o >= 0
        BY PoolSizeNat DEF PoolInit
    <2> QED BY <2>1, <2>2 DEF PoolInit, RegionOK
<1>3. occ = {} /\ size = 0 /\ anon_mmap_max_size = 0 /\ alive = TRUE
    BY DEF PoolInit, Init
<1> QED BY <1>1, <1>2, <1>3, PoolSizeNat
        DEF PoolInv, PoolTypeOK, RegionOK, Safe, Backed, PeakCovers

\* The invariant in the parts that the actions disturb one at a time.
LEMMA PoolInvParts ==
    PoolInv <=> /\ Safe /\ RegionOK /\ Backed /\ PeakCovers
                /\ anon_mmap_max_size \in 0 .. PoolSize /\ alive \in BOOLEAN
BY DEF PoolInv, PoolTypeOK, RegionOK, Safe

LEMMA PoolInvPartsPrimed ==
    PoolInv' <=> /\ Safe' /\ RegionOK' /\ Backed' /\ PeakCovers'
                 /\ anon_mmap_max_size' \in 0 .. PoolSize /\ alive' \in BOOLEAN
BY DEF PoolInv, PoolTypeOK, RegionOK, Safe, HPBR!Offsets

\* After an allocation the region reaches the end of the new range; it never
\* gets smaller by one, and what is stored stays.
LEMMA AllocateEffect ==
    ASSUME PoolInv, NEW n \in Sizes, AllocateFromAnonymousMmapRegion(n)
    PROVE  /\ PoolInv'
           /\ \A o \in HPBR!Offsets : o < size => data'[o] = data[o]
<1> DEFINE top == call'.ret + n - Start
<1>1. /\ Safe /\ RegionOK /\ Backed /\ PeakCovers
      /\ anon_mmap_max_size \in 0 .. PoolSize /\ alive \in BOOLEAN
    BY PoolInvParts
<1>2. /\ call'.ret \in Nat /\ n \in Nat /\ Start <= call'.ret /\ call'.ret + n <= End
      /\ occ' = occ \cup {Region(call'.ret, n)}
    BY <1>1, AllocatedRange DEF AllocateFromAnonymousMmapRegion
<1>3. top \in 0 .. PoolSize /\ Region(call'.ret, n).end - Start = top
    BY <1>2, PoolAssumption DEF PoolSize, Region
<1>4. Safe'
    <2>1. Allocate(n)
        BY DEF AllocateFromAnonymousMmapRegion, Allocate
    <2> QED BY <1>1, <2>1, AllocateSafe
<1>5. ExtendTo(top, n) /\ RecordPeak /\ alive' = alive
    BY DEF AllocateFromAnonymousMmapRegion
<1> HIDE DEF top
<1>6. /\ RegionOK' /\ size \in Nat /\ size' \in 0 .. PoolSize /\ size <= size' /\ top <= size'
      /\ \A o \in HPBR!Offsets : o < size => data'[o] = data[o]
    <2>1. size \in 0 .. PoolSize /\ top \in 0 .. PoolSize
        BY <1>1, <1>3 DEF RegionOK
    <2>2. CASE top > size
        <3>1. HPBR!Resize(top)
            BY <1>5, <2>2 DEF ExtendTo
        <3>2. /\ RegionOK' /\ top <= size'
              /\ \A o \in HPBR!Offsets : o < size /\ o < size' => data'[o] = data[o]
            BY <1>1, <1>3, <3>1, ResizeFacts
        <3>3. size' \in 0 .. PoolSize
            BY <3>2 DEF RegionOK
        <3>4. size <= size' /\ \A o \in HPBR!Offsets : o < size => o < size'
            BY <2>1, <2>2, <3>2, <3>3, PoolSizeNat
        <3> QED BY <2>1, <3>2, <3>3, <3>4
    <2>3. CASE ~(top > size)
        <3>1. UNCHANGED hpbr
            BY <1>5, <2>3 DEF ExtendTo
        <3>2. RegionOK' /\ size' = size /\ data' = data
            BY <1>1, <3>1, RegionUnchanged
        <3> QED BY <2>1, <2>3, <3>2
    <2> QED BY <2>2, <2>3
<1>7. Backed'
    <2> SUFFICES ASSUME NEW r \in occ' PROVE r.end - Start <= size'
        BY DEF Backed
    <2>1. CASE r \in occ
        <3>1. r.end \in Nat /\ Start \in Nat /\ r.end - Start <= size
            BY <1>1, <2>1, PoolAssumption DEF Backed, Safe, TypeOK, Regions
        <3> QED BY <1>6, <3>1
    <2>2. CASE r = Region(call'.ret, n)
        BY <1>3, <1>6, <2>2
    <2> QED BY <1>2, <2>1, <2>2
<1>8. PeakCovers' /\ anon_mmap_max_size' \in 0 .. PoolSize
    BY <1>1, <1>5, <1>6 DEF RecordPeak, PeakCovers
<1>9. PoolInv'
    BY <1>1, <1>4, <1>5, <1>6, <1>7, <1>8, PoolInvPartsPrimed
<1> QED BY <1>6, <1>9

\* After a free the region still reaches the end of every range in use, and
\* what is stored below its new end stays.
LEMMA FreeEffect ==
    ASSUME PoolInv, NEW r \in occ, NEW n \in Sizes, DeallocateFromAnonymousMmapRegion(r, n)
    PROVE  /\ PoolInv'
           /\ \A o \in HPBR!Offsets : o < size /\ o < size' => data'[o] = data[o]
<1> DEFINE top == GetTopAddress(occ') - Start
<1>1. /\ Safe /\ RegionOK /\ Backed /\ PeakCovers
      /\ anon_mmap_max_size \in 0 .. PoolSize /\ alive \in BOOLEAN
    BY PoolInvParts
<1>2. FreeRegion(r, n) /\ anon_mmap_max_size' = anon_mmap_max_size /\ alive' = alive
    BY DEF DeallocateFromAnonymousMmapRegion
<1>3. Safe'
    BY <1>1, <1>2, FreeRegionSafe
<1>4. occ' \in SUBSET Regions
    BY <1>3 DEF Safe, TypeOK, Regions
<1>5. /\ GetTopAddress(occ') \in Start .. End
      /\ \A q \in occ' : q.end <= GetTopAddress(occ')
    BY <1>4, TopFacts
<1>6. top \in 0 .. PoolSize /\ \A q \in occ' : q.end - Start <= top
    <2>1. \A q \in occ' : q.end \in Nat
        BY <1>4 DEF Regions
    <2> QED BY <1>5, <2>1, PoolAssumption DEF PoolSize
<1>7. \A q \in occ' : q.end - Start <= size
    <2>1. \A q \in occ' : \E p \in occ : q.end = p.end
        BY <1>2 DEF FreeRegion, Rest
    <2> QED BY <1>1, <2>1 DEF Backed
<1>8. TrimTo(top) \/ UNCHANGED hpbr
    BY DEF DeallocateFromAnonymousMmapRegion
<1> HIDE DEF top
<1>9. /\ RegionOK' /\ Backed' /\ PeakCovers'
      /\ \A o \in HPBR!Offsets : o < size /\ o < size' => data'[o] = data[o]
    <2>1. CASE UNCHANGED hpbr
        <3>1. RegionOK' /\ size' = size /\ data' = data
            BY <1>1, <2>1, RegionUnchanged
        <3> QED BY <1>1, <1>2, <1>7, <3>1 DEF Backed, PeakCovers
    <2>2. CASE HPBR!Resize(top) /\ size - top > RESIZE_THRESHOLD
        <3>1. /\ RegionOK' /\ size' = ends[top] /\ top <= size' /\ size' \in 0 .. PoolSize
              /\ \A o \in HPBR!Offsets : o < size /\ o < size' => data'[o] = data[o]
            BY <1>1, <1>6, <2>2, ResizeFacts DEF RegionOK
        <3>2. Backed'
            <4>1. \A q \in occ' : q.end - Start \in Int
                BY <1>4, PoolAssumption DEF Regions
            <4> QED BY <1>6, <3>1, <4>1 DEF Backed
        <3>3. size' <= size
            <4>1. size \in 0 .. PoolSize /\ ends[size] = size /\ ends \in Layouts
                BY <1>1 DEF RegionOK
            <4>2. top <= size
                BY <1>6, <2>2, <4>1, ThresholdAssumption
            <4> QED BY <1>6, <3>1, <4>1, <4>2, LayoutMonotone
        <3>4. PeakCovers'
            BY <1>1, <1>2, <3>1, <3>3 DEF PeakCovers, RegionOK
        <3> QED BY <3>1, <3>2, <3>4
    <2> QED BY <1>8, <2>1, <2>2 DEF TrimTo
<1>10. PoolInv'
    BY <1>1, <1>2, <1>3, <1>9, PoolInvPartsPrimed
<1> QED BY <1>9, <1>10

LEMMA WriteEffect ==
    ASSUME PoolInv, NEW a \in Pool, Write(a)
    PROVE  /\ PoolInv'
           /\ \A o \in HPBR!Offsets : data[o] = "data" => data'[o] = "data"
<1>1. /\ Safe /\ RegionOK /\ Backed /\ PeakCovers
      /\ anon_mmap_max_size \in 0 .. PoolSize /\ alive \in BOOLEAN
    BY PoolInvParts
<1>2. /\ data' = [data EXCEPT ![a - Start] = "data"] /\ a - Start < size
      /\ max' = max /\ ends' = ends /\ size' = size
      /\ UNCHANGED <<vars, anon_mmap_max_size, alive>>
    BY DEF Write, HPBR!Write
<1>3. a - Start \in HPBR!Offsets /\ a - Start \in Int /\ size \in Int
    BY <1>1, PoolAssumption DEF Pool, PoolSize, HPBR!Offsets, RegionOK
<1>4. \A o \in HPBR!Offsets : data'[o] = IF o = a - Start THEN "data" ELSE data[o]
    BY <1>1, <1>2 DEF RegionOK
<1>5. data' \in [HPBR!Offsets -> {"none", "zero", "data"}]
    BY <1>1, <1>2 DEF RegionOK
<1>6. \A o \in HPBR!Offsets : data'[o] = "none" <=> o >= size
    <2>1. ~(a - Start >= size)
        BY <1>2, <1>3
    <2> QED BY <1>1, <1>4, <2>1 DEF RegionOK
<1>7. RegionOK'
    BY <1>1, <1>2, <1>5, <1>6 DEF RegionOK, HPBR!Offsets
<1>8. Safe' /\ Backed' /\ PeakCovers'
    BY <1>1, <1>2 DEF vars, Safe, TypeOK, NoOverlap, Backed, PeakCovers
<1> QED BY <1>1, <1>2, <1>4, <1>7, <1>8, PoolInvPartsPrimed

\* Steps that leave the region and the occupied regions alone.
LEMMA OtherEffect ==
    ASSUME PoolInv, [Next]_vars, UNCHANGED <<hpbr, anon_mmap_max_size>>, occ' = occ,
           alive' \in BOOLEAN
    PROVE  PoolInv'
<1>1. /\ Safe /\ RegionOK /\ Backed /\ PeakCovers
      /\ anon_mmap_max_size \in 0 .. PoolSize /\ alive \in BOOLEAN
    BY PoolInvParts
<1>2. Safe'
    BY <1>1, NextSafe
<1>3. RegionOK' /\ size' = size
    BY <1>1, RegionUnchanged
<1>4. Backed' /\ PeakCovers'
    BY <1>1, <1>3 DEF Backed, PeakCovers
<1> QED BY <1>1, <1>2, <1>3, <1>4, PoolInvPartsPrimed

\* One step of the pool keeps the invariant and every stored byte of a range
\* that is still in use after it.
LEMMA PoolStep ==
    ASSUME PoolInv, [PoolNext]_pool_vars
    PROVE  /\ PoolInv'
           /\ \A a \in Pool :
                 (data[a - Start] = "data" /\ data'[a - Start] # "data")
                     => \A r \in occ' : ~ (r.start <= a /\ a < r.end)
<1>1. /\ \A o \in HPBR!Offsets : data[o] = "data" => o < size
      /\ \A a \in Pool : a - Start \in HPBR!Offsets
    <2>1. \A o \in HPBR!Offsets : o \in Int /\ size \in Int
        BY PoolInvParts, PoolSizeNat DEF RegionOK
    <2>2. \A o \in HPBR!Offsets : data[o] = "none" <=> o >= size
        BY PoolInvParts DEF RegionOK
    <2>3. \A a \in Pool : a - Start \in HPBR!Offsets
        BY PoolAssumption DEF Pool, PoolSize, HPBR!Offsets
    <2> QED BY <2>1, <2>2, <2>3
<1>2. ASSUME NEW n \in Sizes, AllocateFromAnonymousMmapRegion(n)
      PROVE  PoolInv' /\ \A o \in HPBR!Offsets : data[o] = "data" => data'[o] = "data"
    BY <1>1, <1>2, AllocateEffect
<1>3. ASSUME NEW r \in occ, NEW n \in Sizes, DeallocateFromAnonymousMmapRegion(r, n)
      PROVE  /\ PoolInv'
             /\ \A a \in Pool :
                    (data[a - Start] = "data" /\ data'[a - Start] # "data")
                        => \A q \in occ' : ~ (q.start <= a /\ a < q.end)
    <2>1. /\ PoolInv'
          /\ \A o \in HPBR!Offsets : o < size /\ o < size' => data'[o] = data[o]
        BY <1>3, FreeEffect
    <2>2. ASSUME NEW a \in Pool, data[a - Start] = "data", NEW q \in occ', a < q.end
          PROVE  data'[a - Start] = "data"
        <3>1. q.end - Start <= size' /\ q.end \in Nat /\ size' \in Int
            BY <2>1, PoolInvPartsPrimed DEF Backed, Safe, TypeOK, Regions, RegionOK
        <3>2. a - Start < size'
            BY <2>2, <3>1, PoolAssumption DEF Pool
        <3> QED BY <1>1, <2>1, <2>2, <3>2
    <2> QED BY <2>1, <2>2
<1>4. ASSUME NEW n \in Sizes, AllocateFromExhaustedRegion(n)
      PROVE  PoolInv' /\ data' = data
    <2>1. /\ AllocateNull(n) /\ occ' = occ /\ alive' = FALSE
          /\ UNCHANGED <<hpbr, anon_mmap_max_size>>
        BY <1>4 DEF AllocateFromExhaustedRegion, AllocateNull
    <2>2. Next
        BY <2>1 DEF Next, Allocate
    <2> QED BY <2>1, <2>2, OtherEffect DEF hpbr
<1>5. ASSUME NEW a \in Pool, NEW n \in Sizes, DeallocateRefused(a, n)
      PROVE  PoolInv' /\ data' = data
    <2>1. /\ FreeRefused(a, n) /\ occ' = occ /\ alive' = alive
          /\ UNCHANGED <<hpbr, anon_mmap_max_size>>
        BY <1>5 DEF DeallocateRefused, FreeRefused
    <2>2. Next
        BY <2>1 DEF Next
    <2> QED BY <2>1, <2>2, OtherEffect, PoolInvParts DEF hpbr
<1>6. ASSUME NEW a \in Pool, Write(a)
      PROVE  PoolInv' /\ \A o \in HPBR!Offsets : data[o] = "data" => data'[o] = "data"
    BY <1>6, WriteEffect
<1>7. CASE UNCHANGED pool_vars
    <2>1. PoolInv' /\ data' = data
        BY <1>7, OtherEffect, PoolInvParts DEF pool_vars, vars, hpbr
    <2> QED BY <2>1
<1> QED BY <1>1, <1>2, <1>3, <1>4, <1>5, <1>6, <1>7 DEF PoolNext

LEMMA PoolSafety == PoolSpec => []PoolInv
<1>1. PoolInv /\ [PoolNext]_pool_vars => PoolInv'
    BY PoolStep
<1> QED BY PoolInitSafe, <1>1, PTL DEF PoolSpec

\* The allocator and the region keep their types, and the region's size, its
\* page boundaries and what is mapped agree, in every pool.
THEOREM PoolTypeCorrect == PoolSpec => []PoolTypeOK
<1>1. PoolInv => PoolTypeOK
    BY DEF PoolInv
<1> QED BY PoolSafety, <1>1, PTL

\* Every range the program holds has memory behind it, at all times, whatever
\* the trims and extensions (MemoryAllocator.cc:171-192, 215-229).
THEOREM AlwaysBacked == PoolSpec => []Backed
<1>1. PoolInv => Backed
    BY DEF PoolInv
<1> QED BY PoolSafety, <1>1, PTL

\* The reported peak covers every size the region has had.
THEOREM PeakAlwaysCovers == PoolSpec => []PeakCovers
<1>1. PoolInv => PeakCovers
    BY DEF PoolInv
<1> QED BY PoolSafety, <1>1, PTL

\* No call destroys what the program stored in a range that it still holds
\* after the call.
THEOREM StoredDataIsKept == PoolSpec => StoredDataKept
<1> DEFINE Kept == \A a \in Pool :
                      (data[a - Start] = "data" /\ data'[a - Start] # "data")
                          => \A r \in occ' : ~ (r.start <= a /\ a < r.end)
<1>1. PoolInv /\ [PoolNext]_pool_vars => [Kept]_pool_vars
    BY PoolStep
<1> QED BY PoolSafety, <1>1, PTL DEF PoolSpec, StoredDataKept

-------------------------------------------------------------------------------
(* The slack above the highest address in use.                             *)

\* A trim is skipped only by a free that fails, which WithinTable excludes for
\* a program that frees what it was given.
SlackInv == PoolInv /\ WithinTable /\ SlackBounded

\* The end of what is in use, as an offset.
Top(O) == GetTopAddress(O) - Start

LEMMA SlackFacts ==
    SlackBounded <=> (client = "whole" =>
        size - Top(occ) <= RESIZE_THRESHOLD \/ size = ends[Top(occ)])
BY DEF SlackBounded, Top

LEMMA TopOffset ==
    ASSUME NEW O \in SUBSET Regions
    PROVE  /\ Top(O) \in 0 .. PoolSize
           /\ \A r \in O : r.end - Start <= Top(O)
           /\ Top(O) = 0 \/ \E r \in O : Top(O) = r.end - Start
<1>1. /\ GetTopAddress(O) \in {Start} \cup {r.end : r \in O}
      /\ GetTopAddress(O) \in Start .. End
      /\ \A r \in O : r.end <= GetTopAddress(O)
    BY TopFacts
<1>2. \A r \in O : r.end \in Nat
    BY DEF Regions
<1>3. Start \in Nat /\ End \in Nat
    BY PoolAssumption
<1>4. GetTopAddress(O) - Start \in 0 .. PoolSize
    BY <1>1, <1>3 DEF PoolSize
<1>5. \A r \in O : r.end - Start <= GetTopAddress(O) - Start
    BY <1>1, <1>2, <1>3
<1>6. GetTopAddress(O) - Start = 0 \/ \E r \in O : GetTopAddress(O) - Start = r.end - Start
    <2>1. CASE GetTopAddress(O) = Start
        BY <1>3, <2>1
    <2>2. CASE \E r \in O : GetTopAddress(O) = r.end
        BY <2>2
    <2> QED BY <1>1, <2>1, <2>2
<1> QED BY <1>4, <1>5, <1>6 DEF Top

LEMMA InitSlack == PoolInit => SlackInv
<1> SUFFICES ASSUME PoolInit PROVE SlackInv
    OBVIOUS
<1>1. PoolInv
    BY PoolInitSafe
<1>2. WithinTable
    BY InitTable DEF PoolInit, TableInv
<1>3. size = 0 /\ occ = {}
    BY DEF PoolInit, Init
<1>4. Top(occ) = 0
    BY <1>3, TopOffset
<1>5. SlackBounded
    BY <1>3, <1>4, ThresholdAssumption, SlackFacts
<1> QED BY <1>1, <1>2, <1>5 DEF SlackInv

\* An allocation moves the top up: either the region is extended to the page of
\* the new top, or the slack shrinks.
LEMMA AllocateSlack ==
    ASSUME SlackInv, NEW n \in Sizes, AllocateFromAnonymousMmapRegion(n)
    PROVE  SlackBounded'
<1> DEFINE top == call'.ret + n - Start
<1>1. /\ Safe /\ RegionOK /\ Backed /\ PoolInv /\ SlackBounded
      /\ occ \in SUBSET Regions /\ Start \in Nat
    BY PoolInvParts, PoolAssumption DEF SlackInv, Safe, TypeOK
<1>2. /\ call'.ret \in Nat /\ n \in Nat /\ Start <= call'.ret /\ call'.ret + n <= End
      /\ occ' = occ \cup {Region(call'.ret, n)}
    BY <1>1, AllocatedRange DEF AllocateFromAnonymousMmapRegion
<1>3. top \in 0 .. PoolSize /\ Region(call'.ret, n).end - Start = top
    BY <1>2, PoolAssumption DEF PoolSize, Region
<1>4. ExtendTo(top, n) /\ client' = client
    BY DEF AllocateFromAnonymousMmapRegion, AllocateExact, AllocateSplit
<1>5. occ' \in SUBSET Regions
    BY <1>1, AllocateEffect DEF PoolInv, Safe, TypeOK, Regions
<1> HIDE DEF top
<1>6. /\ Top(occ) \in 0 .. PoolSize /\ Top(occ') \in 0 .. PoolSize
      /\ Top(occ) <= Top(occ') /\ top <= Top(occ')
      /\ Top(occ') = top \/ Top(occ') <= size
    <2>1. Top(occ) \in 0 .. PoolSize /\ Top(occ') \in 0 .. PoolSize
        BY <1>1, <1>5, TopOffset
    <2>2. top <= Top(occ')
        BY <1>2, <1>3, <1>5, TopOffset
    <2>3. Top(occ) <= Top(occ')
        <3>1. CASE Top(occ) = 0
            BY <2>1, <3>1
        <3>2. CASE \E r \in occ : Top(occ) = r.end - Start
            BY <1>2, <1>5, <3>2, TopOffset
        <3> QED BY <1>1, <3>1, <3>2, TopOffset
    <2>4. Top(occ') = top \/ Top(occ') <= size
        <3>1. CASE Top(occ') = 0
            BY <1>1, <3>1 DEF RegionOK
        <3>2. CASE \E r \in occ' : Top(occ') = r.end - Start
            BY <1>1, <1>2, <1>3, <3>2 DEF Backed
        <3> QED BY <1>5, <3>1, <3>2, TopOffset
    <2> QED BY <2>1, <2>2, <2>3, <2>4
<1>7. size \in 0 .. PoolSize /\ ends \in Layouts /\ ends[size] = size
    BY <1>1 DEF RegionOK
<1>8. CASE top > size
    <2>1. HPBR!Resize(top)
        BY <1>4, <1>8 DEF ExtendTo
    <2>2. size' = ends[top] /\ ends' = ends
        BY <1>1, <1>3, <2>1, ResizeFacts
    <2>3. Top(occ') = top
        BY <1>3, <1>6, <1>7, <1>8
    <2> QED BY <2>2, <2>3 DEF SlackBounded, Top
<1>9. CASE ~(top > size)
    <2>1. size' = size /\ ends' = ends
        BY <1>4, <1>9 DEF ExtendTo, hpbr
    <2>2. SUFFICES ASSUME client = "whole"
                   PROVE  size - Top(occ') <= RESIZE_THRESHOLD \/ size = ends[Top(occ')]
        BY <1>4, <2>1 DEF SlackBounded, Top
    <2>3. CASE size - Top(occ) <= RESIZE_THRESHOLD
        BY <1>6, <1>7, <2>3, ThresholdAssumption
    <2>4. CASE size = ends[Top(occ)]
        <3>1. Top(occ') <= size
            BY <1>3, <1>6, <1>7, <1>9
        <3>2. ends[Top(occ)] <= ends[Top(occ')] /\ ends[Top(occ')] <= ends[size]
            BY <1>6, <1>7, <3>1, LayoutMonotone
        <3>3. ends[Top(occ')] \in 0 .. PoolSize
            BY <1>6, <1>7, LayoutFacts
        <3> QED BY <1>7, <2>4, <3>2, <3>3
    <2> QED BY <1>1, <2>2, <2>3, <2>4, SlackFacts
<1> QED BY <1>8, <1>9

\* A whole free succeeds, so that the trim is tried.
LEMMA FreeSlack ==
    ASSUME SlackInv, NEW r \in occ, NEW n \in Sizes, DeallocateFromAnonymousMmapRegion(r, n)
    PROVE  SlackBounded'
<1>1. /\ Safe /\ WithinTable /\ RegionOK /\ PoolInv
    BY PoolInvParts DEF SlackInv
<1>2. FreeRegion(r, n) /\ client' = client /\ (client = "whole" => n = Size(r))
    BY DEF DeallocateFromAnonymousMmapRegion, FreeRegion
<1>3. SUFFICES ASSUME client = "whole"
               PROVE  size' - Top(occ') <= RESIZE_THRESHOLD \/ size' = ends'[Top(occ')]
    BY <1>2 DEF SlackBounded, Top
<1>4. call'.ret = 0
    BY <1>1, <1>2, <1>3, FreeRegionTotal
<1>5. TrimTo(Top(occ'))
    BY <1>4 DEF DeallocateFromAnonymousMmapRegion, Top
<1>6. Top(occ') \in 0 .. PoolSize
    <2>1. occ' \in SUBSET Regions
        BY <1>1, <1>2, FreeRegionSafe DEF Safe, TypeOK, Regions
    <2> QED BY <2>1, TopOffset
<1>7. CASE size - Top(occ') > RESIZE_THRESHOLD
    <2>1. HPBR!Resize(Top(occ'))
        BY <1>5, <1>7 DEF TrimTo
    <2> QED BY <1>1, <1>6, <2>1, ResizeFacts
<1>8. CASE ~(size - Top(occ') > RESIZE_THRESHOLD)
    <2>1. size' = size
        BY <1>5, <1>8 DEF TrimTo, hpbr
    <2>2. size \in Int /\ Top(occ') \in Int /\ RESIZE_THRESHOLD \in Int
        BY <1>1, <1>6, ThresholdAssumption DEF RegionOK
    <2> QED BY <1>8, <2>1, <2>2
<1> QED BY <1>7, <1>8

LEMMA StepSlack ==
    ASSUME SlackInv, [PoolNext]_pool_vars
    PROVE  SlackInv'
<1>1. PoolInv'
    BY PoolStep DEF SlackInv
<1>2. WithinTable'
    <2>1. [Next]_vars
        BY DEF PoolNext, Next, Allocate, AllocateFromAnonymousMmapRegion,
               AllocateFromExhaustedRegion, DeallocateFromAnonymousMmapRegion,
               DeallocateRefused, Write, pool_vars
    <2> QED BY <2>1, StepTotal, PoolInvParts DEF SlackInv
<1>3. ASSUME UNCHANGED <<hpbr, occ, client>>
      PROVE  SlackBounded'
    BY <1>3 DEF SlackInv, SlackBounded, hpbr
<1>4. ASSUME NEW n \in Sizes, AllocateFromExhaustedRegion(n)
      PROVE  UNCHANGED <<hpbr, occ, client>>
    BY <1>4 DEF AllocateFromExhaustedRegion, AllocateNull
<1>5. ASSUME NEW a \in Pool, NEW n \in Sizes, DeallocateRefused(a, n)
      PROVE  UNCHANGED <<hpbr, occ, client>>
    BY <1>5 DEF DeallocateRefused, FreeRefused
<1>6. ASSUME NEW a \in Pool, Write(a)
      PROVE  SlackBounded'
    BY <1>6 DEF Write, HPBR!Write, vars, SlackInv, SlackBounded
<1>7. ASSUME UNCHANGED pool_vars PROVE SlackBounded'
    BY <1>3, <1>7 DEF pool_vars, vars
<1>8. SlackBounded'
    BY <1>3, <1>4, <1>5, <1>6, <1>7, AllocateSlack, FreeSlack DEF PoolNext
<1> QED BY <1>1, <1>2, <1>8 DEF SlackInv

\* For a program that unmaps what it mapped, the memory kept above the highest
\* address in use is bounded by the threshold, or by a page, for every layout
\* (MemoryAllocator.cc:215-229).
THEOREM SlackAlwaysBounded == PoolSpec => []SlackBounded
<1>1. SlackInv /\ [PoolNext]_pool_vars => SlackInv'
    BY StepSlack
<1>2. SlackInv => SlackBounded
    BY DEF SlackInv
<1> QED BY InitSlack, <1>1, <1>2, PTL DEF PoolSpec
===============================================================================
