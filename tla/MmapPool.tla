-------------------------------- MODULE MmapPool --------------------------------
(***************************************************************************)
(* The anonymous mmap pool of MemoryAllocator.cc: a FirstFitAllocator      *)
(* hands out addresses and a HugePageBackedRegion keeps memory behind      *)
(* them, as far as the highest address in use.  The hooks mmap and munmap  *)
(* hold g_hook_mmap_mutex for the whole call (hooks.cc:152, 168), so an    *)
(* action is one call.  The two parts are the specifications FirstFit and  *)
(* ResizableRegion, which the detailed modules implement; this module      *)
(* composes them, and its names begin with Pool where they have the same.  *)
(***************************************************************************)
EXTENDS FirstFit

CONSTANTS
    Layouts,           \* where the pages of the pool may end (see ResizableRegion)
    RESIZE_THRESHOLD   \* slack that is kept above the highest address in use

PoolSize == End - Start

\* FirstFit's variables are _mmap_anon_ffa.
VARIABLES
    max, ends, size, data,     \* _mmap_anon_hpbr
    anon_mmap_max_size,        \* _anon_mmap_max_size
    alive                      \* FALSE once THROW_EXCEPTION has ended the process

HPBR == INSTANCE ResizableRegion WITH Limit <- PoolSize

hpbr == <<max, ends, size, data>>
pool_vars == <<vars, hpbr, anon_mmap_max_size, alive>>

ASSUME LayoutsAssumption == Layouts \subseteq HPBR!PageEnds(PoolSize)
ASSUME ThresholdAssumption == RESIZE_THRESHOLD \in Nat

\* InitRegions: both parts are initialized for the whole pool and the region
\* is then shrunk to nothing; its addresses are known by then.
PoolInit ==
    /\ Init
    /\ max = PoolSize /\ ends \in Layouts
    /\ size = 0 /\ data = [o \in HPBR!Offsets |-> "none"]
    /\ anon_mmap_max_size = 0
    /\ alive = TRUE

-------------------------------------------------------------------------------
(* AllocateFromAnonymousMmapRegion(length).                                *)

\* Mutant: the region is asked for the length, not for the end of the range.
MutantExtendTo(top, length) ==
    IF top > size THEN HPBR!Resize(length) ELSE UNCHANGED hpbr

\* The region is extended when the range ends beyond it.
ExtendTo(top, length) ==
    IF top > size THEN HPBR!Resize(top) ELSE UNCHANGED hpbr

\* Mutant: the peak is taken before the region is extended.
MutantRecordPeak ==
    anon_mmap_max_size' = IF anon_mmap_max_size < size THEN size ELSE anon_mmap_max_size

RecordPeak ==
    anon_mmap_max_size' = IF anon_mmap_max_size < size' THEN size' ELSE anon_mmap_max_size

AllocateFromAnonymousMmapRegion(length) ==
    /\ AllocateExact(length) \/ AllocateSplit(length)
    /\ ExtendTo(call'.ret + length - Start, length)
    /\ RecordPeak
    /\ UNCHANGED alive

\* "Anonymous mmap pool is out of memory": the process ends.
AllocateFromExhaustedRegion(length) ==
    /\ AllocateNull(length)
    /\ alive' = FALSE
    /\ UNCHANGED <<hpbr, anon_mmap_max_size>>

-------------------------------------------------------------------------------
(* DeallocateFromAnonymousMmapRegion(addr, length).                        *)

\* Mutant: the top is taken from the lowest occupied region.
MutantGetTopAddress(O) ==
    CHOOSE t \in {Start} \cup {r.end : r \in O} :
        IF O = {} THEN t = Start ELSE \A r \in O : t <= r.end

\* FirstFitAllocator::GetTopAddress: the end of the last occupied region.
GetTopAddress(O) ==
    CHOOSE t \in {Start} \cup {r.end : r \in O} : \A r \in O : r.end <= t

\* Mutant: the threshold is compared with what is in use.
MutantTrimSlack(top) ==
    IF top < size /\ top > RESIZE_THRESHOLD THEN HPBR!Resize(top) ELSE UNCHANGED hpbr

\* The region is cut back to the top when it exceeds it by the threshold.
TrimTo(top) ==
    IF size - top > RESIZE_THRESHOLD THEN HPBR!Resize(top) ELSE UNCHANGED hpbr

DeallocateFromAnonymousMmapRegion(r, length) ==
    /\ FreeRegion(r, length)
    /\ IF call'.ret = 0 THEN TrimTo(GetTopAddress(occ') - Start) ELSE UNCHANGED hpbr
    /\ UNCHANGED <<anon_mmap_max_size, alive>>

\* munmap of an address that is in no occupied region, or of too much.
DeallocateRefused(addr, length) ==
    /\ FreeRefused(addr, length)
    /\ UNCHANGED <<hpbr, anon_mmap_max_size, alive>>

\* The program stores to an address it was given.
Write(addr) ==
    /\ \E r \in occ : r.start <= addr /\ addr < r.end
    /\ HPBR!Write(addr - Start)
    /\ UNCHANGED <<vars, anon_mmap_max_size, alive>>

PoolNext ==
    /\ alive
    /\ \/ \E length \in Sizes :
              \/ AllocateFromAnonymousMmapRegion(length)
              \/ AllocateFromExhaustedRegion(length)
       \/ \E r \in occ, length \in Sizes : DeallocateFromAnonymousMmapRegion(r, length)
       \/ \E addr \in Pool, length \in Sizes : DeallocateRefused(addr, length)
       \/ \E addr \in Pool : Write(addr)

PoolSpec == PoolInit /\ [][PoolNext]_pool_vars

-------------------------------------------------------------------------------
(* Properties.                                                             *)

\* Type correctness; the region ends on a page boundary, and has memory up
\* to there and none beyond.
PoolTypeOK ==
    /\ TypeOK
    /\ max = PoolSize /\ ends \in Layouts
    /\ size \in 0 .. PoolSize /\ ends[size] = size
    /\ data \in [HPBR!Offsets -> {"none", "zero", "data"}]
    /\ \A o \in HPBR!Offsets : data[o] = "none" <=> o >= size
    /\ anon_mmap_max_size \in 0 .. PoolSize
    /\ alive \in BOOLEAN

\* Every address the program was given, and has not unmapped, has memory
\* behind it, whatever was trimmed or extended since (MemoryAllocator.cc:171-229).
Backed == \A r \in occ : r.end - Start <= size

\* What the program has stored is lost only by unmapping it: no trim of the
\* region, and no remapping of a part of it, touches a range still in use.
StoredDataKept ==
    [][\A a \in Pool :
          (data[a - Start] = "data" /\ data'[a - Start] # "data")
              => \A r \in occ' : ~ (r.start <= a /\ a < r.end)]_pool_vars

\* For a program that unmaps what it mapped, memory above the highest address
\* in use never exceeds the threshold, or ends with the page of that address
\* (RESIZE_THRESHOLD, MemoryAllocator.cc:220-225).  A free that fails skips
\* the trim, which is why every free of such a program must succeed.
SlackBounded ==
    client = "whole" =>
        LET top == GetTopAddress(occ) - Start
        IN size - top <= RESIZE_THRESHOLD \/ size = ends[top]

\* The peak that AnalyzeRegions reports, from which users size their pools,
\* covers every size the region has had.
PeakCovers == size <= anon_mmap_max_size
===============================================================================
