---------------------------------- MODULE Pools ----------------------------------
(***************************************************************************)
(* The three pools in one address space: how MemoryAllocator::InitRegions  *)
(* finds their bases and the bounds of the two allocators, and to which    *)
(* pool the hooks take a request (hooks.cc:145-183).  The file-backed pool *)
(* is here in full.  Pages are of one address, and the allocators are      *)
(* taken with their free regions merged, so that they give the lowest gap; *)
(* MmapPool has the anonymous pool's other detail.                         *)
(***************************************************************************)
EXTENDS Integers, FiniteSets

CONSTANTS
    Top,               \* addresses are 1 .. Top
    HeapBase,          \* _brk_region_base, the system's break rounded up
    AnonSize, BrkSize, \* sizes of two pools
    FileSizes,         \* the size of the file pool is one of these; 0: no pool
    Lengths,           \* lengths passed to mmap
    RESIZE_THRESHOLD,
    MaxOthers,         \* bound: mappings the rest of the process has at a time
    MaxRanges,         \* bound: ranges in the lists of the two allocators
    MaxHints           \* bound: addresses that the program gives as hints

ASSUME AddressesAssumption ==
    /\ {Top, AnonSize, BrkSize, RESIZE_THRESHOLD, MaxOthers, MaxRanges, MaxHints} \subseteq Nat
    /\ HeapBase \in 1 .. Top - BrkSize
ASSUME SizesAssumption == FileSizes \subseteq Nat /\ Lengths \subseteq Nat \ {0}

NULL == 0
Addresses == 1 .. Top
Heap == HeapBase .. HeapBase + BrkSize - 1
Span(a, n) == a .. a + n - 1

VARIABLES
    pc,           \* where InitRegions is, "running" after it, "exited"
    file_size,    \* size of the file pool in the configuration
    anon_base, file_base,   \* GetRegionBase of the two mmap pools
    anon_ffa, file_ffa,     \* [start, end) of the two allocators
    anon_size, brk_size,    \* current sizes of the two regions
    space,        \* the kernel: whose mapping is at each address, "free" if none
    live,         \* the occupied lists of the two allocators, with their pool
    has,          \* the ranges the program has: "anon", "file", "hint"
    hinted        \* the addresses it has ever given as hints

pools == <<file_size, anon_base, file_base, anon_ffa, file_ffa>>
program == <<has, hinted>>
vars == <<pc, pools, anon_size, brk_size, space, live, program>>

Held(p) == {l \in live : l.pool = p}
Ours(S, who) == [a \in Addresses |-> IF a \in S THEN who ELSE space[a]]

Init ==
    /\ pc = "anon"
    /\ file_size \in FileSizes
    /\ anon_base = NULL /\ file_base = NULL
    /\ anon_ffa = [start |-> NULL, end |-> NULL] /\ file_ffa = anon_ffa
    /\ anon_size = 0 /\ brk_size = 0
    /\ space = [a \in Addresses |-> "free"]
    /\ live = {} /\ has = {} /\ hinted = {}

-------------------------------------------------------------------------------
(* InitRegions.  The kernel puts a mapping without a hint at any free      *)
(* place, but keeps clear of the room above the break.                     *)
Places(n) == {a \in Addresses : Span(a, n) \subseteq {b \in Addresses \ Heap : space[b] = "free"}}

\* Mutant: the region is shrunk at once, before the others are initialized.
MutantInitAnonPool ==
    /\ pc = "anon"
    /\ \E base \in Places(AnonSize) :
          /\ anon_base' = base
          /\ anon_ffa' = [start |-> base, end |-> base + AnonSize]
    /\ pc' = "file"
    /\ UNCHANGED <<space, file_size, file_base, file_ffa, anon_size, brk_size, live, program>>

InitAnonPool ==
    /\ pc = "anon"
    /\ \E base \in Places(AnonSize) :
          /\ anon_base' = base
          /\ anon_ffa' = [start |-> base, end |-> base + AnonSize]
          /\ space' = Ours(Span(base, AnonSize), "anon")
    /\ pc' = "file"
    /\ UNCHANGED <<file_size, file_base, file_ffa, anon_size, brk_size, live, program>>

\* The end of the file allocator's range is computed from the base of the
\* anonymous pool (line 74).  A pool of size 0 has the base NULL.
InitFilePool ==
    /\ pc = "file"
    /\ \E base \in IF file_size = 0 THEN {NULL} ELSE Places(file_size) :
          /\ file_base' = base
          /\ file_ffa' = [start |-> base, end |-> anon_base + file_size]
          /\ space' = Ours(Span(base, file_size), "file")
    /\ pc' = "brk"
    /\ UNCHANGED <<file_size, anon_base, anon_ffa, anon_size, brk_size, live, program>>

\* The brk pool goes to its base with MAP_FIXED; then all three are shrunk to
\* nothing: their addresses are known, and free again.
InitBrkPool ==
    /\ pc = "brk"
    /\ space' = [a \in Addresses |-> "free"]
    /\ pc' = "running"
    /\ UNCHANGED <<pools, anon_size, brk_size, live, program>>

-------------------------------------------------------------------------------
(* The running program.                                                    *)

\* The lowest gap of n addresses in an allocator's range, NULL if there is
\* none.  If the range ends before it starts, its size wraps around and the
\* end is never reached.
Allocate(ffa, held, n) ==
    LET fits == {a \in {ffa.start} \cup {l.end : l \in held} :
                    /\ ffa.end < ffa.start \/ a + n <= ffa.end
                    /\ \A l \in held : a + n <= l.start \/ l.end <= a}
    IN IF fits = {} THEN NULL ELSE CHOOSE a \in fits : \A b \in fits : a <= b

Range(p, a, n) == [pool |-> p, start |-> a, end |-> a + n]
Got(k, a, n) == [kind |-> k, start |-> a, end |-> a + n]
Exhausted == pc' = "exited" /\ UNCHANGED <<anon_size, space, live, has>>

\* mmap of anonymous memory; the region is extended with MAP_FIXED.
MmapAnon(n) ==
    LET a == Allocate(anon_ffa, Held("anon"), n)
        need == a + n - anon_base
    IN /\ pc = "running" /\ Cardinality(live) < MaxRanges
       /\ \/ a = NULL /\ Exhausted
          \/ /\ a # NULL
             /\ live' = live \cup {Range("anon", a, n)}
             /\ has' = has \cup {Got("anon", a, n)}
             /\ anon_size' = IF need > anon_size THEN need ELSE anon_size
             /\ space' = Ours(Span(anon_base + anon_size, anon_size' - anon_size), "anon")
             /\ UNCHANGED pc
       /\ UNCHANGED <<pools, brk_size, hinted>>

\* mmap of a file, without an address: MAP_FIXED at what the allocator gives.
\* If the kernel refuses, the allocator is not told.
MmapFile(n) ==
    LET a == Allocate(file_ffa, Held("file"), n)
    IN /\ pc = "running" /\ a + n <= Top + 1 /\ Cardinality(live) < MaxRanges
       /\ \/ a = NULL /\ Exhausted
          \/ /\ a # NULL
             /\ live' = live \cup {Range("file", a, n)}
             /\ \/ has' = has \cup {Got("file", a, n)} /\ space' = Ours(Span(a, n), "file")
                \/ UNCHANGED <<has, space>>
             /\ UNCHANGED <<pc, anon_size>>
       /\ UNCHANGED <<pools, brk_size, hinted>>

\* mmap of a file with an address, where the program has nothing: MAP_FIXED
\* there, and the allocator is not asked.
MmapFileAt(a, n) ==
    /\ pc = "running"
    /\ Cardinality(hinted) + n <= MaxHints
    /\ Span(a, n) \subseteq {b \in Addresses : space[b] = "free"}
    /\ space' = Ours(Span(a, n), "file")
    /\ has' = has \cup {Got("hint", a, n)} /\ hinted' = hinted \cup Span(a, n)
    /\ UNCHANGED <<pc, pools, anon_size, brk_size, live>>

\* FirstFitAllocator::Contains, and the order in which
\* DeallocateFromMmapRegion asks the two allocators.
Contains(ffa, a) == ffa.start <= a /\ a < ffa.end
MutantRoute(a) ==
    IF Contains(file_ffa, a) THEN "file" ELSE IF Contains(anon_ffa, a) THEN "anon" ELSE "none"
Route(a) ==
    IF Contains(anon_ffa, a) THEN "anon" ELSE IF Contains(file_ffa, a) THEN "file" ELSE "none"

\* Mutant: the end of the first region of the list.
MutantTopAddress(occupied) ==
    CHOOSE t \in occupied : \A u \in occupied : t <= u

\* FirstFitAllocator::GetTopAddress, given the ends of the occupied regions.
TopAddress(occupied) ==
    CHOOSE t \in occupied : \A u \in occupied : u <= t

\* munmap of exactly a range that mmap gave.  The pool it is taken to frees
\* as much from the start of the region it has there; if it has none, or there
\* is no such pool, munmap fails and changes nothing.  The file-backed region
\* has the size 0 since InitRegions, so that there is nothing to trim.
Munmap(h) ==
    \E m \in Held(Route(h.start)) :
       LET n == h.end - h.start
           rest == (live \ {m}) \cup
                   (IF m.end - m.start = n THEN {} ELSE {[m EXCEPT !.start = @ + n]})
           ends == {k.end : k \in {k \in rest : k.pool = "anon"}}
           top == IF ends = {} THEN 0 ELSE TopAddress(ends) - anon_base
       IN
       /\ pc = "running"
       /\ m.start <= h.start /\ h.start < m.end /\ n <= m.end - m.start
       /\ live' = rest
       /\ has' = has \ {h}
       /\ \/ /\ m.pool = "anon"
             /\ anon_size' = IF anon_size - top > RESIZE_THRESHOLD THEN top ELSE anon_size
             /\ space' = Ours(Span(anon_base + anon_size', anon_size - anon_size'), "free")
          \/ /\ m.pool = "file"
             /\ space' = Ours(Span(h.start, n), "free")
             /\ UNCHANGED anon_size
       /\ UNCHANGED <<pc, pools, brk_size, hinted>>

\* sbrk or brk: ChangeProgramBreak.
Brk(n) ==
    /\ pc = "running"
    /\ brk_size' = n
    /\ space' = [a \in Addresses |->
                    IF a \in Heap /\ a - HeapBase >= brk_size /\ a - HeapBase < n THEN "brk"
                    ELSE IF a \in Heap /\ a - HeapBase >= n /\ a - HeapBase < brk_size
                    THEN "free" ELSE space[a]]
    /\ UNCHANGED <<pc, pools, anon_size, live, program>>

\* A mapping made without the hooks, as glibc does for the stack of a new
\* thread: the kernel puts it at any free place.
Other ==
    /\ pc = "running"
    /\ Cardinality({a \in Addresses : space[a] = "other"}) < MaxOthers
    /\ \E a \in Places(1) : space' = Ours({a}, "other")
    /\ UNCHANGED <<pc, pools, anon_size, brk_size, live, program>>

Next ==
    \/ InitAnonPool \/ InitFilePool \/ InitBrkPool
    \/ \E n \in Lengths : MmapAnon(n) \/ MmapFile(n) \/ \E a \in Addresses : MmapFileAt(a, n)
    \/ \E h \in has : Munmap(h)
    \/ \E n \in 0 .. BrkSize : Brk(n)
    \/ Other

Spec == Init /\ [][Next]_vars

-------------------------------------------------------------------------------
(* Properties.                                                             *)

\* Type correctness; a region is never larger than its pool.
TypeOK ==
    /\ pc \in {"anon", "file", "brk", "running", "exited"}
    /\ anon_size \in 0 .. AnonSize /\ brk_size \in 0 .. BrkSize
    /\ space \in [Addresses -> {"free", "anon", "file", "brk", "other"}]
    /\ \A l \in live : l.pool \in {"anon", "file"} /\ l.start \in Addresses
    /\ \A h \in has : h.kind \in {"anon", "file", "hint"} /\ h.start \in Addresses
    /\ hinted \subseteq Addresses

\* The ranges that InitRegions picked for the three pools do not overlap,
\* although they are unmapped again by the time they are used (README.md:43).
RegionsApart ==
    pc = "running" =>
        /\ Span(anon_base, AnonSize) \cap Span(file_base, file_size) = {}
        /\ Heap \cap (Span(anon_base, AnonSize) \cup Span(file_base, file_size)) = {}

\* munmap takes an anonymous range to the pool it came from, wherever the
\* kernel put the pools, although the file allocator may claim it as well.
AnonRoutedHome == \A h \in has : h.kind = "anon" => Route(h.start) = "anon"

\* The file allocator's range keeps off the other two pools, and no hint went
\* into any pool.
FileRange == file_ffa.start .. IF file_ffa.end < file_ffa.start THEN Top ELSE file_ffa.end - 1
Apart ==
    LET anon == Span(anon_base, AnonSize)
    IN FileRange \cap (anon \cup Heap) = {} /\ hinted \cap (FileRange \cup anon \cup Heap) = {}

\* Whatever the program has is mapped, in the allocator's list if it came from
\* there, and nothing of it is unmapped or replaced by what the program, the
\* kernel or the other pools do; also after the kernel refused a mapping, and
\* for mappings at an address that the program gave
\* (MemoryAllocator.cc:171-247).
HeldIsMapped ==
    pc = "running" /\ Apart =>
        \A h \in has :
           /\ \A a \in h.start .. h.end - 1 : space[a] = IF h.kind = "anon" THEN "anon" ELSE "file"
           /\ h.kind # "hint" => Range(h.kind, h.start, h.end - h.start) \in live

\* "... to ensure no addresses collisions occur when these pools are extended"
\* (README.md:43): no two ranges the program holds overlap.
NoCollisionOfPools ==
    \A h, k \in has : h # k => h.end <= k.start \/ k.end <= h.start
===============================================================================
