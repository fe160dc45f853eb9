------------------------------- MODULE FirstFit -------------------------------
(***************************************************************************)
(* The first-fit allocator of a Mosalloc pool (FirstFitAllocator.cc), seen *)
(* as the sets of regions its two lists hold.  FirstFitAllocator.tla is    *)
(* the same code at the level of the node table and refines this module.   *)
(*                                                                         *)
(* Every public method takes _ffa_mutex for its whole body, so one action  *)
(* is one call.  The node table has TableLen entries: every region, free   *)
(* or occupied, owns one.                                                  *)
(***************************************************************************)
EXTENDS Integers, FiniteSets

CONSTANTS
    Start,    \* _start, first address of the pool
    End,      \* _end, first address past the pool
    TableLen, \* _len, the number of entries of the node table
    Sizes,    \* the sizes the callers pass to Allocate and Free
    Clients   \* how the callers free: a subset of ClientKinds

ASSUME PoolAssumption == Start \in Nat \ {0} /\ End \in Nat /\ Start < End
ASSUME TableLenAssumption == TableLen \in Nat \ {0}
ASSUME SizesAssumption == Sizes \subseteq Nat

\* "whole": a caller frees exactly a region it was given; "prefix": it may
\* also free the first bytes of one and keep the rest.
ClientKinds == {"whole", "prefix"}
ASSUME ClientsAssumption == Clients \subseteq ClientKinds

VARIABLES
    free,    \* the regions of the list at _free_head
    occ,     \* the regions of the list at _occupied_head
    call,    \* the last call and what it returned
    client   \* how this run's callers free; never changes

vars == <<free, occ, call, client>>

NULL == 0
Pool == Start .. End - 1
Region(a, n) == [start |-> a, end |-> a + n]
Rest(r, n) == [start |-> r.start + n, end |-> r.end]
Size(r) == r.end - r.start
Disjoint(r, q) == r.end <= q.start \/ q.end <= r.start
Cover(R) == {a \in Pool : \E r \in R : r.start <= a /\ a < r.end}

Allocated(n, p) == [op |-> "Allocate", start |-> NULL, size |-> n, ret |-> p]
Freed(a, n, res) == [op |-> "Free", start |-> a, size |-> n, ret |-> res]

Lowest(R) == CHOOSE r \in R : \A q \in R : r.start <= q.start

-------------------------------------------------------------------------------
\* Initialize: one free region spans the pool.
Init ==
    /\ free = {Region(Start, End - Start)}
    /\ occ = {}
    /\ call = Allocated(0, NULL)
    /\ client \in Clients

\* FindFreeNode finds an unused entry of the table.
MutantNodeLeft(F, O) == Cardinality(F) + Cardinality(O) <= TableLen  \* off by one
NodeLeft(F, O) == Cardinality(F) + Cardinality(O) < TableLen

-------------------------------------------------------------------------------
(* Allocate(size): the lowest free region that is large enough.  An exact  *)
(* fit changes lists with its node; a larger one needs a second node, and  *)
(* the call fails without one.                                             *)
Fits(n) == {f \in free : Size(f) >= n}

AllocateNull(n) ==
    /\ \/ n = 0
       \/ Fits(n) = {}
       \/ /\ Fits(n) # {} /\ Size(Lowest(Fits(n))) # n
          /\ ~NodeLeft(free, occ)
    /\ call' = Allocated(n, NULL)
    /\ UNCHANGED <<free, occ, client>>

AllocateExact(n) ==
    /\ n > 0 /\ Fits(n) # {}
    /\ LET f == Lowest(Fits(n)) IN
         /\ Size(f) = n
         /\ free' = free \ {f}
         /\ occ' = occ \cup {f}
         /\ call' = Allocated(n, f.start)
    /\ UNCHANGED client

\* Mutant: the free region is not advanced past the bytes handed out.
MutantAllocateSplit(n) ==
    /\ n > 0 /\ Fits(n) # {}
    /\ LET f == Lowest(Fits(n)) IN
         /\ Size(f) # n /\ NodeLeft(free, occ)
         /\ occ' = occ \cup {Region(f.start, n)}
         /\ call' = Allocated(n, f.start)
    /\ UNCHANGED <<free, client>>

AllocateSplit(n) ==
    /\ n > 0 /\ Fits(n) # {}
    /\ LET f == Lowest(Fits(n)) IN
         /\ Size(f) # n
         /\ NodeLeft(free, occ)
         /\ free' = (free \ {f}) \cup {Rest(f, n)}
         /\ occ' = occ \cup {Region(f.start, n)}
         /\ call' = Allocated(n, f.start)
    /\ UNCHANGED client

Allocate(n) == AllocateNull(n) \/ AllocateExact(n) \/ AllocateSplit(n)

-------------------------------------------------------------------------------
(* Free(start, size).                                                      *)

\* CombineAdjacentFreeNodes: every maximal run of touching regions of R
\* becomes one region.
Heads(R) == {r \in R : \A q \in R : q.end # r.start}
Tails(R) == {r \in R : \A q \in R : q.start # r.end}
Unbroken(R, h, t) ==
    /\ h.start <= t.start
    /\ \A r \in R : h.start <= r.start /\ r.start < t.start
                      => \E q \in R : q.start = r.end
CombineAdjacentFreeNodes(R) ==
    {[start |-> p[1].start, end |-> p[2].end] :
        p \in {p \in Heads(R) \X Tails(R) : Unbroken(R, p[1], p[2])}}

Touching(r) == {f \in free : r.end = f.start \/ f.end = r.start}
Absorb(f, r) == IF r.end = f.start THEN [start |-> r.start, end |-> f.end]
                                   ELSE [start |-> f.start, end |-> r.end]

\* Mutant: a full table goes unnoticed by the caller.
MutantAddFreed(r, O) ==
    IF Touching(r) # {}
    THEN LET f == Lowest(Touching(r))
         IN [ret |-> 0, free |-> (free \ {f}) \cup {Absorb(f, r)}]
    ELSE [ret |-> 0, free |-> IF NodeLeft(free, O)
                              THEN CombineAdjacentFreeNodes(free \cup {r})
                              ELSE free]

\* The first free region that touches r absorbs it, and nothing is combined
\* then, even if r also touches the next one.  Otherwise r becomes a region
\* of its own, if there is a node, and all touching regions are combined.
AddFreedRegionToFreeList(r, O) ==
    IF Touching(r) # {}
    THEN LET f == Lowest(Touching(r))
         IN [ret |-> 0, free |-> (free \ {f}) \cup {Absorb(f, r)}]
    ELSE IF NodeLeft(free, O)
         THEN [ret |-> 0, free |-> CombineAdjacentFreeNodes(free \cup {r})]
         ELSE [ret |-> -1, free |-> free]

\* FindOccupiedMemoryRegionNode.
Holding(a) == {r \in occ : r.start <= a /\ a < r.end}

FreeRefused(a, n) ==
    /\ \/ /\ Holding(a) = {}
          /\ call' = Freed(a, n, -1)
       \/ /\ \E r \in Holding(a) : Size(r) < n
          /\ call' = Freed(a, n, -2)
    /\ UNCHANGED <<free, occ, client>>

\* Mutant: the freed range looks for a node before its own node is released.
MutantFreeRegion(r, n) ==
    /\ 0 < n /\ n <= Size(r)
    /\ client = "whole" => n = Size(r)
    /\ LET rest == IF n = Size(r) THEN {} ELSE {Rest(r, n)}
           add  == AddFreedRegionToFreeList(Region(r.start, n), occ)
       IN /\ occ' = (occ \ {r}) \cup rest
          /\ free' = add.free
          /\ call' = Freed(r.start, n, add.ret)
    /\ UNCHANGED client

\* Free of the first n bytes of r, or of all of it.  The occupied list is
\* changed before AddFreedRegionToFreeList can fail, and stays changed.
FreeRegion(r, n) ==
    /\ 0 < n /\ n <= Size(r)
    /\ client = "whole" => n = Size(r)
    /\ LET rest == IF n = Size(r) THEN {} ELSE {Rest(r, n)}
           O    == (occ \ {r}) \cup rest
           add  == AddFreedRegionToFreeList(Region(r.start, n), O)
       IN /\ occ' = O
          /\ free' = add.free
          /\ call' = Freed(r.start, n, add.ret)
    /\ UNCHANGED client

Next ==
    \/ \E n \in Sizes : Allocate(n)
    \/ \E a \in Pool, n \in Sizes : FreeRefused(a, n)
    \/ \E r \in occ, n \in Sizes : FreeRegion(r, n)

Spec == Init /\ [][Next]_vars

-------------------------------------------------------------------------------
(* Properties.                                                             *)

Regions == {r \in [start : Nat, end : Nat] :
                Start <= r.start /\ r.start < r.end /\ r.end <= End}

\* The regions of both lists are non-empty ranges inside the pool
\* (FirstFitAllocator.h, struct MemoryChunk).
TypeOK ==
    /\ free \subseteq Regions
    /\ occ \subseteq Regions
    /\ client \in Clients

\* No two regions overlap, in one list or across the two: part 1 of
\* IsValidDataStructure (FirstFitAllocator.cc:466-523).
NoOverlap ==
    /\ \A r, q \in free : r # q => Disjoint(r, q)
    /\ \A r, q \in occ : r # q => Disjoint(r, q)
    /\ \A r \in free, q \in occ : Disjoint(r, q)

\* The table is never asked for more entries than it has: the loops over
\* _array stay inside it (FirstFitAllocator.cc:79-87).
WithinTable ==
    /\ IsFiniteSet(free) /\ IsFiniteSet(occ)
    /\ Cardinality(free) + Cardinality(occ) <= TableLen

\* Callers that free what they were given never lose memory: every address
\* of the pool is in some region (part 2 of IsValidDataStructure,
\* FirstFitAllocator.cc:524-538, stated address by address).
NothingLost == client = "whole" => Cover(free \cup occ) = Pool

\* With any caller an address leaves both lists only in a Free that answers
\* -1, and no call ever brings a lost address back.
LostOnlyByFailedFree ==
    [][ /\ Cover(free \cup occ)' \subseteq Cover(free \cup occ)
        /\ Cover(free \cup occ)' # Cover(free \cup occ)
             => call'.op = "Free" /\ call'.ret = -1 ]_vars

\* Freeing a region exactly as it was allocated succeeds even when the node
\* table is full, since its own node can be reused
\* (FirstFitAllocator.cc:368-379).
WholeFreeSucceeds ==
    [][\A r \in occ : call' = Freed(r.start, Size(r), call'.ret) /\ occ' # occ
            => call'.ret = 0]_vars

\* The client's view: the occupied regions are the live ranges.
Ranges == INSTANCE RangeAllocator WITH live <- occ
ImplementsRanges == Ranges!Spec
===============================================================================
