---------------------------- MODULE RangeAllocator ----------------------------
(***************************************************************************)
(* What a client of a Mosalloc pool relies on, whatever the bookkeeping    *)
(* behind it: the live ranges lie inside the pool and never overlap, an    *)
(* allocation hands out a range nobody holds or fails, and a free gives    *)
(* back exactly the bytes it names.  FirstFit.tla implements this module.  *)
(*                                                                         *)
(* A range is a record [start, end] that stands for the addresses          *)
(* start .. end-1, as a MemoryChunk does (FirstFitAllocator.h).            *)
(***************************************************************************)
EXTENDS Integers

\* FirstFit, which implements this module, states the assumptions on them.
CONSTANTS
    Start,  \* first address of the pool
    End,    \* first address past the pool
    Sizes   \* the sizes clients ask for (finite in a TLC run)

VARIABLES
    live,   \* the ranges clients hold
    call    \* the last completed call and its answer

vars == <<live, call>>

NULL == 0                       \* the null pointer, no address of the pool
Pool == Start .. End - 1
Range(a, n) == [start |-> a, end |-> a + n]
Size(r) == r.end - r.start
Disjoint(r, q) == r.end <= q.start \/ q.end <= r.start

Allocated(n, p) == [op |-> "Allocate", start |-> NULL, size |-> n, ret |-> p]
Freed(a, n, res) == [op |-> "Free", start |-> a, size |-> n, ret |-> res]

Init ==
    /\ live = {}
    /\ call = Allocated(0, NULL)

\* Hand out n bytes at p: inside the pool and disjoint from every live range.
AllocateSome(n, p) ==
    /\ n > 0
    /\ p + n <= End
    /\ \A r \in live : Disjoint(r, Range(p, n))
    /\ live' = live \cup {Range(p, n)}
    /\ call' = Allocated(n, p)

\* An allocation may always fail; a failure changes nothing.
AllocateNone(n) ==
    /\ call' = Allocated(n, NULL)
    /\ UNCHANGED live

\* Giving back a whole range cannot fail.
FreeWhole(r) ==
    /\ live' = live \ {r}
    /\ call' = Freed(r.start, Size(r), 0)

\* Giving back the first n bytes of a range keeps the rest.  The answer may
\* be an error (-1), and the bytes are gone for the client all the same.
FreePrefix(r, n, res) ==
    /\ 0 < n /\ n < Size(r)
    /\ live' = (live \ {r}) \cup {[r EXCEPT !.start = r.start + n]}
    /\ call' = Freed(r.start, n, res)

\* A refused call (no such range, or more bytes than it has) changes nothing.
FreeRefused(a, n, res) ==
    /\ \/ res = -1 /\ \A r \in live : ~(r.start <= a /\ a < r.end)
       \/ res = -2 /\ \E r \in live : r.start <= a /\ a < r.end /\ Size(r) < n
    /\ call' = Freed(a, n, res)
    /\ UNCHANGED live

Next ==
    \/ \E n \in Sizes : AllocateNone(n) \/ \E p \in Pool : AllocateSome(n, p)
    \/ \E r \in live : FreeWhole(r)
    \/ \E r \in live, n \in Sizes, res \in {0, -1} : FreePrefix(r, n, res)
    \/ \E a \in Pool, n \in Sizes, res \in {-1, -2} : FreeRefused(a, n, res)

Spec == Init /\ [][Next]_vars
===============================================================================
