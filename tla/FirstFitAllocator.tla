--------------------------- MODULE FirstFitAllocator ---------------------------
(***************************************************************************)
(* FirstFitAllocator.cc at the level of its data structure: a table of     *)
(* TableLen nodes threaded by index into an occupied and a free list.      *)
(* Every public method holds _ffa_mutex for its whole body, so an action   *)
(* is one call; its helpers are operators from one value of the structure  *)
(* to the next, named as in the code.                                      *)
(***************************************************************************)
EXTENDS Integers, FiniteSets, SequencesExt

CONSTANTS
    Start,     \* _start, first address of the pool
    End,       \* _end, first address past the pool
    TableLen,  \* _len, the number of nodes
    Sizes,     \* the sizes the callers pass to Allocate and Free
    Clients    \* how the callers free: a subset of {"whole", "prefix", "any"}

ASSUME PoolAssumption == Start \in Nat \ {0} /\ End \in Nat /\ Start < End
ASSUME TableLenAssumption == TableLen \in Nat \ {0}
ASSUME SizesAssumption == Sizes \subseteq Nat

\* "whole" and "prefix" are the callers of FirstFit; "any" frees any number
\* of bytes from any address, as a program may munmap what it likes.
ASSUME ClientsAssumption == Clients \subseteq {"whole", "prefix", "any"}

VARIABLES
    ffa,     \* the allocator: array, occupied_head and free_head
    call,    \* the last call and what it returned
    client   \* how this run's callers free; never changes

vars == <<ffa, call, client>>

NULL == 0
NIL == -1                        \* no node
Nodes == 0 .. TableLen - 1
Pool == Start .. End - 1

Allocated(n, p) == [op |-> "Allocate", start |-> NULL, size |-> n, ret |-> p]
Freed(a, n, res) == [op |-> "Free", start |-> a, size |-> n, ret |-> res]

-------------------------------------------------------------------------------
(* Walking a list: for (i = head; i >= 0; i = _array[i].next).  A walk     *)
(* over a well-formed list ends; it is cut after TableLen + 1 nodes        *)
(* otherwise.                                                              *)

Walk(arr, head) ==
    LET succ == [i \in Nodes \cup {NIL} |-> IF i = NIL THEN NIL ELSE arr[i].next]
        nth[k \in 0 .. TableLen] == IF k = 0 THEN head ELSE succ[nth[k - 1]]
        len == Cardinality({k \in 0 .. TableLen : nth[k] # NIL})
    IN [k \in 1 .. len |-> nth[k - 1]]

OccupiedList(f) == Walk(f.array, f.occupied_head)
FreeList(f) == Walk(f.array, f.free_head)

\* The node at a position of a walk; NIL before its first and past its last.
At(walk, k) == IF k \in DOMAIN walk THEN walk[k] ELSE NIL

\* The position of the first node of a walk that passes a test, 0 if none.
FirstWhere(walk, Test(_)) == SelectInSeq(walk, Test)

NodeSize(f, i) == f.array[i].end - f.array[i].start
EmptyNode == [start |-> NULL, end |-> NULL, next |-> NIL]

-------------------------------------------------------------------------------
Init ==
    /\ ffa = [array |-> [i \in Nodes |->
                            IF i = 0 THEN [start |-> Start, end |-> End, next |-> NIL]
                                     ELSE EmptyNode],
              occupied_head |-> NIL,
              free_head |-> 0]
    /\ call = Allocated(0, NULL)
    /\ client \in Clients

FindFreeNode(f) ==
    LET unused == {i \in Nodes : f.array[i].start = NULL}
    IN IF unused = {} THEN NIL ELSE CHOOSE i \in unused : \A j \in unused : i <= j

FindOccupiedMemoryRegionNode(f, a) ==
    LET walk == OccupiedList(f)
        Holds(i) == \/ a = f.array[i].start
                    \/ f.array[i].start <= a /\ a < f.array[i].end
    IN At(walk, FirstWhere(walk, Holds))

\* Mutant: a region is always put first in its list.
MutantInsertPosition(f, walk, start) == 1

\* Where a region that begins at start goes in a sorted list: before position
\* k, so that its predecessor is At(walk, k - 1).
InsertPosition(f, walk, start) ==
    LET Later(i) == f.array[i].start > start
        k == FirstWhere(walk, Later)
    IN IF k = 0 THEN Len(walk) + 1 ELSE k

\* Thread node into a list: head', and arr with the two links set.
Link(arr, walk, head, k, node) ==
    LET prev == At(walk, k - 1)
        set  == [arr EXCEPT ![node].next = At(walk, k)]
    IN IF prev = NIL THEN [head |-> node, array |-> set]
                     ELSE [head |-> head, array |-> [set EXCEPT ![prev].next = node]]

\* AllocateMemoryRegionNode: node is the exact fit that leaves the free list,
\* or NIL to look for an unused one.  Leaving the free list from its head is
\* done here, leaving it from the middle in MoveNodeFromFeeListToOccupied.
AllocateMemoryRegionNode(f, given, start, size) ==
    LET node == IF given = NIL THEN FindFreeNode(f) ELSE given
        walk == OccupiedList(f)
        list == Link(f.array, walk, f.occupied_head, InsertPosition(f, walk, start), node)
    IN IF node = NIL THEN [ffa |-> f, node |-> NIL]
       ELSE [node |-> node,
             ffa |-> [array |-> [list.array EXCEPT ![node].start = start,
                                                   ![node].end = start + size],
                      occupied_head |-> list.head,
                      free_head |-> IF node = f.free_head THEN f.array[node].next
                                                          ELSE f.free_head]]

\* Mutant: the predecessor in the free list keeps pointing at the moved node.
MutantMoveNode(f, node, prev) ==
    AllocateMemoryRegionNode(f, node, f.array[node].start, NodeSize(f, node))

MoveNodeFromFeeListToOccupied(f, node, prev) ==
    LET next  == f.array[node].next
        moved == AllocateMemoryRegionNode(f, node, f.array[node].start, NodeSize(f, node))
    IN IF prev = NIL THEN moved
       ELSE [moved EXCEPT !.ffa.array[prev].next = next]

-------------------------------------------------------------------------------
(* Allocate(size).                                                         *)

\* Mutant: a split leaves the bytes it hands out on the free list.
MutantAllocateCall(f, size) ==
    LET walk == FreeList(f)
        Fits(i) == NodeSize(f, i) >= size
        k == IF size = 0 THEN 0 ELSE FirstWhere(walk, Fits)
        split == AllocateMemoryRegionNode(f, NIL, f.array[walk[k]].start, size)
    IN IF k = 0 \/ split.node = NIL THEN [ffa |-> f, ret |-> NULL]
       ELSE [ffa |-> split.ffa, ret |-> f.array[walk[k]].start]

AllocateCall(f, size) ==
    LET walk == FreeList(f)
        Fits(i) == NodeSize(f, i) >= size
        k == IF size = 0 THEN 0 ELSE FirstWhere(walk, Fits)
        i == walk[k]
        exact == MoveNodeFromFeeListToOccupied(f, i, At(walk, k - 1))
        split == AllocateMemoryRegionNode(f, NIL, f.array[i].start, size)
    IN IF k = 0 THEN [ffa |-> f, ret |-> NULL]
       ELSE IF NodeSize(f, i) = size
            THEN [ffa |-> exact.ffa, ret |-> f.array[i].start]
       ELSE IF split.node = NIL THEN [ffa |-> f, ret |-> NULL]
       ELSE [ffa |-> [split.ffa EXCEPT !.array[i].start = @ + size],
             ret |-> f.array[i].start]

Allocate(size) ==
    LET done == AllocateCall(ffa, size)
    IN /\ ffa' = done.ffa
       /\ call' = Allocated(size, done.ret)
       /\ UNCHANGED client

-------------------------------------------------------------------------------
(* Free(start, size).                                                      *)

\* The loop of CombineAdjacentFreeNodes merges the first pair of touching
\* neighbours, then looks at the merged node again.
Merge(f, prev, i) ==
    [f EXCEPT !.array = [@ EXCEPT ![prev].end = f.array[i].end,
                                  ![prev].next = f.array[i].next,
                                  ![i] = EmptyNode]]

\* Mutant: touching free regions are never combined.
MutantCombine(f) == f

CombineAdjacentFreeNodes(f) ==
    LET MergeFirst(g) ==
            LET walk == FreeList(g)
                pairs == {k \in 2 .. Len(walk) :
                            g.array[walk[k - 1]].end = g.array[walk[k]].start}
                k == Min(pairs)
            IN IF pairs = {} THEN g ELSE Merge(g, walk[k - 1], walk[k])
        merged[k \in 0 .. TableLen] == IF k = 0 THEN f ELSE MergeFirst(merged[k - 1])
    IN merged[TableLen]

AddFreedRegionToFreeList(f, start, size) ==
    LET walk == FreeList(f)
        Touches(i) == start + size = f.array[i].start \/ f.array[i].end = start
        k    == FirstWhere(walk, Touches)
        i    == walk[k]
        node == FindFreeNode(f)
        list == Link(f.array, walk, f.free_head, InsertPosition(f, walk, start), node)
    IN IF k > 0
       THEN [ret |-> 0,
             ffa |-> IF start + size = f.array[i].start
                     THEN [f EXCEPT !.array[i].start = start]
                     ELSE [f EXCEPT !.array[i].end = start + size]]
       ELSE IF node = NIL THEN [ret |-> -1, ffa |-> f]
       ELSE [ret |-> 0,
             ffa |-> CombineAdjacentFreeNodes(
                        [f EXCEPT !.array = [list.array EXCEPT ![node].start = start,
                                                               ![node].end = start + size],
                                  !.free_head = list.head])]

FreeOccupiedRegionNode(f, node) ==
    LET walk == OccupiedList(f)
        Is(i) == i = node
        prev == At(walk, FirstWhere(walk, Is) - 1)
        next == f.array[node].next
    IN IF prev = NIL
       THEN [f EXCEPT !.array[node] = EmptyNode, !.occupied_head = next]
       ELSE [f EXCEPT !.array = [@ EXCEPT ![prev].next = next, ![node] = EmptyNode]]

FreeCall(f, start, size) ==
    LET node == FindOccupiedMemoryRegionNode(f, start)
        released == IF NodeSize(f, node) = size
                    THEN FreeOccupiedRegionNode(f, node)
                    ELSE [f EXCEPT !.array[node].start = @ + size]
    IN IF node = NIL THEN [ffa |-> f, ret |-> -1]
       ELSE IF NodeSize(f, node) < size THEN [ffa |-> f, ret |-> -2]
       ELSE AddFreedRegionToFreeList(released, start, size)

\* What each kind of caller frees.  A call that is going to be refused is
\* something any of them may do.
MayFree(start, size) ==
    LET node == FindOccupiedMemoryRegionNode(ffa, start)
    IN (node # NIL /\ NodeSize(ffa, node) >= size) =>
            \/ client = "any"
            \/ client = "prefix" /\ start = ffa.array[node].start /\ size > 0
            \/ start = ffa.array[node].start /\ size = NodeSize(ffa, node)

Free(start, size) ==
    /\ MayFree(start, size)
    /\ LET done == FreeCall(ffa, start, size)
       IN /\ ffa' = done.ffa
          /\ call' = Freed(start, size, done.ret)
    /\ UNCHANGED client

Next ==
    \/ \E size \in Sizes : Allocate(size)
    \/ \E start \in Pool, size \in Sizes : Free(start, size)

Spec == Init /\ [][Next]_vars

-------------------------------------------------------------------------------
(* Queries.                                                                *)

\* GetTopAddress: the end of the occupied region that ends last.
GetTopAddress(f) ==
    Max({Start} \cup {f.array[i].end : i \in ToSet(OccupiedList(f))})

GetFreeSpace(f) == MapThenSumSet(LAMBDA i : NodeSize(f, i), ToSet(FreeList(f)))

Overlap(f, i, j) ==
    \/ f.array[j].start <= f.array[i].start /\ f.array[i].start < f.array[j].end
    \/ f.array[i].start <= f.array[j].start /\ f.array[j].start < f.array[i].end

\* IsValidDataStructure, which every call asserts when validation is on.
IsValidDataStructure(f) ==
    LET listed == ToSet(OccupiedList(f)) \cup ToSet(FreeList(f))
    IN /\ \A i, j \in listed : i # j => ~Overlap(f, i, j)
       /\ MapThenSumSet(LAMBDA i : NodeSize(f, i), listed) = End - Start

-------------------------------------------------------------------------------
(* Properties.                                                             *)

\* The fields of the structure hold what MemoryChunk declares
\* (FirstFitAllocator.h): links are node indices or -1.
TypeOK ==
    /\ DOMAIN ffa.array = Nodes
    /\ \A i \in Nodes : /\ ffa.array[i].start \in Nat /\ ffa.array[i].end \in Nat
                        /\ ffa.array[i].next \in Nodes \cup {NIL}
    /\ {ffa.occupied_head, ffa.free_head} \subseteq Nodes \cup {NIL}
    /\ client \in Clients

\* The two lists are acyclic, share no node, and thread every used node and
\* no other, whatever callers free: no call leaks a node, and no walk loops.
\* This is the check "there are no disconnected nodes", commented out at
\* FirstFitAllocator.cc:540-554, made exact.
ListsPartitionTable ==
    LET o == OccupiedList(ffa)
        f == FreeList(ffa)
    IN /\ IsInjective(o) /\ IsInjective(f)
       /\ ToSet(o) \cap ToSet(f) = {}
       /\ ToSet(o) \cup ToSet(f) = {i \in Nodes : ffa.array[i].start # NULL}

\* Both lists stay sorted by address, on which first fit, the insertions and
\* CombineAdjacentFreeNodes rely (FirstFitAllocator.cc:302-303), as long as
\* callers free from the start of a region.
ListsSorted ==
    client # "any" =>
        \A w \in {OccupiedList(ffa), FreeList(ffa)} : \A k \in 2 .. Len(w) :
            ffa.array[w[k - 1]].end <= ffa.array[w[k]].start

\* The validation every call can run never fails for callers that free
\* regions whole (FirstFitAllocator.cc:33-36, :465-556).
ValidForWholeFrees == client = "whole" => IsValidDataStructure(ffa)

RegionsOf(walk) == {[start |-> ffa.array[i].start, end |-> ffa.array[i].end] :
                        i \in ToSet(walk)}
FF == INSTANCE FirstFit WITH free <- RegionsOf(FreeList(ffa)),
                             occ <- RegionsOf(OccupiedList(ffa)),
                             Clients <- Clients \ {"any"}

\* For the callers FirstFit knows, the linked lists do what FirstFit does
\* with sets of regions, call by call and answer by answer.
ImplementsFirstFit ==
    /\ client # "any" => FF!Init
    /\ [][client # "any" => FF!Next]_vars
===============================================================================
