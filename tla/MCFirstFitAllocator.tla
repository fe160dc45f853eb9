-------------------------- MODULE MCFirstFitAllocator --------------------------
(***************************************************************************)
(* FirstFitAllocator on a pool of six addresses and a table of five nodes. *)
(* Three separate free regions fit between two occupied ones, so regions   *)
(* are inserted before, inside and after both lists; a freed hole can      *)
(* touch two free regions; and the table fills up before the pool does, so *)
(* that allocations and partial frees run out of nodes.                    *)
(***************************************************************************)
EXTENDS FirstFitAllocator

MCSizes == 1 .. 2

Shape(walk) == [k \in DOMAIN walk |-> <<ffa.array[walk[k]].start, ffa.array[walk[k]].end>>]

\* States are told apart by the two lists of regions only.  The record of the
\* last call is output, which no action reads; and nodes are interchangeable:
\* the code compares indices for equality and takes any unused one, so states
\* that differ in which node holds which region have matching futures.
MCView == <<Shape(OccupiedList(ffa)), Shape(FreeList(ffa)), client>>
===============================================================================
