------------------------------- MODULE MCMmapPool -------------------------------
(***************************************************************************)
(* A pool of six addresses with a table of four nodes, which fills up      *)
(* before the pool does.  Pages are of one address, of three (so that a    *)
(* range may end inside a page), or of two with four in between.           *)
(***************************************************************************)
EXTENDS MmapPool

MCSizes == 0 .. 3

PagesEndingAt(S) == [n \in 0 .. 6 |-> CHOOSE e \in S : n <= e /\ \A f \in S : n <= f => e <= f]

MCLayouts == {PagesEndingAt(0 .. 6), PagesEndingAt({0, 3, 6}), PagesEndingAt({0, 1, 2, 6})}

\* The record of the last call is output that no action reads.
MCView == <<free, occ, client, hpbr, anon_mmap_max_size, alive>>
===============================================================================
