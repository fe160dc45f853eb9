------------------------------ MODULE MCFirstFit ------------------------------
(***************************************************************************)
(* FirstFit on a pool of six addresses and a table of four nodes: room     *)
(* for more regions than nodes, so that the table fills up before the pool *)
(* does, and for three free regions with gaps, so that a freed hole can    *)
(* touch two of them.                                                      *)
(***************************************************************************)
EXTENDS FirstFit

MCSizes == 0 .. 3

\* The record of the last call is output: no action reads it, so states that
\* differ only in it have the same successors and the same futures.
MCView == <<free, occ, client>>
===============================================================================
