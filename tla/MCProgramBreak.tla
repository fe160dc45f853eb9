----------------------------- MODULE MCProgramBreak -----------------------------
(***************************************************************************)
(* ProgramBreak with two threads on a pool of four addresses.  Three calls *)
(* in all can grow the heap, shrink it and exceed the pool; pages are of   *)
(* one address or of two.                                                  *)
(***************************************************************************)
EXTENDS ProgramBreak

MCIncrements == {-2, 0, 1, 3}

PagesEndingAt(S) == [n \in 0 .. 4 |-> CHOOSE e \in S : n <= e /\ \A f \in S : n <= f => e <= f]

MCLayouts == {PagesEndingAt(0 .. 4), PagesEndingAt({0, 2, 4})}
===============================================================================
