------------------------------- MODULE MCLauncher -------------------------------
(***************************************************************************)
(* Two launches, one after the other or at once, of two layouts: one has   *)
(* pages of both sizes, the other more of 2MB.  There is room for each,    *)
(* but not for the pages of one size of the one beside those of the other  *)
(* size of the other.                                                      *)
(***************************************************************************)
EXTENDS Launcher

Pages(small, large) == [k \in Sizes |-> IF k = "1gb" THEN large ELSE small]

MCLayouts == {[brk |-> Pages(0, 1), mmap |-> Pages(1, 0)],
              [brk |-> Pages(2, 0), mmap |-> Pages(1, 0)]}
===============================================================================
