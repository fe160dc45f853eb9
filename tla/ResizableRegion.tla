---------------------------- MODULE ResizableRegion ----------------------------
(***************************************************************************)
(* What the pools expect of a HugePageBackedRegion: memory from offset 0   *)
(* up to a current size and none beyond; Resize moves the end to the first *)
(* page boundary at or after the size it is given, and what lies below     *)
(* both the old and the new end is left alone.  HugePageRegion.tla, which  *)
(* follows the code, implements this module.                               *)
(***************************************************************************)
EXTENDS Integers

CONSTANT Limit    \* a natural number: no region has Limit offsets or more

VARIABLES
    max,     \* the size the region may not exceed
    ends,    \* ends[n]: where the page that holds the last of n bytes ends
    size,    \* current size
    data     \* what each offset holds: "none" (unmapped), "zero" or "data"

vars == <<max, ends, size, data>>

Offsets == 0 .. Limit - 1

\* Page boundaries do not come before the size asked for nor after the end of
\* the region, they grow with it, and a boundary is its own boundary; no bytes
\* need no page.
PageEnds(m) ==
    {e \in [0 .. m -> 0 .. m] :
        /\ e[0] = 0
        /\ \A n \in 0 .. m : n <= e[n] /\ e[e[n]] = e[n]
        /\ \A n, k \in 0 .. m : n <= k => e[n] <= e[k]}

Init ==
    /\ max \in 0 .. Limit
    /\ ends \in PageEnds(max)
    /\ size = max
    /\ data = [o \in Offsets |-> IF o < max THEN "zero" ELSE "none"]

\* Pages that come are zero-filled, pages that go are lost.
Resized(n) ==
    [o \in Offsets |-> IF o >= n THEN "none" ELSE IF o >= size THEN "zero" ELSE data[o]]

\* Resize(n): refused (-ENOMEM) beyond the maximum.
Resize(n) ==
    /\ IF n > max THEN UNCHANGED <<size, data>>
       ELSE size' = ends[n] /\ data' = Resized(ends[n])
    /\ UNCHANGED <<max, ends>>

\* The program stores something at an offset it was given.
Write(o) ==
    /\ o < size
    /\ data' = [data EXCEPT ![o] = "data"]
    /\ UNCHANGED <<max, ends, size>>

Next ==
    \/ \E n \in 0 .. Limit + 1 : Resize(n)
    \/ \E o \in Offsets : Write(o)

Spec == Init /\ [][Next]_vars
===============================================================================
