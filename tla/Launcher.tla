-------------------------------- MODULE Launcher --------------------------------
(***************************************************************************)
(* runMosalloc.py and reserveHugePages.sh: launches of programs on one     *)
(* memory node, which share its pools of huge pages and, in one working    *)
(* directory, the file legacy_config.csv.  The layouts are valid ones,     *)
(* with pages of one size in a pool; the kernel's pools of huge pages are  *)
(* external.                                                               *)
(***************************************************************************)
EXTENDS Integers, FiniteSetsExt

CONSTANTS
    Launches,
    Layouts,    \* [brk, mmap]: for each pool the pages of each size
    Memory,     \* what the kernel can give, in 2MB pages
    GBPages     \* 2MB pages in a page of 1GB

Sizes == {"2mb", "1gb"}
Weight == [k \in Sizes |-> IF k = "1gb" THEN GBPages ELSE 1]
Other(k) == IF k = "1gb" THEN "2mb" ELSE "1gb"

ASSUME LauncherAssumption ==
    /\ IsFiniteSet(Launches)
    /\ Layouts \subseteq [brk : [Sizes -> Nat], mmap : [Sizes -> Nat]]
    /\ Memory \in Nat /\ GBPages \in Nat \ {0}

VARIABLES
    layout, format, debug,  \* of each launch: what the user asks for
    supported,   \* does the node have pages of 1GB?
    fragmented,  \* may the kernel find fewer pages than there is room for?
    pc,          \* of each launch
    order,       \* of the script of each launch: the size it sets first
    config,      \* the layout that the library of each launch has read
    mapped,      \* the pages that the program of each launch has
    alone,       \* has each launch been without another one all the time?
    lock,        \* flock: the launches that have it
    file,        \* the layouts in legacy_config.csv
    nr           \* the kernel: the pages of each size that it is told to keep

user == <<layout, format, debug>>
node == <<supported, fragmented>>
vars == <<user, node, pc, order, config, mapped, alone, lock, file, nr>>

None == [k \in Sizes |-> 0]
Over == {"done", "failed", "refused", "short"}
Active == {l \in Launches : pc[l] \notin Over \cup {"idle"}}

-------------------------------------------------------------------------------
(* The kernel.  Pages in use stay until their program gives them back.     *)

Used(k) == MapThenSumSet(LAMBDA l : mapped[l][k], Launches)
NrHugepages(k) == Max({nr[k], Used(k)})
Free(k) == NrHugepages(k) - Used(k)

\* A write of n to nr_hugepages: fewer pages at once, more as far as there is
\* room.
Keep(k, n) ==
    LET room == (Memory - Weight[Other(k)] * NrHugepages(Other(k))) \div Weight[k]
        got == Min({n, room})
    IN \E m \in IF n <= NrHugepages(k) THEN {n}
                ELSE IF fragmented THEN NrHugepages(k) .. got ELSE {got} :
          nr' = [nr EXCEPT ![k] = m]

-------------------------------------------------------------------------------
(* runMosalloc.py.                                                         *)

\* Mutant: the pages of the brk pool are forgotten.
MutantTotal(lay) == lay.mmap

\* get_total_hugepages, get_num_of_large_pages and get_num_of_huge_pages.
Total(lay) == [k \in Sizes |-> lay.brk[k] + lay.mmap[k]]

\* With the page that pads the pools.
Requested(l) == [k \in Sizes |-> LET n == Total(layout[l])[k] IN IF n > 0 THEN n + 1 ELSE 0]

Goto(l, to) == pc' = [pc EXCEPT ![l] = to]

Init ==
    /\ layout \in [Launches -> Layouts]
    /\ format \in [Launches -> {"legacy", "new"}]
    /\ debug \in [Launches -> BOOLEAN]
    /\ supported \in BOOLEAN /\ fragmented \in BOOLEAN
    /\ pc = [l \in Launches |-> "idle"] /\ order = [l \in Launches |-> "1gb"]
    /\ config = layout
    /\ mapped = [l \in Launches |-> None]
    /\ alone = [l \in Launches |-> TRUE]
    /\ lock = {} /\ file = {}
    /\ nr \in {n \in [Sizes -> 0 .. Memory] : /\ n["2mb"] + GBPages * n["1gb"] <= Memory
                                              /\ supported \/ n["1gb"] = 0}

\* The layout in the new format is written to the file; a file in the legacy
\* format is used as it is.  In debug mode the script is left out.
Launch(l) ==
    /\ pc[l] = "idle"
    /\ Goto(l, IF debug[l] THEN "start" ELSE "lock")
    /\ file' = IF format[l] = "new" THEN {layout[l]} ELSE file
    /\ alone' = [m \in Launches |-> alone[m] /\ (m \in Active \cup {l} => Active = {})]
    /\ UNCHANGED <<user, node, order, config, mapped, lock, nr>>

\* flock -x.
Lock(l) ==
    /\ pc[l] = "lock" /\ lock = {}
    /\ lock' = {l}
    /\ Goto(l, "compare")
    /\ UNCHANGED <<user, node, order, config, mapped, alone, file, nr>>

\* Mutant: the other way round.
MutantCompare(l) ==
    /\ pc[l] = "compare"
    /\ order' = [order EXCEPT ![l] =
          IF NrHugepages("2mb") > Requested(l)["2mb"] THEN "1gb" ELSE "2mb"]
    /\ Goto(l, "first")
    /\ UNCHANGED <<user, node, config, mapped, alone, lock, file, nr>>

\* reserveHugePages.sh: which size goes first ...
Compare(l) ==
    /\ pc[l] = "compare"
    /\ order' = [order EXCEPT ![l] =
          IF NrHugepages("2mb") > Requested(l)["2mb"] THEN "2mb" ELSE "1gb"]
    /\ Goto(l, "first")
    /\ UNCHANGED <<user, node, config, mapped, alone, lock, file, nr>>

\* ... the two sizes, of which 1GB is skipped where there is none ...
SetPages(l) ==
    \E at \in {"first", "second"} :
        LET k == IF at = "first" THEN order[l] ELSE Other(order[l])
        IN /\ pc[l] = at
           /\ Goto(l, IF at = "first" THEN "second" ELSE "check")
           /\ IF k = "1gb" /\ ~supported THEN UNCHANGED nr ELSE Keep(k, Requested(l)[k])
           /\ UNCHANGED <<user, node, order, config, mapped, alone, lock, file>>

\* ... and what has come of it.
Check(l) ==
    /\ pc[l] = "check"
    /\ Goto(l, IF \A k \in Sizes : NrHugepages(k) >= Requested(l)[k] THEN "start" ELSE "failed")
    /\ lock' = {}
    /\ UNCHANGED <<user, node, order, config, mapped, alone, file, nr>>

\* The program starts, and the library reads its configuration.
Start(l) ==
    /\ pc[l] = "start"
    /\ \E lay \in IF format[l] = "new" THEN file ELSE {layout[l]} :
          config' = [config EXCEPT ![l] = lay]
    /\ Goto(l, "init")
    /\ UNCHANGED <<user, node, order, mapped, alone, lock, file, nr>>

\* The program gets pages up to t or ends with an exception.
Map(l, t, next) ==
    LET gets == \A k \in Sizes : t[k] - mapped[l][k] <= Free(k)
    IN /\ mapped' = [mapped EXCEPT ![l] = IF gets THEN t ELSE None]
       /\ Goto(l, IF gets THEN next ELSE "short")
       /\ UNCHANGED <<user, node, order, config, alone, lock, file, nr>>

\* The pages that the pools of a layout have at their full size, at most.
Backed(lay) == [k \in Sizes |-> lay.brk[k] + lay.mmap[k]]

\* In the new format pages of 1GB are written with a size that ParseCsv refuses
\* (memory_layout_config.py:10): the program ends with an exception.
Misread(l) == format[l] = "new" /\ Backed(config[l])["1gb"] > 0
Refuse(l) ==
    /\ pc[l] = "init" /\ Misread(l)
    /\ Goto(l, "refused")
    /\ UNCHANGED <<user, node, order, config, mapped, alone, lock, file, nr>>

\* InitRegions maps the pools in full, to unmap them again.
InitRegions(l) == pc[l] = "init" /\ ~Misread(l) /\ Map(l, Backed(config[l]), "running")

\* The pools grow and shrink.
Resize(l) ==
    /\ pc[l] = "running"
    /\ \E t \in [Sizes -> 0 .. Max({Backed(config[l])[k] : k \in Sizes})] :
          /\ \A k \in Sizes : t[k] <= Backed(config[l])[k]
          /\ Map(l, t, "running")

End(l) ==
    /\ pc[l] = "running"
    /\ mapped' = [mapped EXCEPT ![l] = None]
    /\ Goto(l, "done")
    /\ UNCHANGED <<user, node, order, config, alone, lock, file, nr>>

Next == \E l \in Launches :
    \/ Launch(l) \/ Lock(l) \/ Compare(l) \/ SetPages(l) \/ Check(l)
    \/ Start(l) \/ Refuse(l) \/ InitRegions(l) \/ Resize(l) \/ End(l)

Spec == Init /\ [][Next]_vars

-------------------------------------------------------------------------------
(* Properties.                                                             *)

\* Whatever numbers of pages of either size were kept before, by the user or
\* for the launches before this one, the script gets the pages it is asked for
\* if there is room for them and no other launch at the time
\* (reserveHugePages.sh:118-128).
ReservedIfItFits ==
    \A l \in Launches :
        /\ alone[l] /\ ~fragmented
        /\ Requested(l)["2mb"] + GBPages * Requested(l)["1gb"] <= Memory
        /\ supported \/ Requested(l)["1gb"] = 0
        => pc[l] # "failed"

\* A program whose pages were set "correctly" (reserveHugePages.sh:135), with no
\* other launch from its start to its end, runs with its own layout and never
\* goes short of pages.
NeverShortAlone ==
    \A l \in Launches :
        alone[l] /\ ~debug[l] /\ pc[l] \in {"init", "running", "short", "done"} =>
            config[l] = layout[l] /\ pc[l] # "short"
===============================================================================
