------------------------------ MODULE ProgramBreak ------------------------------
(***************************************************************************)
(* The heap: the hooks sbrk and brk (hooks.cc:174-221) over the brk pool   *)
(* (MemoryAllocator::ChangeProgramBreak).  Threads of the program, and     *)
(* glibc's malloc through mosalloc_morecore, call sbrk; sbrk holds         *)
(* g_hook_sbrk_mutex and calls the hook brk, which holds g_hook_brk_mutex. *)
(* _brk_mutex is only taken by the holder of g_hook_brk_mutex and needs no *)
(* state of its own.                                                       *)
(*                                                                         *)
(* Addresses count from the base of the pool, which is 0 here: only        *)
(* brk_top's initial nullptr is not an address.                            *)
(***************************************************************************)
EXTENDS Integers, FiniteSets

CONSTANTS
    Threads,     \* the threads of the program
    PoolSize,    \* size of the brk pool
    Increments,  \* the increments passed to sbrk
    Layouts,     \* where the pages of the pool may end (see ResizableRegion)
    MaxCalls,    \* bound: calls each thread makes
    Usages,      \* which of {"sbrk", "both"} this program may be
    NULL,        \* nullptr
    NoThread     \* the holder of a free mutex

VARIABLES
    max, ends, size, data,  \* _brk_hpbr
    brk_max_size,           \* _brk_max_size
    brk_top,                \* the global of hooks.cc
    sbrk_mutex, brk_mutex,  \* holders of the two hook mutexes, or NoThread
    pc,                     \* where each thread is
    new_brk,                \* the address each thread wants the break at
    calls,                  \* calls each thread has begun
    break,                  \* history: the break set by the last brk that succeeded
    grants,                 \* history: ranges sbrk returned that no break has cut
    usage                   \* "sbrk": no thread calls brk directly; never changes

HPBR == INSTANCE ResizableRegion WITH Limit <- PoolSize

hpbr == <<max, ends, size, data>>
globals == <<brk_top, sbrk_mutex, brk_mutex>>
heap == <<hpbr, brk_max_size>>
vars == <<heap, globals, pc, new_brk, calls, break, grants, usage>>

ASSUME PoolSizeAssumption == PoolSize \in Nat
ASSUME MaxCallsAssumption == MaxCalls \in Nat
ASSUME NoValueAssumption == NULL \notin Int /\ NoThread \notin Threads
ASSUME IncrementsAssumption == Increments \subseteq Int
ASSUME LayoutsAssumption == Layouts \subseteq HPBR!PageEnds(PoolSize)
ASSUME UsagesAssumption == Usages \subseteq {"sbrk", "both"}

\* InitRegions leaves the pool initialized and shrunk to nothing.
Init ==
    /\ max = PoolSize /\ ends \in Layouts
    /\ size = 0 /\ data = [o \in HPBR!Offsets |-> "none"]
    /\ brk_max_size = 0
    /\ brk_top = NULL
    /\ sbrk_mutex = NoThread /\ brk_mutex = NoThread
    /\ pc = [t \in Threads |-> "idle"]
    /\ new_brk = [t \in Threads |-> 0]
    /\ calls = [t \in Threads |-> 0]
    /\ break = 0 /\ grants = {}
    /\ usage \in Usages

Goto(t, l) == pc' = [pc EXCEPT ![t] = l]

-------------------------------------------------------------------------------
(* sbrk(increment).                                                        *)

\* The thread calls sbrk and asks for g_hook_sbrk_mutex.
SbrkCall(t) ==
    /\ pc[t] = "idle" /\ calls[t] < MaxCalls
    /\ calls' = [calls EXCEPT ![t] = @ + 1]
    /\ Goto(t, "sbrk lock")
    /\ UNCHANGED <<heap, globals, new_brk, break, grants, usage>>

\* Mutant: brk_top is read by a thread that does not hold the mutex yet.
MutantSbrkLock(t) ==
    /\ pc[t] = "sbrk lock"
    /\ brk_top' = IF brk_top = NULL THEN 0 ELSE brk_top
    /\ \E increment \in Increments :
          new_brk' = [new_brk EXCEPT ![t] = brk_top' + increment]
    /\ Goto(t, "sbrk brk")
    /\ UNCHANGED <<heap, sbrk_mutex, brk_mutex, calls, break, grants, usage>>

\* With the mutex: brk_top gets the base on the first call, and brk(new_brk)
\* is called.
SbrkLock(t) ==
    /\ pc[t] = "sbrk lock" /\ sbrk_mutex = NoThread
    /\ sbrk_mutex' = t
    /\ brk_top' = IF brk_top = NULL THEN 0 ELSE brk_top
    /\ \E increment \in Increments :
          new_brk' = [new_brk EXCEPT ![t] = brk_top' + increment]
    /\ Goto(t, "sbrk brk")
    /\ UNCHANGED <<heap, brk_mutex, calls, break, grants, usage>>

\* Mutant: brk_top moves although brk failed.
MutantSbrkFailed(t) ==
    /\ pc[t] = "sbrk failed"
    /\ brk_top' = new_brk[t]
    /\ sbrk_mutex' = NoThread
    /\ Goto(t, "idle")
    /\ UNCHANGED <<heap, brk_mutex, new_brk, calls, break, grants, usage>>

\* brk failed: (void* )-1 is returned.
SbrkFailed(t) ==
    /\ pc[t] = "sbrk failed"
    /\ sbrk_mutex' = NoThread
    /\ Goto(t, "idle")
    /\ UNCHANGED <<heap, brk_top, brk_mutex, new_brk, calls, break, grants, usage>>

\* Mutant: the mutex is not released.
MutantSbrkReturn(t) ==
    /\ pc[t] = "sbrk done"
    /\ brk_top' = new_brk[t]
    /\ grants' = IF new_brk[t] > brk_top
                 THEN grants \cup {[start |-> brk_top, end |-> new_brk[t]]} ELSE grants
    /\ Goto(t, "idle")
    /\ UNCHANGED <<heap, sbrk_mutex, brk_mutex, new_brk, calls, break, usage>>

\* brk succeeded: brk_top moves and its old value is returned.
SbrkReturn(t) ==
    /\ pc[t] = "sbrk done"
    /\ brk_top' = new_brk[t]
    /\ grants' = IF new_brk[t] > brk_top
                 THEN grants \cup {[start |-> brk_top, end |-> new_brk[t]]} ELSE grants
    /\ sbrk_mutex' = NoThread
    /\ Goto(t, "idle")
    /\ UNCHANGED <<heap, brk_mutex, new_brk, calls, break, usage>>

-------------------------------------------------------------------------------
(* brk(addr), called by the program or by sbrk.                            *)

BrkCall(t) ==
    /\ usage = "both"
    /\ pc[t] = "idle" /\ calls[t] < MaxCalls
    /\ calls' = [calls EXCEPT ![t] = @ + 1]
    /\ \E addr \in -1 .. PoolSize + 1 : new_brk' = [new_brk EXCEPT ![t] = addr]
    /\ Goto(t, "brk")
    /\ UNCHANGED <<heap, globals, break, grants, usage>>

BrkLock(t) ==
    /\ pc[t] \in {"brk", "sbrk brk"} /\ brk_mutex = NoThread
    /\ brk_mutex' = t
    /\ Goto(t, IF pc[t] = "brk" THEN "brk body" ELSE "sbrk body")
    /\ UNCHANGED <<heap, brk_top, sbrk_mutex, new_brk, calls, break, grants, usage>>

\* A range that the new break cuts keeps the part below it.
CutAt(addr) ==
    {[g EXCEPT !.end = IF g.end < addr THEN g.end ELSE addr] :
        g \in {g \in grants : g.start < addr}}

\* ChangeProgramBreak refuses an address below the pool, Resize one beyond it.
Succeeds(addr) == addr >= 0 /\ addr <= max

\* Mutant: the region is asked for the increment instead of the new size.
MutantMoveBreak(addr) ==
    /\ Succeeds(addr - break) /\ HPBR!Resize(addr - break)
    /\ brk_max_size' = IF brk_max_size < size' THEN size' ELSE brk_max_size
    /\ break' = addr
    /\ grants' = CutAt(addr)

MoveBreak(addr) ==
    /\ HPBR!Resize(addr)
    /\ brk_max_size' = IF brk_max_size < size' THEN size' ELSE brk_max_size
    /\ break' = addr
    /\ grants' = CutAt(addr)

\* ChangeProgramBreak(addr), and the end of the hook brk.
ChangeProgramBreak(t) ==
    /\ pc[t] \in {"brk body", "sbrk body"}
    /\ IF Succeeds(new_brk[t]) THEN MoveBreak(new_brk[t])
       ELSE UNCHANGED <<heap, break, grants>>
    /\ brk_mutex' = NoThread
    /\ Goto(t, IF pc[t] = "brk body" THEN "idle"
               ELSE IF Succeeds(new_brk[t]) THEN "sbrk done" ELSE "sbrk failed")
    /\ UNCHANGED <<brk_top, sbrk_mutex, new_brk, calls, usage>>

\* The program stores to memory that sbrk gave it.
Write(o) ==
    /\ \E g \in grants : g.start <= o /\ o < g.end
    /\ HPBR!Write(o)
    /\ UNCHANGED <<brk_max_size, globals, pc, new_brk, calls, break, grants, usage>>

Step(t) ==
    \/ SbrkLock(t) \/ SbrkFailed(t) \/ SbrkReturn(t)
    \/ BrkLock(t) \/ ChangeProgramBreak(t)

Next ==
    \/ \E t \in Threads : SbrkCall(t) \/ BrkCall(t) \/ Step(t)
    \/ \E o \in HPBR!Offsets : Write(o)

\* The scheduler runs every thread that can run; nothing makes the program call.
Fairness == \A t \in Threads : WF_vars(Step(t))

Spec == Init /\ [][Next]_vars /\ Fairness

-------------------------------------------------------------------------------
(* Properties.                                                             *)

Labels == {"idle", "sbrk lock", "sbrk brk", "sbrk body", "sbrk done", "sbrk failed",
           "brk", "brk body"}

\* The region: memory exactly up to its size.
RegionOK ==
    /\ max = PoolSize /\ ends \in Layouts
    /\ size \in 0 .. PoolSize
    /\ data \in [HPBR!Offsets -> {"none", "zero", "data"}]
    /\ \A o \in HPBR!Offsets : data[o] = "none" <=> o >= size
    /\ brk_max_size \in size .. PoolSize

ThreadsOK ==
    /\ pc \in [Threads -> Labels]
    /\ new_brk \in [Threads -> Int]
    /\ calls \in [Threads -> 0 .. MaxCalls]
    /\ break \in 0 .. PoolSize
    /\ usage \in Usages

\* Each mutex is held by the thread, if any, that is between its lock and its
\* unlock.
MutexesOK ==
    \A t \in Threads :
       /\ sbrk_mutex = t <=> pc[t] \in {"sbrk brk", "sbrk body", "sbrk done", "sbrk failed"}
       /\ brk_mutex = t <=> pc[t] \in {"brk body", "sbrk body"}

\* Type correctness, with the holders of the mutexes.
TypeOK == RegionOK /\ ThreadsOK /\ MutexesOK

\* Programs that only use sbrk (malloc does) get ranges that do not overlap,
\* whichever threads call it, and whichever calls fail or shrink the heap.
GrantsApart ==
    usage = "sbrk" =>
        \A g, h \in grants : g = h \/ g.end <= h.start \/ h.end <= g.start

\* To such programs, memory that sbrk gave and no later break has cut is mapped.
GrantsBacked == usage = "sbrk" => \A g \in grants : g.end <= size

\* "On success, sbrk() returns the previous program break" (hooks.cc:206):
\* when a call moves the break, the value it will return, brk_top, is the
\* break that was in force until then.
ReturnsPreviousBreak ==
    [][\A t \in Threads :
          (pc[t] = "sbrk body" /\ pc'[t] = "sbrk done") => brk_top = break]_vars

\* The same, of programs that leave brk alone.
SbrkReturnsPreviousBreak ==
    [][\A t \in Threads :
          (usage = "sbrk" /\ pc[t] = "sbrk body" /\ pc'[t] = "sbrk done")
              => brk_top = break]_vars

\* What the program stored on the heap is lost only when a break cuts it.
HeapKept ==
    [][\A o \in HPBR!Offsets :
          (data[o] = "data" /\ data'[o] # "data") => o >= break']_vars

\* Every call returns: the nested mutexes neither deadlock nor stay locked.
EveryCallReturns == \A t \in Threads : pc[t] # "idle" ~> pc[t] = "idle"
===============================================================================
