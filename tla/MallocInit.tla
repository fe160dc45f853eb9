------------------------------- MODULE MallocInit -------------------------------
(***************************************************************************)
(* The standalone malloc that Mosalloc preloads: the wrappers of exports.c *)
(* initialize glibc's allocator on their first call, whichever thread      *)
(* makes it (ensure_ptmalloc_init).  The two flags are sequentially used   *)
(* atomics; a step is one access to one of them, or one external call.     *)
(***************************************************************************)
EXTENDS Integers

CONSTANT Callers

VARIABLES
    malloc_inited,             \* g_malloc_inited
    malloc_init_in_progress,   \* g_malloc_init_in_progress
    arena,                     \* what __ptmalloc_init has built, its calls counted
    place,                     \* where each thread is
    ensured                    \* does the thread's call go through ensure_ptmalloc_init?

callVars == <<malloc_inited, malloc_init_in_progress, arena, place, ensured>>

Goto(t, l) == place' = [place EXCEPT ![t] = l]

CallInit ==
    /\ malloc_inited = 0 /\ malloc_init_in_progress = 0
    /\ arena = [state |-> "none", inits |-> 0]
    /\ place = [t \in Callers |-> "idle"]
    /\ ensured = [t \in Callers |-> FALSE]

\* malloc, free, calloc, realloc and mallopt.
CallEnsured(t) ==
    /\ place[t] = "idle"
    /\ Goto(t, "test")
    /\ ensured' = [ensured EXCEPT ![t] = TRUE]
    /\ UNCHANGED <<malloc_inited, malloc_init_in_progress, arena>>

\* aligned_alloc and memalign call glibc's allocator right away.
CallAligned(t) ==
    /\ place[t] = "idle"
    /\ Goto(t, "allocator")
    /\ ensured' = [ensured EXCEPT ![t] = FALSE]
    /\ UNCHANGED <<malloc_inited, malloc_init_in_progress, arena>>

TestInited(t) ==
    /\ place[t] = "test"
    /\ Goto(t, IF malloc_inited = 1 THEN "allocator" ELSE "exchange")
    /\ UNCHANGED <<malloc_inited, malloc_init_in_progress, arena, ensured>>

\* Mutant: the flag is only read.
MutantExchange(t) ==
    /\ place[t] = "exchange"
    /\ Goto(t, IF malloc_init_in_progress = 0 THEN "init" ELSE "spin")
    /\ UNCHANGED <<malloc_inited, malloc_init_in_progress, arena, ensured>>

\* atomic_exchange: the first thread initializes, the others wait for it.
Exchange(t) ==
    /\ place[t] = "exchange"
    /\ malloc_init_in_progress' = 1
    /\ Goto(t, IF malloc_init_in_progress = 0 THEN "init" ELSE "spin")
    /\ UNCHANGED <<malloc_inited, arena, ensured>>

\* __ptmalloc_init begins and ends; in between the arena is half built.
BeginInit(t) ==
    /\ place[t] = "init"
    /\ arena' = [state |-> "half", inits |-> arena.inits + 1]
    /\ Goto(t, "initializing")
    /\ UNCHANGED <<malloc_inited, malloc_init_in_progress, ensured>>

EndInit(t) ==
    /\ place[t] = "initializing"
    /\ arena' = [arena EXCEPT !.state = "ready"]
    /\ Goto(t, "publish")
    /\ UNCHANGED <<malloc_inited, malloc_init_in_progress, ensured>>

\* Mutant: the flag the others wait for is never set.
MutantSetInited(t) ==
    /\ place[t] = "publish"
    /\ Goto(t, "allocator")
    /\ UNCHANGED <<malloc_inited, malloc_init_in_progress, arena, ensured>>

SetInited(t) ==
    /\ place[t] = "publish"
    /\ malloc_inited' = 1
    /\ Goto(t, "allocator")
    /\ UNCHANGED <<malloc_init_in_progress, arena, ensured>>

\* Mutant: the wait is for the thread that began, not for it to end.
MutantSpin(t) ==
    /\ place[t] = "spin" /\ malloc_init_in_progress = 1
    /\ Goto(t, "allocator")
    /\ UNCHANGED <<malloc_inited, malloc_init_in_progress, arena, ensured>>

\* The loop around pause: it is left when the flag is read as set.
Spin(t) ==
    /\ place[t] = "spin" /\ malloc_inited = 1
    /\ Goto(t, "allocator")
    /\ UNCHANGED <<malloc_inited, malloc_init_in_progress, arena, ensured>>

\* glibc's __libc_malloc and its like, until they return.
Return(t) ==
    /\ place[t] = "allocator"
    /\ Goto(t, "idle")
    /\ UNCHANGED <<malloc_inited, malloc_init_in_progress, arena, ensured>>

Step(t) ==
    \/ TestInited(t) \/ Exchange(t) \/ BeginInit(t) \/ EndInit(t)
    \/ SetInited(t) \/ Spin(t) \/ Return(t)

CallNext == \E t \in Callers : CallEnsured(t) \/ CallAligned(t) \/ Step(t)

\* The scheduler runs every thread that is inside a call.
CallFairness == \A t \in Callers : WF_callVars(Step(t))

CallSpec == CallInit /\ [][CallNext]_callVars /\ CallFairness

-------------------------------------------------------------------------------
(* Properties.                                                             *)

Labels == {"idle", "test", "exchange", "init", "initializing", "publish", "spin", "allocator"}

\* Type correctness.
CallTypeOK ==
    /\ malloc_inited \in {0, 1} /\ malloc_init_in_progress \in {0, 1}
    /\ arena \in [state : {"none", "half", "ready"}, inits : Nat]
    /\ place \in [Callers -> Labels]
    /\ ensured \in [Callers -> BOOLEAN]

Initializing(t) == place[t] \in {"init", "initializing", "publish"}

\* The allocator is initialized at most once, however many threads make their
\* first call at once: a second run would discard the arenas in use
\* ("be safe", exports.c:27).
InitOnce ==
    /\ arena.inits <= 1
    /\ \A t, u \in Callers : Initializing(t) /\ Initializing(u) => t = u

\* No call that goes through ensure_ptmalloc_init runs in an allocator that is
\* not, or only half, initialized.
InitBeforeUse ==
    \A t \in Callers : place[t] = "allocator" /\ ensured[t] => arena.state = "ready"

\* Every call returns: a thread that spins is released by the one that
\* initializes.
EveryCallReturns == \A t \in Callers : place[t] # "idle" ~> place[t] = "idle"
===============================================================================
