--------------------------------- MODULE Startup ---------------------------------
(***************************************************************************)
(* Start and end of the library: the static constructor of the global      *)
(* MemoryAllocator, the function constructor() of hooks.cc and, in the     *)
(* other build, of the standalone malloc's copy of it, while other threads *)
(* of the process already call the hooks.  The compiler leaves open which  *)
(* of the two constructors comes first, and so does the model.             *)
(***************************************************************************)
EXTENDS Integers, Sequences

CONSTANTS
    Threads,       \* threads besides the one that loads the library
    Slots,         \* how many free slots malloc may have had before
    SystemMemory,  \* what glibc's own malloc can give in the standalone build
    MaxMaps,       \* bound: mappings of a kind at a time
    MaxFrees,      \* bound: chunks of the system heap that are freed
    MaxSlots       \* bound: free slots beside which malloc extends the heap

ASSUME StartupAssumption ==
    /\ Slots \subseteq Nat
    /\ {SystemMemory, MaxMaps, MaxFrees, MaxSlots} \subseteq Nat

\* A page gives this many slots, each of the size that the loop asks for.
PageSlots == 2

VARIABLES
    build,      \* "preload" or "standalone"
    orted,      \* is the program called orted?
    first,      \* which of the two runs first, "allocator" or "activate"
    todo,       \* what is left to run, in order: "allocator", "activate"
    main,       \* where the loading thread is
    is_library_initialized,
    isInitialized,  \* MemoryAllocator::_isInitialized
    regions,    \* the pools: "none", "full" after their Initialize, "ready"
    morecore,   \* __morecore: "default" or "mosalloc"
    alloc_request_intercepted,
    chunk_size,
    slots,      \* free slots of malloc's that lie in the system heap
    pool_slots, \* and those that lie in the pools
    freed,      \* how many chunks of the system heap were freed
    sysmem,     \* what glibc's own malloc has left (standalone)
    interceptor, \* auxiliary: whose request has set alloc_request_intercepted
    maps,       \* the mappings the program has, by who made them
    pc, op      \* of each thread: where it is in a hook, and in which

config == <<build, orted, first>>
flags == <<is_library_initialized, isInitialized, regions>>
heap == <<morecore, alloc_request_intercepted, interceptor, chunk_size,
          slots, pool_slots, freed, sysmem>>
threads == <<maps, pc, op>>
vars == <<config, todo, main, flags, heap, threads>>

Init ==
    /\ build \in {"preload", "standalone"}
    /\ orted \in BOOLEAN
    /\ first \in {"allocator", "activate"}
    /\ todo = IF first = "allocator" THEN <<"allocator", "activate">>
              ELSE <<"activate", "allocator">>
    /\ main = "load"
    /\ is_library_initialized = FALSE /\ isInitialized = FALSE /\ regions = "none"
    /\ morecore = "default" /\ alloc_request_intercepted = FALSE
    /\ chunk_size = 1 /\ sysmem = SystemMemory
    /\ slots \in Slots /\ pool_slots = 0 /\ freed = 0
    /\ interceptor = "none"
    /\ maps = [k \in {"glibc", "pools"} |-> 0]
    /\ pc = [t \in Threads |-> "idle"] /\ op = [t \in Threads |-> "none"]

-------------------------------------------------------------------------------
(* The loading thread.                                                     *)

\* Mutant: the copy of the hooks tests what the first version tests.
MutantServed == isInitialized

\* The first lines of every hook: the pools or glibc?
Served ==
    /\ isInitialized
    /\ build = "standalone" => is_library_initialized

Main(from, to) == main = from /\ main' = to

\* The next constructor, or the return to the loader; orted is not activated.
Load ==
    /\ main = "load"
    /\ main' = IF todo = <<>> THEN "running"
               ELSE IF Head(todo) = "allocator" THEN "allocator"
               ELSE IF orted THEN "load" ELSE "activate"
    /\ todo' = IF todo = <<>> THEN todo ELSE Tail(todo)
    /\ UNCHANGED <<config, flags, heap, threads>>

\* MemoryAllocator(): the flag is set by the initializer list.
ConstructAllocator ==
    /\ Main("allocator", "fill")
    /\ isInitialized' = TRUE
    /\ UNCHANGED <<config, todo, is_library_initialized, regions, heap, threads>>

\* InitRegions maps all pools in full to learn their addresses ...
FillRegions ==
    /\ Main("fill", "shrink")
    /\ regions' = "full"
    /\ UNCHANGED <<config, todo, is_library_initialized, isInitialized, heap, threads>>

\* ... and ends with Resize(0) of each, which unmaps whatever is in them.
ShrinkRegions ==
    /\ Main("shrink", "load")
    /\ regions' = "ready"
    /\ UNCHANGED <<config, todo, is_library_initialized, isInitialized, heap, threads>>

\* activate_mosalloc: the preloaded build sets the flag first, the other last.
Activate ==
    /\ Main("activate", "setup")
    /\ is_library_initialized' = (build = "preload")
    /\ UNCHANGED <<config, todo, isInitialized, regions, heap, threads>>

\* setup_morecore; the mallopts take effect at once.
SetupMorecore ==
    /\ Main("setup", "reset")
    /\ morecore' = "mosalloc"
    /\ UNCHANGED <<config, todo, flags, alloc_request_intercepted, interceptor,
                   chunk_size, slots, pool_slots, freed, sysmem, threads>>

\* consume_glibc_free_slots, one iteration: reset, malloc, test.
Reset ==
    /\ Main("reset", "malloc")
    /\ alloc_request_intercepted' = FALSE /\ interceptor' = "none"
    /\ UNCHANGED <<config, todo, flags, morecore, chunk_size, slots, pool_slots,
                   freed, sysmem, threads>>

\* The arena's lock is held by a thread that extends the heap.
ArenaFree == \A t \in Threads : op[t] # "malloc"

\* malloc finds room for a request of n slots.
Fits(n) ==
    \/ n <= slots /\ slots' = slots - n /\ UNCHANGED pool_slots
    \/ n <= pool_slots /\ pool_slots' = pool_slots - n /\ UNCHANGED slots

\* Mutant: the chunks of the loop are freed again.
MutantMallocSlot ==
    /\ Main("malloc", "test") /\ build = "preload" /\ ArenaFree
    /\ alloc_request_intercepted' = (slots + pool_slots = 0)
    /\ interceptor' = IF slots + pool_slots = 0 THEN "loader" ELSE interceptor
    /\ UNCHANGED <<config, todo, flags, morecore, chunk_size, slots, pool_slots,
                   freed, sysmem, threads>>

\* glibc's malloc in the preloaded build takes a free slot, or extends the heap:
\* by the hook, which goes to the pools only if Served.
MallocSlot ==
    /\ Main("malloc", "test") /\ build = "preload" /\ ArenaFree
    /\ IF slots + pool_slots > 0
       THEN Fits(1) /\ UNCHANGED <<alloc_request_intercepted, interceptor>>
       ELSE /\ alloc_request_intercepted' = TRUE /\ interceptor' = "loader"
            /\ IF Served THEN pool_slots' = PageSlots - 1 /\ UNCHANGED slots
                         ELSE slots' = PageSlots - 1 /\ UNCHANGED pool_slots
    /\ UNCHANGED <<config, todo, flags, morecore, chunk_size, freed, sysmem, threads>>

\* In the standalone build dlsym finds the system's malloc, which knows nothing
\* of this library's __morecore.
MallocSystem ==
    /\ main = "malloc" /\ build = "standalone"
    /\ IF chunk_size <= sysmem
       THEN main' = "test" /\ sysmem' = sysmem - chunk_size
       ELSE main' = "publish" /\ UNCHANGED sysmem
    /\ UNCHANGED <<config, todo, flags, morecore, alloc_request_intercepted, interceptor,
                   chunk_size, slots, pool_slots, freed, threads>>

\* Mutant: the loop is left after the first chunk.
MutantTest ==
    /\ main = "test" /\ main' = "publish"
    /\ UNCHANGED <<config, todo, flags, heap, threads>>

\* In the standalone build the size is doubled, and the chunk that ended the
\* loop is freed: by the library's free, although it is the system's chunk.
\* That goes well or ends the process.
Test ==
    /\ main = "test"
    /\ IF ~alloc_request_intercepted
       THEN /\ main' = "reset"
            /\ chunk_size' = IF build = "standalone" THEN 2 * chunk_size ELSE chunk_size
       ELSE /\ main' \in {"publish"} \cup (IF build = "standalone" THEN {"aborted"} ELSE {})
            /\ UNCHANGED chunk_size
    /\ UNCHANGED <<config, todo, flags, morecore, alloc_request_intercepted, interceptor,
                   slots, pool_slots, freed, sysmem, threads>>

\* The end of activate_mosalloc.
Publish ==
    /\ Main("publish", "load")
    /\ is_library_initialized' = TRUE
    /\ UNCHANGED <<config, todo, isInitialized, regions, heap, threads>>

\* exit: destructor() and ~MemoryAllocator in either order; the latter ends
\* with the destructors of the allocators.
Exit ==
    /\ main \in {"running", "exiting"}
    /\ main' = "exiting"
    /\ \/ /\ is_library_initialized' = FALSE
          /\ UNCHANGED <<isInitialized, regions>>
       \/ /\ isInitialized' = FALSE /\ regions' = "none"
          /\ UNCHANGED is_library_initialized
    /\ UNCHANGED <<config, todo, heap, threads>>

MainStep ==
    \/ Load \/ ConstructAllocator \/ FillRegions \/ ShrinkRegions
    \/ Activate \/ SetupMorecore \/ Reset \/ MallocSlot \/ MallocSystem
    \/ Test \/ Publish

-------------------------------------------------------------------------------
(* The other threads.                                                      *)

\* The hooks; munmap and mprotect are of a mapping that the program has.
Munmap == [glibc |-> "munmap_glibc", pools |-> "munmap_pools"]
Mprotect == [glibc |-> "mprotect_glibc", pools |-> "mprotect_pools"]
OpsOn == [k \in {"glibc", "pools"} |-> {Munmap[k], Mprotect[k]}]
Hooks == {"mmap"} \cup OpsOn["glibc"] \cup OpsOn["pools"]

\* Mutant: mmap tests one flag, the others test the other.
MutantCall(t, o) ==
    /\ pc[t] = "idle"
    /\ \A k \in DOMAIN maps : o \in OpsOn[k] => maps[k] > 0
    /\ maps' = [k \in DOMAIN maps |-> IF o = Munmap[k] THEN maps[k] - 1 ELSE maps[k]]
    /\ pc' = [pc EXCEPT ![t] = IF IF o = "mmap" THEN Served ELSE is_library_initialized
                                    THEN "pools" ELSE "glibc"]
    /\ op' = [op EXCEPT ![t] = o]
    /\ UNCHANGED <<config, todo, main, flags, heap>>

\* A call of the hook o: its first lines decide where it goes.
Call(t, o) ==
    /\ pc[t] = "idle"
    /\ \A k \in DOMAIN maps : o \in OpsOn[k] => maps[k] > 0
    /\ maps' = [k \in DOMAIN maps |-> IF o = Munmap[k] THEN maps[k] - 1 ELSE maps[k]]
    /\ pc' = [pc EXCEPT ![t] = IF Served THEN "pools" ELSE "glibc"]
    /\ op' = [op EXCEPT ![t] = o]
    /\ UNCHANGED <<config, todo, main, flags, heap>>

\* malloc of any size that finds room among the free slots.
MallocFits(t) ==
    /\ pc[t] = "idle" /\ ArenaFree
    /\ \E n \in 1 .. slots + pool_slots : Fits(n)
    /\ UNCHANGED <<config, todo, main, flags, morecore, alloc_request_intercepted,
                   interceptor, chunk_size, freed, sysmem, threads>>

\* malloc of a size for which there is no room, be there smaller slots or none,
\* extends the heap: by glibc's own morecore, or by mosalloc_morecore, which sets
\* the flag that the loop shares with it and calls the hook sbrk.
MallocExtends(t) ==
    /\ pc[t] = "idle" /\ ArenaFree
    /\ slots + pool_slots <= MaxSlots
    /\ pc' = [pc EXCEPT ![t] = IF morecore = "mosalloc" /\ Served THEN "pools" ELSE "glibc"]
    /\ op' = [op EXCEPT ![t] = "malloc"]
    /\ alloc_request_intercepted' = (alloc_request_intercepted \/ morecore = "mosalloc")
    /\ interceptor' = IF morecore = "mosalloc" /\ interceptor = "none" THEN "other"
                      ELSE interceptor
    /\ UNCHANGED <<config, todo, main, flags, morecore, chunk_size, slots, pool_slots,
                   freed, sysmem, maps>>

\* free of a chunk that was given out before.
Free(t) ==
    /\ pc[t] = "idle" /\ ArenaFree
    /\ freed < MaxFrees
    /\ freed' = freed + 1 /\ slots' = slots + 1
    /\ UNCHANGED <<config, todo, main, flags, morecore, alloc_request_intercepted,
                   interceptor, chunk_size, pool_slots, sysmem, threads>>

Back(t) == pc' = [pc EXCEPT ![t] = "idle"] /\ op' = [op EXCEPT ![t] = "none"]

\* The call is carried out, and a mapping made, where the call went.  munmap of
\* a mapping that glibc made fails in the pools: the program still has it.  What
\* malloc does not need of the pages it gets is free.
Serve(t) ==
    /\ pc[t] # "idle"
    /\ pc[t] = "pools" => regions # "none"
    /\ Back(t)
    /\ LET made(k) == \/ op[t] = "mmap" /\ pc[t] = k
                      \/ op[t] = Munmap["glibc"] /\ pc[t] = "pools" /\ k = "glibc"
       IN maps' = [k \in DOMAIN maps |->
                      IF made(k) /\ maps[k] < MaxMaps THEN maps[k] + 1 ELSE maps[k]]
    /\ \E n \in 0 .. (IF op[t] = "malloc" THEN PageSlots - 1 ELSE 0) :
          IF pc[t] = "pools" THEN pool_slots' = pool_slots + n /\ UNCHANGED slots
                             ELSE slots' = slots + n /\ UNCHANGED pool_slots
    /\ UNCHANGED <<config, todo, main, flags, morecore, alloc_request_intercepted,
                   interceptor, chunk_size, freed, sysmem>>

\* The allocators assert that they are initialized.
AssertionFails(t) ==
    /\ pc[t] = "pools" /\ regions = "none"
    /\ main' = "aborted"
    /\ UNCHANGED <<config, todo, flags, heap, threads>>

ThreadStep(t) == \/ \E o \in Hooks : Call(t, o)
                 \/ MallocFits(t) \/ MallocExtends(t) \/ Free(t) \/ Serve(t) \/ AssertionFails(t)

Next == /\ main # "aborted"
        /\ MainStep \/ Exit \/ \E t \in Threads : ThreadStep(t)

\* The loading thread runs on, and so does a thread inside a call.
Fairness ==
    /\ WF_vars(main # "aborted" /\ MainStep)
    /\ \A t \in Threads : WF_vars(main # "aborted" /\ (Serve(t) \/ AssertionFails(t)))

Spec == Init /\ [][Next]_vars /\ Fairness

-------------------------------------------------------------------------------
(* Properties.                                                             *)

\* Type correctness.
TypeOK ==
    /\ build \in {"preload", "standalone"} /\ orted \in BOOLEAN
    /\ first \in {"allocator", "activate"}
    /\ is_library_initialized \in BOOLEAN /\ isInitialized \in BOOLEAN
    /\ regions \in {"none", "full", "ready"}
    /\ {slots, pool_slots, freed} \subseteq Nat
    /\ interceptor \in {"none", "loader", "other"}
    /\ alloc_request_intercepted <=> interceptor # "none"
    /\ pc \in [Threads -> {"idle", "pools", "glibc"}]
    /\ op \in [Threads -> Hooks \cup {"none", "malloc"}]

\* In the standalone build, whose hooks test a flag that is set last, no thread
\* gets into pools that are not there yet, or are still to be shrunk under it, if
\* the allocator is constructed first; nor does orted get there at all
\* (MemoryAllocator.h:35-49, hooks.cc:84-87 of the copy).
ReadyBeforeUse ==
    build = "standalone" /\ first = "allocator" /\ main \notin {"exiting", "aborted"} =>
        \A t \in Threads : pc[t] = "pools" => regions = "ready" /\ ~orted

\* A range of a pool never gets past the allocator's books to the kernel while
\* the program runs, though the mmap and the munmap or mprotect of it each
\* decide by themselves, during and after startup, where they go.
PoolRangesStayInside ==
    main \notin {"exiting", "aborted"} =>
        \A t \in Threads : op[t] \in OpsOn["pools"] => pc[t] = "pools"

\* "... we will consume all leftover free slots" (hooks.cc:63-65): in the
\* preloaded build, if the allocator is constructed first, all that malloc has of
\* the system heap when startup ends was freed meanwhile, or it was not the loop's
\* own request that ended it: another thread asked for more than there was room
\* for since the last reset of the flag.
Consumed == todo = <<>> /\ main \in {"publish", "load", "running"}
NothingLeftOver ==
    build = "preload" /\ first = "allocator" /\ ~orted /\ Consumed =>
        slots <= freed \/ interceptor = "other"

\* Startup ends, in the standalone build because the loop runs out of memory,
\* unless other threads keep malloc's lock from the loading thread for ever.
StartupEnds == (<>[]ArenaFree) => <>(main \in {"running", "exiting", "aborted"})
===============================================================================
