------------------------------- MODULE StartupProofs -------------------------------
(***************************************************************************)
(* Proofs about Startup, for any number of threads: who may be inside the  *)
(* pools, and when; and about MallocInit, the start of the malloc that the *)
(* standalone build brings along.                                          *)
(***************************************************************************)
EXTENDS Startup, MallocInit, TLAPS

\* Where the loading thread is inside activate_mosalloc.
Activation == {"activate", "setup", "reset", "malloc", "test", "publish"}
Construction == {"allocator", "fill", "shrink"}
Over == {"exiting", "aborted"}

\* What is left to run, by which constructor is first.
Orders ==
    /\ first = "allocator" =>
         todo \in {<<"allocator", "activate">>, <<"activate">>, <<>>}
    /\ first = "activate" =>
         todo \in {<<"activate", "allocator">>, <<"allocator">>, <<>>}

\* Type correctness, as far as the proofs need it.
Types ==
    /\ build \in {"preload", "standalone"} /\ orted \in BOOLEAN
    /\ first \in {"allocator", "activate"}
    /\ is_library_initialized \in BOOLEAN /\ isInitialized \in BOOLEAN
    /\ regions \in {"none", "full", "ready"}
    /\ main \in {"load", "running"} \cup Activation \cup Construction \cup Over
    /\ pc \in [Threads -> {"idle", "pools", "glibc"}]
    /\ op \in [Threads -> Hooks \cup {"none", "malloc"}]
    /\ maps \in [{"glibc", "pools"} -> Int]
    /\ Orders

\* activate_mosalloc is still to be called.
Pending == todo \in {<<"allocator", "activate">>, <<"activate", "allocator">>, <<"activate">>}

\* It is called once, and in the standalone build the flag is set by Publish and
\* not before.
FlagSetLast ==
    /\ main \in Activation => ~Pending
    /\ build = "standalone" /\ (main \in Activation \/ Pending) => ~is_library_initialized

\* Whoever is inside the pools, or has a mapping from there, was let in, and
\* nobody is shut out before the process ends.
Inside ==
    main \notin Over =>
        /\ maps["pools"] > 0 => Served
        /\ \A t \in Threads :
             /\ pc[t] = "pools" => Served
             /\ op[t] \in OpsOn["pools"] => pc[t] = "pools"

\* If the allocator is constructed first, it is complete before the library is
\* activated, which orted never is.
ConstructedFirst ==
    first = "allocator" /\ main \notin Over =>
        /\ todo = <<"allocator", "activate">> => main = "load"
        /\ todo = <<"activate">> => main \in Construction \cup {"load"}
        /\ main \in Construction => todo = <<"activate">>
        /\ todo = <<"activate">> /\ main = "load" => regions = "ready"
        /\ todo = <<>> => regions = "ready"
        /\ main \in Activation => ~orted /\ todo = <<>>
        /\ build = "standalone" /\ is_library_initialized => ~orted /\ todo = <<>>

StartInv == Types /\ FlagSetLast /\ Inside /\ ConstructedFirst

\* The names of the hooks.
LEMMA OpNames ==
    /\ OpsOn["pools"] = {"munmap_pools", "mprotect_pools"}
    /\ OpsOn["glibc"] = {"munmap_glibc", "mprotect_glibc"}
    /\ Munmap["pools"] = "munmap_pools" /\ Munmap["glibc"] = "munmap_glibc"
    /\ Hooks = {"mmap", "munmap_glibc", "mprotect_glibc", "munmap_pools", "mprotect_pools"}
<1>1. /\ Munmap["pools"] = "munmap_pools" /\ Munmap["glibc"] = "munmap_glibc"
      /\ Mprotect["pools"] = "mprotect_pools" /\ Mprotect["glibc"] = "mprotect_glibc"
    BY DEF Munmap, Mprotect
<1>2. OpsOn["pools"] = {Munmap["pools"], Mprotect["pools"]}
    BY DEF OpsOn
<1>3. OpsOn["glibc"] = {Munmap["glibc"], Mprotect["glibc"]}
    BY DEF OpsOn
<1> QED BY <1>1, <1>2, <1>3 DEF Hooks

LEMMA InitInv == Init => StartInv
<1> SUFFICES ASSUME Init PROVE StartInv
    OBVIOUS
<1>1. Types
    <2>1. Orders
        BY DEF Init, Orders
    <2>2. maps \in [{"glibc", "pools"} -> Int]
        BY DEF Init
    <2>3. op \in [Threads -> Hooks \cup {"none", "malloc"}]
        BY DEF Init
    <2> QED BY <2>1, <2>2, <2>3 DEF Init, Types, Activation, Construction, Over
<1>2. FlagSetLast /\ ConstructedFirst
    BY DEF Init, FlagSetLast, ConstructedFirst, Activation, Construction, Over
<1>3. Inside
    BY OpNames DEF Init, Inside, Over
<1> QED BY <1>1, <1>2, <1>3 DEF StartInv

\* The loading thread: what is left to run only gets shorter, and the flags are
\* only set.
LEMMA LoadInv == StartInv /\ Load => StartInv'
<1> SUFFICES ASSUME StartInv, Load PROVE StartInv'
    OBVIOUS
<1>1. CASE todo = <<>>
    BY <1>1 DEF StartInv, Types, Orders, FlagSetLast, Pending, Inside, ConstructedFirst,
        Activation, Construction, Over, Load, config, flags, heap, threads, Served
<1>2. CASE todo = <<"allocator", "activate">>
    BY <1>2 DEF StartInv, Types, Orders, FlagSetLast, Pending, Inside, ConstructedFirst,
        Activation, Construction, Over, Load, config, flags, heap, threads, Served
<1>3. CASE todo = <<"activate", "allocator">>
    BY <1>3 DEF StartInv, Types, Orders, FlagSetLast, Pending, Inside, ConstructedFirst,
        Activation, Construction, Over, Load, config, flags, heap, threads, Served
<1>4. CASE todo = <<"activate">>
    BY <1>4 DEF StartInv, Types, Orders, FlagSetLast, Pending, Inside, ConstructedFirst,
        Activation, Construction, Over, Load, config, flags, heap, threads, Served
<1>5. CASE todo = <<"allocator">>
    BY <1>5 DEF StartInv, Types, Orders, FlagSetLast, Pending, Inside, ConstructedFirst,
        Activation, Construction, Over, Load, config, flags, heap, threads, Served
<1> QED BY <1>1, <1>2, <1>3, <1>4, <1>5 DEF StartInv, Types, Orders

LEMMA MainInv == StartInv /\ (MainStep \/ Exit) => StartInv'
<1> SUFFICES ASSUME StartInv, MainStep \/ Exit PROVE StartInv'
    OBVIOUS
<1> USE DEF StartInv, Types, Orders, FlagSetLast, Pending, Inside, ConstructedFirst,
    Activation, Construction, Over, Served, Main, config, flags, heap, threads
<1>1. CASE Load
    BY <1>1, LoadInv
<1>2. CASE ConstructAllocator
    BY <1>2 DEF ConstructAllocator
<1>3. CASE FillRegions
    <2>1. Types'
        BY <1>3 DEF FillRegions
    <2>2. FlagSetLast'
        BY <1>3 DEF FillRegions
    <2>3. Inside'
        BY <1>3 DEF FillRegions
    <2>4. ConstructedFirst'
        <3>1. main = "fill" /\ main' = "shrink"
              /\ UNCHANGED <<build, orted, first, todo, is_library_initialized>>
            BY <1>3 DEF FillRegions
        <3>2. first = "allocator" =>
                 /\ todo = <<"activate">>
                 /\ ~(build = "standalone" /\ is_library_initialized)
            BY <3>1
        <3> QED BY ONLY <3>1, <3>2 DEF ConstructedFirst
    <2> QED BY <2>1, <2>2, <2>3, <2>4
<1>4. CASE ShrinkRegions
    BY <1>4 DEF ShrinkRegions
<1>5. CASE Activate
    BY <1>5 DEF Activate
<1>6. CASE SetupMorecore
    BY <1>6 DEF SetupMorecore
<1>7. CASE Reset
    BY <1>7 DEF Reset
<1>8. CASE MallocSlot
    BY <1>8 DEF MallocSlot
<1>9. CASE MallocSystem
    BY <1>9 DEF MallocSystem
<1>10. CASE Test
    BY <1>10 DEF Test
<1>11. CASE Publish
    <2>1. Types'
        BY <1>11 DEF Publish
    <2>2. FlagSetLast'
        BY <1>11 DEF Publish
    <2>3. Inside'
        <3>1. main \notin Over /\ UNCHANGED <<maps, pc, op>> /\ Inside
            BY <1>11 DEF Publish
        <3>2. Served => Served'
            BY <1>11 DEF Publish
        <3> QED BY <3>1, <3>2
    <2>4. ConstructedFirst'
        BY <1>11 DEF Publish
    <2> QED BY <2>1, <2>2, <2>3, <2>4
<1>12. CASE Exit
    <2>1. Types'
        BY <1>12 DEF Exit
    <2>2. FlagSetLast'
        BY <1>12 DEF Exit
    <2>3. main' \in Over
        BY <1>12 DEF Exit
    <2>4. Inside' /\ ConstructedFirst'
        BY <2>3
    <2> QED BY <2>1, <2>2, <2>3, <2>4
<1> HIDE DEF StartInv
<1> QED BY <1>1, <1>2, <1>3, <1>4, <1>5, <1>6, <1>7, <1>8, <1>9, <1>10, <1>11, <1>12
        DEF MainStep

\* A thread changes none of the flags, and gets into the pools by Served only.
LEMMA ThreadInv == ASSUME NEW t \in Threads, StartInv, ThreadStep(t) PROVE StartInv'
<1> USE DEF StartInv, Types, Orders, FlagSetLast, Pending, Inside, ConstructedFirst,
    Activation, Construction, Over, Served, config, flags, heap, threads,
    OpsOn, Munmap, Mprotect, Hooks
<1>1. ASSUME NEW o \in Hooks, Call(t, o) PROVE StartInv'
    <2>1. Types'
        BY <1>1 DEF Call
    <2>2. FlagSetLast' /\ ConstructedFirst'
        BY <1>1 DEF Call
    <2>3. Inside'
        BY <1>1 DEF Call
    <2> QED BY <2>1, <2>2, <2>3
<1>2. CASE MallocFits(t)
    BY <1>2 DEF MallocFits
<1>3. CASE MallocExtends(t)
    BY <1>3 DEF MallocExtends
<1>4. CASE Free(t)
    BY <1>4 DEF Free
<1>5. CASE Serve(t)
    BY <1>5 DEF Serve, Back
<1>6. CASE AssertionFails(t)
    BY <1>6 DEF AssertionFails
<1> HIDE DEF StartInv
<1> QED BY <1>1, <1>2, <1>3, <1>4, <1>5, <1>6 DEF ThreadStep

LEMMA StepInv == StartInv /\ [Next]_vars => StartInv'
<1>1. StartInv /\ UNCHANGED vars => StartInv'
    BY DEF vars, config, flags, heap, threads, StartInv, Types, Orders, FlagSetLast,
        Pending, Inside, ConstructedFirst, Activation, Construction, Over, Served
<1> QED BY <1>1, MainInv, ThreadInv DEF Next

LEMMA InvHolds == Spec => []StartInv
BY InitInv, StepInv, PTL DEF Spec

\* However many threads call the hooks meanwhile: in the standalone build, with
\* the allocator constructed first, nobody is in pools that are not ready, nor
\* is orted in them at all (Served in the copy of hooks.cc).
THEOREM ReadyBeforeUseHolds == Spec => []ReadyBeforeUse
<1>1. StartInv => ReadyBeforeUse
    BY DEF StartInv, Types, Orders, Inside, ConstructedFirst, Over, Served, ReadyBeforeUse
<1> QED BY InvHolds, <1>1, PTL

\* However many threads map and unmap during startup and after it, a call that
\* is about a range of a pool goes to the pools (the first lines of each hook).
THEOREM PoolRangesAlwaysStayInside == Spec => []PoolRangesStayInside
<1>1. StartInv => PoolRangesStayInside
    BY DEF StartInv, Inside, Over, PoolRangesStayInside
<1> QED BY InvHolds, <1>1, PTL

-------------------------------------------------------------------------------
(* What is left in malloc's heap.                                          *)

\* malloc's heap gets no more slots than are freed: it has no more of the others,
\* and no thread is about to add a page of the system heap to it.
Drained ==
    /\ slots <= freed
    /\ \A t \in Threads : ~(op[t] = "malloc" /\ pc[t] = "glibc")

\* Once the library's morecore is set and the pools are there, the request of the
\* loop asks for more when the slots have run out; from then on malloc gets
\* nothing from the system heap.  The loop ends when the flag is set, by this
\* request or another one.
Emptied ==
    build = "preload" /\ first = "allocator" /\ ~orted /\ main \notin Over =>
        /\ main \in {"reset", "malloc", "test", "publish"} => morecore = "mosalloc"
        /\ Consumed => morecore = "mosalloc" /\ interceptor # "none"
        /\ Consumed \/ main \in {"malloc", "test"} => (interceptor = "loader" => Drained)

\* The flag of the allocator is set before it maps anything.
FlagSetFirst ==
    main \notin Over =>
        /\ regions # "none" => isInitialized
        /\ main \in {"fill", "shrink"} => isInitialized

DrainInv ==
    /\ slots \in Nat /\ pool_slots \in Nat /\ freed \in Nat
    /\ alloc_request_intercepted \in BOOLEAN /\ interceptor \in {"none", "loader", "other"}
    /\ alloc_request_intercepted <=> interceptor # "none"
    /\ FlagSetFirst /\ Emptied

LEMMA InitDrain == Init => DrainInv
<1> SUFFICES ASSUME Init PROVE DrainInv
    OBVIOUS
<1>1. slots \in Nat /\ pool_slots \in Nat /\ freed \in Nat
    BY StartupAssumption DEF Init
<1>2. /\ ~alloc_request_intercepted /\ alloc_request_intercepted \in BOOLEAN
      /\ interceptor = "none" /\ FlagSetFirst
    BY DEF Init, FlagSetFirst
<1>3. main = "load" /\ (first = "allocator" => todo = <<"allocator", "activate">>)
    BY DEF Init
<1>4. Emptied
    BY <1>3 DEF Emptied, Consumed
<1> QED BY <1>1, <1>2, <1>4 DEF DrainInv

\* While the library is activated the pools serve malloc.
LEMMA ServedWhenActivated ==
    ASSUME StartInv, DrainInv, build = "preload", first = "allocator",
           main \in Activation \/ Consumed
    PROVE  Served
<1>1. main \notin Over
    BY DEF Activation, Consumed, Over
<1>2. ConstructedFirst
    BY DEF StartInv
<1>3. todo = <<>> /\ regions = "ready"
    BY <1>1, <1>2 DEF ConstructedFirst, Consumed
<1>4. isInitialized
    BY <1>1, <1>3 DEF DrainInv, FlagSetFirst
<1> QED BY <1>4 DEF Served

LEMMA MainDrain == StartInv /\ DrainInv /\ (MainStep \/ Exit) => DrainInv'
<1> SUFFICES ASSUME StartInv, DrainInv, MainStep \/ Exit PROVE DrainInv'
    OBVIOUS
<1> USE DEF DrainInv, FlagSetFirst, Emptied, Consumed, Drained, Over, Main,
    config, flags, heap, threads
<1>1. CASE Load
    <2>1. todo \in {<<"allocator", "activate">>, <<"activate", "allocator">>,
                    <<"activate">>, <<"allocator">>, <<>>}
        BY DEF StartInv, Types, Orders
    <2>2. first = "allocator" => todo \in {<<"allocator", "activate">>, <<"activate">>, <<>>}
        BY DEF StartInv, Types, Orders
    <2>3. CASE todo = <<>>
        BY <1>1, <2>3 DEF Load
    <2>4. CASE todo = <<"activate">>
        BY <1>1, <2>4 DEF Load
    <2>5. CASE todo \in {<<"allocator", "activate">>, <<"allocator">>}
        BY <1>1, <2>5 DEF Load
    <2>6. CASE todo = <<"activate", "allocator">>
        BY <1>1, <2>2, <2>6 DEF Load
    <2> QED BY <2>1, <2>3, <2>4, <2>5, <2>6
<1>2. CASE ConstructAllocator
    BY <1>2 DEF ConstructAllocator
<1>3. CASE FillRegions
    BY <1>3 DEF FillRegions
<1>4. CASE ShrinkRegions
    BY <1>4 DEF ShrinkRegions, StartInv, ConstructedFirst, Construction
<1>5. CASE Activate
    BY <1>5 DEF Activate
<1>6. CASE SetupMorecore
    BY <1>6 DEF SetupMorecore
<1>7. CASE Reset
    BY <1>7 DEF Reset
<1>8. CASE MallocSlot
    <2>1. build = "preload" /\ first = "allocator" => Served
        BY <1>8, ServedWhenActivated DEF MallocSlot, Activation
    <2>2. /\ main = "malloc" /\ main' = "test" /\ build = "preload" /\ ArenaFree
          /\ UNCHANGED <<build, orted, first, todo, isInitialized, regions, morecore,
                         freed, pc, op>>
        BY <1>8 DEF MallocSlot
    <2>3. FlagSetFirst'
        BY <2>2
    <2>4. \A u \in Threads : op[u] # "malloc"
        BY <2>2 DEF ArenaFree
    <2>5. first = "allocator" /\ ~orted => morecore' = "mosalloc"
        BY <2>2
    <2>6. CASE slots + pool_slots > 0
        <3>1. Fits(1) /\ UNCHANGED <<alloc_request_intercepted, interceptor>>
            BY <1>8, <2>6 DEF MallocSlot
        <3>2. slots' \in Nat /\ pool_slots' \in Nat /\ slots' <= slots
            BY <3>1 DEF Fits
        <3>3. first = "allocator" /\ ~orted /\ interceptor = "loader" => slots <= freed
            BY <2>2
        <3>4. first = "allocator" /\ ~orted /\ interceptor' = "loader" => Drained'
            <4>1. first = "allocator" /\ ~orted /\ interceptor' = "loader" => slots' <= freed'
                BY <2>2, <3>1, <3>2, <3>3
            <4> QED BY <2>2, <2>4, <4>1
        <3>5. Emptied'
            <4>1. main' = "test" /\ ~Consumed' /\ UNCHANGED <<build, orted, first>>
                BY <2>2
            <4> HIDE DEF Consumed, Drained
            <4> QED BY <2>5, <3>4, <4>1
        <3> QED BY <2>2, <2>3, <3>1, <3>2, <3>5
    <2>7. CASE ~(slots + pool_slots > 0)
        <3>1. /\ alloc_request_intercepted' = TRUE /\ interceptor' = "loader"
              /\ IF Served THEN pool_slots' = PageSlots - 1 /\ UNCHANGED slots
                           ELSE slots' = PageSlots - 1 /\ UNCHANGED pool_slots
            BY <1>8, <2>7 DEF MallocSlot
        <3>2. slots = 0 /\ slots' \in Nat /\ pool_slots' \in Nat
            BY <2>7, <3>1 DEF PageSlots
        <3>3. first = "allocator" => slots' <= freed'
            BY <2>1, <2>2, <3>1, <3>2
        <3>4. first = "allocator" => Drained'
            BY <2>2, <2>4, <3>3
        <3>5. Emptied'
            <4>1. main' = "test" /\ ~Consumed' /\ UNCHANGED <<build, orted, first>>
                BY <2>2
            <4> HIDE DEF Consumed, Drained
            <4> QED BY <2>5, <3>4, <4>1
        <3> QED BY <2>2, <2>3, <3>1, <3>2, <3>5
    <2> QED BY <2>6, <2>7
<1>9. CASE MallocSystem
    BY <1>9 DEF MallocSystem
<1>10. CASE Test
    BY <1>10 DEF Test
<1>11. CASE Publish
    BY <1>11 DEF Publish
<1>12. CASE Exit
    BY <1>12 DEF Exit
<1> QED BY <1>1, <1>2, <1>3, <1>4, <1>5, <1>6, <1>7, <1>8, <1>9, <1>10, <1>11, <1>12
        DEF MainStep

LEMMA ThreadDrain ==
    ASSUME NEW t \in Threads, StartInv, DrainInv, ThreadStep(t)
    PROVE  DrainInv'
<1> USE DEF DrainInv, FlagSetFirst, Emptied, Consumed, Drained, Over,
    config, flags, heap, threads
<1>1. ASSUME NEW o \in Hooks, Call(t, o) PROVE DrainInv'
    <2>1. o # "malloc"
        BY OpNames
    <2> QED BY <1>1, <2>1 DEF Call, StartInv, Types
<1>2. CASE MallocFits(t)
    <2>1. PICK n \in 1 .. slots + pool_slots : Fits(n)
        BY <1>2 DEF MallocFits
    <2>2. slots' \in Nat /\ pool_slots' \in Nat /\ slots' <= slots
        BY <2>1 DEF Fits
    <2>3. UNCHANGED <<config, todo, main, flags, morecore, alloc_request_intercepted,
                      interceptor, freed, pc, op>>
        BY <1>2 DEF MallocFits
    <2>4. Drained => Drained'
        BY <2>2, <2>3
    <2> QED BY <2>2, <2>3, <2>4
<1>3. CASE MallocExtends(t)
    <2>1. build = "preload" /\ first = "allocator" /\ (main \in Activation \/ Consumed) => Served
        BY ServedWhenActivated
    <2>2. /\ \A u \in Threads : op[u] # "malloc"
          /\ pc \in [Threads -> {"idle", "pools", "glibc"}]
          /\ op \in [Threads -> Hooks \cup {"none", "malloc"}]
        BY <1>3 DEF MallocExtends, ArenaFree, StartInv, Types
    <2>3. /\ pc' = [pc EXCEPT ![t] = IF morecore = "mosalloc" /\ Served
                                     THEN "pools" ELSE "glibc"]
          /\ op' = [op EXCEPT ![t] = "malloc"]
          /\ alloc_request_intercepted' = (alloc_request_intercepted \/ morecore = "mosalloc")
          /\ interceptor' = IF morecore = "mosalloc" /\ interceptor = "none" THEN "other"
                            ELSE interceptor
          /\ UNCHANGED <<slots, pool_slots, freed, main, morecore, todo, config, flags>>
        BY <1>3 DEF MallocExtends
    <2>4. interceptor' = "loader" => interceptor = "loader"
        BY <2>3
    <2>5. build = "preload" /\ first = "allocator" /\ ~orted /\ morecore = "mosalloc"
            /\ (main \in {"malloc", "test"} \/ Consumed) => (slots <= freed => Drained')
        BY <2>1, <2>2, <2>3 DEF Activation
    <2>6. Emptied'
        BY <2>3, <2>4, <2>5
    <2> QED BY <2>3, <2>6
<1>4. CASE Free(t)
    BY <1>4 DEF Free
<1>5. CASE Serve(t)
    <2>1. /\ op' = [op EXCEPT ![t] = "none"] /\ pc' = [pc EXCEPT ![t] = "idle"]
          /\ UNCHANGED <<config, todo, main, flags, morecore, alloc_request_intercepted,
                         interceptor, freed>>
        BY <1>5 DEF Serve, Back
    <2>2. PICK n \in 0 .. (IF op[t] = "malloc" THEN PageSlots - 1 ELSE 0) :
              IF pc[t] = "pools" THEN pool_slots' = pool_slots + n /\ UNCHANGED slots
                                 ELSE slots' = slots + n /\ UNCHANGED pool_slots
        BY <1>5 DEF Serve
    <2>3. n \in Nat /\ (op[t] # "malloc" => n = 0)
        BY <2>2 DEF PageSlots
    <2>4. slots' \in Nat /\ pool_slots' \in Nat
        BY <2>2, <2>3
    <2>5. Drained => Drained'
        <3>1. pc[t] \in {"pools", "glibc"}
            BY <1>5 DEF Serve, StartInv, Types
        <3>2. Drained => slots' = slots
            BY <2>2, <2>3, <3>1
        <3> QED BY <2>1, <3>2 DEF StartInv, Types
    <2> QED BY <2>1, <2>4, <2>5
<1>6. CASE AssertionFails(t)
    BY <1>6 DEF AssertionFails
<1> QED BY <1>1, <1>2, <1>3, <1>4, <1>5, <1>6 DEF ThreadStep

LEMMA StepDrain == StartInv /\ DrainInv /\ [Next]_vars => DrainInv'
<1>1. DrainInv /\ UNCHANGED vars => DrainInv'
    BY DEF vars, config, flags, heap, threads, DrainInv, FlagSetFirst, Emptied, Consumed,
        Drained, Over
<1> QED BY <1>1, MainDrain, ThreadDrain DEF Next

\* For any number of threads that allocate and free meanwhile and any number of
\* slots: if malloc still has more of the system heap than was freed meanwhile when
\* the preloaded library is active, a request of another thread set the flag between
\* the last reset and the test (consume_glibc_free_slots).
THEOREM NothingIsLeftOver == Spec => []NothingLeftOver
<1>1. DrainInv => NothingLeftOver
    <2> SUFFICES ASSUME DrainInv, build = "preload", first = "allocator", ~orted, Consumed
                 PROVE  slots <= freed \/ interceptor = "other"
        BY DEF NothingLeftOver
    <2>1. main \notin Over
        BY DEF Consumed, Over
    <2> QED BY <2>1 DEF DrainInv, Emptied, Drained
<1> QED BY <1>1, InitInv, InitDrain, StepInv, StepDrain, PTL DEF Spec

\* Type correctness, for any number of threads; the flag says whether a request has
\* been intercepted (mosalloc_morecore).
THEOREM StartupTypeCorrect == Spec => []TypeOK
<1>1. StartInv /\ DrainInv => TypeOK
    BY DEF StartInv, Types, DrainInv, TypeOK
<1> QED BY <1>1, InitInv, InitDrain, StepInv, StepDrain, PTL DEF Spec

-------------------------------------------------------------------------------
(* MallocInit.                                                             *)

\* The flags say how far the initialization has come: no thread has begun
\* until malloc_init_in_progress is set, one is at it until malloc_inited is,
\* and from then on the arena is ready.
FlagsTell ==
    /\ malloc_init_in_progress = 0 =>
          /\ malloc_inited = 0 /\ arena.inits = 0
          /\ \A t \in Callers : ~Initializing(t)
    /\ malloc_inited = 1 => arena.state = "ready"
    /\ \A t \in Callers :
          /\ Initializing(t) => malloc_inited = 0
          /\ place[t] = "init" => arena.inits = 0
          /\ place[t] = "publish" => arena.state = "ready"
          /\ place[t] = "allocator" /\ ensured[t] => malloc_inited = 1

\* The inductive invariant: of the properties, InitOnce is part of it and
\* InitBeforeUse follows.
MallocInv == CallTypeOK /\ FlagsTell /\ InitOnce

\* It holds at the start, and every step keeps it.
LEMMA MallocInitInv == CallInit => MallocInv
BY DEF CallInit, MallocInv, CallTypeOK, Labels, FlagsTell, InitOnce, Initializing

LEMMA MallocStepInv == MallocInv /\ [CallNext]_callVars => MallocInv'
<1> SUFFICES ASSUME MallocInv, [CallNext]_callVars PROVE MallocInv'
    OBVIOUS
<1> USE DEF MallocInv, CallTypeOK, Labels, FlagsTell, InitOnce, Initializing, Goto
<1>1. ASSUME NEW t \in Callers, CallEnsured(t) PROVE MallocInv'
    BY <1>1 DEF CallEnsured
<1>10. ASSUME NEW t \in Callers, CallAligned(t) PROVE MallocInv'
    BY <1>10 DEF CallAligned
<1>2. ASSUME NEW t \in Callers, TestInited(t) PROVE MallocInv'
    BY <1>2 DEF TestInited
<1>3. ASSUME NEW t \in Callers, Exchange(t) PROVE MallocInv'
    <2>1. /\ place[t] = "exchange" /\ malloc_init_in_progress' = 1
          /\ place' = [place EXCEPT ![t] = IF malloc_init_in_progress = 0 THEN "init" ELSE "spin"]
          /\ UNCHANGED <<malloc_inited, arena, ensured>>
        BY <1>3 DEF Exchange
    <2>2. CASE malloc_init_in_progress = 0
        <3>1. place' = [place EXCEPT ![t] = "init"] /\ malloc_inited = 0 /\ arena.inits = 0
            BY <2>1, <2>2
        <3>2. \A u \in Callers : ~Initializing(u)
            BY <2>2
        <3>3. CallTypeOK'
            BY <2>1, <3>1
        <3>4. FlagsTell'
            BY <2>1, <3>1, <3>2
        <3>5. InitOnce'
            BY <2>1, <3>1, <3>2
        <3> QED BY <3>3, <3>4, <3>5
    <2>3. CASE malloc_init_in_progress # 0
        <3>1. place' = [place EXCEPT ![t] = "spin"]
            BY <2>1, <2>3
        <3> QED BY <2>1, <2>3, <3>1
    <2> QED BY <2>2, <2>3
<1>4. ASSUME NEW t \in Callers, BeginInit(t) PROVE MallocInv'
    BY <1>4 DEF BeginInit
<1>5. ASSUME NEW t \in Callers, EndInit(t) PROVE MallocInv'
    BY <1>5 DEF EndInit
<1>6. ASSUME NEW t \in Callers, SetInited(t) PROVE MallocInv'
    BY <1>6 DEF SetInited
<1>7. ASSUME NEW t \in Callers, Spin(t) PROVE MallocInv'
    BY <1>7 DEF Spin
<1>8. ASSUME NEW t \in Callers, Return(t) PROVE MallocInv'
    BY <1>8 DEF Return
<1>9. CASE UNCHANGED callVars
    BY <1>9 DEF callVars
<1> HIDE DEF MallocInv
<1> QED BY <1>1, <1>2, <1>3, <1>4, <1>5, <1>6, <1>7, <1>8, <1>9, <1>10
    DEF CallNext, Step

LEMMA MallocInvHolds == CallSpec => []MallocInv
BY MallocInitInv, MallocStepInv, PTL DEF CallSpec

\* However many threads make their first call at once, __ptmalloc_init runs at
\* most once (ensure_ptmalloc_init, exports.c).
THEOREM InitializedOnce == CallSpec => []InitOnce
<1>1. MallocInv => InitOnce
    BY DEF MallocInv
<1> QED BY MallocInvHolds, <1>1, PTL

\* No call that goes through ensure_ptmalloc_init enters an allocator that is
\* not initialized, whether its thread initialized it, waited, or came later.
THEOREM InitializedBeforeUse == CallSpec => []InitBeforeUse
<1>1. MallocInv => InitBeforeUse
    BY DEF MallocInv, FlagsTell, InitBeforeUse
<1> QED BY MallocInvHolds, <1>1, PTL
===============================================================================
