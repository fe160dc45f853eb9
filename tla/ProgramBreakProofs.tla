--------------------------- MODULE ProgramBreakProofs ---------------------------
(***************************************************************************)
(* Proofs about ProgramBreak, for every number of threads and calls, every *)
(* pool and every layout of its pages.                                     *)
(***************************************************************************)
EXTENDS ProgramBreak, TLAPS

\* Where a thread holds g_hook_sbrk_mutex, and where it holds g_hook_brk_mutex.
InSbrk == {"sbrk brk", "sbrk body", "sbrk done", "sbrk failed"}
InBrk == {"brk body", "sbrk body"}

\* What is known of the break in general ...
BreakMapped ==
    /\ grants \subseteq [start : Int, end : Int]
    /\ brk_top \in Int \cup {NULL}
    /\ break <= size
    /\ \A t \in Threads : pc[t] \in InSbrk => brk_top # NULL
    /\ brk_top = NULL /\ usage = "sbrk" => break = 0 /\ grants = {}

\* ... and, if nobody calls brk directly, of brk_top: it is the break except
\* between the move of the break and the end of sbrk, and no grant ends above
\* either of the two.
TopFollows ==
    usage = "sbrk" =>
        /\ \A t \in Threads : pc[t] \notin {"brk", "brk body"}
        /\ \A t \in Threads : pc[t] = "sbrk done" => break = new_brk[t]
        /\ brk_top # NULL /\ (\A t \in Threads : pc[t] # "sbrk done") => brk_top = break
        /\ \A g \in grants : g.end <= break /\ (brk_top # NULL => g.end <= brk_top)

\* The inductive invariant.
HeapInv == TypeOK /\ BreakMapped /\ TopFollows /\ GrantsApart

-------------------------------------------------------------------------------
LEMMA InitInv == Init => HeapInv
<1> SUFFICES ASSUME Init PROVE HeapInv
    OBVIOUS
<1>1. TypeOK
    BY PoolSizeAssumption, MaxCallsAssumption, NoValueAssumption
    DEF Init, TypeOK, RegionOK, ThreadsOK, MutexesOK, Labels, HPBR!Offsets
<1>2. BreakMapped /\ TopFollows /\ GrantsApart
    BY DEF Init, BreakMapped, TopFollows, GrantsApart, InSbrk
<1> QED BY <1>1, <1>2 DEF HeapInv

\* What a thread's step to another label does to the labels.
LEMMA GotoFacts ==
    ASSUME pc \in [Threads -> Labels], NEW t \in Threads, NEW l \in Labels, Goto(t, l)
    PROVE  /\ pc' \in [Threads -> Labels]
           /\ pc'[t] = l
           /\ \A u \in Threads : u # t => pc'[u] = pc[u]
BY DEF Goto

\* One more call of a thread that has calls left.
LEMMA CallsFacts ==
    ASSUME ThreadsOK, NEW t \in Threads, calls[t] < MaxCalls,
           calls' = [calls EXCEPT ![t] = @ + 1]
    PROVE  calls' \in [Threads -> 0 .. MaxCalls]
<1>1. calls \in [Threads -> 0 .. MaxCalls]
    BY DEF ThreadsOK
<1>2. calls[t] + 1 \in 0 .. MaxCalls
    BY <1>1, MaxCallsAssumption
<1> QED BY <1>1, <1>2

\* A successful move of the break leaves the pool mapped up to the new break.
LEMMA MoveFacts ==
    ASSUME RegionOK, NEW addr \in Int, Succeeds(addr), MoveBreak(addr)
    PROVE  /\ max' = max /\ ends' = ends
           /\ size' \in 0 .. PoolSize /\ addr <= size'
           /\ data' \in [HPBR!Offsets -> {"none", "zero", "data"}]
           /\ \A o \in HPBR!Offsets : data'[o] = "none" <=> o >= size'
           /\ \A o \in HPBR!Offsets : o < size /\ o < size' => data'[o] = data[o]
           /\ brk_max_size' \in size' .. PoolSize
           /\ break' = addr /\ addr \in 0 .. PoolSize
           /\ grants' = CutAt(addr)
<1>1. max = PoolSize /\ ends \in Layouts /\ addr \in 0 .. PoolSize /\ size \in 0 .. PoolSize
    BY PoolSizeAssumption DEF RegionOK, Succeeds
<1>2. size' = ends[addr] /\ data' = HPBR!Resized(ends[addr]) /\ max' = max /\ ends' = ends
    BY <1>1, PoolSizeAssumption DEF MoveBreak, HPBR!Resize
<1>3. ends[addr] \in 0 .. PoolSize /\ addr <= ends[addr]
    BY <1>1, LayoutsAssumption DEF HPBR!PageEnds
<1>4. \A o \in HPBR!Offsets :
          data'[o] = IF o >= ends[addr] THEN "none" ELSE IF o >= size THEN "zero" ELSE data[o]
    BY <1>2 DEF HPBR!Resized
<1>5. \A o \in HPBR!Offsets : o \in Int /\ data[o] \in {"none", "zero", "data"}
                              /\ (data[o] = "none" <=> o >= size)
    BY PoolSizeAssumption DEF RegionOK, HPBR!Offsets
<1>6. data' \in [HPBR!Offsets -> {"none", "zero", "data"}]
    BY <1>2, <1>5 DEF HPBR!Resized
<1>7. \A o \in HPBR!Offsets : data'[o] = "none" <=> o >= size'
    BY <1>1, <1>2, <1>3, <1>4, <1>5
<1>8. \A o \in HPBR!Offsets : o < size /\ o < size' => data'[o] = data[o]
    BY <1>1, <1>2, <1>3, <1>4, <1>5
<1>9. brk_max_size' \in size' .. PoolSize
    BY <1>1, <1>2, <1>3, PoolSizeAssumption DEF MoveBreak, RegionOK
<1>10. break' = addr /\ grants' = CutAt(addr)
    BY DEF MoveBreak
<1> QED BY <1>1, <1>2, <1>3, <1>6, <1>7, <1>8, <1>9, <1>10

\* A grant that is cut is a part of what it was, and ends at the cut or below.
LEMMA CutFacts ==
    ASSUME grants \subseteq [start : Int, end : Int], NEW addr \in Int,
           NEW g \in CutAt(addr)
    PROVE  /\ g \in [start : Int, end : Int] /\ g.end <= addr
           /\ \E f \in grants : /\ f.start = g.start /\ g.end <= f.end
                                /\ g.end = IF f.end < addr THEN f.end ELSE addr
<1>1. PICK f \in grants : g = [f EXCEPT !.end = IF f.end < addr THEN f.end ELSE addr]
    BY DEF CutAt
<1>2. f = [start |-> f.start, end |-> f.end] /\ f.start \in Int /\ f.end \in Int
    OBVIOUS
<1>3. g = [start |-> f.start, end |-> IF f.end < addr THEN f.end ELSE addr]
    BY <1>1, <1>2
<1> QED BY <1>2, <1>3

LEMMA CutApart ==
    ASSUME grants \subseteq [start : Int, end : Int], NEW addr \in Int,
           \A g, h \in grants : g = h \/ g.end <= h.start \/ h.end <= g.start,
           NEW g \in CutAt(addr), NEW h \in CutAt(addr)
    PROVE  g = h \/ g.end <= h.start \/ h.end <= g.start
<1>1. PICK e \in grants : /\ e.start = g.start /\ g.end <= e.end
                          /\ g.end = IF e.end < addr THEN e.end ELSE addr
    BY CutFacts
<1>2. PICK f \in grants : /\ f.start = h.start /\ h.end <= f.end
                          /\ h.end = IF f.end < addr THEN f.end ELSE addr
    BY CutFacts
<1>3. g \in [start : Int, end : Int] /\ h \in [start : Int, end : Int]
    BY CutFacts
<1>4. CASE e = f
    BY <1>1, <1>2, <1>3, <1>4
<1>5. CASE e.end <= f.start \/ f.end <= e.start
    BY <1>1, <1>2, <1>3, <1>5
<1> QED BY <1>4, <1>5

-------------------------------------------------------------------------------
(* Every step preserves the invariant.  Steps that leave the region, the   *)
(* break and the grants alone only have to respect the mutexes.            *)

\* A call or a lock of the hook brk changes nothing but the thread that does it.
LEMMA RegionKept ==
    ASSUME RegionOK, UNCHANGED heap
    PROVE  RegionOK'
BY DEF RegionOK, heap, hpbr, HPBR!Offsets

LEMMA SbrkCallInv ==
    ASSUME HeapInv, NEW t \in Threads, SbrkCall(t)
    PROVE  HeapInv'
<1>1. /\ pc' \in [Threads -> Labels] /\ pc'[t] = "sbrk lock" /\ pc[t] = "idle"
      /\ \A u \in Threads : u # t => pc'[u] = pc[u]
    BY GotoFacts DEF HeapInv, TypeOK, ThreadsOK, Labels, SbrkCall
<1>2. RegionOK'
    BY RegionKept DEF HeapInv, TypeOK, SbrkCall
<1>3. ThreadsOK'
    <2>1. calls' \in [Threads -> 0 .. MaxCalls]
        BY CallsFacts DEF HeapInv, TypeOK, SbrkCall
    <2> QED BY <1>1, <2>1 DEF HeapInv, TypeOK, ThreadsOK, SbrkCall
<1>4. MutexesOK'
    BY <1>1 DEF HeapInv, TypeOK, MutexesOK, SbrkCall, globals
<1>5. BreakMapped' /\ TopFollows' /\ GrantsApart'
    BY <1>1 DEF HeapInv, BreakMapped, TopFollows, GrantsApart, InSbrk, SbrkCall,
                heap, hpbr, globals
<1> QED BY <1>2, <1>3, <1>4, <1>5 DEF HeapInv, TypeOK

LEMMA SbrkLockInv ==
    ASSUME HeapInv, NEW t \in Threads, SbrkLock(t)
    PROVE  HeapInv'
<1>1. /\ pc' \in [Threads -> Labels] /\ pc'[t] = "sbrk brk" /\ pc[t] = "sbrk lock"
      /\ \A u \in Threads : u # t => pc'[u] = pc[u]
    BY GotoFacts DEF HeapInv, TypeOK, ThreadsOK, Labels, SbrkLock
<1>2. RegionOK'
    BY RegionKept DEF HeapInv, TypeOK, SbrkLock
<1>3. brk_top' \in Int /\ brk_top' = IF brk_top = NULL THEN 0 ELSE brk_top
    <2>1. brk_top' = IF brk_top = NULL THEN 0 ELSE brk_top
        BY DEF SbrkLock
    <2>2. brk_top \in Int \/ brk_top = NULL
        BY DEF HeapInv, BreakMapped
    <2> QED BY <2>1, <2>2
<1>4. ThreadsOK'
    <2>1. PICK i \in Increments : new_brk' = [new_brk EXCEPT ![t] = brk_top' + i]
        BY DEF SbrkLock
    <2>2. new_brk' \in [Threads -> Int]
        BY <1>3, <2>1, IncrementsAssumption DEF HeapInv, TypeOK, ThreadsOK
    <2> QED BY <1>1, <2>2 DEF HeapInv, TypeOK, ThreadsOK, SbrkLock
<1>5. \A u \in Threads : pc[u] \notin InSbrk
    BY NoValueAssumption DEF HeapInv, TypeOK, MutexesOK, InSbrk, SbrkLock
<1>6. MutexesOK'
    BY <1>1, <1>5 DEF HeapInv, TypeOK, MutexesOK, InSbrk, SbrkLock
<1>7. BreakMapped'
    BY <1>1, <1>3, NoValueAssumption DEF HeapInv, BreakMapped, InSbrk, SbrkLock, heap, hpbr
<1>8. TopFollows'
    <2>1. brk_top # NULL \/ usage # "sbrk" \/ (break = 0 /\ grants = {})
        BY DEF HeapInv, BreakMapped
    <2>2. \A u \in Threads : pc[u] # "sbrk done" /\ pc'[u] # "sbrk done"
        BY <1>1, <1>5 DEF InSbrk
    <2> QED BY <1>1, <1>3, <2>1, <2>2, NoValueAssumption DEF HeapInv, TopFollows, SbrkLock
<1>9. GrantsApart'
    BY DEF HeapInv, GrantsApart, SbrkLock
<1> QED BY <1>2, <1>4, <1>6, <1>7, <1>8, <1>9 DEF HeapInv, TypeOK

LEMMA SbrkFailedInv ==
    ASSUME HeapInv, NEW t \in Threads, SbrkFailed(t)
    PROVE  HeapInv'
<1>1. /\ pc' \in [Threads -> Labels] /\ pc'[t] = "idle" /\ pc[t] = "sbrk failed"
      /\ \A u \in Threads : u # t => pc'[u] = pc[u]
    BY GotoFacts DEF HeapInv, TypeOK, ThreadsOK, Labels, SbrkFailed
<1>2. RegionOK'
    BY RegionKept DEF HeapInv, TypeOK, SbrkFailed
<1>3. ThreadsOK'
    BY <1>1 DEF HeapInv, TypeOK, ThreadsOK, SbrkFailed
<1>4. \A u \in Threads : u # t => pc[u] \notin InSbrk
    BY <1>1 DEF HeapInv, TypeOK, MutexesOK, InSbrk
<1>5. MutexesOK'
    BY <1>1, <1>4, NoValueAssumption DEF HeapInv, TypeOK, MutexesOK, InSbrk, SbrkFailed
<1>6. BreakMapped' /\ GrantsApart'
    BY <1>1 DEF HeapInv, BreakMapped, GrantsApart, InSbrk, SbrkFailed, heap, hpbr
<1>7. TopFollows'
    <2>1. \A u \in Threads : pc[u] # "sbrk done" /\ pc'[u] # "sbrk done"
        BY <1>1, <1>4 DEF InSbrk
    <2> QED BY <1>1, <2>1 DEF HeapInv, TopFollows, SbrkFailed
<1> QED BY <1>2, <1>3, <1>5, <1>6, <1>7 DEF HeapInv, TypeOK

\* The new grant lies above brk_top, all others below.
LEMMA SbrkReturnInv ==
    ASSUME HeapInv, NEW t \in Threads, SbrkReturn(t)
    PROVE  HeapInv'
<1>1. /\ pc' \in [Threads -> Labels] /\ pc'[t] = "idle" /\ pc[t] = "sbrk done"
      /\ \A u \in Threads : u # t => pc'[u] = pc[u]
    BY GotoFacts DEF HeapInv, TypeOK, ThreadsOK, Labels, SbrkReturn
<1>2. RegionOK'
    BY RegionKept DEF HeapInv, TypeOK, SbrkReturn
<1>3. ThreadsOK'
    BY <1>1 DEF HeapInv, TypeOK, ThreadsOK, SbrkReturn
<1>4. \A u \in Threads : u # t => pc[u] \notin InSbrk
    BY <1>1 DEF HeapInv, TypeOK, MutexesOK, InSbrk
<1>5. MutexesOK'
    BY <1>1, <1>4, NoValueAssumption DEF HeapInv, TypeOK, MutexesOK, InSbrk, SbrkReturn
<1>6. brk_top \in Int /\ new_brk[t] \in Int /\ brk_top' = new_brk[t] /\ brk_top' # NULL
    BY <1>1, NoValueAssumption DEF HeapInv, TypeOK, ThreadsOK, BreakMapped, InSbrk, SbrkReturn
<1> DEFINE new == [start |-> brk_top, end |-> new_brk[t]]
<1>7. grants' = grants \/ (new_brk[t] > brk_top /\ grants' = grants \cup {new})
    BY DEF SbrkReturn
<1>8. new \in [start : Int, end : Int]
    BY <1>6
<1>9. BreakMapped'
    <2>1. break' = break /\ size' = size
        BY DEF SbrkReturn, heap, hpbr
    <2>2. grants' \subseteq [start : Int, end : Int]
        BY <1>7, <1>8 DEF HeapInv, BreakMapped
    <2> QED BY <1>1, <1>6, <2>1, <2>2 DEF HeapInv, BreakMapped, InSbrk
<1>10. usage = "sbrk" => /\ break = new_brk[t]
                         /\ \A g \in grants : g.end <= break /\ g.end <= brk_top
    BY <1>1, <1>6, NoValueAssumption DEF HeapInv, TopFollows
<1>11. TopFollows'
    <2>1. usage' = usage /\ break' = break
        BY DEF SbrkReturn
    <2>2. \A u \in Threads : pc'[u] # "sbrk done"
        BY <1>1, <1>4 DEF InSbrk
    <2>3. usage = "sbrk" => \A g \in grants' : g.end <= break' /\ g.end <= brk_top'
        BY <1>6, <1>7, <1>10, <2>1 DEF HeapInv, TypeOK, ThreadsOK
    <2>4. usage = "sbrk" => \A u \in Threads : pc'[u] \notin {"brk", "brk body"}
        BY <1>1 DEF HeapInv, TopFollows
    <2> QED BY <1>6, <1>10, <2>1, <2>2, <2>3, <2>4 DEF TopFollows
<1>12. GrantsApart'
    <2> SUFFICES ASSUME usage' = "sbrk", NEW g \in grants', NEW h \in grants'
                 PROVE  g = h \/ g.end <= h.start \/ h.end <= g.start
        BY DEF GrantsApart
    <2>1. usage = "sbrk"
        BY DEF SbrkReturn
    <2>2. CASE g \in grants /\ h \in grants
        BY <2>1, <2>2 DEF HeapInv, GrantsApart
    <2>3. CASE g \notin grants \/ h \notin grants
        <3>1. \A f \in grants : f.end <= new.start
            BY <1>10, <2>1
        <3>2. /\ g \in grants \/ g = new
              /\ h \in grants \/ h = new
            BY <1>7
        <3> QED BY <2>3, <3>1, <3>2
    <2> QED BY <2>2, <2>3
<1> QED BY <1>2, <1>3, <1>5, <1>9, <1>11, <1>12 DEF HeapInv, TypeOK

LEMMA BrkCallInv ==
    ASSUME HeapInv, NEW t \in Threads, BrkCall(t)
    PROVE  HeapInv'
<1>1. /\ pc' \in [Threads -> Labels] /\ pc'[t] = "brk" /\ pc[t] = "idle"
      /\ \A u \in Threads : u # t => pc'[u] = pc[u]
    BY GotoFacts DEF HeapInv, TypeOK, ThreadsOK, Labels, BrkCall
<1>2. RegionOK'
    BY RegionKept DEF HeapInv, TypeOK, BrkCall
<1>3. ThreadsOK'
    <2>1. calls' \in [Threads -> 0 .. MaxCalls]
        BY CallsFacts DEF HeapInv, TypeOK, BrkCall
    <2>2. PICK addr \in -1 .. PoolSize + 1 : new_brk' = [new_brk EXCEPT ![t] = addr]
        BY DEF BrkCall
    <2>3. new_brk' \in [Threads -> Int]
        BY <2>2, PoolSizeAssumption DEF HeapInv, TypeOK, ThreadsOK
    <2> QED BY <1>1, <2>1, <2>3 DEF HeapInv, TypeOK, ThreadsOK, BrkCall
<1>4. MutexesOK'
    BY <1>1 DEF HeapInv, TypeOK, MutexesOK, BrkCall, globals
<1>5. BreakMapped'
    BY <1>1 DEF HeapInv, BreakMapped, InSbrk, BrkCall, heap, hpbr, globals
<1>6. TopFollows' /\ GrantsApart'
    BY DEF HeapInv, TopFollows, GrantsApart, BrkCall
<1> QED BY <1>2, <1>3, <1>4, <1>5, <1>6 DEF HeapInv, TypeOK

LEMMA BrkLockInv ==
    ASSUME HeapInv, NEW t \in Threads, BrkLock(t)
    PROVE  HeapInv'
<1>1. /\ pc' \in [Threads -> Labels]
      /\ \/ pc[t] = "brk" /\ pc'[t] = "brk body"
         \/ pc[t] = "sbrk brk" /\ pc'[t] = "sbrk body"
      /\ \A u \in Threads : u # t => pc'[u] = pc[u]
    BY GotoFacts DEF HeapInv, TypeOK, ThreadsOK, Labels, BrkLock
<1>2. RegionOK'
    BY RegionKept DEF HeapInv, TypeOK, BrkLock
<1>3. ThreadsOK'
    BY <1>1 DEF HeapInv, TypeOK, ThreadsOK, BrkLock
<1>4. \A u \in Threads : pc[u] \notin InBrk
    BY NoValueAssumption DEF HeapInv, TypeOK, MutexesOK, InBrk, BrkLock
<1>5. MutexesOK'
    BY <1>1, <1>4 DEF HeapInv, TypeOK, MutexesOK, InBrk, BrkLock
<1>6. BreakMapped' /\ GrantsApart'
    BY <1>1 DEF HeapInv, BreakMapped, GrantsApart, InSbrk, BrkLock, heap, hpbr
<1>7. TopFollows'
    BY <1>1 DEF HeapInv, TopFollows, BrkLock
<1> QED BY <1>2, <1>3, <1>5, <1>6, <1>7 DEF HeapInv, TypeOK

\* If nobody calls brk directly, a thread in the body of brk holds both mutexes,
\* and the break is still where brk_top says.
LEMMA InBody ==
    ASSUME HeapInv, NEW t \in Threads, pc[t] = "sbrk body"
    PROVE  /\ brk_top # NULL
           /\ \A u \in Threads : u # t => pc[u] \notin InSbrk
           /\ usage = "sbrk" => brk_top = break
<1>1. brk_top # NULL
    BY DEF HeapInv, BreakMapped, InSbrk
<1>2. \A u \in Threads : u # t => pc[u] \notin InSbrk
    BY DEF HeapInv, TypeOK, MutexesOK, InSbrk
<1>3. \A u \in Threads : pc[u] # "sbrk done"
    BY <1>2 DEF InSbrk
<1> QED BY <1>1, <1>2, <1>3 DEF HeapInv, TopFollows

LEMMA ChangeProgramBreakInv ==
    ASSUME HeapInv, NEW t \in Threads, ChangeProgramBreak(t)
    PROVE  HeapInv'
<1> DEFINE addr == new_brk[t]
<1>1. /\ pc' \in [Threads -> Labels]
      /\ \/ pc[t] = "brk body" /\ pc'[t] = "idle"
         \/ pc[t] = "sbrk body" /\ Succeeds(addr) /\ pc'[t] = "sbrk done"
         \/ pc[t] = "sbrk body" /\ ~Succeeds(addr) /\ pc'[t] = "sbrk failed"
      /\ \A u \in Threads : u # t => pc'[u] = pc[u]
    BY GotoFacts DEF HeapInv, TypeOK, ThreadsOK, Labels, ChangeProgramBreak
<1>2. \A u \in Threads : u # t => pc[u] \notin InBrk
    <2>1. pc[t] \in InBrk
        BY <1>1 DEF InBrk
    <2>2. \A u \in Threads : brk_mutex = u <=> pc[u] \in InBrk
        BY DEF HeapInv, TypeOK, MutexesOK, InBrk
    <2> QED BY <2>1, <2>2
<1>3. MutexesOK'
    BY <1>1, <1>2, NoValueAssumption
    DEF HeapInv, TypeOK, MutexesOK, InBrk, ChangeProgramBreak
<1>4. /\ addr \in Int /\ new_brk' = new_brk /\ brk_top' = brk_top /\ usage' = usage
      /\ calls' = calls
    BY DEF HeapInv, TypeOK, ThreadsOK, ChangeProgramBreak
<1>5. \A u \in Threads : pc'[u] \in InSbrk => pc[u] \in InSbrk
    BY <1>1 DEF InSbrk
<1>6. usage = "sbrk" => /\ pc[t] = "sbrk body" /\ brk_top # NULL /\ brk_top = break
                        /\ \A u \in Threads : pc'[u] \notin {"brk", "brk body"}
                        /\ \A u \in Threads : u # t => pc'[u] # "sbrk done"
    BY <1>1, InBody DEF HeapInv, TopFollows, InSbrk
<1>7. CASE ~Succeeds(addr)
    <2>1. UNCHANGED <<heap, break, grants>>
        BY <1>7 DEF ChangeProgramBreak
    <2>2. RegionOK'
        BY <2>1, RegionKept DEF HeapInv, TypeOK
    <2>3. ThreadsOK'
        BY <1>1, <1>4, <2>1 DEF HeapInv, TypeOK, ThreadsOK
    <2>4. BreakMapped' /\ GrantsApart'
        BY <1>4, <1>5, <2>1 DEF HeapInv, BreakMapped, GrantsApart, heap, hpbr
    <2>5. TopFollows'
        BY <1>1, <1>4, <1>6, <1>7, <2>1 DEF HeapInv, TopFollows
    <2> QED BY <1>3, <2>2, <2>3, <2>4, <2>5 DEF HeapInv, TypeOK
<1>8. CASE Succeeds(addr)
    <2>1. MoveBreak(addr)
        BY <1>8 DEF ChangeProgramBreak
    <2>2. /\ max' = max /\ ends' = ends
          /\ size' \in 0 .. PoolSize /\ addr <= size'
          /\ data' \in [HPBR!Offsets -> {"none", "zero", "data"}]
          /\ \A o \in HPBR!Offsets : data'[o] = "none" <=> o >= size'
          /\ brk_max_size' \in size' .. PoolSize
          /\ break' = addr /\ addr \in 0 .. PoolSize
          /\ grants' = CutAt(addr)
        BY <1>4, <1>8, <2>1, MoveFacts DEF HeapInv, TypeOK
    <2>3. RegionOK'
        BY <2>2 DEF HeapInv, TypeOK, RegionOK, HPBR!Offsets
    <2>4. ThreadsOK'
        BY <1>1, <1>4, <2>2 DEF HeapInv, TypeOK, ThreadsOK
    <2>5. grants \subseteq [start : Int, end : Int]
        BY DEF HeapInv, BreakMapped
    <2>6. \A g \in grants' : /\ g \in [start : Int, end : Int] /\ g.end <= addr
                             /\ \E f \in grants : f \in [start : Int, end : Int] /\ g.end <= f.end
        BY <1>4, <2>2, <2>5, CutFacts
    <2>7. BreakMapped'
        <3>1. grants' \subseteq [start : Int, end : Int]
            BY <2>6
        <3>2. \A u \in Threads : pc'[u] \in InSbrk => brk_top' # NULL
            BY <1>4, <1>5 DEF HeapInv, BreakMapped
        <3> QED BY <1>4, <1>6, <2>2, <3>1, <3>2 DEF HeapInv, BreakMapped
    <2>8. TopFollows'
        <3> SUFFICES ASSUME usage = "sbrk" PROVE TopFollows'
            BY <1>4 DEF TopFollows
        <3>1. pc'[t] = "sbrk done" /\ brk_top \in Int
            BY <1>1, <1>6, <1>8 DEF HeapInv, BreakMapped
        <3>2. \A u \in Threads : pc'[u] = "sbrk done" => break' = new_brk'[u]
            BY <1>4, <1>6, <2>2
        <3>3. \A g \in grants' : g.end <= break' /\ g.end <= brk_top'
            <4> SUFFICES ASSUME NEW g \in grants' PROVE g.end <= break' /\ g.end <= brk_top'
                OBVIOUS
            <4>1. PICK f \in grants : f \in [start : Int, end : Int] /\ g.end <= f.end
                BY <2>6
            <4>2. f.end <= brk_top
                BY <1>6 DEF HeapInv, TopFollows
            <4>3. g.end \in Int /\ f.end \in Int /\ g.end <= addr
                BY <2>6, <4>1
            <4>4. break' = addr /\ brk_top' = brk_top /\ addr \in Int
                BY <1>4, <2>2
            <4>5. g.end <= break'
                BY <4>3, <4>4
            <4>6. g.end <= brk_top
                <5>1. g.end <= f.end /\ g.end \in Int /\ f.end \in Int
                    BY <4>1, <4>3
                <5>2. f.end <= brk_top /\ brk_top \in Int
                    BY <3>1, <4>2
                <5> QED BY <5>1, <5>2
            <4> QED BY <4>4, <4>5, <4>6
        <3> QED BY <1>6, <3>1, <3>2, <3>3 DEF TopFollows
    <2>9. GrantsApart'
        <3> SUFFICES ASSUME usage = "sbrk", NEW g \in grants', NEW h \in grants'
                     PROVE  g = h \/ g.end <= h.start \/ h.end <= g.start
            BY <1>4 DEF GrantsApart
        <3> QED BY <1>4, <2>2, <2>5, CutApart DEF HeapInv, GrantsApart
    <2> QED BY <1>3, <2>3, <2>4, <2>7, <2>8, <2>9 DEF HeapInv, TypeOK
<1> QED BY <1>7, <1>8

LEMMA WriteInv ==
    ASSUME HeapInv, NEW o \in HPBR!Offsets, Write(o)
    PROVE  HeapInv'
<1>1. /\ data' = [data EXCEPT ![o] = "data"] /\ o < size
      /\ max' = max /\ ends' = ends /\ size' = size /\ brk_max_size' = brk_max_size
    BY DEF Write, HPBR!Write
<1>2. RegionOK'
    <2>1. o \in Int /\ size \in Int
        BY PoolSizeAssumption DEF HPBR!Offsets, HeapInv, TypeOK, RegionOK
    <2>2. data' \in [HPBR!Offsets -> {"none", "zero", "data"}]
        BY <1>1 DEF HeapInv, TypeOK, RegionOK
    <2>3. \A p \in HPBR!Offsets : data'[p] = "none" <=> p >= size'
        BY <1>1, <2>1 DEF HeapInv, TypeOK, RegionOK
    <2> QED BY <1>1, <2>2, <2>3 DEF HeapInv, TypeOK, RegionOK, HPBR!Offsets
<1>3. ThreadsOK' /\ MutexesOK'
    BY DEF HeapInv, TypeOK, ThreadsOK, MutexesOK, Write, globals
<1>4. BreakMapped' /\ TopFollows' /\ GrantsApart'
    BY <1>1 DEF HeapInv, BreakMapped, TopFollows, GrantsApart, Write, globals
<1> QED BY <1>2, <1>3, <1>4 DEF HeapInv, TypeOK

LEMMA StutterInv ==
    ASSUME HeapInv, UNCHANGED vars
    PROVE  HeapInv'
<1>1. RegionOK'
    BY RegionKept DEF HeapInv, TypeOK, vars
<1> QED BY <1>1 DEF HeapInv, TypeOK, ThreadsOK, MutexesOK, BreakMapped, TopFollows,
                    GrantsApart, vars, heap, hpbr, globals

LEMMA StepInv == HeapInv /\ [Next]_vars => HeapInv'
<1> SUFFICES ASSUME HeapInv, [Next]_vars PROVE HeapInv'
    OBVIOUS
<1>1. ASSUME NEW t \in Threads, SbrkCall(t) \/ BrkCall(t) \/ Step(t) PROVE HeapInv'
    BY <1>1, SbrkCallInv, BrkCallInv, SbrkLockInv, SbrkFailedInv, SbrkReturnInv,
       BrkLockInv, ChangeProgramBreakInv DEF Step
<1>2. ASSUME NEW o \in HPBR!Offsets, Write(o) PROVE HeapInv'
    BY <1>2, WriteInv
<1> QED BY <1>1, <1>2, StutterInv DEF Next

LEMMA AlwaysHeapInv == Spec => []HeapInv
<1> QED BY InitInv, StepInv, PTL DEF Spec

-------------------------------------------------------------------------------
(* The theorems.                                                           *)

\* The region, the threads and the holders of the two nested mutexes are in
\* order: at most one thread is in sbrk, and one in the body of brk
\* (hooks.cc:180, :197).
THEOREM HeapTypeCorrect == Spec => []TypeOK
BY AlwaysHeapInv, PTL DEF HeapInv

\* Whatever the number of threads, programs that leave brk alone get ranges of
\* the heap that do not overlap (hooks.cc:191-221).
THEOREM GrantsAlwaysApart == Spec => []GrantsApart
BY AlwaysHeapInv, PTL DEF HeapInv

\* ... and that are mapped up to their end, until a break cuts them.
THEOREM GrantsAlwaysBacked == Spec => []GrantsBacked
<1>1. HeapInv => GrantsBacked
    <2> SUFFICES ASSUME HeapInv, usage = "sbrk", NEW g \in grants PROVE g.end <= size
        BY DEF GrantsBacked
    <2>1. g.end \in Int /\ break \in Int /\ size \in Int
        BY PoolSizeAssumption DEF HeapInv, BreakMapped, TypeOK, ThreadsOK, RegionOK
    <2>2. g.end <= break /\ break <= size
        BY DEF HeapInv, TopFollows, BreakMapped
    <2> QED BY <2>1, <2>2
<1> QED BY <1>1, AlwaysHeapInv, PTL

\* sbrk returns the previous break, in such programs (hooks.cc:206).
THEOREM SbrkAlwaysReturnsPreviousBreak == Spec => SbrkReturnsPreviousBreak
<1>1. HeapInv /\ [Next]_vars =>
          \A t \in Threads :
             (usage = "sbrk" /\ pc[t] = "sbrk body" /\ pc'[t] = "sbrk done")
                 => brk_top = break
    BY InBody
<1> QED BY <1>1, AlwaysHeapInv, PTL DEF Spec, SbrkReturnsPreviousBreak

\* No extension, shrink, failure or interleaving loses what the program stored
\* below the break (MemoryAllocator.cc:249-269).
THEOREM HeapAlwaysKept == Spec => HeapKept
<1>1. ASSUME HeapInv, [Next]_vars, NEW o \in HPBR!Offsets, data[o] = "data", data'[o] # "data"
      PROVE  o >= break'
    <2>1. PICK t \in Threads : ChangeProgramBreak(t) /\ Succeeds(new_brk[t])
        <3>1. data' # data
            BY <1>1
        <3>2. ASSUME NEW p \in HPBR!Offsets, Write(p) PROVE FALSE
            <4>1. data' = [data EXCEPT ![p] = "data"]
                BY <3>2 DEF Write, HPBR!Write
            <4> QED BY <1>1, <4>1 DEF HeapInv, TypeOK, RegionOK
        <3> QED BY <1>1, <3>1, <3>2
                DEF Next, Step, vars, heap, hpbr, SbrkCall, BrkCall, SbrkLock, SbrkFailed,
                    SbrkReturn, BrkLock, ChangeProgramBreak
    <2>2. MoveBreak(new_brk[t]) /\ new_brk[t] \in Int
        BY <1>1, <2>1 DEF ChangeProgramBreak, HeapInv, TypeOK, ThreadsOK
    <2>3. /\ size' \in 0 .. PoolSize /\ break' <= size' /\ break' \in 0 .. PoolSize
          /\ o < size /\ o < size' => data'[o] = data[o]
        BY <1>1, <2>1, <2>2, MoveFacts DEF HeapInv, TypeOK
    <2>4. o < size /\ o \in Int /\ size \in Int
        BY <1>1, PoolSizeAssumption DEF HeapInv, TypeOK, RegionOK, HPBR!Offsets
    <2> QED BY <1>1, <2>3, <2>4, PoolSizeAssumption
<1>2. HeapInv /\ [Next]_vars =>
          \A o \in HPBR!Offsets : (data[o] = "data" /\ data'[o] # "data") => o >= break'
    BY <1>1
<1> QED BY <1>2, AlwaysHeapInv, PTL DEF Spec, HeapKept
===============================================================================
