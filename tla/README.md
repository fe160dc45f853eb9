# Mosalloc in TLA+

Mosalloc is a preloaded library that serves the memory requests of a program
(`malloc` through `morecore`, `brk`, `sbrk`, `mmap`, `munmap`) from three pools
of address space, parts of which are backed with 2MB or 1GB pages as a
configuration file says. This directory holds TLA+ specifications of it, the
TLC runs that check them on small instances, and proofs of theorems about them
that TLAPS checks for every value of the constants. Paths below are relative to
`src/`; `hooks.cc` and the other library files are in `src/src/`.

## 1. Inventory

| component | state | operations | made correct by |
|---|---|---|---|
| `FirstFitAllocator` | a table of nodes, an occupied and a free list threaded through it by index, bounds of the pool | `Initialize`, `Allocate`, `Free`, `GetTopAddress`, `GetFreeSpace`, `Contains`, `IsValidDataStructure` | no address in two regions, no address lost, no node leaked, lists sorted and acyclic, a full table handled |
| `HugePageBackedRegion` | start, current and maximal size, a sorted list of intervals that covers the pool; in the kernel, the mappings | `Initialize`, `Resize` (extend, shrink) | current size = what is mapped, every interval on its own page size, aligned addresses, data below both sizes kept |
| `MemoryIntervalList`, `MemoryIntervalsValidator` | a list of intervals | add, sort, copy by page size; validate | accepted lists can be mapped as configured |
| `MemoryAllocator` | two allocators, three regions, peaks | constructor and destructor, `InitRegions`, allocate and deallocate (anonymous, file), `ChangeProgramBreak`, routing of `munmap` | what is handed out is mapped and stays so; pools and the rest of the process do not collide |
| hooks | `brk_top`, three hook mutexes, initialization flags | `mmap`, `munmap`, `brk`, `sbrk`, `mosalloc_morecore`, `mprotect`, constructor, destructor, `consume_glibc_free_slots` | concurrent calls are atomic, nested locks do not deadlock, `sbrk` keeps its contract; no call enters pools that are not there; a range of a pool does not get past it |
| `malloc-standalone-automated` | two atomic flags; a copy of the hooks | the exported malloc family, `ensure_ptmalloc_init`; the copy's own startup | glibc's allocator is initialized once, before it is used |
| `ParseCsv`, `HugePagesConfiguration`, `PoolConfigurationData` | none beyond their result | read the configuration | the list read is the list written |
| `GlibcAllocationFunctions` | cached function pointers | calls of libc | - |
| `NumaMaps`, tests | - | test helpers | - |
| `memory_layout_config.py`, `legacy_memory_region.py` | the file they write or read | layout to rows; validation of rows, counts of pages | what the library then backs is what was listed, counted and reserved |
| `runMosalloc.py`, `reserveHugePages.sh` | the lock, `legacy_config.csv`, the node's numbers of huge pages | reserve, start the program | a launch gets its pages, and its program does not go short of them |

How they interact. The hooks take a hook mutex and call `MemoryAllocator`, which
takes a mutex per pool and calls the pool's allocator (addresses) and region
(memory). `sbrk` calls the hook `brk` while holding its own mutex. The allocator
and the region of a pool share no state: that every address the allocator hands
out is mapped in the region rests on `MemoryAllocator` resizing at the right
moments. The regions share the address space with each other and with mappings
the library does not see. Before all this the scripts turn a layout into the
file the library parses, and reserve the pages that it will map; each of the two
counts pages by itself.

Hard behaviours: a node table with a hard limit, hit in the middle of a call;
sizes inside pages at interval boundaries of three page sizes; trims and
extensions that alternate while memory is in use; nested mutexes and a break that
is stored twice; pools placed by the kernel in any order and unmapped after
start; the first `malloc` of several threads at once; hooks that are called while
the library is being constructed, with an order of two constructors that the
compiler chooses; launches that change the node's huge pages for each other.
`PROJECT.json` lists each hazard at its line with the properties that cover it.

## 2. Modules

| module | models | implements |
|---|---|---|
| `RangeAllocator` | abstract: live ranges that never overlap | |
| `FirstFit` | `FirstFitAllocator.cc` as sets of regions | `RangeAllocator` |
| `FirstFitAllocator` | `FirstFitAllocator.cc` as a node table with linked lists | `FirstFit` |
| `ResizableRegion` | abstract: memory from 0 to a size that moves between page ends | |
| `IntervalList` | `MemoryIntervalList.cc`, `MemoryIntervalsValidator.cc`, the gap intervals: pure operators | |
| `ParseCsv` | `ParseCsv.cc` and `SetIntervalConfigList`, over `IntervalList` | |
| `ConfigScripts` | what `memory_layout_config.py` writes and `legacy_memory_region.py` accepts and counts, over `ParseCsv` | |
| `HugePageRegion` | `HugePageBackedRegion.cc` over `IntervalList` and the kernel's mappings | `ResizableRegion` |
| `MmapPool` | the anonymous pool of `MemoryAllocator.cc`: `FirstFit` composed with `ResizableRegion` | |
| `ProgramBreak` | `sbrk`, `brk`, `ChangeProgramBreak` with their mutexes over `ResizableRegion` | |
| `Pools` | the three pools in one address space: `InitRegions`, the file pool in full, routing, hints, collisions | |
| `Startup` | constructors, destructors and `consume_glibc_free_slots` of both builds, with threads in the hooks | |
| `MallocInit` | `exports.c` of the standalone malloc | |
| `Launcher` | `runMosalloc.py` and `reserveHugePages.sh`: launches that share a node | |
| `FirstFitProofs`, `FirstFitAllocatorProofs`, `MmapPoolProofs`, `ProgramBreakProofs`, `PoolsProofs`, `StartupProofs`, `IntervalListProofs`, `LauncherProofs` | theorems | |
| `MC*` | instances for TLC | |

State and actions.

- **FirstFitAllocator.** `ffa` is the object (`array`, `occupied_head`,
  `free_head`). Each private method is an operator of the same name from one
  value of the object to the next, with its early returns; `Allocate` and `Free`
  are the actions, since `_ffa_mutex` is held throughout. A loop over a list is a
  position in `Walk`, which cuts off after as many steps as there are nodes: were
  a list ever cyclic, `ListsPartitionTable` would say so. `client` says how the
  program frees: regions as a whole, prefixes of regions, or anything at all.
- **FirstFit.** `free` and `occ` are the regions of the two lists. The table
  appears as a bound on the number of regions. `call` records the last call with
  its result, so that the refinement compares answers and not only states.
- **HugePageRegion.** `hpbr` is the object. `mem` gives for each offset the page
  size behind it and what it holds. `AllocateMemory` zeroes what it maps, as
  `MAP_FIXED` does; a call that is not aligned for its pages sets `refused`. The
  loops of `ExtendRegion` and `ShrinkRegion` are folds over the intervals with the
  tests of the code, including that the object's size changes after the loop.
- **ParseCsv.** One action per outcome of an iteration of the loop. The file is a
  sequence of symbols, since the parser does not skip rows of other pools: it reads
  on in the middle of them, one symbol behind the last comma. `token` is the buffer
  with whatever earlier tokens left in it. The properties compare the result with
  a reading of the lines as such, in which a field that is missing is zero (the
  code accepts short rows).
- **ConfigScripts.** Operators over the files of `ParseCsv`. `LegacyAccepts` has
  every test of `validate_region_and_get_pool_size`, with `zip` ending at the
  shorter list. `Written` is the set of files a layout may be written as: a Python
  set has no order, so a layout's items come in every order, and so do the ranges
  made of them. `written.layouts` remembers the layout, so that the properties
  compare what the library configures with what was listed.
- **MmapPool.** One action per path of `AllocateFromAnonymousMmapRegion` and
  `DeallocateFromAnonymousMmapRegion`, which include the calls to both parts and
  the peak. Running out of addresses ends the process (`alive`), as
  `THROW_EXCEPTION` does. `ends` is any function a list of intervals may give for
  "where the page of the n-th byte ends".
- **ProgramBreak.** A program counter per thread stops at each lock. Inside
  the mutexes there is one step per call of the next function. `break` and
  `grants` are history variables.
- **Pools.** Pages of one address; allocators as "the lowest gap", regions as
  sizes. The kernel may place a pool, and any mapping made without the hooks,
  wherever it is free. `space` has the owner of every address. `live` is what the
  two allocators have in their lists and `has` what the program holds: the two
  differ after the kernel has refused a file mapping, and for mappings at an
  address that the program gave, of which the allocator knows nothing. `Munmap`
  frees by the allocator's books whatever the program holds.
- **Startup.** `main` is where the loading thread is, `todo` which of the two
  constructors are left, in the order `first`. One step per assignment that other
  threads can see: `_isInitialized` (by the initializer list), the pools as
  `InitRegions` leaves them, `__morecore`, `is_library_initialized`, and one
  iteration of the loop in three steps (reset the flag, `malloc`, test it).
  `Served` is the test at the top of every hook and differs between the builds.
  A thread inside a hook has decided where its call goes (`pc`) and carries it out
  later (`Serve`, or `AssertionFails` if the allocators are not initialized).
  `maps` counts what the program has mapped by who made it. glibc's heap is a
  number of free slots, and so are the free slots that malloc has in the pools. A
  request of another thread takes any number of slots in one place, or is too large
  for what is left and extends the heap beside it (`MallocExtends`), which with the
  library's `__morecore` sets the flag of the loop. `interceptor` is an auxiliary
  variable that no action reads but to keep it: whose request has set the flag.
- **MallocInit.** One step per access to an atomic flag; `__ptmalloc_init` is
  two steps, so that other threads see it half done.
- **Launcher.** A program counter per launch: write the file, lock, compare, set
  either size, check and unlock, start, map the pools in full, resize, end. `nr`
  is what each size is told to keep; pages in use stay on top of it. The file
  `legacy_config.csv` is shared; a program reads what it holds when it starts.

## 3. Runs

| run | instance | shows |
|---|---|---|
| `first_fit` | pool of 6, 4 nodes, sizes 0..3 | regions apart, within the table, nothing lost by whole frees even with a full table, refinement of `RangeAllocator` |
| `node_table` | pool of 6, 5 nodes, sizes 1..2, all three kinds of callers | lists well formed whatever is freed, sorted, valid; refinement of `FirstFit`, answer by answer |
| `huge_page_region` | pages of 2, 4 and 8, pools of 0, 12 and 18, up to two intervals in any order, four bases | mapped prefix, right pages, alignment, reservation, refinement of `ResizableRegion` |
| `mmap_pool` | pool of 6, 4 nodes, three layouts of pages, threshold 2 | memory behind every range, content kept, slack bounded, peak right |
| `program_break` | two threads, two calls each, pool of 4, two layouts | disjoint, mapped grants; the contract of `sbrk`; every call returns |
| `three_pools` | seven addresses, pools of 3, 2 or 0, and 1; three ranges, a hint of one address, a foreign mapping of one | pools apart, anonymous ranges routed home, what the program has is mapped and listed, also after a refused mapping |
| `config_file` | files of up to three lines of 17 kinds below the header, three separators, with and without a last line end; all files written for layouts of up to three 2MB pages, or of 1GB pages, with two sizes and three offsets | exactly the pool's rows are read, and files refused exactly if one of those is bad; what the scripts have accepted or written is backed apart, with the pages they counted |
| `malloc_init` | three threads | initialized once, before use, nobody spins forever |
| `startup` | both builds, both orders, two threads, none or two free slots, four units of system memory | who gets into the pools and when; pool ranges never reach glibc; glibc's old heap is used up unless another thread's request ends the loop; startup ends |
| `reservation` | two launches of two layouts, room for six 2MB pages, two of which make a 1GB page | a launch gets the pages if they fit, from any numbers left before; its program does not go short |
| `stale_break` (violated) | one thread | `sbrk` after `brk` returns a stale break |
| `pool_collision` (violated) | nine addresses, pools of 3, 2 and 2 | the file allocator hands out addresses of the anonymous pool |

Why the bounds are enough. A pool of six addresses fits three separate regions
with gaps between them, which is the least that has a first, a middle and a last
element in a list and a hole between two free regions; the tables are smaller
than the number of regions that fit, so they fill up first. Pages of 2, 4 and 8
are in the ratio that matters, each dividing the next, with an offset inside
every page that is no boundary; two intervals in a pool of 18 leave gaps before,
between and behind them, or none. Two threads are enough to interleave the two
nested locks of `ProgramBreak` in every way. MallocInit has three threads for one
that initializes, one that waits and one that comes late. Three lines in a file put
a row of another pool, with fields of one symbol or more, between two rows of the
pool; every mistake a row can have is in one of the 17 kinds of lines. Layouts of
three pages have runs of one, two and three pages and a gap, in every order. Seven
addresses hold the pools in either order, with a gap for a hint or a foreign
mapping before, between or behind them, and an anonymous pool of three has a range
below another one when a third is freed. In `Startup` a mapping of each kind at a
time is what a second call can be about, and two threads are one that is inside a
hook and one that changes what it found; with two free slots the loop runs three
times, and a request of another thread that fits neither can end it after each. The memory of `Launcher` has room for each layout with its padding, but not
for pages of one size beside those of the other layout's other size, so that the
order of the two writes matters.

Symmetry is not used. `MCFirstFit`, `MCFirstFitAllocator` and `MCMmapPool` have a
VIEW that leaves out the record of the last call, which no action reads, and in
the second also which node holds which region (the code never orders nodes by
index); action properties are still evaluated on every step.

Fairness and deadlock. `ProgramBreak` and `MallocInit` assume weak fairness of
the steps of a thread that is inside a call: the operating system's scheduler
runs every thread that can run, and a mutex that is free is eventually taken by
some thread. Nothing is assumed of calls that are yet to be made. Weak fairness of
the locking step suffices because the number of calls is bounded in
`program_break`; with unbounded calls `std::mutex` promises no thread its turn.
`Startup` assumes it of the loading thread and of threads inside a hook; that the
loading thread gets malloc's lock although others keep taking it is a premise of
`StartupEnds`, not an assumption. Deadlock checking is off where the system may
stop: the process ends when a pool is exhausted (`mmap_pool`, the runs of
`Pools`) or an assertion fails (`startup`), threads run out of calls
(`program_break`, `stale_break`), a parse and a launch have an end
(`config_file`, `reservation`). That a thread is never stuck inside a call is
`EveryCallReturns`.

Bounds in guards: `MaxCalls` (calls per thread, `ProgramBreak`); `MaxOthers`
(mappings of the rest of the process at a time), `MaxRanges` (ranges in the lists)
and `MaxHints` (addresses given by the program), all in `Pools`; `MaxMaps`
(mappings of a kind), `MaxFrees` (chunks freed), `MaxSlots` (free slots beside
which malloc extends the heap) and `SystemMemory` (what the system's malloc can
give) in `Startup`; `Limit` (`ResizableRegion`,
`HugePageRegion`); and the sizes of pools and tables, which are parameters of the
code. Addresses and sizes are not near 2^64, so that no arithmetic wraps, with two
exceptions that are modelled: a file allocator whose end lies before its start
(`Allocate` in `Pools`), and a size row that ends below its start, whose size is kept
as a large `size_t` and refused since the caller casts it back to `off_t` (`SetSize`,
`Finish` and `off_t` in `ParseCsv`).

The type invariants of `FirstFit`, `MmapPool`, `ProgramBreak`, `Startup`, `Pools` and
`ParseCsv` are proved (section 5) and not in a run; that of `HugePageRegion` is in
`huge_page_region` and proved too.

## 4. Disagreements between code and documentation

The first two are a violated run above; the rest are statements of the code that
the model had to follow, each an entry in `PROJECT.json`.

1. `hooks.cc:174-183`: `brk` does not update `brk_top`. Programs that use `sbrk`
   only are not concerned (`SbrkReturnsPreviousBreak`, `GrantsApart`).
2. `MemoryAllocator.cc:74`: the end of the file allocator is computed from the
   anonymous pool's base. `HeldIsMapped` is therefore stated for pools whose ranges
   happen to be apart; `AnonRoutedHome` holds without that.
3. `FirstFitAllocator.cc:377`: the occupied list is changed before
   `AddFreedRegionToFreeList` can fail; the total of both lists is then no longer
   the size of the pool, which the code's own validation asserts. Whole frees
   never run into it (`WholeFreeSucceeds`, `NothingLost`), and there is no other
   way (`LostOnlyByFailedFree`).
4. `MemoryAllocator.cc:89-91`: the pools' addresses are not kept after start.
5. `MemoryAllocator.cc:130`: `_isInitialized` is true before `InitRegions` has run.
   In the preloaded build, whose hooks test nothing else, a thread that calls `mmap`
   meanwhile fails an assertion or loses its mapping; `ReadyBeforeUse` is what
   remains true, for the standalone build.
6. `hooks.cc:67`: the loop uses up glibc's free slots only if the `MemoryAllocator`
   is constructed before `constructor()` runs, and if no other thread asks for more
   than fits a free chunk between the reset (70) and the test (76): its request goes
   through `mosalloc_morecore` too, sets the same flag (187) and ends the loop while
   smaller slots are left. `NothingLeftOver` says that in the first order nothing
   else leaves any.
7. `malloc-standalone-automated/src/hooks.cc:55`: the copy's loop calls the system's
   malloc, which never triggers this library's morecore; it ends by running out of
   memory, or by another thread's malloc, and then frees the system's chunk with the
   library's `free` (60).
8. `MemoryIntervalsValidator.cc:52-54`: a negative distance between intervals
   passes as aligned, so that `Validate` accepts intervals that overlap, and
   `ExtendRegion` then maps the overlap twice, with the pages of the later one. The
   README (58) wants each interval to be allocated with one page size. For
   intervals that do not overlap everything holds (`huge_page_region`), and files
   that the legacy script has accepted have no others (`LegacyApart`).
9. `memory_layout_config.py:10`: a 1GB page is written as `1 << 20`, which the
   parser refuses (`Misread` in `Launcher`).
10. `memory_layout_config.py:87`: the last page of every range is reserved but not
    backed; `BackedAsListed` has the half that holds.
11. `memory_layout_config.py:305, 322`: validation raises an exception for a pool
    with pages of both sizes, or with two offsets (`Validated` in `ConfigScripts`).
12. `runMosalloc.py:158`: `args.librarySS`.
13. `reserveHugePages.sh:134`: "set correctly" compares the node's total, in which
    pages of other programs count; and the lock ends before the program maps its
    pages. `NeverShortAlone` is stated for launches without another one at the time.

## 5. Proofs

All theorems are checked by TLAPS, from the named assumptions on the constants
and nothing else.

- **`FirstFitProofs`.** `TypeCorrect` and `NeverOverlaps`, for every pool, table
  size, set of sizes and mix of callers. `Safe == TypeOK /\ NoOverlap` is
  inductive. The work is in `CombineAdjacentFreeNodes`: a maximal run of touching
  regions has no gap (`RunHasNoGap`), so an address of the combined region lies in
  one of its parts and combined regions are apart from each other and from what
  their parts were apart from (`CombinedApart`). That a lowest region exists where
  `CHOOSE` picks one follows from the least number principle (`LeastNatural`).
  Then `AlwaysWithinTable`, `NothingIsLost`, `WholeFreesSucceed`, `LossIsReported`,
  and `FirstFitImplementsRanges`, the refinement, from the invariant
  `TableInv == Safe /\ WithinTable /\ NothingLost`.
  Combining loses no address: a region lies in the run from the last head before it
  to the first tail behind it, and a tail in between would be followed by a later
  head (`CombinedCover`). It needs no node: a combined region starts where one of
  its parts does, and no two at the same place (`CombinedCount`, an injection).
  A whole free succeeds since its own node is counted in `WithinTable` and released
  before another is asked for; the refinement needs that, as `RangeAllocator` lets
  no free of a whole range fail.
- **`FirstFitAllocatorProofs`.** `ListsHoldEveryUsedNode`, `ListsStaySorted`,
  `ValidationNeverFails`, and `TableImplementsSets`, the refinement of `FirstFit`.
  The properties speak of walks along the links, so none is inductive by itself.
  `LinkInv` has `Threaded`: there are two sequences of nodes, without repetition and
  with no node in common, which hold every used node and which the links spell out
  one by one; then the walks are these sequences (`ChainWalk`). For callers that free
  from the start of a region it has `InOrder` too: each sequence is sorted, its
  regions are in the pool, and no region overlaps one of the other list. `Threaded`
  holds for any callers, `InOrder` does not (a free in the middle of a region lists
  bytes that stay occupied), which is why the two are apart. Every helper of the code
  has a lemma on each: which sequence a list becomes (`LinkChain`, `UnlinkChain`,
  `MoveNode`, `ReleaseNode`, `InsertFreed`, `MergeNodes`), and which set of regions
  (`MovedInOrder`, `SplitInOrder`, `AbsorbInOrder`, `ListedInOrder`,
  `MergeFirstStep`). `AllocateStep` and `FreeStep` put them together: what a call
  makes of the regions and what it returns is what `FirstFit` allows
  (`AllocatedFrom`, `FreedFrom`). The loop of `CombineAdjacentFreeNodes` is the hard
  one: each merge leaves what `FirstFit` would combine unchanged and the list one
  node shorter (`MergedPair`, `MergeFirstStep`), so after as many rounds as there are
  nodes no two neighbours touch, and then the list is what `FirstFit` combines to
  (`CombineAll`, `NothingToCombine`). `ValidationNeverFails` takes from
  `FirstFitProofs` that nothing is lost (`TableInv`, through the refinement), and
  counts addresses: regions that do not overlap have sizes that add up to the number
  of addresses in them (`SumOfSizes`).
- **`MmapPoolProofs`.** `PoolTypeCorrect`, `AlwaysBacked`, `PeakAlwaysCovers` and
  the action property `StoredDataIsKept`, for every layout of pages and every
  threshold. The inductive invariant is
  `PoolInv == Safe /\ PoolTypeOK /\ Backed /\ PeakCovers`. `Backed` needs the
  allocator's `NoOverlap` (a freed region is not the part of another that is still
  in use), the page boundary `ends[size] = size` and the monotonicity of `ends`: a
  trim to the end of the page of the highest address in use leaves what is below
  it. Each conjunct is shown for an allocation, a free, a store and a call that
  changes nothing. `SlackAlwaysBounded` adds `WithinTable` (`SlackInv`): a free that
  failed would skip the trim.
- **`ProgramBreakProofs`.** `HeapTypeCorrect`, `GrantsAlwaysApart`,
  `GrantsAlwaysBacked`, `SbrkAlwaysReturnsPreviousBreak` and `HeapAlwaysKept`, for
  any number of threads and calls. `HeapInv` adds to the properties the mutual
  exclusion of both mutexes (part of `TypeOK`), that the break is at most the size
  of the region (`BreakMapped`), and where `brk_top` stands between the move of the
  break and the end of `sbrk` (`TopFollows`): it is the break except in between,
  when only the thread with the mutex may have a difference.
- **`PoolsProofs`.** `RegionsAlwaysApart`, `AnonAlwaysRoutedHome` and
  `HeldAlwaysMapped`, for every size of the address space, the pools and the heap,
  and every place the kernel puts them in. `PoolsInv` says where the bases are
  (`Bases`), that listed ranges are inside their pool, the anonymous ones below its
  current size (`Listed`), and apart (`ListedApart`), where the program's own ranges
  are (`HasPlaced`), and, if the pools are apart, that anonymous memory is mapped up
  to the current size and what the program has is listed and mapped (`Mapped`).
  Routing follows from `HasPlaced` and the base of the anonymous allocator alone,
  which is asked first. A trim stays above the highest listed range
  (`GreatestNatural`), and the lowest gap is apart from what is listed
  (`AllocateFacts`).
- **`StartupProofs`.** `ReadyBeforeUseHolds`, `PoolRangesAlwaysStayInside`,
  `NothingIsLeftOver` and `StartupTypeCorrect`, for any number of threads and of free slots. `StartInv` says that the flag of the
  standalone build is set by the last step only (`FlagSetLast`), that whoever is
  inside the pools or has a mapping from there was let in and would be again
  (`Inside`), and that activation finds the pools complete if the allocator is
  constructed first (`ConstructedFirst`). `NothingIsLeftOver` rests on
  `DrainInv`: in this build and order `__morecore` is the library's before the loop
  begins, and the request of the loop itself, being for one slot, asks for more only
  when the slots have run out; from then on malloc has only what is freed meanwhile,
  and no thread is about to add a page of the system heap (`Drained`). The flag is set
  exactly if somebody's request has set it since the reset, so that the loop ends by its
  own request or by another thread's, whatever room that one found missing.
  The module also holds the proofs about `MallocInit`, whose names are apart from those
  of `Startup` for that reason: `InitializedOnce` and `InitializedBeforeUse`, for any
  number of threads. The strengthening `FlagsTell` says what each value of the two
  flags implies for the threads and the arena.
- **`LauncherProofs`.** `WithinMemory`, `ReservedIfThereIsRoom` and `NeverGoesShort`,
  for any finite set of launches, any layouts, any size of the memory and of a page of
  1GB, and whatever the kernel keeps at the start.
  1. *Sums.* `Used` is a sum over the launches. It is shown to be the number of the
     pages told apart by launch and index (`UsedIsInUse`; that the recursion has one
     solution is `OneSum`), so that it splits into one launch's pages and the others'
     (`InUseSplit`), and a step of one launch leaves the others' alone
     (`UseChanges`).
  2. *The kernel.* `KeepGives` says what becomes of a write to `nr_hugepages`: what
     was asked for if that is less than there is or fits beside the other size, and in
     any case no more than fits (`Division`: the room is rounded down).
  3. *Invariant.* `IInv`: only running programs have pages, up to their pools' full
     size (`OnlyRunning`); a launch that is alone is the only active one
     (`AloneIsAlone`); both sizes fit into memory together (`InMemory`); and of a launch
     without another one that the file holds its layout until it is read
     (`OwnLayout`), that from the script's check on the kernel keeps as many pages as
     it asked for (`Enough`), and how far the script has come (`Setting`).
     `ReservedIfItFits` and `NeverShortAlone` are the parts of the last three that one
     sees from outside; neither is inductive.
  4. *The order of the sizes.* `SetPagesSets`: if there are more 2MB pages than asked
     for, they are given back first and the 1GB pages find room; if not, the 2MB pages
     that are there take no more room than they will in the end (`FitsBeside`).

- **`IntervalListProofs`, of `HugePageRegion`.** `TypeCorrect`, `UniformPages`, `AlwaysAligned`,
  `InReservation` and `ImplementsTheResizable`, the refinement, for every set of
  configurations, page-aligned bases and three page sizes of which each divides the
  next. The one assumption beyond types is that the intervals of a configuration do
  not overlap (`ConfigsAssumption`): the library does not check it (section 4, no.
  8), the legacy script does. Everything else that makes a configuration good is
  what `Validate` and `SetIntervalConfigList` accept.
  1. *Lists.* `FoldLeft` has no induction theorem that can be used, so its run is
     built by a least counterexample (`Folding`). Then `Sort`, a bubble of all pairs
     of positions, is a permutation in the order of starts (`SortFacts`: after each
     step the places before `i` are final and `i` has the least up to `j`),
     `OfPageSize` copies what it should in order (`OfPageSizePicks`), and what
     `Validate` accepts is sound for every pair of intervals, though it compares
     neighbours of one size and the first of each size only (`AcceptedIsSound`; that
     no third page size is among them is a pigeonhole, `NoneLeftOut`).
  2. *Start.* `Initialize` rounds up for one interval; all others are aligned with it
     since distances are multiples of the smaller page size (`RegionStartsWell`).
  3. *Layout.* The gaps and the intervals follow each other without a hole from 0 to
     the size of the pool (`GapsFill`, `SortedTiling`, `WithGapsTiles`), each aligned
     in memory and a number of its pages long (`Layout`).
  4. *Loops.* `PageEnd(h, x)`: in each interval that `x` touches, `x` is a number of
     pages from its start. From one such end, `ExtendRegion` maps up to the end of the
     page that the new size reaches, and `ShrinkRegion` unmaps down to it, interval by
     interval (`ExtendStep`, `ShrinkStep`: how far the end has moved after `k`
     intervals is `GrownTo` and `ShrunkTo`). Each call to the kernel runs between page
     boundaries of one interval, so that none is refused and none cuts a page.
  5. *Invariant.* `IInv`: the configuration was accepted, only the current size of
     the object changes, it is a `PageEnd`, and exactly the pages below it are mapped,
     each with the size of its interval (`Held`). `Uniform` alone is not inductive: a
     shrink from an end inside a page would cut it.
  6. *Refinement.* `EndOf(n)`, the mapping's page boundary, is the end that
     `Resize(n)` moves to (`EndOfIsEnd`); a resize keeps the bytes below both ends and
     brings zeros above the old one.

- **`IntervalListProofs`, of `ParseCsv`.** `ParserTypeCorrect`, `ConfiguredWithItsRows`
  and `RefusedOnlyIfBad`, for any set of files, of any number of lines with any number of
  fields each, any of the three separators, with or without a last line end. What is
  assumed of the files (`FilesAssumption`) is how they are written: fields are of one
  symbol or two, and the first symbol of the pool's type is that of no other field but a
  type. Without the latter it would not be so: in a row of another pool the parser loses
  the first character of a field behind a comma, and such a field that is the pool's type
  with one more character before it would begin a row of the pool. The types that exist
  are `mmap`, `brk` and `file`, and all other fields are numbers.
  1. *Text.* The folds of `Line` and `Text` are unrolled, so that line `n` ends at `E[n]`
     (`Anatomy`, `AnatomyExists`), and in a line field `k` is between two separators,
     perhaps with a space (`Cells`, `CellsExist`).
  2. *Tokens.* A token read from anywhere in a cell is the part of the field from there
     on (`CellPart`), and the pool's type only if it is the whole first field
     (`TokenInCell`, `TokenInLine`). In particular the old rest of the buffer at the end
     of the file never makes a type (`TokenAtEnd`). From the start of a row of the pool,
     the parser reads the row's fields, zero for those that are missing, and is at the
     row's line end exactly if the row has no more than four (`FieldToken`, `RowIs`).
  3. *Acceptance.* `Accepted` is shown to be the same as `Sound`, a statement about any two
     intervals of the list, and so does not depend on their order (`SoundIsAccepted`,
     `AcceptedSorted`): the parser sorts before the list is checked, `Good` does not. For a
     size below zero no list is accepted, not even the empty one (`NothingBelowZero`). The
     parser keeps the size modulo `SIZE_T` and its caller casts it back, `SizeOfPool` is the
     number that is written; since both offsets fit into a long long (`FieldFits`, from
     `FilesAssumption`) and are not negative, the cast restores it (`CastBack`).
  4. *Invariant.* `ParseIInv`: in a file that is being read there is an `n` so that the
     parser is at the start of line `n + 1`, or in it if it is no row of the pool
     (`Place`), and what it has is what the first `n` lines say (`SoFar`); a pool that is
     configured has the sorted list of all lines, and a file that is refused has a bad
     row or a list that is not accepted, of which neither can be made good by later lines
     (`BadForGood`). That the list has room for a row is a pigeonhole, each line behind it
     having a line end (`RoomForAll`).

Induction over data. The library's induction theorems take the property as an
operator, which the installed provers cannot instantiate. Where a recursive
function or a walk has to be followed, the proofs take a least counterexample
instead (`LeastNatural`, by well-founded minima): a first place where two solutions
of the recursion differ (`ChainWalk`, `OneSum`), a first round after which the
claim fails (`RoundsExist`, `CombineAll`), a first set of positions at which a fold
has no value (`Folding`), a first number that is not in a set
(`UpTo`). The two lemmas on least and greatest numbers are repeated
in the proof modules that need them, which have different variables.

Only model-checked: `LegacyApart` and `BackedAsListed` of `ConfigScripts`, whose layouts
become files by way of `SetToSeqs` and `SetToSortSeq`, recursions and choices over sets
of sequences about which no fact is in the library. Out of the prover's reach: liveness under fairness
(`EveryCallReturns`, `StartupEnds`).

## 6. Not modelled, and the plan

Not modelled: build scripts and the compile-time shims around glibc's `malloc.c`;
`HugePagesConfiguration` (reads the environment once); the dlsym wrappers beyond
which function they find in `Startup`; `NumaMaps` (tests only); of the Python
scripts the command line, units of sizes and the detection of a file's format by
its columns; tracing, `AnalyzeRegions` and logs; the storage of
`MemoryIntervalList`. A kernel that runs out of huge pages in the middle of an
extension ends the process, so that nothing is left to state. The library persists
nothing, so that there is no recovery to model; what survives a program is the
node's numbers of pages, from which `Launcher` starts in any state.

Left for later, in this order:

1. Zero-sized frees and frees in the middle of a region in `FirstFit`: what they
   break and what they keep (`FirstFitAllocator` has the latter, with
   `ListsPartitionTable`).
2. The storage of `MemoryIntervalList`, if configurations grow beyond a page.
