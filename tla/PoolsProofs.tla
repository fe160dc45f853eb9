------------------------------- MODULE PoolsProofs -------------------------------
(***************************************************************************)
(* Proofs about Pools, for every size of the address space and the pools   *)
(* and every place the kernel puts them in: munmap finds the anonymous     *)
(* pool, and what the program has stays mapped.                            *)
(***************************************************************************)
EXTENDS Pools, WellFoundedInduction, TLAPS

\* A non-empty set of naturals has a least element.
LEMMA LeastNatural ==
    ASSUME NEW T \in SUBSET Nat, T # {}
    PROVE  \E m \in T : \A n \in T : m <= n
<1> DEFINE lt == OpToRel(<, Nat)
<1>1. \E m \in T : \A n \in T : ~(<<n, m>> \in lt)
    <2>1. IsWellFoundedOn(lt, Nat)
        BY NatLessThanWellFounded
    <2> HIDE DEF lt
    <2> QED BY <2>1, WFMin
<1>2. PICK m \in T : \A n \in T : ~(<<n, m>> \in lt)
    BY <1>1
<1>3. ASSUME NEW n \in T PROVE m <= n
    <2>1. <<n, m>> \in Nat \X Nat /\ ~(<<n, m>> \in lt)
        BY <1>2
    <2>2. ~(n < m)
        BY <2>1 DEF OpToRel
    <2> QED BY <2>2
<1> QED BY <1>3

\* A non-empty set of naturals with an upper bound has a greatest element.
LEMMA GreatestNatural ==
    ASSUME NEW T \in SUBSET Nat, T # {}, NEW b \in Nat, \A n \in T : n <= b
    PROVE  \E m \in T : \A n \in T : n <= m
<1> DEFINE U == {b - n : n \in T}
<1>1. U \in SUBSET Nat /\ U # {}
    <2>1. ASSUME NEW n \in T PROVE b - n \in Nat
        OBVIOUS
    <2>2. \E n \in T : b - n \in U
        OBVIOUS
    <2> QED BY <2>1, <2>2
<1>2. PICK u \in U : \A v \in U : u <= v
    <2> HIDE DEF U
    <2> QED BY <1>1, LeastNatural
<1>3. PICK m \in T : u = b - m
    OBVIOUS
<1>4. ASSUME NEW n \in T PROVE n <= m
    <2>1. b - m <= b - n
        BY <1>2, <1>3
    <2>2. n \in Nat /\ m \in Nat
        OBVIOUS
    <2> QED BY <2>1, <2>2
<1> QED BY <1>4

Owners == {"free", "anon", "file", "brk", "other"}
Starting == {"anon", "file", "brk"}
AnonPool == Span(anon_base, AnonSize)

\* Type correctness, as far as the proofs need it.
Types ==
    /\ pc \in Starting \cup {"running", "exited"}
    /\ anon_size \in 0 .. AnonSize /\ brk_size \in 0 .. BrkSize
    /\ space \in [Addresses -> Owners]
    /\ live \subseteq [pool : {"anon", "file"}, start : Nat, end : Nat]
    /\ has \subseteq [kind : {"anon", "file", "hint"}, start : Nat, end : Nat]
    /\ hinted \subseteq Addresses

\* The bases are chosen one after the other, and nothing else happens until
\* then.
Bases ==
    /\ file_size \in Nat
    /\ pc \in Starting => live = {} /\ has = {} /\ hinted = {} /\ anon_size = 0
    /\ pc # "anon" =>
         /\ anon_base \in Addresses /\ AnonPool \subseteq Addresses \ Heap
         /\ anon_ffa = [start |-> anon_base, end |-> anon_base + AnonSize]
    /\ pc = "file" => \A a \in AnonPool : space[a] = "anon"
    /\ pc \notin {"anon", "file"} =>
         /\ file_base \in Nat /\ Span(file_base, file_size) \cap (AnonPool \cup Heap) = {}
         /\ file_ffa = [start |-> file_base, end |-> anon_base + file_size]

\* The lists of the allocators: in their ranges, the anonymous ones below the
\* current size of the region, and apart.
InRange(l) ==
    /\ l.start < l.end
    /\ l.pool = "anon" => anon_base <= l.start /\ l.end <= anon_base + anon_size
    /\ l.pool = "file" =>
         /\ file_ffa.start <= l.start /\ l.end <= Top + 1
         /\ file_ffa.end < file_ffa.start \/ l.end <= file_ffa.end
Listed == \A l \in live : InRange(l)
ListedApart ==
    \A l, k \in live : l = k \/ l.pool # k.pool \/ l.end <= k.start \/ k.end <= l.start

\* What the program has is where its pools or its hints are.
Placed(h) ==
    /\ h.start < h.end
    /\ h.kind = "anon" => anon_base <= h.start /\ h.end <= anon_base + AnonSize
    /\ h.kind = "hint" => Span(h.start, h.end - h.start) \subseteq hinted
HasPlaced == \A h \in has : Placed(h)

\* With the pools and the hints apart, it is mapped and in the lists.
AnonMapped == \A a \in Span(anon_base, anon_size) : space[a] = "anon"
HasListed == \A h \in has : h.kind # "hint" => Range(h.kind, h.start, h.end - h.start) \in live
FilesMapped ==
    \A h \in has : h.kind # "anon" =>
        \A a \in Span(h.start, h.end - h.start) : a \in Addresses /\ space[a] = "file"
Mapped == pc = "running" /\ Apart => AnonMapped /\ HasListed /\ FilesMapped

PoolsInv == Types /\ Bases /\ Listed /\ ListedApart /\ HasPlaced /\ Mapped

-------------------------------------------------------------------------------
(* The invariant gives the properties.                                     *)

LEMMA Constants ==
    /\ Top \in Nat /\ HeapBase \in Nat /\ AnonSize \in Nat /\ BrkSize \in Nat
    /\ RESIZE_THRESHOLD \in Nat
    /\ Lengths \subseteq Nat \ {0} /\ FileSizes \subseteq Nat
    /\ Addresses \subseteq Nat \ {0} /\ Heap \subseteq Addresses
BY AddressesAssumption, SizesAssumption DEF Addresses, Heap

\* The anonymous pool, once it is there.
LEMMA AnonFacts ==
    ASSUME Types, Bases, pc # "anon"
    PROVE  /\ anon_base \in Nat /\ anon_base > 0 /\ anon_size \in Nat /\ anon_size <= AnonSize
           /\ anon_ffa.start = anon_base /\ anon_ffa.end = anon_base + AnonSize
           /\ AnonPool \subseteq Addresses \ Heap
<1>1. anon_base \in Addresses /\ AnonPool \subseteq Addresses \ Heap
      /\ anon_ffa = [start |-> anon_base, end |-> anon_base + AnonSize]
    BY DEF Bases
<1>2. anon_size \in 0 .. AnonSize
    BY DEF Types
<1> QED BY <1>1, <1>2, Constants

\* Both pools, after InitRegions.
LEMMA PoolFacts ==
    ASSUME Types, Bases, pc \notin Starting
    PROVE  /\ anon_base \in Nat \ {0} /\ anon_size \in Nat /\ anon_size <= AnonSize
           /\ anon_ffa = [start |-> anon_base, end |-> anon_base + AnonSize]
           /\ anon_ffa \in [start : Nat, end : Nat]
           /\ AnonPool \subseteq Addresses \ Heap
           /\ file_ffa \in [start : Nat, end : Nat]
<1>1. pc # "anon" /\ pc \notin {"anon", "file"}
    BY DEF Starting
<1>2. file_base \in Nat /\ file_size \in Nat
      /\ file_ffa = [start |-> file_base, end |-> anon_base + file_size]
      /\ anon_ffa = [start |-> anon_base, end |-> anon_base + AnonSize]
    BY <1>1 DEF Bases
<1> QED BY <1>1, <1>2, AnonFacts, Constants

LEMMA ApartInv == PoolsInv => RegionsApart
BY DEF PoolsInv, Bases, Types, Starting, RegionsApart, AnonPool

LEMMA RoutedInv == PoolsInv => AnonRoutedHome
<1> SUFFICES ASSUME PoolsInv, NEW h \in has, h.kind = "anon" PROVE Route(h.start) = "anon"
    BY DEF AnonRoutedHome
<1>1. h \in [kind : {"anon", "file", "hint"}, start : Nat, end : Nat]
    BY DEF PoolsInv, Types
<1>2. pc # "anon"
    BY DEF PoolsInv, Bases, Starting
<1>3. /\ anon_base \in Nat
      /\ anon_ffa.start = anon_base /\ anon_ffa.end = anon_base + AnonSize
    BY <1>2, AnonFacts DEF PoolsInv
<1>4. h.start < h.end /\ anon_base <= h.start /\ h.end <= anon_base + AnonSize
    BY DEF PoolsInv, HasPlaced, Placed
<1> QED BY <1>1, <1>3, <1>4, Constants DEF Route, Contains

LEMMA HeldInv == PoolsInv => HeldIsMapped
<1> SUFFICES ASSUME PoolsInv, pc = "running", Apart, NEW h \in has
             PROVE  /\ \A a \in h.start .. h.end - 1 :
                          space[a] = IF h.kind = "anon" THEN "anon" ELSE "file"
                    /\ h.kind # "hint" => Range(h.kind, h.start, h.end - h.start) \in live
    BY DEF HeldIsMapped
<1>1. h \in [kind : {"anon", "file", "hint"}, start : Nat, end : Nat]
    BY DEF PoolsInv, Types
<1>2. AnonMapped /\ HasListed /\ FilesMapped
    BY DEF PoolsInv, Mapped
<1>3. Span(h.start, h.end - h.start) = h.start .. h.end - 1
    BY <1>1 DEF Span
<1>4. CASE h.kind = "anon"
    <2> DEFINE l == Range("anon", h.start, h.end - h.start)
    <2>1. l \in live
        BY <1>2, <1>4 DEF HasListed
    <2>2. l.pool = "anon" /\ l.start = h.start /\ l.end = h.end
        BY <1>1 DEF Range
    <2>3. anon_base <= h.start /\ h.end <= anon_base + anon_size
        BY <2>1, <2>2 DEF PoolsInv, Listed, InRange
    <2>4. anon_base \in Nat /\ anon_size \in Nat
        BY AnonFacts DEF PoolsInv
    <2>5. \A a \in h.start .. h.end - 1 : a \in Span(anon_base, anon_size)
        BY <1>1, <2>3, <2>4 DEF Span
    <2> QED BY <1>2, <1>4, <2>1, <2>5 DEF AnonMapped
<1>5. CASE h.kind # "anon"
    BY <1>2, <1>3, <1>5 DEF FilesMapped, HasListed
<1> QED BY <1>4, <1>5

-------------------------------------------------------------------------------
(* Ranges of addresses.                                                    *)

\* One range inside another.
LEMMA SpanWithin ==
    ASSUME NEW a \in Int, NEW n \in Int, NEW b \in Int, NEW m \in Int,
           b <= a, a + n <= b + m
    PROVE  Span(a, n) \subseteq Span(b, m)
BY DEF Span

\* One range before another.
LEMMA SpanBefore ==
    ASSUME NEW a \in Int, NEW n \in Int, NEW b \in Int, NEW m \in Int, a + n <= b
    PROVE  Span(a, n) \cap Span(b, m) = {}
BY DEF Span

\* A range that grows.
LEMMA SpanGrown ==
    ASSUME NEW a \in Int, NEW n \in Int, NEW m \in Int, n <= m
    PROVE  Span(a, m) \subseteq Span(a, n) \cup Span(a + n, m - n)
BY DEF Span

-------------------------------------------------------------------------------
(* The allocators.                                                         *)

\* What an allocator gives is in its range and apart from what it gave before.
LEMMA AllocateFacts ==
    ASSUME NEW ffa \in [start : Nat, end : Nat], NEW n \in Nat \ {0},
           NEW held \in SUBSET [pool : {"anon", "file"}, start : Nat, end : Nat],
           \A l \in held : l.start < l.end /\ ffa.start <= l.start,
           Allocate(ffa, held, n) # NULL
    PROVE  /\ Allocate(ffa, held, n) \in Nat \ {0}
           /\ ffa.start <= Allocate(ffa, held, n)
           /\ ffa.end < ffa.start \/ Allocate(ffa, held, n) + n <= ffa.end
           /\ \A l \in held : \/ Allocate(ffa, held, n) + n <= l.start
                              \/ l.end <= Allocate(ffa, held, n)
<1> DEFINE fits == {a \in {ffa.start} \cup {l.end : l \in held} :
                       /\ ffa.end < ffa.start \/ a + n <= ffa.end
                       /\ \A l \in held : a + n <= l.start \/ l.end <= a}
           a == CHOOSE a \in fits : \A b \in fits : a <= b
<1>1. Allocate(ffa, held, n) = IF fits = {} THEN NULL ELSE a
    BY DEF Allocate
<1>2. fits # {} /\ Allocate(ffa, held, n) = a
    BY <1>1
<1>3. fits \in SUBSET Nat
    OBVIOUS
<1>4. \E m \in fits : \A b \in fits : m <= b
    <2> HIDE DEF fits
    <2> QED BY <1>2, <1>3, LeastNatural
<1>5. a \in fits
    <2> HIDE DEF fits
    <2> QED BY <1>4
<1>6. /\ a \in {ffa.start} \cup {l.end : l \in held}
      /\ ffa.end < ffa.start \/ a + n <= ffa.end
      /\ \A l \in held : a + n <= l.start \/ l.end <= a
    <2> HIDE DEF a
    <2> QED BY <1>5
<1>7. a \in Nat /\ ffa.start <= a
    <2> HIDE DEF a
    <2>1. CASE a = ffa.start
        BY <2>1
    <2>2. ASSUME NEW l \in held, a = l.end PROVE a \in Nat /\ ffa.start <= a
        <3>1. l.start \in Nat /\ l.end \in Nat /\ l.start < l.end /\ ffa.start <= l.start
            OBVIOUS
        <3> QED BY <2>2, <3>1
    <2> QED BY <1>6, <2>1, <2>2
<1> HIDE DEF a
<1> QED BY <1>2, <1>6, <1>7 DEF NULL

\* One more range, apart from those of its pool, keeps the lists apart.
LEMMA OneMoreApart ==
    ASSUME ListedApart, NEW p \in {"anon", "file"}, NEW a \in Nat, NEW n \in Nat,
           \A l \in Held(p) : a + n <= l.start \/ l.end <= a,
           live' = live \cup {Range(p, a, n)}
    PROVE  ListedApart'
<1>1. \A l \in live : l.pool = p => l \in Held(p)
    BY DEF Held
<1> QED BY <1>1 DEF ListedApart, Range

\* A munmap takes a region out of its list or cuts its start.
Rest(m, n) == (live \ {m}) \cup
                 (IF m.end - m.start = n THEN {} ELSE {[m EXCEPT !.start = @ + n]})

LEMMA RestFacts ==
    ASSUME Types, Bases, Listed, ListedApart, NEW m \in live, NEW n \in Nat \ {0},
           n <= m.end - m.start
    PROVE  /\ Rest(m, n) \subseteq [pool : {"anon", "file"}, start : Nat, end : Nat]
           /\ \A l \in Rest(m, n) : InRange(l)
           /\ \A l, k \in Rest(m, n) :
                 l = k \/ l.pool # k.pool \/ l.end <= k.start \/ k.end <= l.start
<1> DEFINE c == [m EXCEPT !.start = @ + n]
<1>1. m \in [pool : {"anon", "file"}, start : Nat, end : Nat]
    BY DEF Types
<1>2. /\ c \in [pool : {"anon", "file"}, start : Nat, end : Nat]
      /\ c.pool = m.pool /\ c.start = m.start + n /\ c.end = m.end
    BY <1>1
<1>0. anon_base \in Nat /\ file_ffa.start \in Nat
    <2>1. pc \notin Starting
        BY DEF Bases
    <2> QED BY <2>1, PoolFacts
<1>3. ASSUME m.end - m.start # n PROVE InRange(c)
    <2>1. InRange(m)
        BY DEF Listed
    <2>2. c.start < c.end /\ m.start <= c.start
        BY <1>1, <1>2, <1>3
    <2> HIDE DEF c
    <2>3. ASSUME m.pool = "anon" PROVE anon_base <= c.start /\ c.end <= anon_base + anon_size
        <3>1. anon_base <= m.start /\ m.end <= anon_base + anon_size
            BY <2>1, <2>3 DEF InRange
        <3> QED BY <1>1, <1>2, <1>0, <3>1
    <2>4. ASSUME m.pool = "file" PROVE file_ffa.start <= c.start
        <3>1. file_ffa.start <= m.start
            BY <2>1, <2>4 DEF InRange
        <3> QED BY <1>1, <1>2, <1>0, <3>1
    <2> QED BY <1>2, <2>1, <2>2, <2>3, <2>4 DEF InRange
<1>4. \A l \in Rest(m, n) : l \in live \/ (m.end - m.start # n /\ l = c)
    BY DEF Rest
<1>5. ASSUME NEW k \in live, k # m
      PROVE  c.pool # k.pool \/ c.end <= k.start \/ k.end <= c.start
    <2>1. m.pool # k.pool \/ m.end <= k.start \/ k.end <= m.start
        BY <1>5 DEF ListedApart
    <2>2. k \in [pool : {"anon", "file"}, start : Nat, end : Nat]
        BY DEF Types
    <2> HIDE DEF c
    <2> QED BY <1>1, <1>2, <2>1, <2>2
<1>6. \A l \in Rest(m, n) : l \in live \ {m} \/ l = c
    BY DEF Rest
<1> HIDE DEF c
<1> QED BY <1>2, <1>3, <1>4, <1>5, <1>6 DEF Types, Listed, ListedApart

-------------------------------------------------------------------------------
(* InitRegions.                                                            *)

\* A place has every address, outside the heap, and they are free.
LEMMA PlaceFacts ==
    ASSUME Types, NEW n \in Nat, NEW base \in Places(n)
    PROVE  /\ base \in Addresses /\ Span(base, n) \subseteq Addresses \ Heap
           /\ \A a \in Span(base, n) : space[a] = "free"
BY DEF Places

\* What a mapping does to the address space.
LEMMA OursFacts ==
    ASSUME Types, NEW S, NEW who \in Owners
    PROVE  /\ Ours(S, who) \in [Addresses -> Owners]
           /\ \A a \in Addresses : Ours(S, who)[a] = IF a \in S THEN who ELSE space[a]
BY DEF Types, Ours

LEMMA InitInv == Init => PoolsInv
<1> SUFFICES ASSUME Init PROVE PoolsInv
    OBVIOUS
<1>1. Types
    BY Constants DEF Init, Types, Starting, Owners
<1>2. Bases
    BY Constants DEF Init, Bases, Starting
<1> QED BY <1>1, <1>2 DEF Init, PoolsInv, Listed, ListedApart, HasPlaced, Mapped

\* While the pools are set up there is nothing in the lists.
LEMMA NothingYet ==
    ASSUME live' = {}, has' = {}
    PROVE  Listed' /\ ListedApart' /\ HasPlaced' /\ (HasListed /\ FilesMapped)'
BY DEF Listed, ListedApart, HasPlaced, HasListed, FilesMapped

LEMMA InitAnonPoolInv ==
    ASSUME PoolsInv, InitAnonPool
    PROVE  PoolsInv'
<1>0. live = {} /\ has = {} /\ hinted = {} /\ anon_size = 0 /\ Types /\ file_size \in Nat
    BY DEF PoolsInv, Bases, InitAnonPool, Starting
<1>1. PICK base \in Places(AnonSize) :
          /\ anon_base' = base
          /\ anon_ffa' = [start |-> base, end |-> base + AnonSize]
          /\ space' = Ours(Span(base, AnonSize), "anon")
    BY DEF InitAnonPool
<1>2. /\ base \in Addresses /\ Span(base, AnonSize) \subseteq Addresses \ Heap
    BY <1>0, <1>1, Constants, PlaceFacts
<1>3. space' \in [Addresses -> Owners] /\ \A a \in Span(base, AnonSize) : space'[a] = "anon"
    BY <1>0, <1>1, <1>2, OursFacts DEF Owners
<1>4. Types'
    BY <1>0, <1>3 DEF Types, InitAnonPool, Starting, program
<1>5. Bases'
    BY <1>0, <1>1, <1>2, <1>3 DEF Bases, InitAnonPool, Starting, AnonPool, program
<1> QED BY <1>0, <1>4, <1>5, NothingYet DEF PoolsInv, InitAnonPool, Mapped, program

LEMMA InitFilePoolInv ==
    ASSUME PoolsInv, InitFilePool
    PROVE  PoolsInv'
<1>0. /\ live = {} /\ has = {} /\ hinted = {} /\ anon_size = 0 /\ Types /\ Bases
      /\ file_size \in Nat /\ pc = "file"
    BY DEF PoolsInv, Bases, InitFilePool, Starting
<1>1. PICK base \in IF file_size = 0 THEN {NULL} ELSE Places(file_size) :
          /\ file_base' = base
          /\ file_ffa' = [start |-> base, end |-> anon_base + file_size]
          /\ space' = Ours(Span(base, file_size), "file")
    BY DEF InitFilePool
<1>2. base \in Nat /\ Span(base, file_size) \cap (AnonPool \cup Heap) = {}
    <2>1. CASE file_size = 0
        BY <1>1, <2>1 DEF NULL, Span
    <2>2. CASE file_size # 0
        <3>1. /\ base \in Addresses /\ Span(base, file_size) \subseteq Addresses \ Heap
              /\ \A a \in Span(base, file_size) : space[a] = "free"
            BY <1>0, <1>1, <2>2, PlaceFacts
        <3>2. \A a \in AnonPool : space[a] = "anon"
            BY <1>0 DEF Bases
        <3> QED BY <3>1, <3>2, Constants
    <2> QED BY <2>1, <2>2
<1>3. space' \in [Addresses -> Owners]
    BY <1>0, <1>1, OursFacts DEF Owners
<1>4. Types'
    BY <1>0, <1>3 DEF Types, InitFilePool, Starting, program
<1>5. Bases'
    BY <1>0, <1>1, <1>2 DEF Bases, InitFilePool, Starting, AnonPool, program
<1> QED BY <1>0, <1>4, <1>5, NothingYet DEF PoolsInv, InitFilePool, Mapped, program

LEMMA InitBrkPoolInv ==
    ASSUME PoolsInv, InitBrkPool
    PROVE  PoolsInv'
<1>0. /\ live = {} /\ has = {} /\ hinted = {} /\ anon_size = 0 /\ Types /\ Bases
      /\ file_size \in Nat /\ pc = "brk"
    BY DEF PoolsInv, Bases, InitBrkPool, Starting
<1>1. Types'
    BY <1>0 DEF Types, InitBrkPool, Starting, Owners, pools, program
<1>2. Bases'
    BY <1>0 DEF Bases, InitBrkPool, Starting, AnonPool, pools, program
<1>3. AnonMapped'
    <2>1. anon_base \in Nat /\ anon_base' = anon_base /\ anon_size' = 0
        BY <1>0, AnonFacts DEF InitBrkPool, pools
    <2>2. Span(anon_base', anon_size') = {}
        BY <2>1 DEF Span
    <2> QED BY <2>2 DEF AnonMapped
<1> QED BY <1>0, <1>1, <1>2, <1>3, NothingYet DEF PoolsInv, InitBrkPool, Mapped, program

-------------------------------------------------------------------------------
(* The running program.                                                    *)

LEMMA BasesKept ==
    ASSUME Bases, pc = "running", pc' \in {"running", "exited"}, UNCHANGED pools
    PROVE  Bases'
BY DEF Bases, Starting, AnonPool, pools

\* Hints only come to those that were there.
LEMMA ApartKept ==
    ASSUME UNCHANGED pools, hinted \subseteq hinted', Apart'
    PROVE  Apart
BY DEF Apart, FileRange, pools

\* A file that came from the allocator is in its range.
LEMMA FileInRange ==
    ASSUME PoolsInv, pc = "running", Apart, NEW h \in has, h.kind = "file"
    PROVE  Span(h.start, h.end - h.start) \subseteq FileRange
<1> DEFINE l == Range("file", h.start, h.end - h.start)
<1>1. h \in [kind : {"anon", "file", "hint"}, start : Nat, end : Nat]
    BY DEF PoolsInv, Types
<1>2. l \in live
    BY DEF PoolsInv, Mapped, HasListed
<1>3. l.pool = "file" /\ l.start = h.start /\ l.end = h.end
    BY <1>1 DEF Range
<1>4. /\ file_ffa.start <= h.start /\ h.end <= Top + 1
      /\ file_ffa.end < file_ffa.start \/ h.end <= file_ffa.end
    BY <1>2, <1>3 DEF PoolsInv, Listed, InRange
<1>5. file_ffa.start \in Nat /\ file_ffa.end \in Nat
    BY PoolFacts DEF PoolsInv, Starting
<1> QED BY <1>1, <1>4, <1>5, Constants DEF Span, FileRange

\* The files that the program has are neither in the anonymous pool nor on the
\* heap.
LEMMA FilesElsewhere ==
    ASSUME PoolsInv, pc = "running", Apart, NEW h \in has, h.kind # "anon"
    PROVE  Span(h.start, h.end - h.start) \cap (AnonPool \cup Heap) = {}
<1>1. h.kind \in {"file", "hint"}
    BY DEF PoolsInv, Types
<1>2. CASE h.kind = "hint"
    <2>1. Span(h.start, h.end - h.start) \subseteq hinted
        BY <1>2 DEF PoolsInv, HasPlaced, Placed
    <2> QED BY <2>1 DEF Apart, AnonPool
<1>3. CASE h.kind = "file"
    BY <1>3, FileInRange DEF Apart, AnonPool
<1> QED BY <1>1, <1>2, <1>3

\* The lists, as the allocators see them.
LEMMA HeldFacts ==
    ASSUME PoolsInv, pc = "running", NEW p \in {"anon", "file"}
    PROVE  /\ Held(p) \in SUBSET [pool : {"anon", "file"}, start : Nat, end : Nat]
           /\ \A l \in Held(p) :
                 /\ l.start < l.end
                 /\ (IF p = "anon" THEN anon_ffa ELSE file_ffa).start <= l.start
<1>1. anon_ffa.start = anon_base
    BY PoolFacts DEF PoolsInv, Starting
<1>2. \A l \in Held(p) : l \in live /\ l.pool = p
    BY DEF Held
<1> QED BY <1>1, <1>2 DEF PoolsInv, Types, Listed, InRange

\* A pool that is exhausted ends the process.
LEMMA ExhaustedInv ==
    ASSUME PoolsInv, pc = "running", Exhausted, UNCHANGED <<pools, brk_size, hinted>>
    PROVE  PoolsInv'
<1>1. Types'
    BY DEF PoolsInv, Types, Exhausted
<1>2. Bases'
    BY BasesKept DEF PoolsInv, Exhausted
<1>3. Listed' /\ ListedApart' /\ HasPlaced'
    BY DEF PoolsInv, Listed, InRange, ListedApart, HasPlaced, Placed, Exhausted, pools
<1> QED BY <1>1, <1>2, <1>3 DEF PoolsInv, Mapped, Exhausted

LEMMA MmapAnonInv ==
    ASSUME PoolsInv, NEW n \in Lengths, MmapAnon(n)
    PROVE  PoolsInv'
<1>1. PICK a : a = Allocate(anon_ffa, Held("anon"), n)
    OBVIOUS
<1> DEFINE need == a + n - anon_base
<1>2. n \in Nat \ {0} /\ pc = "running" /\ UNCHANGED <<pools, brk_size, hinted>>
    BY Constants DEF MmapAnon
<1>3. CASE Exhausted
    BY <1>2, <1>3, ExhaustedInv
<1>4. CASE /\ a # NULL
           /\ live' = live \cup {Range("anon", a, n)}
           /\ has' = has \cup {Got("anon", a, n)}
           /\ anon_size' = IF need > anon_size THEN need ELSE anon_size
           /\ space' = Ours(Span(anon_base + anon_size, anon_size' - anon_size), "anon")
           /\ UNCHANGED pc
    <2>1. /\ anon_base \in Nat \ {0} /\ anon_size \in Nat /\ anon_size <= AnonSize
          /\ anon_ffa = [start |-> anon_base, end |-> anon_base + AnonSize]
          /\ anon_ffa \in [start : Nat, end : Nat]
          /\ AnonPool \subseteq Addresses \ Heap
        BY <1>2, PoolFacts DEF PoolsInv, Starting
    <2>2. /\ a \in Nat \ {0} /\ anon_base <= a /\ a + n <= anon_base + AnonSize
          /\ \A l \in Held("anon") : a + n <= l.start \/ l.end <= a
        BY <1>2, <1>1, <1>4, <2>1, HeldFacts, AllocateFacts, Constants
    <2>3. /\ anon_size' \in Nat /\ anon_size <= anon_size' /\ anon_size' <= AnonSize
          /\ a + n <= anon_base + anon_size'
        BY <1>2, <1>4, <2>1, <2>2, Constants
    <2>4. /\ space' \in [Addresses -> Owners]
          /\ \A x \in Addresses : space'[x] =
                IF x \in Span(anon_base + anon_size, anon_size' - anon_size)
                THEN "anon" ELSE space[x]
        BY <1>4, OursFacts DEF PoolsInv, Owners
    <2>5. Types'
        <3>1. anon_size' \in 0 .. AnonSize
            BY <2>3, Constants
        <3>2. /\ Range("anon", a, n) \in [pool : {"anon", "file"}, start : Nat, end : Nat]
              /\ Got("anon", a, n) \in [kind : {"anon", "file", "hint"}, start : Nat, end : Nat]
            BY <1>2, <2>2 DEF Range, Got
        <3> QED BY <1>2, <1>4, <2>4, <3>1, <3>2 DEF PoolsInv, Types
    <2>6. Bases'
        BY <1>2, <1>4, BasesKept DEF PoolsInv
    <2>7. Listed'
        <3>1. ASSUME NEW l \in live PROVE InRange(l)'
            <4>1. InRange(l) /\ l.end \in Nat
                BY DEF PoolsInv, Listed, Types
            <4> QED BY <1>2, <2>1, <2>3, <4>1 DEF InRange, pools
        <3>2. InRange(Range("anon", a, n))'
            BY <1>2, <2>2, <2>3 DEF InRange, Range, pools
        <3> QED BY <1>4, <3>1, <3>2 DEF Listed
    <2>8. ListedApart'
        BY <1>2, <1>4, <2>2, OneMoreApart DEF PoolsInv
    <2>9. HasPlaced'
        <3>1. Placed(Got("anon", a, n))'
            BY <1>2, <2>2 DEF Placed, Got, pools
        <3> QED BY <1>2, <1>4, <3>1 DEF PoolsInv, HasPlaced, Placed, pools
    <2>10. Mapped'
        <3> SUFFICES ASSUME Apart' PROVE (AnonMapped /\ HasListed /\ FilesMapped)'
            BY DEF Mapped
        <3>1. Apart /\ AnonMapped /\ HasListed /\ FilesMapped
            BY <1>2, ApartKept DEF PoolsInv, Mapped
        <3>2. AnonMapped'
            <4>1. Span(anon_base, anon_size') \subseteq Span(anon_base, anon_size)
                     \cup Span(anon_base + anon_size, anon_size' - anon_size)
                BY <2>1, <2>3, SpanGrown
            <4>2. Span(anon_base, anon_size') \subseteq AnonPool
                BY <2>1, <2>3, Constants, SpanWithin DEF AnonPool
            <4> QED BY <1>2, <2>1, <2>4, <3>1, <4>1, <4>2 DEF AnonMapped, pools
        <3>3. HasListed'
            <4>1. Range("anon", a, n) = Range("anon", a, (a + n) - a)
                BY <1>2, <2>2
            <4>2. /\ Got("anon", a, n).start = a /\ Got("anon", a, n).end = a + n
                  /\ Got("anon", a, n).kind = "anon"
                BY DEF Got
            <4>3. Range(Got("anon", a, n).kind, Got("anon", a, n).start,
                        Got("anon", a, n).end - Got("anon", a, n).start) \in live'
                BY <1>4, <4>1, <4>2
            <4> QED BY <1>4, <3>1, <4>3 DEF HasListed
        <3>4. FilesMapped'
            <4>1. Got("anon", a, n).kind = "anon"
                BY DEF Got
            <4>2. Span(anon_base + anon_size, anon_size' - anon_size) \subseteq AnonPool
                BY <2>1, <2>3, Constants, SpanWithin DEF AnonPool
            <4>3. ASSUME NEW h \in has', h.kind # "anon",
                         NEW x \in Span(h.start, h.end - h.start)
                  PROVE  x \in Addresses /\ space'[x] = "file"
                <5>1. h \in has
                    BY <1>4, <4>1, <4>3
                <5>2. x \in Addresses /\ space[x] = "file"
                    BY <3>1, <4>3, <5>1 DEF FilesMapped
                <5>3. x \notin AnonPool
                    BY <1>2, <3>1, <4>3, <5>1, FilesElsewhere
                <5> QED BY <2>4, <4>2, <5>2, <5>3
            <4> QED BY <4>3 DEF FilesMapped
        <3> QED BY <3>2, <3>3, <3>4
    <2> QED BY <2>5, <2>6, <2>7, <2>8, <2>9, <2>10 DEF PoolsInv
<1> QED BY <1>1, <1>3, <1>4 DEF MmapAnon

LEMMA MmapFileInv ==
    ASSUME PoolsInv, NEW n \in Lengths, MmapFile(n)
    PROVE  PoolsInv'
<1>1. PICK a : a = Allocate(file_ffa, Held("file"), n)
    OBVIOUS
<1>2. n \in Nat \ {0} /\ pc = "running" /\ UNCHANGED <<pools, brk_size, hinted>>
      /\ a + n <= Top + 1
    BY <1>1, Constants DEF MmapFile
<1>3. CASE Exhausted
    BY <1>2, <1>3, ExhaustedInv
<1>4. CASE /\ a # NULL
           /\ live' = live \cup {Range("file", a, n)}
           /\ \/ has' = has \cup {Got("file", a, n)} /\ space' = Ours(Span(a, n), "file")
              \/ UNCHANGED <<has, space>>
           /\ UNCHANGED <<pc, anon_size>>
    <2>1. file_ffa \in [start : Nat, end : Nat]
        BY <1>2, PoolFacts DEF PoolsInv, Starting
    <2>2. /\ a \in Nat \ {0} /\ file_ffa.start <= a
          /\ file_ffa.end < file_ffa.start \/ a + n <= file_ffa.end
          /\ \A l \in Held("file") : a + n <= l.start \/ l.end <= a
        BY <1>1, <1>2, <1>4, <2>1, HeldFacts, AllocateFacts
    <2>3. Span(a, n) \subseteq Addresses \cap FileRange
        BY <1>2, <2>1, <2>2, Constants DEF Span, Addresses, FileRange
    <2>4. /\ space' \in [Addresses -> Owners]
          /\ \A x \in Addresses :
                space'[x] # space[x] => x \in Span(a, n) /\ space'[x] = "file"
          /\ has' # has => \A x \in Span(a, n) : space'[x] = "file"
        <3>1. CASE space' = Ours(Span(a, n), "file")
            BY <2>3, <3>1, OursFacts DEF PoolsInv, Owners
        <3>2. CASE UNCHANGED <<has, space>>
            BY <3>2 DEF PoolsInv, Types
        <3> QED BY <1>4, <3>1, <3>2
    <2>5. Types'
        <3>1. /\ Range("file", a, n) \in [pool : {"anon", "file"}, start : Nat, end : Nat]
              /\ Got("file", a, n) \in [kind : {"anon", "file", "hint"}, start : Nat, end : Nat]
            BY <1>2, <2>2 DEF Range, Got
        <3> QED BY <1>2, <1>4, <2>4, <3>1 DEF PoolsInv, Types
    <2>6. Bases'
        BY <1>2, <1>4, BasesKept DEF PoolsInv
    <2>7. Listed'
        <3>1. InRange(Range("file", a, n))'
            BY <1>2, <2>2 DEF InRange, Range, pools
        <3> QED BY <1>2, <1>4, <3>1 DEF PoolsInv, Listed, InRange, pools
    <2>8. ListedApart'
        BY <1>2, <1>4, <2>2, OneMoreApart DEF PoolsInv
    <2>9. HasPlaced'
        <3>1. Placed(Got("file", a, n))'
            BY <1>2, <2>2 DEF Placed, Got
        <3> QED BY <1>2, <1>4, <3>1 DEF PoolsInv, HasPlaced, Placed, pools
    <2>10. Mapped'
        <3> SUFFICES ASSUME Apart' PROVE (AnonMapped /\ HasListed /\ FilesMapped)'
            BY DEF Mapped
        <3>1. Apart /\ AnonMapped /\ HasListed /\ FilesMapped
            BY <1>2, ApartKept DEF PoolsInv, Mapped
        <3>2. /\ Got("file", a, n).start = a /\ Got("file", a, n).end = a + n
              /\ Got("file", a, n).kind = "file" /\ (a + n) - a = n
            BY <1>2, <2>2 DEF Got
        <3>3. AnonMapped'
            <4>1. Span(anon_base, anon_size) \subseteq AnonPool
                BY <1>2, PoolFacts, Constants, SpanWithin DEF PoolsInv, Starting, AnonPool
            <4>2. AnonPool \subseteq Addresses /\ AnonPool \cap FileRange = {}
                BY <1>2, <3>1, PoolFacts DEF PoolsInv, Starting, Apart, AnonPool
            <4> QED BY <1>2, <1>4, <2>3, <2>4, <3>1, <4>1, <4>2 DEF AnonMapped, pools
        <3>4. HasListed'
            BY <1>4, <3>1, <3>2 DEF HasListed
        <3>5. FilesMapped'
            <4>1. ASSUME NEW h \in has', h.kind # "anon",
                         NEW x \in Span(h.start, h.end - h.start)
                  PROVE  x \in Addresses /\ space'[x] = "file"
                <5>1. CASE h \in has
                    BY <2>4, <3>1, <4>1, <5>1 DEF FilesMapped
                <5>2. CASE h \notin has
                    BY <1>4, <2>3, <2>4, <3>2, <4>1, <5>2
                <5> QED BY <5>1, <5>2
            <4> QED BY <4>1 DEF FilesMapped
        <3> QED BY <3>3, <3>4, <3>5
    <2> QED BY <2>5, <2>6, <2>7, <2>8, <2>9, <2>10 DEF PoolsInv
<1> QED BY <1>1, <1>3, <1>4 DEF MmapFile

\* A new mapping where there is none takes nothing away.
LEMMA OnFreeKept ==
    ASSUME PoolsInv, pc = "running", Apart, NEW S, NEW who \in Owners,
           \A x \in S : x \in Addresses => space[x] = "free",
           space' = Ours(S, who), UNCHANGED <<pools, anon_size>>
    PROVE  /\ AnonMapped'
           /\ \A h \in has : h.kind # "anon" =>
                 \A x \in Span(h.start, h.end - h.start) :
                    x \in Addresses /\ space'[x] = "file"
<1>1. AnonMapped /\ FilesMapped
    BY DEF PoolsInv, Mapped
<1>2. \A x \in Addresses : space[x] # "free" => space'[x] = space[x]
    BY OursFacts DEF PoolsInv
<1>3. Span(anon_base, anon_size) \subseteq Addresses
    <2>1. Span(anon_base, anon_size) \subseteq AnonPool /\ AnonPool \subseteq Addresses
        BY PoolFacts, Constants, SpanWithin DEF PoolsInv, Starting, AnonPool
    <2> QED BY <2>1
<1>4. AnonMapped'
    BY <1>1, <1>2, <1>3 DEF AnonMapped, pools
<1> QED BY <1>1, <1>2, <1>4 DEF FilesMapped

LEMMA MmapFileAtInv ==
    ASSUME PoolsInv, NEW n \in Lengths, NEW a \in Addresses, MmapFileAt(a, n)
    PROVE  PoolsInv'
<1>1. /\ n \in Nat \ {0} /\ a \in Nat /\ pc = "running"
      /\ Span(a, n) \subseteq {b \in Addresses : space[b] = "free"}
      /\ space' = Ours(Span(a, n), "file")
      /\ has' = has \cup {Got("hint", a, n)} /\ hinted' = hinted \cup Span(a, n)
      /\ UNCHANGED <<pc, pools, anon_size, brk_size, live>>
    BY Constants DEF MmapFileAt
<1>2. /\ Got("hint", a, n).start = a /\ Got("hint", a, n).end = a + n
      /\ Got("hint", a, n).kind = "hint" /\ (a + n) - a = n
      /\ Got("hint", a, n) \in [kind : {"anon", "file", "hint"}, start : Nat, end : Nat]
    BY <1>1 DEF Got
<1>3. space' \in [Addresses -> Owners] /\ \A x \in Span(a, n) : space'[x] = "file"
    BY <1>1, OursFacts DEF PoolsInv, Owners
<1>4. Types'
    BY <1>1, <1>2, <1>3 DEF PoolsInv, Types
<1>5. Bases'
    BY <1>1, BasesKept DEF PoolsInv
<1>6. Listed' /\ ListedApart'
    BY <1>1 DEF PoolsInv, Listed, InRange, ListedApart, pools
<1>7. HasPlaced'
    <2>1. Placed(Got("hint", a, n))'
        BY <1>1, <1>2 DEF Placed
    <2>2. \A h \in has : Placed(h)'
        BY <1>1 DEF PoolsInv, HasPlaced, Placed, pools
    <2> QED BY <1>1, <2>1, <2>2 DEF HasPlaced
<1>8. Mapped'
    <2> SUFFICES ASSUME Apart' PROVE (AnonMapped /\ HasListed /\ FilesMapped)'
        BY DEF Mapped
    <2>1. Apart
        BY <1>1, ApartKept
    <2>2. /\ AnonMapped'
          /\ \A h \in has : h.kind # "anon" =>
                \A x \in Span(h.start, h.end - h.start) :
                   x \in Addresses /\ space'[x] = "file"
        BY <1>1, <2>1, OnFreeKept DEF Owners
    <2>3. HasListed'
        BY <1>1, <1>2, <2>1 DEF PoolsInv, Mapped, HasListed
    <2>4. FilesMapped'
        BY <1>1, <1>2, <1>3, <2>2 DEF FilesMapped
    <2> QED BY <2>2, <2>3, <2>4
<1> QED BY <1>4, <1>5, <1>6, <1>7, <1>8 DEF PoolsInv

LEMMA OtherInv ==
    ASSUME PoolsInv, Other
    PROVE  PoolsInv'
<1>1. PICK a \in Places(1) : space' = Ours({a}, "other")
    BY DEF Other
<1>2. pc = "running" /\ UNCHANGED <<pc, pools, anon_size, brk_size, live, has, hinted>>
    BY DEF Other, program
<1>3. a \in Addresses /\ space[a] = "free"
    <2>1. a \in Addresses /\ \A x \in Span(a, 1) : space[x] = "free"
        BY PlaceFacts DEF PoolsInv
    <2> QED BY <2>1, Constants DEF Span
<1>4. Types'
    BY <1>1, <1>2, OursFacts DEF PoolsInv, Types, Owners
<1>5. Bases' /\ Listed' /\ ListedApart' /\ HasPlaced'
    BY <1>2, BasesKept DEF PoolsInv, Listed, InRange, ListedApart, HasPlaced, Placed, pools
<1>6. Mapped'
    <2> SUFFICES ASSUME Apart' PROVE (AnonMapped /\ HasListed /\ FilesMapped)'
        BY DEF Mapped
    <2>1. Apart
        BY <1>2, ApartKept
    <2>2. AnonMapped' /\ FilesMapped'
        BY <1>1, <1>2, <1>3, <2>1, OnFreeKept DEF FilesMapped, Owners
    <2> QED BY <1>2, <2>1, <2>2 DEF PoolsInv, Mapped, HasListed
<1> QED BY <1>4, <1>5, <1>6 DEF PoolsInv

LEMMA BrkInv ==
    ASSUME PoolsInv, NEW n \in 0 .. BrkSize, Brk(n)
    PROVE  PoolsInv'
<1>1. /\ pc = "running" /\ brk_size' = n
      /\ UNCHANGED <<pc, pools, anon_size, live, has, hinted>>
    BY DEF Brk, program
<1>2. /\ space' \in [Addresses -> Owners]
      /\ \A x \in Addresses : x \notin Heap => space'[x] = space[x]
    BY DEF PoolsInv, Types, Brk, Owners
<1>3. Types'
    BY <1>1, <1>2 DEF PoolsInv, Types
<1>4. Bases' /\ Listed' /\ ListedApart' /\ HasPlaced'
    BY <1>1, BasesKept DEF PoolsInv, Listed, InRange, ListedApart, HasPlaced, Placed, pools
<1>5. Mapped'
    <2> SUFFICES ASSUME Apart' PROVE (AnonMapped /\ HasListed /\ FilesMapped)'
        BY DEF Mapped
    <2>1. Apart /\ AnonMapped /\ HasListed /\ FilesMapped
        BY <1>1, ApartKept DEF PoolsInv, Mapped
    <2>2. Span(anon_base, anon_size) \subseteq AnonPool /\ AnonPool \subseteq Addresses \ Heap
        BY <1>1, PoolFacts, Constants, SpanWithin DEF PoolsInv, Starting, AnonPool
    <2>3. AnonMapped'
        BY <1>1, <1>2, <2>1, <2>2 DEF AnonMapped, pools
    <2>4. FilesMapped'
        BY <1>1, <1>2, <2>1, FilesElsewhere DEF FilesMapped
    <2> QED BY <1>1, <2>1, <2>3, <2>4 DEF HasListed
<1> QED BY <1>3, <1>4, <1>5 DEF PoolsInv

-------------------------------------------------------------------------------
(* munmap.                                                                 *)

\* With the pools and the hints apart, munmap finds the region that it is of.
LEMMA MunmapFinds ==
    ASSUME PoolsInv, pc = "running", Apart, NEW h \in has, NEW m \in Held(Route(h.start)),
           m.start <= h.start, h.start < m.end
    PROVE  h.kind = m.pool /\ m = Range(h.kind, h.start, h.end - h.start)
<1>1. /\ h \in [kind : {"anon", "file", "hint"}, start : Nat, end : Nat]
      /\ h.start < h.end
      /\ h.kind = "hint" => Span(h.start, h.end - h.start) \subseteq hinted
    BY DEF PoolsInv, Types, HasPlaced, Placed
<1>2. m \in live /\ m.pool = Route(h.start) /\ m.pool \in {"anon", "file"}
      /\ m.start \in Nat /\ m.end \in Nat
    BY DEF Held, PoolsInv, Types
<1>3. h.start \in Span(h.start, h.end - h.start)
    BY <1>1 DEF Span
<1>4. /\ Contains(anon_ffa, h.start) => h.start \in AnonPool
      /\ Contains(file_ffa, h.start) => h.start \in FileRange
    <2>1. /\ anon_base \in Nat /\ anon_ffa = [start |-> anon_base, end |-> anon_base + AnonSize]
          /\ file_ffa \in [start : Nat, end : Nat]
        BY PoolFacts DEF PoolsInv, Starting
    <2> QED BY <1>1, <2>1, Constants DEF Contains, AnonPool, Span, FileRange
<1>5. h.kind = m.pool
    <2>1. CASE h.kind = "anon"
        BY <1>2, <2>1, RoutedInv DEF AnonRoutedHome
    <2>2. CASE h.kind = "file"
        <3>1. h.start \notin AnonPool
            BY <1>3, <2>2, FilesElsewhere
        <3> QED BY <1>2, <1>4, <2>2, <3>1 DEF Route
    <2>3. CASE h.kind = "hint"
        <3>1. h.start \in hinted
            BY <1>1, <1>3, <2>3
        <3>2. h.start \notin AnonPool /\ h.start \notin FileRange
            BY <3>1 DEF Apart, AnonPool
        <3> QED BY <1>2, <1>4, <3>2 DEF Route
    <2> QED BY <1>1, <2>1, <2>2, <2>3
<1>6. Range(h.kind, h.start, h.end - h.start) \in live
    BY <1>2, <1>5 DEF PoolsInv, Mapped, HasListed
<1>7. /\ Range(h.kind, h.start, h.end - h.start).pool = m.pool
      /\ Range(h.kind, h.start, h.end - h.start).start = h.start
      /\ Range(h.kind, h.start, h.end - h.start).end = h.end
    BY <1>1, <1>5 DEF Range
<1>8. m = Range(h.kind, h.start, h.end - h.start)
    <2> DEFINE l == Range(h.kind, h.start, h.end - h.start)
    <2>1. l = m \/ l.pool # m.pool \/ l.end <= m.start \/ m.end <= l.start
        BY <1>2, <1>6 DEF PoolsInv, ListedApart
    <2> HIDE DEF l
    <2>2. l.pool = m.pool /\ l.start = h.start /\ l.end = h.end
        BY <1>7 DEF l
    <2>3. l = m
        BY <1>1, <1>2, <2>1, <2>2
    <2> QED BY <2>3 DEF l
<1> QED BY <1>5, <1>8

\* What else the program has stays in the lists.
LEMMA OthersListed ==
    ASSUME Types, HasListed, NEW h \in has, NEW n \in Nat,
           NEW k \in has \ {h}, k.kind # "hint"
    PROVE  LET m == Range(h.kind, h.start, h.end - h.start)
           IN Range(k.kind, k.start, k.end - k.start) \in live \ {m}
<1> DEFINE m == Range(h.kind, h.start, h.end - h.start)
           l == Range(k.kind, k.start, k.end - k.start)
<1>1. /\ h \in [kind : {"anon", "file", "hint"}, start : Nat, end : Nat]
      /\ k \in [kind : {"anon", "file", "hint"}, start : Nat, end : Nat]
    BY DEF Types
<1>2. l \in live
    BY DEF HasListed
<1>3. /\ m.pool = h.kind /\ m.start = h.start /\ m.end = h.end
      /\ l.pool = k.kind /\ l.start = k.start /\ l.end = k.end
    BY <1>1 DEF Range
<1>4. ASSUME l = m PROVE k = h
    <2>1. k.kind = h.kind /\ k.start = h.start /\ k.end = h.end
        BY <1>3, <1>4
    <2> QED BY <1>1, <2>1
<1> QED BY <1>2, <1>4

\* Where the highest region of the anonymous pool ends, seen from its base.
Ends(rest) == {k.end : k \in {k \in rest : k.pool = "anon"}}
TopOf(rest) == IF Ends(rest) = {} THEN 0 ELSE TopAddress(Ends(rest)) - anon_base

LEMMA TopFacts ==
    ASSUME PoolsInv, pc = "running",
           NEW rest \in SUBSET [pool : {"anon", "file"}, start : Nat, end : Nat],
           \A l \in rest : InRange(l)
    PROVE  /\ TopOf(rest) \in 0 .. anon_size
           /\ \A l \in rest : l.pool = "anon" => l.end <= anon_base + TopOf(rest)
<1>1. anon_base \in Nat /\ anon_size \in Nat
    BY PoolFacts DEF PoolsInv, Starting
<1>2. \A l \in rest : l.pool = "anon" => l.end \in Ends(rest)
    BY DEF Ends
<1>3. \A e \in Ends(rest) : e \in Nat /\ anon_base <= e /\ e <= anon_base + anon_size
    <2>1. ASSUME NEW l \in rest, l.pool = "anon"
          PROVE  l.end \in Nat /\ anon_base <= l.end /\ l.end <= anon_base + anon_size
        <3>1. l.start \in Nat /\ l.end \in Nat
            OBVIOUS
        <3>2. l.start < l.end /\ anon_base <= l.start /\ l.end <= anon_base + anon_size
            BY <2>1 DEF InRange
        <3> QED BY <1>1, <3>1, <3>2
    <2> QED BY <2>1 DEF Ends
<1>4. CASE Ends(rest) = {}
    BY <1>1, <1>2, <1>4 DEF TopOf
<1>5. CASE Ends(rest) # {}
    <2>1. \E t \in Ends(rest) : \A u \in Ends(rest) : u <= t
        <3>1. Ends(rest) \in SUBSET Nat /\ anon_base + anon_size \in Nat
            BY <1>1, <1>3
        <3> QED BY <1>3, <1>5, <3>1, GreatestNatural
    <2>2. /\ TopAddress(Ends(rest)) \in Ends(rest)
          /\ \A u \in Ends(rest) : u <= TopAddress(Ends(rest))
        BY <2>1 DEF TopAddress
    <2>3. TopOf(rest) = TopAddress(Ends(rest)) - anon_base
        BY <1>5 DEF TopOf
    <2>4. TopOf(rest) \in 0 .. anon_size /\ anon_base + TopOf(rest) = TopAddress(Ends(rest))
        BY <1>1, <1>3, <2>2, <2>3
    <2> QED BY <1>2, <2>2, <2>4
<1> QED BY <1>4, <1>5

\* The lists and the size of the region after a munmap.
LEMMA MunmapLists ==
    ASSUME PoolsInv, NEW h \in has, NEW m \in Held(Route(h.start)), pc = "running",
           NEW n \in Nat \ {0}, n <= m.end - m.start,
           live' = Rest(m, n), has' = has \ {h}, NEW size \in {anon_size, TopOf(Rest(m, n))},
           anon_size' = IF m.pool = "anon" THEN size ELSE anon_size,
           space' \in [Addresses -> Owners],
           UNCHANGED <<pc, pools, brk_size, hinted>>
    PROVE  /\ Types' /\ Bases' /\ Listed' /\ ListedApart' /\ HasPlaced'
           /\ anon_size' \in 0 .. anon_size
<1>1. m \in live
    BY DEF Held
<1>2. /\ live' \subseteq [pool : {"anon", "file"}, start : Nat, end : Nat]
      /\ \A l \in live' : InRange(l)
      /\ \A l, k \in live' : l = k \/ l.pool # k.pool \/ l.end <= k.start \/ k.end <= l.start
    BY <1>1, RestFacts DEF PoolsInv
<1>3. /\ TopOf(live') \in 0 .. anon_size
      /\ \A l \in live' : l.pool = "anon" => l.end <= anon_base + TopOf(live')
    <2>1. live' \in SUBSET [pool : {"anon", "file"}, start : Nat, end : Nat]
        BY <1>2
    <2> QED BY <1>2, <2>1, TopFacts
<1>4. anon_size \in Nat /\ anon_size <= AnonSize
    BY PoolFacts DEF PoolsInv, Starting
<1>5. /\ anon_size' \in 0 .. anon_size
      /\ \A l \in live' : l.pool = "anon" => l.end <= anon_base + anon_size'
    <2>1. TopOf(live') = TopOf(Rest(m, n))
        BY Zenon
    <2>2. CASE anon_size' = anon_size
        BY <1>2, <1>4, <2>2 DEF InRange
    <2>3. CASE anon_size' = TopOf(live')
        BY <1>3, <2>3
    <2> QED BY <2>1, <2>2, <2>3
<1>6. Types'
    <2>1. anon_size' \in 0 .. AnonSize
        BY <1>4, <1>5, Constants
    <2> QED BY <1>2, <2>1 DEF PoolsInv, Types
<1>7. Bases'
    BY BasesKept DEF PoolsInv
<1>8. Listed'
    BY <1>2, <1>5 DEF Listed, InRange, pools
<1>9. ListedApart' /\ HasPlaced'
    BY <1>2 DEF PoolsInv, ListedApart, HasPlaced, Placed, pools
<1> QED BY <1>5, <1>6, <1>7, <1>8, <1>9

\* Taking a mapping away where it is none of the others'.
LEMMA UnmapKept ==
    ASSUME PoolsInv, pc = "running", Apart, NEW h \in has, NEW S,
           space' = Ours(S, "free"), has' = has \ {h},
           UNCHANGED pools, anon_size' \in 0 .. anon_size,
           Span(anon_base, anon_size') \cap S = {},
           \A k \in has' : k.kind # "anon" => Span(k.start, k.end - k.start) \cap S = {}
    PROVE  AnonMapped' /\ FilesMapped'
<1>1. AnonMapped /\ FilesMapped
    BY DEF PoolsInv, Mapped
<1>2. \A x \in Addresses : x \notin S => space'[x] = space[x]
    BY OursFacts DEF PoolsInv, Owners
<1>3. anon_base \in Nat /\ anon_size \in Nat /\ anon_size <= AnonSize
      /\ AnonPool \subseteq Addresses
    BY PoolFacts DEF PoolsInv, Starting
<1>4. Span(anon_base, anon_size') \subseteq Span(anon_base, anon_size)
    BY <1>3, SpanWithin
<1>5. Span(anon_base, anon_size) \subseteq Addresses
    <2>1. Span(anon_base, anon_size) \subseteq AnonPool
        BY <1>3, Constants, SpanWithin DEF AnonPool
    <2> QED BY <1>3, <2>1
<1>6. AnonMapped'
    BY <1>1, <1>2, <1>4, <1>5 DEF AnonMapped, pools
<1>7. FilesMapped'
    BY <1>1, <1>2 DEF FilesMapped
<1> QED BY <1>6, <1>7

LEMMA MunmapInv ==
    ASSUME PoolsInv, NEW h \in has, Munmap(h)
    PROVE  PoolsInv'
<1> DEFINE n == h.end - h.start
<1>1. PICK m \in Held(Route(h.start)) :
         LET rest == (live \ {m}) \cup
                     (IF m.end - m.start = n THEN {} ELSE {[m EXCEPT !.start = @ + n]})
             ends == {k.end : k \in {k \in rest : k.pool = "anon"}}
             top == IF ends = {} THEN 0 ELSE TopAddress(ends) - anon_base
         IN
         /\ pc = "running"
         /\ m.start <= h.start /\ h.start < m.end /\ n <= m.end - m.start
         /\ live' = rest
         /\ has' = has \ {h}
         /\ \/ /\ m.pool = "anon"
               /\ anon_size' = IF anon_size - top > RESIZE_THRESHOLD THEN top ELSE anon_size
               /\ space' = Ours(Span(anon_base + anon_size', anon_size - anon_size'), "free")
            \/ /\ m.pool = "file"
               /\ space' = Ours(Span(h.start, n), "free")
               /\ UNCHANGED anon_size
         /\ UNCHANGED <<pc, pools, brk_size, hinted>>
    BY DEF Munmap
<1>2. /\ pc = "running" /\ m.start <= h.start /\ h.start < m.end /\ n <= m.end - m.start
      /\ live' = Rest(m, n) /\ has' = has \ {h}
      /\ UNCHANGED <<pc, pools, brk_size, hinted>>
    BY <1>1 DEF Rest
<1>3. \/ /\ m.pool = "anon" /\ anon_size' \in {anon_size, TopOf(Rest(m, n))}
         /\ space' = Ours(Span(anon_base + anon_size', anon_size - anon_size'), "free")
      \/ /\ m.pool = "file" /\ anon_size' = anon_size
         /\ space' = Ours(Span(h.start, n), "free")
    BY <1>1 DEF Rest, TopOf, Ends
<1>4. h \in [kind : {"anon", "file", "hint"}, start : Nat, end : Nat] /\ h.start < h.end
      /\ n \in Nat \ {0}
    <2>1. h \in [kind : {"anon", "file", "hint"}, start : Nat, end : Nat] /\ h.start < h.end
        BY DEF PoolsInv, Types, HasPlaced, Placed
    <2> QED BY <2>1
<1>5. space' \in [Addresses -> Owners]
    BY <1>3, OursFacts DEF PoolsInv, Owners
<1>6. /\ Types' /\ Bases' /\ Listed' /\ ListedApart' /\ HasPlaced'
      /\ anon_size' \in 0 .. anon_size
    <2> HIDE DEF n
    <2>1. CASE m.pool = "anon"
        BY <1>2, <1>3, <1>4, <1>5, <2>1, MunmapLists
    <2>2. CASE m.pool = "file"
        BY <1>2, <1>3, <1>4, <1>5, <2>2, MunmapLists
    <2> QED BY <1>3, <2>1, <2>2
<1>7. Mapped'
    <2> SUFFICES ASSUME Apart' PROVE (AnonMapped /\ HasListed /\ FilesMapped)'
        BY DEF Mapped
    <2>1. Apart /\ AnonMapped /\ HasListed /\ FilesMapped
        BY <1>2, ApartKept DEF PoolsInv, Mapped
    <2>2. h.kind = m.pool /\ m = Range(h.kind, h.start, n)
        BY <1>2, <2>1, MunmapFinds
    <2>3. HasListed'
        <3>1. ASSUME NEW k \in has', k.kind # "hint"
              PROVE  Range(k.kind, k.start, k.end - k.start) \in live'
            <4>1. Range(k.kind, k.start, k.end - k.start) \in live \ {m}
                BY <1>2, <1>4, <2>1, <2>2, <3>1, OthersListed DEF PoolsInv
            <4> QED BY <1>2, <4>1 DEF Rest
        <3> QED BY <3>1 DEF HasListed
    <2>4. /\ anon_base \in Nat /\ anon_size \in Nat /\ anon_size <= AnonSize
          /\ anon_size' \in Nat /\ anon_size' <= anon_size
        BY <1>2, <1>6, PoolFacts DEF PoolsInv, Starting
    <2>5. CASE m.pool = "anon"
        <3> DEFINE S == Span(anon_base + anon_size', anon_size - anon_size')
        <3>1. S \subseteq AnonPool
            BY <2>4, Constants, SpanWithin DEF AnonPool
        <3>2. Span(anon_base, anon_size') \cap S = {}
            BY <2>4, SpanBefore
        <3>3. \A k \in has' : k.kind # "anon" => Span(k.start, k.end - k.start) \cap S = {}
            BY <1>2, <2>1, <3>1, FilesElsewhere
        <3>4. space' = Ours(S, "free")
            BY <1>3, <2>5
        <3> HIDE DEF S
        <3>5. AnonMapped' /\ FilesMapped'
            BY <1>2, <1>6, <2>1, <3>2, <3>3, <3>4, UnmapKept
        <3> QED BY <2>3, <3>5
    <2>6. CASE m.pool = "file"
        <3> DEFINE S == Span(h.start, n)
        <3>1. space' = Ours(S, "free") /\ anon_size' = anon_size
            BY <1>3, <2>6
        <3>2. S \subseteq FileRange /\ S \cap AnonPool = {}
            BY <1>2, <2>1, <2>2, <2>6, FileInRange, FilesElsewhere
        <3>3. Span(anon_base, anon_size') \cap S = {}
            <4>1. Span(anon_base, anon_size') \subseteq AnonPool
                BY <2>4, Constants, SpanWithin DEF AnonPool
            <4> QED BY <3>2, <4>1
        <3>4. ASSUME NEW k \in has', k.kind # "anon"
              PROVE  Span(k.start, k.end - k.start) \cap S = {}
            <4>1. k \in has \ {h} /\ k \in [kind : {"anon", "file", "hint"}, start : Nat, end : Nat]
                BY <1>2 DEF PoolsInv, Types
            <4>2. CASE k.kind = "file"
                <5> DEFINE l == Range("file", k.start, k.end - k.start)
                <5>1. l \in live \ {m}
                    BY <1>4, <2>1, <2>2, <4>1, <4>2, OthersListed DEF PoolsInv
                <5>2. l.pool = "file" /\ l.start = k.start /\ l.end = k.end
                    BY <4>1 DEF Range
                <5>3. m.start = h.start /\ m.end = h.end /\ m \in live
                    BY <1>4, <2>2 DEF Range, Held
                <5>4. k.end <= h.start \/ h.end <= k.start
                    BY <2>6, <5>1, <5>2, <5>3 DEF PoolsInv, ListedApart
                <5> QED BY <1>4, <4>1, <5>4 DEF Span
            <4>3. CASE k.kind = "hint"
                <5>1. Span(k.start, k.end - k.start) \subseteq hinted
                    BY <4>1, <4>3 DEF PoolsInv, HasPlaced, Placed
                <5> QED BY <2>1, <3>2, <5>1 DEF Apart
            <4> QED BY <3>4, <4>1, <4>2, <4>3
        <3> HIDE DEF S
        <3>5. AnonMapped' /\ FilesMapped'
            BY <1>2, <1>6, <2>1, <3>1, <3>3, <3>4, UnmapKept
        <3> QED BY <2>3, <3>5
    <2> QED BY <1>3, <2>5, <2>6
<1> QED BY <1>6, <1>7 DEF PoolsInv

-------------------------------------------------------------------------------
(* The theorems.                                                           *)

LEMMA StepInv == PoolsInv /\ [Next]_vars => PoolsInv'
<1> SUFFICES ASSUME PoolsInv, [Next]_vars PROVE PoolsInv'
    OBVIOUS
<1>1. CASE UNCHANGED vars
    BY <1>1 DEF vars, pools, program, PoolsInv, Types, Bases, AnonPool, Listed, InRange,
        ListedApart, HasPlaced, Placed, Mapped, Apart, FileRange, AnonMapped, HasListed,
        FilesMapped
<1>2. CASE Next
    BY <1>2, InitAnonPoolInv, InitFilePoolInv, InitBrkPoolInv, MmapAnonInv, MmapFileInv,
        MmapFileAtInv, MunmapInv, BrkInv, OtherInv DEF Next
<1> QED BY <1>1, <1>2

LEMMA InvHolds == Spec => []PoolsInv
BY InitInv, StepInv, PTL DEF Spec

\* Wherever the kernel puts them: the ranges that InitRegions has picked for the
\* pools do not overlap.
THEOREM RegionsAlwaysApart == Spec => []RegionsApart
BY InvHolds, ApartInv, PTL

\* Wherever the kernel puts the pools, and although the file allocator may take
\* its range to reach into the anonymous pool: DeallocateFromMmapRegion takes an
\* anonymous range to the anonymous pool.
THEOREM AnonAlwaysRoutedHome == Spec => []AnonRoutedHome
BY InvHolds, RoutedInv, PTL

\* With the ranges of the pools and the program's own addresses apart: whatever
\* mmap has given stays mapped and known to its allocator, through every order of
\* mmap, munmap, brk, mappings of others and refusals by the kernel.
THEOREM HeldAlwaysMapped == Spec => []HeldIsMapped
BY InvHolds, HeldInv, PTL
===============================================================================
