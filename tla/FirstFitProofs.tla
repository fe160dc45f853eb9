---------------------------- MODULE FirstFitProofs ----------------------------
(***************************************************************************)
(* Proofs about FirstFit, for every pool, table size, set of sizes and     *)
(* mix of callers: no two regions overlap, the two lists fit in the node   *)
(* table, whole frees succeed even if it is full and lose nothing, and to  *)
(* its clients the allocator is a RangeAllocator.                          *)
(***************************************************************************)
EXTENDS FirstFit, FiniteSetTheorems, WellFoundedInduction, TLAPS

\* A non-empty set of naturals has a least element.
LEMMA LeastNatural ==
    ASSUME NEW T \in SUBSET Nat, T # {}
    PROVE  \E m \in T : \A n \in T : m <= n
<1> DEFINE lt == OpToRel(<, Nat)
<1>1. \E m \in T : \A n \in T : ~(<<n, m>> \in lt)
    <2>1. IsWellFoundedOn(lt, Nat)
        BY NatLessThanWellFounded
    <2> HIDE DEF lt
    <2> QED BY <2>1, WFMin
<1>2. PICK m \in T : \A n \in T : ~(<<n, m>> \in lt)
    BY <1>1
<1>3. ASSUME NEW n \in T PROVE m <= n
    <2>1. <<n, m>> \in Nat \X Nat /\ ~(<<n, m>> \in lt)
        BY <1>2
    <2>2. ~(n < m)
        BY <2>1 DEF OpToRel
    <2> QED BY <2>2
<1> QED BY <1>3

\* A non-empty set of naturals with an upper bound has a greatest element.
LEMMA GreatestNatural ==
    ASSUME NEW T \in SUBSET Nat, T # {}, NEW b \in Nat, \A n \in T : n <= b
    PROVE  \E m \in T : \A n \in T : n <= m
<1> DEFINE U == {b - n : n \in T}
<1>1. U \in SUBSET Nat /\ U # {}
    <2>1. ASSUME NEW n \in T PROVE b - n \in Nat
        OBVIOUS
    <2>2. \E n \in T : b - n \in U
        OBVIOUS
    <2> QED BY <2>1, <2>2
<1>2. PICK u \in U : \A v \in U : u <= v
    <2> HIDE DEF U
    <2> QED BY <1>1, LeastNatural
<1>3. PICK m \in T : u = b - m
    OBVIOUS
<1>4. ASSUME NEW n \in T PROVE n <= m
    <2>1. b - m <= b - n
        BY <1>2, <1>3
    <2>2. n \in Nat /\ m \in Nat
        OBVIOUS
    <2> QED BY <2>1, <2>2
<1> QED BY <1>4

\* The first region of a non-empty list exists.
LEMMA LowestExists ==
    ASSUME NEW R \in SUBSET Regions, R # {}
    PROVE  Lowest(R) \in R /\ \A q \in R : Lowest(R).start <= q.start
<1> DEFINE T == {r.start : r \in R}
<1>1. T \in SUBSET Nat /\ T # {}
    BY DEF Regions
<1>2. PICK m \in T : \A n \in T : m <= n
    <2> HIDE DEF T
    <2> QED BY <1>1, LeastNatural
<1>3. PICK r \in R : m = r.start
    OBVIOUS
<1>4. \A q \in R : r.start <= q.start
    BY <1>2, <1>3
<1> QED BY <1>4 DEF Lowest

-------------------------------------------------------------------------------
(* Runs of touching regions.                                               *)

\* The regions of one list, or of both, pairwise apart.
Apart(R) == \A r, q \in R : r # q => Disjoint(r, q)

\* Two regions are apart when no address lies in both.
LEMMA NoCommonAddress ==
    ASSUME NEW r \in Regions, NEW q \in Regions,
           \A x \in Nat : ~(r.start <= x /\ x < r.end /\ q.start <= x /\ x < q.end)
    PROVE  Disjoint(r, q)
<1>1. r.start \in Nat /\ q.start \in Nat
    BY DEF Regions
<1> QED BY <1>1 DEF Regions, Disjoint

\* An unbroken run from h to t has no gap: every address from h.start to
\* t.end lies in a region of the list.
LEMMA RunHasNoGap ==
    ASSUME NEW R \in SUBSET Regions, Apart(R),
           NEW h \in R, NEW t \in R, Unbroken(R, h, t),
           NEW x \in Nat, h.start <= x, x < t.end
    PROVE  \E r \in R : r.start <= x /\ x < r.end
<1>1. CASE t.start <= x
    BY <1>1
<1>2. CASE x < t.start
    <2> DEFINE S == {r \in R : h.start <= r.start /\ r.start <= x}
               T == {r.start : r \in S}
    <2>1. T \in SUBSET Nat /\ T # {} /\ \A n \in T : n <= x
        <3>1. h \in S
            BY DEF Regions
        <3> QED BY <3>1 DEF Regions
    <2>2. PICK m \in T : \A n \in T : n <= m
        <3> HIDE DEF T
        <3> QED BY <2>1, GreatestNatural
    <2>3. PICK r \in S : m = r.start
        OBVIOUS
    <2>4. PICK q \in R : q.start = r.end
        BY <1>2, <2>3 DEF Unbroken, Regions
    <2>5. x < r.end
        <3>1. SUFFICES ASSUME r.end <= x PROVE FALSE
            BY DEF Regions
        <3>2. q \in S
            BY <2>3, <2>4, <3>1 DEF Regions
        <3>3. q.start <= m
            BY <2>2, <3>2
        <3> QED BY <2>3, <2>4, <3>3 DEF Regions
    <2> QED BY <2>3, <2>5
<1> QED BY <1>1, <1>2 DEF Regions

\* Combining gives regions of the pool that cover no address of their own.
LEMMA CombinedRegions ==
    ASSUME NEW R \in SUBSET Regions, Apart(R),
           NEW c \in CombineAdjacentFreeNodes(R)
    PROVE  /\ c \in Regions
           /\ \A x \in Nat : c.start <= x /\ x < c.end
                  => \E r \in R : r.start <= x /\ x < r.end
<1>1. PICK h \in R, t \in R : /\ Unbroken(R, h, t)
                             /\ c = [start |-> h.start, end |-> t.end]
    BY DEF CombineAdjacentFreeNodes, Heads, Tails
<1>2. c \in Regions
    BY <1>1 DEF Unbroken, Regions
<1>3. ASSUME NEW x \in Nat, c.start <= x, x < c.end
      PROVE  \E r \in R : r.start <= x /\ x < r.end
    BY <1>1, <1>3, RunHasNoGap
<1> QED BY <1>2, <1>3

\* A run that starts before another ends before it: heads have no
\* predecessor to be reached from.
LEMMA RunsAreOrdered ==
    ASSUME NEW R \in SUBSET Regions, Apart(R),
           NEW h \in R, NEW t \in R, Unbroken(R, h, t),
           NEW g \in Heads(R), h.start < g.start
    PROVE  t.end <= g.start
<1> USE DEF Regions
<1>1. SUFFICES ASSUME g.start < t.end PROVE FALSE
    BY DEF Heads
<1>2. g \in R /\ \A q \in R : q.end # g.start
    BY DEF Heads
<1>3. PICK r \in R : r.start <= g.start - 1 /\ g.start - 1 < r.end
    <2>1. g.start - 1 \in Nat /\ h.start <= g.start - 1 /\ g.start - 1 < t.end
        BY <1>1, <1>2
    <2> QED BY <2>1, RunHasNoGap
<1>4. r # g
    BY <1>2, <1>3
<1>5. Disjoint(r, g)
    BY <1>2, <1>4 DEF Apart
<1>6. r.end = g.start
    BY <1>2, <1>3, <1>5 DEF Disjoint
<1> QED BY <1>2, <1>6

\* Combining keeps regions apart.
LEMMA CombinedApart ==
    ASSUME NEW R \in SUBSET Regions, Apart(R)
    PROVE  Apart(CombineAdjacentFreeNodes(R))
<1> DEFINE C == CombineAdjacentFreeNodes(R)
           IsRun(c, h, t) == /\ h \in Heads(R) /\ t \in Tails(R) /\ Unbroken(R, h, t)
                             /\ c = [start |-> h.start, end |-> t.end]
<1> SUFFICES ASSUME NEW c \in C, NEW d \in C, c # d PROVE Disjoint(c, d)
    BY DEF Apart
<1>1. PICK h, t : IsRun(c, h, t)
    BY DEF CombineAdjacentFreeNodes
<1>2. PICK g, u : IsRun(d, g, u)
    BY DEF CombineAdjacentFreeNodes
<1>3. h \in R /\ t \in R /\ g \in R /\ u \in R
    BY <1>1, <1>2 DEF Heads, Tails
<1>4. CASE h.start < g.start
    BY <1>1, <1>2, <1>3, <1>4, RunsAreOrdered DEF Disjoint
<1>5. CASE g.start < h.start
    BY <1>1, <1>2, <1>3, <1>5, RunsAreOrdered DEF Disjoint
<1>6. CASE h.start = g.start
    <2>1. ~(t.start < u.start)
        BY <1>1, <1>2, <1>3, <1>6 DEF Unbroken, Tails
    <2>2. ~(u.start < t.start)
        BY <1>1, <1>2, <1>3, <1>6 DEF Unbroken, Tails
    <2>3. t.start = u.start
        BY <1>3, <2>1, <2>2 DEF Regions
    <2>4. ~Disjoint(t, u)
        BY <1>3, <2>3 DEF Disjoint, Regions
    <2>5. t = u
        BY <1>3, <2>4 DEF Apart
    <2> QED BY <1>1, <1>2, <1>6, <2>5
<1> QED BY <1>3, <1>4, <1>5, <1>6 DEF Regions

-------------------------------------------------------------------------------
(* Type correctness and absence of overlap.                                *)

Covers(R, x) == \E r \in R : r.start <= x /\ x < r.end

\* AddFreedRegionToFreeList keeps the free list a set of separate regions
\* of the pool and adds no address but those of the freed range.
LEMMA AddFreedSafe ==
    ASSUME TypeOK, NoOverlap, NEW O, NEW r \in Regions,
           \A f \in free : Disjoint(f, r)
    PROVE  LET F == AddFreedRegionToFreeList(r, O).free
           IN /\ F \in SUBSET Regions
              /\ Apart(F)
              /\ \A x \in Nat : Covers(F, x) => Covers(free \cup {r}, x)
<1> DEFINE F == AddFreedRegionToFreeList(r, O).free
<1>1. free \in SUBSET Regions /\ Apart(free)
    BY DEF TypeOK, NoOverlap, Apart
<1>2. CASE Touching(r) # {}
    <2> DEFINE f == Lowest(Touching(r))
               a == Absorb(f, r)
    <2>1. f \in free /\ (r.end = f.start \/ f.end = r.start)
        <3>1. Touching(r) \in SUBSET Regions
            BY <1>1 DEF Touching
        <3> QED BY <1>2, <3>1, LowestExists DEF Touching
    <2>2. F = (free \ {f}) \cup {a}
        BY <1>2 DEF AddFreedRegionToFreeList
    <2> HIDE DEF f, F
    <2>3. /\ a \in Regions
          /\ \/ r.end = f.start /\ a.start = r.start /\ a.end = f.end
             \/ f.end = r.start /\ a.start = f.start /\ a.end = r.end
        BY <1>1, <2>1 DEF Absorb, Regions
    <2> HIDE DEF a
    <2>4. \A g \in free \ {f} : Disjoint(g, a) /\ Disjoint(a, g)
        <3> SUFFICES ASSUME NEW g \in free \ {f} PROVE Disjoint(g, a) /\ Disjoint(a, g)
            OBVIOUS
        <3>1. Disjoint(g, f) /\ Disjoint(g, r)
            BY <1>1, <2>1 DEF Apart
        <3> QED BY <1>1, <2>1, <2>3, <3>1 DEF Disjoint, Regions
    <2>5. Apart(F)
        BY <1>1, <2>2, <2>4 DEF Apart
    <2>6. \A x \in Nat : Covers(F, x) => Covers(free \cup {r}, x)
        BY <1>1, <2>1, <2>2, <2>3 DEF Covers, Regions
    <2> QED BY <1>1, <2>2, <2>3, <2>5, <2>6 DEF F
<1>3. CASE Touching(r) = {} /\ NodeLeft(free, O)
    <2> DEFINE R == free \cup {r}
    <2>1. R \in SUBSET Regions /\ Apart(R)
        BY <1>1 DEF Apart, Disjoint
    <2>2. F = CombineAdjacentFreeNodes(R)
        BY <1>3 DEF AddFreedRegionToFreeList
    <2> HIDE DEF F, R
    <2>3. Apart(F)
        BY <2>1, <2>2, CombinedApart
    <2>4. \A c \in F : /\ c \in Regions
                      /\ \A x \in Nat : c.start <= x /\ x < c.end => Covers(R, x)
        BY <2>1, <2>2, CombinedRegions DEF Covers
    <2>5. \A x \in Nat : Covers(F, x) => Covers(R, x)
        BY <2>4 DEF Covers
    <2> QED BY <2>3, <2>4, <2>5 DEF F, R
<1>4. CASE Touching(r) = {} /\ ~NodeLeft(free, O)
    <2>1. F = free
        BY <1>4 DEF AddFreedRegionToFreeList
    <2> QED BY <1>1, <2>1 DEF Covers
<1> QED BY <1>2, <1>3, <1>4

\* The safety invariant of the allocator; it is inductive as it stands.
Safe == TypeOK /\ NoOverlap

LEMMA InitSafe == Init => Safe
BY PoolAssumption
   DEF Init, Safe, TypeOK, NoOverlap, Region, Regions, Disjoint

LEMMA AllocateSafe ==
    ASSUME Safe, NEW n \in Sizes, Allocate(n)
    PROVE  Safe'
<1> USE SizesAssumption
<1>1. CASE AllocateNull(n)
    BY <1>1 DEF AllocateNull, Safe, TypeOK, NoOverlap
<1> DEFINE f == Lowest(Fits(n))
<1>2. ASSUME Fits(n) # {}
      PROVE  f \in free /\ f \in Regions /\ Size(f) >= n
    <2>1. Fits(n) \in SUBSET Regions
        BY DEF Fits, Safe, TypeOK
    <2> QED BY <1>2, <2>1, LowestExists DEF Fits
<1>3. CASE AllocateExact(n)
    <2>1. /\ f \in free /\ f \in Regions
          /\ free' = free \ {f} /\ occ' = occ \cup {f} /\ client' = client
        BY <1>2, <1>3 DEF AllocateExact
    <2> HIDE DEF f
    <2> QED BY <2>1 DEF Safe, TypeOK, NoOverlap, Disjoint
<1>4. CASE AllocateSplit(n)
    <2> DEFINE g == Rest(f, n)
               p == Region(f.start, n)
    <2>1. /\ f \in free /\ f \in Regions /\ n > 0 /\ n < Size(f)
          /\ free' = (free \ {f}) \cup {g} /\ occ' = occ \cup {p} /\ client' = client
        <3>1. Fits(n) # {} /\ n > 0 /\ Size(f) # n
            BY <1>4 DEF AllocateSplit
        <3>2. f \in free /\ f \in Regions /\ Size(f) >= n
            BY <1>2, <3>1
        <3>3. n < Size(f)
            BY <3>1, <3>2 DEF Size, Regions
        <3> QED BY <1>4, <3>1, <3>2, <3>3 DEF AllocateSplit
    <2> HIDE DEF f
    <2>2. /\ g \in Regions /\ p \in Regions
          /\ p.start = f.start /\ p.end = g.start /\ g.end = f.end
        BY <2>1, PoolAssumption DEF Regions, Region, Rest, Size
    <2> HIDE DEF g, p
    <2>3. ASSUME NEW q \in Regions, Disjoint(q, f) \/ Disjoint(f, q)
          PROVE  Disjoint(q, g) /\ Disjoint(g, q) /\ Disjoint(q, p) /\ Disjoint(p, q)
        BY <2>1, <2>2, <2>3 DEF Disjoint, Regions
    <2>4. Disjoint(g, p)
        BY <2>2 DEF Disjoint, Regions
    <2> QED BY <2>1, <2>2, <2>3, <2>4 DEF Safe, TypeOK, NoOverlap
<1> QED BY <1>1, <1>3, <1>4 DEF Allocate

LEMMA FreeRegionSafe ==
    ASSUME Safe, NEW r \in occ, NEW n \in Sizes, FreeRegion(r, n)
    PROVE  Safe'
<1> USE SizesAssumption
<1> DEFINE d    == Region(r.start, n)
           rest == IF n = Size(r) THEN {} ELSE {Rest(r, n)}
           O    == (occ \ {r}) \cup rest
           F    == AddFreedRegionToFreeList(d, O).free
<1>1. 0 < n /\ n <= Size(r) /\ occ' = O /\ free' = F /\ client' = client
    BY DEF FreeRegion
<1>2. r \in Regions /\ occ \in SUBSET Regions
    BY DEF Safe, TypeOK
<1>10. n \in Nat /\ 0 < n /\ n <= r.end - r.start
    BY <1>1 DEF Size
<1>3. d \in Regions /\ d.start = r.start /\ d.end = r.start + n /\ d.end <= r.end
    BY <1>2, <1>10, PoolAssumption DEF Region, Regions
<1>4. ASSUME NEW q \in rest
      PROVE  q \in Regions /\ q.start = d.end /\ q.end = r.end
    <2>1. n # r.end - r.start /\ q = Rest(r, n)
        BY <1>4 DEF Size
    <2> QED BY <1>2, <1>10, <1>3, <2>1, PoolAssumption DEF Rest, Regions
<1> HIDE DEF d, rest, F
<1>5. /\ F \in SUBSET Regions /\ Apart(F)
      /\ \A x \in Nat : Covers(F, x) => Covers(free \cup {d}, x)
    <2>1. \A f \in free : Disjoint(f, d)
        BY <1>2, <1>3 DEF Safe, TypeOK, NoOverlap, Disjoint, Regions
    <2> HIDE DEF O
    <2> QED BY <1>3, <2>1, AddFreedSafe DEF F, Safe
<1>6. O \in SUBSET Regions
    BY <1>2, <1>4
<1>7. ASSUME NEW q \in O
      PROVE  Disjoint(d, q) /\ \A f \in free : Disjoint(f, q)
    <2>1. CASE q \in occ \ {r}
        <3>1. Disjoint(r, q) /\ \A f \in free : Disjoint(f, q)
            BY <2>1 DEF Safe, NoOverlap
        <3> QED BY <1>2, <1>3, <2>1, <3>1 DEF Disjoint, Regions
    <2>2. CASE q \in rest
        <3>1. \A f \in free : Disjoint(f, r)
            BY DEF Safe, NoOverlap
        <3> QED BY <1>2, <1>3, <1>4, <2>2, <3>1 DEF Disjoint, Regions, Safe, TypeOK
    <2> QED BY <2>1, <2>2
<1>8. ASSUME NEW q \in O, NEW p \in O, q # p
      PROVE  Disjoint(q, p)
    <2>1. CASE q \in occ \ {r} /\ p \in occ \ {r}
        BY <1>8, <2>1 DEF Safe, NoOverlap
    <2>2. CASE q \in occ \ {r} /\ p \in rest
        <3>1. Disjoint(q, r)
            BY <2>2 DEF Safe, NoOverlap
        <3> QED BY <1>2, <1>3, <1>4, <2>2, <3>1 DEF Disjoint, Regions
    <2>3. CASE q \in rest /\ p \in occ \ {r}
        <3>1. Disjoint(r, p)
            BY <2>3 DEF Safe, NoOverlap
        <3> QED BY <1>2, <1>3, <1>4, <2>3, <3>1 DEF Disjoint, Regions
    <2>4. CASE q \in rest /\ p \in rest
        BY <1>8, <2>4 DEF rest
    <2> QED BY <2>1, <2>2, <2>3, <2>4
<1>9. ASSUME NEW c \in F, NEW q \in O
      PROVE  Disjoint(c, q)
    <2>1. ASSUME NEW x \in Nat, c.start <= x, x < c.end, q.start <= x, x < q.end
          PROVE  FALSE
        <3>1. PICK g \in free \cup {d} : g.start <= x /\ x < g.end
            BY <1>5, <2>1 DEF Covers
        <3>2. Disjoint(g, q)
            BY <1>7
        <3>3. g \in Regions /\ q \in Regions
            BY <1>3, <1>6 DEF Safe, TypeOK
        <3> QED BY <2>1, <3>1, <3>2, <3>3 DEF Disjoint, Regions
    <2>2. c \in Regions /\ q \in Regions
        BY <1>5, <1>6
    <2> QED BY <2>1, <2>2, NoCommonAddress
<1> HIDE DEF O
<1> QED BY <1>1, <1>5, <1>6, <1>8, <1>9 DEF Safe, TypeOK, NoOverlap, Apart

LEMMA NextSafe ==
    ASSUME Safe, [Next]_vars
    PROVE  Safe'
<1>1. ASSUME NEW n \in Sizes, Allocate(n) PROVE Safe'
    BY <1>1, AllocateSafe
<1>2. ASSUME NEW a \in Pool, NEW n \in Sizes, FreeRefused(a, n) PROVE Safe'
    BY <1>2 DEF FreeRefused, Safe, TypeOK, NoOverlap
<1>3. ASSUME NEW r \in occ, NEW n \in Sizes, FreeRegion(r, n) PROVE Safe'
    BY <1>3, FreeRegionSafe
<1>4. CASE UNCHANGED vars
    BY <1>4 DEF vars, Safe, TypeOK, NoOverlap
<1> QED BY <1>1, <1>2, <1>3, <1>4 DEF Next

LEMMA Safety == Spec => []Safe
<1>1. Safe /\ [Next]_vars => Safe'
    BY NextSafe
<1> QED BY InitSafe, <1>1, PTL DEF Spec

\* The regions of both lists stay non-empty ranges of the pool, whatever is
\* allocated and freed (FirstFitAllocator.cc, Allocate and Free).
THEOREM TypeCorrect == Spec => []TypeOK
<1>1. Safe => TypeOK
    BY DEF Safe
<1> QED BY Safety, <1>1, PTL

\* No two regions ever overlap: memory handed to a caller is neither handed
\* out again nor put on the free list before it is freed, however the frees
\* merge with their neighbours (IsValidDataStructure, part 1).
THEOREM NeverOverlaps == Spec => []NoOverlap
<1>1. Safe => NoOverlap
    BY DEF Safe
<1> QED BY Safety, <1>1, PTL

-------------------------------------------------------------------------------
(* The node table: regions as entries of it, and the addresses they cover.  *)

\* The last region of a non-empty list exists.
LEMMA HighestExists ==
    ASSUME NEW R \in SUBSET Regions, R # {}
    PROVE  \E m \in R : \A q \in R : q.start <= m.start
<1> DEFINE T == {r.start : r \in R}
<1>1. T \in SUBSET Nat /\ T # {} /\ \A n \in T : n <= End
    BY PoolAssumption DEF Regions
<1>2. PICK m \in T : \A n \in T : n <= m
    <2> HIDE DEF T
    <2> QED BY <1>1, PoolAssumption, GreatestNatural
<1>3. PICK r \in R : m = r.start
    OBVIOUS
<1>4. \A q \in R : q.start <= r.start
    BY <1>2, <1>3
<1> QED BY <1>4

\* A list has one region at an address.
LEMMA OneAtAnAddress ==
    ASSUME NEW R \in SUBSET Regions, Apart(R), NEW r \in R, NEW q \in R, r.start = q.start
    PROVE  r = q
BY DEF Apart, Disjoint, Regions

-------------------------------------------------------------------------------
(* Combining loses no address and needs no node.                           *)

\* A region of a list is in the run from the last head before it to the first
\* tail behind it, which has no gap.
LEMMA CombinedCover ==
    ASSUME NEW R \in SUBSET Regions, Apart(R), NEW r \in R
    PROVE  \E c \in CombineAdjacentFreeNodes(R) : c.start <= r.start /\ r.end <= c.end
<1> DEFINE H == {q \in Heads(R) : q.start <= r.start}
           T == {q \in Tails(R) : r.start <= q.start}
<1>0. \A q \in R : q.start \in Nat /\ q.end \in Nat /\ q.start < q.end
    BY DEF Regions
<1>1. PICK h \in H : \A q \in H : q.start <= h.start
    <2>1. PICK f \in R : \A q \in R : f.start <= q.start
        BY LowestExists
    <2>2. f \in H
        BY <1>0, <2>1 DEF Heads
    <2>3. H \in SUBSET Regions /\ H # {}
        BY <2>2 DEF Heads
    <2> QED BY <2>3, HighestExists
<1>2. PICK t \in T : \A q \in T : t.start <= q.start
    <2>1. PICK l \in R : \A q \in R : q.start <= l.start
        BY HighestExists
    <2>2. l \in T
        BY <1>0, <2>1 DEF Tails
    <2>3. T \in SUBSET Regions /\ T # {}
        BY <2>2 DEF Tails
    <2> QED BY <2>3, LowestExists
<1>3. h \in Heads(R) /\ h \in R /\ h.start <= r.start
    BY DEF Heads
<1>4. t \in Tails(R) /\ t \in R /\ r.start <= t.start
    BY DEF Tails
<1>5. ASSUME NEW q \in R, h.start <= q.start, q.start < t.start
      PROVE  \E p \in R : p.start = q.end
    <2>1. SUFFICES ASSUME q \in Tails(R) PROVE FALSE
        BY DEF Tails
    <2>2. q.start < r.start
        <3>1. SUFFICES ASSUME r.start <= q.start PROVE FALSE
            BY <1>0
        <3>2. t.start <= q.start
            BY <1>2, <2>1, <3>1
        <3> QED BY <1>0, <1>4, <1>5, <3>2
    <2> DEFINE A == {p \in R : q.start < p.start /\ p.start <= r.start}
    <2>3. PICK p \in A : \A u \in A : p.start <= u.start
        <3>1. A \in SUBSET Regions /\ A # {}
            BY <1>0, <2>2
        <3> HIDE DEF A
        <3> QED BY <3>1, LowestExists
    <2>4. ASSUME NEW u \in R, u.end = p.start
          PROVE  FALSE
        <3>1. u.start < p.start
            BY <1>0, <2>4
        <3>2. u.start <= q.start
            BY <1>0, <2>3, <3>1
        <3>3. u # q
            BY <2>1, <2>3, <2>4 DEF Tails
        <3>4. Disjoint(u, q)
            BY <3>3 DEF Apart
        <3> QED BY <1>0, <2>3, <2>4, <3>2, <3>4 DEF Disjoint
    <2>5. p \in H
        BY <2>3, <2>4 DEF Heads
    <2>6. p.start <= h.start
        BY <1>1, <2>5
    <2> QED BY <1>0, <1>3, <1>5, <2>3, <2>6
<1>6. Unbroken(R, h, t)
    BY <1>0, <1>3, <1>4, <1>5 DEF Unbroken
<1> DEFINE c == [start |-> h.start, end |-> t.end]
<1>7. c \in CombineAdjacentFreeNodes(R)
    <2> DEFINE p == <<h, t>>
    <2>1. /\ p \in {u \in Heads(R) \X Tails(R) : Unbroken(R, u[1], u[2])}
          /\ c = [start |-> p[1].start, end |-> p[2].end]
        BY <1>3, <1>4, <1>6
    <2> HIDE DEF c, p
    <2> QED BY <2>1 DEF CombineAdjacentFreeNodes
<1>8. r.end <= t.end
    <2>1. CASE r = t
        BY <1>0, <2>1
    <2>2. CASE r # t
        <3>1. Disjoint(r, t)
            BY <1>4, <2>2 DEF Apart
        <3> QED BY <1>0, <1>4, <3>1 DEF Disjoint
    <2> QED BY <2>1, <2>2
<1> QED BY <1>3, <1>7, <1>8

\* One more element takes at most one more node.
LEMMA OneMore ==
    ASSUME NEW S, IsFiniteSet(S), NEW x
    PROVE  /\ IsFiniteSet(S \cup {x})
           /\ Cardinality(S \cup {x}) \in Nat /\ Cardinality(S) \in Nat
           /\ Cardinality(S \cup {x}) <= Cardinality(S) + 1
<1>1. Cardinality(S) \in Nat /\ IsFiniteSet(S \cup {x})
    BY FS_CardinalityType, FS_AddElement
<1>2. Cardinality(S \cup {x}) = IF x \in S THEN Cardinality(S) ELSE Cardinality(S) + 1
    BY FS_AddElement
<1> QED BY <1>1, <1>2

\* Every combined region starts where one of its parts does, and no two do so
\* at the same one.
LEMMA CombinedCount ==
    ASSUME NEW R \in SUBSET Regions, Apart(R), IsFiniteSet(R)
    PROVE  /\ IsFiniteSet(CombineAdjacentFreeNodes(R))
           /\ Cardinality(CombineAdjacentFreeNodes(R)) <= Cardinality(R)
<1> DEFINE C == CombineAdjacentFreeNodes(R)
           f == [c \in C |-> CHOOSE h \in R : h.start = c.start]
<1>1. \A c \in C : \E h \in R : h.start = c.start
    BY DEF CombineAdjacentFreeNodes, Heads
<1>2. C \in SUBSET Regions /\ Apart(C)
    BY CombinedRegions, CombinedApart
<1> HIDE DEF C
<1>3. \A c \in C : f[c] \in R /\ f[c].start = c.start
    BY <1>1
<1>4. f \in [C -> R]
    BY <1>3
<1> HIDE DEF f
<1>5. \A c, d \in C : f[c] = f[d] => c = d
    BY <1>2, <1>3, OneAtAnAddress
<1>6. f \in Injection(C, R)
    BY <1>4, <1>5 DEF Injection, IsInjective
<1> QED BY <1>6, FS_Injection DEF C

-------------------------------------------------------------------------------
(* AddFreedRegionToFreeList.                                               *)

\* It keeps what is free and the freed range unless it fails, which it does
\* only without a node, and then it changes nothing.  It never takes more nodes
\* than there are.
LEMMA AddFreedTotal ==
    ASSUME TypeOK, NoOverlap, NEW O, NEW r \in Regions,
           \A f \in free : Disjoint(f, r),
           IsFiniteSet(free), IsFiniteSet(O),
           Cardinality(free) + Cardinality(O) <= TableLen
    PROVE  LET A == AddFreedRegionToFreeList(r, O)
           IN /\ A.ret \in {0, -1}
              /\ NodeLeft(free, O) => A.ret = 0
              /\ A.ret = 0 => \A x \in Nat : Covers(free \cup {r}, x) => Covers(A.free, x)
              /\ A.ret = -1 => A.free = free
              /\ IsFiniteSet(A.free)
              /\ Cardinality(A.free) + Cardinality(O) <= TableLen
<1> DEFINE A == AddFreedRegionToFreeList(r, O)
<1>1. /\ free \in SUBSET Regions /\ Apart(free)
      /\ Cardinality(free) \in Nat /\ Cardinality(O) \in Nat /\ TableLen \in Nat
    BY TableLenAssumption, FS_CardinalityType DEF TypeOK, NoOverlap, Apart
<1>2. CASE Touching(r) # {}
    <2> DEFINE f == Lowest(Touching(r))
               a == Absorb(f, r)
    <2>1. f \in free /\ (r.end = f.start \/ f.end = r.start)
        <3>1. Touching(r) \in SUBSET Regions
            BY <1>1 DEF Touching
        <3> QED BY <1>2, <3>1, LowestExists DEF Touching
    <2>2. A.free = (free \ {f}) \cup {a} /\ A.ret = 0
        BY <1>2 DEF AddFreedRegionToFreeList
    <2> HIDE DEF f, A
    <2>3. a.start <= r.start /\ r.end <= a.end /\ a.start <= f.start /\ f.end <= a.end
        BY <1>1, <2>1 DEF Absorb, Regions
    <2> HIDE DEF a
    <2>4. \A x \in Nat : Covers(free \cup {r}, x) => Covers(A.free, x)
        <3> SUFFICES ASSUME NEW x \in Nat, NEW g \in free \cup {r}, g.start <= x, x < g.end
                     PROVE  \E k \in A.free : k.start <= x /\ x < k.end
            BY DEF Covers
        <3>1. CASE g \in free \ {f}
            BY <2>2, <3>1
        <3>2. CASE g = f \/ g = r
            <4>1. a.start \in Int /\ a.end \in Int
                BY <1>1, <2>1 DEF a, Absorb, Regions
            <4>2. g \in Regions
                BY <1>1, <2>1, <3>2
            <4>3. a.start <= x /\ x < a.end
                BY <2>3, <3>2, <4>1, <4>2 DEF Regions
            <4> QED BY <2>2, <4>3
        <3> QED BY <3>1, <3>2
    <2>5. IsFiniteSet(A.free) /\ Cardinality(A.free) <= Cardinality(free)
        <3>1. IsFiniteSet(free \ {f}) /\ Cardinality(free \ {f}) = Cardinality(free) - 1
            BY <2>1, FS_RemoveElement
        <3>2. /\ IsFiniteSet((free \ {f}) \cup {a})
              /\ Cardinality((free \ {f}) \cup {a}) <= Cardinality(free \ {f}) + 1
            BY <3>1, OneMore
        <3> QED BY <1>1, <2>2, <3>1, <3>2
    <2>6. Cardinality(A.free) \in Nat
        BY <2>5, FS_CardinalityType
    <2> QED BY <1>1, <2>2, <2>4, <2>5, <2>6 DEF A
<1>3. CASE Touching(r) = {} /\ NodeLeft(free, O)
    <2> DEFINE R == free \cup {r}
    <2>1. R \in SUBSET Regions /\ Apart(R)
        BY <1>1 DEF Apart, Disjoint
    <2>2. A.free = CombineAdjacentFreeNodes(R) /\ A.ret = 0
        BY <1>3 DEF AddFreedRegionToFreeList
    <2>3. IsFiniteSet(R) /\ Cardinality(R) <= Cardinality(free) + 1
        BY OneMore
    <2> HIDE DEF R, A
    <2>4. IsFiniteSet(A.free) /\ Cardinality(A.free) <= Cardinality(R)
        BY <2>1, <2>2, <2>3, CombinedCount
    <2>5. \A x \in Nat : Covers(R, x) => Covers(A.free, x)
        <3> SUFFICES ASSUME NEW x \in Nat, NEW g \in R, g.start <= x, x < g.end
                     PROVE  \E k \in A.free : k.start <= x /\ x < k.end
            BY DEF Covers
        <3>1. PICK c \in A.free : c.start <= g.start /\ g.end <= c.end
            BY <2>1, <2>2, CombinedCover
        <3>2. c \in Regions /\ g \in Regions
            BY <2>1, <2>2, CombinedRegions
        <3> QED BY <3>1, <3>2 DEF Regions
    <2>6. Cardinality(A.free) \in Nat /\ Cardinality(R) \in Nat
        BY <2>3, <2>4, FS_CardinalityType
    <2>7. Cardinality(A.free) + Cardinality(O) <= TableLen
        BY <1>1, <1>3, <2>3, <2>4, <2>6 DEF NodeLeft
    <2> QED BY <2>2, <2>4, <2>5, <2>7 DEF A, R
<1>4. CASE Touching(r) = {} /\ ~NodeLeft(free, O)
    <2>1. A.free = free /\ A.ret = -1
        BY <1>4 DEF AddFreedRegionToFreeList
    <2> HIDE DEF A
    <2> QED BY <1>1, <1>4, <2>1 DEF A
<1> QED BY <1>2, <1>3, <1>4

-------------------------------------------------------------------------------
(* The calls.                                                              *)

\* An address is in one of the two lists.
Listed(x) == Covers(free \cup occ, x)

LEMMA TableFacts ==
    ASSUME WithinTable
    PROVE  /\ IsFiniteSet(free) /\ IsFiniteSet(occ) /\ TableLen \in Nat
           /\ Cardinality(free) \in Nat /\ Cardinality(occ) \in Nat
           /\ Cardinality(free) + Cardinality(occ) <= TableLen
BY TableLenAssumption, FS_CardinalityType DEF WithinTable

\* An allocation lists the same addresses as before, and a split takes the
\* node it has seen to be left.
LEMMA AllocateTotal ==
    ASSUME Safe, WithinTable, NEW n \in Sizes, Allocate(n)
    PROVE  /\ WithinTable' /\ call'.op = "Allocate"
           /\ \A x \in Nat : Listed(x)' <=> Listed(x)
<1> USE SizesAssumption, TableFacts
<1>1. CASE AllocateNull(n)
    BY <1>1 DEF AllocateNull, Allocated, WithinTable, Listed, Covers
<1> DEFINE f == Lowest(Fits(n))
<1>2. ASSUME Fits(n) # {}
      PROVE  f \in free /\ f \in Regions /\ Size(f) >= n
    <2>1. Fits(n) \in SUBSET Regions
        BY DEF Fits, Safe, TypeOK
    <2> QED BY <1>2, <2>1, LowestExists DEF Fits
<1>3. CASE AllocateExact(n)
    <2>1. /\ f \in free /\ call'.op = "Allocate"
          /\ free' = free \ {f} /\ occ' = occ \cup {f}
        BY <1>2, <1>3 DEF AllocateExact, Allocated
    <2> HIDE DEF f
    <2>2. IsFiniteSet(free') /\ Cardinality(free') = Cardinality(free) - 1
        BY <2>1, FS_RemoveElement
    <2>3. /\ IsFiniteSet(occ') /\ Cardinality(occ') \in Nat
          /\ Cardinality(occ') <= Cardinality(occ) + 1
        BY <2>1, OneMore
    <2>4. free' \cup occ' = free \cup occ
        BY <2>1
    <2> QED BY <2>1, <2>2, <2>3, <2>4 DEF WithinTable, Listed
<1>4. CASE AllocateSplit(n)
    <2> DEFINE g == Rest(f, n)
               p == Region(f.start, n)
    <2>1. /\ f \in free /\ f \in Regions /\ n > 0 /\ n \in Nat /\ n <= Size(f)
          /\ NodeLeft(free, occ) /\ call'.op = "Allocate"
          /\ free' = (free \ {f}) \cup {g} /\ occ' = occ \cup {p}
        <3>1. Fits(n) # {} /\ n > 0
            BY <1>4 DEF AllocateSplit
        <3>2. f \in free /\ f \in Regions /\ Size(f) >= n
            BY <1>2, <3>1
        <3>3. n <= Size(f)
            BY <3>2 DEF Size, Regions
        <3> QED BY <1>4, <3>1, <3>2, <3>3 DEF AllocateSplit, Allocated
    <2> HIDE DEF f
    <2>2. p.start = f.start /\ p.end = f.start + n /\ g.start = p.end /\ g.end = f.end
        BY DEF Region, Rest
    <2>3. p.start \in Nat /\ p.end \in Nat /\ g.end \in Nat /\ p.end <= g.end
        BY <2>1, <2>2 DEF Regions, Size
    <2> HIDE DEF g, p
    <2>4. /\ IsFiniteSet(free') /\ Cardinality(free') \in Nat
          /\ Cardinality(free') <= Cardinality(free)
        <3>1. IsFiniteSet(free \ {f}) /\ Cardinality(free \ {f}) = Cardinality(free) - 1
            BY <2>1, FS_RemoveElement
        <3>2. /\ IsFiniteSet((free \ {f}) \cup {g})
              /\ Cardinality((free \ {f}) \cup {g}) \in Nat
              /\ Cardinality((free \ {f}) \cup {g}) <= Cardinality(free \ {f}) + 1
            BY <3>1, OneMore
        <3> QED BY <2>1, <3>1, <3>2
    <2>5. /\ IsFiniteSet(occ') /\ Cardinality(occ') \in Nat
          /\ Cardinality(occ') <= Cardinality(occ) + 1
        BY <2>1, OneMore
    <2>6. WithinTable'
        BY <2>1, <2>4, <2>5 DEF WithinTable, NodeLeft
    <2>7. ASSUME NEW x \in Nat
          PROVE  (f.start <= x /\ x < f.end)
                     <=> \E q \in {g, p} : q.start <= x /\ x < q.end
        BY <2>1, <2>2, <2>3
    <2>8. free \cup occ = ((free \ {f}) \cup occ) \cup {f}
        BY <2>1
    <2>9. free' \cup occ' = ((free \ {f}) \cup occ) \cup {g, p}
        BY <2>1
    <2>10. \A x \in Nat : Listed(x)' <=> Listed(x)
        BY <2>7, <2>8, <2>9 DEF Listed, Covers
    <2> QED BY <2>1, <2>6, <2>10
<1> QED BY <1>1, <1>3, <1>4 DEF Allocate

\* A free lists no new address, and the same ones as before unless it fails,
\* which it does not if the region is freed as a whole: its own node is left.
LEMMA FreeRegionTotal ==
    ASSUME Safe, WithinTable, NEW r \in occ, NEW n \in Sizes, FreeRegion(r, n)
    PROVE  /\ WithinTable'
           /\ call' = Freed(r.start, n, call'.ret) /\ call'.op = "Free"
           /\ call'.ret \in {0, -1}
           /\ n = Size(r) => call'.ret = 0
           /\ \A x \in Nat : Listed(x)' => Listed(x)
           /\ call'.ret = 0 => \A x \in Nat : Listed(x) => Listed(x)'
<1> USE SizesAssumption, TableFacts
<1> DEFINE d    == Region(r.start, n)
           rest == IF n = Size(r) THEN {} ELSE {Rest(r, n)}
           O    == (occ \ {r}) \cup rest
           A    == AddFreedRegionToFreeList(d, O)
<1>1. /\ 0 < n /\ n <= Size(r) /\ occ' = O /\ free' = A.free
      /\ call' = Freed(r.start, n, A.ret)
    BY DEF FreeRegion
<1>2. r \in Regions /\ TypeOK /\ NoOverlap
    BY DEF Safe, TypeOK
<1>3. /\ d \in Regions /\ d.start = r.start /\ d.end = r.start + n /\ d.end <= r.end
      /\ r.start \in Nat /\ r.end \in Nat
    BY <1>1, <1>2, PoolAssumption DEF Region, Regions, Size
<1>4. /\ \A q \in rest : q.start = d.end /\ q.end = r.end
      /\ d.end < r.end => rest # {}
    <2>1. \A q \in rest : q = Rest(r, n)
        OBVIOUS
    <2>2. n = Size(r) => d.end = r.end
        BY <1>3 DEF Size
    <2>3. \A q \in rest : q.start = d.end /\ q.end = r.end
        BY <1>3, <2>1 DEF Rest
    <2>4. n # Size(r) => rest # {}
        OBVIOUS
    <2>5. d.end < r.end => rest # {}
        BY <1>3, <2>2, <2>4
    <2> QED BY <2>3, <2>5
<1>5. IsFiniteSet(occ \ {r}) /\ Cardinality(occ \ {r}) = Cardinality(occ) - 1
    BY FS_RemoveElement
<1>6. /\ IsFiniteSet(O) /\ Cardinality(O) \in Nat /\ Cardinality(O) <= Cardinality(occ)
      /\ n = Size(r) => Cardinality(O) = Cardinality(occ) - 1
    <2>1. CASE n = Size(r)
        <3>1. O = occ \ {r}
            BY <2>1
        <3> HIDE DEF O
        <3>2. Cardinality(O) \in Nat
            BY <1>5, <3>1, FS_CardinalityType
        <3> QED BY <1>5, <3>1, <3>2
    <2>2. CASE n # Size(r)
        <3>1. O = (occ \ {r}) \cup {Rest(r, n)}
            BY <2>2
        <3> HIDE DEF O
        <3>2. /\ IsFiniteSet((occ \ {r}) \cup {Rest(r, n)})
              /\ Cardinality((occ \ {r}) \cup {Rest(r, n)}) \in Nat
              /\ Cardinality((occ \ {r}) \cup {Rest(r, n)}) <= Cardinality(occ \ {r}) + 1
            BY <1>5, OneMore
        <3> QED BY <1>5, <2>2, <3>1, <3>2
    <2> QED BY <2>1, <2>2
<1>7. \A f \in free : Disjoint(f, d)
    BY <1>2, <1>3 DEF TypeOK, NoOverlap, Disjoint, Regions
<1> HIDE DEF d, rest, O, A
<1>8. /\ A.ret \in {0, -1} /\ (NodeLeft(free, O) => A.ret = 0)
      /\ A.ret = 0 => \A x \in Nat : Covers(free \cup {d}, x) => Covers(A.free, x)
      /\ IsFiniteSet(A.free) /\ Cardinality(A.free) + Cardinality(O) <= TableLen
    <2>1. Cardinality(free) + Cardinality(O) <= TableLen
        BY <1>6
    <2> QED BY <1>2, <1>3, <1>6, <1>7, <2>1, AddFreedTotal DEF A
<1>9. \A x \in Nat : Covers(A.free, x) => Covers(free \cup {d}, x)
    BY <1>2, <1>3, <1>7, AddFreedSafe DEF A
<1>10. WithinTable'
    BY <1>1, <1>6, <1>8 DEF WithinTable
<1>11. call'.ret = A.ret /\ call'.op = "Free"
    BY <1>1 DEF Freed
<1>12. n = Size(r) => A.ret = 0
    BY <1>6, <1>8 DEF NodeLeft
<1>13. ASSUME NEW x \in Nat
       PROVE  (r.start <= x /\ x < r.end)
                  <=> \E q \in {d} \cup rest : q.start <= x /\ x < q.end
    BY <1>3, <1>4
<1>14. /\ free \cup occ = (free \cup (occ \ {r})) \cup {r}
       /\ free' \cup occ' = (A.free \cup (occ \ {r})) \cup rest
    BY <1>1 DEF O
<1>15. \A x \in Nat : Listed(x)' => Listed(x)
    BY <1>9, <1>13, <1>14 DEF Listed, Covers
<1>16. A.ret = 0 => \A x \in Nat : Listed(x) => Listed(x)'
    BY <1>8, <1>13, <1>14 DEF Listed, Covers
<1> QED BY <1>1, <1>8, <1>10, <1>11, <1>12, <1>15, <1>16

-------------------------------------------------------------------------------
(* The invariant: no overlap, within the table, nothing lost.              *)

TableInv == Safe /\ WithinTable /\ NothingLost

\* NothingLost, of addresses.
LEMMA NothingLostFacts ==
    NothingLost <=> (client = "whole" => \A x \in Pool : Listed(x))
BY DEF NothingLost, Cover, Listed, Covers

LEMMA InitTable == Init => TableInv
<1> SUFFICES ASSUME Init PROVE TableInv
    OBVIOUS
<1>1. Safe
    BY InitSafe
<1>2. free = {Region(Start, End - Start)} /\ occ = {}
    BY DEF Init
<1>3. /\ IsFiniteSet(free) /\ Cardinality(free) = 1
      /\ IsFiniteSet(occ) /\ Cardinality(occ) = 0
    BY <1>2, FS_Singleton, FS_EmptySet
<1>4. WithinTable
    BY <1>3, TableLenAssumption DEF WithinTable
<1>5. \A x \in Pool : Listed(x)
    BY <1>2, PoolAssumption DEF Listed, Covers, Region, Pool
<1> QED BY <1>1, <1>4, <1>5, NothingLostFacts DEF TableInv

\* What a step does to what is listed.
LEMMA StepTotal ==
    ASSUME Safe, WithinTable, [Next]_vars
    PROVE  /\ WithinTable' /\ client' = client
           /\ \A x \in Nat : Listed(x)' => Listed(x)
           /\ \/ \A x \in Nat : Listed(x) => Listed(x)'
              \/ client # "whole" /\ call'.op = "Free" /\ call'.ret = -1
<1>1. ASSUME NEW n \in Sizes, Allocate(n)
      PROVE  /\ WithinTable' /\ client' = client
             /\ \A x \in Nat : Listed(x)' <=> Listed(x)
    <2>1. client' = client
        BY <1>1 DEF Allocate, AllocateNull, AllocateExact, AllocateSplit
    <2> QED BY <1>1, <2>1, AllocateTotal
<1>2. ASSUME UNCHANGED <<free, occ, client>>
      PROVE  /\ WithinTable' /\ client' = client
             /\ \A x \in Nat : Listed(x)' <=> Listed(x)
    BY <1>2 DEF WithinTable, Listed, Covers
<1>3. ASSUME NEW a \in Pool, NEW n \in Sizes, FreeRefused(a, n)
      PROVE  UNCHANGED <<free, occ, client>>
    BY <1>3 DEF FreeRefused
<1>4. ASSUME NEW r \in occ, NEW n \in Sizes, FreeRegion(r, n)
      PROVE  /\ WithinTable' /\ client' = client
             /\ \A x \in Nat : Listed(x)' => Listed(x)
             /\ \/ \A x \in Nat : Listed(x) => Listed(x)'
                \/ client # "whole" /\ call'.op = "Free" /\ call'.ret = -1
    <2>1. client' = client /\ (client = "whole" => n = Size(r))
        BY <1>4 DEF FreeRegion
    <2>2. /\ WithinTable' /\ call'.op = "Free" /\ call'.ret \in {0, -1}
          /\ n = Size(r) => call'.ret = 0
          /\ \A x \in Nat : Listed(x)' => Listed(x)
          /\ call'.ret = 0 => \A x \in Nat : Listed(x) => Listed(x)'
        BY <1>4, FreeRegionTotal
    <2> QED BY <2>1, <2>2
<1>5. CASE UNCHANGED vars
    BY <1>2, <1>5 DEF vars
<1> QED BY <1>1, <1>2, <1>3, <1>4, <1>5 DEF Next

LEMMA StepTable ==
    ASSUME TableInv, [Next]_vars
    PROVE  TableInv'
<1>1. Safe /\ WithinTable /\ NothingLost
    BY DEF TableInv
<1>2. Safe'
    BY <1>1, NextSafe
<1>3. /\ WithinTable' /\ client' = client
      /\ \/ \A x \in Nat : Listed(x) => Listed(x)'
         \/ client # "whole"
    BY <1>1, StepTotal
<1>4. ASSUME client' = "whole", NEW x \in Pool PROVE Listed(x)'
    <2>1. Listed(x) /\ x \in Nat
        BY <1>1, <1>3, <1>4, NothingLostFacts, PoolAssumption DEF Pool
    <2> QED BY <1>3, <1>4, <2>1
<1>5. NothingLost'
    <2>1. NothingLost' <=> (client' = "whole" => \A x \in Pool : Listed(x)')
        BY DEF NothingLost, Cover, Listed, Covers, Pool
    <2> QED BY <1>4, <2>1
<1> QED BY <1>2, <1>3, <1>5 DEF TableInv

LEMMA TableSafety == Spec => []TableInv
<1>1. TableInv /\ [Next]_vars => TableInv'
    BY StepTable
<1> QED BY InitTable, <1>1, PTL DEF Spec

\* However the lists grow, split and merge, they never need more entries than
\* the node table has (FirstFitAllocator.cc:79-87, Allocate and Free).
THEOREM AlwaysWithinTable == Spec => []WithinTable
<1>1. TableInv => WithinTable
    BY DEF TableInv
<1> QED BY TableSafety, <1>1, PTL

\* Callers that free what they were given find every address in one of the two
\* lists at all times, also when the table was full (part 2 of
\* IsValidDataStructure).
THEOREM NothingIsLost == Spec => []NothingLost
<1>1. TableInv => NothingLost
    BY DEF TableInv
<1> QED BY TableSafety, <1>1, PTL

\* Addresses leave the lists only in a Free that reports its failure, and none
\* comes back (FirstFitAllocator.cc:350-382).
THEOREM LossIsReported == Spec => LostOnlyByFailedFree
<1> DEFINE Step == /\ Cover(free \cup occ)' \subseteq Cover(free \cup occ)
                   /\ Cover(free \cup occ)' # Cover(free \cup occ)
                        => call'.op = "Free" /\ call'.ret = -1
<1>1. ASSUME TableInv, [Next]_vars PROVE Step
    <2>1. /\ \A x \in Nat : Listed(x)' => Listed(x)
          /\ \/ \A x \in Nat : Listed(x) => Listed(x)'
             \/ call'.op = "Free" /\ call'.ret = -1
        BY <1>1, StepTotal DEF TableInv
    <2>2. /\ Cover(free \cup occ) = {x \in Pool : Listed(x)}
          /\ Cover(free \cup occ)' = {x \in Pool : Listed(x)'}
          /\ Pool \subseteq Nat
        BY PoolAssumption DEF Cover, Listed, Covers, Pool
    <2> QED BY <2>1, <2>2
<1>2. TableInv /\ [Next]_vars => [Step]_vars
    BY <1>1
<1> QED BY TableSafety, <1>2, PTL DEF Spec, LostOnlyByFailedFree

\* A region that is freed as a whole is freed, however full the table is
\* (FirstFitAllocator.cc:368-379).
THEOREM WholeFreesSucceed == Spec => WholeFreeSucceeds
<1> DEFINE Step == \A r \in occ : call' = Freed(r.start, Size(r), call'.ret) /\ occ' # occ
                       => call'.ret = 0
<1>1. ASSUME TableInv, Next PROVE Step
    <2> SUFFICES ASSUME NEW r \in occ, call' = Freed(r.start, Size(r), call'.ret), occ' # occ
                 PROVE  call'.ret = 0
        OBVIOUS
    <2>1. Safe /\ WithinTable /\ occ \in SUBSET Regions /\ Apart(occ)
        BY <1>1 DEF TableInv, Safe, TypeOK, NoOverlap, Apart
    <2>2. call'.op = "Free" /\ call'.start = r.start /\ call'.size = Size(r)
        BY DEF Freed
    <2>3. ASSUME NEW n \in Sizes, Allocate(n) PROVE FALSE
        BY <2>1, <2>2, <2>3, AllocateTotal
    <2>4. ASSUME NEW a \in Pool, NEW n \in Sizes, FreeRefused(a, n) PROVE FALSE
        BY <2>4 DEF FreeRefused
    <2>5. ASSUME NEW q \in occ, NEW n \in Sizes, FreeRegion(q, n) PROVE call'.ret = 0
        <3>1. /\ call' = Freed(q.start, n, call'.ret)
              /\ n = Size(q) => call'.ret = 0
            BY <2>1, <2>5, FreeRegionTotal
        <3>2. q.start = r.start /\ n = Size(r)
            BY <2>2, <3>1 DEF Freed
        <3>3. q = r
            BY <2>1, <3>2, OneAtAnAddress
        <3> QED BY <3>1, <3>2, <3>3
    <2> QED BY <1>1, <2>3, <2>4, <2>5 DEF Next
<1>2. TableInv /\ [Next]_vars => [Step]_vars
    BY <1>1
<1> QED BY TableSafety, <1>2, PTL DEF Spec, WholeFreeSucceeds

-------------------------------------------------------------------------------
(* FirstFit implements RangeAllocator, the occupied regions being the live *)
(* ranges.                                                                 *)

\* Both modules name answers, ranges and sizes alike.
LEMMA SameNames ==
    /\ \A n, p : Ranges!Allocated(n, p) = Allocated(n, p)
    /\ \A a, n, res : Ranges!Freed(a, n, res) = Freed(a, n, res)
    /\ \A a, n : Ranges!Range(a, n) = Region(a, n)
    /\ \A r : Ranges!Size(r) = Size(r)
    /\ \A r, q : Ranges!Disjoint(r, q) = Disjoint(r, q)
    /\ Ranges!Pool = Pool /\ Ranges!NULL = NULL
BY DEF Ranges!Allocated, Allocated, Ranges!Freed, Freed, Ranges!Range, Region,
       Ranges!Size, Size, Ranges!Disjoint, Disjoint, Ranges!Pool, Pool, Ranges!NULL, NULL

\* What first fit picks is in the pool and touches no live range.
LEMMA AllocateImplements ==
    ASSUME Safe, NEW n \in Sizes, Allocate(n)
    PROVE  Ranges!Next
<1> USE SizesAssumption
<1>1. CASE AllocateNull(n)
    <2>1. Ranges!AllocateNone(n)
        BY <1>1, SameNames DEF AllocateNull, Ranges!AllocateNone
    <2> QED BY <2>1 DEF Ranges!Next
<1>2. CASE AllocateExact(n) \/ AllocateSplit(n)
    <2> DEFINE f == Lowest(Fits(n))
    <2>1. /\ f \in free /\ f \in Regions /\ Size(f) >= n
        <3>1. Fits(n) \in SUBSET Regions /\ Fits(n) # {}
            BY <1>2 DEF AllocateExact, AllocateSplit, Fits, Safe, TypeOK
        <3> QED BY <3>1, LowestExists DEF Fits
    <2>2. n > 0 /\ n \in Nat
        BY <1>2 DEF AllocateExact, AllocateSplit
    <2>3. call' = Allocated(n, f.start) /\ occ' = occ \cup {Region(f.start, n)}
        <3>1. CASE AllocateSplit(n)
            BY <3>1 DEF AllocateSplit
        <3>2. CASE AllocateExact(n)
            <4>1. Size(f) = n /\ occ' = occ \cup {f} /\ call' = Allocated(n, f.start)
                BY <3>2 DEF AllocateExact
            <4> HIDE DEF f
            <4>2. f = Region(f.start, n)
                BY <2>1, <2>2, <4>1 DEF Region, Regions, Size
            <4> QED BY <4>1, <4>2
        <3> QED BY <1>2, <3>1, <3>2
    <2> HIDE DEF f
    <2>4. f.start \in Pool /\ f.start \in Nat /\ f.start + n <= f.end /\ f.end <= End
        BY <2>1, <2>2, PoolAssumption DEF Regions, Size, Pool
    <2>5. ASSUME NEW r \in occ PROVE Disjoint(r, Region(f.start, n))
        <3>1. Disjoint(f, r) /\ r \in Regions
            BY <2>1 DEF Safe, TypeOK, NoOverlap
        <3> QED BY <2>1, <2>2, <2>4, <3>1 DEF Disjoint, Region, Regions
    <2>6. f.start + n <= End
        BY <2>1, <2>2, <2>4, PoolAssumption DEF Regions
    <2>7. Ranges!AllocateSome(n, f.start)
        BY <2>2, <2>3, <2>5, <2>6, SameNames DEF Ranges!AllocateSome
    <2> QED BY <2>4, <2>7, SameNames DEF Ranges!Next
<1> QED BY <1>1, <1>2 DEF Allocate

\* A whole region is given back without an error, a part of it may be lost.
LEMMA FreeImplements ==
    ASSUME Safe, WithinTable, NEW r \in occ, NEW n \in Sizes, FreeRegion(r, n)
    PROVE  Ranges!Next
<1> USE SizesAssumption
<1>1. /\ call' = Freed(r.start, n, call'.ret) /\ call'.ret \in {0, -1}
      /\ n = Size(r) => call'.ret = 0
    BY FreeRegionTotal
<1>2. /\ 0 < n /\ n <= Size(r) /\ n \in Nat
      /\ occ' = (occ \ {r}) \cup (IF n = Size(r) THEN {} ELSE {Rest(r, n)})
    BY DEF FreeRegion
<1>3. r \in Regions
    BY DEF Safe, TypeOK
<1>4. CASE n = Size(r)
    <2>1. occ' = occ \ {r} /\ call' = Freed(r.start, Size(r), 0)
        BY <1>1, <1>2, <1>4
    <2>2. Ranges!FreeWhole(r)
        BY <2>1, SameNames DEF Ranges!FreeWhole
    <2> QED BY <2>2 DEF Ranges!Next
<1>5. CASE n # Size(r)
    <2>1. Rest(r, n) = [r EXCEPT !.start = r.start + n]
        BY <1>3 DEF Rest, Regions
    <2>2. n < Size(r)
        BY <1>2, <1>3, <1>5 DEF Size, Regions
    <2>3. Ranges!FreePrefix(r, n, call'.ret)
        BY <1>1, <1>2, <1>5, <2>1, <2>2, SameNames DEF Ranges!FreePrefix
    <2> QED BY <1>1, <2>3 DEF Ranges!Next
<1> QED BY <1>4, <1>5

LEMMA StepImplements ==
    ASSUME TableInv, [Next]_vars
    PROVE  [Ranges!Next]_(Ranges!vars)
<1>1. Safe /\ WithinTable
    BY DEF TableInv
<1>2. ASSUME NEW a \in Pool, NEW n \in Sizes, FreeRefused(a, n)
      PROVE  Ranges!Next
    <2>1. occ' = occ /\ \/ Holding(a) = {} /\ call' = Freed(a, n, -1)
                        \/ (\E r \in Holding(a) : Size(r) < n) /\ call' = Freed(a, n, -2)
        BY <1>2 DEF FreeRefused
    <2>2. \E res \in {-1, -2} : Ranges!FreeRefused(a, n, res)
        BY <2>1, SameNames DEF Holding, Ranges!FreeRefused
    <2> QED BY <2>2, SameNames DEF Ranges!Next
<1>3. CASE UNCHANGED vars
    BY <1>3 DEF vars, Ranges!vars
<1> QED BY <1>1, <1>2, <1>3, AllocateImplements, FreeImplements DEF Next

\* To its clients the allocator hands out ranges that nobody holds and takes
\* whole ranges back without fail, whatever happens in the node table
\* (FirstFitAllocator.cc, Allocate and Free).
THEOREM FirstFitImplementsRanges == Spec => ImplementsRanges
<1>1. Init => Ranges!Init
    BY SameNames DEF Init, Ranges!Init
<1>2. TableInv /\ [Next]_vars => [Ranges!Next]_(Ranges!vars)
    BY StepImplements
<1> QED BY TableSafety, <1>1, <1>2, PTL DEF Spec, Ranges!Spec, ImplementsRanges
===============================================================================
