--------------------------- MODULE IntervalListProofs ---------------------------
(***************************************************************************)
(* Theorems about the two users of a list of intervals: the region that it *)
(* describes, and the parser that reads it from the configuration file.    *)
(*                                                                         *)
(* HugePageRegion, for every set of configurations whose intervals do not  *)
(* overlap, every page-aligned base and every three page sizes that divide *)
(* each other: the region is typed, each offset is backed with the page    *)
(* size configured for it, the kernel refuses no call, the region stays in *)
(* its reservation, and it implements ResizableRegion.  The folds of       *)
(* OfPageSize, Sort and Gaps are unrolled (Folding) and what Validate      *)
(* accepts is shown to be sound (AcceptedIsSound).  The start found by     *)
(* Initialize then aligns every interval (RegionStartsWell), and the       *)
(* intervals with the gaps between them tile the region (WithGapsTiles):   *)
(* its Layout.  In a Layout, the loops of ExtendRegion and ShrinkRegion    *)
(* move the end to the end of the page that the new size reaches           *)
(* (Extending, Shrinking).  That gives the invariant IInv, from which the  *)
(* properties follow.                                                      *)
(*                                                                         *)
(* ParseCsv, for files of any number of lines, each of any number of       *)
(* fields: the pool is configured with what its rows say, and a file is    *)
(* refused exactly if one of them is bad or the list is not accepted.  The *)
(* text of a file has its line ends in the places E (Anatomy), and the     *)
(* text of a line its fields in cells (Cells); a token that is read from   *)
(* anywhere in a line ends in it, and it is the pool's type only at the    *)
(* start of a row of the pool (TokenInLine, RowIs).  So a line is read as  *)
(* a whole or not at all, and the invariant ParseIInv relates what the     *)
(* parser has to the lines behind it (SoFar).                              *)
(***************************************************************************)
EXTENDS HugePageRegion, ParseCsv, FiniteSetTheorems, SequenceTheorems,
        WellFoundedInduction, TLAPS

-------------------------------------------------------------------------------
(* Least and greatest numbers.                                             *)

\* A non-empty set of naturals has a least element.
LEMMA LeastNatural ==
    ASSUME NEW T \in SUBSET Nat, T # {}
    PROVE  \E m \in T : \A n \in T : m <= n
<1> DEFINE lt == OpToRel(<, Nat)
<1>1. \E m \in T : \A n \in T : ~(<<n, m>> \in lt)
    <2>1. IsWellFoundedOn(lt, Nat)
        BY NatLessThanWellFounded
    <2> HIDE DEF lt
    <2> QED BY <2>1, WFMin
<1>2. PICK m \in T : \A n \in T : ~(<<n, m>> \in lt)
    BY <1>1
<1>3. ASSUME NEW n \in T PROVE m <= n
    <2>1. <<n, m>> \in Nat \X Nat /\ ~(<<n, m>> \in lt)
        BY <1>2
    <2>2. ~(n < m)
        BY <2>1 DEF OpToRel
    <2> QED BY <2>2
<1> QED BY <1>3

\* A non-empty set of naturals with an upper bound has a greatest element.
LEMMA GreatestNatural ==
    ASSUME NEW T \in SUBSET Nat, T # {}, NEW b \in Nat, \A n \in T : n <= b
    PROVE  \E m \in T : \A n \in T : n <= m
<1> DEFINE U == {b - n : n \in T}
<1>1. U \in SUBSET Nat /\ U # {}
    <2>1. ASSUME NEW n \in T PROVE b - n \in Nat
        OBVIOUS
    <2>2. \E n \in T : b - n \in U
        OBVIOUS
    <2> QED BY <2>1, <2>2
<1>2. PICK u \in U : \A v \in U : u <= v
    <2> HIDE DEF U
    <2> QED BY <1>1, LeastNatural
<1>3. PICK m \in T : u = b - m
    OBVIOUS
<1>4. ASSUME NEW n \in T PROVE n <= m
    <2>1. b - m <= b - n
        BY <1>2, <1>3
    <2>2. n \in Nat /\ m \in Nat
        OBVIOUS
    <2> QED BY <2>1, <2>2
<1> QED BY <1>4

-------------------------------------------------------------------------------
(* Multiples of a page size.                                               *)

\* Aligned means a multiple of the page size.
LEMMA AlignedIff ==
    ASSUME NEW p \in Nat \ {0}, NEW n \in Int
    PROVE  IS_ALIGNED(n, p) <=> \E k \in Int : n = k * p
<1>1. n = ((n \div p) * p) + (n % p) /\ n % p \in 0 .. p - 1 /\ n \div p \in Int
    OBVIOUS
<1>2. ASSUME n % p = 0 PROVE \E k \in Int : n = k * p
    BY <1>1, <1>2
<1>3. ASSUME NEW k \in Int, n = k * p PROVE n % p = 0
    BY <1>3
<1> QED BY <1>2, <1>3 DEF IS_ALIGNED

\* Sums and differences of aligned offsets are aligned: what a distance between
\* intervals tells of their addresses.
LEMMA AlignedSum ==
    ASSUME NEW p \in Nat \ {0}, NEW a \in Int, NEW b \in Int,
           IS_ALIGNED(a, p), IS_ALIGNED(b, p)
    PROVE  IS_ALIGNED(a + b, p) /\ IS_ALIGNED(a - b, p)
<1>1. PICK k \in Int : a = k * p
    BY AlignedIff
<1>2. PICK m \in Int : b = m * p
    BY AlignedIff
<1>3. a + b = (k + m) * p /\ a - b = (k - m) * p
    BY <1>1, <1>2
<1>4. k + m \in Int /\ k - m \in Int /\ a + b \in Int /\ a - b \in Int
    OBVIOUS
<1> QED BY <1>3, <1>4, AlignedIff

\* Aligned to a large page means aligned to a page size that divides it.
LEMMA AlignedFiner ==
    ASSUME NEW p \in Nat \ {0}, NEW q \in Nat \ {0}, NEW n \in Int,
           IS_ALIGNED(q, p), IS_ALIGNED(n, q)
    PROVE  IS_ALIGNED(n, p)
<1>1. PICK k \in Int : q = k * p
    BY AlignedIff
<1>2. PICK m \in Int : n = m * q
    BY AlignedIff
<1>3. n = (m * k) * p
    BY <1>1, <1>2
<1>4. m * k \in Int
    OBVIOUS
<1> QED BY <1>3, <1>4, AlignedIff

\* Zero is a multiple of every page size.
LEMMA ZeroAligned ==
    ASSUME NEW p \in Nat \ {0}, NEW x \in Int
    PROVE  IS_ALIGNED(x - x, p)
<1>1. x - x = 0 /\ 0 % p = 0
    OBVIOUS
<1> QED BY <1>1 DEF IS_ALIGNED

\* ROUND_UP gives the least multiple that is not below the number.
LEMMA RoundUp ==
    ASSUME NEW p \in Nat \ {0}, NEW n \in Int
    PROVE  /\ ROUND_UP(n, p) \in Int /\ IS_ALIGNED(ROUND_UP(n, p), p)
           /\ n <= ROUND_UP(n, p) /\ ROUND_UP(n, p) < n + p
<1> DEFINE x == n + p - 1
<1>1. x \in Int
    OBVIOUS
<1>2. x = ((x \div p) * p) + (x % p) /\ x % p \in 0 .. p - 1 /\ x \div p \in Int
    <2> HIDE DEF x
    <2> QED BY <1>1
<1>3. ROUND_UP(n, p) = (x \div p) * p
    BY DEF ROUND_UP
<1> DEFINE k == x \div p
           y == k * p
<1>4. k \in Int /\ y \in Int
    BY <1>2
<1>5. IS_ALIGNED(y, p)
    <2> HIDE DEF k
    <2> QED BY <1>4, AlignedIff
<1>6. n <= y /\ y < n + p
    <2>1. x = y + (x % p) /\ x % p \in 0 .. p - 1
        BY <1>2
    <2> DEFINE r == x % p
    <2>2. x = y + r /\ r \in 0 .. p - 1
        BY <2>1
    <2> HIDE DEF y, r
    <2> QED BY <1>4, <2>2
<1> QED BY <1>3, <1>4, <1>5, <1>6

\* ROUND_UP(n, p) is the least multiple: no aligned number lies between n and it.
LEMMA RoundUpLeast ==
    ASSUME NEW p \in Nat \ {0}, NEW n \in Int, NEW m \in Int, IS_ALIGNED(m, p), n <= m
    PROVE  ROUND_UP(n, p) <= m
<1> DEFINE r == ROUND_UP(n, p)
<1>1. r \in Int /\ r < n + p /\ IS_ALIGNED(r, p)
    BY RoundUp
<1> HIDE DEF r
<1>2. PICK j \in Int : r = j * p
    BY <1>1, AlignedIff
<1>3. PICK k \in Int : m = k * p
    BY AlignedIff
<1>4. j * p < (k + 1) * p
    BY <1>1, <1>2, <1>3
<1>5. j <= k
    BY <1>4
<1> QED BY <1>2, <1>3, <1>5 DEF r

\* A multiple is not rounded, and rounding keeps the order.
LEMMA RoundUpAligned ==
    ASSUME NEW p \in Nat \ {0}, NEW n \in Int, IS_ALIGNED(n, p)
    PROVE  ROUND_UP(n, p) = n
<1>1. ROUND_UP(n, p) <= n
    BY RoundUpLeast
<1>2. ROUND_UP(n, p) \in Int /\ n <= ROUND_UP(n, p)
    BY RoundUp
<1> QED BY <1>1, <1>2

\* A larger number is not rounded to a smaller multiple.
LEMMA RoundUpMonotone ==
    ASSUME NEW p \in Nat \ {0}, NEW n \in Int, NEW m \in Int, n <= m
    PROVE  ROUND_UP(n, p) <= ROUND_UP(m, p)
<1>1. ROUND_UP(m, p) \in Int /\ IS_ALIGNED(ROUND_UP(m, p), p) /\ n <= ROUND_UP(m, p)
    BY RoundUp
<1> QED BY <1>1, RoundUpLeast

-------------------------------------------------------------------------------
(* FoldLeft runs over a sequence from its first to its last element.       *)

\* The greatest of 1 .. k is k: the step by which a fold over a list recurs.
LEMMA MaxOfRange ==
    ASSUME NEW k \in Nat \ {0}
    PROVE  Max(1 .. k) = k /\ (1 .. k) \ {k} = 1 .. k - 1
<1>1. \A x \in 1 .. k : (\A y \in 1 .. k : x >= y) => x = k
    OBVIOUS
<1>2. k \in 1 .. k /\ \A y \in 1 .. k : k >= y
    OBVIOUS
<1> QED BY <1>1, <1>2 DEF Max

\* Max of a set of positions is one of them, and no position in the set is greater.
LEMMA MaxOfNaturals ==
    ASSUME NEW n \in Nat, NEW s \in SUBSET (1 .. n), s # {}
    PROVE  Max(s) \in s /\ \A k \in s : k <= Max(s)
<1>1. s \in SUBSET Nat /\ \A k \in s : k <= n
    OBVIOUS
<1>2. \E m \in s : \A k \in s : k <= m
    BY <1>1, GreatestNatural
<1>3. \E m \in s : \A k \in s : m >= k
    BY <1>1, <1>2
<1>4. Max(s) \in s /\ \A k \in s : Max(s) >= k
    BY <1>3 DEF Max
<1> QED BY <1>1, <1>4

\* Induction on the numbers up to n.
LEMMA UpTo ==
    ASSUME NEW n \in Nat, NEW G, 0 \in G, \A k \in 1 .. n : k - 1 \in G => k \in G
    PROVE  \A k \in 0 .. n : k \in G
<1> DEFINE D == (0 .. n) \ G
<1>1. ASSUME D # {} PROVE FALSE
    <2>1. PICK m \in D : \A k \in D : m <= k
        <3>1. D \in SUBSET Nat
            OBVIOUS
        <3> HIDE DEF D
        <3> QED BY <1>1, <3>1, LeastNatural
    <2>2. m \in 1 .. n
        OBVIOUS
    <2>3. m - 1 \in 0 .. n /\ ~(m <= m - 1)
        BY <2>2
    <2>4. m - 1 \in G
        BY <2>1, <2>3
    <2> QED BY <2>2, <2>4
<1> QED BY <1>1

\* The recursion by which FoldLeft is defined has a solution, where F[k] is what the
\* k-th element does to a value in X.
Folds(X, n, base, F) ==
    \E iter \in [SUBSET (1 .. n) -> X] :
        \A s \in SUBSET (1 .. n) :
           iter[s] = IF s = {} THEN base ELSE F[Max(s)][iter[s \ {Max(s)}]]

\* There is such a function for every length, base and step.
LEMMA Folding ==
    ASSUME NEW X, NEW n \in Nat, NEW base \in X, NEW F \in [1 .. n -> [X -> X]]
    PROVE  Folds(X, n, base, F)
<1> DEFINE Solves(iter, m) ==
               \A s \in SUBSET (1 .. m) :
                  iter[s] = IF s = {} THEN base ELSE F[Max(s)][iter[s \ {Max(s)}]]
           D == {m \in 0 .. n : ~ \E iter \in [SUBSET (1 .. m) -> X] : Solves(iter, m)}
<1>1. ASSUME D # {} PROVE FALSE
    <2>1. PICK m \in D : \A k \in D : m <= k
        <3>1. D \in SUBSET Nat
            OBVIOUS
        <3> HIDE DEF D
        <3> QED BY <1>1, <3>1, LeastNatural
    <2>2. m # 0
        <3> SUFFICES ASSUME m = 0 PROVE FALSE
            OBVIOUS
        <3>1. SUBSET (1 .. 0) = {{}}
            OBVIOUS
        <3> DEFINE iter == [s \in SUBSET (1 .. 0) |-> base]
        <3>2. iter \in [SUBSET (1 .. 0) -> X] /\ Solves(iter, 0)
            BY <3>1
        <3> QED BY <3>2
    <2>3. m - 1 \in 0 .. n /\ m - 1 \notin D /\ m \in 1 .. n
        <3>1. m \in 1 .. n /\ ~(m <= m - 1)
            BY <2>2
        <3> HIDE DEF D
        <3> QED BY <2>1, <3>1
    <2>4. PICK g \in [SUBSET (1 .. m - 1) -> X] : Solves(g, m - 1)
        BY <2>3
    <2> DEFINE iter == [s \in SUBSET (1 .. m) |->
                           IF m \in s THEN F[m][g[s \ {m}]] ELSE g[s]]
    <2>5. \A s \in SUBSET (1 .. m) :
              /\ s \ {m} \in SUBSET (1 .. m - 1)
              /\ m \notin s => s \in SUBSET (1 .. m - 1)
              /\ m \in s => Max(s) = m
        <3> SUFFICES ASSUME NEW s \in SUBSET (1 .. m)
                     PROVE  /\ s \ {m} \in SUBSET (1 .. m - 1)
                            /\ m \in s => Max(s) = m
            OBVIOUS
        <3>1. s \ {m} \in SUBSET (1 .. m - 1)
            BY <2>3
        <3>2. ASSUME m \in s PROVE Max(s) = m
            <4>1. m \in Nat /\ s # {}
                BY <2>3, <3>2
            <4>2. Max(s) \in s /\ m <= Max(s)
                BY <3>2, <4>1, MaxOfNaturals
            <4>3. Max(s) \in 1 .. m
                BY <4>2
            <4> QED BY <4>1, <4>2, <4>3
        <3> QED BY <3>1, <3>2
    <2>6. iter \in [SUBSET (1 .. m) -> X]
        BY <2>3, <2>5
    <2>7. Solves(iter, m)
        <3> SUFFICES ASSUME NEW s \in SUBSET (1 .. m)
                     PROVE  iter[s] = IF s = {} THEN base ELSE F[Max(s)][iter[s \ {Max(s)}]]
            OBVIOUS
        <3>1. CASE m \in s
            <4>1. Max(s) = m /\ s # {} /\ iter[s] = F[m][g[s \ {m}]]
                BY <2>5, <3>1
            <4>2. iter[s \ {m}] = g[s \ {m}]
                BY <2>5
            <4>3. F[Max(s)][iter[s \ {Max(s)}]] = F[m][g[s \ {m}]]
                BY <4>1, <4>2
            <4> HIDE DEF iter
            <4> QED BY <4>1, <4>3
        <3>2. CASE m \notin s
            <4>1. s \in SUBSET (1 .. m - 1) /\ iter[s] = g[s]
                BY <2>5, <3>2
            <4>2. g[s] = IF s = {} THEN base ELSE F[Max(s)][g[s \ {Max(s)}]]
                BY <2>4, <4>1
            <4>3. iter[s \ {Max(s)}] = g[s \ {Max(s)}]
                <5>1. s \ {Max(s)} \in SUBSET (1 .. m) /\ m \notin s \ {Max(s)}
                    BY <3>2
                <5> QED BY <5>1
            <4> HIDE DEF iter
            <4> QED BY <4>1, <4>2, <4>3
        <3> QED BY <3>1, <3>2
    <2> HIDE DEF iter
    <2> QED BY <2>6, <2>7
<1>2. n \notin D
    BY <1>1
<1>3. PICK iter \in [SUBSET (1 .. n) -> X] : Solves(iter, n)
    <2>1. n \in 0 .. n
        OBVIOUS
    <2>2. \E iter \in [SUBSET (1 .. n) -> X] : Solves(iter, n)
        BY <1>2, <2>1
    <2> QED BY <2>2
<1> QED BY <1>3 DEF Folds

\* OfPageSize (CopyMemoryIntervalsOf2MBTo and its 1GB twin) goes over the list once:
\* run[k] is the copy after k intervals.
LEMMA OfPageSizeRun ==
    ASSUME NEW S, NEW list \in Seq(S), NEW p
    PROVE  \E run :
              /\ run[0] = <<>>
              /\ \A k \in 1 .. Len(list) :
                    run[k] = IF list[k].page_size = p THEN Append(run[k - 1], list[k])
                             ELSE run[k - 1]
              /\ OfPageSize(list, p) = run[Len(list)]
<1> DEFINE n == Len(list)
           Eq(it) == it = [s \in SUBSET DOMAIN list |->
                        IF s = {} THEN <<>>
                        ELSE LET x == Max(s)
                             IN IF list[x].page_size = p THEN Append(it[s \ {x}], list[x])
                                ELSE it[s \ {x}]]
           iter == CHOOSE it : Eq(it)
           F == [k \in 1 .. n |-> [l \in Seq(S) |->
                    IF list[k].page_size = p THEN Append(l, list[k]) ELSE l]]
<1>1. OfPageSize(list, p) = iter[DOMAIN list]
    BY DEF OfPageSize, FoldLeft, MapThenFoldSet
<1>2. n \in Nat /\ DOMAIN list = 1 .. n /\ \A k \in 1 .. n : list[k] \in S
    OBVIOUS
<1>3. F \in [1 .. n -> [Seq(S) -> Seq(S)]] /\ <<>> \in Seq(S)
    BY <1>2
<1>4. \E it : Eq(it)
    <2> HIDE DEF F, n
    <2>1. PICK it \in [SUBSET (1 .. n) -> Seq(S)] :
              \A s \in SUBSET (1 .. n) :
                  it[s] = IF s = {} THEN <<>> ELSE F[Max(s)][it[s \ {Max(s)}]]
        <3>1. Folds(Seq(S), n, <<>>, F)
            BY <1>2, <1>3, Folding
        <3> QED BY <3>1 DEF Folds
    <2>2. ASSUME NEW s \in SUBSET (1 .. n), s # {}
          PROVE  F[Max(s)][it[s \ {Max(s)}]] =
                     IF list[Max(s)].page_size = p
                     THEN Append(it[s \ {Max(s)}], list[Max(s)]) ELSE it[s \ {Max(s)}]
        BY <1>2, <2>2, MaxOfNaturals DEF F
    <2>3. Eq(it)
        <3>1. it = [s \in SUBSET (1 .. n) |-> it[s]]
            OBVIOUS
        <3> QED BY <1>2, <2>1, <2>2, <3>1
    <2> HIDE DEF Eq
    <2> QED BY <2>3
<1>5. Eq(iter)
    <2> HIDE DEF Eq
    <2> QED BY <1>4
<1>6. \A s \in SUBSET (1 .. n) :
          iter[s] = IF s = {} THEN <<>>
                    ELSE IF list[Max(s)].page_size = p
                         THEN Append(iter[s \ {Max(s)}], list[Max(s)])
                         ELSE iter[s \ {Max(s)}]
    <2> HIDE DEF iter
    <2> QED BY <1>2, <1>5
<1> HIDE DEF iter, n, F, Eq
<1> DEFINE run == [k \in 0 .. n |-> iter[1 .. k]]
<1>7. run[0] = <<>>
    <2>1. 1 .. 0 = {} /\ 0 \in 0 .. n /\ {} \in SUBSET (1 .. n)
        BY <1>2
    <2> QED BY <1>6, <2>1
<1>8. ASSUME NEW k \in 1 .. n
      PROVE  run[k] = IF list[k].page_size = p THEN Append(run[k - 1], list[k]) ELSE run[k - 1]
    <2>1. Max(1 .. k) = k /\ (1 .. k) \ {k} = 1 .. k - 1
        BY MaxOfRange
    <2>2. 1 .. k \in SUBSET (1 .. n) /\ 1 .. k # {} /\ k - 1 \in 0 .. n /\ k \in 0 .. n
        BY <1>2
    <2> QED BY <1>6, <2>1, <2>2
<1>9. OfPageSize(list, p) = run[n]
    BY <1>1, <1>2 DEF iter
<1> HIDE DEF run
<1> QED BY <1>2, <1>7, <1>8, <1>9 DEF n

\* l is the intervals with pages of size p among the first m of list, in their
\* order; f says where each is in list.
Picks(list, p, m, l, f) ==
    /\ f \in [1 .. Len(l) -> 1 .. m]
    /\ \A a \in 1 .. Len(l) : l[a] = list[f[a]] /\ l[a].page_size = p
    /\ \A a, b \in 1 .. Len(l) : a < b => f[a] < f[b]
    /\ \A k \in 1 .. m : list[k].page_size = p => \E a \in 1 .. Len(l) : f[a] = k

\* OfPageSize copies exactly the intervals with that page size, in their order.
LEMMA OfPageSizePicks ==
    ASSUME NEW S, NEW list \in Seq(S), NEW p
    PROVE  /\ OfPageSize(list, p) \in Seq(S)
           /\ \E f : Picks(list, p, Len(list), OfPageSize(list, p), f)
<1> DEFINE n == Len(list)
<1>1. n \in Nat /\ \A k \in 1 .. n : list[k] \in S
    OBVIOUS
<1>2. PICK run :
          /\ run[0] = <<>>
          /\ \A k \in 1 .. n :
                run[k] = IF list[k].page_size = p THEN Append(run[k - 1], list[k])
                         ELSE run[k - 1]
          /\ OfPageSize(list, p) = run[n]
    BY OfPageSizeRun
<1> HIDE DEF n
<1> DEFINE G == {k \in 0 .. n : run[k] \in Seq(S) /\ \E f : Picks(list, p, k, run[k], f)}
<1>3. 0 \in G
    <2> DEFINE f == [a \in {} |-> 0]
    <2>1. <<>> \in Seq(S) /\ Len(<<>>) = 0
        OBVIOUS
    <2>2. Picks(list, p, 0, <<>>, f)
        BY <2>1 DEF Picks
    <2>3. run[0] \in Seq(S) /\ Picks(list, p, 0, run[0], f)
        BY <1>2, <2>1, <2>2
    <2>4. 0 \in 0 .. n
        BY <1>1
    <2> HIDE DEF f
    <2> QED BY <2>3, <2>4
<1>4. ASSUME NEW k \in 1 .. n, k - 1 \in G PROVE k \in G
    <2> DEFINE l == run[k - 1]
    <2>1. PICK f : Picks(list, p, k - 1, l, f)
        BY <1>4
    <2>2. l \in Seq(S) /\ list[k] \in S /\ k \in 0 .. n
        BY <1>1, <1>4
    <2>3. CASE list[k].page_size # p
        <3>1. run[k] = l
            BY <1>2, <2>3
        <3>2. Picks(list, p, k, l, f)
            <4>1. \A x \in 1 .. k - 1 : x \in 1 .. k
                OBVIOUS
            <4>2. \A x \in 1 .. k : x = k \/ x \in 1 .. k - 1
                OBVIOUS
            <4>3. f \in [1 .. Len(l) -> 1 .. k]
                BY <2>1, <4>1 DEF Picks
            <4> HIDE DEF l
            <4> QED BY <2>1, <2>3, <4>2, <4>3 DEF Picks
        <3> QED BY <2>2, <3>1, <3>2
    <2>4. CASE list[k].page_size = p
        <3> DEFINE m == Append(l, list[k])
                   g == [a \in 1 .. Len(l) + 1 |-> IF a = Len(l) + 1 THEN k ELSE f[a]]
        <3>1. run[k] = m
            BY <1>2, <2>4
        <3> HIDE DEF l
        <3>2. /\ m \in Seq(S) /\ Len(m) = Len(l) + 1 /\ Len(l) \in Nat
              /\ m[Len(l) + 1] = list[k] /\ \A a \in 1 .. Len(l) : m[a] = l[a]
            BY <2>2
        <3>3. \A a \in 1 .. Len(l) : /\ f[a] \in 1 .. k - 1 /\ f[a] < k /\ g[a] = f[a]
                                     /\ l[a] = list[f[a]] /\ l[a].page_size = p
            BY <2>1, <3>2 DEF Picks
        <3>4. g[Len(l) + 1] = k
            BY <3>2
        <3>5. g \in [1 .. Len(m) -> 1 .. k]
            <4>1. \A a \in 1 .. Len(l) + 1 : a = Len(l) + 1 \/ a \in 1 .. Len(l)
                BY <3>2
            <4>2. k \in 1 .. k /\ \A x \in 1 .. k - 1 : x \in 1 .. k
                OBVIOUS
            <4>3. \A a \in 1 .. Len(l) + 1 : (IF a = Len(l) + 1 THEN k ELSE f[a]) \in 1 .. k
                BY <3>3, <4>1, <4>2
            <4> QED BY <3>2, <4>3
        <3>6. \A a \in 1 .. Len(m) : a = Len(l) + 1 \/ a \in 1 .. Len(l)
            BY <3>2
        <3> HIDE DEF m, g
        <3>7. \A a \in 1 .. Len(m) : m[a] = list[g[a]] /\ m[a].page_size = p
            BY <2>4, <3>2, <3>3, <3>4, <3>6
        <3>8. \A a, b \in 1 .. Len(m) : a < b => g[a] < g[b]
            <4> SUFFICES ASSUME NEW a \in 1 .. Len(m), NEW b \in 1 .. Len(m), a < b
                         PROVE  g[a] < g[b]
                OBVIOUS
            <4>1. a \in 1 .. Len(l)
                BY <3>2
            <4>2. CASE b = Len(l) + 1
                BY <3>3, <3>4, <4>1, <4>2
            <4>3. CASE b \in 1 .. Len(l)
                <5>1. f[a] < f[b]
                    BY <2>1, <4>1, <4>3 DEF Picks
                <5> QED BY <3>3, <4>1, <4>3, <5>1
            <4> QED BY <3>6, <4>2, <4>3
        <3>9. ASSUME NEW x \in 1 .. k, list[x].page_size = p
              PROVE  \E a \in 1 .. Len(m) : g[a] = x
            <4>1. CASE x = k
                BY <3>2, <3>4, <4>1
            <4>2. CASE x \in 1 .. k - 1
                <5>1. PICK a \in 1 .. Len(l) : f[a] = x
                    BY <2>1, <3>9, <4>2 DEF Picks
                <5>2. a \in 1 .. Len(m) /\ g[a] = x
                    BY <3>2, <3>3, <5>1
                <5> QED BY <5>2
            <4> QED BY <4>1, <4>2
        <3>10. Picks(list, p, k, m, g)
            BY <3>5, <3>7, <3>8, <3>9 DEF Picks
        <3> QED BY <2>2, <3>1, <3>2, <3>10
    <2> QED BY <2>3, <2>4
<1>5. n \in G
    <2>1. n \in 0 .. n
        BY <1>1
    <2> HIDE DEF G
    <2> QED BY <1>1, <1>3, <1>4, <2>1, UpTo
<1> QED BY <1>2, <1>5 DEF n

-------------------------------------------------------------------------------
(* Sort.                                                                   *)

\* f puts the positions up to n in another order.
Permutation(n, f) ==
    /\ f \in [1 .. n -> 1 .. n]
    /\ \A a, b \in 1 .. n : a # b => f[a] # f[b]
    /\ \A k \in 1 .. n : \E a \in 1 .. n : f[a] = k

\* t has the elements of s in another order.
Permuted(n, s, t) == \E f : Permutation(n, f) /\ \A k \in 1 .. n : t[k] = s[f[k]]

\* What Sort does to l for the pair of i and j.
Ordered(l, i, j) ==
    IF i > j \/ LessThan(l[i], l[j]) THEN l ELSE [l EXCEPT ![i] = l[j], ![j] = l[i]]

\* The k-th of the n * n pairs.
Outer(n, k) == ((k - 1) \div n) + 1
Inner(n, k) == ((k - 1) % n) + 1

\* Division with remainder.
LEMMA Quotient ==
    ASSUME NEW n \in Nat \ {0}, NEW x \in Int
    PROVE  x = ((x \div n) * n) + (x % n) /\ x % n \in 0 .. n - 1 /\ x \div n \in Int
OBVIOUS

\* The number of the pair of i and j.
Number(n, i, j) == (i - 1) * n + j

\* Number and the two of Outer and Inner are inverse.
LEMMA PairIs ==
    ASSUME NEW n \in Nat \ {0}, NEW i \in Int, NEW j \in 1 .. n
    PROVE  Outer(n, Number(n, i, j)) = i /\ Inner(n, Number(n, i, j)) = j
<1> DEFINE k == (i - 1) * n + j
<1>1. k - 1 = (i - 1) * n + (j - 1) /\ j - 1 \in 0 .. n - 1 /\ i - 1 \in Int /\ k - 1 \in Int
    OBVIOUS
<1>2. (k - 1) % n = j - 1 /\ (k - 1) \div n = i - 1
    BY <1>1
<1> QED BY <1>2 DEF Outer, Inner, Number

\* The first pair is that of 1 and 1.
LEMMA FirstPair ==
    ASSUME NEW n \in Nat \ {0}
    PROVE  Outer(n, 1) = 1 /\ Inner(n, 1) = 1
<1>1. 0 \div n = 0 /\ 0 % n = 0
    OBVIOUS
<1> QED BY <1>1 DEF Outer, Inner

\* The k-th pair is one of positions in the list.
LEMMA PairBounds ==
    ASSUME NEW n \in Nat, NEW k \in 1 .. n * n
    PROVE  /\ n # 0 /\ Outer(n, k) \in 1 .. n /\ Inner(n, k) \in 1 .. n
           /\ k = (Outer(n, k) - 1) * n + Inner(n, k)
<1> DEFINE q == (k - 1) \div n
           r == (k - 1) % n
<1>1. n # 0 /\ k \in Int /\ k >= 1 /\ k <= n * n
    <2>1. n * n >= 1
        OBVIOUS
    <2>2. ASSUME n = 0 PROVE FALSE
        <3>1. n * n = 0
            BY <2>2
        <3> QED BY <2>1, <3>1
    <2> QED BY <2>2
<1>2. k - 1 = q * n + r /\ r \in 0 .. n - 1 /\ q \in Int
    <2> DEFINE x == k - 1
    <2>1. x \in Int /\ n \in Nat \ {0} /\ q = x \div n /\ r = x % n
        BY <1>1
    <2> HIDE DEF x, q, r
    <2>2. x = ((x \div n) * n) + (x % n) /\ x % n \in 0 .. n - 1 /\ x \div n \in Int
        BY <2>1, Quotient
    <2>3. x = (q * n) + r /\ r \in 0 .. n - 1 /\ q \in Int
        BY <2>1, <2>2
    <2> QED BY <2>3 DEF x
<1> HIDE DEF q, r
<1>3. q * n < n * n /\ -1 * n < q * n
    BY <1>1, <1>2
<1>4. q < n /\ -1 < q
    BY <1>1, <1>2, <1>3
<1>5. Outer(n, k) = q + 1 /\ Inner(n, k) = r + 1
    BY DEF Outer, Inner, q, r
<1>6. k = q * n + (r + 1)
    BY <1>1, <1>2
<1> QED BY <1>1, <1>2, <1>4, <1>5, <1>6

\* The pair after k - 1 is the next one with the same first element or, after the last
\* of those, the first one with the next element.
LEMMA NextPair ==
    ASSUME NEW n \in Nat, NEW k \in 1 .. n * n, k # 1
    PROVE  \/ /\ Inner(n, k) # 1
              /\ Outer(n, k - 1) = Outer(n, k) /\ Inner(n, k - 1) = Inner(n, k) - 1
           \/ /\ Inner(n, k) = 1 /\ Outer(n, k) # 1
              /\ Outer(n, k - 1) = Outer(n, k) - 1 /\ Inner(n, k - 1) = n
<1> DEFINE i == Outer(n, k)
           j == Inner(n, k)
<1>1. n # 0 /\ i \in 1 .. n /\ j \in 1 .. n /\ k = (i - 1) * n + j
    BY PairBounds
<1> HIDE DEF i, j
<1>2. CASE j # 1
    <2>1. k - 1 = Number(n, i, j - 1) /\ j - 1 \in 1 .. n /\ i \in Int
        BY <1>1, <1>2 DEF Number
    <2>2. Outer(n, k - 1) = i /\ Inner(n, k - 1) = j - 1
        BY <1>1, <2>1, PairIs
    <2> QED BY <1>2, <2>2 DEF i, j
<1>3. CASE j = 1
    <2>1. k - 1 = Number(n, i - 1, n) /\ n \in 1 .. n /\ i - 1 \in Int
        BY <1>1, <1>3 DEF Number
    <2>2. Outer(n, k - 1) = i - 1 /\ Inner(n, k - 1) = n
        BY <1>1, <2>1, PairIs
    <2>3. i # 1
        <3> SUFFICES ASSUME i = 1 PROVE FALSE
            OBVIOUS
        <3>1. k = 1
            BY <1>1, <1>3
        <3> QED BY <3>1
    <2> QED BY <1>3, <2>2, <2>3 DEF i, j
<1> QED BY <1>2, <1>3

\* Sort (MemoryIntervalList::Sort) goes over all pairs of positions: run[k] is the list
\* after k of them.
LEMMA SortRun ==
    ASSUME NEW S, NEW list \in Seq(S)
    PROVE  \E run :
              /\ run[0] = list
              /\ \A k \in 1 .. Len(list) * Len(list) :
                    run[k] = Ordered(run[k - 1], Outer(Len(list), k), Inner(Len(list), k))
              /\ Sort(list) = run[Len(list) * Len(list)]
<1> DEFINE n == Len(list)
           N == n * n
           pairs == [k \in 1 .. n * n |-> <<((k - 1) \div n) + 1, ((k - 1) % n) + 1>>]
           Op(l, p) == IF p[1] > p[2] \/ LessThan(l[p[1]], l[p[2]]) THEN l
                       ELSE [l EXCEPT ![p[1]] = l[p[2]], ![p[2]] = l[p[1]]]
           X == [1 .. n -> S]
           Eq(it) == it = [s \in SUBSET DOMAIN pairs |->
                        IF s = {} THEN list
                        ELSE LET x == Max(s) IN Op(it[s \ {x}], pairs[x])]
           iter == CHOOSE it : Eq(it)
           F == [k \in 1 .. N |-> [l \in X |-> Ordered(l, Outer(n, k), Inner(n, k))]]
<1>1. Sort(list) = iter[DOMAIN pairs]
    BY DEF Sort, FoldLeft, MapThenFoldSet
<1>2. n \in Nat /\ list \in X /\ N \in Nat /\ DOMAIN pairs = 1 .. N
    OBVIOUS
<1>3. \A k \in 1 .. N : \A l : Op(l, pairs[k]) = Ordered(l, Outer(n, k), Inner(n, k))
    <2> SUFFICES ASSUME NEW k \in 1 .. N, NEW l
                 PROVE  Op(l, pairs[k]) = Ordered(l, Outer(n, k), Inner(n, k))
        OBVIOUS
    <2>1. pairs[k] = <<Outer(n, k), Inner(n, k)>>
        BY DEF Outer, Inner
    <2> QED BY <2>1 DEF Ordered
<1> HIDE DEF pairs, n
<1>4. F \in [1 .. N -> [X -> X]]
    <2> SUFFICES ASSUME NEW k \in 1 .. N, NEW l \in X
                 PROVE  Ordered(l, Outer(n, k), Inner(n, k)) \in X
        OBVIOUS
    <2>1. Outer(n, k) \in 1 .. n /\ Inner(n, k) \in 1 .. n
        BY <1>2, PairBounds
    <2>2. \A i, j \in 1 .. n : Ordered(l, i, j) \in X
        BY DEF Ordered
    <2> QED BY <2>1, <2>2
<1>5. \E it : Eq(it)
    <2>1. PICK it \in [SUBSET (1 .. N) -> X] :
              \A s \in SUBSET (1 .. N) :
                  it[s] = IF s = {} THEN list ELSE F[Max(s)][it[s \ {Max(s)}]]
        <3> HIDE DEF F, X, N
        <3>1. Folds(X, N, list, F)
            BY <1>2, <1>4, Folding
        <3> QED BY <3>1 DEF Folds
    <2>2. ASSUME NEW s \in SUBSET (1 .. N), s # {}
          PROVE  F[Max(s)][it[s \ {Max(s)}]] = Op(it[s \ {Max(s)}], pairs[Max(s)])
        <3>1. Max(s) \in 1 .. N
            BY <1>2, <2>2, MaxOfNaturals
        <3>2. s \ {Max(s)} \in SUBSET (1 .. N)
            OBVIOUS
        <3> DEFINE l == it[s \ {Max(s)}]
                   k == Max(s)
        <3>3. l \in X /\ k \in 1 .. N
            BY <3>1, <3>2
        <3> HIDE DEF l, k
        <3>4. F[k][l] = Op(l, pairs[k])
            <4> HIDE DEF Op, X, N
            <4> QED BY <1>3, <3>3
        <3> QED BY <3>4 DEF l, k
    <2> HIDE DEF F, Op
    <2>3. Eq(it)
        <3>1. it = [s \in SUBSET (1 .. N) |-> it[s]]
            OBVIOUS
        <3>2. \A s \in SUBSET (1 .. N) :
                  it[s] = IF s = {} THEN list ELSE Op(it[s \ {Max(s)}], pairs[Max(s)])
            BY <2>1, <2>2
        <3> QED BY <1>2, <3>1, <3>2
    <2> HIDE DEF Eq
    <2> QED BY <2>3
<1>6. Eq(iter)
    <2> HIDE DEF Eq
    <2> QED BY <1>5
<1> HIDE DEF Op
<1>7. \A s \in SUBSET (1 .. N) :
          iter[s] = IF s = {} THEN list ELSE Op(iter[s \ {Max(s)}], pairs[Max(s)])
    <2> HIDE DEF iter
    <2> QED BY <1>2, <1>6
<1> HIDE DEF iter, N, F, Eq, X
<1> DEFINE run == [k \in 0 .. N |-> iter[1 .. k]]
<1>8. run[0] = list
    <2>1. 1 .. 0 = {} /\ 0 \in 0 .. N /\ {} \in SUBSET (1 .. N)
        BY <1>2
    <2> QED BY <1>7, <2>1
<1>9. ASSUME NEW k \in 1 .. N
      PROVE  run[k] = Ordered(run[k - 1], Outer(n, k), Inner(n, k))
    <2>1. Max(1 .. k) = k /\ (1 .. k) \ {k} = 1 .. k - 1
        BY MaxOfRange
    <2>2. 1 .. k \in SUBSET (1 .. N) /\ 1 .. k # {} /\ k - 1 \in 0 .. N /\ k \in 0 .. N
        <3>1. N \in Nat
            BY <1>2
        <3> QED BY <3>1
    <2>3. run[k] = Op(run[k - 1], pairs[k])
        BY <1>7, <2>1, <2>2
    <2> QED BY <1>3, <2>3
<1>10. Sort(list) = run[N]
    BY <1>1, <1>2 DEF iter
<1> HIDE DEF run
<1> QED BY <1>8, <1>9, <1>10 DEF n, N

\* A step of Sort loses no interval and makes none.
LEMMA OrderedPermutes ==
    ASSUME NEW S, NEW n \in Nat, NEW s, NEW l \in [1 .. n -> S], Permuted(n, s, l),
           NEW i \in 1 .. n, NEW j \in 1 .. n
    PROVE  Ordered(l, i, j) \in [1 .. n -> S] /\ Permuted(n, s, Ordered(l, i, j))
<1>1. PICK f : Permutation(n, f) /\ \A k \in 1 .. n : l[k] = s[f[k]]
    BY DEF Permuted
<1>2. CASE Ordered(l, i, j) = l
    BY <1>2
<1>3. CASE Ordered(l, i, j) = [l EXCEPT ![i] = l[j], ![j] = l[i]]
    <2> DEFINE m == [l EXCEPT ![i] = l[j], ![j] = l[i]]
               g == [f EXCEPT ![i] = f[j], ![j] = f[i]]
    <2>1. /\ m \in [1 .. n -> S] /\ m[j] = l[i] /\ (i # j => m[i] = l[j])
          /\ \A k \in 1 .. n : k # i /\ k # j => m[k] = l[k]
        OBVIOUS
    <2>2. f \in [1 .. n -> 1 .. n]
        BY <1>1 DEF Permutation
    <2>3. /\ g \in [1 .. n -> 1 .. n] /\ g[j] = f[i] /\ (i # j => g[i] = f[j])
          /\ \A k \in 1 .. n : k # i /\ k # j => g[k] = f[k]
        BY <2>2
    <2> HIDE DEF m, g
    <2>4. \A k \in 1 .. n : m[k] = s[g[k]]
        <3>1. ASSUME NEW k \in 1 .. n, k # i, k # j PROVE m[k] = s[g[k]]
            BY <1>1, <2>1, <2>3, <3>1
        <3>2. m[j] = s[g[j]]
            BY <1>1, <2>1, <2>3
        <3>3. i # j => m[i] = s[g[i]]
            BY <1>1, <2>1, <2>3
        <3> QED BY <3>1, <3>2, <3>3
    <2>5. \A a, b \in 1 .. n : a # b => f[a] # f[b]
        BY <1>1 DEF Permutation
    <2>6. \A a, b \in 1 .. n : a # b => g[a] # g[b]
        BY <2>3, <2>5
    <2>7. \A k \in 1 .. n : \E a \in 1 .. n : g[a] = k
        <3> SUFFICES ASSUME NEW k \in 1 .. n PROVE \E a \in 1 .. n : g[a] = k
            OBVIOUS
        <3>1. PICK a \in 1 .. n : f[a] = k
            BY <1>1 DEF Permutation
        <3> QED BY <2>3, <3>1
    <2>8. Permutation(n, g)
        BY <2>3, <2>6, <2>7 DEF Permutation
    <2>9. Permuted(n, s, m)
        BY <2>4, <2>8 DEF Permuted
    <2>10. Ordered(l, i, j) = m
        BY <1>3 DEF m
    <2> QED BY <2>1, <2>9, <2>10
<1> QED BY <1>2, <1>3 DEF Ordered

\* Every element before i is in its place, and the i-th is the least up to j.
Sorts(n, l, i, j) ==
    /\ \A a, b \in 1 .. n : a < i /\ a < b => l[a].start_offset <= l[b].start_offset
    /\ \A b \in 1 .. n : i <= b /\ b <= j => l[i].start_offset <= l[b].start_offset

\* A step of Sort brings the least up to j to position i.
LEMMA OrderedSorts ==
    ASSUME NEW S, \A x \in S : x.start_offset \in Int,
           NEW n \in Nat, NEW l \in [1 .. n -> S], NEW i \in 1 .. n, NEW j \in 1 .. n,
           Sorts(n, l, i, j - 1)
    PROVE  Sorts(n, Ordered(l, i, j), i, j)
<1> DEFINE m == Ordered(l, i, j)
<1>1. \A k \in 1 .. n : l[k] \in S /\ l[k].start_offset \in Int
    OBVIOUS
<1>2. /\ \A a, b \in 1 .. n : a < i /\ a < b => l[a].start_offset <= l[b].start_offset
      /\ \A b \in 1 .. n : i <= b /\ b <= j - 1 => l[i].start_offset <= l[b].start_offset
    BY DEF Sorts
<1>3. CASE i > j
    <2>1. m = l
        BY <1>3 DEF Ordered
    <2> QED BY <1>2, <1>3, <2>1 DEF Sorts
<1>4. CASE i <= j /\ LessThan(l[i], l[j])
    <2>1. m = l /\ l[i].start_offset < l[j].start_offset
        BY <1>4 DEF Ordered, LessThan
    <2>2. \A b \in 1 .. n : i <= b /\ b <= j => l[i].start_offset <= l[b].start_offset
        BY <1>1, <1>2, <2>1
    <2> QED BY <1>2, <2>1, <2>2 DEF Sorts
<1>5. CASE i <= j /\ ~LessThan(l[i], l[j])
    <2>1. m = [l EXCEPT ![i] = l[j], ![j] = l[i]] /\ ~(l[i].start_offset < l[j].start_offset)
        BY <1>5 DEF Ordered, LessThan
    <2> HIDE DEF m
    <2>2. /\ m[j] = l[i] /\ m[i] = l[j]
          /\ \A k \in 1 .. n : k # i /\ k # j => m[k] = l[k]
        BY <2>1
    <2>3. l[j].start_offset <= l[i].start_offset
        BY <1>1, <2>1
    <2>4. ASSUME NEW a \in 1 .. n, NEW b \in 1 .. n, a < i, a < b
          PROVE  m[a].start_offset <= m[b].start_offset
        <3>1. m[a] = l[a]
            BY <1>5, <2>2, <2>4
        <3>2. m[b] = l[b] \/ m[b] = l[i] \/ m[b] = l[j]
            BY <2>2
        <3>3. a < j
            BY <1>5, <2>4
        <3> QED BY <1>2, <2>4, <3>1, <3>2, <3>3
    <2>5. ASSUME NEW b \in 1 .. n, i <= b, b <= j
          PROVE  m[i].start_offset <= m[b].start_offset
        <3>1. CASE b = i \/ b = j
            BY <1>1, <2>2, <2>3, <3>1
        <3>2. CASE b # i /\ b # j
            <4>1. l[i].start_offset <= l[b].start_offset /\ m[b] = l[b]
                BY <1>2, <2>2, <2>5, <3>2
            <4> QED BY <1>1, <2>2, <2>3, <4>1
        <3> QED BY <3>1, <3>2
    <2> QED BY <2>4, <2>5 DEF Sorts, m
<1> QED BY <1>3, <1>4, <1>5

\* Sort returns the same intervals in the order of their starts.
LEMMA SortFacts ==
    ASSUME NEW S, \A x \in S : x.start_offset \in Int, NEW list \in Seq(S)
    PROVE  /\ Sort(list) \in Seq(S) /\ Len(Sort(list)) = Len(list)
           /\ Permuted(Len(list), list, Sort(list))
           /\ \A a, b \in 1 .. Len(list) :
                 a < b => Sort(list)[a].start_offset <= Sort(list)[b].start_offset
<1> DEFINE n == Len(list)
           N == n * n
<1>1. PICK run :
          /\ run[0] = list
          /\ \A k \in 1 .. N : run[k] = Ordered(run[k - 1], Outer(n, k), Inner(n, k))
          /\ Sort(list) = run[N]
    BY SortRun
<1>2. n \in Nat /\ list \in [1 .. n -> S] /\ N \in Nat
    OBVIOUS
<1> HIDE DEF n
<1>3. (1 .. N = {}) => n = 0
    <2> SUFFICES ASSUME n # 0 PROVE 1 .. N # {}
        OBVIOUS
    <2>1. 1 <= N /\ N \in Int
        BY <1>2
    <2>2. 1 \in 1 .. N
        <3> HIDE DEF N
        <3> QED BY <2>1
    <2> QED BY <2>2
<1> DEFINE G == {k \in 0 .. N : /\ run[k] \in [1 .. n -> S] /\ Permuted(n, list, run[k])
                                /\ k # 0 => Sorts(n, run[k], Outer(n, k), Inner(n, k))}
<1>4. 0 \in G
    <2> DEFINE f == [k \in 1 .. n |-> k]
    <2>1. Permutation(n, f) /\ \A k \in 1 .. n : list[k] = list[f[k]]
        BY DEF Permutation
    <2>2. Permuted(n, list, list)
        BY <2>1 DEF Permuted
    <2> QED BY <1>1, <1>2, <2>2
<1>5. ASSUME NEW k \in 1 .. N, k - 1 \in G PROVE k \in G
    <2> DEFINE i == Outer(n, k)
               j == Inner(n, k)
               l == run[k - 1]
    <2>1. i \in 1 .. n /\ j \in 1 .. n /\ n # 0
        BY <1>2, PairBounds
    <2>2. l \in [1 .. n -> S] /\ Permuted(n, list, l) /\ run[k] = Ordered(l, i, j)
        BY <1>1, <1>5
    <2>3. Sorts(n, l, i, j - 1)
        <3>1. CASE k = 1
            <4>1. i = 1 /\ j = 1
                <5>1. n \in Nat \ {0}
                    BY <1>2, <2>1
                <5> QED BY <3>1, <5>1, FirstPair
            <4> HIDE DEF i, j
            <4> QED BY <4>1 DEF Sorts
        <3>2. CASE k # 1
            <4>1. Sorts(n, l, Outer(n, k - 1), Inner(n, k - 1))
                <5>1. k - 1 # 0
                    BY <3>2
                <5> QED BY <1>5, <5>1
            <4> HIDE DEF l
            <4>2. CASE Outer(n, k - 1) = i /\ Inner(n, k - 1) = j - 1
                BY <4>1, <4>2
            <4>3. CASE /\ j = 1 /\ i # 1
                       /\ Outer(n, k - 1) = i - 1 /\ Inner(n, k - 1) = n
                <5>1. Sorts(n, l, i - 1, n)
                    BY <4>1, <4>3
                <5> HIDE DEF i, j
                <5>2. i - 1 \in 1 .. n
                    BY <1>2, <2>1, <4>3
                <5>3. \A a, b \in 1 .. n :
                          a < i /\ a < b => l[a].start_offset <= l[b].start_offset
                    <6> SUFFICES ASSUME NEW a \in 1 .. n, NEW b \in 1 .. n, a < i, a < b
                                 PROVE  l[a].start_offset <= l[b].start_offset
                        OBVIOUS
                    <6>1. a < i - 1 \/ a = i - 1
                        BY <2>1
                    <6> QED BY <5>1, <6>1 DEF Sorts
                <5> QED BY <2>1, <4>3, <5>3 DEF Sorts
            <4> QED BY <1>2, <3>2, <4>2, <4>3, NextPair
        <3> QED BY <3>1, <3>2
    <2> HIDE DEF i, j, l
    <2>4. Sorts(n, run[k], i, j)
        BY <1>2, <2>1, <2>2, <2>3, OrderedSorts
    <2>5. run[k] \in [1 .. n -> S] /\ Permuted(n, list, run[k])
        <3>1. n \in Nat
            BY <1>2
        <3>2. Ordered(l, i, j) \in [1 .. n -> S] /\ Permuted(n, list, Ordered(l, i, j))
            BY <2>1, <2>2, <3>1, OrderedPermutes
        <3> QED BY <2>2, <3>2
    <2> QED BY <2>4, <2>5 DEF i, j
<1>6. N \in G
    <2>1. N \in 0 .. N
        BY <1>2
    <2> HIDE DEF G, N
    <2> QED BY <1>2, <1>4, <1>5, <2>1, UpTo
<1>7. Sort(list) \in [1 .. n -> S] /\ Permuted(n, list, Sort(list))
    BY <1>1, <1>6
<1>8. Sort(list) \in Seq(S) /\ Len(Sort(list)) = n
    BY <1>2, <1>7
<1>9. ASSUME NEW a \in 1 .. n, NEW b \in 1 .. n, a < b
      PROVE  Sort(list)[a].start_offset <= Sort(list)[b].start_offset
    <2>1. n # 0 /\ N # 0 /\ N = Number(n, n, n)
        BY <1>2 DEF Number
    <2>2. Outer(n, N) = n
        <3> HIDE DEF N
        <3> QED BY <1>2, <2>1, PairIs
    <2>3. Sorts(n, Sort(list), n, Inner(n, N))
        BY <1>1, <1>6, <2>1, <2>2
    <2>4. a < n
        BY <1>2, <1>9
    <2> QED BY <1>9, <2>3, <2>4 DEF Sorts
<1> QED BY <1>7, <1>8, <1>9 DEF n

-------------------------------------------------------------------------------
(* Validate.                                                               *)

\* The intervals of a list.
Interval == [start_offset : Nat, end_offset : Nat, page_size : Nat]

\* The list has its elements at two places each or none: what Sort does to it.
LEMMA SortedElements ==
    ASSUME NEW list \in Seq(Interval)
    PROVE  /\ Sort(list) \in Seq(Interval) /\ Len(Sort(list)) = Len(list)
           /\ \A a, b \in 1 .. Len(list) :
                 a < b => Sort(list)[a].start_offset <= Sort(list)[b].start_offset
           /\ \E f : /\ Permutation(Len(list), f)
                     /\ \A k \in 1 .. Len(list) : Sort(list)[k] = list[f[k]]
<1>1. \A x \in Interval : x.start_offset \in Int
    BY DEF Interval
<1> QED BY <1>1, SortFacts DEF Permuted

\* If validateIntervalsOf accepts a list, each interval is aligned to 4KB and has a
\* number of pages, and any two are a number of pages apart.
LEMMA ValidIntervals ==
    ASSUME NEW list \in Seq(Interval), NEW p \in Nat \ {0}, ValidIntervalsOf(list, p)
    PROVE  /\ \A k \in 1 .. Len(list) :
                 /\ IS_ALIGNED(list[k].start_offset, BASE_4KB)
                 /\ list[k].start_offset < list[k].end_offset
                 /\ IS_ALIGNED(list[k].end_offset - list[k].start_offset, p)
           /\ \A k, m \in 1 .. Len(list) :
                 IS_ALIGNED(list[k].start_offset - list[m].start_offset, p)
           /\ list # <<>> => \E k \in 1 .. Len(list) : Sort(list)[1] = list[k]
<1> DEFINE n == Len(list)
           s == Sort(list)
<1>1. /\ n \in Nat /\ s \in Seq(Interval) /\ DOMAIN s = 1 .. n
      /\ \A k \in 1 .. n : s[k].start_offset \in Nat /\ s[k].end_offset \in Nat
    <2>1. n \in Nat /\ s \in Seq(Interval) /\ Len(s) = n
        BY SortedElements
    <2> HIDE DEF n, s
    <2>2. DOMAIN s = 1 .. n /\ \A k \in 1 .. n : s[k] \in Interval
        BY <2>1
    <2> QED BY <2>1, <2>2 DEF Interval
<1>2. PICK f : Permutation(n, f) /\ \A k \in 1 .. n : s[k] = list[f[k]]
    BY SortedElements
<1>3. /\ \A k \in 1 .. n :
            /\ IS_ALIGNED(s[k].start_offset, BASE_4KB)
            /\ s[k].end_offset - s[k].start_offset > 0
            /\ IS_ALIGNED(s[k].end_offset - s[k].start_offset, p)
            /\ k > 1 => IS_ALIGNED(s[k].start_offset - s[k - 1].end_offset, p)
    <2> HIDE DEF n
    <2> QED BY <1>1 DEF ValidIntervalsOf
<1>4. \A k \in 1 .. n : f[k] \in 1 .. n
    BY <1>2 DEF Permutation
<1>5. \A k \in 1 .. n : \E a \in 1 .. n : list[k] = s[a]
    <2> HIDE DEF n, s
    <2>1. \A k \in 1 .. n : \E a \in 1 .. n : f[a] = k
        BY <1>2 DEF Permutation
    <2>2. ASSUME NEW k \in 1 .. n PROVE \E a \in 1 .. n : list[k] = s[a]
        <3>1. PICK a \in 1 .. n : f[a] = k
            BY <2>1
        <3> QED BY <1>2, <3>1
    <2> QED BY <2>2
<1>6. n # 0 <=> list # <<>>
    OBVIOUS
<1> HIDE DEF n, s
<1> DEFINE G == {k \in 0 .. n : k # 0 => IS_ALIGNED(s[k].start_offset - s[1].start_offset, p)}
<1>7. \A k \in 0 .. n : k \in G
    <2>1. 0 \in G
        BY <1>1
    <2>2. ASSUME NEW k \in 1 .. n, k - 1 \in G PROVE k \in G
        <3>1. CASE k = 1
            <4> DEFINE x == s[1].start_offset
            <4>1. x \in Int
                BY <1>1, <3>1
            <4> HIDE DEF x
            <4>2. IS_ALIGNED(x - x, p)
                BY <4>1, ZeroAligned
            <4> QED BY <3>1, <4>2 DEF x
        <3>2. CASE k # 1
            <4> DEFINE a == s[1].start_offset
                       b == s[k - 1].start_offset
                       c == s[k - 1].end_offset
                       d == s[k].start_offset
            <4>1. k - 1 \in 1 .. n /\ 1 \in 1 .. n /\ k > 1 /\ k - 1 # 0
                BY <1>1, <3>2
            <4>2. a \in Nat /\ b \in Nat /\ c \in Nat /\ d \in Nat
                BY <1>1, <4>1
            <4>3. IS_ALIGNED(b - a, p) /\ IS_ALIGNED(c - b, p) /\ IS_ALIGNED(d - c, p)
                BY <1>3, <2>2, <4>1
            <4> HIDE DEF a, b, c, d
            <4>4. IS_ALIGNED((b - a) + (c - b), p)
                BY <4>2, <4>3, AlignedSum
            <4>5. IS_ALIGNED(((b - a) + (c - b)) + (d - c), p)
                BY <4>2, <4>3, <4>4, AlignedSum
            <4>6. ((b - a) + (c - b)) + (d - c) = d - a
                BY <4>2
            <4>7. IS_ALIGNED(d - a, p)
                BY <4>5, <4>6
            <4> QED BY <4>7 DEF a, d
        <3> QED BY <3>1, <3>2
    <2> HIDE DEF G
    <2> QED BY <1>1, <2>1, <2>2, UpTo
<1>8. \A k, m \in 1 .. n : IS_ALIGNED(s[k].start_offset - s[m].start_offset, p)
    <2> SUFFICES ASSUME NEW k \in 1 .. n, NEW m \in 1 .. n
                 PROVE  IS_ALIGNED(s[k].start_offset - s[m].start_offset, p)
        OBVIOUS
    <2> DEFINE a == s[1].start_offset
               b == s[m].start_offset
               d == s[k].start_offset
    <2>1. a \in Nat /\ b \in Nat /\ d \in Nat
        <3>1. 1 \in 1 .. n
            BY <1>1
        <3> QED BY <1>1, <3>1
    <2>2. IS_ALIGNED(d - a, p) /\ IS_ALIGNED(b - a, p)
        BY <1>7
    <2> HIDE DEF a, b, d
    <2>3. IS_ALIGNED((d - a) - (b - a), p) /\ (d - a) - (b - a) = d - b
        BY <2>1, <2>2, AlignedSum
    <2>4. IS_ALIGNED(d - b, p)
        BY <2>3
    <2> QED BY <2>4 DEF b, d
<1>9. \A k \in 1 .. n :
          /\ IS_ALIGNED(s[k].start_offset, BASE_4KB)
          /\ s[k].start_offset < s[k].end_offset
          /\ IS_ALIGNED(s[k].end_offset - s[k].start_offset, p)
    BY <1>1, <1>3
<1>10. list # <<>> => \E k \in 1 .. n : s[1] = list[k]
    BY <1>1, <1>2, <1>4, <1>6
<1>11. /\ \A k \in 1 .. n :
             /\ IS_ALIGNED(list[k].start_offset, BASE_4KB)
             /\ list[k].start_offset < list[k].end_offset
             /\ IS_ALIGNED(list[k].end_offset - list[k].start_offset, p)
       /\ \A k, m \in 1 .. n : IS_ALIGNED(list[k].start_offset - list[m].start_offset, p)
    BY <1>5, <1>8, <1>9
<1> QED BY <1>10, <1>11 DEF n, s

\* f says where each element of a list of m is in a list of n.
Places(m, n, f) ==
    f \in [1 .. m -> 1 .. n] /\ \A a, b \in 1 .. m : a # b => f[a] # f[b]
\* No position is taken by both.
OtherPlaces(m1, f1, m2, f2) == \A a \in 1 .. m1, b \in 1 .. m2 : f1[a] # f2[b]

\* The positions in two lists make up the positions in a list as long as both, if no
\* position is taken twice: if the numbers of 1GB and 2MB intervals add up to the length
\* of the list, Validate has seen every interval.
LEMMA NoneLeftOut ==
    ASSUME NEW n1 \in Nat, NEW n2 \in Nat, NEW n \in Nat, n1 + n2 = n,
           NEW f1, NEW f2, Places(n1, n, f1), Places(n2, n, f2), OtherPlaces(n1, f1, n2, f2),
           NEW k \in 1 .. n
    PROVE  (\E a \in 1 .. n1 : f1[a] = k) \/ (\E a \in 1 .. n2 : f2[a] = k)
<1> SUFFICES ASSUME \A a \in 1 .. n1 : f1[a] # k, \A a \in 1 .. n2 : f2[a] # k
             PROVE  FALSE
    OBVIOUS
<1> USE DEF Places, OtherPlaces
<1> DEFINE T == (1 .. n) \ {k}
           g == [a \in 1 .. n |-> IF a \in 1 .. n1 THEN f1[a] ELSE f2[a - n1]]
<1>1. IsFiniteSet(1 .. n) /\ Cardinality(1 .. n) = n
    <2>1. n >= 1 /\ 1 \in Int /\ n \in Int
        OBVIOUS
    <2> QED BY <2>1, FS_Interval
<1>2. IsFiniteSet(T) /\ Cardinality(T) = n - 1
    BY <1>1, FS_RemoveElement
<1>3. \A a \in 1 .. n : \/ a \in 1 .. n1 /\ g[a] = f1[a]
                        \/ a \notin 1 .. n1 /\ a - n1 \in 1 .. n2 /\ g[a] = f2[a - n1]
    OBVIOUS
<1> HIDE DEF g
<1>4. \A a \in 1 .. n1 : f1[a] \in T
    OBVIOUS
<1>5. \A a \in 1 .. n2 : f2[a] \in T
    OBVIOUS
<1>6. ASSUME NEW a \in 1 .. n PROVE g[a] \in T
    BY <1>3, <1>4, <1>5
<1>7. g \in [1 .. n -> T]
    <2>1. g = [a \in 1 .. n |-> g[a]]
        BY DEF g
    <2> QED BY <1>6, <2>1
<1>8. n - 1 < n
    OBVIOUS
<1>9. PICK x \in 1 .. n, y \in 1 .. n : x # y /\ g[x] = g[y]
    <2>1. IsFiniteSet(1 .. n) /\ IsFiniteSet(T) /\ Cardinality(T) < Cardinality(1 .. n)
        BY <1>1, <1>2, <1>8
    <2> HIDE DEF T
    <2>2. \E x, y \in 1 .. n : x # y /\ g[x] = g[y]
        BY ONLY <1>7, <2>1, FS_PigeonHole
    <2> QED BY <2>2
<1>10. x - n1 # y - n1
    BY <1>9
<1> QED BY <1>3, <1>9, <1>10

\* What Validate and SetIntervalConfigList require of the intervals of a pool.
Sound(list, size) ==
    /\ \A k \in 1 .. Len(list) :
          /\ list[k].page_size \in {HUGE_2MB, HUGE_1GB}
          /\ IS_ALIGNED(list[k].start_offset, BASE_4KB)
          /\ list[k].start_offset < list[k].end_offset /\ list[k].end_offset <= size
          /\ IS_ALIGNED(list[k].end_offset - list[k].start_offset, list[k].page_size)
    /\ \A k, m \in 1 .. Len(list) :
          list[k].page_size <= list[m].page_size
          => IS_ALIGNED(list[k].start_offset - list[m].start_offset, list[k].page_size)

\* The page sizes divide each other (PageSizeAssumption).
LEMMA PageFacts ==
    /\ BASE_4KB \in Nat \ {0} /\ HUGE_2MB \in Nat \ {0} /\ HUGE_1GB \in Nat \ {0}
    /\ BASE_4KB < HUGE_2MB /\ HUGE_2MB < HUGE_1GB
    /\ IS_ALIGNED(HUGE_2MB, BASE_4KB) /\ IS_ALIGNED(HUGE_1GB, HUGE_2MB)
    /\ IS_ALIGNED(HUGE_1GB, BASE_4KB)
<1>1. /\ BASE_4KB \in Nat \ {0} /\ HUGE_2MB \in Nat \ {0} /\ HUGE_1GB \in Nat \ {0}
      /\ BASE_4KB < HUGE_2MB /\ HUGE_2MB < HUGE_1GB
      /\ IS_ALIGNED(HUGE_2MB, BASE_4KB) /\ IS_ALIGNED(HUGE_1GB, HUGE_2MB)
    BY PageSizeAssumption DEF IS_ALIGNED
<1>2. HUGE_1GB \in Int
    BY <1>1
<1> QED BY <1>1, <1>2, AlignedFiner

\* No interval ends beyond the one that FindMaxEndOffset finds, which is zero at least.
LEMMA MaxEnd ==
    ASSUME NEW list \in Seq(Interval)
    PROVE  /\ FindMaxEndOffset(list) \in Nat
           /\ \A k \in 1 .. Len(list) : list[k].end_offset <= FindMaxEndOffset(list)
<1> DEFINE n == Len(list)
           T == {0} \cup {i.end_offset : i \in ToSet(list)}
           G == {m \in 0 .. n : \E b \in Nat : \A j \in 1 .. m : list[j].end_offset <= b}
<1>1. n \in Nat /\ \A j \in 1 .. n : list[j] \in Interval /\ list[j].end_offset \in Nat
    <2>1. n \in Nat /\ \A j \in 1 .. n : list[j] \in Interval
        OBVIOUS
    <2> QED BY <2>1 DEF Interval
<1>2. ToSet(list) = {list[j] : j \in 1 .. n}
    BY DEF ToSet
<1> HIDE DEF n
<1>3. \A m \in 0 .. n : m \in G
    <2>1. 0 \in G
        BY <1>1
    <2>2. ASSUME NEW m \in 1 .. n, m - 1 \in G PROVE m \in G
        <3>1. PICK b \in Nat : \A j \in 1 .. m - 1 : list[j].end_offset <= b
            BY <2>2
        <3> DEFINE c == b + list[m].end_offset
        <3>2. c \in Nat /\ b <= c /\ list[m].end_offset <= c
            BY <1>1
        <3> HIDE DEF c
        <3>3. \A j \in 1 .. m : list[j].end_offset <= c
            <4> SUFFICES ASSUME NEW j \in 1 .. m PROVE list[j].end_offset <= c
                OBVIOUS
            <4>1. j \in 1 .. n /\ (j = m \/ j \in 1 .. m - 1)
                BY <1>1
            <4> QED BY <1>1, <3>1, <3>2, <4>1
        <3>4. m \in 0 .. n
            BY <1>1
        <3> QED BY <3>2, <3>3, <3>4
    <2> HIDE DEF G
    <2> QED BY <1>1, <2>1, <2>2, UpTo
<1>4. PICK b \in Nat : \A j \in 1 .. n : list[j].end_offset <= b
    <2>1. n \in 0 .. n
        BY <1>1
    <2> QED BY <1>3, <2>1
<1>5. /\ T \in SUBSET Nat /\ T # {} /\ (\A x \in T : x <= b)
      /\ \A k \in 1 .. n : list[k].end_offset \in T
    <2>1. \A x \in T : x = 0 \/ \E j \in 1 .. n : x = list[j].end_offset
        BY <1>2
    <2>2. (\A k \in 1 .. n : list[k].end_offset \in T) /\ 0 \in T
        BY <1>2
    <2> HIDE DEF T
    <2>3. \A x \in T : x \in Nat /\ x <= b
        BY <1>1, <1>4, <2>1
    <2> QED BY <2>2, <2>3
<1>6. FindMaxEndOffset(list) = Max(T)
    BY DEF FindMaxEndOffset
<1> HIDE DEF T
<1>7. \E m \in T : \A x \in T : x <= m
    BY <1>5, GreatestNatural
<1>8. \E m \in T : \A x \in T : m >= x
    BY <1>5, <1>7
<1>9. Max(T) \in T /\ \A x \in T : Max(T) >= x
    BY <1>8 DEF Max
<1>10. Max(T) \in Nat /\ \A k \in 1 .. n : list[k].end_offset <= Max(T)
    BY <1>1, <1>5, <1>9
<1> QED BY <1>6, <1>10 DEF n

\* Validate compares neighbours of one page size and the first of either size only; that
\* is enough for every pair of intervals of an accepted list.
LEMMA AcceptedIsSound ==
    ASSUME NEW list \in Seq(Interval), NEW size \in Nat, Accepted(list, size)
    PROVE  Sound(list, size)
<1> DEFINE n == Len(list)
           s == Sort(list)
           l1 == OfPageSize(s, HUGE_1GB)
           l2 == OfPageSize(s, HUGE_2MB)
           n1 == Len(l1)
           n2 == Len(l2)
<1>1. n \in Nat /\ \A k \in 1 .. n : list[k] \in Interval
    OBVIOUS
<1>2. s \in Seq(Interval) /\ Len(s) = n
    BY SortedElements
<1>3. PICK f : Permutation(n, f) /\ \A k \in 1 .. n : s[k] = list[f[k]]
    BY SortedElements
<1>4. \A k \in 1 .. n : \E a \in 1 .. n : list[k] = s[a]
    BY <1>3 DEF Permutation
<1>5. /\ n1 + n2 = n
      /\ ValidIntervalsOf(l1, HUGE_1GB) /\ ValidIntervalsOf(l2, HUGE_2MB)
      /\ (l1 # <<>> /\ l2 # <<>>) =>
            IS_ALIGNED(Sort(l1)[1].start_offset - Sort(l2)[1].start_offset, HUGE_2MB)
      /\ FindMaxEndOffset(list) <= size
    BY DEF Accepted, Validate, IntervalsOf1GB, IntervalsOf2MB
<1> HIDE DEF n, s
<1>6. l1 \in Seq(Interval) /\ \E f1 : Picks(s, HUGE_1GB, n, l1, f1)
    BY <1>2, OfPageSizePicks
<1>7. l2 \in Seq(Interval) /\ \E f2 : Picks(s, HUGE_2MB, n, l2, f2)
    BY <1>2, OfPageSizePicks
<1> HIDE DEF l1, l2
<1>8. PICK f1 : Picks(s, HUGE_1GB, n, l1, f1)
    BY <1>6
<1>9. PICK f2 : Picks(s, HUGE_2MB, n, l2, f2)
    BY <1>7
<1>10. /\ n1 \in Nat /\ \A a \in 1 .. n1 : l1[a] \in Interval
       /\ n2 \in Nat /\ \A a \in 1 .. n2 : l2[a] \in Interval
    BY <1>6, <1>7
<1> HIDE DEF n1, n2
<1>11. /\ f1 \in [1 .. n1 -> 1 .. n]
       /\ \A a \in 1 .. n1 : l1[a] = s[f1[a]] /\ l1[a].page_size = HUGE_1GB
       /\ \A a, b \in 1 .. n1 : a # b => f1[a] # f1[b]
    <2>1. /\ f1 \in [1 .. n1 -> 1 .. n]
          /\ \A a \in 1 .. n1 : l1[a] = s[f1[a]] /\ l1[a].page_size = HUGE_1GB
          /\ \A a, b \in 1 .. n1 : a < b => f1[a] < f1[b]
        BY <1>8 DEF Picks, n1
    <2>2. \A a \in 1 .. n1 : f1[a] \in Int
        BY <1>1, <2>1
    <2>3. \A a, b \in 1 .. n1 : a # b => a < b \/ b < a
        BY <1>10
    <2> QED BY <2>1, <2>2, <2>3
<1>12. /\ f2 \in [1 .. n2 -> 1 .. n]
       /\ \A a \in 1 .. n2 : l2[a] = s[f2[a]] /\ l2[a].page_size = HUGE_2MB
       /\ \A a, b \in 1 .. n2 : a # b => f2[a] # f2[b]
    <2>1. /\ f2 \in [1 .. n2 -> 1 .. n]
          /\ \A a \in 1 .. n2 : l2[a] = s[f2[a]] /\ l2[a].page_size = HUGE_2MB
          /\ \A a, b \in 1 .. n2 : a < b => f2[a] < f2[b]
        BY <1>9 DEF Picks, n2
    <2>2. \A a \in 1 .. n2 : f2[a] \in Int
        BY <1>1, <2>1
    <2>3. \A a, b \in 1 .. n2 : a # b => a < b \/ b < a
        BY <1>10
    <2> QED BY <2>1, <2>2, <2>3
<1>13. \A a \in 1 .. n1, b \in 1 .. n2 : f1[a] # f2[b]
    <2>1. HUGE_1GB # HUGE_2MB
        BY PageFacts
    <2> QED BY <1>11, <1>12, <2>1
<1>14. ASSUME NEW k \in 1 .. n
       PROVE  \/ \E a \in 1 .. n1 : list[k] = l1[a]
              \/ \E a \in 1 .. n2 : list[k] = l2[a]
    <2>1. PICK b \in 1 .. n : list[k] = s[b]
        BY <1>4
    <2>2. (\E a \in 1 .. n1 : f1[a] = b) \/ (\E a \in 1 .. n2 : f2[a] = b)
        <3>1. n1 \in Nat /\ n2 \in Nat /\ n \in Nat /\ n1 + n2 = n
            BY <1>1, <1>5, <1>10
        <3>2. Places(n1, n, f1) /\ Places(n2, n, f2) /\ OtherPlaces(n1, f1, n2, f2)
            BY <1>11, <1>12, <1>13 DEF Places, OtherPlaces
        <3> QED BY <3>1, <3>2, NoneLeftOut
    <2> QED BY <1>11, <1>12, <2>1, <2>2
<1>15. /\ \A k \in 1 .. n1 :
             /\ IS_ALIGNED(l1[k].start_offset, BASE_4KB)
             /\ l1[k].start_offset < l1[k].end_offset
             /\ IS_ALIGNED(l1[k].end_offset - l1[k].start_offset, HUGE_1GB)
       /\ \A k, m \in 1 .. n1 : IS_ALIGNED(l1[k].start_offset - l1[m].start_offset, HUGE_1GB)
       /\ l1 # <<>> => \E k \in 1 .. n1 : Sort(l1)[1] = l1[k]
    BY <1>5, <1>6, PageFacts, ValidIntervals DEF n1
<1>16. /\ \A k \in 1 .. n2 :
             /\ IS_ALIGNED(l2[k].start_offset, BASE_4KB)
             /\ l2[k].start_offset < l2[k].end_offset
             /\ IS_ALIGNED(l2[k].end_offset - l2[k].start_offset, HUGE_2MB)
       /\ \A k, m \in 1 .. n2 : IS_ALIGNED(l2[k].start_offset - l2[m].start_offset, HUGE_2MB)
       /\ l2 # <<>> => \E k \in 1 .. n2 : Sort(l2)[1] = l2[k]
    BY <1>5, <1>7, PageFacts, ValidIntervals DEF n2
<1>17. ASSUME NEW a \in 1 .. n1, NEW b \in 1 .. n2
       PROVE  IS_ALIGNED(l2[b].start_offset - l1[a].start_offset, HUGE_2MB)
    <2>1. l1 # <<>> /\ l2 # <<>>
        <3>1. n1 # 0 /\ n2 # 0
            BY <1>10
        <3> QED BY <3>1 DEF n1, n2
    <2>2. PICK c \in 1 .. n1 : Sort(l1)[1] = l1[c]
        BY <1>15, <2>1
    <2>3. PICK d \in 1 .. n2 : Sort(l2)[1] = l2[d]
        BY <1>16, <2>1
    <2> DEFINE A == l1[a].start_offset
               B == l2[b].start_offset
               C == l1[c].start_offset
               D == l2[d].start_offset
    <2>4. A \in Nat /\ B \in Nat /\ C \in Nat /\ D \in Nat
        BY <1>10 DEF Interval
    <2>5. /\ IS_ALIGNED(C - D, HUGE_2MB) /\ IS_ALIGNED(C - A, HUGE_1GB)
          /\ IS_ALIGNED(B - D, HUGE_2MB)
        BY <1>5, <1>15, <1>16, <2>1, <2>2, <2>3
    <2> HIDE DEF A, B, C, D
    <2>6. C - A \in Int /\ C - D \in Int /\ B - D \in Int
        BY <2>4
    <2>7. IS_ALIGNED(C - A, HUGE_2MB)
        BY <2>5, <2>6, PageFacts, AlignedFiner
    <2>8. IS_ALIGNED((B - D) - (C - D), HUGE_2MB)
        BY <2>5, <2>6, PageFacts, AlignedSum
    <2>9. (B - D) - (C - D) \in Int
        BY <2>6
    <2>10. IS_ALIGNED(((B - D) - (C - D)) + (C - A), HUGE_2MB)
        BY <2>6, <2>7, <2>8, <2>9, PageFacts, AlignedSum
    <2>11. ((B - D) - (C - D)) + (C - A) = B - A
        BY <2>4
    <2>12. IS_ALIGNED(B - A, HUGE_2MB)
        BY <2>10, <2>11
    <2> QED BY <2>12 DEF A, B
<1>18. ASSUME NEW k \in 1 .. n
       PROVE  /\ list[k].page_size \in {HUGE_2MB, HUGE_1GB}
              /\ IS_ALIGNED(list[k].start_offset, BASE_4KB)
              /\ list[k].start_offset < list[k].end_offset /\ list[k].end_offset <= size
              /\ IS_ALIGNED(list[k].end_offset - list[k].start_offset, list[k].page_size)
    <2>1. list[k].end_offset <= size
        <3>1. /\ FindMaxEndOffset(list) \in Nat
              /\ list[k].end_offset <= FindMaxEndOffset(list)
            BY MaxEnd DEF n
        <3>2. list[k].end_offset \in Nat
            BY <1>1 DEF Interval
        <3> QED BY <1>5, <3>1, <3>2
    <2> QED BY <1>11, <1>12, <1>14, <1>15, <1>16, <2>1
<1>19. ASSUME NEW k \in 1 .. n, NEW m \in 1 .. n, list[k].page_size <= list[m].page_size
       PROVE  IS_ALIGNED(list[k].start_offset - list[m].start_offset, list[k].page_size)
    <2>1. CASE (\E a \in 1 .. n1 : list[k] = l1[a]) /\ \E a \in 1 .. n1 : list[m] = l1[a]
        BY <1>11, <1>15, <2>1
    <2>2. CASE (\E a \in 1 .. n2 : list[k] = l2[a]) /\ \E a \in 1 .. n2 : list[m] = l2[a]
        BY <1>12, <1>16, <2>2
    <2>3. CASE (\E a \in 1 .. n2 : list[k] = l2[a]) /\ \E a \in 1 .. n1 : list[m] = l1[a]
        BY <1>12, <1>17, <2>3
    <2>4. ~ ((\E a \in 1 .. n1 : list[k] = l1[a]) /\ \E a \in 1 .. n2 : list[m] = l2[a])
        <3>1. ~ (HUGE_1GB <= HUGE_2MB)
            BY PageFacts
        <3> QED BY <1>11, <1>12, <1>19, <3>1
    <2> QED BY <1>14, <2>1, <2>2, <2>3, <2>4
<1> QED BY <1>18, <1>19 DEF Sound, n

-------------------------------------------------------------------------------
(* Where the region starts.                                                *)

\* The first interval with pages of a size, if any interval has them.
LEMMA FirstOfPageSize ==
    ASSUME NEW list \in Seq(Interval), NEW p
    PROVE  IF OfPageSize(Sort(list), p) = <<>>
           THEN \A k \in 1 .. Len(list) : list[k].page_size # p
           ELSE \E k \in 1 .. Len(list) : /\ list[k].page_size = p
                                          /\ OfPageSize(Sort(list), p)[1] = list[k]
<1> DEFINE n == Len(list)
           s == Sort(list)
           l == OfPageSize(s, p)
<1>1. n \in Nat /\ s \in Seq(Interval) /\ Len(s) = n
    BY SortedElements
<1>2. PICK g : Permutation(n, g) /\ \A k \in 1 .. n : s[k] = list[g[k]]
    BY SortedElements
<1>3. \A k \in 1 .. n : /\ \E a \in 1 .. n : list[k] = s[a]
                        /\ \E a \in 1 .. n : s[k] = list[a]
    <2> HIDE DEF n, s
    <2>1. \A k \in 1 .. n : g[k] \in 1 .. n /\ \E a \in 1 .. n : g[a] = k
        BY <1>2 DEF Permutation
    <2>2. ASSUME NEW k \in 1 .. n PROVE \E a \in 1 .. n : list[k] = s[a]
        <3>1. PICK a \in 1 .. n : g[a] = k
            BY <2>1
        <3> QED BY <1>2, <3>1
    <2>3. ASSUME NEW k \in 1 .. n PROVE \E a \in 1 .. n : s[k] = list[a]
        BY <1>2, <2>1
    <2> QED BY <2>2, <2>3
<1> HIDE DEF n, s
<1>4. l \in Seq(Interval) /\ \E f : Picks(s, p, n, l, f)
    BY <1>1, OfPageSizePicks
<1> HIDE DEF l
<1>5. PICK f : Picks(s, p, n, l, f)
    BY <1>4
<1>6. CASE l = <<>>
    <2>1. Len(l) = 0
        BY <1>6
    <2>2. \A k \in 1 .. n : s[k].page_size # p
        BY <1>5, <2>1 DEF Picks
    <2>3. \A k \in 1 .. n : list[k].page_size # p
        BY <1>3, <2>2, SMTT(30)
    <2> QED BY <1>6, <2>3 DEF l, s, n
<1>7. CASE l # <<>>
    <2>1. 1 \in 1 .. Len(l)
        BY <1>4, <1>7
    <2>2. f[1] \in 1 .. n /\ l[1] = s[f[1]] /\ l[1].page_size = p
        BY <1>5, <2>1 DEF Picks
    <2>3. PICK k \in 1 .. n : s[f[1]] = list[k]
        BY <1>3, <2>2
    <2>4. \E a \in 1 .. n : list[a].page_size = p /\ l[1] = list[a]
        BY <2>2, <2>3
    <2> QED BY <1>7, <2>4 DEF l, s, n
<1> QED BY <1>6, <1>7

\* Rounding the address of an interval up to its page size moves the start of the
\* region by less than a page.
LEMMA AlignFirst ==
    ASSUME NEW p \in Nat \ {0}, IS_ALIGNED(p, BASE_4KB),
           NEW base \in Nat, NEW first \in Nat, IS_ALIGNED(first, BASE_4KB), NEW size \in Nat
    PROVE  LET h == ROUND_UP(base + first, p) - first
           IN /\ h \in Nat /\ IS_ALIGNED(h, BASE_4KB) /\ IS_ALIGNED(h + first, p)
              /\ base <= h /\ h + size <= base + ROUND_UP(size + p, p)
<1> DEFINE r == ROUND_UP(base + first, p)
           q == ROUND_UP(size + p, p)
<1>1. base + first \in Int /\ size + p \in Int
    OBVIOUS
<1>2. r \in Int /\ IS_ALIGNED(r, p) /\ base + first <= r /\ r < (base + first) + p
    BY <1>1, RoundUp
<1>3. q \in Int /\ size + p <= q
    BY <1>1, RoundUp
<1>4. IS_ALIGNED(r, BASE_4KB)
    BY <1>2, AlignedFiner, PageFacts
<1>5. IS_ALIGNED(r - first, BASE_4KB)
    BY <1>2, <1>4, AlignedSum, PageFacts
<1> HIDE DEF r, q
<1>6. r - first \in Nat /\ base <= r - first /\ (r - first) + size <= base + q
      /\ (r - first) + first = r
    BY <1>2, <1>3
<1> QED BY <1>2, <1>5, <1>6 DEF r, q

\* A start that aligns every interval of the list, in the range reserved at base.
StartsWell(list, size, base, h) ==
    /\ h \in Nat /\ IS_ALIGNED(h, BASE_4KB)
    /\ base <= h /\ h + size <= base + Reservation(list, size)
    /\ \A k \in 1 .. Len(list) : IS_ALIGNED(h + list[k].start_offset, list[k].page_size)

\* Initialize rounds up for the first interval of the largest page size alone; the start
\* it finds is aligned for every interval, and the region fits the reservation.
LEMMA RegionStartsWell ==
    ASSUME NEW list \in Seq(Interval), NEW size \in Nat, Accepted(list, size),
           NEW base \in Nat, IS_ALIGNED(base, BASE_4KB)
    PROVE  StartsWell(list, size, base, RegionStart(list, base))
<1> DEFINE n == Len(list)
<1>1. /\ \A k \in 1 .. n : list[k].start_offset \in Nat /\ list[k].page_size \in Nat
      /\ n \in Nat
    <2>1. n \in Nat /\ \A k \in 1 .. n : list[k] \in Interval
        OBVIOUS
    <2> QED BY <2>1 DEF Interval
<1>2. /\ \A k \in 1 .. n :
            /\ list[k].page_size \in {HUGE_2MB, HUGE_1GB}
            /\ IS_ALIGNED(list[k].start_offset, BASE_4KB)
      /\ \A k, m \in 1 .. n :
            list[k].page_size <= list[m].page_size
            => IS_ALIGNED(list[k].start_offset - list[m].start_offset, list[k].page_size)
    BY AcceptedIsSound DEF Sound
<1> HIDE DEF n
<1>3. ASSUME NEW p \in {HUGE_2MB, HUGE_1GB}, NEW h,
             \A k \in 1 .. n : list[k].page_size <= p,
             OfPageSize(Sort(list), p) # <<>>,
             h = ROUND_UP(base + FirstOffsetOf(list, p), p) - FirstOffsetOf(list, p),
             Reservation(list, size) = ROUND_UP(size + p, p)
      PROVE  StartsWell(list, size, base, h)
    <2>1. PICK m \in 1 .. n : /\ list[m].page_size = p
                              /\ FirstOffsetOf(list, p) = list[m].start_offset
        BY <1>3, FirstOfPageSize DEF FirstOffsetOf, n
    <2> DEFINE first == list[m].start_offset
    <2>2. first \in Nat /\ IS_ALIGNED(first, BASE_4KB) /\ h = ROUND_UP(base + first, p) - first
        BY <1>1, <1>2, <1>3, <2>1
    <2>3. p \in Nat \ {0} /\ IS_ALIGNED(p, BASE_4KB)
        BY PageFacts
    <2>4. /\ h \in Nat /\ IS_ALIGNED(h, BASE_4KB) /\ IS_ALIGNED(h + first, p)
          /\ base <= h /\ h + size <= base + ROUND_UP(size + p, p)
        <3> HIDE DEF first
        <3> QED BY <2>2, <2>3, AlignFirst
    <2>5. ASSUME NEW k \in 1 .. n
          PROVE  IS_ALIGNED(h + list[k].start_offset, list[k].page_size)
        <3> DEFINE q == list[k].page_size
                   a == list[k].start_offset
        <3>1. q \in Nat \ {0} /\ a \in Nat /\ IS_ALIGNED(p, q)
            <4>1. q \in {HUGE_2MB, HUGE_1GB} /\ q <= p /\ a \in Nat
                BY <1>1, <1>2, <1>3
            <4>2. IS_ALIGNED(HUGE_2MB, HUGE_2MB) /\ IS_ALIGNED(HUGE_1GB, HUGE_1GB)
                <5>1. HUGE_2MB = 1 * HUGE_2MB /\ HUGE_1GB = 1 * HUGE_1GB
                    BY PageFacts
                <5> QED BY <5>1, PageFacts, AlignedIff
            <4> HIDE DEF q, a
            <4> QED BY <4>1, <4>2, PageFacts
        <3>2. IS_ALIGNED(a - first, q)
            BY <1>2, <1>3, <2>1
        <3> HIDE DEF q, a, first
        <3>3. h + first \in Int /\ a - first \in Int
            BY <2>2, <2>4, <3>1
        <3>4. IS_ALIGNED(h + first, q)
            BY <2>3, <2>4, <3>1, <3>3, AlignedFiner
        <3>5. IS_ALIGNED((h + first) + (a - first), q)
            BY <3>1, <3>2, <3>3, <3>4, AlignedSum
        <3>6. (h + first) + (a - first) = h + a
            BY <2>2, <2>4, <3>1
        <3>7. IS_ALIGNED(h + a, q)
            BY <3>5, <3>6
        <3> QED BY <3>7 DEF q, a
    <2> QED BY <1>3, <2>4, <2>5 DEF StartsWell, n
<1>4. \A p : OfPageSize(list, p) # <<>> <=> \E k \in 1 .. n : list[k].page_size = p
    <2> SUFFICES ASSUME NEW p
                 PROVE  OfPageSize(list, p) # <<>> <=> \E k \in 1 .. n : list[k].page_size = p
        OBVIOUS
    <2> DEFINE l == OfPageSize(list, p)
    <2>1. l \in Seq(Interval) /\ \E f : Picks(list, p, n, l, f)
        BY OfPageSizePicks DEF n
    <2> HIDE DEF l
    <2>2. PICK f : Picks(list, p, n, l, f)
        BY <2>1
    <2>3. CASE l = <<>>
        <3>1. Len(l) = 0
            BY <2>3
        <3>2. ~ \E k \in 1 .. n : list[k].page_size = p
            BY <2>2, <3>1 DEF Picks
        <3> QED BY <2>3, <3>2 DEF l
    <2>4. CASE l # <<>>
        <3>1. 1 \in 1 .. Len(l)
            BY <2>1, <2>4
        <3>2. f[1] \in 1 .. n /\ list[f[1]].page_size = p
            BY <2>2, <3>1 DEF Picks
        <3> QED BY <2>4, <3>2 DEF l
    <2> QED BY <2>3, <2>4
<1>5. \A p : OfPageSize(Sort(list), p) # <<>> <=> \E k \in 1 .. n : list[k].page_size = p
    BY FirstOfPageSize DEF n
<1>6. CASE IntervalsOf1GB(list) # <<>>
    <2>1. \A k \in 1 .. n : list[k].page_size <= HUGE_1GB
        BY <1>2, PageFacts
    <2>2. OfPageSize(Sort(list), HUGE_1GB) # <<>>
        BY <1>4, <1>5, <1>6 DEF IntervalsOf1GB
    <2>3. RegionStart(list, base) = ROUND_UP(base + FirstOffsetOf(list, HUGE_1GB), HUGE_1GB)
                                        - FirstOffsetOf(list, HUGE_1GB)
        BY <1>6 DEF RegionStart
    <2>4. Reservation(list, size) = ROUND_UP(size + HUGE_1GB, HUGE_1GB)
        BY <1>6 DEF Reservation
    <2> QED BY <1>3, <2>1, <2>2, <2>3, <2>4
<1>7. CASE IntervalsOf1GB(list) = <<>> /\ IntervalsOf2MB(list) # <<>>
    <2>1. \A k \in 1 .. n : list[k].page_size <= HUGE_2MB
        <3>1. \A k \in 1 .. n : list[k].page_size = HUGE_2MB
            BY <1>2, <1>4, <1>7 DEF IntervalsOf1GB
        <3> QED BY <3>1, PageFacts
    <2>2. OfPageSize(Sort(list), HUGE_2MB) # <<>>
        BY <1>4, <1>5, <1>7 DEF IntervalsOf2MB
    <2>3. RegionStart(list, base) = ROUND_UP(base + FirstOffsetOf(list, HUGE_2MB), HUGE_2MB)
                                        - FirstOffsetOf(list, HUGE_2MB)
        BY <1>7 DEF RegionStart
    <2>4. Reservation(list, size) = ROUND_UP(size + HUGE_2MB, HUGE_2MB)
        BY <1>7 DEF Reservation
    <2> QED BY <1>3, <2>1, <2>2, <2>3, <2>4
<1>8. CASE IntervalsOf1GB(list) = <<>> /\ IntervalsOf2MB(list) = <<>>
    <2>1. 1 .. n = {}
        BY <1>2, <1>4, <1>8 DEF IntervalsOf1GB, IntervalsOf2MB
    <2>2. RegionStart(list, base) = base /\ Reservation(list, size) = size
        BY <1>8 DEF RegionStart, Reservation
    <2> QED BY <2>1, <2>2 DEF StartsWell, n
<1> QED BY <1>6, <1>7, <1>8

-------------------------------------------------------------------------------
(* The gaps.                                                               *)

\* Gaps goes over the sorted list once and adds the gap after the last interval.
LEMMA GapsRun ==
    ASSUME NEW s \in Seq(Interval), NEW size
    PROVE  \E run :
              /\ run[0] = GapsTo(<<>>, 0)
              /\ \A k \in 1 .. Len(s) : run[k] = GapBefore(run[k - 1], s[k])
              /\ Gaps(s, size) = IF run[Len(s)].prev < size
                                 THEN Append(run[Len(s)].gaps,
                                             MemoryInterval(run[Len(s)].prev, size, BASE_4KB))
                                 ELSE run[Len(s)].gaps
<1> DEFINE n == Len(s)
           X == [gaps : Seq(Interval), prev : Nat]
           Eq(it) == it = [t \in SUBSET DOMAIN s |->
                        IF t = {} THEN GapsTo(<<>>, 0)
                        ELSE LET x == Max(t) IN GapBefore(it[t \ {x}], s[x])]
           iter == CHOOSE it : Eq(it)
           F == [k \in 1 .. n |-> [r \in X |-> GapBefore(r, s[k])]]
<1>1. FoldLeft(GapBefore, GapsTo(<<>>, 0), s) = iter[DOMAIN s]
    BY DEF FoldLeft, MapThenFoldSet
<1>2. n \in Nat /\ DOMAIN s = 1 .. n /\ \A k \in 1 .. n : s[k] \in Interval
    OBVIOUS
<1>3. F \in [1 .. n -> [X -> X]] /\ GapsTo(<<>>, 0) \in X
    <2> HIDE DEF n
    <2>1. ASSUME NEW r \in X, NEW i \in Interval PROVE GapBefore(r, i) \in X
        <3>1. /\ r.gaps \in Seq(Interval) /\ r.prev \in Nat
              /\ i.start_offset \in Nat /\ i.end_offset \in Nat
            BY DEF Interval
        <3>2. MemoryInterval(r.prev, i.start_offset, BASE_4KB) \in Interval
            BY <3>1, PageFacts DEF Interval, MemoryInterval
        <3>3. Append(r.gaps, MemoryInterval(r.prev, i.start_offset, BASE_4KB)) \in Seq(Interval)
            BY <3>1, <3>2
        <3> QED BY <3>1, <3>3 DEF GapBefore, GapsTo
    <2>2. <<>> \in Seq(Interval)
        OBVIOUS
    <2>3. GapsTo(<<>>, 0) \in X
        BY <2>2 DEF GapsTo
    <2> HIDE DEF X
    <2>4. \A k \in 1 .. n : \A r \in X : GapBefore(r, s[k]) \in X
        BY <1>2, <2>1
    <2> QED BY <2>3, <2>4
<1> HIDE DEF X
<1>4. \E it : Eq(it)
    <2> HIDE DEF F, n
    <2>1. PICK it \in [SUBSET (1 .. n) -> X] :
              \A t \in SUBSET (1 .. n) :
                  it[t] = IF t = {} THEN GapsTo(<<>>, 0) ELSE F[Max(t)][it[t \ {Max(t)}]]
        <3>1. Folds(X, n, GapsTo(<<>>, 0), F)
            BY <1>2, <1>3, Folding
        <3> QED BY <3>1 DEF Folds
    <2>2. ASSUME NEW t \in SUBSET (1 .. n), t # {}
          PROVE  F[Max(t)][it[t \ {Max(t)}]] = GapBefore(it[t \ {Max(t)}], s[Max(t)])
        BY <1>2, <2>2, MaxOfNaturals DEF F
    <2>3. Eq(it)
        <3>1. it = [t \in SUBSET (1 .. n) |-> it[t]]
            OBVIOUS
        <3> QED BY <1>2, <2>1, <2>2, <3>1
    <2> HIDE DEF Eq
    <2> QED BY <2>3
<1>5. Eq(iter)
    <2> HIDE DEF Eq
    <2> QED BY <1>4
<1>6. \A t \in SUBSET (1 .. n) :
          iter[t] = IF t = {} THEN GapsTo(<<>>, 0)
                    ELSE GapBefore(iter[t \ {Max(t)}], s[Max(t)])
    <2> HIDE DEF iter
    <2> QED BY <1>2, <1>5
<1> HIDE DEF iter, n, F, Eq
<1> DEFINE run == [k \in 0 .. n |-> iter[1 .. k]]
<1>7. run[0] = GapsTo(<<>>, 0)
    <2>1. 1 .. 0 = {} /\ 0 \in 0 .. n /\ {} \in SUBSET (1 .. n)
        BY <1>2
    <2> QED BY <1>6, <2>1
<1>8. ASSUME NEW k \in 1 .. n PROVE run[k] = GapBefore(run[k - 1], s[k])
    <2>1. Max(1 .. k) = k /\ (1 .. k) \ {k} = 1 .. k - 1
        BY MaxOfRange
    <2>2. 1 .. k \in SUBSET (1 .. n) /\ 1 .. k # {} /\ k - 1 \in 0 .. n /\ k \in 0 .. n
        BY <1>2
    <2> QED BY <1>6, <2>1, <2>2
<1>9. run[n] = FoldLeft(GapBefore, GapsTo(<<>>, 0), s)
    <2>1. n \in 0 .. n
        BY <1>2
    <2> QED BY <1>1, <1>2, <2>1
<1>10. Gaps(s, size) = IF run[n].prev < size
                       THEN Append(run[n].gaps, MemoryInterval(run[n].prev, size, BASE_4KB))
                       ELSE run[n].gaps
    <2> HIDE DEF run
    <2> QED BY <1>9 DEF Gaps
<1> HIDE DEF run
<1> QED BY <1>7, <1>8, <1>10 DEF n

\* Intervals that do not overlap.
Apart(i, j) == i.end_offset <= j.start_offset \/ j.end_offset <= i.start_offset

\* An interval with aligned ends in a region of the given size.
Placed(i, size) ==
    /\ i.start_offset < i.end_offset /\ i.end_offset <= size
    /\ IS_ALIGNED(i.start_offset, BASE_4KB) /\ IS_ALIGNED(i.end_offset, BASE_4KB)

\* The gaps and the intervals in s do not overlap and leave nothing out below to.
Filled(s, gaps, to) ==
    /\ gaps \in Seq(Interval)
    /\ \A a \in 1 .. Len(gaps) : Placed(gaps[a], to) /\ gaps[a].page_size = BASE_4KB
    /\ \A a \in 1 .. Len(gaps), k \in 1 .. Len(s) : Apart(gaps[a], s[k])
    /\ \A a, b \in 1 .. Len(gaps) : a # b => Apart(gaps[a], gaps[b])
    /\ \A o \in 0 .. to - 1 : \/ \E k \in 1 .. Len(s) : Within(s[k], o)
                              \/ \E a \in 1 .. Len(gaps) : Within(gaps[a], o)

\* If no interval of s reaches into e .. to, the gap from e to to extends what is filled.
LEMMA GapAdded ==
    ASSUME NEW s \in Seq(Interval), NEW gaps, NEW e \in Nat, NEW to \in Nat, e <= to,
           IS_ALIGNED(e, BASE_4KB), IS_ALIGNED(to, BASE_4KB), Filled(s, gaps, e),
           \A k \in 1 .. Len(s) : s[k].end_offset <= e \/ to <= s[k].start_offset
    PROVE  Filled(s, IF e < to THEN Append(gaps, MemoryInterval(e, to, BASE_4KB)) ELSE gaps, to)
<1>1. CASE ~(e < to)
    <2>1. e = to
        BY <1>1
    <2> QED BY <1>1, <2>1
<1>2. CASE e < to
    <2> DEFINE i == MemoryInterval(e, to, BASE_4KB)
               g == Append(gaps, i)
               n == Len(gaps)
    <2>1. i \in Interval /\ i.start_offset = e /\ i.end_offset = to /\ i.page_size = BASE_4KB
        BY PageFacts DEF MemoryInterval, Interval
    <2> HIDE DEF i
    <2>2. gaps \in Seq(Interval)
        BY DEF Filled
    <2>3. /\ g \in Seq(Interval) /\ Len(g) = n + 1 /\ n \in Nat /\ g[n + 1] = i
          /\ \A a \in 1 .. n : g[a] = gaps[a]
        BY <2>1, <2>2
    <2>4. \A a \in 1 .. Len(g) : a \in 1 .. n \/ a = n + 1
        BY <2>3
    <2>5. \A a \in 1 .. n : /\ Placed(gaps[a], e) /\ gaps[a].page_size = BASE_4KB
                            /\ gaps[a].end_offset \in Nat /\ gaps[a].start_offset \in Nat
        <3>1. \A a \in 1 .. n : gaps[a] \in Interval
            BY <2>2
        <3> QED BY <3>1 DEF Filled, Interval
    <2> HIDE DEF g, n
    <2>6. \A a \in 1 .. Len(g) : Placed(g[a], to) /\ g[a].page_size = BASE_4KB
        BY <1>2, <2>1, <2>3, <2>4, <2>5, SMTT(30) DEF Placed
    <2>7. \A k \in 1 .. Len(s) : Apart(i, s[k])
        BY <2>1 DEF Apart
    <2>8. \A a \in 1 .. Len(g), k \in 1 .. Len(s) : Apart(g[a], s[k])
        BY <2>3, <2>4, <2>7 DEF Filled, n
    <2>9. \A a \in 1 .. n : Apart(gaps[a], i) /\ Apart(i, gaps[a])
        BY <2>1, <2>5 DEF Apart, Placed
    <2>10. ASSUME NEW a \in 1 .. Len(g), NEW b \in 1 .. Len(g), a # b
           PROVE  Apart(g[a], g[b])
        <3>1. CASE a \in 1 .. n /\ b \in 1 .. n
            BY <2>3, <2>10, <3>1 DEF Filled, n
        <3>2. CASE (a = n + 1 /\ b \in 1 .. n) \/ (b = n + 1 /\ a \in 1 .. n)
            BY <2>3, <2>9, <3>2
        <3> QED BY <2>4, <2>10, <3>1, <3>2
    <2>11. ASSUME NEW o \in 0 .. to - 1
           PROVE  \/ \E k \in 1 .. Len(s) : Within(s[k], o)
                  \/ \E a \in 1 .. Len(g) : Within(g[a], o)
        <3>1. CASE o < e
            <4>1. o \in 0 .. e - 1
                BY <3>1
            <4>2. \/ \E k \in 1 .. Len(s) : Within(s[k], o)
                  \/ \E a \in 1 .. n : Within(gaps[a], o)
                BY <4>1 DEF Filled, n
            <4>3. \A a \in 1 .. n : a \in 1 .. Len(g)
                BY <2>3
            <4> QED BY <2>3, <4>2, <4>3
        <3>2. CASE e <= o
            <4>1. Within(i, o)
                BY <2>1, <3>2 DEF Within
            <4>2. n + 1 \in 1 .. Len(g)
                BY <2>3
            <4> QED BY <2>3, <4>1, <4>2
        <3> QED BY <3>1, <3>2
    <2>12. Filled(s, g, to)
        BY <2>3, <2>6, <2>8, <2>10, <2>11 DEF Filled
    <2> QED BY <1>2, <2>12 DEF g, i
<1> QED BY <1>1, <1>2

\* The gaps that Initialize adds leave no offset of the region out.
LEMMA GapsFill ==
    ASSUME NEW s \in Seq(Interval), NEW size \in Nat, IS_ALIGNED(size, BASE_4KB),
           \A k \in 1 .. Len(s) : Placed(s[k], size),
           \A k, m \in 1 .. Len(s) : k < m => s[k].end_offset <= s[m].start_offset
    PROVE  Filled(s, Gaps(s, size), size)
<1> DEFINE n == Len(s)
<1>1. /\ n \in Nat
      /\ \A k \in 1 .. n : s[k].start_offset \in Nat /\ s[k].end_offset \in Nat
    <2>1. n \in Nat /\ \A k \in 1 .. n : s[k] \in Interval
        OBVIOUS
    <2> QED BY <2>1 DEF Interval
<1>2. PICK run :
          /\ run[0] = GapsTo(<<>>, 0)
          /\ \A k \in 1 .. n : run[k] = GapBefore(run[k - 1], s[k])
          /\ Gaps(s, size) = IF run[n].prev < size
                             THEN Append(run[n].gaps,
                                         MemoryInterval(run[n].prev, size, BASE_4KB))
                             ELSE run[n].gaps
    BY GapsRun
<1> DEFINE e(k) == IF k = 0 THEN 0 ELSE s[k].end_offset
           G == {k \in 0 .. n : run[k].prev = e(k) /\ Filled(s, run[k].gaps, e(k))}
<1>3. IS_ALIGNED(0, BASE_4KB)
    BY PageFacts DEF IS_ALIGNED
<1>4. \A k \in 0 .. n : /\ e(k) \in Nat /\ IS_ALIGNED(e(k), BASE_4KB) /\ e(k) <= size
                        /\ \A m \in 1 .. n : /\ m <= k => s[m].end_offset <= e(k)
                                             /\ m > k => e(k) <= s[m].start_offset
    <2> HIDE DEF n
    <2> SUFFICES ASSUME NEW k \in 0 .. n
                 PROVE  /\ e(k) \in Nat /\ IS_ALIGNED(e(k), BASE_4KB) /\ e(k) <= size
                        /\ \A m \in 1 .. n : /\ m <= k => s[m].end_offset <= e(k)
                                             /\ m > k => e(k) <= s[m].start_offset
        OBVIOUS
    <2>1. CASE k = 0
        BY <1>1, <1>3, <2>1
    <2>2. CASE k # 0
        <3>1. k \in 1 .. n /\ e(k) = s[k].end_offset
            BY <1>1, <2>2
        <3>2. Placed(s[k], size) /\ \A m \in 1 .. n : Placed(s[m], size)
            BY <3>1 DEF n
        <3>3. ASSUME NEW m \in 1 .. n, m <= k PROVE s[m].end_offset <= e(k)
            <4>1. CASE m = k
                BY <1>1, <3>1, <4>1
            <4>2. CASE m < k
                BY <1>1, <3>1, <3>2, <4>2 DEF n, Placed
            <4> QED BY <3>3, <4>1, <4>2
        <3>4. \A m \in 1 .. n : m > k => e(k) <= s[m].start_offset
            BY <3>1 DEF n
        <3> HIDE DEF e
        <3> QED BY <1>1, <3>1, <3>2, <3>3, <3>4 DEF Placed
    <2> QED BY <2>1, <2>2
<1> HIDE DEF n
<1>5. 0 \in G
    <2>1. Filled(s, <<>>, 0)
        <3>1. <<>> \in Seq(Interval) /\ Len(<<>>) = 0
            OBVIOUS
        <3> QED BY <3>1 DEF Filled
    <2> QED BY <1>1, <1>2, <2>1 DEF GapsTo
<1>6. ASSUME NEW k \in 1 .. n, k - 1 \in G PROVE k \in G
    <2>1. k \in 0 .. n /\ k - 1 \in 0 .. n /\ k > k - 1
        BY <1>1
    <2> DEFINE f == e(k - 1)
               to == s[k].start_offset
               gaps == run[k - 1].gaps
               added == IF f < to THEN Append(gaps, MemoryInterval(f, to, BASE_4KB)) ELSE gaps
    <2>2. /\ f \in Nat /\ to \in Nat /\ f <= to
          /\ IS_ALIGNED(f, BASE_4KB) /\ IS_ALIGNED(to, BASE_4KB)
        BY <1>1, <1>4, <2>1 DEF Placed, n
    <2>3. ASSUME NEW m \in 1 .. n PROVE s[m].end_offset <= f \/ to <= s[m].start_offset
        <3>1. CASE m < k
            <4>1. m <= k - 1
                BY <3>1
            <4> QED BY <1>4, <2>1, <4>1
        <3>2. CASE m = k
            BY <1>1, <3>2
        <3>3. CASE k < m
            <4>1. s[k].end_offset <= s[m].start_offset
                BY <3>3 DEF n
            <4>2. s[k].start_offset < s[k].end_offset
                BY DEF Placed, n
            <4> QED BY <1>1, <4>1, <4>2
        <3> QED BY <3>1, <3>2, <3>3
    <2>4. Filled(s, gaps, f) /\ run[k - 1].prev = f
        BY <1>6
    <2> HIDE DEF f, to, gaps
    <2>5. Filled(s, added, to)
        BY <2>2, <2>3, <2>4, GapAdded DEF n
    <2>6. run[k] = GapsTo(added, s[k].end_offset)
        BY <1>2, <2>4 DEF GapBefore, gaps, to
    <2> HIDE DEF added
    <2>7. run[k].gaps = added /\ run[k].prev = s[k].end_offset
        BY <2>6 DEF GapsTo
    <2>8. Filled(s, added, s[k].end_offset)
        <3> DEFINE z == s[k].end_offset
        <3>1. z \in Nat /\ to < z /\ Within(s[k], to)
            BY <1>1, <2>2 DEF Placed, n, to, Within
        <3>2. added \in Seq(Interval)
            BY <2>5 DEF Filled
        <3>3. \A a \in 1 .. Len(added) : added[a].end_offset \in Nat
            <4>1. \A a \in 1 .. Len(added) : added[a] \in Interval
                BY <3>2
            <4> QED BY <4>1 DEF Interval
        <3>4. \A o \in 0 .. z - 1 : o \in 0 .. to - 1 \/ Within(s[k], o)
            BY <2>2, <3>1 DEF Within, to
        <3> HIDE DEF z
        <3>5. \A a \in 1 .. Len(added) : Placed(added[a], z)
            BY <2>2, <2>5, <3>1, <3>3 DEF Filled, Placed
        <3>6. \A o \in 0 .. z - 1 : \/ \E m \in 1 .. Len(s) : Within(s[m], o)
                                    \/ \E a \in 1 .. Len(added) : Within(added[a], o)
            BY <2>5, <3>4 DEF Filled, n
        <3> QED BY <2>5, <3>5, <3>6 DEF Filled, z
    <2>9. e(k) = s[k].end_offset
        BY <1>1
    <2> QED BY <2>1, <2>7, <2>8, <2>9
<1>7. n \in 0 .. n
    BY <1>1
<1>8. n \in G
    <2> HIDE DEF G
    <2> QED BY <1>1, <1>5, <1>6, <1>7, UpTo
<1> DEFINE f == e(n)
<1>9. /\ f \in Nat /\ IS_ALIGNED(f, BASE_4KB) /\ f <= size
      /\ \A m \in 1 .. n : s[m].end_offset <= f
    BY <1>4, <1>7
<1>10. run[n].prev = f /\ Filled(s, run[n].gaps, f)
    BY <1>8
<1> HIDE DEF f
<1>11. Filled(s, IF f < size THEN Append(run[n].gaps, MemoryInterval(f, size, BASE_4KB))
                 ELSE run[n].gaps, size)
    BY <1>9, <1>10, GapAdded DEF n
<1> QED BY <1>2, <1>10, <1>11

\* The intervals lie one after the other and fill the region.
Tiling(w, size) ==
    /\ w \in Seq(Interval)
    /\ \A k \in 1 .. Len(w) :
          /\ Placed(w[k], size)
          /\ w[k].start_offset = IF k = 1 THEN 0 ELSE w[k - 1].end_offset
    /\ IF Len(w) = 0 THEN size = 0 ELSE w[Len(w)].end_offset = size

\* Sorted intervals that do not overlap and leave nothing out are a tiling.
LEMMA SortedTiling ==
    ASSUME NEW u \in Seq(Interval), NEW size \in Nat,
           \A k \in 1 .. Len(u) : Placed(u[k], size),
           \A k, m \in 1 .. Len(u) : k # m => Apart(u[k], u[m]),
           \A o \in 0 .. size - 1 : \E k \in 1 .. Len(u) : Within(u[k], o)
    PROVE  Tiling(Sort(u), size)
<1> DEFINE n == Len(u)
           w == Sort(u)
<1>1. /\ n \in Nat /\ w \in Seq(Interval) /\ Len(w) = n
      /\ \A a, b \in 1 .. n : a < b => w[a].start_offset <= w[b].start_offset
    BY SortedElements
<1>2. PICK f : Permutation(n, f) /\ \A k \in 1 .. n : w[k] = u[f[k]]
    BY SortedElements
<1> HIDE DEF w
<1>3. \A k \in 1 .. n : w[k].start_offset \in Nat /\ w[k].end_offset \in Nat
    <2>1. \A k \in 1 .. n : w[k] \in Interval
        BY <1>1
    <2> QED BY <2>1 DEF Interval
<1>4. \A k \in 1 .. n : f[k] \in 1 .. n /\ \E a \in 1 .. n : f[a] = k
    BY <1>2 DEF Permutation
<1>5. \A k \in 1 .. n : Placed(w[k], size)
    BY <1>2, <1>4
<1>6. ASSUME NEW a \in 1 .. n, NEW b \in 1 .. n, a < b
      PROVE  w[a].end_offset <= w[b].start_offset
    <2>1. f[a] # f[b]
        <3>1. \A x, y \in 1 .. n : x # y => f[x] # f[y]
            BY <1>2 DEF Permutation
        <3>2. a # b
            BY <1>1, <1>6
        <3> QED BY <3>1, <3>2
    <2>2. Apart(w[a], w[b])
        BY <1>2, <1>4, <2>1
    <2>3. w[a].start_offset <= w[b].start_offset
        BY <1>1, <1>6
    <2> QED BY <1>3, <1>5, <2>2, <2>3, SMTT(30) DEF Apart, Placed
<1>7. ASSUME NEW o \in 0 .. size - 1 PROVE \E a \in 1 .. n : Within(w[a], o)
    <2>1. PICK k \in 1 .. n : Within(u[k], o)
        OBVIOUS
    <2>2. PICK a \in 1 .. n : f[a] = k
        BY <1>4
    <2> QED BY <1>2, <2>1, <2>2
<1> HIDE DEF n
<1>8. ASSUME NEW k \in 1 .. n
      PROVE  w[k].start_offset = IF k = 1 THEN 0 ELSE w[k - 1].end_offset
    <2> DEFINE o == IF k = 1 THEN 0 ELSE w[k - 1].end_offset
    <2>1. k # 1 => k - 1 \in 1 .. n /\ k - 1 < k
        BY <1>1
    <2>2. o \in Nat /\ o <= w[k].start_offset
        BY <1>3, <1>6, <2>1
    <2>3. ASSUME o < w[k].start_offset PROVE FALSE
        <3>1. o \in 0 .. size - 1
            BY <1>3, <1>5, <2>2, <2>3 DEF Placed
        <3>2. PICK a \in 1 .. n : Within(w[a], o)
            BY <1>7, <3>1
        <3>3. a < k
            <4>1. w[a].start_offset <= o
                BY <3>2 DEF Within
            <4>2. ~(k <= a)
                <5>1. ASSUME k < a PROVE FALSE
                    <6>1. w[k].end_offset <= w[a].start_offset
                        BY <1>6, <5>1
                    <6> HIDE DEF o
                    <6> QED BY <1>3, <1>5, <2>2, <2>3, <4>1, <6>1 DEF Placed
                <5>2. a # k
                    <6> HIDE DEF o
                    <6> QED BY <1>3, <2>2, <2>3, <4>1
                <5> QED BY <1>1, <5>1, <5>2
            <4> QED BY <1>1, <4>2
        <3>4. k # 1 /\ o = w[k - 1].end_offset
            BY <1>1, <3>3
        <3>5. o < w[a].end_offset
            BY <3>2 DEF Within
        <3>6. w[a].end_offset <= w[k - 1].end_offset
            <4>1. CASE a = k - 1
                BY <1>3, <4>1
            <4>2. CASE a < k - 1
                <5>1. w[a].end_offset <= w[k - 1].start_offset
                    BY <1>6, <2>1, <3>4, <4>2
                <5> QED BY <1>3, <1>5, <2>1, <3>4, <5>1 DEF Placed
            <4> QED BY <1>1, <3>3, <4>1, <4>2
        <3> QED BY <1>3, <2>1, <3>4, <3>5, <3>6
    <2> HIDE DEF o
    <2>4. o = w[k].start_offset
        BY <1>3, <2>2, <2>3
    <2> QED BY <2>4 DEF o
<1>9. IF n = 0 THEN size = 0 ELSE w[n].end_offset = size
    <2>1. CASE size = 0
        <3>1. ASSUME n # 0 PROVE FALSE
            <4>1. n \in 1 .. n
                BY <1>1, <3>1
            <4> QED BY <1>3, <1>5, <2>1, <4>1 DEF Placed
        <3> QED BY <2>1, <3>1
    <2>2. CASE size # 0
        <3>1. size - 1 \in 0 .. size - 1
            BY <2>2
        <3>2. PICK a \in 1 .. n : Within(w[a], size - 1)
            BY <1>7, <3>1
        <3>3. n \in 1 .. n
            BY <1>1
        <3>4. size <= w[a].end_offset
            BY <1>3, <3>2 DEF Within
        <3>5. w[a].end_offset <= w[n].end_offset
            <4>1. CASE a = n
                BY <1>3, <4>1
            <4>2. CASE a < n
                <5>1. w[a].end_offset <= w[n].start_offset
                    BY <1>6, <3>3, <4>2
                <5> QED BY <1>3, <1>5, <3>3, <5>1 DEF Placed
            <4> QED BY <1>1, <4>1, <4>2
        <3> QED BY <1>1, <1>3, <1>5, <3>3, <3>4, <3>5, SMTT(30) DEF Placed
    <2> QED BY <2>1, <2>2
<1>10. Tiling(w, size)
    BY <1>1, <1>5, <1>8, <1>9 DEF Tiling
<1> QED BY <1>10 DEF w

\* Each interval of a region is a configured one, or has 4KB pages and does not
\* overlap any of these.
FromList(w, list) ==
    \A k \in 1 .. Len(w) :
        \/ \E m \in 1 .. Len(list) : w[k] = list[m]
        \/ w[k].page_size = BASE_4KB /\ \A m \in 1 .. Len(list) : Apart(w[k], list[m])

\* The intervals that Initialize sets, configured ones and gaps, tile the region.
LEMMA WithGapsTiles ==
    ASSUME NEW list \in Seq(Interval), NEW size \in Nat, IS_ALIGNED(size, BASE_4KB),
           Accepted(list, size),
           \A k, m \in 1 .. Len(list) : k # m => Apart(list[k], list[m])
    PROVE  Tiling(WithGaps(list, size), size) /\ FromList(WithGaps(list, size), list)
<1> DEFINE n == Len(list)
           s == Sort(list)
           g == Gaps(s, size)
           u == s \o g
<1>1. /\ n \in Nat /\ s \in Seq(Interval) /\ Len(s) = n
      /\ \A a, b \in 1 .. n : a < b => s[a].start_offset <= s[b].start_offset
    BY SortedElements
<1>2. PICK f : Permutation(n, f) /\ \A k \in 1 .. n : s[k] = list[f[k]]
    BY SortedElements
<1>3. \A k \in 1 .. n : f[k] \in 1 .. n /\ \E a \in 1 .. n : f[a] = k
    BY <1>2 DEF Permutation
<1> HIDE DEF s
<1>4. /\ \A k \in 1 .. n : list[k].start_offset \in Nat /\ list[k].end_offset \in Nat
      /\ \A k \in 1 .. n : s[k].start_offset \in Nat /\ s[k].end_offset \in Nat
    <2>1. \A k \in 1 .. n : list[k] \in Interval /\ s[k] \in Interval
        BY <1>1
    <2> QED BY <2>1 DEF Interval
<1>5. ASSUME NEW k \in 1 .. n PROVE Placed(list[k], size)
    <2> DEFINE a == list[k].start_offset
               b == list[k].end_offset
               p == list[k].page_size
    <2>1. /\ p \in {HUGE_2MB, HUGE_1GB} /\ IS_ALIGNED(a, BASE_4KB)
          /\ a < b /\ b <= size /\ IS_ALIGNED(b - a, p)
        BY AcceptedIsSound DEF Sound
    <2>2. a \in Nat /\ b \in Nat
        BY <1>4
    <2> HIDE DEF a, b, p
    <2>3. p \in Nat \ {0} /\ IS_ALIGNED(p, BASE_4KB) /\ b - a \in Int
        BY <2>1, <2>2, PageFacts
    <2>4. IS_ALIGNED(b - a, BASE_4KB)
        BY <2>1, <2>3, PageFacts, AlignedFiner
    <2>5. IS_ALIGNED(a + (b - a), BASE_4KB) /\ a + (b - a) = b
        BY <2>1, <2>2, <2>3, <2>4, PageFacts, AlignedSum
    <2>6. IS_ALIGNED(b, BASE_4KB)
        BY <2>5
    <2> QED BY <2>1, <2>6 DEF Placed, a, b
<1>6. \A k \in 1 .. n : Placed(s[k], size)
    BY <1>2, <1>3, <1>5
<1>7. ASSUME NEW a \in 1 .. n, NEW b \in 1 .. n, a # b PROVE Apart(s[a], s[b])
    <2>1. f[a] # f[b] /\ f[a] \in 1 .. n /\ f[b] \in 1 .. n
        BY <1>2, <1>3, <1>7 DEF Permutation
    <2>2. Apart(list[f[a]], list[f[b]])
        BY <2>1
    <2> QED BY <1>2, <2>2
<1>8. ASSUME NEW a \in 1 .. n, NEW b \in 1 .. n, a < b
      PROVE  s[a].end_offset <= s[b].start_offset
    <2>1. Apart(s[a], s[b]) /\ s[a].start_offset <= s[b].start_offset
        BY <1>1, <1>7, <1>8
    <2> QED BY <1>4, <1>6, <2>1 DEF Apart, Placed
<1>9. Filled(s, g, size)
    BY <1>1, <1>6, <1>8, GapsFill
<1> HIDE DEF g
<1> DEFINE m == Len(g)
<1>10. m \in Nat /\ g \in Seq(Interval)
    BY <1>9 DEF Filled
<1>11. /\ u \in Seq(Interval) /\ Len(u) = n + m
       /\ \A k \in 1 .. n : u[k] = s[k]
       /\ \A k \in 1 .. m : u[n + k] = g[k]
    BY <1>1, <1>10
<1> HIDE DEF u, n, m
<1>12. \A k \in 1 .. n + m : \/ k \in 1 .. n /\ u[k] = s[k]
                             \/ k - n \in 1 .. m /\ k = n + (k - n) /\ u[k] = g[k - n]
    <2> SUFFICES ASSUME NEW k \in 1 .. n + m, k \notin 1 .. n
                 PROVE  k - n \in 1 .. m /\ k = n + (k - n) /\ u[k] = g[k - n]
        BY <1>11
    <2>1. k - n \in 1 .. m /\ k = n + (k - n)
        BY <1>1, <1>10
    <2>2. u[n + (k - n)] = g[k - n]
        BY <1>11, <2>1
    <2> QED BY <2>1, <2>2
<1>13. \A k \in 1 .. Len(u) : Placed(u[k], size)
    BY <1>6, <1>9, <1>11, <1>12 DEF Filled, m
<1>14. ASSUME NEW k \in 1 .. Len(u), NEW j \in 1 .. Len(u), k # j PROVE Apart(u[k], u[j])
    <2>0. \A a \in 1 .. m, b \in 1 .. n : Apart(g[a], s[b]) /\ Apart(s[b], g[a])
        BY <1>1, <1>9 DEF Filled, m, Apart
    <2>1. CASE k \in 1 .. n /\ j \in 1 .. n
        BY <1>7, <1>11, <1>14, <2>1
    <2>2. CASE k \in 1 .. n /\ j - n \in 1 .. m /\ u[j] = g[j - n]
        BY <1>11, <2>0, <2>2
    <2>3. CASE j \in 1 .. n /\ k - n \in 1 .. m /\ u[k] = g[k - n]
        BY <1>11, <2>0, <2>3
    <2>4. CASE k - n \in 1 .. m /\ u[k] = g[k - n] /\ j - n \in 1 .. m /\ u[j] = g[j - n]
        <3>1. k - n # j - n
            BY <1>1, <1>14
        <3> QED BY <1>9, <2>4, <3>1 DEF Filled, m
    <2> QED BY <1>11, <1>12, <2>1, <2>2, <2>3, <2>4
<1>15. ASSUME NEW o \in 0 .. size - 1 PROVE \E k \in 1 .. Len(u) : Within(u[k], o)
    <2>1. (\E k \in 1 .. n : Within(s[k], o)) \/ \E a \in 1 .. m : Within(g[a], o)
        BY <1>1, <1>9 DEF Filled, m
    <2>2. /\ \A k \in 1 .. n : k \in 1 .. Len(u)
          /\ \A a \in 1 .. m : n + a \in 1 .. Len(u)
        BY <1>1, <1>10, <1>11
    <2> QED BY <1>11, <2>1, <2>2
<1>16. Tiling(Sort(u), size)
    BY <1>11, <1>13, <1>14, <1>15, SortedTiling
<1>17. WithGaps(list, size) = Sort(u)
    BY DEF WithGaps, u, g, s
<1>18. ASSUME NEW k \in 1 .. Len(u)
       PROVE  \/ \E j \in 1 .. n : u[k] = list[j]
              \/ u[k].page_size = BASE_4KB /\ \A j \in 1 .. n : Apart(u[k], list[j])
    <2>1. CASE k \in 1 .. n
        <3>1. u[k] = list[f[k]] /\ f[k] \in 1 .. n
            BY <1>2, <1>3, <1>11, <2>1
        <3> QED BY <3>1
    <2>2. CASE k - n \in 1 .. m /\ u[k] = g[k - n]
        <3>1. u[k].page_size = BASE_4KB /\ \A a \in 1 .. n : Apart(u[k], s[a])
            BY <1>1, <1>9, <2>2 DEF Filled, m
        <3>2. ASSUME NEW j \in 1 .. n PROVE Apart(u[k], list[j])
            <4>1. PICK a \in 1 .. n : f[a] = j
                BY <1>3
            <4> QED BY <1>2, <3>1, <4>1
        <3> QED BY <3>1, <3>2
    <2> QED BY <1>11, <1>12, <2>1, <2>2
<1>19. FromList(Sort(u), list)
    <2> DEFINE w == Sort(u)
    <2>1. Len(w) = Len(u) /\ \E h : /\ Permutation(Len(u), h)
                                    /\ \A k \in 1 .. Len(u) : w[k] = u[h[k]]
        BY <1>11, SortedElements
    <2>2. \A k \in 1 .. Len(u) : \E a \in 1 .. Len(u) : w[k] = u[a]
        <3>1. PICK h : Permutation(Len(u), h) /\ \A k \in 1 .. Len(u) : w[k] = u[h[k]]
            BY <2>1
        <3>2. \A k \in 1 .. Len(u) : h[k] \in 1 .. Len(u)
            BY <3>1 DEF Permutation
        <3> QED BY <3>1, <3>2
    <2> HIDE DEF w
    <2>3. FromList(w, list)
        <3> SUFFICES ASSUME NEW k \in 1 .. Len(w)
                     PROVE  \/ \E j \in 1 .. n : w[k] = list[j]
                            \/ w[k].page_size = BASE_4KB /\ \A j \in 1 .. n : Apart(w[k], list[j])
            BY DEF FromList, n
        <3>1. PICK a \in 1 .. Len(u) : w[k] = u[a]
            BY <2>1, <2>2
        <3> QED BY <1>18, <3>1
    <2> QED BY <2>3 DEF w
<1> QED BY <1>16, <1>17, <1>19

-------------------------------------------------------------------------------
(* A region whose intervals can be mapped with their pages.                *)

\* What Initialize makes of an accepted configuration: a tiling, each interval of which
\* is aligned in memory and holds a number of its pages.
Layout(h) ==
    /\ h.start \in Nat /\ h.max_size \in 0 .. Limit /\ Tiling(h.intervals, h.max_size)
    /\ \A k \in 1 .. Len(h.intervals) :
          LET i == h.intervals[k]
          IN /\ i.page_size \in PageSizes
             /\ IS_ALIGNED(h.start + i.start_offset, i.page_size)
             /\ IS_ALIGNED(i.end_offset - i.start_offset, i.page_size)

\* The region that Initialize sets up has a layout.
LEMMA LaidOut ==
    ASSUME NEW h, NEW list \in Seq(Interval), NEW base \in Nat, IS_ALIGNED(base, BASE_4KB),
           h.max_size \in 0 .. Limit, IS_ALIGNED(h.max_size, BASE_4KB),
           Accepted(list, h.max_size),
           \A k, m \in 1 .. Len(list) : k # m => Apart(list[k], list[m]),
           h.start = RegionStart(list, base), h.intervals = WithGaps(list, h.max_size)
    PROVE  Layout(h)
<1> DEFINE w == h.intervals
           size == h.max_size
           z == h.start
<1>1. size \in Nat
    BY LimitAssumption
<1>2. Tiling(w, size) /\ FromList(w, list)
    BY <1>1, WithGapsTiles
<1>3. StartsWell(list, size, base, z) /\ Sound(list, size)
    BY <1>1, RegionStartsWell, AcceptedIsSound
<1>4. z \in Nat /\ IS_ALIGNED(z, BASE_4KB)
    BY <1>3 DEF StartsWell
<1>5. ASSUME NEW k \in 1 .. Len(w)
      PROVE  /\ w[k].page_size \in PageSizes
             /\ IS_ALIGNED(z + w[k].start_offset, w[k].page_size)
             /\ IS_ALIGNED(w[k].end_offset - w[k].start_offset, w[k].page_size)
    <2>1. CASE \E m \in 1 .. Len(list) : w[k] = list[m]
        BY <1>3, <2>1 DEF StartsWell, Sound, PageSizes
    <2>2. CASE w[k].page_size = BASE_4KB
        <3>1. Placed(w[k], size) /\ w[k] \in Interval
            BY <1>2 DEF Tiling
        <3>2. /\ w[k].start_offset \in Int /\ w[k].end_offset \in Int
              /\ IS_ALIGNED(w[k].start_offset, BASE_4KB) /\ IS_ALIGNED(w[k].end_offset, BASE_4KB)
            BY <3>1 DEF Placed, Interval
        <3>3. /\ IS_ALIGNED(z + w[k].start_offset, BASE_4KB)
              /\ IS_ALIGNED(w[k].end_offset - w[k].start_offset, BASE_4KB)
            <4> DEFINE a == w[k].start_offset
                       b == w[k].end_offset
            <4>1. a \in Int /\ b \in Int /\ IS_ALIGNED(a, BASE_4KB) /\ IS_ALIGNED(b, BASE_4KB)
                BY <3>2
            <4> HIDE DEF a, b, z
            <4>2. z \in Int /\ BASE_4KB \in Nat \ {0}
                BY <1>4, PageFacts
            <4>3. IS_ALIGNED(z + a, BASE_4KB) /\ IS_ALIGNED(b - a, BASE_4KB)
                BY <1>4, <4>1, <4>2, AlignedSum
            <4> QED BY <4>3 DEF a, b
        <3> QED BY <2>2, <3>3 DEF PageSizes
    <2> QED BY <1>2, <2>1, <2>2 DEF FromList
<1> QED BY <1>2, <1>4, <1>5 DEF Layout

\* The facts about the k-th interval that the provers need at hand.
LEMMA LayoutFacts ==
    ASSUME NEW h, Layout(h), NEW k \in 1 .. Len(h.intervals)
    PROVE  LET i == h.intervals[k]
           IN /\ i \in Interval /\ i.start_offset \in Nat /\ i.end_offset \in Nat
              /\ i.page_size \in Nat \ {0} /\ i.page_size \in PageSizes
              /\ IS_ALIGNED(i.page_size, BASE_4KB)
              /\ i.start_offset < i.end_offset /\ i.end_offset <= h.max_size
              /\ i.start_offset = IF k = 1 THEN 0 ELSE h.intervals[k - 1].end_offset
              /\ IS_ALIGNED(h.start + i.start_offset, i.page_size)
              /\ IS_ALIGNED(i.end_offset - i.start_offset, i.page_size)
<1> DEFINE i == h.intervals[k]
<1>1. /\ i \in Interval /\ Placed(i, h.max_size) /\ i.page_size \in PageSizes
      /\ i.start_offset = IF k = 1 THEN 0 ELSE h.intervals[k - 1].end_offset
      /\ IS_ALIGNED(h.start + i.start_offset, i.page_size)
      /\ IS_ALIGNED(i.end_offset - i.start_offset, i.page_size)
    BY DEF Layout, Tiling
<1> HIDE DEF i
<1>2. i.start_offset \in Nat /\ i.end_offset \in Nat
    BY <1>1 DEF Interval
<1>3. IS_ALIGNED(BASE_4KB, BASE_4KB)
    BY PageFacts DEF IS_ALIGNED
<1>4. i.page_size \in Nat \ {0} /\ IS_ALIGNED(i.page_size, BASE_4KB)
    BY <1>1, <1>3, PageFacts DEF PageSizes
<1> QED BY <1>1, <1>2, <1>4 DEF Placed, i

\* The intervals of a region are in the order of their positions.
LEMMA InOrder ==
    ASSUME NEW h, Layout(h),
           NEW k \in 1 .. Len(h.intervals), NEW m \in 1 .. Len(h.intervals), k < m
    PROVE  h.intervals[k].end_offset <= h.intervals[m].start_offset
<1> DEFINE w == h.intervals
           n == Len(w)
           G == {j \in 0 .. n : k < j => w[k].end_offset <= w[j].start_offset}
<1>1. n \in Nat
    BY DEF Layout, Tiling
<1>2. \A j \in 1 .. n : /\ w[j].start_offset \in Nat /\ w[j].end_offset \in Nat
                        /\ w[j].start_offset < w[j].end_offset
                        /\ j # 1 => w[j].start_offset = w[j - 1].end_offset
    BY LayoutFacts
<1> HIDE DEF n, w
<1>3. 0 \in G
    BY <1>1 DEF n, w
<1>4. k \in 1 .. n /\ m \in 0 .. n
    BY <1>1 DEF n, w
<1>5. ASSUME NEW j \in 1 .. n, j - 1 \in G PROVE j \in G
    <2>1. j \in 0 .. n
        BY <1>1
    <2>2. ASSUME k < j PROVE w[k].end_offset <= w[j].start_offset
        <3>1. j - 1 \in 1 .. n /\ j # 1 /\ (k = j - 1 \/ k < j - 1)
            BY <1>1, <1>4, <2>2
        <3>2. w[k].end_offset <= w[j - 1].end_offset
            BY <1>2, <1>4, <1>5, <3>1
        <3> QED BY <1>2, <3>1, <3>2
    <2> QED BY <2>1, <2>2
<1>6. m \in G
    <2> HIDE DEF G
    <2> QED BY <1>1, <1>3, <1>4, <1>5, UpTo
<1> QED BY <1>6 DEF w

\* An interval holds the last of n bytes.
LEMMA SomeInterval ==
    ASSUME NEW h, Layout(h), NEW x \in 1 .. h.max_size
    PROVE  \E k \in 1 .. Len(h.intervals) :
              h.intervals[k].start_offset < x /\ x <= h.intervals[k].end_offset
<1> DEFINE w == h.intervals
           n == Len(w)
           G == {k \in 0 .. n : \/ k = 0 \/ w[k].end_offset < x
                                \/ \E m \in 1 .. n : w[m].start_offset < x /\ x <= w[m].end_offset}
<1>1. n \in Nat /\ IF n = 0 THEN h.max_size = 0 ELSE w[n].end_offset = h.max_size
    BY DEF Layout, Tiling
<1>2. \A j \in 1 .. n : /\ w[j].start_offset \in Nat /\ w[j].end_offset \in Nat
                        /\ w[j].start_offset = IF j = 1 THEN 0 ELSE w[j - 1].end_offset
    BY LayoutFacts
<1>3. h.max_size \in Nat
    BY LimitAssumption DEF Layout
<1> HIDE DEF n, w
<1>4. 0 \in G /\ n \in 0 .. n
    BY <1>1
<1>5. ASSUME NEW j \in 1 .. n, j - 1 \in G PROVE j \in G
    <2>1. j \in 0 .. n
        BY <1>1
    <2>2. CASE \E m \in 1 .. n : w[m].start_offset < x /\ x <= w[m].end_offset
        BY <2>1, <2>2
    <2>3. CASE j - 1 = 0 \/ w[j - 1].end_offset < x
        <3>1. w[j].start_offset < x
            BY <1>2, <1>3, <2>3
        <3>2. w[j].end_offset < x \/ x <= w[j].end_offset
            BY <1>2, <1>3
        <3> QED BY <2>1, <3>1, <3>2
    <2> QED BY <1>5, <2>2, <2>3
<1>6. n \in G
    <2> HIDE DEF G
    <2> QED BY <1>1, <1>4, <1>5, UpTo
<1> QED BY <1>1, <1>3, <1>6 DEF w, n

-------------------------------------------------------------------------------
(* ExtendRegion and ShrinkRegion run over the intervals.                   *)

\* std::max and std::min.
LEMMA MaxOfPair ==
    ASSUME NEW a \in Int, NEW b \in Int
    PROVE  /\ Max({a, b}) = IF a <= b THEN b ELSE a
           /\ Min({a, b}) = IF a <= b THEN a ELSE b
<1>1. CASE a <= b
    <2>1. \A x \in {a, b} : (\A y \in {a, b} : x >= y) => x = b
        BY <1>1
    <2>2. b \in {a, b} /\ \A y \in {a, b} : b >= y
        BY <1>1
    <2>3. \A x \in {a, b} : (\A y \in {a, b} : x <= y) => x = a
        BY <1>1
    <2>4. a \in {a, b} /\ \A y \in {a, b} : a <= y
        BY <1>1
    <2> QED BY <1>1, <2>1, <2>2, <2>3, <2>4 DEF Max, Min
<1>2. CASE b < a
    <2>1. \A x \in {a, b} : (\A y \in {a, b} : x >= y) => x = a
        BY <1>2
    <2>2. a \in {a, b} /\ \A y \in {a, b} : a >= y
        BY <1>2
    <2>3. \A x \in {a, b} : (\A y \in {a, b} : x <= y) => x = b
        BY <1>2
    <2>4. b \in {a, b} /\ \A y \in {a, b} : b <= y
        BY <1>2
    <2>5. ~(a <= b)
        BY <1>2
    <2> QED BY <2>1, <2>2, <2>3, <2>4, <2>5 DEF Max, Min
<1> QED BY <1>1, <1>2

\* What a page reaches for.
LEMMA EndInFacts ==
    ASSUME NEW i, i.start_offset \in Nat, i.end_offset \in Nat, i.page_size \in Nat \ {0},
           IS_ALIGNED(i.end_offset - i.start_offset, i.page_size), NEW x \in Int
    PROVE  /\ EndIn(i, x) \in Int /\ x <= EndIn(i, x)
           /\ IS_ALIGNED(EndIn(i, x) - i.start_offset, i.page_size)
           /\ x <= i.end_offset => EndIn(i, x) <= i.end_offset
           /\ IS_ALIGNED(x - i.start_offset, i.page_size) => EndIn(i, x) = x
           /\ \A y \in Int : x <= y => EndIn(i, x) <= EndIn(i, y)
<1> DEFINE s == i.start_offset
           e == i.end_offset
           p == i.page_size
           r == ROUND_UP(x - s, p)
<1>1. s \in Nat /\ e \in Nat /\ p \in Nat \ {0} /\ IS_ALIGNED(e - s, p) /\ EndIn(i, x) = s + r
    BY DEF EndIn
<1>2. \A y \in Int : EndIn(i, y) = s + ROUND_UP(y - s, p)
    BY DEF EndIn
<1> HIDE DEF s, e, p
<1>3. r \in Int /\ IS_ALIGNED(r, p) /\ x - s <= r
    <2>1. x - s \in Int
        BY <1>1
    <2> QED BY <1>1, <2>1, RoundUp
<1>4. (s + r) - s = r /\ s + r \in Int /\ x <= s + r
    <2> HIDE DEF r
    <2> QED BY <1>1, <1>3
<1>5. ASSUME x <= e PROVE s + r <= e
    <2>1. x - s \in Int /\ e - s \in Int /\ x - s <= e - s
        BY <1>1, <1>5
    <2>2. r <= e - s
        BY <1>1, <2>1, RoundUpLeast
    <2> HIDE DEF r
    <2> QED BY <1>1, <1>3, <2>2
<1>6. ASSUME IS_ALIGNED(x - s, p) PROVE s + r = x
    <2>1. x - s \in Int
        BY <1>1
    <2>2. r = x - s
        BY <1>1, <1>6, <2>1, RoundUpAligned
    <2> HIDE DEF r
    <2> QED BY <1>1, <2>2
<1>7. ASSUME NEW y \in Int, x <= y PROVE s + r <= s + ROUND_UP(y - s, p)
    <2> DEFINE q == ROUND_UP(y - s, p)
    <2>1. x - s \in Int /\ y - s \in Int /\ x - s <= y - s
        BY <1>1, <1>7
    <2>2. r <= q /\ q \in Int
        BY <1>1, <2>1, RoundUpMonotone, RoundUp
    <2> HIDE DEF r, q
    <2>3. s + r <= s + q
        BY <1>1, <1>3, <2>2
    <2> QED BY <2>3 DEF r, q
<1>8. \A y \in Int : x <= y => EndIn(i, x) <= EndIn(i, y)
    BY <1>1, <1>2, <1>7
<1> HIDE DEF r
<1> QED BY <1>1, <1>3, <1>4, <1>5, <1>6, <1>8 DEF s, e, p

\* What ExtendRegion does for one interval.
Extended(cur, new_size, r, i) ==
    IF ~ (i.start_offset <= Max({cur, new_size}) /\ cur < i.end_offset) THEN r
    ELSE LET from == Max({cur, i.start_offset})
             to == IF new_size <= i.end_offset THEN EndIn(i, new_size) ELSE i.end_offset
         IN [AllocateMemory(r, from, to, i.page_size) EXCEPT !.hpbr.current_size = to]

\* What ShrinkRegion does for one interval.
Shrunk(cur, new_size, r, i) ==
    IF ~ (Min({cur, new_size}) <= i.end_offset /\ cur > i.start_offset) THEN r
    ELSE LET to == Min({cur, i.end_offset})
             from == IF new_size >= i.start_offset THEN EndIn(i, new_size) ELSE i.start_offset
         IN [DeallocateMemory(r, from, to) EXCEPT !.hpbr.current_size = Min({@, from})]

\* Regions with their mappings, whether they are in a state of the program or not.
Regions ==
    [hpbr : [start : Nat, current_size : Int, max_size : Nat, intervals : Seq(Interval)],
     mem : [Offsets -> [page : Nat, holds : {"none", "zero", "data"}]],
     refused : BOOLEAN]

\* A step of either loop gives a region with mappings.
LEMMA StepsTyped ==
    ASSUME NEW r \in Regions, NEW i, i.start_offset \in Nat, i.end_offset \in Nat,
           i.page_size \in Nat \ {0}, IS_ALIGNED(i.end_offset - i.start_offset, i.page_size),
           NEW cur \in Int, NEW new_size \in Int
    PROVE  Extended(cur, new_size, r, i) \in Regions /\ Shrunk(cur, new_size, r, i) \in Regions
<1>1. ASSUME NEW g \in Regions, NEW c \in Int PROVE [g EXCEPT !.hpbr.current_size = c] \in Regions
    BY DEF Regions
<1>2. ASSUME NEW g \in Regions, NEW from, NEW to, NEW p \in Nat
      PROVE  AllocateMemory(g, from, to, p) \in Regions
    <2> DEFINE m == [o \in Offsets |-> IF from <= o /\ o < to
                                       THEN [page |-> p, holds |-> "zero"] ELSE g.mem[o]]
    <2>1. m \in [Offsets -> [page : Nat, holds : {"none", "zero", "data"}]]
        BY DEF Regions
    <2>2. [g EXCEPT !.mem = m] \in Regions
        <3> HIDE DEF m
        <3> QED BY <2>1 DEF Regions
    <2>3. [g EXCEPT !.refused = TRUE] \in Regions
        BY DEF Regions
    <2> QED BY <2>2, <2>3 DEF AllocateMemory
<1>3. ASSUME NEW g \in Regions, NEW from, NEW to
      PROVE  DeallocateMemory(g, from, to) \in Regions
    <2> DEFINE m == [o \in Offsets |-> IF from <= o /\ o < to THEN Unmapped ELSE g.mem[o]]
    <2>1. m \in [Offsets -> [page : Nat, holds : {"none", "zero", "data"}]]
        BY DEF Regions, Unmapped
    <2>2. [g EXCEPT !.mem = m] \in Regions
        <3> HIDE DEF m
        <3> QED BY <2>1 DEF Regions
    <2>3. [g EXCEPT !.refused = TRUE] \in Regions
        BY DEF Regions
    <2> QED BY <2>2, <2>3 DEF DeallocateMemory
<1>4. EndIn(i, new_size) \in Int
    BY EndInFacts
<1>5. Extended(cur, new_size, r, i) \in Regions
    <2> DEFINE from == Max({cur, i.start_offset})
               to == IF new_size <= i.end_offset THEN EndIn(i, new_size) ELSE i.end_offset
               g == AllocateMemory(r, from, to, i.page_size)
    <2>1. to \in Int /\ g \in Regions
        BY <1>2, <1>4
    <2>2. [g EXCEPT !.hpbr.current_size = to] \in Regions
        <3> HIDE DEF g, to
        <3> QED BY <1>1, <2>1
    <2> QED BY <2>2 DEF Extended
<1>6. Shrunk(cur, new_size, r, i) \in Regions
    <2> DEFINE to == Min({cur, i.end_offset})
               from == IF new_size >= i.start_offset THEN EndIn(i, new_size) ELSE i.start_offset
               g == DeallocateMemory(r, from, to)
               c == Min({g.hpbr.current_size, from})
    <2>1. from \in Int /\ g \in Regions
        BY <1>3, <1>4
    <2>2. c \in Int
        <3> HIDE DEF g, from
        <3>1. g.hpbr.current_size \in Int
            BY <2>1 DEF Regions
        <3> QED BY <2>1, <3>1, MaxOfPair
    <2>3. [g EXCEPT !.hpbr.current_size = c] \in Regions
        <3> HIDE DEF g, c
        <3> QED BY <1>1, <2>1, <2>2
    <2> QED BY <2>3 DEF Shrunk
<1> QED BY <1>5, <1>6

\* ExtendRegion goes over the intervals once: run[k] is the region after k of them.
LEMMA ExtendRun ==
    ASSUME NEW g \in Regions, NEW new_size \in Int, Layout(g.hpbr)
    PROVE  LET cur == g.hpbr.current_size
               w == g.hpbr.intervals
           IN \E run : /\ run[0] = g
                       /\ \A k \in 1 .. Len(w) :
                             run[k] = Extended(cur, new_size, run[k - 1], w[k])
                       /\ ExtendRegion(g, new_size) = run[Len(w)]
<1> DEFINE cur == g.hpbr.current_size
           w == g.hpbr.intervals
           n == Len(w)
           Eq(it) == it = [t \in SUBSET DOMAIN w |->
                        IF t = {} THEN g
                        ELSE LET x == Max(t) IN Extended(cur, new_size, it[t \ {x}], w[x])]
           iter == CHOOSE it : Eq(it)
           F == [k \in 1 .. n |-> [r \in Regions |-> Extended(cur, new_size, r, w[k])]]
<1>1. ExtendRegion(g, new_size) = iter[DOMAIN w]
    BY DEF ExtendRegion, FoldLeft, MapThenFoldSet, Extended
<1>2. n \in Nat /\ DOMAIN w = 1 .. n /\ cur \in Int
    <2>1. w \in Seq(Interval) /\ cur \in Int
        BY DEF Regions
    <2> HIDE DEF w, cur
    <2> QED BY <2>1
<1>3. F \in [1 .. n -> [Regions -> Regions]]
    <2>1. ASSUME NEW k \in 1 .. n, NEW r \in Regions
          PROVE  Extended(cur, new_size, r, w[k]) \in Regions
        <3> DEFINE i == w[k]
        <3>1. /\ i.start_offset \in Nat /\ i.end_offset \in Nat /\ i.page_size \in Nat \ {0}
              /\ IS_ALIGNED(i.end_offset - i.start_offset, i.page_size)
            BY LayoutFacts
        <3> HIDE DEF i, cur
        <3>2. Extended(cur, new_size, r, i) \in Regions
            BY <1>2, <3>1, StepsTyped
        <3> QED BY <3>2 DEF i
    <2> HIDE DEF n, w, cur
    <2> QED BY <2>1
<1>4. \E it : Eq(it)
    <2> HIDE DEF F, n, w, cur
    <2>1. PICK it \in [SUBSET (1 .. n) -> Regions] :
              \A t \in SUBSET (1 .. n) :
                  it[t] = IF t = {} THEN g ELSE F[Max(t)][it[t \ {Max(t)}]]
        <3>1. Folds(Regions, n, g, F)
            BY <1>2, <1>3, Folding
        <3> QED BY <3>1 DEF Folds
    <2>2. ASSUME NEW t \in SUBSET (1 .. n), t # {}
          PROVE  F[Max(t)][it[t \ {Max(t)}]] = Extended(cur, new_size, it[t \ {Max(t)}], w[Max(t)])
        BY <1>2, <2>2, MaxOfNaturals DEF F
    <2>3. Eq(it)
        <3>1. it = [t \in SUBSET (1 .. n) |-> it[t]]
            OBVIOUS
        <3> QED BY <1>2, <2>1, <2>2, <3>1
    <2> HIDE DEF Eq
    <2> QED BY <2>3
<1>5. Eq(iter)
    <2> HIDE DEF Eq
    <2> QED BY <1>4
<1>6. \A t \in SUBSET (1 .. n) :
          iter[t] = IF t = {} THEN g ELSE Extended(cur, new_size, iter[t \ {Max(t)}], w[Max(t)])
    <2> HIDE DEF iter, cur
    <2> QED BY <1>2, <1>5
<1> HIDE DEF iter, n, F, Eq, w, cur
<1> DEFINE run == [k \in 0 .. n |-> iter[1 .. k]]
<1>7. run[0] = g
    <2>1. 1 .. 0 = {} /\ 0 \in 0 .. n /\ {} \in SUBSET (1 .. n)
        BY <1>2
    <2> QED BY <1>6, <2>1
<1>8. ASSUME NEW k \in 1 .. n PROVE run[k] = Extended(cur, new_size, run[k - 1], w[k])
    <2>1. Max(1 .. k) = k /\ (1 .. k) \ {k} = 1 .. k - 1
        BY MaxOfRange
    <2>2. 1 .. k \in SUBSET (1 .. n) /\ 1 .. k # {} /\ k - 1 \in 0 .. n /\ k \in 0 .. n
        BY <1>2
    <2> QED BY <1>6, <2>1, <2>2
<1>9. ExtendRegion(g, new_size) = run[n]
    <2>1. n \in 0 .. n
        BY <1>2
    <2> QED BY <1>1, <1>2, <2>1
<1> HIDE DEF run
<1> QED BY <1>7, <1>8, <1>9 DEF n, w, cur

\* ShrinkRegion goes over the intervals once: run[k] is the region after k of them.
LEMMA ShrinkRun ==
    ASSUME NEW g \in Regions, NEW new_size \in Int, Layout(g.hpbr)
    PROVE  LET cur == g.hpbr.current_size
               w == g.hpbr.intervals
           IN \E run : /\ run[0] = g
                       /\ \A k \in 1 .. Len(w) :
                             run[k] = Shrunk(cur, new_size, run[k - 1], w[k])
                       /\ ShrinkRegion(g, new_size) = run[Len(w)]
<1> DEFINE cur == g.hpbr.current_size
           w == g.hpbr.intervals
           n == Len(w)
           Eq(it) == it = [t \in SUBSET DOMAIN w |->
                        IF t = {} THEN g
                        ELSE LET x == Max(t) IN Shrunk(cur, new_size, it[t \ {x}], w[x])]
           iter == CHOOSE it : Eq(it)
           F == [k \in 1 .. n |-> [r \in Regions |-> Shrunk(cur, new_size, r, w[k])]]
<1>1. ShrinkRegion(g, new_size) = iter[DOMAIN w]
    BY DEF ShrinkRegion, FoldLeft, MapThenFoldSet, Shrunk
<1>2. n \in Nat /\ DOMAIN w = 1 .. n /\ cur \in Int
    <2>1. w \in Seq(Interval) /\ cur \in Int
        BY DEF Regions
    <2> HIDE DEF w, cur
    <2> QED BY <2>1
<1>3. F \in [1 .. n -> [Regions -> Regions]]
    <2>1. ASSUME NEW k \in 1 .. n, NEW r \in Regions
          PROVE  Shrunk(cur, new_size, r, w[k]) \in Regions
        <3> DEFINE i == w[k]
        <3>1. /\ i.start_offset \in Nat /\ i.end_offset \in Nat /\ i.page_size \in Nat \ {0}
              /\ IS_ALIGNED(i.end_offset - i.start_offset, i.page_size)
            BY LayoutFacts
        <3> HIDE DEF i, cur
        <3>2. Shrunk(cur, new_size, r, i) \in Regions
            BY <1>2, <3>1, StepsTyped
        <3> QED BY <3>2 DEF i
    <2> HIDE DEF n, w, cur
    <2> QED BY <2>1
<1>4. \E it : Eq(it)
    <2> HIDE DEF F, n, w, cur
    <2>1. PICK it \in [SUBSET (1 .. n) -> Regions] :
              \A t \in SUBSET (1 .. n) :
                  it[t] = IF t = {} THEN g ELSE F[Max(t)][it[t \ {Max(t)}]]
        <3>1. Folds(Regions, n, g, F)
            BY <1>2, <1>3, Folding
        <3> QED BY <3>1 DEF Folds
    <2>2. ASSUME NEW t \in SUBSET (1 .. n), t # {}
          PROVE  F[Max(t)][it[t \ {Max(t)}]] = Shrunk(cur, new_size, it[t \ {Max(t)}], w[Max(t)])
        BY <1>2, <2>2, MaxOfNaturals DEF F
    <2>3. Eq(it)
        <3>1. it = [t \in SUBSET (1 .. n) |-> it[t]]
            OBVIOUS
        <3> QED BY <1>2, <2>1, <2>2, <3>1
    <2> HIDE DEF Eq
    <2> QED BY <2>3
<1>5. Eq(iter)
    <2> HIDE DEF Eq
    <2> QED BY <1>4
<1>6. \A t \in SUBSET (1 .. n) :
          iter[t] = IF t = {} THEN g ELSE Shrunk(cur, new_size, iter[t \ {Max(t)}], w[Max(t)])
    <2> HIDE DEF iter, cur
    <2> QED BY <1>2, <1>5
<1> HIDE DEF iter, n, F, Eq, w, cur
<1> DEFINE run == [k \in 0 .. n |-> iter[1 .. k]]
<1>7. run[0] = g
    <2>1. 1 .. 0 = {} /\ 0 \in 0 .. n /\ {} \in SUBSET (1 .. n)
        BY <1>2
    <2> QED BY <1>6, <2>1
<1>8. ASSUME NEW k \in 1 .. n PROVE run[k] = Shrunk(cur, new_size, run[k - 1], w[k])
    <2>1. Max(1 .. k) = k /\ (1 .. k) \ {k} = 1 .. k - 1
        BY MaxOfRange
    <2>2. 1 .. k \in SUBSET (1 .. n) /\ 1 .. k # {} /\ k - 1 \in 0 .. n /\ k \in 0 .. n
        BY <1>2
    <2> QED BY <1>6, <2>1, <2>2
<1>9. ShrinkRegion(g, new_size) = run[n]
    <2>1. n \in 0 .. n
        BY <1>2
    <2> QED BY <1>1, <1>2, <2>1
<1> HIDE DEF run
<1> QED BY <1>7, <1>8, <1>9 DEF n, w, cur

-------------------------------------------------------------------------------
(* The page boundaries of a region.                                        *)

\* In each interval that it touches, x is a number of pages from the start.
PageEnd(h, x) ==
    \A k \in 1 .. Len(h.intervals) :
       LET i == h.intervals[k]
       IN i.start_offset <= x /\ x <= i.end_offset => IS_ALIGNED(x - i.start_offset, i.page_size)

\* The page that holds the last of x bytes ends at e.
EndAt(h, x, e) ==
    IF x = 0 THEN e = 0
    ELSE \E k \in 1 .. Len(h.intervals) :
            LET i == h.intervals[k]
            IN i.start_offset < x /\ x <= i.end_offset /\ e = EndIn(i, x)

\* The end of the page for x bytes lies in the region, not below x, at a page boundary.
LEMMA EndAtFacts ==
    ASSUME NEW h, Layout(h), NEW x \in 0 .. h.max_size, NEW e, EndAt(h, x, e)
    PROVE  e \in 0 .. h.max_size /\ x <= e /\ PageEnd(h, e)
<1> DEFINE w == h.intervals
           n == Len(w)
<1>1. /\ n \in Nat /\ h.max_size \in Nat
    BY LimitAssumption DEF Layout, Tiling
<1>2. \A j \in 1 .. n : /\ w[j].start_offset \in Nat /\ w[j].end_offset \in Nat
                        /\ w[j].page_size \in Nat \ {0}
                        /\ w[j].start_offset < w[j].end_offset /\ w[j].end_offset <= h.max_size
                        /\ IS_ALIGNED(w[j].end_offset - w[j].start_offset, w[j].page_size)
    BY LayoutFacts
<1>3. \A j, k \in 1 .. n : j < k => w[j].end_offset <= w[k].start_offset
    BY InOrder
<1> HIDE DEF n, w
<1>4. \A j \in 1 .. n : IS_ALIGNED(w[j].start_offset - w[j].start_offset, w[j].page_size)
    BY <1>2, ZeroAligned
<1>5. CASE x = 0
    <2>1. e = 0
        BY <1>5 DEF EndAt
    <2>2. PageEnd(h, 0)
        <3> SUFFICES ASSUME NEW k \in 1 .. n, w[k].start_offset <= 0
                     PROVE  IS_ALIGNED(0 - w[k].start_offset, w[k].page_size)
            BY DEF PageEnd, n, w
        <3>1. w[k].start_offset = 0
            BY <1>2
        <3> QED BY <1>4, <3>1
    <2> QED BY <1>1, <1>5, <2>1, <2>2
<1>6. CASE x # 0
    <2>1. PICK k \in 1 .. n : w[k].start_offset < x /\ x <= w[k].end_offset /\ e = EndIn(w[k], x)
        BY <1>6 DEF EndAt, n, w
    <2>2. /\ e \in Int /\ x <= e /\ e <= w[k].end_offset
          /\ IS_ALIGNED(e - w[k].start_offset, w[k].page_size)
        <3> DEFINE i == w[k]
        <3>1. /\ i.start_offset \in Nat /\ i.end_offset \in Nat /\ i.page_size \in Nat \ {0}
              /\ IS_ALIGNED(i.end_offset - i.start_offset, i.page_size)
              /\ x \in Int /\ x <= i.end_offset /\ e = EndIn(i, x)
            BY <1>1, <1>2, <2>1
        <3> HIDE DEF i
        <3>2. /\ e \in Int /\ x <= e /\ e <= i.end_offset
              /\ IS_ALIGNED(e - i.start_offset, i.page_size)
            BY <3>1, EndInFacts
        <3> QED BY <3>2 DEF i
    <2>3. e \in 0 .. h.max_size
        BY <1>1, <1>2, <2>2
    <2>4. ASSUME NEW j \in 1 .. n, w[j].start_offset <= e, e <= w[j].end_offset
          PROVE  IS_ALIGNED(e - w[j].start_offset, w[j].page_size)
        <3>1. CASE j = k
            BY <2>2, <3>1
        <3>2. CASE k < j
            <4>1. e = w[j].start_offset
                BY <1>2, <1>3, <2>2, <2>4, <3>2
            <4> QED BY <1>4, <4>1
        <3>3. ~ (j < k)
            BY <1>1, <1>2, <1>3, <2>1, <2>2, <2>4
        <3> QED BY <1>1, <3>1, <3>2, <3>3
    <2>5. PageEnd(h, e)
        BY <2>4 DEF PageEnd, n, w
    <2> QED BY <2>2, <2>3, <2>5
<1> QED BY <1>5, <1>6

\* A page boundary is where the page that it ends reaches for.
LEMMA PageEndIsEnd ==
    ASSUME NEW h, Layout(h), NEW x \in 0 .. h.max_size, PageEnd(h, x)
    PROVE  EndAt(h, x, x)
<1>1. CASE x = 0
    BY <1>1 DEF EndAt
<1>2. CASE x # 0
    <2>1. x \in 1 .. h.max_size /\ x \in Int
        BY <1>2, LimitAssumption DEF Layout
    <2>2. PICK k \in 1 .. Len(h.intervals) :
              h.intervals[k].start_offset < x /\ x <= h.intervals[k].end_offset
        BY <2>1, SomeInterval
    <2> DEFINE i == h.intervals[k]
    <2>3. /\ i.start_offset \in Nat /\ i.end_offset \in Nat /\ i.page_size \in Nat \ {0}
          /\ IS_ALIGNED(i.end_offset - i.start_offset, i.page_size)
        BY LayoutFacts
    <2>4. IS_ALIGNED(x - i.start_offset, i.page_size)
        BY <2>1, <2>2, <2>3 DEF PageEnd
    <2> HIDE DEF i
    <2>5. EndIn(i, x) = x
        BY <2>1, <2>3, <2>4, EndInFacts
    <2> QED BY <1>2, <2>2, <2>5 DEF EndAt, i
<1> QED BY <1>1, <1>2

\* More bytes do not end at an earlier page.
LEMMA EndAtMonotone ==
    ASSUME NEW h, Layout(h), NEW x \in 0 .. h.max_size, NEW y \in 0 .. h.max_size, x <= y,
           NEW e, EndAt(h, x, e), NEW f, EndAt(h, y, f)
    PROVE  e <= f
<1> DEFINE w == h.intervals
           n == Len(w)
<1>1. n \in Nat /\ h.max_size \in Nat
    BY LimitAssumption DEF Layout, Tiling
<1>2. e \in Nat /\ f \in Nat /\ y <= f
    BY <1>1, EndAtFacts
<1>3. CASE x = 0
    <2>1. e = 0
        BY <1>3 DEF EndAt
    <2> QED BY <1>2, <2>1
<1>4. CASE x # 0
    <2>1. PICK k \in 1 .. n : w[k].start_offset < x /\ x <= w[k].end_offset /\ e = EndIn(w[k], x)
        BY <1>4 DEF EndAt
    <2>2. PICK j \in 1 .. n : w[j].start_offset < y /\ y <= w[j].end_offset /\ f = EndIn(w[j], y)
        <3>1. y # 0
            BY <1>1, <1>4
        <3> QED BY <3>1 DEF EndAt
    <2> DEFINE i == w[k]
               u == w[j]
    <2>3. /\ i.start_offset \in Nat /\ i.end_offset \in Nat /\ i.page_size \in Nat \ {0}
          /\ IS_ALIGNED(i.end_offset - i.start_offset, i.page_size)
          /\ u.start_offset \in Nat /\ u.end_offset \in Nat
        BY LayoutFacts
    <2>4. (k < j => i.end_offset <= u.start_offset) /\ (j < k => u.end_offset <= i.start_offset)
        BY InOrder
    <2>5. i.start_offset < x /\ x <= i.end_offset /\ e = EndIn(i, x)
        BY <2>1
    <2>6. u.start_offset < y /\ y <= u.end_offset /\ f = EndIn(u, y)
        BY <2>2
    <2>7. i = u \/ k < j \/ j < k
        BY <1>1
    <2>8. x \in Int /\ y \in Int
        BY <1>1
    <2> HIDE DEF i, u, n, w
    <2>9. EndIn(i, x) <= i.end_offset /\ EndIn(i, x) <= EndIn(i, y)
        BY <2>3, <2>5, <2>8, EndInFacts
    <2> QED BY <1>2, <2>3, <2>4, <2>5, <2>6, <2>7, <2>8, <2>9
<1> QED BY <1>3, <1>4

\* Every size up to the size of the region ends at some page.
LEMMA EndAtExists ==
    ASSUME NEW h, Layout(h), NEW x \in 0 .. h.max_size
    PROVE  \E e : EndAt(h, x, e)
<1>1. CASE x = 0
    BY <1>1 DEF EndAt
<1>2. CASE x # 0
    <2>1. x \in 1 .. h.max_size
        BY <1>2, LimitAssumption DEF Layout
    <2> QED BY <1>2, <2>1, SomeInterval DEF EndAt
<1> QED BY <1>1, <1>2

\* The page size of the interval that an offset is in.
PageOf(h, o) == (CHOOSE i \in ToSet(h.intervals) : Within(i, o)).page_size

\* The page size at an offset is that of the one interval it is in.
LEMMA OneInterval ==
    ASSUME NEW h, Layout(h), NEW o \in Int,
           NEW k \in 1 .. Len(h.intervals), Within(h.intervals[k], o)
    PROVE  PageOf(h, o) = h.intervals[k].page_size
<1> DEFINE w == h.intervals
           n == Len(w)
           c == CHOOSE i \in ToSet(w) : Within(i, o)
<1>1. n \in Nat /\ ToSet(w) = {w[j] : j \in 1 .. n}
    <2>1. w \in Seq(Interval)
        BY DEF Layout, Tiling
    <2> HIDE DEF w
    <2> QED BY <2>1 DEF ToSet
<1>2. \A j \in 1 .. n : /\ w[j].start_offset \in Nat /\ w[j].end_offset \in Nat
                        /\ w[j].start_offset < w[j].end_offset
    BY LayoutFacts
<1>3. \A j, m \in 1 .. n : j < m => w[j].end_offset <= w[m].start_offset
    BY InOrder
<1>4. k \in 1 .. n /\ Within(w[k], o)
    OBVIOUS
<1> HIDE DEF w, n
<1>5. c \in ToSet(w) /\ Within(c, o)
    BY <1>1, <1>4
<1> HIDE DEF c
<1>6. PICK j \in 1 .. n : c = w[j]
    BY <1>1, <1>5
<1>7. j = k
    <2>1. ~(j < k) /\ ~(k < j)
        BY <1>2, <1>3, <1>4, <1>5, <1>6 DEF Within
    <2> QED BY <1>1, <1>4, <2>1
<1> QED BY <1>6, <1>7 DEF PageOf, c, w

-------------------------------------------------------------------------------
(* ExtendRegion.                                                           *)

\* The region h with mappings m, while Resize works on it: c is its current size.
Resizing(h, c, m) ==
    [hpbr |-> [start |-> h.start, current_size |-> c, max_size |-> h.max_size,
               intervals |-> h.intervals],
     mem |-> m, refused |-> FALSE]

\* Setting a field of such a region.
LEMMA SetFields ==
    ASSUME NEW h, NEW c, NEW m, NEW to, NEW a
    PROVE  /\ [Resizing(h, c, m) EXCEPT !.hpbr.current_size = to] = Resizing(h, to, m)
           /\ [Resizing(h, c, m) EXCEPT !.mem = a] = Resizing(h, c, a)
<1> DEFINE R == Resizing(h, c, m)
           x == [start |-> h.start, current_size |-> c, max_size |-> h.max_size,
                 intervals |-> h.intervals]
           y == [start |-> h.start, current_size |-> to, max_size |-> h.max_size,
                 intervals |-> h.intervals]
           f == FALSE
<1>1. R = [hpbr |-> x, mem |-> m, refused |-> f]
    BY DEF Resizing
<1>2. x = [start |-> h.start, current_size |-> c, max_size |-> h.max_size,
           intervals |-> h.intervals]
    OBVIOUS
<1>3. Resizing(h, to, m) = [hpbr |-> y, mem |-> m, refused |-> f]
    BY DEF Resizing
<1>4. Resizing(h, c, a) = [hpbr |-> x, mem |-> a, refused |-> f]
    BY DEF Resizing
<1> HIDE DEF R, x, f
<1>5. [x EXCEPT !.current_size = to] = y
    BY <1>2
<1> HIDE DEF y
<1>6. [R EXCEPT !.hpbr.current_size = to] = [R EXCEPT !.hpbr = [R.hpbr EXCEPT !.current_size = to]]
    OBVIOUS
<1>7. [R.hpbr EXCEPT !.current_size = to] = y
    <2>1. R.hpbr = x
        BY <1>1
    <2> QED BY <1>5, <2>1
<1>8. [R EXCEPT !.hpbr = y] = [hpbr |-> y, mem |-> m, refused |-> f]
    BY <1>1
<1>9. [R EXCEPT !.mem = a] = [hpbr |-> x, mem |-> a, refused |-> f]
    BY <1>1
<1> QED BY <1>3, <1>4, <1>6, <1>7, <1>8, <1>9 DEF R

\* What the kernel may hold.
Memory == [Offsets -> [page : Nat, holds : {"none", "zero", "data"}]]

\* Zero-filled pages from one offset to another.
Zeroed(h, m, from, to) ==
    [o \in Offsets |-> IF from <= o /\ o < to THEN [page |-> PageOf(h, o), holds |-> "zero"]
                       ELSE m[o]]

\* The assignment of _region_current_size at the end of a step.
Ending(r, c) == [r EXCEPT !.hpbr.current_size = c]

\* Extending within an interval, from and to page boundaries of it, is not refused and maps
\* zero-filled pages of its size.
LEMMA AllocateInside ==
    ASSUME NEW h, Layout(h), NEW m \in Memory, NEW c, NEW k \in 1 .. Len(h.intervals),
           NEW from \in Int, NEW to \in Int, from <= to,
           h.intervals[k].start_offset <= from, to <= h.intervals[k].end_offset,
           IS_ALIGNED(from - h.intervals[k].start_offset, h.intervals[k].page_size),
           IS_ALIGNED(to - h.intervals[k].start_offset, h.intervals[k].page_size)
    PROVE  Ending(AllocateMemory(Resizing(h, c, m), from, to, h.intervals[k].page_size), to)
             = Resizing(h, to, Zeroed(h, m, from, to))
<1> DEFINE i == h.intervals[k]
           p == i.page_size
           s == i.start_offset
           z == h.start
           r == Resizing(h, c, m)
<1>1. /\ p \in Nat \ {0} /\ s \in Nat /\ z \in Nat /\ IS_ALIGNED(z + s, p)
    BY LayoutFacts DEF Layout
<1>2. IS_ALIGNED(from - s, p) /\ IS_ALIGNED(to - s, p)
    OBVIOUS
<1>3. \A o \in Offsets : from <= o /\ o < to => PageOf(h, o) = p
    <2> SUFFICES ASSUME NEW o \in Offsets, from <= o, o < to PROVE PageOf(h, o) = p
        OBVIOUS
    <2>1. o \in Int
        BY DEF Offsets
    <2>2. Within(i, o)
        <3>1. i.end_offset \in Nat
            BY LayoutFacts
        <3> QED BY <1>1, <2>1, <3>1 DEF Within
    <2> QED BY <2>1, <2>2, OneInterval
<1>4. r.hpbr.start = z /\ r.mem = m
    BY DEF Resizing
<1>5. IS_ALIGNED(z + from, p) /\ IS_ALIGNED(z + to, p)
    <2> HIDE DEF z, s, p
    <2>1. z + s \in Int /\ from - s \in Int /\ to - s \in Int
        BY <1>1
    <2>2. IS_ALIGNED((z + s) + (from - s), p) /\ IS_ALIGNED((z + s) + (to - s), p)
        BY <1>1, <1>2, <2>1, AlignedSum
    <2>3. (z + s) + (from - s) = z + from /\ (z + s) + (to - s) = z + to
        BY <1>1
    <2> QED BY <2>2, <2>3
<1> HIDE DEF p, z
<1>6. CASE from = to
    <2>1. AllocateMemory(r, from, to, p) = r
        BY <1>6 DEF AllocateMemory
    <2>2. Zeroed(h, m, from, to) = m
        <3>1. \A o \in Offsets : ~(from <= o /\ o < to)
            BY <1>6 DEF Offsets
        <3>2. m = [o \in Offsets |-> m[o]]
            BY DEF Memory
        <3> QED BY <3>1, <3>2 DEF Zeroed
    <2>3. [r EXCEPT !.hpbr.current_size = to] = Resizing(h, to, m)
        BY SetFields
    <2> QED BY <2>1, <2>2, <2>3 DEF p, Ending
<1>7. CASE from # to
    <2>1. Aligned(r.hpbr, from, to, p)
        BY <1>4, <1>5, <1>7 DEF Aligned
    <2> DEFINE a == [o \in Offsets |-> IF from <= o /\ o < to THEN [page |-> p, holds |-> "zero"]
                                       ELSE m[o]]
    <2>2. AllocateMemory(r, from, to, p) = [r EXCEPT !.mem = a]
        <3> HIDE DEF r
        <3> QED BY <1>4, <1>7, <2>1 DEF AllocateMemory
    <2>3. a = Zeroed(h, m, from, to)
        BY <1>3 DEF Zeroed
    <2> HIDE DEF a
    <2>4. [[r EXCEPT !.mem = a] EXCEPT !.hpbr.current_size = to] = Resizing(h, to, a)
        <3>1. [r EXCEPT !.mem = a] = Resizing(h, c, a)
            BY SetFields
        <3>2. [Resizing(h, c, a) EXCEPT !.hpbr.current_size = to] = Resizing(h, to, a)
            BY SetFields
        <3> QED BY <3>1, <3>2
    <2> QED BY <2>2, <2>3, <2>4 DEF p, Ending
<1> QED BY <1>6, <1>7

\* Every offset of a region is in an interval, whose pages have a size.
LEMMA PageOfOffset ==
    ASSUME NEW h, Layout(h), NEW o \in Nat, o < h.max_size
    PROVE  PageOf(h, o) \in PageSizes /\ PageOf(h, o) \in Nat \ {0}
<1>1. o + 1 \in 1 .. h.max_size
    BY LimitAssumption DEF Layout
<1>2. PICK k \in 1 .. Len(h.intervals) :
          h.intervals[k].start_offset < o + 1 /\ o + 1 <= h.intervals[k].end_offset
    BY <1>1, SomeInterval
<1> DEFINE i == h.intervals[k]
<1>3. /\ i.start_offset \in Nat /\ i.end_offset \in Nat
      /\ i.page_size \in PageSizes /\ i.page_size \in Nat \ {0}
    BY LayoutFacts
<1>4. Within(i, o)
    BY <1>2, <1>3 DEF Within
<1>5. PageOf(h, o) = i.page_size
    BY <1>4, OneInterval
<1> QED BY <1>3, <1>5

\* Zero-filled pages are memory.
LEMMA ZeroedTyped ==
    ASSUME NEW h, Layout(h), NEW m \in Memory, NEW from \in Nat, NEW to \in 0 .. h.max_size
    PROVE  Zeroed(h, m, from, to) \in Memory
<1>1. h.max_size \in Nat
    BY LimitAssumption DEF Layout
<1> SUFFICES ASSUME NEW o \in Offsets, from <= o, o < to
             PROVE  PageOf(h, o) \in Nat
    BY DEF Zeroed, Memory
<1>2. o \in Nat /\ o < h.max_size
    BY <1>1 DEF Offsets
<1> QED BY <1>2, PageOfOffset

\* Mapping two ranges that meet is mapping both in one.
LEMMA ZeroedTwice ==
    ASSUME NEW h, NEW m \in Memory, NEW a \in Int, NEW b \in Int, NEW c \in Int, a <= b, b <= c
    PROVE  /\ Zeroed(h, Zeroed(h, m, a, b), b, c) = Zeroed(h, m, a, c)
           /\ Zeroed(h, m, a, a) = m
<1>1. Offsets \subseteq Int
    BY DEF Offsets
<1>2. \A o \in Offsets : ~(a <= o /\ o < a)
    BY <1>1
<1>3. \A o \in Offsets : a <= o /\ o < c <=> (a <= o /\ o < b) \/ (b <= o /\ o < c)
    BY <1>1
<1>4. \A o \in Offsets : Zeroed(h, m, a, b)[o] = IF a <= o /\ o < b
                                                 THEN [page |-> PageOf(h, o), holds |-> "zero"]
                                                 ELSE m[o]
    BY DEF Zeroed
<1>5. Zeroed(h, Zeroed(h, m, a, b), b, c) = Zeroed(h, m, a, c)
    <2> DEFINE n == Zeroed(h, m, a, b)
    <2>1. Zeroed(h, n, b, c) = [o \in Offsets |-> IF b <= o /\ o < c
                                                  THEN [page |-> PageOf(h, o), holds |-> "zero"]
                                                  ELSE n[o]]
        BY DEF Zeroed
    <2> HIDE DEF n
    <2>2. Zeroed(h, m, a, c) = [o \in Offsets |-> IF a <= o /\ o < c
                                                  THEN [page |-> PageOf(h, o), holds |-> "zero"]
                                                  ELSE m[o]]
        BY DEF Zeroed
    <2> QED BY <1>3, <1>4, <2>1, <2>2 DEF n
<1>6. m = [o \in Offsets |-> m[o]]
    BY DEF Memory
<1>7. Zeroed(h, m, a, a) = m
    BY <1>2, <1>6 DEF Zeroed
<1> QED BY <1>5, <1>7

\* Where the first k intervals end, and how far they let the region grow.
Bound(h, k) == IF k = 0 THEN 0 ELSE h.intervals[k].end_offset
GrownTo(h, cur, e, k) ==
    IF e <= Bound(h, k) THEN e ELSE IF Bound(h, k) <= cur THEN cur ELSE Bound(h, k)

\* ExtendRegion at the k-th interval: if the intervals before it are mapped as far as they
\* must be, so are those up to it, whether it holds the old end, the new end, both or
\* neither.
LEMMA ExtendStep ==
    ASSUME NEW h, Layout(h), NEW m \in Memory, NEW cur \in 0 .. h.max_size, PageEnd(h, cur),
           NEW new \in 0 .. h.max_size, cur < new, NEW e, EndAt(h, new, e),
           NEW k \in 1 .. Len(h.intervals),
           NEW c, c = GrownTo(h, cur, e, k - 1), NEW d, d = GrownTo(h, cur, e, k)
    PROVE  Extended(cur, new, Resizing(h, c, Zeroed(h, m, cur, c)), h.intervals[k])
             = Resizing(h, d, Zeroed(h, m, cur, d))
<1> DEFINE w == h.intervals
           n == Len(w)
           i == w[k]
           s == i.start_offset
           t == i.end_offset
           p == i.page_size
           to == IF new <= t THEN EndIn(i, new) ELSE t
           from == Max({cur, s})
           z == Zeroed(h, m, cur, c)
           r == Resizing(h, c, z)
<1>1. n \in Nat /\ h.max_size \in Nat
    BY LimitAssumption DEF Layout, Tiling
<1>2. /\ s \in Nat /\ t \in Nat /\ p \in Nat \ {0} /\ s < t /\ t <= h.max_size
      /\ IS_ALIGNED(t - s, p) /\ s = Bound(h, k - 1) /\ t = Bound(h, k)
    <2>1. k - 1 = 0 <=> k = 1
        OBVIOUS
    <2> QED BY <2>1, LayoutFacts, SMTT(30) DEF Bound
<1>3. e \in 0 .. h.max_size /\ new <= e /\ PageEnd(h, e)
    BY EndAtFacts
<1>4. PICK j \in 1 .. n : /\ w[j].start_offset < new /\ new <= w[j].end_offset
                          /\ e = EndIn(w[j], new)
    <2>1. new # 0
        BY <1>1
    <2> QED BY <2>1 DEF EndAt
<1>5. /\ w[j].start_offset \in Nat /\ w[j].end_offset \in Nat /\ e <= w[j].end_offset
    <2> DEFINE x == w[j]
    <2>1. /\ x.start_offset \in Nat /\ x.end_offset \in Nat /\ x.page_size \in Nat \ {0}
          /\ IS_ALIGNED(x.end_offset - x.start_offset, x.page_size)
        BY LayoutFacts
    <2>2. new \in Int /\ new <= x.end_offset /\ e = EndIn(x, new)
        BY <1>1, <1>4
    <2> HIDE DEF x
    <2>3. e <= x.end_offset
        BY <2>1, <2>2, EndInFacts
    <2> QED BY <2>1, <2>3 DEF x
<1>6. /\ j = k => s < new /\ new <= t /\ e = EndIn(i, new) /\ e <= t
      /\ k < j => t <= w[j].start_offset
      /\ j < k => w[j].end_offset <= s
    BY <1>4, <1>5, InOrder
<1>7. j = k \/ k < j \/ j < k
    BY <1>1
<1>8. /\ c = IF e <= s THEN e ELSE IF s <= cur THEN cur ELSE s
      /\ d = IF e <= t THEN e ELSE IF t <= cur THEN cur ELSE t
    BY <1>2 DEF GrownTo
<1>9. from = IF cur <= s THEN s ELSE cur
    <2>1. cur \in Int /\ s \in Int
        BY <1>1, <1>2
    <2> HIDE DEF s
    <2> QED BY <2>1, MaxOfPair
<1>10. Max({cur, new}) = new
    <2>1. cur \in Int /\ new \in Int /\ cur <= new
        BY <1>1
    <2> QED BY <2>1, MaxOfPair
<1> DEFINE u == w[j].start_offset
           v == w[j].end_offset
<1>11. /\ u \in Nat /\ v \in Nat /\ u < new /\ new <= v /\ e <= v
       /\ k < j => t <= u
       /\ j < k => v <= s
    BY <1>4, <1>5, <1>6
<1> HIDE DEF n, w, i, s, t, p, u, v, from
<1>12. Extended(cur, new, r, i) = IF ~(s <= new /\ cur < t) THEN r
                                  ELSE [AllocateMemory(r, from, to, p)
                                          EXCEPT !.hpbr.current_size = to]
    BY <1>10 DEF Extended, s, t, p, from
<1>13. CASE ~(s <= new /\ cur < t)
    <2>1. c = d
        BY <1>1, <1>2, <1>3, <1>6, <1>7, <1>8, <1>11, <1>13, SMTT(30)
    <2> HIDE DEF r, z, to
    <2>2. Extended(cur, new, r, i) = r
        BY <1>12, <1>13
    <2> QED BY <2>1, <2>2 DEF r, z, i, w
<1>14. CASE s = new /\ cur < t
    <2>1. to = s /\ from = s /\ e = s
        <3>1. EndIn(i, s) = s
            <4>1. IS_ALIGNED(s - s, p) /\ s \in Int
                BY <1>2, ZeroAligned
            <4> QED BY <1>2, <4>1, EndInFacts DEF s, t, p
        <3>2. j < k
            BY <1>2, <1>6, <1>7, <1>11, <1>14
        <3>3. e = s
            BY <1>1, <1>3, <1>2, <1>11, <1>14, <3>2
        <3> QED BY <1>1, <1>2, <1>9, <1>14, <3>1, <3>3
    <2>2. c = s /\ d = s
        BY <1>1, <1>2, <1>8, <1>14, <2>1
    <2> HIDE DEF to
    <2>3. AllocateMemory(r, from, to, p) = r
        BY <2>1 DEF AllocateMemory
    <2>4. [r EXCEPT !.hpbr.current_size = to] = Resizing(h, to, z)
        BY SetFields
    <2> HIDE DEF r
    <2>5. Extended(cur, new, r, i) = Resizing(h, to, z)
        BY <1>2, <1>12, <1>14, <2>3, <2>4
    <2> QED BY <2>1, <2>2, <2>5 DEF r, z, i, w
<1>15. CASE s < new /\ cur < t
    <2>1. from \in Int /\ from = c /\ s <= from /\ cur <= c
        BY <1>1, <1>2, <1>3, <1>8, <1>9, <1>15, SMTT(30)
    <2>2. to = d
        BY <1>1, <1>2, <1>3, <1>6, <1>7, <1>8, <1>11, <1>15, SMTT(30)
    <2> HIDE DEF to
    <2>3. d \in Int /\ c <= d /\ d <= t
        BY <1>1, <1>2, <1>3, <1>6, <1>7, <1>8, <1>11, <1>15, SMTT(30)
    <2>4. IS_ALIGNED(from - s, p)
        <3>1. CASE cur <= s
            BY <1>2, <1>9, <3>1, ZeroAligned
        <3>2. CASE s < cur
            <4>1. from = cur /\ s <= cur /\ cur <= t
                BY <1>1, <1>2, <1>9, <1>15, <3>2
            <4> QED BY <4>1 DEF PageEnd, s, p, t, i, w
        <3> QED BY <1>1, <1>2, <3>1, <3>2
    <2>5. IS_ALIGNED(d - s, p)
        <3>1. CASE d = t
            BY <1>2, <3>1
        <3>2. CASE d = e
            <4>1. s <= e /\ e <= t
                BY <1>1, <1>2, <1>3, <1>15, <2>3, <3>2
            <4> QED BY <1>3, <3>2, <4>1 DEF PageEnd, s, p, t, i, w
        <3> QED BY <1>8, <1>15, <3>1, <3>2, <1>1, <1>2
    <2>6. z \in Memory
        <3>1. c \in 0 .. h.max_size
            BY <1>1, <1>2, <1>3, <1>8, SMTT(30)
        <3>2. cur \in Nat
            BY <1>1
        <3> QED BY <3>1, <3>2, ZeroedTyped
    <2> HIDE DEF z
    <2>7. [AllocateMemory(r, c, d, p) EXCEPT !.hpbr.current_size = d]
            = Resizing(h, d, Zeroed(h, z, c, d))
        <3>1. c \in Int /\ s <= c /\ IS_ALIGNED(c - s, p)
            BY <2>1, <2>4
        <3>2. /\ Layout(h) /\ z \in Memory /\ k \in 1 .. Len(h.intervals)
              /\ c \in Int /\ d \in Int /\ c <= d
              /\ h.intervals[k].start_offset <= c /\ d <= h.intervals[k].end_offset
              /\ IS_ALIGNED(c - h.intervals[k].start_offset, h.intervals[k].page_size)
              /\ IS_ALIGNED(d - h.intervals[k].start_offset, h.intervals[k].page_size)
            BY <2>3, <2>5, <2>6, <3>1 DEF s, t, p, i, w
        <3>3. Ending(AllocateMemory(Resizing(h, c, z), c, d, h.intervals[k].page_size), d)
                = Resizing(h, d, Zeroed(h, z, c, d))
            BY ONLY <3>2, AllocateInside
        <3> QED BY <3>3 DEF p, i, w, Ending
    <2>8. Zeroed(h, z, c, d) = Zeroed(h, m, cur, d)
        <3>1. cur \in Int /\ c \in Int /\ d \in Int /\ cur <= c /\ c <= d
            BY <1>1, <2>1, <2>3
        <3> QED BY <3>1, ZeroedTwice DEF z
    <2> HIDE DEF r
    <2>9. Extended(cur, new, r, i) = Resizing(h, d, Zeroed(h, m, cur, d))
        BY <1>1, <1>2, <1>12, <1>15, <2>1, <2>2, <2>7, <2>8
    <2> QED BY <2>9 DEF r, z, i, w
<1> QED BY <1>1, <1>2, <1>13, <1>14, <1>15

\* ExtendRegion maps zero-filled pages from the old end to the end of the page that the new
\* size reaches.
LEMMA Extending ==
    ASSUME NEW h, Layout(h), NEW m \in Memory, NEW cur \in 0 .. h.max_size, PageEnd(h, cur),
           NEW new \in 0 .. h.max_size, cur < new, NEW e, EndAt(h, new, e)
    PROVE  ExtendRegion(Resizing(h, cur, m), new) = Resizing(h, e, Zeroed(h, m, cur, e))
<1> DEFINE g == Resizing(h, cur, m)
           w == h.intervals
           n == Len(w)
<1>1. n \in Nat /\ h.max_size \in Nat /\ h.start \in Nat /\ w \in Seq(Interval)
      /\ IF n = 0 THEN h.max_size = 0 ELSE w[n].end_offset = h.max_size
    BY LimitAssumption DEF Layout, Tiling
<1>2. g.hpbr.start = h.start /\ g.hpbr.current_size = cur /\ g.hpbr.max_size = h.max_size
      /\ g.hpbr.intervals = w
    BY DEF Resizing
<1>3. g \in Regions /\ Layout(g.hpbr)
    <2>1. cur \in Int
        BY <1>1
    <2>2. g \in Regions
        BY <1>1, <2>1 DEF Resizing, Regions, Memory
    <2> HIDE DEF g
    <2> QED BY <1>2, <2>2 DEF Layout
<1> HIDE DEF g, n
<1>4. new \in Int
    BY <1>1
<1>5. PICK run : /\ run[0] = g
                 /\ \A k \in 1 .. n : run[k] = Extended(cur, new, run[k - 1], w[k])
                 /\ ExtendRegion(g, new) = run[n]
    BY <1>2, <1>3, <1>4, ExtendRun DEF n
<1> DEFINE c(k) == GrownTo(h, cur, e, k)
           G == {k \in 0 .. n : run[k] = Resizing(h, c(k), Zeroed(h, m, cur, c(k)))}
<1>6. e \in 0 .. h.max_size /\ new <= e
    BY EndAtFacts
<1>7. 0 \in G
    <2>1. c(0) = cur
        BY <1>1, <1>6 DEF GrownTo, Bound
    <2>2. Zeroed(h, m, cur, cur) = m
        <3>1. cur \in Int /\ cur <= cur
            BY <1>1
        <3> QED BY <3>1, ZeroedTwice
    <2> HIDE DEF c
    <2> QED BY <1>1, <1>5, <2>1, <2>2 DEF g
<1>8. ASSUME NEW k \in 1 .. n, k - 1 \in G PROVE k \in G
    <2>1. k \in 0 .. n /\ run[k] = Extended(cur, new, run[k - 1], w[k])
        BY <1>1, <1>5
    <2>2. run[k - 1] = Resizing(h, c(k - 1), Zeroed(h, m, cur, c(k - 1)))
        BY <1>8
    <2>3. Extended(cur, new, Resizing(h, c(k - 1), Zeroed(h, m, cur, c(k - 1))), w[k])
            = Resizing(h, c(k), Zeroed(h, m, cur, c(k)))
        BY ExtendStep DEF n
    <2> HIDE DEF c
    <2> QED BY <2>1, <2>2, <2>3
<1>9. n \in G
    <2>1. n \in 0 .. n
        BY <1>1
    <2> HIDE DEF G
    <2> QED BY <1>1, <1>7, <1>8, <2>1, UpTo
<1>10. c(n) = e
    <2>1. n # 0
        BY <1>1
    <2> QED BY <1>1, <1>6, <2>1 DEF GrownTo, Bound
<1> HIDE DEF c
<1> QED BY <1>5, <1>9, <1>10 DEF g

-------------------------------------------------------------------------------
(* ShrinkRegion.                                                           *)

\* No pages from one offset to another.
Cut(m, from, to) == [o \in Offsets |-> IF from <= o /\ o < to THEN Unmapped ELSE m[o]]

\* Each mapped offset has the page size of its interval.
Backed(h, m, from, to) == \A o \in Offsets : from <= o /\ o < to => m[o].page = PageOf(h, o)

\* Shrinking within an interval, from and to page boundaries of it, is not refused and cuts
\* no page.
LEMMA DeallocateInside ==
    ASSUME NEW h, Layout(h), NEW m \in Memory, NEW c, NEW k \in 1 .. Len(h.intervals),
           NEW from \in Int, NEW to \in Int, from <= to, Backed(h, m, from, to),
           h.intervals[k].start_offset <= from, to <= h.intervals[k].end_offset,
           IS_ALIGNED(from - h.intervals[k].start_offset, h.intervals[k].page_size),
           IS_ALIGNED(to - h.intervals[k].start_offset, h.intervals[k].page_size)
    PROVE  DeallocateMemory(Resizing(h, c, m), from, to) = Resizing(h, c, Cut(m, from, to))
<1> DEFINE i == h.intervals[k]
           p == i.page_size
           s == i.start_offset
           z == h.start
           r == Resizing(h, c, m)
           cut == {r.mem[o].page : o \in Offsets \cap (from .. to - 1)} \ {0}
<1>1. /\ p \in Nat \ {0} /\ s \in Nat /\ z \in Nat /\ IS_ALIGNED(z + s, p)
      /\ IS_ALIGNED(p, BASE_4KB)
    BY LayoutFacts DEF Layout
<1>2. IS_ALIGNED(from - s, p) /\ IS_ALIGNED(to - s, p)
    OBVIOUS
<1>3. \A o \in Offsets : from <= o /\ o < to => PageOf(h, o) = p
    <2> SUFFICES ASSUME NEW o \in Offsets, from <= o, o < to PROVE PageOf(h, o) = p
        OBVIOUS
    <2>1. o \in Int
        BY DEF Offsets
    <2>2. Within(i, o)
        <3>1. i.end_offset \in Nat
            BY LayoutFacts
        <3> QED BY <1>1, <2>1, <3>1 DEF Within
    <2> QED BY <2>1, <2>2, OneInterval
<1>4. r.hpbr.start = z /\ r.mem = m
    BY DEF Resizing
<1>5. z + from \in Int /\ z + to \in Int /\ IS_ALIGNED(z + from, p) /\ IS_ALIGNED(z + to, p)
    <2> HIDE DEF z, s, p
    <2>1. z + s \in Int /\ from - s \in Int /\ to - s \in Int
        BY <1>1
    <2>2. IS_ALIGNED((z + s) + (from - s), p) /\ IS_ALIGNED((z + s) + (to - s), p)
        BY <1>1, <1>2, <2>1, AlignedSum
    <2>3. (z + s) + (from - s) = z + from /\ (z + s) + (to - s) = z + to
        BY <1>1
    <2> QED BY <1>1, <2>2, <2>3
<1> HIDE DEF p, z
<1>6. IS_ALIGNED(z + from, BASE_4KB) /\ IS_ALIGNED(z + to, BASE_4KB)
    BY <1>1, <1>5, AlignedFiner, PageFacts
<1> HIDE DEF r
<1>7. CASE from = to
    <2>1. DeallocateMemory(r, from, to) = r
        BY <1>7 DEF DeallocateMemory
    <2>2. Cut(m, from, to) = m
        <3>1. \A o \in Offsets : ~(from <= o /\ o < to)
            BY <1>7 DEF Offsets
        <3>2. m = [o \in Offsets |-> m[o]]
            BY DEF Memory
        <3> QED BY <3>1, <3>2 DEF Cut
    <2> QED BY <2>1, <2>2 DEF r
<1>8. CASE from # to
    <2>1. cut \subseteq {p}
        <3> SUFFICES ASSUME NEW o \in Offsets \cap (from .. to - 1) PROVE r.mem[o].page = p
            OBVIOUS
        <3>1. o \in Offsets /\ from <= o /\ o < to
            OBVIOUS
        <3> QED BY <1>3, <1>4, <3>1 DEF Backed
    <2>2. \A q \in cut \cup {BASE_4KB} : Aligned(r.hpbr, from, to, q)
        <3> HIDE DEF cut
        <3>1. Aligned(r.hpbr, from, to, p) /\ Aligned(r.hpbr, from, to, BASE_4KB)
            BY <1>4, <1>5, <1>6, <1>8 DEF Aligned
        <3> QED BY <2>1, <3>1
    <2> DEFINE a == Cut(m, from, to)
    <2>3. DeallocateMemory(r, from, to) = [r EXCEPT !.mem = a]
        BY <1>4, <1>8, <2>2 DEF DeallocateMemory, Cut
    <2> HIDE DEF a
    <2>4. [r EXCEPT !.mem = a] = Resizing(h, c, a)
        BY SetFields DEF r
    <2> QED BY <2>3, <2>4 DEF r, a
<1> QED BY <1>7, <1>8

\* What is left when the intervals up to the offset b have been shrunk.
Cleared(m, e, cur, b) ==
    [o \in Offsets |-> IF e <= o /\ o < cur /\ o < b THEN Unmapped ELSE m[o]]

\* How far the first k intervals let the region shrink.
ShrunkTo(h, cur, new, e, k) == IF k # 0 /\ new <= Bound(h, k) THEN e ELSE cur

\* ShrinkRegion at the k-th interval, likewise.
LEMMA ShrinkStep ==
    ASSUME NEW h, Layout(h), NEW m \in Memory, NEW cur \in 0 .. h.max_size, PageEnd(h, cur),
           Backed(h, m, 0, cur),
           NEW new \in 0 .. h.max_size, new < cur, NEW e, EndAt(h, new, e),
           NEW k \in 1 .. Len(h.intervals),
           NEW c, c = ShrunkTo(h, cur, new, e, k - 1), NEW d, d = ShrunkTo(h, cur, new, e, k)
    PROVE  Shrunk(cur, new, Resizing(h, c, Cleared(m, e, cur, Bound(h, k - 1))), h.intervals[k])
             = Resizing(h, d, Cleared(m, e, cur, Bound(h, k)))
<1> DEFINE w == h.intervals
           n == Len(w)
           i == w[k]
           s == i.start_offset
           t == i.end_offset
           p == i.page_size
           to == Min({cur, t})
           from == IF new >= s THEN EndIn(i, new) ELSE s
           z == Cleared(m, e, cur, s)
           r == Resizing(h, c, z)
<1>1. n \in Nat /\ h.max_size \in Nat
    BY LimitAssumption DEF Layout, Tiling
<1>2. /\ s \in Nat /\ t \in Nat /\ p \in Nat \ {0} /\ s < t /\ t <= h.max_size
      /\ IS_ALIGNED(t - s, p) /\ s = Bound(h, k - 1) /\ t = Bound(h, k)
      /\ k = 1 => s = 0
    <2>1. k - 1 = 0 <=> k = 1
        OBVIOUS
    <2> QED BY <2>1, LayoutFacts DEF Bound
<1>3. e \in 0 .. h.max_size /\ new <= e /\ PageEnd(h, e)
    BY EndAtFacts
\* The page that holds the last of new bytes is in this interval, before or after it.
<1>4. /\ s < new /\ new <= t => e = EndIn(i, new) /\ e <= t
      /\ new <= s => e <= s
      /\ \A x \in Int : x <= t => EndIn(i, x) <= t
    <2>0. \A x \in Int : x <= t => EndIn(i, x) <= t
        BY <1>2, EndInFacts DEF s, t, p
    <2>1. CASE new = 0
        <3>1. e = 0
            BY <2>1 DEF EndAt
        <3> QED BY <1>2, <2>0, <2>1, <3>1
    <2>2. CASE new # 0
        <3>1. PICK j \in 1 .. n : /\ w[j].start_offset < new /\ new <= w[j].end_offset
                                  /\ e = EndIn(w[j], new)
            BY <2>2 DEF EndAt
        <3> DEFINE x == w[j]
                   u == x.start_offset
                   v == x.end_offset
        <3>2. /\ u \in Nat /\ v \in Nat /\ x.page_size \in Nat \ {0}
              /\ IS_ALIGNED(v - u, x.page_size)
            BY LayoutFacts
        <3>3. e <= v
            <4>1. new \in Int /\ new <= v
                BY <1>1, <3>1
            <4> QED BY <3>1, <3>2, <4>1, EndInFacts
        <3>4. (k < j => t <= u) /\ (j < k => v <= s)
            BY InOrder
        <3>5. j = k => u = s /\ v = t /\ e = EndIn(i, new)
            BY <3>1
        <3>6. u < new /\ new <= v
            BY <3>1
        <3> HIDE DEF u, v, x, s, t, i, w, n
        <3>7. j = k \/ k < j \/ j < k
            BY <1>1
        <3>8. CASE j = k
            BY <1>1, <1>2, <2>0, <3>2, <3>3, <3>5, <3>6, <3>8
        <3>9. CASE k < j
            BY <1>1, <1>2, <2>0, <3>2, <3>4, <3>6, <3>9, SMTT(30)
        <3>10. CASE j < k
            BY <1>1, <1>2, <1>3, <2>0, <3>2, <3>3, <3>4, <3>6, <3>10, SMTT(30)
        <3> QED BY <3>7, <3>8, <3>9, <3>10
    <2> QED BY <2>1, <2>2
<1>5. /\ c = IF k # 1 /\ new <= s THEN e ELSE cur
      /\ d = IF new <= t THEN e ELSE cur
    BY <1>2 DEF ShrunkTo
<1>6. to = IF cur <= t THEN cur ELSE t
    <2>1. cur \in Int /\ t \in Int
        BY <1>1, <1>2
    <2> HIDE DEF t
    <2> QED BY <2>1, MaxOfPair
<1>7. Min({cur, new}) = new
    <2>1. cur \in Int /\ new \in Int /\ ~(cur <= new)
        BY <1>1
    <2> QED BY <2>1, MaxOfPair
\* cur is a page boundary too, so that rounding new up does not pass it.
<1>8. e <= cur
    <2>1. EndAt(h, cur, cur)
        BY PageEndIsEnd
    <2>2. new <= cur
        BY <1>1
    <2> QED BY <2>1, <2>2, EndAtMonotone
<1>9. Offsets \subseteq Int
    BY DEF Offsets
<1>10. \A o \in Offsets : z[o] = IF e <= o /\ o < cur /\ o < s THEN Unmapped ELSE m[o]
    BY DEF Cleared
<1> HIDE DEF n, w, i, s, t, p, to, z
<1>11. Shrunk(cur, new, r, i) = IF ~(new <= t /\ cur > s) THEN r
                                ELSE [DeallocateMemory(r, from, to)
                                        EXCEPT !.hpbr.current_size = Min({@, from})]
    BY <1>7 DEF Shrunk, s, t, to
<1>12. Cleared(m, e, cur, t) = [o \in Offsets |-> IF e <= o /\ o < cur /\ o < t
                                                  THEN Unmapped ELSE m[o]]
    BY DEF Cleared
<1>13. CASE ~(new <= t /\ cur > s)
    <2>1. c = d
        BY <1>1, <1>2, <1>3, <1>4, <1>5, <1>13
    <2>2. z = Cleared(m, e, cur, t)
        <3>1. \A o \in Offsets : e <= o /\ o < cur /\ o < t <=> e <= o /\ o < cur /\ o < s
            BY <1>1, <1>2, <1>3, <1>9, <1>13, SMTT(30)
        <3> QED BY <1>12, <3>1 DEF z, Cleared
    <2> HIDE DEF r, from
    <2>3. Shrunk(cur, new, r, i) = r
        BY <1>11, <1>13
    <2> QED BY <1>2, <2>1, <2>2, <2>3 DEF r, z, i, w, s
<1>14. CASE new <= t /\ cur > s
    <2>1. from = IF s <= e THEN e ELSE s
        <3>1. CASE new < s
            BY <1>1, <1>2, <1>3, <1>4, <3>1
        <3>2. CASE new = s
            <4>1. IS_ALIGNED(s - s, p) /\ s \in Int
                BY <1>2, ZeroAligned
            <4>2. EndIn(i, s) = s
                BY <1>2, <4>1, EndInFacts DEF s, t, p
            <4> QED BY <1>2, <1>3, <1>4, <3>2, <4>2
        <3>3. CASE s < new
            BY <1>1, <1>2, <1>3, <1>4, <1>14, <3>3
        <3> QED BY <1>1, <1>2, <3>1, <3>2, <3>3
    <2> HIDE DEF from
    <2>2. /\ from \in Int /\ to \in Int /\ from <= to /\ s <= from /\ to <= t /\ to <= cur
          /\ d = e /\ 0 <= from
        <3>1. /\ cur \in Nat /\ new \in Nat /\ e \in Nat /\ s \in Nat /\ t \in Nat
              /\ new < cur /\ s < t /\ e <= cur /\ new <= e
            BY <1>1, <1>2, <1>3, <1>8
        <3>2. from \in Int /\ s <= from /\ 0 <= from
            BY <2>1, <3>1
        <3>3. to \in Int /\ to <= t /\ to <= cur
            BY <1>6, <3>1
        <3>4. d = e
            BY <1>5, <1>14
        <3>5. e <= t
            BY <1>4, <1>14, <3>1
        <3>6. from <= to
            BY <1>6, <1>14, <2>1, <3>1, <3>5
        <3> QED BY <3>2, <3>3, <3>4, <3>6
    <2>3. IS_ALIGNED(from - s, p)
        <3>1. CASE from = s
            BY <1>2, <3>1, ZeroAligned
        <3>2. CASE from = e /\ s <= e
            <4>1. e <= t
                BY <2>2, <3>2, <1>2
            <4> QED BY <1>3, <3>2, <4>1 DEF PageEnd, s, p, t, i, w
        <3> QED BY <2>1, <3>1, <3>2
    <2>4. IS_ALIGNED(to - s, p)
        <3>1. CASE to = t
            BY <1>2, <3>1
        <3>2. CASE to = cur /\ cur <= t
            <4>1. s <= cur
                BY <1>1, <1>2, <1>14
            <4> QED BY <3>2, <4>1 DEF PageEnd, s, p, t, i, w
        <3> QED BY <1>6, <3>1, <3>2
    <2>5. z \in Memory
        BY DEF z, Cleared, Memory, Unmapped
    <2>6. Backed(h, z, from, to)
        <3> SUFFICES ASSUME NEW o \in Offsets, from <= o, o < to
                     PROVE  z[o].page = PageOf(h, o)
            BY DEF Backed
        <3>1. 0 <= o /\ o < cur /\ ~(o < s)
            BY <1>1, <1>2, <1>9, <2>2, SMTT(30)
        <3>2. m[o].page = PageOf(h, o)
            BY <3>1 DEF Backed
        <3> QED BY <1>10, <3>1, <3>2
    <2>7. DeallocateMemory(r, from, to) = Resizing(h, c, Cut(z, from, to))
        <3>1. /\ Layout(h) /\ z \in Memory /\ k \in 1 .. Len(h.intervals)
              /\ from \in Int /\ to \in Int /\ from <= to /\ Backed(h, z, from, to)
              /\ h.intervals[k].start_offset <= from /\ to <= h.intervals[k].end_offset
              /\ IS_ALIGNED(from - h.intervals[k].start_offset, h.intervals[k].page_size)
              /\ IS_ALIGNED(to - h.intervals[k].start_offset, h.intervals[k].page_size)
            BY <2>2, <2>3, <2>4, <2>5, <2>6 DEF s, t, p, i, w
        <3> QED BY ONLY <3>1, DeallocateInside
    <2>8. Cut(z, from, to) = Cleared(m, e, cur, t)
        <3>1. \A o \in Offsets : (from <= o /\ o < to) \/ (e <= o /\ o < cur /\ o < s)
                                 <=> e <= o /\ o < cur /\ o < t
            BY <1>1, <1>2, <1>3, <1>6, <1>9, <2>1, <2>2, SMTT(30)
        <3>2. Cut(z, from, to) = [o \in Offsets |-> IF from <= o /\ o < to THEN Unmapped ELSE z[o]]
            BY DEF Cut
        <3> QED BY <1>10, <1>12, <3>1, <3>2
    <2>9. Min({c, from}) = d
        <3>1. c \in Int /\ from \in Int /\ d = IF c <= from THEN c ELSE from
            BY <1>1, <1>2, <1>3, <1>4, <1>5, <1>8, <1>14, <2>1, <2>2, SMTT(30)
        <3> QED BY <3>1, MaxOfPair
    <2> DEFINE a == Cut(z, from, to)
               q == Resizing(h, c, a)
    <2>10. q.hpbr.current_size = c
        BY DEF Resizing
    <2>11. [q EXCEPT !.hpbr.current_size = d] = Resizing(h, d, a)
        BY SetFields
    <2> HIDE DEF q, a, r
    <2>12. Shrunk(cur, new, r, i) = [q EXCEPT !.hpbr.current_size = Min({@, from})]
        BY <1>11, <1>14, <2>7 DEF q, a
    <2>13. [q EXCEPT !.hpbr.current_size = Min({@, from})]
             = [q EXCEPT !.hpbr.current_size = Min({q.hpbr.current_size, from})]
        OBVIOUS
    <2>14. Shrunk(cur, new, r, i) = Resizing(h, d, a)
        BY <2>9, <2>10, <2>11, <2>12, <2>13
    <2> QED BY <1>2, <2>8, <2>14 DEF a, r, z, i, w, s
<1> QED BY <1>13, <1>14

\* ShrinkRegion unmaps what lies beyond the page that the new size reaches, and nothing
\* else.
LEMMA Shrinking ==
    ASSUME NEW h, Layout(h), NEW m \in Memory, NEW cur \in 0 .. h.max_size, PageEnd(h, cur),
           Backed(h, m, 0, cur),
           NEW new \in 0 .. h.max_size, new < cur, NEW e, EndAt(h, new, e)
    PROVE  ShrinkRegion(Resizing(h, cur, m), new) = Resizing(h, e, Cut(m, e, cur))
<1> DEFINE g == Resizing(h, cur, m)
           w == h.intervals
           n == Len(w)
<1>1. n \in Nat /\ h.max_size \in Nat /\ h.start \in Nat /\ w \in Seq(Interval)
      /\ IF n = 0 THEN h.max_size = 0 ELSE w[n].end_offset = h.max_size
    BY LimitAssumption DEF Layout, Tiling
<1>2. g.hpbr.start = h.start /\ g.hpbr.current_size = cur /\ g.hpbr.max_size = h.max_size
      /\ g.hpbr.intervals = w
    BY DEF Resizing
<1>3. g \in Regions /\ Layout(g.hpbr)
    <2>1. cur \in Int
        BY <1>1
    <2>2. g \in Regions
        BY <1>1, <2>1 DEF Resizing, Regions, Memory
    <2> HIDE DEF g
    <2> QED BY <1>2, <2>2 DEF Layout
<1> HIDE DEF g, n
<1>4. new \in Int
    BY <1>1
<1>5. PICK run : /\ run[0] = g
                 /\ \A k \in 1 .. n : run[k] = Shrunk(cur, new, run[k - 1], w[k])
                 /\ ShrinkRegion(g, new) = run[n]
    BY <1>2, <1>3, <1>4, ShrinkRun DEF n
<1> DEFINE c(k) == ShrunkTo(h, cur, new, e, k)
           b(k) == Cleared(m, e, cur, Bound(h, k))
           G == {k \in 0 .. n : run[k] = Resizing(h, c(k), b(k))}
<1>6. e \in 0 .. h.max_size /\ new <= e
    BY EndAtFacts
<1>7. Offsets \subseteq Int /\ \A o \in Offsets : 0 <= o
    BY DEF Offsets
<1>8. 0 \in G
    <2>1. c(0) = cur
        BY DEF ShrunkTo
    <2>2. b(0) = m
        <3>1. \A o \in Offsets : ~(e <= o /\ o < cur /\ o < 0)
            BY <1>7
        <3>2. m = [o \in Offsets |-> m[o]]
            BY DEF Memory
        <3> QED BY <3>1, <3>2 DEF Cleared, Bound
    <2> HIDE DEF c, b
    <2> QED BY <1>1, <1>5, <2>1, <2>2 DEF g
<1>9. ASSUME NEW k \in 1 .. n, k - 1 \in G PROVE k \in G
    <2>1. k \in 0 .. n /\ run[k] = Shrunk(cur, new, run[k - 1], w[k])
        BY <1>1, <1>5
    <2>2. run[k - 1] = Resizing(h, c(k - 1), b(k - 1))
        BY <1>9
    <2>3. Shrunk(cur, new, Resizing(h, c(k - 1), b(k - 1)), w[k]) = Resizing(h, c(k), b(k))
        BY ShrinkStep DEF n
    <2> HIDE DEF c, b
    <2> QED BY <2>1, <2>2, <2>3
<1>10. n \in G
    <2>1. n \in 0 .. n
        BY <1>1
    <2> HIDE DEF G
    <2> QED BY <1>1, <1>8, <1>9, <2>1, UpTo
<1>11. n # 0 /\ Bound(h, n) = h.max_size
    BY <1>1 DEF Bound
<1>12. c(n) = e
    BY <1>1, <1>11 DEF ShrunkTo
<1>13. b(n) = Cut(m, e, cur)
    <2>1. \A o \in Offsets : e <= o /\ o < cur /\ o < h.max_size <=> e <= o /\ o < cur
        BY <1>1, <1>6, <1>7
    <2> QED BY <1>11, <2>1 DEF Cleared, Cut
<1> HIDE DEF c, b
<1> QED BY <1>5, <1>10, <1>12, <1>13 DEF g

-------------------------------------------------------------------------------
(* Resize.                                                                 *)

\* What the kernel holds for a region: pages of the right size up to the current size
\* and none beyond.
Held(h, m, cur) ==
    /\ m \in Memory
    /\ \A o \in Offsets :
          IF o < cur THEN m[o].page = PageOf(h, o) /\ m[o].holds \in {"zero", "data"}
          ELSE m[o] = Unmapped

\* What it holds after the current size has moved to e.
After(h, m, cur, e) ==
    [o \in Offsets |-> IF e <= o THEN Unmapped
                       ELSE IF cur <= o THEN [page |-> PageOf(h, o), holds |-> "zero"]
                       ELSE m[o]]

\* Moving the end keeps the mappings as they must be.
LEMMA HeldAfter ==
    ASSUME NEW h, Layout(h), NEW cur \in Nat, NEW m, Held(h, m, cur), NEW e \in 0 .. h.max_size
    PROVE  Held(h, After(h, m, cur, e), e)
<1>1. h.max_size \in Nat
    BY LimitAssumption DEF Layout
<1> DEFINE a == After(h, m, cur, e)
<1>2. ASSUME NEW o \in Offsets
      PROVE  /\ a[o] \in [page : Nat, holds : {"none", "zero", "data"}]
             /\ IF o < e THEN a[o].page = PageOf(h, o) /\ a[o].holds \in {"zero", "data"}
                ELSE a[o] = Unmapped
    <2>1. o \in Nat
        BY DEF Offsets
    <2>2. a[o] = IF e <= o THEN Unmapped
                 ELSE IF cur <= o THEN [page |-> PageOf(h, o), holds |-> "zero"] ELSE m[o]
        BY DEF After
    <2> HIDE DEF a
    <2>3. CASE e <= o
        <3>1. ~(o < e)
            BY <1>1, <2>1, <2>3
        <3> QED BY <2>2, <2>3, <3>1 DEF Unmapped
    <2>4. CASE o < e
        <3>1. ~(e <= o) /\ o < h.max_size
            BY <1>1, <2>1, <2>4
        <3>2. CASE cur <= o
            <4>1. PageOf(h, o) \in Nat
                BY <2>1, <3>1, PageOfOffset
            <4> QED BY <2>2, <2>4, <3>1, <3>2, <4>1
        <3>3. CASE o < cur
            <4>1. ~(cur <= o)
                BY <2>1, <3>3
            <4> QED BY <2>2, <2>4, <3>1, <3>3, <4>1 DEF Held, Memory
        <3> QED BY <2>1, <3>2, <3>3
    <2> QED BY <1>1, <2>1, <2>3, <2>4
<1>3. a = [o \in Offsets |-> a[o]]
    BY DEF After
<1> HIDE DEF a
<1>4. a \in Memory
    BY <1>2, <1>3 DEF Memory
<1> QED BY <1>2, <1>4 DEF Held, a

\* Resize within the size of the region moves the end to the end of the page that the new
\* size reaches, up, down or not at all.
LEMMA ResizedTo ==
    ASSUME NEW h, Layout(h), NEW cur \in 0 .. h.max_size, PageEnd(h, cur),
           NEW m, Held(h, m, cur), NEW new \in 0 .. h.max_size
    PROVE  \E e : /\ EndAt(h, new, e)
                  /\ Resized(Resizing(h, cur, m), new) = Resizing(h, e, After(h, m, cur, e))
<1> DEFINE g == Resizing(h, cur, m)
<1>1. g.hpbr.max_size = h.max_size /\ g.hpbr.current_size = cur
    BY DEF Resizing
<1> HIDE DEF g
<1>2. h.max_size \in Nat /\ cur \in Nat /\ new \in Nat /\ new <= h.max_size
    BY LimitAssumption DEF Layout
<1>3. m \in Memory /\ Backed(h, m, 0, cur)
    BY DEF Held, Backed
<1>4. /\ Offsets \subseteq Nat
      /\ \A o \in Offsets : cur <= o => m[o] = Unmapped
    <2>1. Offsets \subseteq Nat
        BY DEF Offsets
    <2>2. \A o \in Offsets : cur <= o => ~(o < cur)
        BY <1>2, <2>1
    <2> QED BY <2>1, <2>2 DEF Held
<1>5. m = [o \in Offsets |-> m[o]]
    BY <1>3 DEF Memory
<1>6. CASE new = cur
    <2>1. EndAt(h, cur, cur)
        BY PageEndIsEnd
    <2>2. Resized(g, new) = g
        BY <1>1, <1>2, <1>6 DEF Resized
    <2>3. After(h, m, cur, cur) = m
        BY <1>2, <1>4, <1>5 DEF After
    <2> QED BY <1>6, <2>1, <2>2, <2>3 DEF g
<1>7. CASE cur < new
    <2>1. PICK e : EndAt(h, new, e)
        BY EndAtExists
    <2>2. Resized(g, new) = ExtendRegion(g, new)
        BY <1>1, <1>2, <1>7 DEF Resized
    <2>3. ExtendRegion(g, new) = Resizing(h, e, Zeroed(h, m, cur, e))
        BY <1>3, <1>7, <2>1, Extending DEF g
    <2>4. e \in Nat /\ new <= e
        BY <1>2, <2>1, EndAtFacts
    <2>5. Zeroed(h, m, cur, e) = After(h, m, cur, e)
        <3> DEFINE q(o) == [page |-> PageOf(h, o), holds |-> "zero"]
        <3>1. \A o \in Offsets : (IF cur <= o /\ o < e THEN q(o) ELSE m[o])
                                 = IF e <= o THEN Unmapped ELSE IF cur <= o THEN q(o) ELSE m[o]
            <4> HIDE DEF q
            <4> QED BY <1>2, <1>4, <1>7, <2>4
        <3> QED BY <3>1 DEF Zeroed, After
    <2> QED BY <2>1, <2>2, <2>3, <2>5 DEF g
<1>8. CASE new < cur
    <2>1. PICK e : EndAt(h, new, e)
        BY EndAtExists
    <2>2. Resized(g, new) = ShrinkRegion(g, new)
        BY <1>1, <1>2, <1>8 DEF Resized
    <2>3. ShrinkRegion(g, new) = Resizing(h, e, Cut(m, e, cur))
        BY <1>3, <1>8, <2>1, Shrinking DEF g
    <2>4. e \in Nat
        BY <1>2, <2>1, EndAtFacts
    <2>5. e <= cur
        <3>1. EndAt(h, cur, cur)
            BY PageEndIsEnd
        <3> QED BY <1>8, <2>1, <3>1, EndAtMonotone
    <2>6. Cut(m, e, cur) = After(h, m, cur, e)
        <3> DEFINE q(o) == [page |-> PageOf(h, o), holds |-> "zero"]
        <3>1. \A o \in Offsets : (IF e <= o /\ o < cur THEN Unmapped ELSE m[o])
                                 = IF e <= o THEN Unmapped ELSE IF cur <= o THEN q(o) ELSE m[o]
            <4> HIDE DEF q
            <4> QED BY <1>2, <1>4, <2>4, <2>5
        <3> QED BY <3>1 DEF Cut, After
    <2> QED BY <2>1, <2>2, <2>3, <2>6 DEF g
<1> QED BY <1>2, <1>6, <1>7, <1>8

-------------------------------------------------------------------------------
(* The invariant.                                                          *)

\* A configuration that Initialize accepts.
Configured(c) ==
    /\ c.list \in Seq(Interval) /\ c.size \in 0 .. Limit /\ c.base \in Nat
    /\ Accepted(c.list, c.size)
    /\ IS_ALIGNED(c.size, BASE_4KB) /\ IS_ALIGNED(c.base, BASE_4KB)
    /\ \A k, m \in 1 .. Len(c.list) : k # m => Apart(c.list[k], c.list[m])

\* The object in a run with that configuration, with current size x.
RegionOf(c, x) ==
    [start |-> RegionStart(c.list, c.base), current_size |-> x, max_size |-> c.size,
     intervals |-> WithGaps(c.list, c.size)]

\* The inductive invariant.  Of the configuration: it was accepted.  Of the object: only
\* its current size changes, which is always a page boundary.  Of the memory: exactly the
\* pages below the current size are mapped, each with the size of its interval.
IInv ==
    /\ Configured(config)
    /\ hpbr = RegionOf(config, hpbr.current_size)
    /\ hpbr.current_size \in 0 .. config.size /\ PageEnd(hpbr, hpbr.current_size)
    /\ Held(hpbr, mem, hpbr.current_size)
    /\ refused = FALSE

\* The object has a layout, whatever its current size.
LEMMA RegionOfLayout ==
    ASSUME NEW c, Configured(c), NEW x
    PROVE  Layout(RegionOf(c, x))
<1> DEFINE h == RegionOf(c, x)
<1>1. /\ h.start = RegionStart(c.list, c.base) /\ h.max_size = c.size
      /\ h.intervals = WithGaps(c.list, c.size)
    BY DEF RegionOf
<1> HIDE DEF h
<1>2. /\ c.list \in Seq(Interval) /\ c.base \in Nat /\ IS_ALIGNED(c.base, BASE_4KB)
      /\ h.max_size \in 0 .. Limit /\ IS_ALIGNED(h.max_size, BASE_4KB)
      /\ Accepted(c.list, h.max_size)
      /\ \A k, m \in 1 .. Len(c.list) : k # m => Apart(c.list[k], c.list[m])
      /\ h.intervals = WithGaps(c.list, h.max_size)
    BY <1>1 DEF Configured
<1>3. Layout(h)
    BY ONLY <1>1, <1>2, LaidOut
<1> QED BY <1>3 DEF h

\* PageOf, EndAt and the rest depend on the intervals of the region alone.
LEMMA SameIntervals ==
    ASSUME NEW c, NEW x, NEW y, NEW e, NEW m, NEW n
    PROVE  /\ EndAt(RegionOf(c, x), n, e) <=> EndAt(RegionOf(c, y), n, e)
           /\ PageEnd(RegionOf(c, x), e) <=> PageEnd(RegionOf(c, y), e)
           /\ Held(RegionOf(c, x), m, e) <=> Held(RegionOf(c, y), m, e)
<1>1. RegionOf(c, x).intervals = RegionOf(c, y).intervals
    BY DEF RegionOf
<1>2. \A o : PageOf(RegionOf(c, x), o) = PageOf(RegionOf(c, y), o)
    BY <1>1 DEF PageOf
<1>3. EndAt(RegionOf(c, x), n, e) <=> EndAt(RegionOf(c, y), n, e)
    BY <1>1 DEF EndAt
<1>4. PageEnd(RegionOf(c, x), e) <=> PageEnd(RegionOf(c, y), e)
    BY <1>1 DEF PageEnd
<1>5. Held(RegionOf(c, x), m, e) <=> Held(RegionOf(c, y), m, e)
    BY <1>2 DEF Held
<1> QED BY <1>3, <1>4, <1>5

\* Resize moves the end of a region to the page boundary for the size it is given.
LEMMA ResizeRegion ==
    ASSUME NEW c, Configured(c), NEW cur \in 0 .. c.size, NEW m,
           PageEnd(RegionOf(c, cur), cur), Held(RegionOf(c, cur), m, cur),
           NEW new \in 0 .. c.size
    PROVE  \E e : /\ e \in 0 .. c.size /\ new <= e
                  /\ EndAt(RegionOf(c, cur), new, e)
                  /\ PageEnd(RegionOf(c, e), e)
                  /\ Held(RegionOf(c, e), After(RegionOf(c, cur), m, cur, e), e)
                  /\ Resized(Region(RegionOf(c, cur), m, FALSE), new)
                       = Region(RegionOf(c, e), After(RegionOf(c, cur), m, cur, e), FALSE)
<1> DEFINE h == RegionOf(c, cur)
<1>1. Layout(h)
    BY RegionOfLayout
<1>2. h.max_size = c.size
    BY DEF RegionOf
<1>3. \A x, n : Resizing(h, x, n) = Region(RegionOf(c, x), n, FALSE)
    BY DEF Resizing, Region, RegionOf
<1> HIDE DEF h
<1>4. PICK e : /\ EndAt(h, new, e)
               /\ Resized(Resizing(h, cur, m), new) = Resizing(h, e, After(h, m, cur, e))
    BY <1>1, <1>2, ResizedTo DEF h
<1>5. e \in 0 .. c.size /\ new <= e /\ PageEnd(h, e)
    BY <1>1, <1>2, <1>4, EndAtFacts
<1>6. Held(h, After(h, m, cur, e), e)
    <2>1. cur \in Nat
        BY LimitAssumption DEF Configured
    <2> QED BY <1>1, <1>2, <1>5, <2>1, HeldAfter DEF h
<1>7. PageEnd(RegionOf(c, e), e) /\ Held(RegionOf(c, e), After(h, m, cur, e), e)
    BY <1>5, <1>6, SameIntervals DEF h
<1> QED BY <1>3, <1>4, <1>5, <1>7 DEF h

\* Initialize leaves a region that is mapped to its full size with zero-filled pages.
LEMMA InitFacts ==
    ASSUME Init
    PROVE  /\ IInv /\ hpbr.current_size = config.size
           /\ \A o \in Offsets : o < config.size => mem[o].holds = "zero"
<1>1. PICK c \in Configs, base \in Bases :
          /\ Accepted(c.list, c.size) /\ IS_ALIGNED(c.size, BASE_4KB)
          /\ config = [list |-> c.list, size |-> c.size, base |-> base]
          /\ LET g == Initialized(c.list, c.size, base)
             IN hpbr = g.hpbr /\ mem = g.mem /\ refused = g.refused
    BY DEF Init
<1> DEFINE size == c.size
           h == RegionOf(config, 0)
           m == [o \in Offsets |-> Unmapped]
<1>2. Configured(config)
    <2>1. /\ c.list \in Seq(Interval) /\ size \in 0 .. Limit
          /\ \A k, n \in DOMAIN c.list : k # n => Apart(c.list[k], c.list[n])
        BY ConfigsAssumption DEF Interval, Apart
    <2>2. DOMAIN c.list = 1 .. Len(c.list)
        BY <2>1
    <2>3. base \in Nat /\ IS_ALIGNED(base, BASE_4KB)
        BY BasesAssumption
    <2>4. config.list = c.list /\ config.size = size /\ config.base = base
        BY <1>1
    <2> QED BY <1>1, <2>1, <2>2, <2>3, <2>4 DEF Configured
<1>3. config.list = c.list /\ config.size = size /\ config.base = base
    BY <1>1
<1>4. size \in Nat /\ size \in 0 .. size
    BY <1>2, <1>3, LimitAssumption DEF Configured
<1>5. Layout(h) /\ h.max_size = size
    BY <1>2, <1>3, RegionOfLayout DEF RegionOf
<1>6. PageEnd(h, 0)
    <2>1. EndAt(h, 0, 0)
        BY DEF EndAt
    <2>2. 0 \in 0 .. h.max_size
        BY <1>4, <1>5
    <2> HIDE DEF h
    <2> QED BY <1>5, <2>1, <2>2, EndAtFacts
<1>7. Held(h, m, 0)
    <2>1. \A o \in Offsets : ~(o < 0)
        BY DEF Offsets
    <2>2. m \in Memory
        BY DEF Memory, Unmapped
    <2> QED BY <2>1, <2>2 DEF Held
<1> DEFINE g == Resized(Region(h, m, FALSE), size)
<1>8. PICK e : /\ e \in 0 .. size /\ size <= e
               /\ PageEnd(RegionOf(config, e), e)
               /\ Held(RegionOf(config, e), After(h, m, 0, e), e)
               /\ g = Region(RegionOf(config, e), After(h, m, 0, e), FALSE)
    <2>1. 0 \in 0 .. config.size /\ size \in 0 .. config.size
        BY <1>3, <1>4
    <2> HIDE DEF m, size
    <2>2. \E e : /\ e \in 0 .. config.size /\ size <= e
                 /\ EndAt(RegionOf(config, 0), size, e)
                 /\ PageEnd(RegionOf(config, e), e)
                 /\ Held(RegionOf(config, e), After(RegionOf(config, 0), m, 0, e), e)
                 /\ Resized(Region(RegionOf(config, 0), m, FALSE), size)
                      = Region(RegionOf(config, e), After(RegionOf(config, 0), m, 0, e), FALSE)
        BY ONLY <1>2, <1>6, <1>7, <2>1, ResizeRegion
    <2> QED BY <1>3, <2>2
<1>9. e = size
    BY <1>4, <1>8
<1>10. Initialized(c.list, size, base) = [g EXCEPT !.hpbr.max_size = g.hpbr.current_size]
    BY <1>3 DEF Initialized, RegionOf
<1> DEFINE q == [g EXCEPT !.hpbr.max_size = g.hpbr.current_size]
           a == After(h, m, 0, e)
<1> HIDE DEF h, m, g, a
<1>11. g.hpbr = RegionOf(config, size) /\ g.mem = a /\ g.refused = FALSE
    BY <1>8, <1>9 DEF Region, a
<1>12. RegionOf(config, size).current_size = size /\ RegionOf(config, size).max_size = size
    BY <1>3 DEF RegionOf
<1>13. q.hpbr = RegionOf(config, size) /\ q.mem = a /\ q.refused = FALSE
    <2>1. [RegionOf(config, size) EXCEPT !.max_size = size] = RegionOf(config, size)
        BY <1>12 DEF RegionOf
    <2>2. g = [hpbr |-> g.hpbr, mem |-> g.mem, refused |-> g.refused]
        BY <1>8 DEF Region
    <2>3. q.hpbr = [g.hpbr EXCEPT !.max_size = g.hpbr.current_size]
        BY <2>2
    <2>4. q.mem = g.mem /\ q.refused = g.refused
        BY <2>2
    <2> HIDE DEF q
    <2> QED BY <1>11, <1>12, <2>1, <2>3, <2>4
<1>14. hpbr = RegionOf(config, size) /\ mem = a /\ refused = FALSE
    <2> HIDE DEF q
    <2> QED BY <1>1, <1>10, <1>13 DEF q
<1>15. IInv /\ hpbr.current_size = config.size
    BY <1>2, <1>3, <1>4, <1>8, <1>9, <1>12, <1>14 DEF IInv, a
<1>16. ASSUME NEW o \in Offsets, o < config.size PROVE mem[o].holds = "zero"
    <2>1. 0 <= o /\ ~(e <= o)
        BY <1>3, <1>4, <1>9, <1>16 DEF Offsets
    <2> QED BY <1>14, <2>1 DEF a, After
<1> QED BY <1>15, <1>16

\* What a call of Resize does to a region in a state of the invariant.
Resizes(new, e) ==
    /\ e \in 0 .. config.size /\ new <= e
    /\ EndAt(hpbr, new, e)
    /\ hpbr' = RegionOf(config, e) /\ PageEnd(hpbr', e)
    /\ mem' = After(hpbr, mem, hpbr.current_size, e) /\ Held(hpbr', mem', e)
    /\ UNCHANGED <<refused, config>>

\* A call of Resize: beyond the size of the region it changes nothing.
LEMMA ResizeStep ==
    ASSUME IInv, NEW new \in 0 .. Limit, Resize(new)
    PROVE  IF new > config.size THEN UNCHANGED vars ELSE \E e : Resizes(new, e)
<1> DEFINE x == hpbr.current_size
<1>1. /\ Configured(config) /\ hpbr = RegionOf(config, x) /\ x \in 0 .. config.size
      /\ PageEnd(hpbr, x) /\ Held(hpbr, mem, x) /\ refused = FALSE
    BY DEF IInv
<1>2. hpbr.max_size = config.size /\ config.size \in Nat /\ new \in Nat
    BY <1>1, LimitAssumption DEF RegionOf, Configured
<1>3. Becomes(Resized(Region(hpbr, mem, FALSE), new)) /\ config' = config
    BY <1>1 DEF Resize
<1> HIDE DEF x
<1>4. CASE new > config.size
    <2>1. Resized(Region(hpbr, mem, FALSE), new) = Region(hpbr, mem, FALSE)
        BY <1>2, <1>4 DEF Resized, Region
    <2>2. hpbr' = hpbr /\ mem' = mem /\ refused' = FALSE
        BY <1>3, <2>1 DEF Becomes, Region
    <2> QED BY <1>1, <1>3, <1>4, <2>2 DEF vars
<1>5. CASE ~(new > config.size)
    <2>1. new \in 0 .. config.size
        BY <1>2, <1>5
    <2>2. PICK e : /\ e \in 0 .. config.size /\ new <= e
                   /\ EndAt(hpbr, new, e)
                   /\ PageEnd(RegionOf(config, e), e)
                   /\ Held(RegionOf(config, e), After(hpbr, mem, x, e), e)
                   /\ Resized(Region(hpbr, mem, FALSE), new)
                        = Region(RegionOf(config, e), After(hpbr, mem, x, e), FALSE)
        <3>1. /\ Configured(config) /\ x \in 0 .. config.size
              /\ PageEnd(RegionOf(config, x), x) /\ Held(RegionOf(config, x), mem, x)
            BY <1>1
        <3>2. \E e : /\ e \in 0 .. config.size /\ new <= e
                     /\ EndAt(RegionOf(config, x), new, e)
                     /\ PageEnd(RegionOf(config, e), e)
                     /\ Held(RegionOf(config, e), After(RegionOf(config, x), mem, x, e), e)
                     /\ Resized(Region(RegionOf(config, x), mem, FALSE), new)
                          = Region(RegionOf(config, e), After(RegionOf(config, x), mem, x, e),
                                   FALSE)
            BY ONLY <2>1, <3>1, ResizeRegion
        <3> QED BY <1>1, <3>2
    <2>3. hpbr' = RegionOf(config, e) /\ mem' = After(hpbr, mem, x, e) /\ refused' = FALSE
        BY <1>3, <2>2 DEF Becomes, Region
    <2>4. Resizes(new, e)
        BY <1>1, <1>3, <2>2, <2>3 DEF Resizes, x
    <2> QED BY <1>5, <2>4
<1> QED BY <1>4, <1>5

\* A store changes one mapped offset.
LEMMA WriteStep ==
    ASSUME IInv, NEW o \in Stores, Write(o)
    PROVE  /\ o \in Offsets /\ o < hpbr.current_size
           /\ mem' = [mem EXCEPT ![o] = [page |-> mem[o].page, holds |-> "data"]]
           /\ UNCHANGED <<hpbr, refused, config>>
<1>1. o \in Offsets
    BY StoresAssumption DEF Offsets
<1>2. mem \in Memory /\ (~(o < hpbr.current_size) => mem[o] = Unmapped)
    BY <1>1 DEF IInv, Held
<1>3. mem[o].page # 0 /\ mem' = [mem EXCEPT ![o].holds = "data"]
      /\ UNCHANGED <<hpbr, refused, config>>
    BY DEF Write
<1>4. o < hpbr.current_size
    BY <1>2, <1>3 DEF Unmapped
<1>5. mem[o] \in [page : Nat, holds : {"none", "zero", "data"}]
    BY <1>1, <1>2 DEF Memory
<1>6. [mem[o] EXCEPT !.holds = "data"] = [page |-> mem[o].page, holds |-> "data"]
    BY <1>5
<1>7. [mem EXCEPT ![o].holds = "data"] = [mem EXCEPT ![o] = [mem[o] EXCEPT !.holds = "data"]]
    OBVIOUS
<1> QED BY <1>1, <1>3, <1>4, <1>6, <1>7

\* Every step keeps the invariant.
LEMMA NextIInv == IInv /\ [Next]_vars => IInv'
<1> SUFFICES ASSUME IInv, [Next]_vars PROVE IInv'
    OBVIOUS
<1>1. CASE UNCHANGED vars
    BY <1>1 DEF IInv, vars, Configured
<1>2. ASSUME NEW new \in 0 .. Limit, Resize(new) PROVE IInv'
    <2>1. CASE new > config.size
        BY <1>1, <1>2, <2>1, ResizeStep
    <2>2. CASE ~(new > config.size)
        <3>1. PICK e : Resizes(new, e)
            BY <1>2, <2>2, ResizeStep
        <3>2. hpbr'.current_size = e /\ config' = config /\ refused' = refused
            BY <3>1 DEF Resizes, RegionOf
        <3> QED BY <3>1, <3>2 DEF Resizes, IInv
    <2> QED BY <2>1, <2>2
<1>3. ASSUME NEW o \in Stores, Write(o) PROVE IInv'
    <2>1. /\ o \in Offsets /\ o < hpbr.current_size
          /\ mem' = [mem EXCEPT ![o] = [page |-> mem[o].page, holds |-> "data"]]
          /\ UNCHANGED <<hpbr, refused, config>>
        BY <1>3, WriteStep
    <2>2. /\ mem \in Memory
          /\ \A a \in Offsets :
                IF a < hpbr.current_size
                THEN mem[a].page = PageOf(hpbr, a) /\ mem[a].holds \in {"zero", "data"}
                ELSE mem[a] = Unmapped
        BY DEF IInv, Held
    <2>3. mem' \in Memory /\ mem'[o].page = mem[o].page /\ mem'[o].holds = "data"
          /\ \A a \in Offsets : a # o => mem'[a] = mem[a]
        BY <2>1, <2>2 DEF Memory
    <2>4. Held(hpbr, mem', hpbr.current_size)
        BY <2>1, <2>2, <2>3 DEF Held
    <2> QED BY <2>1, <2>4 DEF IInv
<1> QED BY <1>1, <1>2, <1>3 DEF Next

\* The invariant holds in every run: HugePageBackedRegion keeps its current size at a page
\* boundary with exactly the right pages below it.
THEOREM Invariance == Spec => []IInv
<1>1. Init => IInv
    BY InitFacts
<1> QED BY <1>1, NextIInv, PTL DEF Spec

-------------------------------------------------------------------------------
(* What the invariant says.                                                *)

\* What the invariant says of the intervals of the region.
LEMMA IInvFacts ==
    ASSUME IInv
    PROVE  /\ Layout(hpbr) /\ hpbr.max_size = config.size /\ config.size \in 0 .. Limit
           /\ hpbr.start = RegionStart(config.list, config.base)
           /\ hpbr.intervals = WithGaps(config.list, config.size)
           /\ FromList(hpbr.intervals, config.list)
           /\ StartsWell(config.list, config.size, config.base, hpbr.start)
<1>1. Configured(config) /\ hpbr = RegionOf(config, hpbr.current_size)
    BY DEF IInv
<1>2. /\ hpbr.max_size = config.size /\ hpbr.start = RegionStart(config.list, config.base)
      /\ hpbr.intervals = WithGaps(config.list, config.size)
    BY <1>1 DEF RegionOf
<1>3. Layout(hpbr)
    BY <1>1, RegionOfLayout
<1>4. /\ config.list \in Seq(Interval) /\ config.size \in Nat /\ config.size \in 0 .. Limit
      /\ Accepted(config.list, config.size) /\ config.base \in Nat
      /\ IS_ALIGNED(config.size, BASE_4KB) /\ IS_ALIGNED(config.base, BASE_4KB)
      /\ \A k, m \in 1 .. Len(config.list) : k # m => Apart(config.list[k], config.list[m])
    BY <1>1, LimitAssumption DEF Configured
<1>5. FromList(hpbr.intervals, config.list)
    BY <1>2, <1>4, WithGapsTiles
<1>6. StartsWell(config.list, config.size, config.base, hpbr.start)
    BY <1>2, <1>4, RegionStartsWell
<1> QED BY <1>2, <1>3, <1>4, <1>5, <1>6

\* The invariant is stronger than the type invariant.
LEMMA IInvTypeOK == IInv => TypeOK
<1> SUFFICES ASSUME IInv PROVE TypeOK
    OBVIOUS
<1>1. /\ Layout(hpbr) /\ hpbr.max_size = config.size /\ config.size \in 0 .. Limit
    BY IInvFacts
<1>2. hpbr.current_size \in 0 .. config.size /\ refused = FALSE
      /\ Held(hpbr, mem, hpbr.current_size)
    BY DEF IInv
<1>3. \A i \in ToSet(hpbr.intervals) : i.page_size \in PageSizes
    <2>1. hpbr.intervals \in Seq(Interval)
        BY <1>1 DEF Layout, Tiling
    <2>2. DOMAIN hpbr.intervals = 1 .. Len(hpbr.intervals)
        BY <2>1
    <2> QED BY <1>1, <2>2 DEF Layout, ToSet
<1>4. ASSUME NEW o \in Offsets PROVE mem[o].page \in PageSizes \cup {0}
    <2>1. CASE o < hpbr.current_size
        <3>1. o \in Nat /\ o < hpbr.max_size
            BY <1>1, <1>2, <2>1, LimitAssumption DEF Offsets
        <3> QED BY <1>1, <1>2, <2>1, <3>1, PageOfOffset DEF Held
    <2>2. CASE ~(o < hpbr.current_size)
        BY <1>2, <2>2 DEF Held, Unmapped
    <2> QED BY <2>1, <2>2
<1>5. hpbr.start \in Nat
    BY <1>1 DEF Layout
<1> QED BY <1>1, <1>2, <1>3, <1>4, <1>5 DEF TypeOK

\* The invariant gives each offset the page size of its interval.
LEMMA IInvUniform == IInv => Uniform
<1> SUFFICES ASSUME IInv, NEW o \in Offsets, mem[o].page # 0
             PROVE  /\ \A i \in ToSet(config.list) : Within(i, o) => mem[o].page = i.page_size
                    /\ (\A i \in ToSet(config.list) : ~Within(i, o)) => mem[o].page = BASE_4KB
    BY DEF Uniform
<1> DEFINE w == hpbr.intervals
           list == config.list
<1>1. /\ Layout(hpbr) /\ hpbr.max_size = config.size /\ config.size \in 0 .. Limit
      /\ FromList(w, list)
    BY IInvFacts
<1>2. hpbr.current_size \in 0 .. config.size /\ Held(hpbr, mem, hpbr.current_size)
    BY DEF IInv
<1>3. o < hpbr.current_size /\ mem[o].page = PageOf(hpbr, o)
    BY <1>2 DEF Held, Unmapped
<1>4. o \in Nat /\ o + 1 \in 1 .. hpbr.max_size
    BY <1>1, <1>2, <1>3, LimitAssumption DEF Offsets
<1>5. PICK k \in 1 .. Len(w) : w[k].start_offset < o + 1 /\ o + 1 <= w[k].end_offset
    BY <1>1, <1>4, SomeInterval
<1>6. Within(w[k], o) /\ w[k].start_offset \in Nat /\ w[k].end_offset \in Nat
    BY <1>1, <1>4, <1>5, LayoutFacts DEF Within
<1>7. mem[o].page = w[k].page_size
    BY <1>1, <1>3, <1>4, <1>6, OneInterval
<1>8. /\ list \in Seq(Interval)
      /\ \A a, b \in 1 .. Len(list) : a # b => Apart(list[a], list[b])
    BY DEF IInv, Configured
<1> HIDE DEF w, list
<1>9. /\ ToSet(list) = {list[a] : a \in 1 .. Len(list)}
      /\ \A a \in 1 .. Len(list) : list[a].start_offset \in Nat /\ list[a].end_offset \in Nat
    <2>1. DOMAIN list = 1 .. Len(list) /\ \A a \in 1 .. Len(list) : list[a] \in Interval
        BY <1>8
    <2> QED BY <2>1 DEF ToSet, Interval
<1>10. \A i, j : /\ i.start_offset \in Nat /\ i.end_offset \in Nat
                 /\ j.start_offset \in Nat /\ j.end_offset \in Nat
                 /\ Within(i, o) /\ Within(j, o)
                 => ~Apart(i, j)
    BY <1>4 DEF Within, Apart
<1>11. CASE \E a \in 1 .. Len(list) : w[k] = list[a]
    <2>1. PICK a \in 1 .. Len(list) : w[k] = list[a]
        BY <1>11
    <2>2. \A b \in 1 .. Len(list) : Within(list[b], o) => b = a
        BY <1>6, <1>8, <1>9, <1>10, <2>1
    <2>3. list[a] \in ToSet(list) /\ \A i \in ToSet(list) : Within(i, o) => i = list[a]
        BY <1>9, <2>2
    <2> QED BY <1>6, <1>7, <2>1, <2>3 DEF list
<1>12. CASE w[k].page_size = BASE_4KB /\ \A a \in 1 .. Len(list) : Apart(w[k], list[a])
    <2>1. \A b \in 1 .. Len(list) : ~Within(list[b], o)
        BY <1>6, <1>9, <1>10, <1>12
    <2>2. \A i \in ToSet(list) : ~Within(i, o)
        BY <1>9, <2>1
    <2> QED BY <1>7, <1>12, <2>2 DEF list
<1> QED BY <1>1, <1>11, <1>12 DEF FromList

\* The object and its memory are always of the types given for them.
THEOREM TypeCorrect == Spec => []TypeOK
<1> QED BY Invariance, IInvTypeOK, PTL

\* Every mapped offset of a pool has the page size that the configuration file lists for
\* it, and 4KB where it lists none, after any series of resizes.
THEOREM UniformPages == Spec => []Uniform
<1> QED BY Invariance, IInvUniform, PTL

\* No mmap or munmap that Initialize, ExtendRegion or ShrinkRegion makes is refused for its
\* alignment.
THEOREM AlwaysAligned == Spec => []NeverRefused
<1>1. IInv => NeverRefused
    BY DEF IInv, NeverRefused
<1> QED BY <1>1, Invariance, PTL

\* A pool never leaves the range that its first mmap reserved.
THEOREM InReservation == Spec => []WithinReservation
<1>1. IInv => WithinReservation
    BY IInvFacts DEF StartsWell, WithinReservation
<1> QED BY <1>1, Invariance, PTL

-------------------------------------------------------------------------------
(* The region implements ResizableRegion.                                  *)

\* The refinement mapping's EndOf(n) is the page boundary that Resize(n) moves to.
LEMMA EndOfIsEnd ==
    ASSUME IInv, NEW n \in 0 .. hpbr.max_size, NEW e
    PROVE  EndAt(hpbr, n, e) <=> e = EndOf(n)
<1>1. Layout(hpbr)
    BY IInvFacts
<1>2. EndAt(hpbr, n, EndOf(n))
    <2>1. CASE n = 0
        BY <2>1 DEF EndAt, EndOf
    <2>2. CASE n # 0
        <3> DEFINE w == hpbr.intervals
                   P(i) == i.start_offset < n /\ n <= i.end_offset
                   c == CHOOSE i \in ToSet(w) : P(i)
        <3>1. ToSet(w) = {w[k] : k \in 1 .. Len(w)}
            <4>1. w \in Seq(Interval)
                BY <1>1 DEF Layout, Tiling
            <4> HIDE DEF w
            <4> QED BY <4>1 DEF ToSet
        <3>2. n \in 1 .. hpbr.max_size
            BY <2>2
        <3>3. \E k \in 1 .. Len(w) : P(w[k])
            BY <1>1, <3>2, SomeInterval
        <3>4. EndOf(n) = EndIn(c, n)
            BY <2>2 DEF EndOf
        <3> HIDE DEF w, P
        <3>5. c \in ToSet(w) /\ P(c)
            BY <3>1, <3>3
        <3> HIDE DEF c
        <3>6. PICK k \in 1 .. Len(w) : c = w[k]
            BY <3>1, <3>5
        <3> QED BY <2>2, <3>4, <3>5, <3>6 DEF EndAt, P, w
    <2> QED BY <2>1, <2>2
<1>3. ASSUME EndAt(hpbr, n, e) PROVE e = EndOf(n)
    <2> DEFINE f == EndOf(n)
    <2>1. hpbr.max_size \in Nat
        BY <1>1, LimitAssumption DEF Layout
    <2> HIDE DEF f
    <2>2. EndAt(hpbr, n, f)
        BY <1>2 DEF f
    <2>3. e \in Int /\ f \in Int
        BY <1>1, <1>3, <2>1, <2>2, EndAtFacts
    <2>4. n <= n
        BY <2>1
    <2>5. e <= f /\ f <= e
        BY <1>1, <1>3, <2>2, <2>4, EndAtMonotone
    <2> QED BY <2>3, <2>5 DEF f
<1> QED BY <1>2, <1>3

\* The refinement mapping: the boundaries, and what each offset holds.
Ends == [n \in 0 .. hpbr.max_size |-> EndOf(n)]
Holds == [o \in Offsets |-> mem[o].holds]

\* The initial states map to initial states of ResizableRegion.
LEMMA AbstractInit == Init => Abstract!Init
<1> SUFFICES ASSUME Init PROVE Abstract!Init
    OBVIOUS
<1>1. /\ IInv /\ hpbr.current_size = config.size
      /\ \A o \in Offsets : o < config.size => mem[o].holds = "zero"
    BY InitFacts
<1>2. Layout(hpbr) /\ hpbr.max_size = config.size /\ config.size \in 0 .. Limit
    BY <1>1, IInvFacts
<1>3. \A n \in 0 .. hpbr.max_size : EndAt(hpbr, n, EndOf(n))
    BY <1>1, EndOfIsEnd
<1>4. Ends \in Abstract!PageEnds(hpbr.max_size)
    <2> DEFINE m == hpbr.max_size
    <2>1. m \in Nat
        BY <1>2, LimitAssumption
    <2>2. ASSUME NEW n \in 0 .. m
          PROVE  EndOf(n) \in 0 .. m /\ n <= EndOf(n) /\ EndOf(EndOf(n)) = EndOf(n)
        <3>1. EndOf(n) \in 0 .. m /\ n <= EndOf(n) /\ PageEnd(hpbr, EndOf(n))
            BY <1>2, <1>3, EndAtFacts
        <3>2. EndAt(hpbr, EndOf(n), EndOf(n))
            BY <1>2, <3>1, PageEndIsEnd
        <3> QED BY <1>1, <3>1, <3>2, EndOfIsEnd
    <2>3. ASSUME NEW n \in 0 .. m, NEW k \in 0 .. m, n <= k PROVE EndOf(n) <= EndOf(k)
        BY <1>2, <1>3, <2>3, EndAtMonotone
    <2>4. EndOf(0) = 0
        BY DEF EndOf
    <2> HIDE DEF m
    <2>5. [n \in 0 .. m |-> EndOf(n)] \in Abstract!PageEnds(m)
        <3> DEFINE f == [n \in 0 .. m |-> EndOf(n)]
        <3>1. f \in [0 .. m -> 0 .. m]
            BY <2>2
        <3>2. f[0] = 0
            BY <2>1, <2>4
        <3>3. \A n \in 0 .. m : n <= f[n] /\ f[f[n]] = f[n]
            BY <2>2
        <3>4. \A n, k \in 0 .. m : n <= k => f[n] <= f[k]
            BY <2>3
        <3> HIDE DEF f
        <3>5. f \in Abstract!PageEnds(m)
            BY <3>1, <3>2, <3>3, <3>4 DEF Abstract!PageEnds
        <3> QED BY <3>5 DEF f
    <2> QED BY <2>5 DEF Ends, m
<1>5. Holds = [o \in Abstract!Offsets |-> IF o < hpbr.max_size THEN "zero" ELSE "none"]
    <2>1. \A o \in Offsets : mem[o].holds = IF o < hpbr.max_size THEN "zero" ELSE "none"
        BY <1>1, <1>2 DEF IInv, Held, Unmapped
    <2> QED BY <2>1 DEF Holds, Offsets, Abstract!Offsets
<1> QED BY <1>1, <1>2, <1>4, <1>5 DEF Abstract!Init, Ends, Holds

\* Each step maps to a step of ResizableRegion or to a stutter.
LEMMA AbstractNext == IInv /\ [Next]_vars => [Abstract!Next]_Abstract!vars
<1> SUFFICES ASSUME IInv, [Next]_vars PROVE [Abstract!Next]_Abstract!vars
    OBVIOUS
<1>1. CASE UNCHANGED vars
    BY <1>1 DEF vars, Abstract!vars, EndOf
<1>2. ASSUME NEW new \in 0 .. Limit, Resize(new) PROVE [Abstract!Next]_Abstract!vars
    <2>1. CASE new > config.size
        BY <1>1, <1>2, <2>1, ResizeStep
    <2>2. CASE ~(new > config.size)
        <3>1. PICK e : Resizes(new, e)
            BY <1>2, <2>2, ResizeStep
        <3>2. /\ hpbr.max_size = config.size /\ config.size \in 0 .. Limit
              /\ hpbr.intervals = WithGaps(config.list, config.size)
            BY IInvFacts
        <3>3. /\ hpbr'.max_size = hpbr.max_size /\ hpbr'.intervals = hpbr.intervals
              /\ hpbr'.current_size = e
            BY <3>1, <3>2 DEF Resizes, RegionOf
        <3>4. Ends' = Ends
            BY <3>3 DEF Ends, EndOf
        <3>5. new \in 0 .. hpbr.max_size /\ ~(new > hpbr.max_size)
            BY <2>2, <3>2, LimitAssumption
        <3>6. Ends[new] = e
            BY <3>1, <3>5, EndOfIsEnd DEF Resizes, Ends
        <3>7. Holds' = [o \in Offsets |-> IF o >= e THEN "none"
                                          ELSE IF o >= hpbr.current_size THEN "zero"
                                          ELSE Holds[o]]
            <4>1. \A o \in Offsets : o \in Int
                BY DEF Offsets
            <4>2. e \in Int /\ hpbr.current_size \in Int
                BY <3>1, <3>2, LimitAssumption DEF Resizes, IInv
            <4>3. \A o \in Offsets :
                      mem'[o].holds = IF o >= e THEN "none"
                                      ELSE IF o >= hpbr.current_size THEN "zero"
                                      ELSE Holds[o]
                BY <3>1, <4>1, <4>2 DEF Resizes, After, Unmapped, Holds
            <4> QED BY <4>3 DEF Holds
        <3>8. new \in 0 .. Limit + 1
            BY LimitAssumption
        <3>9. Abstract!Resize(new)
            BY <3>3, <3>4, <3>5, <3>6, <3>7
               DEF Abstract!Resize, Abstract!Resized, Abstract!Offsets, Offsets, Ends, Holds
        <3> QED BY <3>8, <3>9 DEF Abstract!Next
    <2> QED BY <2>1, <2>2
<1>3. ASSUME NEW o \in Stores, Write(o) PROVE [Abstract!Next]_Abstract!vars
    <2>1. /\ o \in Offsets /\ o < hpbr.current_size
          /\ mem' = [mem EXCEPT ![o] = [page |-> mem[o].page, holds |-> "data"]]
          /\ UNCHANGED <<hpbr, refused, config>>
        BY <1>3, WriteStep
    <2>2. mem \in Memory
        BY DEF IInv, Held
    <2>3. Ends' = Ends
        BY <2>1 DEF Ends, EndOf
    <2>4. Holds' = [Holds EXCEPT ![o] = "data"]
        <3>1. \A a \in Offsets : mem'[a].holds = IF a = o THEN "data" ELSE mem[a].holds
            BY <2>1, <2>2 DEF Memory
        <3> QED BY <2>1, <3>1 DEF Holds
    <2>5. Abstract!Write(o)
        BY <2>1, <2>3, <2>4 DEF Abstract!Write, Ends, Holds
    <2> QED BY <2>1, <2>5 DEF Abstract!Next, Abstract!Offsets, Offsets
<1> QED BY <1>1, <1>2, <1>3 DEF Next

\* HugePageBackedRegion implements ResizableRegion: the pools may take Resize for moving the
\* end to a page boundary, with old bytes kept and new bytes zero.
THEOREM ImplementsTheResizable == Spec => ImplementsResizable
<1>1. Spec => Abstract!Spec
    BY AbstractInit, AbstractNext, Invariance, PTL DEF Spec, Abstract!Spec
<1> QED BY <1>1 DEF ImplementsResizable

-------------------------------------------------------------------------------
(* Sequences of a few symbols.                                             *)

\* A sequence is given by its length and its elements.
LEMMA SameSequence ==
    ASSUME NEW S, NEW s \in Seq(S), NEW t \in Seq(S), Len(s) = Len(t),
           \A k \in 1 .. Len(s) : s[k] = t[k]
    PROVE  s = t
OBVIOUS

\* A sequence of one element, and one of two.
LEMMA Singleton ==
    ASSUME NEW S, NEW s \in Seq(S), Len(s) = 1
    PROVE  s = <<s[1]>>
OBVIOUS

\* One of two elements.
LEMMA Pair ==
    ASSUME NEW S, NEW s \in Seq(S), Len(s) = 2
    PROVE  s = <<s[1], s[2]>>
OBVIOUS

\* What Append adds to one element.
LEMMA AppendToOne ==
    ASSUME NEW S, NEW a \in S, NEW b \in S
    PROVE  Append(<<a>>, b) = <<a, b>>
<1> DEFINE x == <<a>>
           y == <<a, b>>
           z == Append(x, b)
<1>1. x \in Seq(S) /\ Len(x) = 1 /\ x[1] = a
    OBVIOUS
<1>2. y \in Seq(S) /\ Len(y) = 2 /\ y[1] = a /\ y[2] = b
    OBVIOUS
<1> HIDE DEF x, y
<1>3. z \in Seq(S) /\ Len(z) = 2  /\ z[2] = b
    <2>1. z \in Seq(S) /\ Len(z) = Len(x) + 1 /\ z[Len(x) + 1] = b
        <3>1. x \in Seq(S) /\ b \in S
            BY <1>1
        <3> QED BY ONLY <3>1, AppendProperties
    <2> QED BY <1>1, <2>1
<1>4. z[1] = a
    <2>1. 1 \in 1 .. Len(x)
      BY <1>1
    <2> QED BY <1>1, <2>1, AppendProperties
<1> HIDE DEF z
<1>5. \A k \in 1 .. Len(z) : z[k] = y[k]
    <2>1. \A k \in 1 .. Len(z) : k = 1 \/ k = 2
        BY <1>3
    <2> QED BY <1>2, <1>3, <1>4, <2>1
<1>6. z = y
    BY <1>2, <1>3, <1>5, SameSequence
<1> QED BY <1>6 DEF x, y, z

\* A buffer is a sequence.
LEMMA Buffer ==
    ASSUME NEW S, NEW n \in Nat, NEW t \in [1 .. n -> S]
    PROVE  t \in Seq(S) /\ Len(t) = n
OBVIOUS

\* The first elements of a longer sequence.
LEMMA Beginnings ==
    ASSUME NEW S, NEW t \in Seq(S), Len(t) >= 2
    PROVE  /\ SubSeq(t, 1, 0) = <<>> /\ SubSeq(t, 1, 1) = <<t[1]>>
           /\ SubSeq(t, 1, 2) = <<t[1], t[2]>>
<1>1. SubSeq(t, 1, 0) \in Seq(S) /\ Len(SubSeq(t, 1, 0)) = 0
    OBVIOUS
<1>2. SubSeq(t, 1, 1) \in Seq(S) /\ Len(SubSeq(t, 1, 1)) = 1 /\ SubSeq(t, 1, 1)[1] = t[1]
    OBVIOUS
<1>3. SubSeq(t, 1, 2) \in Seq(S) /\ Len(SubSeq(t, 1, 2)) = 2 /\ SubSeq(t, 1, 2)[1] = t[1] /\ SubSeq(t, 1, 2)[2] = t[2]
    OBVIOUS
<1>4. SubSeq(t, 1, 0) = <<>>
    BY <1>1
<1> DEFINE x == SubSeq(t, 1, 1)
           y == SubSeq(t, 1, 2)
<1> HIDE DEF x, y
<1>5. x = <<x[1]>>
    <2>1. x \in Seq(S) /\ Len(x) = 1
        BY <1>2 DEF x
    <2> QED BY <2>1, Singleton
<1>6. y = <<y[1], y[2]>>
    <2>1. y \in Seq(S) /\ Len(y) = 2
        BY <1>3 DEF y
    <2> QED BY <2>1, Pair
<1> QED BY <1>2, <1>3, <1>4, <1>5, <1>6 DEF x, y

\* FindFrom stops at the first of the symbols, or behind the file.
LEMMA FindFromIs ==
    ASSUME NEW X, file \in Seq(X), NEW S, NEW p \in Nat \ {0}, NEW q \in p .. Len(file) + 1,
           q = Len(file) + 1 \/ file[q] \in S, \A j \in p .. q - 1 : file[j] \notin S
    PROVE  FindFrom(p, S) = q
<1> DEFINE T == {k \in p .. Len(file) : file[k] \in S} \cup {Len(file) + 1}
<1>1. Len(file) \in Nat
    OBVIOUS
<1>2. q \in T /\ \A k \in T : q <= k
    BY <1>1
<1>3. \A x \in T : (\A k \in T : x <= k) => x = q
    BY <1>1, <1>2
<1>4. FindFrom(p, S) = Min(T)
    BY DEF FindFrom
<1> HIDE DEF T
<1> QED BY <1>2, <1>3, <1>4 DEF Min

\* WithoutSpaces goes over the symbols once.
LEMMA WithoutSpacesRun ==
    ASSUME NEW S, NEW list \in Seq(S)
    PROVE  \E run :
              /\ run[0] = <<>>
              /\ \A k \in 1 .. Len(list) :
                    run[k] = IF list[k] = Space THEN run[k - 1] ELSE Append(run[k - 1], list[k])
              /\ WithoutSpaces(list) = run[Len(list)]
<1> DEFINE n == Len(list)
           Eq(it) == it = [s \in SUBSET DOMAIN list |->
                        IF s = {} THEN <<>>
                        ELSE LET x == Max(s)
                             IN IF list[x] = Space THEN it[s \ {x}]
                                ELSE Append(it[s \ {x}], list[x])]
           iter == CHOOSE it : Eq(it)
           F == [k \in 1 .. n |-> [l \in Seq(S) |->
                    IF list[k] = Space THEN l ELSE Append(l, list[k])]]
<1>1. WithoutSpaces(list) = iter[DOMAIN list]
    BY DEF WithoutSpaces, FoldLeft, MapThenFoldSet
<1>2. n \in Nat /\ DOMAIN list = 1 .. n /\ \A k \in 1 .. n : list[k] \in S
    OBVIOUS
<1>3. F \in [1 .. n -> [Seq(S) -> Seq(S)]] /\ <<>> \in Seq(S)
    BY <1>2
<1>4. \E it : Eq(it)
    <2> HIDE DEF F, n
    <2>1. PICK it \in [SUBSET (1 .. n) -> Seq(S)] :
              \A s \in SUBSET (1 .. n) :
                  it[s] = IF s = {} THEN <<>> ELSE F[Max(s)][it[s \ {Max(s)}]]
        <3>1. Folds(Seq(S), n, <<>>, F)
            BY <1>2, <1>3, Folding
        <3> QED BY <3>1 DEF Folds
    <2>2. ASSUME NEW s \in SUBSET (1 .. n), s # {}
          PROVE  F[Max(s)][it[s \ {Max(s)}]] =
                     IF list[Max(s)] = Space THEN it[s \ {Max(s)}]
                     ELSE Append(it[s \ {Max(s)}], list[Max(s)])
        BY <1>2, <2>2, MaxOfNaturals DEF F
    <2>3. Eq(it)
        <3>1. it = [s \in SUBSET (1 .. n) |-> it[s]]
            OBVIOUS
        <3> QED BY <1>2, <2>1, <2>2, <3>1
    <2> HIDE DEF Eq
    <2> QED BY <2>3
<1>5. Eq(iter)
    <2> HIDE DEF Eq
    <2> QED BY <1>4
<1>6. \A s \in SUBSET (1 .. n) :
          iter[s] = IF s = {} THEN <<>>
                    ELSE IF list[Max(s)] = Space THEN iter[s \ {Max(s)}]
                         ELSE Append(iter[s \ {Max(s)}], list[Max(s)])
    <2> HIDE DEF iter
    <2> QED BY <1>2, <1>5
<1> HIDE DEF iter, n, F, Eq
<1> DEFINE run == [k \in 0 .. n |-> iter[1 .. k]]
<1>7. run[0] = <<>>
    <2>1. 1 .. 0 = {} /\ 0 \in 0 .. n /\ {} \in SUBSET (1 .. n)
        BY <1>2
    <2> QED BY <1>6, <2>1
<1>8. ASSUME NEW k \in 1 .. n
      PROVE  run[k] = IF list[k] = Space THEN run[k - 1] ELSE Append(run[k - 1], list[k])
    <2>1. Max(1 .. k) = k /\ (1 .. k) \ {k} = 1 .. k - 1
        BY MaxOfRange
    <2>2. 1 .. k \in SUBSET (1 .. n) /\ 1 .. k # {} /\ k - 1 \in 0 .. n /\ k \in 0 .. n
        BY <1>2
    <2> QED BY <1>6, <2>1, <2>2
<1>9. WithoutSpaces(list) = run[n]
    BY <1>1, <1>2 DEF iter
<1> HIDE DEF run
<1> QED BY <1>2, <1>7, <1>8, <1>9 DEF n

\* At most two elements.
LEMMA AtMostTwo ==
    ASSUME NEW S, NEW a \in S, NEW b \in S, NEW w, w = <<>> \/ w = <<a>> \/ w = <<a, b>>
    PROVE  w \in Seq(S) /\ Len(w) <= 2 /\ \A k \in 1 .. Len(w) : w[k] \in {a, b}
<1>1. CASE w = <<>>
    BY <1>1
<1>2. CASE w = <<a>>
    BY <1>2
<1>3. CASE w = <<a, b>>
    BY <1>3
<1> QED BY <1>1, <1>2, <1>3

\* The one or two symbols of a field, and where a space may stand.
LEMMA Spaceless ==
    ASSUME NEW S, NEW s \in Seq(S), Len(s) <= 3, Len(s) = 3 => s[1] = Space \/ s[3] = Space
    PROVE  /\ WithoutSpaces(s) \in Seq(S) /\ Len(WithoutSpaces(s)) <= 2
           /\ \A k \in 1 .. Len(WithoutSpaces(s)) :
                 \E j \in 1 .. Len(s) : WithoutSpaces(s)[k] = s[j]
           /\ s = <<>> => WithoutSpaces(s) = <<>>
           /\ Len(s) = 1 /\ s[1] # Space => WithoutSpaces(s) = s
           /\ Len(s) = 2 /\ s[1] # Space /\ s[2] # Space => WithoutSpaces(s) = s
           /\ Len(s) = 2 /\ s[1] = Space /\ s[2] # Space => WithoutSpaces(s) = <<s[2]>>
           /\ Len(s) = 2 /\ s[1] # Space /\ s[2] = Space => WithoutSpaces(s) = <<s[1]>>
           /\ Len(s) = 3 /\ s[1] = Space /\ s[2] # Space /\ s[3] # Space
                 => WithoutSpaces(s) = <<s[2], s[3]>>
           /\ Len(s) = 3 /\ s[1] # Space /\ s[2] # Space /\ s[3] = Space
                 => WithoutSpaces(s) = <<s[1], s[2]>>
<1>1. PICK run :
          /\ run[0] = <<>>
          /\ \A k \in 1 .. Len(s) :
                run[k] = IF s[k] = Space THEN run[k - 1] ELSE Append(run[k - 1], s[k])
          /\ WithoutSpaces(s) = run[Len(s)]
    BY WithoutSpacesRun
<1>2. Len(s) \in Nat /\ \A k \in 1 .. Len(s) : s[k] \in S
    OBVIOUS
<1> DEFINE w == WithoutSpaces(s)
<1> DEFINE n == Len(s)
<1>3. n = 0 \/ n = 1 \/ n = 2 \/ n = 3
    <2>1. n \in Nat /\ n <= 3
        BY <1>2
    <2> HIDE DEF n
    <2> QED BY <2>1
<1>4. CASE Len(s) = 0
    <2>1. w = <<>> /\ s = <<>>
        BY <1>1, <1>4
    <2> HIDE DEF w
    <2> QED BY <1>4, <2>1 DEF w
<1>5. ASSUME Len(s) >= 1 PROVE run[1] = IF s[1] = Space THEN <<>> ELSE <<s[1]>>
    <2>1. 1 \in 1 .. Len(s) /\ run[1 - 1] = <<>>
        BY <1>1, <1>2, <1>5
    <2>2. Append(<<>>, s[1]) = <<s[1]>>
        OBVIOUS
    <2> QED BY <1>1, <2>1, <2>2
<1>6. ASSUME Len(s) >= 2
      PROVE  run[2] = IF s[2] = Space THEN run[1] ELSE IF s[1] = Space THEN <<s[2]>> ELSE <<s[1], s[2]>>
    <2>1. 2 \in 1 .. Len(s) /\ 2 - 1 = 1
        BY <1>2, <1>6
    <2>2. run[2] = IF s[2] = Space THEN run[1] ELSE Append(run[1], s[2])
        BY <1>1, <2>1
    <2>3. Append(<<>>, s[2]) = <<s[2]>> /\ Append(<<s[1]>>, s[2]) = <<s[1], s[2]>>
        <3>1. s[1] \in S /\ s[2] \in S
            BY <1>2, <1>6
        <3> QED BY <3>1, AppendToOne
    <2>4. Len(s) >= 1
        BY <1>2, <1>6
    <2>5. run[1] = IF s[1] = Space THEN <<>> ELSE <<s[1]>>
        BY <1>5, <2>4
    <2> HIDE DEF w
    <2> QED BY <2>2, <2>3, <2>5
<1>7. ASSUME Len(s) = 3
      PROVE  run[3] = IF s[3] = Space THEN run[2] ELSE IF s[2] = Space THEN <<s[3]>> ELSE <<s[2], s[3]>>
    <2>1. 3 \in 1 .. Len(s) /\ 3 - 1 = 2
        BY <1>2, <1>7
    <2>2. run[3] = IF s[3] = Space THEN run[2] ELSE Append(run[2], s[3])
        BY <1>1, <2>1
    <2>3. Append(<<>>, s[3]) = <<s[3]>> /\ Append(<<s[2]>>, s[3]) = <<s[2], s[3]>>
        <3>1. s[2] \in S /\ s[3] \in S
            BY <1>2, <1>7
        <3> QED BY <3>1, AppendToOne
    <2>4. s[3] # Space => s[1] = Space
        BY <1>7
    <2>5. /\ run[1] = IF s[1] = Space THEN <<>> ELSE <<s[1]>>
          /\ run[2] = IF s[2] = Space THEN run[1]
                      ELSE IF s[1] = Space THEN <<s[2]>> ELSE <<s[1], s[2]>>
        <3>1. Len(s) >= 1 /\ Len(s) >= 2
            BY <1>7
        <3> QED BY <1>5, <1>6, <3>1
    <2> HIDE DEF w
    <2> QED BY <2>2, <2>3, <2>4, <2>5
<1>8. CASE Len(s) = 1
    <2>1. w = IF s[1] = Space THEN <<>> ELSE <<s[1]>>
        BY <1>1, <1>5, <1>8
    <2>2. s[1] \in S /\ s = <<s[1]>>
        BY <1>2, <1>8
    <2> HIDE DEF w
    <2> QED BY <1>8, <2>1, <2>2 DEF w
<1>9. CASE Len(s) = 2
    <2>1. w = IF s[2] = Space THEN (IF s[1] = Space THEN <<>> ELSE <<s[1]>>)
              ELSE IF s[1] = Space THEN <<s[2]>> ELSE <<s[1], s[2]>>
        BY <1>1, <1>5, <1>6, <1>9
    <2>2. s[1] \in S /\ s[2] \in S /\ s = <<s[1], s[2]>>
        BY <1>2, <1>9
    <2>3. 1 \in 1 .. Len(s) /\ 2 \in 1 .. Len(s)
        BY <1>9
    <2> HIDE DEF w
    <2>4. w \in Seq(S) /\ Len(w) <= 2 /\ \A k \in 1 .. Len(w) : w[k] \in {s[1], s[2]}
        <3>1. CASE w = <<s[2]>>
            BY <2>2, <3>1, AtMostTwo
        <3>2. CASE w = <<>> \/ w = <<s[1]>> \/ w = <<s[1], s[2]>>
            BY <2>2, <3>2, AtMostTwo
        <3> QED BY <2>1, <3>1, <3>2
    <2>5. s # <<>> /\ ~(Len(s) = 1) /\ ~(Len(s) = 3)
        BY <1>9
    <2>6. \A k \in 1 .. Len(w) : \E j \in 1 .. Len(s) : w[k] = s[j]
        BY <2>3, <2>4
    <2> QED BY <2>1, <2>2, <2>4, <2>5, <2>6 DEF w
<1>10. CASE Len(s) = 3
    <2>1. \/ w = <<>> \/ w = <<s[1]>> \/ w = <<s[2]>> \/ w = <<s[3]>>
          \/ w = <<s[1], s[2]>> \/ w = <<s[2], s[3]>>
        BY <1>1, <1>5, <1>6, <1>7, <1>10
    <2>2. s[1] \in S /\ s[2] \in S /\ s[3] \in S
        BY <1>2, <1>10
    <2>3. /\ s[1] = Space /\ s[2] # Space /\ s[3] # Space => w = <<s[2], s[3]>>
          /\ s[1] # Space /\ s[2] # Space /\ s[3] = Space => w = <<s[1], s[2]>>
        BY <1>1, <1>5, <1>6, <1>7, <1>10
    <2> HIDE DEF w
    <2>4. w \in Seq(S) /\ Len(w) <= 2 /\ \A k \in 1 .. Len(w) : w[k] \in {s[1], s[2], s[3]}
        <3>1. CASE w = <<>> \/ w = <<s[1]>> \/ w = <<s[1], s[2]>>
            BY <2>2, <3>1, AtMostTwo
        <3>2. CASE w = <<s[2]>> \/ w = <<s[2], s[3]>>
            BY <2>2, <3>2, AtMostTwo
        <3>3. CASE w = <<s[3]>>
            BY <2>2, <3>3, AtMostTwo
        <3> QED BY <2>1, <3>1, <3>2, <3>3
    <2>5. s # <<>> /\ ~(Len(s) = 1) /\ ~(Len(s) = 2)
        BY <1>10
    <2>6. 1 \in 1 .. Len(s) /\ 2 \in 1 .. Len(s) /\ 3 \in 1 .. Len(s)
        BY <1>10
    <2>7. \A k \in 1 .. Len(w) : \E j \in 1 .. Len(s) : w[k] = s[j]
        BY <2>4, <2>6
    <2> QED BY <2>3, <2>4, <2>5, <2>7 DEF w
<1> QED BY <1>3, <1>4, <1>8, <1>9, <1>10 DEF n

\* What a terminated buffer holds, for a field or nothing.
LEMMA StringIs ==
    ASSUME NEW S, NEW t \in [1 .. 3 -> S], t[3] = NUL
    PROVE  /\ t[1] = NUL => String(t) = <<>>
           /\ t[1] # NUL /\ t[2] = NUL => String(t) = <<t[1]>>
           /\ t[1] # NUL /\ t[2] # NUL => String(t) = <<t[1], t[2]>>
<1> DEFINE T == {k \in 1 .. 3 : t[k] = NUL}
           m == IF t[1] = NUL THEN 1 ELSE IF t[2] = NUL THEN 2 ELSE 3
<1>1. DOMAIN t = 1 .. 3 /\ t \in Seq(S) /\ Len(t) = 3
    BY Buffer
<1>2. m \in T /\ \A k \in T : m <= k
    OBVIOUS
<1>3. \A x \in T : (\A k \in T : x <= k) => x = m
    BY <1>2
<1>4. Min(T) = m
    <2> HIDE DEF T, m
    <2> QED BY <1>2, <1>3 DEF Min
<1>5. String(t) = SubSeq(t, 1, m - 1)
    BY <1>1, <1>4 DEF String
<1>6. SubSeq(t, 1, 0) = <<>> /\ SubSeq(t, 1, 1) = <<t[1]>> /\ SubSeq(t, 1, 2) = <<t[1], t[2]>>
    <2>1. Len(t) >= 2
        BY <1>1
    <2> QED BY <1>1, <2>1, Beginnings
<1> QED BY <1>5, <1>6

-------------------------------------------------------------------------------
(* What a file consists of.                                                *)

\* A line grows by a separator and a field at a time: P[k] is its first k fields.
LEMMA LineRun ==
    ASSUME NEW S, NEW comma \in Seq(S), NEW l \in Seq(Seq(S)), l # <<>>
    PROVE  \E P \in [1 .. Len(l) -> Seq(S)] :
              /\ P[1] = l[1]
              /\ \A k \in 2 .. Len(l) : P[k] = P[k - 1] \o comma \o l[k]
              /\ Line(comma, l) = P[Len(l)]
<1> DEFINE list == Tail(l)
           n == Len(list)
           Eq(it) == it = [s \in SUBSET DOMAIN list |->
                        IF s = {} THEN Head(l)
                        ELSE LET x == Max(s) IN it[s \ {x}] \o comma \o list[x]]
           iter == CHOOSE it : Eq(it)
           F == [k \in 1 .. n |-> [t \in Seq(S) |-> t \o comma \o list[k]]]
<1>1. Line(comma, l) = iter[DOMAIN list]
    BY DEF Line, FoldLeft, MapThenFoldSet
<1>2. /\ n \in Nat /\ DOMAIN list = 1 .. n /\ \A k \in 1 .. n : list[k] \in Seq(S) /\ list[k] = l[k + 1]
      /\ Len(l) = n + 1 /\ Head(l) = l[1] /\ Head(l) \in Seq(S)
    <2>1. Head(l) = l[1] /\ Head(l) \in Seq(S)
        OBVIOUS
    <2>2. list \in Seq(Seq(S)) /\ n = Len(l) - 1 /\ \A k \in 1 .. n : list[k] = l[k + 1]
        BY HeadTailProperties
    <2>3. Len(l) \in Nat /\ n \in Nat /\ DOMAIN list = 1 .. n
        <3> HIDE DEF list
        <3> QED BY <2>2
    <2> HIDE DEF list
    <2>4. \A k \in 1 .. n : list[k] \in Seq(S)
        BY <2>2
    <2> QED BY <2>1, <2>2, <2>3, <2>4
<1> HIDE DEF list
<1>3. F \in [1 .. n -> [Seq(S) -> Seq(S)]] /\ Head(l) \in Seq(S)
    BY <1>2
<1>4. \E it \in [SUBSET (1 .. n) -> Seq(S)] : Eq(it)
    <2> HIDE DEF F, n
    <2>1. PICK it \in [SUBSET (1 .. n) -> Seq(S)] :
              \A s \in SUBSET (1 .. n) :
                  it[s] = IF s = {} THEN Head(l) ELSE F[Max(s)][it[s \ {Max(s)}]]
        <3>1. Folds(Seq(S), n, Head(l), F)
            BY <1>2, <1>3, Folding
        <3> QED BY <3>1 DEF Folds
    <2>2. ASSUME NEW s \in SUBSET (1 .. n), s # {}
          PROVE  F[Max(s)][it[s \ {Max(s)}]] = it[s \ {Max(s)}] \o comma \o list[Max(s)]
        BY <1>2, <2>2, MaxOfNaturals DEF F
    <2>3. Eq(it)
        <3>1. it = [s \in SUBSET (1 .. n) |-> it[s]]
            OBVIOUS
        <3> QED BY <1>2, <2>1, <2>2, <3>1
    <2> HIDE DEF Eq
    <2> QED BY <2>3
<1>5. Eq(iter)
    <2> HIDE DEF Eq
    <2> QED BY <1>4
<1>6. \A s \in SUBSET (1 .. n) :
          iter[s] = IF s = {} THEN Head(l) ELSE iter[s \ {Max(s)}] \o comma \o list[Max(s)]
    <2> HIDE DEF iter
    <2> QED BY <1>2, <1>5
<1> HIDE DEF iter, n, F, Eq
<1> DEFINE P == [k \in 1 .. Len(l) |-> iter[1 .. k - 1]]
<1>7. P[1] = l[1]
    <2>1. 1 .. 1 - 1 = {} /\ 1 \in 1 .. Len(l) /\ {} \in SUBSET (1 .. n)
        BY <1>2
    <2> QED BY <1>2, <1>6, <2>1
<1>8. ASSUME NEW k \in 2 .. Len(l)
      PROVE  P[k] = P[k - 1] \o comma \o l[k]
    <2>1. Max(1 .. k - 1) = k - 1 /\ (1 .. k - 1) \ {k - 1} = 1 .. (k - 1) - 1
        <3>1. k - 1 \in Nat \ {0}
            OBVIOUS
        <3> QED BY <3>1, MaxOfRange
    <2>2. /\ 1 .. k - 1 \in SUBSET (1 .. n) /\ 1 .. k - 1 # {}
          /\ k - 1 \in 1 .. Len(l) /\ k \in 1 .. Len(l)
        <3>1. \A x \in 1 .. k - 1 : x \in 1 .. n
            BY <1>2
        <3>2. 1 \in 1 .. k - 1 /\ k - 1 \in 1 .. Len(l) /\ k \in 1 .. Len(l)
            BY <1>2
        <3> QED BY <3>1, <3>2
    <2>3. list[k - 1] = l[k]
        BY <1>2
    <2> QED BY <1>6, <2>1, <2>2, <2>3
<1>9. Line(comma, l) = P[Len(l)]
    <2>1. Len(l) \in 1 .. Len(l) /\ Len(l) - 1 = n
        BY <1>2
    <2> QED BY <1>1, <1>2, <2>1 DEF iter
<1> HIDE DEF P
<1>10. P \in [1 .. Len(l) -> Seq(S)]
    <2> DEFINE G == {k \in 0 .. Len(l) : k # 0 => P[k] \in Seq(S)}
    <2>1. 0 \in G /\ Len(l) \in Nat
        OBVIOUS
    <2>2. ASSUME NEW k \in 1 .. Len(l), k - 1 \in G PROVE k \in G
        <3>1. CASE k = 1
            BY <1>2, <1>7, <3>1
        <3>2. CASE k # 1
            <4>1. k \in 2 .. Len(l) /\ P[k - 1] \in Seq(S) /\ l[k] \in Seq(S)
                BY <2>2, <3>2
            <4>2. P[k] = P[k - 1] \o comma \o l[k]
                BY <1>8, <4>1
            <4>3. P[k] \in Seq(S)
                BY <4>1, <4>2
            <4> QED BY <4>3
        <3> QED BY <3>1, <3>2
    <2>3. \A k \in 0 .. Len(l) : k \in G
        <3> HIDE DEF G
        <3> QED BY <2>1, <2>2, UpTo
    <2>4. P = [k \in 1 .. Len(l) |-> P[k]]
        BY DEF P
    <2>5. \A k \in 1 .. Len(l) : P[k] \in Seq(S)
        <3>1. \A k \in 1 .. Len(l) : k \in 0 .. Len(l) /\ k # 0
            OBVIOUS
        <3> QED BY <2>3, <3>1
    <2> QED BY <2>4, <2>5
<1> QED BY <1>7, <1>8, <1>9, <1>10

\* A line is a sequence of symbols.
LEMMA LineTyped ==
    ASSUME NEW S, NEW comma \in Seq(S), NEW l \in Seq(Seq(S))
    PROVE  Line(comma, l) \in Seq(S)
<1>1. CASE l = <<>>
    <2>1. Line(comma, l) = <<>>
        BY <1>1 DEF Line, FoldLeft, MapThenFoldSet
    <2> QED BY <2>1
<1>2. CASE l # <<>>
    <2>1. PICK P \in [1 .. Len(l) -> Seq(S)] :
              /\ P[1] = l[1]
              /\ \A k \in 2 .. Len(l) : P[k] = P[k - 1] \o comma \o l[k]
              /\ Line(comma, l) = P[Len(l)]
        BY <1>2, LineRun
    <2>2. Len(l) \in 1 .. Len(l)
        BY <1>2
    <2> QED BY <2>1, <2>2
<1> QED BY <1>1, <1>2

\* The file grows by a line at a time: run[k] is the header and its first k lines.
LEMMA TextRun ==
    ASSUME NEW S, NEW w, w.lines \in Seq(Seq(Seq(S))), w.comma \in Seq(S),
           "h" \in S, "eader" \in S, LineEnd \in S
    PROVE  \E run \in [0 .. Len(w.lines) -> Seq(S)] :
              /\ run[0] = <<"h", "eader">>
              /\ \A k \in 1 .. Len(w.lines) :
                    run[k] = run[k - 1] \o <<LineEnd>> \o Line(w.comma, w.lines[k])
              /\ Text(w) = run[Len(w.lines)] \o (IF w.ended THEN <<LineEnd>> ELSE <<>>)
<1> DEFINE list == w.lines
           n == Len(list)
           Eq(it) == it = [s \in SUBSET DOMAIN list |->
                        IF s = {} THEN <<"h", "eader">>
                        ELSE LET x == Max(s)
                             IN it[s \ {x}] \o <<LineEnd>> \o Line(w.comma, list[x])]
           iter == CHOOSE it : Eq(it)
           F == [k \in 1 .. n |-> [t \in Seq(S) |-> t \o <<LineEnd>> \o Line(w.comma, list[k])]]
<1>1. Text(w) = iter[DOMAIN list] \o (IF w.ended THEN <<LineEnd>> ELSE <<>>)
    BY DEF Text, FoldLeft, MapThenFoldSet
<1>2. n \in Nat /\ DOMAIN list = 1 .. n /\ \A k \in 1 .. n : list[k] \in Seq(Seq(S))
    OBVIOUS
<1> HIDE DEF list
<1>3. F \in [1 .. n -> [Seq(S) -> Seq(S)]] /\ <<"h", "eader">> \in Seq(S)
    <2>1. \A k \in 1 .. n : Line(w.comma, list[k]) \in Seq(S)
        <3> HIDE DEF n, list
        <3> QED BY <1>2, LineTyped
    <2>2. <<LineEnd>> \in Seq(S) /\ <<"h", "eader">> \in Seq(S)
        OBVIOUS
    <2> QED BY <2>1, <2>2
<1>4. \E it : Eq(it)
    <2> HIDE DEF F, n
    <2>1. PICK it \in [SUBSET (1 .. n) -> Seq(S)] :
              \A s \in SUBSET (1 .. n) :
                  it[s] = IF s = {} THEN <<"h", "eader">> ELSE F[Max(s)][it[s \ {Max(s)}]]
        <3>1. Folds(Seq(S), n, <<"h", "eader">>, F)
            BY <1>2, <1>3, Folding
        <3> QED BY <3>1 DEF Folds
    <2>2. ASSUME NEW s \in SUBSET (1 .. n), s # {}
          PROVE  F[Max(s)][it[s \ {Max(s)}]] = 
                     it[s \ {Max(s)}] \o <<LineEnd>> \o Line(w.comma, list[Max(s)])
        BY <1>2, <2>2, MaxOfNaturals DEF F
    <2>3. Eq(it)
        <3>1. it = [s \in SUBSET (1 .. n) |-> it[s]]
            OBVIOUS
        <3> QED BY <1>2, <2>1, <2>2, <3>1
    <2> HIDE DEF Eq
    <2> QED BY <2>3
<1>5. Eq(iter)
    <2> HIDE DEF Eq
    <2> QED BY <1>4
<1>6. \A s \in SUBSET (1 .. n) :
          iter[s] = IF s = {} THEN <<"h", "eader">> ELSE iter[s \ {Max(s)}] \o <<LineEnd>> \o Line(w.comma, list[Max(s)])
    <2> HIDE DEF iter
    <2> QED BY <1>2, <1>5
<1> HIDE DEF iter, n, Eq
<1> DEFINE run == [k \in 0 .. n |-> iter[1 .. k]]
<1>7. run[0] = <<"h", "eader">>
    <2>1. 1 .. 0 = {} /\ 0 \in 0 .. n /\ {} \in SUBSET (1 .. n)
        BY <1>2
    <2> QED BY <1>6, <2>1
<1>8. ASSUME NEW k \in 1 .. n
      PROVE  run[k] = run[k - 1] \o <<LineEnd>> \o Line(w.comma, list[k])
    <2>1. Max(1 .. k) = k /\ (1 .. k) \ {k} = 1 .. k - 1
        BY MaxOfRange
    <2>2. 1 .. k \in SUBSET (1 .. n) /\ 1 .. k # {} /\ k - 1 \in 0 .. n /\ k \in 0 .. n
        <3>1. \A x \in 1 .. k : x \in 1 .. n
            BY <1>2
        <3>2. 1 \in 1 .. k /\ k - 1 \in 0 .. n /\ k \in 0 .. n
            BY <1>2
        <3> QED BY <3>1, <3>2
    <2> QED BY <1>6, <2>1, <2>2
<1>9. Text(w) = run[n] \o (IF w.ended THEN <<LineEnd>> ELSE <<>>)
    <2>1. n \in 0 .. n
        BY <1>2
    <2>2. run[n] = iter[DOMAIN list]
        BY <1>2, <2>1
    <2> HIDE DEF run
    <2> QED BY <1>1, <2>2 DEF iter
<1> HIDE DEF run
<1>10. run \in [0 .. n -> Seq(S)]
    <2> DEFINE G == {k \in 0 .. n : run[k] \in Seq(S)}
    <2>1. 0 \in G
        <3>1. 0 \in 0 .. n /\ run[0] \in Seq(S)
            BY <1>2, <1>3, <1>7
        <3> QED BY <3>1
    <2>2. ASSUME NEW k \in 1 .. n, k - 1 \in G PROVE k \in G
        <3>1. run[k - 1] \in Seq(S) /\ k \in 0 .. n
            BY <2>2
        <3>2. F[k] \in [Seq(S) -> Seq(S)]
            BY <1>3
        <3>3. F[k][run[k - 1]] = run[k]
            BY <1>8, <3>1 DEF F
        <3> HIDE DEF F
        <3> QED BY <3>1, <3>2, <3>3
    <2> HIDE DEF G
    <2>3. \A k \in 0 .. n : k \in G
        BY <1>2, <2>1, <2>2, UpTo
    <2>4. \A k \in 0 .. n : run[k] \in Seq(S)
        BY <2>3 DEF G
    <2>5. run = [k \in 0 .. n |-> run[k]]
        BY DEF run
    <2> QED BY <2>4, <2>5
<1> QED BY <1>2, <1>7, <1>8, <1>9, <1>10 DEF n, list

\* A field is a number, whatever its symbols are.
LEMMA FieldIsInt ==
    ASSUME NEW l, NEW k
    PROVE  Field(l, k) \in Int
<1>1. ASSUME NEW s PROVE atoll(s) \in Int
    <2> DEFINE of == {n \in DOMAIN Digits : Digits[n] = s}
    <2>1. of # {} => (CHOOSE n \in of : TRUE) \in of
        OBVIOUS
    <2>2. \A n \in of : n \in Int
        BY FilesAssumption
    <2>3. atoll(s) = IF of = {} THEN 0 ELSE CHOOSE n \in of : TRUE
        BY DEF atoll
    <2> HIDE DEF of
    <2> QED BY <2>1, <2>2, <2>3
<1> QED BY <1>1 DEF Field

\* Every number of a file fits into a long long.
LEMMA FieldFits ==
    ASSUME NEW l, NEW k
    PROVE  2 * Field(l, k) < SIZE_T
<1>1. ASSUME NEW s PROVE 2 * atoll(s) < SIZE_T
    <2> DEFINE of == {n \in DOMAIN Digits : Digits[n] = s}
    <2>1. of # {} => (CHOOSE n \in of : TRUE) \in of
        OBVIOUS
    <2>2. \A n \in of : 2 * n < SIZE_T
        BY FilesAssumption
    <2>3. atoll(s) = IF of = {} THEN 0 ELSE CHOOSE n \in of : TRUE
        BY DEF atoll
    <2>4. 2 * 0 < SIZE_T
        BY FilesAssumption
    <2> HIDE DEF of
    <2> QED BY <2>1, <2>2, <2>3, <2>4
<1>2. 2 * 0 < SIZE_T
    BY FilesAssumption
<1> QED BY <1>1, <1>2 DEF Field

\* A number that is no further from zero than a long long goes can be had back from a
\* size_t.
LEMMA CastBack ==
    ASSUME NEW d \in Int, -SIZE_T <= 2 * d, 2 * d < SIZE_T
    PROVE  off_t(d % SIZE_T) = d /\ off_t(d % SIZE_T) \in Int
<1> DEFINE S == SIZE_T
           h == SIZE_T \div 2
           q == d \div SIZE_T
           r == d % SIZE_T
<1>1. S \in Nat \ {0} /\ S % 2 = 0
    BY FilesAssumption
<1>2. h \in Int /\ S = 2 * h
    BY <1>1
<1>3. d = (q * S) + r /\ r \in 0 .. S - 1 /\ q \in Int
    BY <1>1
<1>4. off_t(r) = IF r < h THEN r ELSE r - S
    BY DEF off_t
<1>5. 2 * d < S /\ -S <= 2 * d
    OBVIOUS
<1> HIDE DEF S, h, q, r
<1>6. q = 0 \/ q = -1
    <2>1. q >= 1 => q * S >= S
        BY <1>1, <1>3
    <2>2. q <= -2 => q * S <= -(2 * S)
        BY <1>1, <1>3
    <2> QED BY <1>1, <1>3, <1>5, <2>1, <2>2
<1>7. CASE q = 0
    BY <1>1, <1>2, <1>3, <1>4, <1>5, <1>7 DEF r
<1>8. CASE q = -1
    BY <1>1, <1>2, <1>3, <1>4, <1>5, <1>8 DEF r
<1> QED BY <1>6, <1>7, <1>8

AnyInterval == [start_offset : Int, end_offset : Int, page_size : Int]

\* IntervalsOfPool goes over the lines once: run[k] is what the first k lines say.
LEMMA IntervalsRun ==
    ASSUME NEW X, NEW list \in Seq(X), written.lines = list
    PROVE  \E run \in [0 .. Len(list) -> Seq(AnyInterval)] :
              /\ run[0] = <<>>
              /\ \A k \in 1 .. Len(list) :
                    run[k] = IF IsInterval(list[k])
                             THEN Append(run[k - 1], IntervalOf(list[k]))
                             ELSE run[k - 1]
              /\ IntervalsOfPool = run[Len(list)]
<1> DEFINE n == Len(list)
           Eq(it) == it = [s \in SUBSET DOMAIN list |->
                        IF s = {} THEN <<>>
                        ELSE LET x == Max(s)
                             IN IF IsInterval(list[x])
                                THEN Append(it[s \ {x}], IntervalOf(list[x]))
                                ELSE it[s \ {x}]]
           iter == CHOOSE it : Eq(it)
           F == [k \in 1 .. n |-> [t \in Seq(AnyInterval) |-> IF IsInterval(list[k])
                    THEN Append(t, IntervalOf(list[k]))
                    ELSE t]]
<1>1. IntervalsOfPool = iter[DOMAIN list]
    BY DEF IntervalsOfPool, FoldLeft, MapThenFoldSet
<1>2. n \in Nat /\ DOMAIN list = 1 .. n /\ \A k \in 1 .. n : list[k] \in X
    OBVIOUS
<1>3. F \in [1 .. n -> [Seq(AnyInterval) -> Seq(AnyInterval)]] /\ <<>> \in Seq(AnyInterval)
    <2>1. \A k \in 1 .. n : IntervalOf(list[k]) \in AnyInterval
        BY FieldIsInt DEF IntervalOf, MemoryInterval, AnyInterval
    <2> QED BY <2>1
<1>4. \E it : Eq(it)
    <2> HIDE DEF F, n
    <2>1. PICK it \in [SUBSET (1 .. n) -> Seq(AnyInterval)] :
              \A s \in SUBSET (1 .. n) :
                  it[s] = IF s = {} THEN <<>> ELSE F[Max(s)][it[s \ {Max(s)}]]
        <3>1. Folds(Seq(AnyInterval), n, <<>>, F)
            BY <1>2, <1>3, Folding
        <3> QED BY <3>1 DEF Folds
    <2>2. ASSUME NEW s \in SUBSET (1 .. n), s # {}
          PROVE  F[Max(s)][it[s \ {Max(s)}]] = 
                     IF IsInterval(list[Max(s)])
                     THEN Append(it[s \ {Max(s)}], IntervalOf(list[Max(s)]))
                     ELSE it[s \ {Max(s)}]
        BY <1>2, <2>2, MaxOfNaturals DEF F
    <2>3. Eq(it)
        <3>1. it = [s \in SUBSET (1 .. n) |-> it[s]]
            OBVIOUS
        <3> QED BY <1>2, <2>1, <2>2, <3>1
    <2> HIDE DEF Eq
    <2> QED BY <2>3
<1>5. Eq(iter)
    <2> HIDE DEF Eq
    <2> QED BY <1>4
<1>6. \A s \in SUBSET (1 .. n) :
          iter[s] = IF s = {} THEN <<>> ELSE 
              IF IsInterval(list[Max(s)])
              THEN Append(iter[s \ {Max(s)}], IntervalOf(list[Max(s)]))
              ELSE iter[s \ {Max(s)}]
    <2> HIDE DEF iter
    <2> QED BY <1>2, <1>5
<1> HIDE DEF iter, n, Eq
<1> DEFINE run == [k \in 0 .. n |-> iter[1 .. k]]
<1>7. run[0] = <<>>
    <2>1. 1 .. 0 = {} /\ 0 \in 0 .. n /\ {} \in SUBSET (1 .. n)
        BY <1>2
    <2> QED BY <1>6, <2>1
<1>8. ASSUME NEW k \in 1 .. n
      PROVE  run[k] = IF IsInterval(list[k])
                             THEN Append(run[k - 1], IntervalOf(list[k]))
                             ELSE run[k - 1]
    <2>1. Max(1 .. k) = k /\ (1 .. k) \ {k} = 1 .. k - 1
        BY MaxOfRange
    <2>2. 1 .. k \in SUBSET (1 .. n) /\ 1 .. k # {} /\ k - 1 \in 0 .. n /\ k \in 0 .. n
        <3>1. \A x \in 1 .. k : x \in 1 .. n
            BY <1>2
        <3>2. 1 \in 1 .. k /\ k - 1 \in 0 .. n /\ k \in 0 .. n
            BY <1>2
        <3> QED BY <3>1, <3>2
    <2> QED BY <1>6, <2>1, <2>2
<1>9. IntervalsOfPool = run[n]
    <2>1. n \in 0 .. n
        BY <1>2
    <2>2. run[n] = iter[DOMAIN list]
        BY <1>2, <2>1
    <2> HIDE DEF run
    <2> QED BY <1>1, <2>2 DEF iter
<1> HIDE DEF run
<1>10. run \in [0 .. n -> Seq(AnyInterval)]
    <2> DEFINE G == {k \in 0 .. n : run[k] \in Seq(AnyInterval)}
    <2>1. 0 \in G
        <3>1. 0 \in 0 .. n /\ run[0] \in Seq(AnyInterval)
            BY <1>2, <1>3, <1>7
        <3> QED BY <3>1
    <2>2. ASSUME NEW k \in 1 .. n, k - 1 \in G PROVE k \in G
        <3>1. run[k - 1] \in Seq(AnyInterval) /\ k \in 0 .. n
            BY <2>2
        <3>2. F[k] \in [Seq(AnyInterval) -> Seq(AnyInterval)]
            BY <1>3
        <3>3. F[k][run[k - 1]] = run[k]
            BY <1>8, <3>1 DEF F
        <3> HIDE DEF F
        <3> QED BY <3>1, <3>2, <3>3
    <2> HIDE DEF G
    <2>3. \A k \in 0 .. n : k \in G
        BY <1>2, <2>1, <2>2, UpTo
    <2>4. \A k \in 0 .. n : run[k] \in Seq(AnyInterval)
        BY <2>3 DEF G
    <2>5. run = [k \in 0 .. n |-> run[k]]
        BY DEF run
    <2> QED BY <2>4, <2>5
<1> QED BY <1>2, <1>7, <1>8, <1>9, <1>10 DEF n

\* t begins with s.
Begins(s, t) == Len(s) <= Len(t) /\ \A j \in 1 .. Len(s) : t[j] = s[j]

\* Two and three sequences in a row.
LEMMA TwoParts ==
    ASSUME NEW S, NEW s \in Seq(S), NEW t \in Seq(S)
    PROVE  /\ s \o t \in Seq(S) /\ Len(s \o t) = Len(s) + Len(t)
           /\ \A j \in 1 .. Len(s) : (s \o t)[j] = s[j]
           /\ \A j \in 1 .. Len(t) : (s \o t)[Len(s) + j] = t[j]
<1> DEFINE v == s \o t
<1>1. Len(s) \in Nat /\ Len(t) \in Nat
    OBVIOUS
<1>2. /\ v \in Seq(S) /\ Len(v) = Len(s) + Len(t)
      /\ \A i \in 1 .. Len(s) + Len(t) : v[i] = IF i <= Len(s) THEN s[i] ELSE t[i - Len(s)]
    BY ConcatProperties
<1> HIDE DEF v
<1>3. \A j \in 1 .. Len(s) : v[j] = s[j]
    BY <1>1, <1>2
<1>4. ASSUME NEW j \in 1 .. Len(t) PROVE v[Len(s) + j] = t[j]
    <2>1. /\ Len(s) + j \in 1 .. Len(s) + Len(t) /\ ~(Len(s) + j <= Len(s))
          /\ (Len(s) + j) - Len(s) = j
        BY <1>1
    <2> QED BY <1>2, <2>1
<1> QED BY <1>2, <1>3, <1>4 DEF v

\* v is s, t and u in a row.
Consists(v, s, t, u) ==
    /\ Len(v) = Len(s) + Len(t) + Len(u) /\ Begins(s, v)
    /\ \A j \in 1 .. Len(t) : v[Len(s) + j] = t[j]
    /\ \A j \in 1 .. Len(u) : v[Len(s) + Len(t) + j] = u[j]

\* The same for three parts.
LEMMA ThreeParts ==
    ASSUME NEW S, NEW s \in Seq(S), NEW t \in Seq(S), NEW u \in Seq(S), NEW v, v = s \o t \o u
    PROVE  v \in Seq(S) /\ Consists(v, s, t, u)
<1> DEFINE x == s \o t
<1>1. /\ x \in Seq(S) /\ Len(x) = Len(s) + Len(t)
      /\ \A j \in 1 .. Len(s) : x[j] = s[j]
      /\ \A j \in 1 .. Len(t) : x[Len(s) + j] = t[j]
    BY TwoParts
<1>2. Len(s) \in Nat /\ Len(t) \in Nat /\ Len(u) \in Nat
    OBVIOUS
<1> HIDE DEF x
<1>3. /\ v \in Seq(S) /\ Len(v) = Len(x) + Len(u)
      /\ \A j \in 1 .. Len(x) : v[j] = x[j]
      /\ \A j \in 1 .. Len(u) : v[Len(x) + j] = u[j]
    <2>1. x \in Seq(S)
        BY <1>1
    <2> DEFINE y == x \o u
    <2>2. /\ y \in Seq(S) /\ Len(y) = Len(x) + Len(u)
          /\ \A j \in 1 .. Len(x) : y[j] = x[j]
          /\ \A j \in 1 .. Len(u) : y[Len(x) + j] = u[j]
        BY ONLY <2>1, u \in Seq(S), TwoParts
    <2>3. v = y
        BY DEF x
    <2> HIDE DEF y
    <2> QED BY <2>2, <2>3
<1>4. Begins(s, v)
    BY <1>1, <1>2, <1>3 DEF Begins
<1>5. ASSUME NEW j \in 1 .. Len(t) PROVE v[Len(s) + j] = t[j]
    <2>1. Len(s) + j \in 1 .. Len(x)
        BY <1>1, <1>2
    <2> QED BY <1>1, <1>3, <2>1
<1> QED BY <1>1, <1>2, <1>3, <1>4, <1>5 DEF Consists

\* What grows at its end begins with each of its earlier forms.
LEMMA GrowingSequence ==
    ASSUME NEW S, NEW n \in Nat, NEW m \in 0 .. n, NEW R, \A k \in m .. n : R[k] \in Seq(S),
           \A k \in m + 1 .. n : Begins(R[k - 1], R[k])
    PROVE  \A k \in m .. n : Begins(R[k], R[n])
<1> DEFINE G == {j \in 0 .. n - m : Begins(R[n - j], R[n])}
<1>1. 0 \in G
    <2>1. R[n] \in Seq(S) /\ n - 0 = n /\ 0 \in 0 .. n - m
        OBVIOUS
    <2>2. Begins(R[n], R[n])
        BY <2>1 DEF Begins
    <2> QED BY <2>1, <2>2
<1>2. ASSUME NEW j \in 1 .. n - m, j - 1 \in G PROVE j \in G
    <2> DEFINE k == n - (j - 1)
    <2>1. k \in m + 1 .. n /\ n - j = k - 1 /\ k \in m .. n /\ k - 1 \in m .. n /\ j \in 0 .. n - m
        OBVIOUS
    <2>2. Begins(R[k], R[n]) /\ Begins(R[k - 1], R[k])
        BY <1>2, <2>1
    <2>3. R[k - 1] \in Seq(S) /\ R[k] \in Seq(S) /\ R[n] \in Seq(S)
        BY <2>1
    <2> HIDE DEF k
    <2>4. Len(R[k - 1]) \in Nat /\ Len(R[k]) \in Nat /\ Len(R[n]) \in Nat
        BY <2>3
    <2>5. Begins(R[k - 1], R[n])
        BY <2>2, <2>4 DEF Begins
    <2> QED BY <2>1, <2>5
<1>3. \A j \in 0 .. n - m : j \in G
    <2>1. n - m \in Nat
        OBVIOUS
    <2> HIDE DEF G
    <2> QED BY <1>1, <1>2, <2>1, UpTo
<1>4. ASSUME NEW k \in m .. n PROVE Begins(R[k], R[n])
    <2>1. n - k \in 0 .. n - m /\ n - (n - k) = k
        OBVIOUS
    <2>2. n - k \in G
        BY <1>3, <2>1
    <2> QED BY <2>1, <2>2
<1> QED BY <1>4

\* The symbols that are in no field.
LEMMA SymbolFacts ==
    /\ {Comma, LineEnd, Space, NUL, "h", "eader"} \subseteq Symbols
    /\ Comma # LineEnd /\ Comma # Space /\ LineEnd # Space
    /\ NUL # Comma /\ NUL # LineEnd /\ NUL # Space
    /\ LineEnd # "h" /\ LineEnd # "eader"
<1>1. /\ Comma # LineEnd /\ Comma # Space /\ LineEnd # Space
      /\ NUL # Comma /\ NUL # LineEnd /\ NUL # Space
    BY DEF Comma, LineEnd, Space, NUL
<1> QED BY <1>1, FilesAssumption DEF Symbols

\* A field has one or two symbols, of which none is special.
LEMMA FieldFacts ==
    ASSUME NEW f \in Fields
    PROVE  /\ f \in Seq(Symbols) /\ Len(f) \in {1, 2}
           /\ \A j \in 1 .. Len(f) : f[j] \in Symbols /\ f[j] \notin {Comma, LineEnd, Space, NUL}
<1>1. f \in Seq(Letters) /\ Len(f) \in 1 .. 2
    BY DEF Fields
<1>2. \A x \in 1 .. 2 : x = 1 \/ x = 2
    OBVIOUS
<1>3. \A j \in 1 .. Len(f) : f[j] \in Letters
    BY <1>1
<1>4. Letters \subseteq Symbols /\ \A a \in Letters : a \notin {Comma, LineEnd, Space, NUL}
    BY FilesAssumption DEF Symbols
<1>5. f \in Seq(Symbols)
    BY <1>1, <1>4, SeqMonotonic
<1> QED BY <1>1, <1>2, <1>3, <1>4, <1>5

\* Whether the first symbol of the pool's type is at place j of field k only if that is the
\* first of two symbols of the line's first field.
OnlyFirst(l) ==
    \A k \in 1 .. Len(l) : \A j \in 1 .. Len(l[k]) :
        l[k][j] = Type[1] => k = 1 /\ j = 1 /\ Len(l[k]) = 2

\* What a file is written from (FilesAssumption).
LEMMA WrittenFacts ==
    ASSUME written \in Files
    PROVE  /\ written.lines \in Seq(Seq(Fields)) /\ written.lines \in Seq(Seq(Seq(Symbols)))
           /\ written.ended \in BOOLEAN /\ written.comma \in Seq(Symbols)
           /\ written.comma \in {<<Comma>>, <<Comma, Space>>, <<Space, Comma>>}
           /\ \A n \in 1 .. Len(written.lines) :
                 /\ written.lines[n] \in Seq(Fields) /\ written.lines[n] \in Seq(Seq(Symbols))
                 /\ OnlyFirst(written.lines[n])
<1>1. /\ written.lines \in Seq(Seq(Fields)) /\ written.ended \in BOOLEAN
      /\ written.comma \in {<<Comma>>, <<Comma, Space>>, <<Space, Comma>>}
      /\ \A l \in ToSet(written.lines) : \A k \in DOMAIN l : \A j \in DOMAIN l[k] :
            l[k][j] = Type[1] => k = 1 /\ j = 1 /\ Len(l[k]) = 2
    BY FilesAssumption
<1>2. Fields \subseteq Seq(Symbols)
    BY FieldFacts
<1>3. Seq(Fields) \subseteq Seq(Seq(Symbols))
    BY <1>2, SeqMonotonic
<1>4. Seq(Seq(Fields)) \subseteq Seq(Seq(Seq(Symbols)))
    BY <1>3, SeqMonotonic
<1>5. <<Comma>> \in Seq(Symbols) /\ <<Comma, Space>> \in Seq(Symbols) /\ <<Space, Comma>> \in Seq(Symbols)
    BY SymbolFacts
<1>6. written.comma \in Seq(Symbols)
    BY <1>1, <1>5
<1>7. ASSUME NEW n \in 1 .. Len(written.lines)
      PROVE  /\ written.lines[n] \in Seq(Fields) /\ written.lines[n] \in Seq(Seq(Symbols))
             /\ OnlyFirst(written.lines[n])
    <2> DEFINE l == written.lines[n]
    <2>1. l \in Seq(Fields)
        BY <1>1
    <2>2. l \in ToSet(written.lines)
        BY <1>1 DEF ToSet
    <2> HIDE DEF l
    <2>3. DOMAIN l = 1 .. Len(l) /\ \A k \in 1 .. Len(l) : l[k] \in Fields
        BY <2>1
    <2>4. \A k \in 1 .. Len(l) : l[k] \in Seq(Symbols) /\ DOMAIN l[k] = 1 .. Len(l[k])
        BY <1>2, <2>3
    <2>5. OnlyFirst(l)
        BY <1>1, <2>2, <2>3, <2>4 DEF OnlyFirst
    <2> QED BY <1>3, <2>1, <2>5 DEF l
<1> QED BY <1>1, <1>4, <1>6, <1>7

LineOf(n) == Line(written.comma, written.lines[n])

\* E[n] is where line n ends, the header being line 0: the place of its line end, or the one
\* behind the file.
Anatomy(E) ==
    LET N == Len(written.lines)
    IN /\ file \in Seq(Symbols) /\ E \in [0 .. N -> Nat] /\ E[0] = 3
       /\ file[1] # LineEnd /\ file[2] # LineEnd
       /\ \A n \in 1 .. N :
             /\ LineOf(n) \in Seq(Symbols) /\ E[n] = E[n - 1] + 1 + Len(LineOf(n))
             /\ E[n - 1] <= Len(file) /\ file[E[n - 1]] = LineEnd
             /\ \A j \in 1 .. Len(LineOf(n)) : file[E[n - 1] + j] = LineOf(n)[j]
       /\ IF written.ended THEN Len(file) = E[N] /\ file[E[N]] = LineEnd ELSE Len(file) + 1 = E[N]

\* Every file has line ends in these places.
LEMMA AnatomyExists ==
    ASSUME written \in Files, file = Text(written)
    PROVE  \E E : Anatomy(E)
<1> DEFINE lines == written.lines
           N == Len(lines)
           end == IF written.ended THEN <<LineEnd>> ELSE <<>>
<1>1. /\ N \in Nat /\ lines \in Seq(Seq(Seq(Symbols))) /\ written.comma \in Seq(Symbols)
      /\ \A n \in 1 .. N : lines[n] \in Seq(Seq(Symbols))
    BY WrittenFacts
<1>2. PICK R \in [0 .. N -> Seq(Symbols)] :
          /\ R[0] = <<"h", "eader">>
          /\ \A n \in 1 .. N : R[n] = R[n - 1] \o <<LineEnd>> \o Line(written.comma, lines[n])
          /\ file = R[N] \o end
    <2>1. "h" \in Symbols /\ "eader" \in Symbols /\ LineEnd \in Symbols
        BY SymbolFacts
    <2>2. written.lines \in Seq(Seq(Seq(Symbols))) /\ written.comma \in Seq(Symbols)
        BY <1>1
    <2>3. PICK R \in [0 .. Len(written.lines) -> Seq(Symbols)] :
              /\ R[0] = <<"h", "eader">>
              /\ \A n \in 1 .. Len(written.lines) :
                    R[n] = R[n - 1] \o <<LineEnd>> \o Line(written.comma, written.lines[n])
              /\ Text(written) = R[Len(written.lines)] \o (IF written.ended THEN <<LineEnd>> ELSE <<>>)
        BY ONLY <2>1, <2>2, TextRun
    <2> QED BY <2>3
<1>3. \A n \in 1 .. N : LineOf(n) \in Seq(Symbols)
    BY <1>1, LineTyped DEF LineOf
<1>4. /\ end \in Seq(Symbols) /\ <<LineEnd>> \in Seq(Symbols)
      /\ written.ended => Len(end) = 1 /\ end[1] = LineEnd
      /\ ~written.ended => Len(end) = 0
    <2>1. <<LineEnd>> \in Seq(Symbols) /\ <<>> \in Seq(Symbols)
        BY SymbolFacts
    <2>2. Len(<<LineEnd>>) = 1 /\ <<LineEnd>>[1] = LineEnd /\ Len(<<>>) = 0
        OBVIOUS
    <2>3. CASE written.ended
        <3>1. end = <<LineEnd>>
            BY <2>3
        <3> HIDE DEF end
        <3> QED BY <2>1, <2>2, <2>3, <3>1
    <2>4. CASE ~written.ended
        <3>1. end = <<>>
            BY <2>4
        <3> HIDE DEF end
        <3> QED BY <2>1, <2>2, <2>4, <3>1
    <2> QED BY <2>3, <2>4
<1>5. N \in 0 .. N /\ \A n \in 0 .. N : R[n] \in Seq(Symbols) /\ Len(R[n]) \in Nat
    <2>1. N \in Nat /\ \A n \in 0 .. N : R[n] \in Seq(Symbols)
        BY <1>1, <1>2
    <2> HIDE DEF N
    <2>2. ASSUME NEW n \in 0 .. N PROVE Len(R[n]) \in Nat
        <3>1. R[n] \in Seq(Symbols)
            BY <2>1
        <3> QED BY ONLY <3>1
    <2> QED BY <2>1, <2>2
<1> HIDE DEF lines, N, end
<1>6. ASSUME NEW n \in 1 .. N
      PROVE  /\ Len(R[n]) = Len(R[n - 1]) + 1 + Len(LineOf(n)) /\ Begins(R[n - 1], R[n])
             /\ R[n][Len(R[n - 1]) + 1] = LineEnd
             /\ \A j \in 1 .. Len(LineOf(n)) : R[n][Len(R[n - 1]) + 1 + j] = LineOf(n)[j]
    <2> DEFINE s == R[n - 1]
               u == LineOf(n)
               t == <<LineEnd>>
               v == s \o t \o u
    <2>1. R[n] = v
        BY <1>2 DEF LineOf, lines
    <2>2. s \in Seq(Symbols) /\ u \in Seq(Symbols) /\ t \in Seq(Symbols)
        <3>1. n - 1 \in 0 .. N
            BY <1>1
        <3> QED BY <1>3, <1>4, <1>5, <3>1
    <2>3. Len(t) = 1 /\ t[1] = LineEnd /\ 1 \in 1 .. 1
        OBVIOUS
    <2> HIDE DEF s, t, u
    <2>4. /\ v \in Seq(Symbols) /\ Len(v) = Len(s) + Len(t) + Len(u) /\ Begins(s, v)
          /\ \A j \in 1 .. Len(t) : v[Len(s) + j] = t[j]
          /\ \A j \in 1 .. Len(u) : v[Len(s) + Len(t) + j] = u[j]
        <3>1. v = s \o t \o u
            OBVIOUS
        <3> HIDE DEF v
        <3>2. v \in Seq(Symbols) /\ Consists(v, s, t, u)
            BY ONLY <2>2, <3>1, ThreeParts
        <3> QED BY <3>2 DEF Consists
    <2> HIDE DEF v
    <2>5. v[Len(s) + 1] = LineEnd
        BY <2>3, <2>4
    <2>6. Len(v) = Len(s) + 1 + Len(u) /\ \A j \in 1 .. Len(u) : v[Len(s) + 1 + j] = u[j]
        BY <2>3, <2>4
    <2> QED BY <2>1, <2>4, <2>5, <2>6 DEF s, u
<1>7. file \in Seq(Symbols) /\ Len(file) = Len(R[N]) + Len(end) /\ Begins(R[N], file)
      /\ (written.ended => file[Len(R[N]) + 1] = LineEnd)
    <2> DEFINE s == R[N]
               v == s \o end
    <2>1. s \in Seq(Symbols) /\ end \in Seq(Symbols)
        BY <1>4, <1>5
    <2> HIDE DEF s
    <2>2. v \in Seq(Symbols) /\ Len(v) = Len(s) + Len(end)
          /\ (\A j \in 1 .. Len(s) : v[j] = s[j])
          /\ \A j \in 1 .. Len(end) : v[Len(s) + j] = end[j]
        BY ONLY <2>1, TwoParts
    <2>3. file = v
        BY <1>2 DEF s
    <2> HIDE DEF v
    <2>4. Len(s) \in Nat /\ Len(end) \in Nat
        BY <1>4, <2>1
    <2>5. Begins(s, v)
        BY <2>2, <2>4 DEF Begins
    <2>6. written.ended => 1 \in 1 .. Len(end)
        <3>1. 1 \in 1 .. 1
            OBVIOUS
        <3> QED BY <1>4, <3>1
    <2> QED BY <1>4, <2>2, <2>3, <2>5, <2>6 DEF s
<1>8. ASSUME NEW n \in 0 .. N PROVE Begins(R[n], file)
    <2>1. Begins(R[n], R[N])
        <3>1. \A k \in 0 .. N : R[k] \in Seq(Symbols)
            BY <1>5
        <3>2. \A k \in 0 + 1 .. N : Begins(R[k - 1], R[k])
            BY <1>6
        <3>3. N \in Nat /\ 0 \in 0 .. N
            BY <1>1
        <3>4. \A k \in 0 .. N : Begins(R[k], R[N])
            BY <3>1, <3>2, <3>3, GrowingSequence
        <3> QED BY <3>4
    <2>2. Len(R[n]) \in Nat /\ Len(R[N]) \in Nat /\ Len(file) \in Nat
        BY <1>5, <1>7
    <2> QED BY <1>7, <2>1, <2>2 DEF Begins
<1> DEFINE E == [n \in 0 .. N |-> Len(R[n]) + 1]
<1>9. E \in [0 .. N -> Nat]
    BY <1>5
<1>10. R[0] \in Seq(Symbols) /\ Len(R[0]) = 2 /\ R[0][1] # LineEnd /\ R[0][2] # LineEnd
    <2>1. 0 \in 0 .. N
        BY <1>1
    <2>2. Len(<<"h", "eader">>) = 2 /\ <<"h", "eader">>[1] = "h" /\ <<"h", "eader">>[2] = "eader"
        OBVIOUS
    <2> QED BY <1>2, <1>5, <2>1, <2>2, SymbolFacts
<1>11. E[0] = 3 /\ file[1] # LineEnd /\ file[2] # LineEnd
    <2>1. 0 \in 0 .. N /\ 1 \in 1 .. 2 /\ 2 \in 1 .. 2
        BY <1>1
    <2>2. Begins(R[0], file)
        BY <1>8, <2>1
    <2>3. E[0] = Len(R[0]) + 1
        BY <2>1
    <2> HIDE DEF E
    <2> QED BY <1>10, <2>1, <2>2, <2>3 DEF Begins
<1>12. ASSUME NEW n \in 1 .. N
       PROVE  /\ LineOf(n) \in Seq(Symbols) /\ E[n] = E[n - 1] + 1 + Len(LineOf(n))
              /\ E[n - 1] <= Len(file) /\ file[E[n - 1]] = LineEnd
              /\ \A j \in 1 .. Len(LineOf(n)) : file[E[n - 1] + j] = LineOf(n)[j]
    <2>1. /\ n \in 0 .. N /\ n - 1 \in 0 .. N /\ E[n] = Len(R[n]) + 1 /\ E[n - 1] = Len(R[n - 1]) + 1
        BY <1>1
    <2>2. LineOf(n) \in Seq(Symbols) /\ Len(LineOf(n)) \in Nat /\ Len(R[n]) \in Nat /\ Len(R[n - 1]) \in Nat
          /\ Len(file) \in Nat
        BY <1>3, <1>5, <1>7, <2>1
    <2>3. Begins(R[n], file)
        BY <1>8, <2>1
    <2> HIDE DEF E
    <2>4. Len(R[n]) = Len(R[n - 1]) + 1 + Len(LineOf(n))
        BY <1>6
    <2>5. /\ E[n - 1] \in 1 .. Len(R[n])
          /\ \A j \in 1 .. Len(LineOf(n)) : E[n - 1] + j \in 1 .. Len(R[n])
        BY <2>1, <2>2, <2>4
    <2>6. file[E[n - 1]] = LineEnd
        BY <1>6, <2>1, <2>3, <2>5 DEF Begins
    <2>7. \A j \in 1 .. Len(LineOf(n)) : file[E[n - 1] + j] = LineOf(n)[j]
        BY <1>6, <2>1, <2>3, <2>5 DEF Begins
    <2>8. E[n - 1] <= Len(file)
        BY <2>2, <2>3, <2>5 DEF Begins
    <2> QED BY <2>1, <2>2, <2>4, <2>6, <2>7, <2>8
<1>13. IF written.ended THEN Len(file) = E[N] /\ file[E[N]] = LineEnd ELSE Len(file) + 1 = E[N]
    <2>1. E[N] = Len(R[N]) + 1 /\ Len(R[N]) \in Nat
        BY <1>5
    <2> HIDE DEF E
    <2>2. CASE written.ended
        BY <1>4, <1>7, <2>1, <2>2
    <2>3. CASE ~written.ended
        BY <1>4, <1>7, <2>1, <2>3
    <2> QED BY <2>2, <2>3
<1> HIDE DEF E
<1>14. Anatomy(E)
    BY <1>7, <1>9, <1>11, <1>12, <1>13 DEF Anatomy, N, lines
<1> QED BY <1>14

\* Field k of l begins at f, with a space before it or behind it at most; the parser has
\* passed a comma or a line end when it is at c and finds the next one at stop.
Cell(l, k, c, f, stop) ==
    /\ f \in Nat
    /\ f = c \/ (f = c + 1 /\ k # 1 /\ file[c] = Space)
    /\ \A j \in 1 .. Len(l[k]) : file[f + j - 1] = l[k][j]
    /\ stop = f + Len(l[k]) \/ (stop = f + Len(l[k]) + 1 /\ file[stop - 1] = Space /\ f = c)

\* Z[k] is where the parser finds the separator behind field k, and F[k] where the field is.
Cells(l, from, to, Z, F) ==
    /\ Z \in [0 .. Len(l) -> Nat] /\ Z[0] = from /\ Z[Len(l)] = to
    /\ \A k \in 1 .. Len(l) :
          Cell(l, k, Z[k - 1] + 1, F[k], Z[k]) /\ (k # Len(l) => file[Z[k]] = Comma)

\* How the separator between fields is written.
LEMMA CommaFacts ==
    ASSUME NEW comma, comma \in {<<Comma>>, <<Comma, Space>>, <<Space, Comma>>}
    PROVE  \E d \in {0, 1} :
              /\ d + 1 \in 1 .. Len(comma) /\ comma[d + 1] = Comma
              /\ d = 1 => Len(comma) = 2 /\ comma[1] = Space
              /\ d = 0 /\ Len(comma) # 1 => Len(comma) = 2 /\ comma[2] = Space
<1>1. CASE comma = <<Comma>>
    <2>1. Len(comma) = 1 /\ comma[0 + 1] = Comma /\ 0 + 1 \in 1 .. 1
        BY <1>1
    <2> QED BY <2>1
<1>2. CASE comma = <<Comma, Space>>
    <2>1. Len(comma) = 2 /\ comma[0 + 1] = Comma /\ comma[2] = Space /\ 0 + 1 \in 1 .. 2
        BY <1>2
    <2> QED BY <2>1
<1>3. CASE comma = <<Space, Comma>>
    <2>1. Len(comma) = 2 /\ comma[1 + 1] = Comma /\ comma[1] = Space /\ 1 + 1 \in 1 .. 2
        BY <1>3
    <2> QED BY <2>1
<1> QED BY <1>1, <1>2, <1>3

\* Every line that is not blank consists of such cells.
LEMMA CellsExist ==
    ASSUME written \in Files, NEW E, Anatomy(E), NEW n \in 1 .. Len(written.lines),
           written.lines[n] # <<>>
    PROVE  \E Z, F : Cells(written.lines[n], E[n - 1], E[n], Z, F)
<1> DEFINE l == written.lines[n]
           m == Len(l)
           comma == written.comma
           from == E[n - 1]
<1>1. /\ l \in Seq(Seq(Symbols)) /\ l # <<>> /\ comma \in Seq(Symbols)
      /\ comma \in {<<Comma>>, <<Comma, Space>>, <<Space, Comma>>}
    BY WrittenFacts
<1>2. /\ from \in Nat /\ E[n] = from + 1 + Len(Line(comma, l)) /\ E[n] \in Nat
      /\ \A j \in 1 .. Len(Line(comma, l)) : file[from + j] = Line(comma, l)[j]
    <2>1. /\ LineOf(n) \in Seq(Symbols) /\ E[n] = E[n - 1] + 1 + Len(LineOf(n))
          /\ \A j \in 1 .. Len(LineOf(n)) : file[E[n - 1] + j] = LineOf(n)[j]
          /\ E \in [0 .. Len(written.lines) -> Nat]
        BY DEF Anatomy
    <2>2. n - 1 \in 0 .. Len(written.lines) /\ n \in 0 .. Len(written.lines)
        OBVIOUS
    <2>3. from \in Nat /\ E[n] \in Nat /\ Len(LineOf(n)) \in Nat /\ LineOf(n) = Line(comma, l)
        BY <2>1, <2>2 DEF LineOf
    <2> HIDE DEF from, l, comma
    <2> QED BY <2>1, <2>3 DEF from
<1> HIDE DEF l, comma, from
<1>3. PICK P \in [1 .. m -> Seq(Symbols)] :
          /\ P[1] = l[1]
          /\ \A k \in 2 .. m : P[k] = P[k - 1] \o comma \o l[k]
          /\ Line(comma, l) = P[m]
    BY <1>1, LineRun
<1>4. /\ m \in Nat /\ m >= 1 /\ Len(comma) \in Nat
      /\ \A k \in 1 .. m : /\ l[k] \in Seq(Symbols) /\ Len(l[k]) \in Nat
                           /\ P[k] \in Seq(Symbols) /\ Len(P[k]) \in Nat
    <2>1. m \in Nat /\ m >= 1 /\ Len(comma) \in Nat /\ \A k \in 1 .. m : l[k] \in Seq(Symbols)
        BY <1>1
    <2> QED BY <1>3, <2>1
<1> HIDE DEF m
<1>5. ASSUME NEW k \in 2 .. m
      PROVE  /\ Len(P[k]) = Len(P[k - 1]) + Len(comma) + Len(l[k]) /\ Begins(P[k - 1], P[k])
             /\ \A j \in 1 .. Len(comma) : P[k][Len(P[k - 1]) + j] = comma[j]
             /\ \A j \in 1 .. Len(l[k]) : P[k][Len(P[k - 1]) + Len(comma) + j] = l[k][j]
    <2> DEFINE s == P[k - 1]
               u == l[k]
               v == s \o comma \o u
    <2>1. P[k] = v
        BY <1>3
    <2>2. s \in Seq(Symbols) /\ u \in Seq(Symbols) /\ comma \in Seq(Symbols)
        BY <1>1, <1>4
    <2> HIDE DEF s, u
    <2>3. /\ v \in Seq(Symbols) /\ Len(v) = Len(s) + Len(comma) + Len(u) /\ Begins(s, v)
          /\ \A j \in 1 .. Len(comma) : v[Len(s) + j] = comma[j]
          /\ \A j \in 1 .. Len(u) : v[Len(s) + Len(comma) + j] = u[j]
        <3>1. v = s \o comma \o u
            OBVIOUS
        <3> HIDE DEF v
        <3>2. v \in Seq(Symbols) /\ Consists(v, s, comma, u)
            BY ONLY <2>2, <3>1, ThreeParts
        <3> QED BY <3>2 DEF Consists
    <2> HIDE DEF v
    <2> QED BY <2>1, <2>3 DEF s, u
<1>6. ASSUME NEW k \in 1 .. m, NEW j \in 1 .. Len(P[k]) PROVE file[from + j] = P[k][j]
    <2>1. Begins(P[k], P[m])
        <3>1. \A i \in 1 .. m : P[i] \in Seq(Symbols)
            BY <1>4
        <3>2. \A i \in 1 + 1 .. m : Begins(P[i - 1], P[i])
            <4>1. \A i \in 2 .. m : Begins(P[i - 1], P[i])
                BY <1>5
            <4> QED BY ONLY <4>1
        <3>3. m \in Nat /\ 1 \in 0 .. m
            BY <1>4
        <3>4. \A i \in 1 .. m : Begins(P[i], P[m])
            BY <3>1, <3>2, <3>3, GrowingSequence
        <3> QED BY <3>4
    <2>2. j \in 1 .. Len(P[m]) /\ P[m][j] = P[k][j]
        <3>1. m \in 1 .. m
            BY <1>4
        <3>2. Len(P[m]) \in Nat /\ Len(P[k]) \in Nat
            BY <1>4, <3>1
        <3> QED BY <2>1, <3>2 DEF Begins
    <2> QED BY <1>2, <1>3, <2>2
<1>7. ASSUME NEW k \in 2 .. m
      PROVE  /\ \A j \in 1 .. Len(comma) : file[from + Len(P[k - 1]) + j] = comma[j]
             /\ \A j \in 1 .. Len(l[k]) : file[from + Len(P[k - 1]) + Len(comma) + j] = l[k][j]
    <2>1. k \in 1 .. m /\ k - 1 \in 1 .. m
        BY <1>4
    <2>2. Len(P[k]) \in Nat /\ Len(P[k - 1]) \in Nat /\ Len(comma) \in Nat /\ Len(l[k]) \in Nat
        BY <1>4, <2>1
    <2>3. ASSUME NEW j \in 1 .. Len(comma) PROVE file[from + Len(P[k - 1]) + j] = comma[j]
        <3>1. Len(P[k - 1]) + j \in 1 .. Len(P[k])
            <4>1. Len(P[k]) = Len(P[k - 1]) + Len(comma) + Len(l[k])
                BY <1>5
            <4>2. \A a, b, c, i, t \in Nat : t = a + b + c /\ i \in 1 .. b => a + i \in 1 .. t
                OBVIOUS
            <4>3. j \in Nat
                BY <2>2
            <4> QED BY ONLY <2>2, <4>1, <4>2, <4>3, j \in 1 .. Len(comma), Zenon
        <3>2. file[from + (Len(P[k - 1]) + j)] = P[k][Len(P[k - 1]) + j]
            BY <1>6, <2>1, <3>1
        <3>3. from + (Len(P[k - 1]) + j) = from + Len(P[k - 1]) + j
            BY <1>2, <2>2
        <3> QED BY <1>5, <3>2, <3>3
    <2>4. ASSUME NEW j \in 1 .. Len(l[k])
          PROVE  file[from + Len(P[k - 1]) + Len(comma) + j] = l[k][j]
        <3> DEFINE x == Len(P[k - 1]) + Len(comma) + j
        <3>1. x \in 1 .. Len(P[k])
            <4>1. Len(P[k]) = Len(P[k - 1]) + Len(comma) + Len(l[k])
                BY <1>5
            <4>2. \A a, b, c, i, t \in Nat : t = a + b + c /\ i \in 1 .. c => a + b + i \in 1 .. t
                OBVIOUS
            <4>3. j \in Nat
                BY <2>2
            <4> QED BY ONLY <2>2, <4>1, <4>2, <4>3, j \in 1 .. Len(l[k]), Zenon
        <3>2. file[from + x] = P[k][x]
            BY <1>6, <2>1, <3>1
        <3>3. from + x = from + Len(P[k - 1]) + Len(comma) + j
            BY <1>2, <2>2
        <3> QED BY <1>5, <3>2, <3>3
    <2> QED BY <2>3, <2>4
<1>8. PICK d \in {0, 1} :
          /\ d + 1 \in 1 .. Len(comma) /\ comma[d + 1] = Comma
          /\ d = 1 => Len(comma) = 2 /\ comma[1] = Space
          /\ d = 0 /\ Len(comma) # 1 => Len(comma) = 2 /\ comma[2] = Space
    BY <1>1, CommaFacts
<1> DEFINE Z == [k \in 0 .. m |-> IF k = 0 THEN from ELSE IF k = m THEN E[n]
                                  ELSE from + Len(P[k]) + d + 1]
           F == [k \in 1 .. m |-> IF k = 1 THEN from + 1
                                  ELSE from + Len(P[k - 1]) + Len(comma) + 1]
<1>9. /\ Z \in [0 .. m -> Nat] /\ Z[0] = from /\ Z[m] = E[n]
      /\ \A k \in 1 .. m - 1 : Z[k] = from + Len(P[k]) + d + 1
      /\ F[1] = from + 1 /\ \A k \in 2 .. m : F[k] = from + Len(P[k - 1]) + Len(comma) + 1
    <2>1. \A k \in 1 .. m : from + Len(P[k]) + d + 1 \in Nat
        BY <1>2, <1>4
    <2> QED BY <1>2, <1>4, <2>1
<1>10. E[n] = from + Len(P[m]) + 1
    <2>1. Len(P[m]) \in Nat
        BY <1>4
    <2>2. E[n] = from + 1 + Len(P[m]) /\ from \in Nat
        BY <1>2, <1>3
    <2>3. \A a, b \in Nat : a + 1 + b = a + b + 1
        OBVIOUS
    <2> QED BY ONLY <2>1, <2>2, <2>3, Zenon
<1> HIDE DEF Z, F
<1>11. ASSUME NEW k \in 1 .. m
       PROVE  /\ F[k] + Len(l[k]) = from + Len(P[k]) + 1 /\ F[k] \in Nat
              /\ \A j \in 1 .. Len(l[k]) : file[F[k] + j - 1] = l[k][j]
    <2>1. CASE k = 1
        <3>1. F[k] = from + 1 /\ Len(l[k]) = Len(P[k]) /\ P[k] = l[k] /\ Len(P[k]) \in Nat
            BY <1>3, <1>4, <1>9, <2>1
        <3>2. from \in Nat
            BY <1>2
        <3>3. F[k] + Len(l[k]) = from + Len(P[k]) + 1 /\ F[k] \in Nat
            <4>1. \A a, b \in Nat : (a + 1) + b = a + b + 1 /\ a + 1 \in Nat
                OBVIOUS
            <4> QED BY ONLY <3>1, <3>2, <4>1, Zenon
        <3>4. \A j \in 1 .. Len(l[k]) : F[k] + j - 1 = from + j
            BY ONLY <3>1, <3>2
        <3>5. \A j \in 1 .. Len(l[k]) : file[from + j] = l[k][j]
            BY <1>6, <3>1
        <3> QED BY ONLY <3>3, <3>4, <3>5
    <2>2. CASE k # 1
        <3>1. k \in 2 .. m /\ k - 1 \in 1 .. m
            BY <1>4, <2>2
        <3>2. /\ F[k] = from + Len(P[k - 1]) + Len(comma) + 1
              /\ Len(P[k]) = Len(P[k - 1]) + Len(comma) + Len(l[k])
              /\ Len(P[k]) \in Nat /\ Len(P[k - 1]) \in Nat /\ Len(l[k]) \in Nat
            BY <1>4, <1>5, <1>9, <3>1
        <3>3. \A j \in 1 .. Len(l[k]) :
                  F[k] + j - 1 = from + Len(P[k - 1]) + Len(comma) + j
            <4>1. from \in Nat /\ Len(comma) \in Nat
                BY <1>2, <1>4
            <4> QED BY ONLY <3>2, <4>1
        <3>4. F[k] \in Nat /\ F[k] + Len(l[k]) = from + Len(P[k]) + 1
            <4>1. from \in Nat /\ Len(comma) \in Nat
                BY <1>2, <1>4
            <4> DEFINE b == Len(P[k - 1])
                       c == Len(comma)
                       e == Len(l[k])
            <4>2. b \in Nat /\ c \in Nat /\ e \in Nat
                BY <3>2, <4>1
            <4> HIDE DEF b, c, e
            <4>3. (from + b + c + 1) + e = from + (b + c + e) + 1 /\ from + b + c + 1 \in Nat
                BY ONLY <4>1, <4>2
            <4> USE DEF b, c, e
            <4> QED BY ONLY <3>2, <4>3, Zenon
        <3>5. \A j \in 1 .. Len(l[k]) : file[F[k] + j - 1] = l[k][j]
            <4>1. \A j \in 1 .. Len(l[k]) : file[from + Len(P[k - 1]) + Len(comma) + j] = l[k][j]
                BY <1>7, <3>1
            <4> QED BY ONLY <3>3, <4>1
        <3> QED BY <3>4, <3>5
    <2> QED BY <2>1, <2>2
<1>12. ASSUME NEW k \in 1 .. m - 1
       PROVE  /\ file[Z[k]] = Comma /\ Z[k] = F[k] + Len(l[k]) + d
              /\ d = 1 => file[Z[k] - 1] = Space
              /\ F[k + 1] = Z[k] + Len(comma) - d
              /\ d = 0 /\ Len(comma) # 1 => file[Z[k] + 1] = Space
    <2>1. k \in 1 .. m /\ k + 1 \in 2 .. m /\ (k + 1) - 1 = k
        BY <1>4
    <2>2. /\ Z[k] = from + Len(P[k]) + d + 1 /\ F[k] + Len(l[k]) = from + Len(P[k]) + 1
          /\ F[k + 1] = from + Len(P[k]) + Len(comma) + 1
          /\ Len(P[k]) \in Nat /\ Len(l[k]) \in Nat /\ F[k] \in Nat
        BY <1>4, <1>9, <1>11, <2>1
    <2>3. \A j \in 1 .. Len(comma) : file[from + Len(P[k]) + j] = comma[j]
        BY <1>7, <2>1
    <2>4. file[Z[k]] = Comma
        <3>1. Z[k] = from + Len(P[k]) + (d + 1)
            <4> DEFINE b == Len(P[k])
                       z == Z[k]
            <4>1. from \in Nat /\ d \in Nat /\ b \in Nat /\ z = from + b + d + 1
                BY <1>2, <2>2
            <4> HIDE DEF b, z
            <4>2. z = from + b + (d + 1)
                BY ONLY <4>1
            <4> QED BY <4>2 DEF b, z
        <3> QED BY <1>8, <2>3, <3>1
    <2>5. ASSUME d = 1 PROVE file[Z[k] - 1] = Space
        <3>1. Z[k] - 1 = from + Len(P[k]) + 1 /\ 1 \in 1 .. Len(comma)
            BY <1>2, <1>8, <2>2, <2>5
        <3> QED BY <1>8, <2>3, <2>5, <3>1
    <2>6. ASSUME d = 0, Len(comma) # 1 PROVE file[Z[k] + 1] = Space
        <3>1. Z[k] + 1 = from + Len(P[k]) + 2
            <4>1. from \in Nat
                BY <1>2
            <4> QED BY ONLY <2>2, <2>6, <4>1
        <3>2. Len(comma) = 2 /\ 2 \in 1 .. 2 /\ comma[2] = Space
            BY <1>8, <2>6
        <3> QED BY <2>3, <3>1, <3>2
    <2>7. Z[k] = F[k] + Len(l[k]) + d /\ F[k + 1] = Z[k] + Len(comma) - d
        BY <1>2, <1>4, <2>2
    <2> QED BY <2>4, <2>5, <2>6, <2>7
<1>13. ASSUME NEW k \in 1 .. m
       PROVE  Cell(l, k, Z[k - 1] + 1, F[k], Z[k])
    <2>1. /\ k = 1 => F[k] = Z[k - 1] + 1
          /\ k # 1 => /\ F[k] = Z[k - 1] + Len(comma) - d
                      /\ d = 0 /\ Len(comma) # 1 => file[Z[k - 1] + 1] = Space
        <3>1. CASE k = 1
            BY <1>9, <3>1
        <3>2. CASE k # 1
            <4>1. k - 1 \in 1 .. m - 1 /\ (k - 1) + 1 = k
                BY <1>4, <3>2
            <4>2. /\ F[(k - 1) + 1] = Z[k - 1] + Len(comma) - d
                  /\ d = 0 /\ Len(comma) # 1 => file[Z[k - 1] + 1] = Space
                BY <1>12, <4>1
            <4> QED BY <3>2, <4>1, <4>2
        <3> QED BY <3>1, <3>2
    <2>2. k - 1 \in 0 .. m /\ Z[k - 1] \in Nat
        <3>1. k - 1 \in 0 .. m
            BY <1>4
        <3> QED BY <1>9, <3>1
    <2>3. (k = 1 \/ Len(comma) = d + 1) => F[k] = Z[k - 1] + 1
        BY <1>8, <2>1, <2>2
    <2>4. (k # 1 /\ Len(comma) # d + 1) =>
              F[k] = (Z[k - 1] + 1) + 1 /\ file[Z[k - 1] + 1] = Space /\ d = 0
        <3>1. Len(comma) # d + 1 => d = 0 /\ Len(comma) = 2 /\ Len(comma) # 1
            <4> DEFINE x == Len(comma)
            <4>1. d \in {0, 1} /\ (d = 1 => x = 2) /\ (d = 0 /\ x # 1 => x = 2)
                BY <1>8
            <4> HIDE DEF x
            <4>2. x # d + 1 => d = 0 /\ x = 2 /\ x # 1
                BY ONLY <4>1
            <4> QED BY <4>2 DEF x
        <3>2. SUFFICES ASSUME k # 1, Len(comma) # d + 1
                       PROVE  F[k] = (Z[k - 1] + 1) + 1 /\ file[Z[k - 1] + 1] = Space /\ d = 0
            OBVIOUS
        <3>3. F[k] = Z[k - 1] + 2 - 0 /\ file[Z[k - 1] + 1] = Space
            BY <2>1, <3>1, <3>2
        <3>4. \A a \in Nat : a + 2 - 0 = (a + 1) + 1
            OBVIOUS
        <3> QED BY <2>2, <3>1, <3>2, <3>3, <3>4
    <2>5. \/ k \in 1 .. m - 1 /\ Z[k] = F[k] + Len(l[k]) + d /\ (d = 1 => file[Z[k] - 1] = Space)
          \/ k = m /\ Z[k] = F[k] + Len(l[k])
        <3>1. CASE k = m
            BY <1>9, <1>10, <1>11, <3>1
        <3>2. CASE k # m
            <4>1. k \in 1 .. m - 1
                BY <1>4, <3>2
            <4> QED BY <1>12, <4>1
        <3> QED BY <3>1, <3>2
    <2>6. d = 1 => Len(comma) = d + 1
        BY <1>8
    <2>7. /\ F[k] \in Nat /\ Len(l[k]) \in Nat
          /\ \A j \in 1 .. Len(l[k]) : file[F[k] + j - 1] = l[k][j]
        BY <1>4, <1>11
    <2> DEFINE c == Z[k - 1] + 1
               z == Z[k]
               f == F[k]
    <2>8. c \in Nat
        BY <2>2
    <2>9. /\ (k = 1 \/ Len(comma) = d + 1) => f = c
          /\ (k # 1 /\ Len(comma) # d + 1) => f = c + 1 /\ file[c] = Space /\ d = 0
        BY <2>3, <2>4
    <2>10. f = c \/ (f = c + 1 /\ k # 1 /\ file[c] = Space)
        BY <2>9
    <2>11. d = 0 \/ d = 1
        OBVIOUS
    <2>12. /\ z = f + Len(l[k]) + d \/ z = f + Len(l[k])
           /\ z = f + Len(l[k]) + d => z = f + Len(l[k]) \/ (d = 1 /\ file[z - 1] = Space)
        <3>1. /\ z = f + Len(l[k]) + d /\ (d = 1 => file[z - 1] = Space)
              \/ z = f + Len(l[k])
            BY <2>5
        <3>2. f + Len(l[k]) + 0 = f + Len(l[k])
            BY <2>7
        <3> HIDE DEF z, f
        <3> QED BY <2>11, <3>1, <3>2
    <2> HIDE DEF c, z, f
    <2>13. z = f + Len(l[k]) \/ (z = f + Len(l[k]) + 1 /\ file[z - 1] = Space /\ f = c)
        BY <2>6, <2>9, <2>11, <2>12
    <2>14. Cell(l, k, c, f, z)
        <3>1. f \in Nat /\ \A j \in 1 .. Len(l[k]) : file[f + j - 1] = l[k][j]
            BY <2>7 DEF f
        <3> QED BY <2>10, <2>13, <3>1 DEF Cell
    <2> QED BY <2>14 DEF c, z, f
<1>14. Cells(l, from, E[n], Z, F)
    <2>1. \A k \in 1 .. m : k # m => k \in 1 .. m - 1
        BY <1>4
    <2> QED BY <1>9, <1>12, <1>13, <2>1 DEF Cells, m
<1> QED BY <1>14 DEF l, from

-------------------------------------------------------------------------------
(* NextToken, on the cells of a line.                                      *)

Buffers == {t \in [1 .. 3 -> Symbols] : t[3] = NUL}

\* What NextToken does with the symbols up to the next separator, at z.
LEMMA TokenIs ==
    ASSUME file \in Seq(Symbols), NEW at, at.token \in Buffers, NEW p \in Nat \ {0}, at.pos = p,
           NEW z \in p .. Len(file) + 1, z = Len(file) + 1 \/ file[z] \in Separators,
           \A j \in p .. z - 1 : file[j] \notin Separators,
           NEW read \in Seq(Symbols), read = WithoutSpaces(SubSeq(file, p, z - 1)),
           Len(read) <= 2, \A k \in 1 .. Len(read) : read[k] # NUL
    PROVE  /\ NextToken(at).pos = IF z <= Len(file) /\ file[z] = Comma THEN z + 1 ELSE z
           /\ NextToken(at).token \in Buffers
           /\ z <= Len(file) \/ Len(read) = 2 => String(NextToken(at).token) = read
           /\ z > Len(file) /\ read = <<>> => NextToken(at).token = at.token
           /\ read # <<>> => NextToken(at).token[1] = read[1]
<1> DEFINE ends == z <= Len(file)
           t == [k \in 1 .. 3 |-> IF k <= Len(read) THEN read[k]
                                  ELSE IF ends /\ k = Len(read) + 1 THEN NUL ELSE at.token[k]]
<1>1. FindFrom(p, Separators) = z
    BY FindFromIs
<1>2. NextToken(at) = [pos |-> IF ends /\ file[z] = Comma THEN z + 1 ELSE z, token |-> t]
    BY <1>1 DEF NextToken, token_size
<1>3. NextToken(at).pos = IF ends /\ file[z] = Comma THEN z + 1 ELSE z
    BY <1>2
<1>4. NextToken(at).token = t
    BY <1>2
<1>5. Len(read) \in {0, 1, 2} /\ \A k \in 1 .. Len(read) : read[k] \in Symbols /\ read[k] # NUL
    <2>1. Len(read) \in Nat
        OBVIOUS
    <2>2. Len(read) \in {0, 1, 2}
        <3>1. \A x \in Nat : x <= 2 => x \in {0, 1, 2}
            OBVIOUS
        <3> QED BY ONLY <2>1, <3>1, Len(read) <= 2, Zenon
    <2>3. \A k \in 1 .. Len(read) : read[k] \in Symbols
        BY <2>1
    <2> QED BY <2>2, <2>3
<1>6. at.token \in [1 .. 3 -> Symbols] /\ at.token[3] = NUL /\ NUL \in Symbols
    BY SymbolFacts DEF Buffers
<1>7. /\ t \in [1 .. 3 -> Symbols] /\ t[3] = NUL /\ \A k \in 1 .. Len(read) : t[k] = read[k]
      /\ ends /\ Len(read) # 2 => t[Len(read) + 1] = NUL
      /\ ~ends /\ Len(read) = 0 => t = at.token
    <2> DEFINE a == at.token
    <2>1. a \in [1 .. 3 -> Symbols] /\ a[3] = NUL
        BY <1>6
    <2> HIDE DEF a
    <2>2. t = [k \in 1 .. 3 |-> IF k <= Len(read) THEN read[k]
                                ELSE IF ends /\ k = Len(read) + 1 THEN NUL ELSE a[k]]
        BY DEF a
    <2> HIDE DEF t, ends
    <2>3. t \in [1 .. 3 -> Symbols]
        BY <1>5, <1>6, <2>1, <2>2
    <2>4. t[3] = NUL
        BY <1>5, <2>1, <2>2
    <2>5. \A k \in 1 .. Len(read) : t[k] = read[k]
        BY <1>5, <2>2
    <2>6. ends /\ Len(read) # 2 => t[Len(read) + 1] = NUL
        BY <1>5, <2>2
    <2>7. ~ends /\ Len(read) = 0 => t = a
        BY <2>1, <2>2, <2>3
    <2> QED BY <2>3, <2>4, <2>5, <2>6, <2>7 DEF a
<1> HIDE DEF t
<1>8. t \in Buffers
    BY <1>7 DEF Buffers
<1>9. read = <<>> <=> Len(read) = 0
    OBVIOUS
<1>10. read # <<>> => t[1] = read[1]
    BY <1>5, <1>7, <1>9
<1>11. ASSUME ends \/ Len(read) = 2 PROVE String(t) = read
    <2>1. CASE Len(read) = 0
        <3>1. t[1] = NUL
            <4>1. t[0 + 1] = NUL /\ 0 + 1 = 1
                <5>1. Len(read) # 2
                    BY ONLY <2>1
                <5>2. t[Len(read) + 1] = NUL
                    BY <1>7, <1>11, <5>1
                <5> QED BY <2>1, <5>2
            <4> QED BY <4>1
        <3>2. String(t) = <<>>
            BY <1>7, <3>1, StringIs
        <3> QED BY <1>9, <2>1, <3>2
    <2>2. CASE Len(read) = 1
        <3>1. t[1] = read[1] /\ t[1] # NUL /\ t[2] = NUL
            <4>1. t[1 + 1] = NUL /\ 1 + 1 = 2 /\ 1 \in 1 .. 1
                <5>1. Len(read) # 2
                    BY ONLY <2>2
                <5>2. t[Len(read) + 1] = NUL
                    BY <1>7, <1>11, <5>1
                <5>3. 1 + 1 = 2 /\ 1 \in 1 .. 1
                    OBVIOUS
                <5>4. t[1 + 1] = NUL
                    BY ONLY <2>2, <5>2, Zenon
                <5> QED BY <5>3, <5>4
            <4> QED BY <1>5, <1>7, <2>2, <4>1
        <3>2. String(t) = <<t[1]>>
            BY <1>7, <3>1, StringIs
        <3>3. read = <<read[1]>>
            BY <2>2, Singleton
        <3> QED BY <3>1, <3>2, <3>3
    <2>3. CASE Len(read) = 2
        <3>1. t[1] = read[1] /\ t[1] # NUL /\ t[2] = read[2] /\ t[2] # NUL
            <4>1. 1 \in 1 .. 2 /\ 2 \in 1 .. 2
                OBVIOUS
            <4> QED BY <1>5, <1>7, <2>3, <4>1
        <3>2. String(t) = <<t[1], t[2]>>
            BY <1>7, <3>1, StringIs
        <3>3. read = <<read[1], read[2]>>
            BY <2>3, Pair
        <3> QED BY <3>1, <3>2, <3>3
    <2> QED BY <1>5, <2>1, <2>2, <2>3
<1>12. z > Len(file) => ~ends
    OBVIOUS
<1> QED BY <1>3, <1>4, <1>7, <1>8, <1>9, <1>10, <1>11, <1>12

\* Where the symbols of a cell come from.
LEMMA CellSymbols ==
    ASSUME NEW l \in Seq(Fields), OnlyFirst(l), NEW k \in 1 .. Len(l), NEW c \in Nat \ {0},
           NEW f, NEW z, Cell(l, k, c, f, z)
    PROVE  /\ z \in Nat /\ z - c \in 1 .. 3 /\ z - f \in {1, 2, 3}
           /\ (f = c /\ (z - c = 3 => file[c + 2] = Space))
              \/ (f = c + 1 /\ z - f \in {1, 2} /\ file[c] = Space)
           /\ \A j \in c .. z - 1 :
                 file[j] = Space \/ (j - f + 1 \in 1 .. Len(l[k]) /\ file[j] = l[k][j - f + 1])
           /\ \A j \in c .. z - 1 : /\ file[j] \in Symbols /\ file[j] \notin {Comma, LineEnd, NUL}
                                    /\ file[j] = Type[1] => k = 1 /\ j = c /\ Len(l[k]) = 2
<1> DEFINE field == l[k]
           x == Len(field)
<1>1. field \in Fields /\ field \in Seq(Symbols)
    BY FieldFacts
<1>2. x \in {1, 2} /\ \A i \in 1 .. x : field[i] \in Symbols /\ field[i] \notin {Comma, LineEnd, Space, NUL}
    BY <1>1, FieldFacts
<1>3. /\ f \in Nat
      /\ f = c \/ (f = c + 1 /\ k # 1 /\ file[c] = Space)
      /\ \A j \in 1 .. x : file[f + j - 1] = field[j]
      /\ z = f + x \/ (z = f + x + 1 /\ file[z - 1] = Space /\ f = c)
    BY DEF Cell
<1>4. \A i \in 1 .. x : field[i] = Type[1] => k = 1 /\ i = 1 /\ x = 2
    BY DEF OnlyFirst
<1> HIDE DEF x, field
<1>5. z \in Nat /\ z - c \in 1 .. 3 /\ z - f \in {1, 2, 3}
    BY <1>2, <1>3
<1>6. \/ f = c /\ (z - c = 3 => file[c + 2] = Space)
      \/ f = c + 1 /\ z - f \in {1, 2} /\ file[c] = Space
    <2>1. CASE f = c
        <3>1. z - c = 3 => z - 1 = c + 2 /\ z = f + x + 1
            BY <1>2, <1>3, <2>1
        <3>2. z - c = 3 => z # f + x
            BY <1>2, <2>1
        <3>3. z - c = 3 => file[z - 1] = Space
            BY <1>3, <3>2
        <3> QED BY <2>1, <3>1, <3>3
    <2>2. CASE f = c + 1 /\ file[c] = Space
        <3>1. f # c
            BY <2>2
        <3>2. z = f + x
            BY <1>3, <3>1
        <3>3. z - f = x
            BY <1>2, <1>3, <3>2
        <3> QED BY <1>2, <2>2, <3>3
    <2> QED BY <1>3, <2>1, <2>2
<1>7. ASSUME NEW j \in c .. z - 1
      PROVE  file[j] = Space \/ (j - f + 1 \in 1 .. x /\ file[j] = field[j - f + 1])
    <2>1. CASE j \in f .. f + x - 1
        <3> DEFINE i == j - f + 1
        <3>1. i \in 1 .. x /\ f + i - 1 = j
            BY <1>2, <1>3, <2>1
        <3> HIDE DEF i
        <3>2. file[j] = field[i]
            BY <1>3, <3>1
        <3> QED BY <3>1, <3>2 DEF i
    <2>2. CASE j < f
        <3>1. f = c + 1 /\ j = c
            BY <1>3, <2>2
        <3>2. f # c
            BY <3>1
        <3>3. file[c] = Space
            BY <1>3, <3>2
        <3> QED BY <3>1, <3>3
    <2>3. CASE j >= f + x
        <3>1. z = f + x + 1 /\ j = z - 1
            BY <1>2, <1>3, <2>3
        <3>2. z # f + x
            BY <1>2, <1>3, <3>1
        <3>3. file[z - 1] = Space
            BY <1>3, <3>2
        <3> QED BY <3>1, <3>3
    <2>4. j \in Int /\ f \in Int /\ x \in Int
        BY <1>2, <1>3
    <2>5. j \in f .. f + x - 1 \/ j < f \/ j >= f + x
        BY ONLY <2>4
    <2> QED BY <2>1, <2>2, <2>3, <2>5
<1>8. ASSUME NEW j \in c .. z - 1
      PROVE  /\ file[j] \in Symbols /\ file[j] \notin {Comma, LineEnd, NUL}
             /\ file[j] = Type[1] => k = 1 /\ j = c /\ x = 2
    <2>1. CASE file[j] = Space
        <3>1. Type \in Fields /\ Len(Type) = 2
            BY FilesAssumption
        <3>2. 1 \in 1 .. Len(Type)
            BY <3>1
        <3>3. Type[1] # Space
            BY <3>1, <3>2, FieldFacts
        <3> QED BY <2>1, <3>3, SymbolFacts
    <2>2. CASE j - f + 1 \in 1 .. x /\ file[j] = field[j - f + 1]
        <3> DEFINE i == j - f + 1
        <3>1. i \in 1 .. x /\ file[j] = field[i]
            BY <2>2
        <3>2. file[j] = Type[1] => k = 1 /\ i = 1 /\ x = 2
            BY <1>4, <3>1
        <3>3. i = 1 => j = f
            BY <1>3
        <3>4. k = 1 => f = c
            BY <1>3
        <3> HIDE DEF i
        <3> QED BY <1>2, <3>1, <3>2, <3>3, <3>4
    <2> QED BY <1>7, <2>1, <2>2
<1>9. \A j \in c .. z - 1 :
          file[j] = Space \/ (j - f + 1 \in 1 .. Len(l[k]) /\ file[j] = l[k][j - f + 1])
    BY <1>7 DEF x, field
<1>10. \A j \in c .. z - 1 : /\ file[j] \in Symbols /\ file[j] \notin {Comma, LineEnd, NUL}
                             /\ file[j] = Type[1] => k = 1 /\ j = c /\ Len(l[k]) = 2
    BY <1>8 DEF x, field
<1> QED BY <1>5, <1>6, <1>9, <1>10

\* What is read from the middle of a cell on.
LEMMA CellPart ==
    ASSUME file \in Seq(Symbols),
           NEW l \in Seq(Fields), OnlyFirst(l), NEW k \in 1 .. Len(l), NEW c \in Nat \ {0},
           NEW f, NEW z, Cell(l, k, c, f, z), z <= Len(file) + 1, NEW p \in c .. z
    PROVE  LET read == WithoutSpaces(SubSeq(file, p, z - 1))
           IN /\ read \in Seq(Symbols) /\ Len(read) <= 2
              /\ \A i \in 1 .. Len(read) : \E j \in p .. z - 1 : read[i] = file[j]
              /\ p = z => read = <<>>
              /\ p = c => read = l[k]
<1> DEFINE s == SubSeq(file, p, z - 1)
           read == WithoutSpaces(s)
           field == l[k]
           x == Len(field)
<1>1. /\ z \in Nat /\ z - c \in 1 .. 3
      /\ (f = c /\ (z - c = 3 => file[c + 2] = Space))
         \/ (f = c + 1 /\ z - f \in {1, 2} /\ file[c] = Space)
    BY CellSymbols
<1>2. s \in Seq(Symbols) /\ Len(s) = z - p /\ \A i \in 1 .. z - p : s[i] = file[p + i - 1]
    <2>1. Len(file) \in Nat
        OBVIOUS
    <2>2. p \in 1 .. Len(file) + 1 /\ z - 1 \in p - 1 .. Len(file)
        BY <1>1, <2>1
    <2> DEFINE y == z - 1
    <2>3. y \in p - 1 .. Len(file) /\ y - p + 1 = z - p
        BY <1>1, <2>2
    <2> HIDE DEF y
    <2>4. /\ SubSeq(file, p, y) \in Seq(Symbols) /\ Len(SubSeq(file, p, y)) = y - p + 1
          /\ \A i \in 1 .. y - p + 1 : SubSeq(file, p, y)[i] = file[p + i - 1]
        BY <2>2, <2>3, SubSeqProperties
    <2> QED BY <2>3, <2>4 DEF y
<1>3. field \in Seq(Symbols) /\ x \in {1, 2} /\ \A i \in 1 .. x : field[i] # Space
    BY FieldFacts
<1>4. /\ f = c \/ (f = c + 1 /\ file[c] = Space)
      /\ \A j \in 1 .. x : file[f + j - 1] = field[j]
      /\ z = f + x \/ (z = f + x + 1 /\ file[z - 1] = Space /\ f = c)
    BY DEF Cell
<1> HIDE DEF s, field, x
<1>5. Len(s) <= 3 /\ (Len(s) = 3 => s[1] = Space \/ s[3] = Space)
    <2>1. Len(s) \in Nat /\ Len(s) <= 3 /\ (Len(s) = 3 => p = c /\ z - c = 3)
        BY <1>1, <1>2
    <2>2. ASSUME Len(s) = 3 PROVE s[1] = file[c] /\ s[3] = file[c + 2]
        <3>1. z - p = 3 /\ p = c
            BY <1>2, <2>1, <2>2
        <3>2. 1 \in 1 .. z - p /\ 3 \in 1 .. z - p /\ p + 1 - 1 = c /\ p + 3 - 1 = c + 2
            BY <3>1
        <3> QED BY <1>2, <3>1, <3>2
    <2> QED BY <1>1, <2>1, <2>2
<1>6. /\ read \in Seq(Symbols) /\ Len(read) <= 2
      /\ \A i \in 1 .. Len(read) : \E j \in 1 .. Len(s) : read[i] = s[j]
      /\ s = <<>> => read = <<>>
    BY <1>2, <1>5, Spaceless
<1>7. ASSUME NEW i \in 1 .. Len(read) PROVE \E j \in p .. z - 1 : read[i] = file[j]
    <2>1. PICK j \in 1 .. Len(s) : read[i] = s[j]
        BY <1>6
    <2>2. j \in 1 .. z - p /\ p + j - 1 \in p .. z - 1
        BY <1>1, <1>2
    <2> QED BY <1>2, <2>1, <2>2
<1>8. p = z => read = <<>>
    <2>1. p = z => Len(s) = 0
        BY <1>1, <1>2
    <2> QED BY <1>2, <1>6, <2>1
<1>9. ASSUME p = c PROVE read = field
    <2>1. Len(s) = z - c /\ \A i \in 1 .. z - c : s[i] = file[c + i - 1]
        BY <1>2, <1>9
    <2>2. /\ x = 1 => field = <<field[1]>> /\ field[1] # Space
          /\ x = 2 => field = <<field[1], field[2]>> /\ field[1] # Space /\ field[2] # Space
        <3>1. x = 1 => field = <<field[1]>>
            BY <1>3, Singleton DEF x
        <3>2. x = 2 => field = <<field[1], field[2]>>
            BY <1>3, Pair DEF x
        <3>3. x = 1 => 1 \in 1 .. x
            OBVIOUS
        <3>4. x = 2 => 1 \in 1 .. x /\ 2 \in 1 .. x
            OBVIOUS
        <3> QED BY <1>3, <3>1, <3>2, <3>3, <3>4
    <2>3. /\ x = 1 => file[f] = field[1]
          /\ x = 2 => file[f] = field[1] /\ file[f + 1] = field[2]
        <3>1. f \in Nat
            BY <1>1
        <3>2. x >= 1 => file[f + 1 - 1] = field[1]
            BY <1>3, <1>4
        <3>3. x = 2 => file[f + 2 - 1] = field[2]
            BY <1>3, <1>4
        <3>4. f + 1 - 1 = f /\ f + 2 - 1 = f + 1
            BY <3>1
        <3> QED BY <1>3, <3>2, <3>3, <3>4
    <2>4. CASE f = c /\ z = f + x /\ x = 1
        <3>1. Len(s) = 1 /\ s[1] = file[c + 1 - 1] /\ c + 1 - 1 = c
            BY <1>1, <2>1, <2>4
        <3>2. s[1] # Space
            BY <2>2, <2>3, <2>4, <3>1
        <3>3. read = s
            BY <1>2, <1>5, <3>1, <3>2, Spaceless
        <3>4. s = <<s[1]>>
            BY <1>2, <3>1, Singleton
        <3> QED BY <2>2, <2>3, <2>4, <3>1, <3>3, <3>4
    <2>5. CASE f = c /\ z = f + x /\ x = 2
        <3>1. Len(s) = 2 /\ s[1] = file[c + 1 - 1] /\ c + 1 - 1 = c /\ s[2] = file[c + 2 - 1] /\ c + 2 - 1 = c + 1
            BY <1>1, <2>1, <2>5
        <3>2. s[1] # Space /\ s[2] # Space
            BY <2>2, <2>3, <2>5, <3>1
        <3>3. read = s
            BY <1>2, <1>5, <3>1, <3>2, Spaceless
        <3>4. s = <<s[1], s[2]>>
            BY <1>2, <3>1, Pair
        <3> QED BY <2>2, <2>3, <2>5, <3>1, <3>3, <3>4
    <2>6. CASE f = c /\ z = f + x + 1 /\ file[z - 1] = Space /\ x = 1
        <3>1. Len(s) = 2 /\ s[1] = file[c + 1 - 1] /\ c + 1 - 1 = c /\ s[2] = file[c + 2 - 1] /\ c + 2 - 1 = z - 1
            BY <1>1, <2>1, <2>6
        <3>2. s[1] # Space /\ s[2] = Space
            BY <2>2, <2>3, <2>6, <3>1
        <3>3. read = <<s[1]>>
            BY <1>2, <1>5, <3>1, <3>2, Spaceless
        <3> QED BY <2>2, <2>3, <2>6, <3>1, <3>3
    <2>7. CASE f = c /\ z = f + x + 1 /\ file[z - 1] = Space /\ x = 2
        <3>1. Len(s) = 3 /\ s[1] = file[c + 1 - 1] /\ c + 1 - 1 = c /\ s[2] = file[c + 2 - 1] /\ c + 2 - 1 = c + 1
              /\ s[3] = file[c + 3 - 1] /\ c + 3 - 1 = z - 1
            BY <1>1, <2>1, <2>7
        <3>2. s[1] # Space /\ s[2] # Space /\ s[3] = Space
            BY <2>2, <2>3, <2>7, <3>1
        <3>3. read = <<s[1], s[2]>>
            BY <1>2, <1>5, <3>1, <3>2, Spaceless
        <3> QED BY <2>2, <2>3, <2>7, <3>1, <3>3
    <2>8. CASE f = c + 1 /\ file[c] = Space /\ z = f + x /\ x = 1
        <3>1. Len(s) = 2 /\ s[1] = file[c + 1 - 1] /\ c + 1 - 1 = c /\ s[2] = file[c + 2 - 1] /\ c + 2 - 1 = f
            BY <1>1, <2>1, <2>8
        <3>2. s[1] = Space /\ s[2] # Space
            BY <2>2, <2>3, <2>8, <3>1
        <3>3. read = <<s[2]>>
            BY <1>2, <1>5, <3>1, <3>2, Spaceless
        <3> QED BY <2>2, <2>3, <2>8, <3>1, <3>3
    <2>9. CASE f = c + 1 /\ file[c] = Space /\ z = f + x /\ x = 2
        <3>1. Len(s) = 3 /\ s[1] = file[c + 1 - 1] /\ c + 1 - 1 = c /\ s[2] = file[c + 2 - 1] /\ c + 2 - 1 = f
              /\ s[3] = file[c + 3 - 1] /\ c + 3 - 1 = f + 1
            BY <1>1, <2>1, <2>9
        <3>2. s[1] = Space /\ s[2] # Space /\ s[3] # Space
            BY <2>2, <2>3, <2>9, <3>1
        <3>3. read = <<s[2], s[3]>>
            BY <1>2, <1>5, <3>1, <3>2, Spaceless
        <3> QED BY <2>2, <2>3, <2>9, <3>1, <3>3
    <2>10. f = c + 1 => z = f + x
        <3>1. f = c + 1 => f # c
            BY <1>1
        <3> QED BY <1>4, <3>1
    <2> QED BY <1>3, <1>4, <2>4, <2>5, <2>6, <2>7, <2>8, <2>9, <2>10
<1> QED BY <1>6, <1>7, <1>8, <1>9 DEF s, field

\* A buffer that does not begin like the pool's type does not hold it.
LEMMA NotType ==
    ASSUME NEW t \in Buffers, t[1] # Type[1]
    PROVE  String(t) # Type
<1>1. t \in [1 .. 3 -> Symbols] /\ t[3] = NUL
    BY DEF Buffers
<1>2. /\ t[1] = NUL => String(t) = <<>>
      /\ t[1] # NUL /\ t[2] = NUL => String(t) = <<t[1]>>
      /\ t[1] # NUL /\ t[2] # NUL => String(t) = <<t[1], t[2]>>
    BY <1>1, StringIs
<1>3. Len(Type) = 2
    BY FilesAssumption
<1>4. <<>> # Type
    <2>1. Len(<<>>) = 0
        OBVIOUS
    <2> QED BY ONLY <1>3, <2>1
<1>5. ASSUME String(t) = <<t[1]>>, String(t) = Type PROVE FALSE
    <2>1. Len(<<t[1]>>) = 1
        OBVIOUS
    <2> QED BY <1>3, <1>5, <2>1
<1>6. ASSUME String(t) = <<t[1], t[2]>>, String(t) = Type PROVE FALSE
    <2>1. <<t[1], t[2]>>[1] = t[1]
        OBVIOUS
    <2> QED BY <1>6, <2>1
<1> QED BY <1>2, <1>4, <1>5, <1>6

\* A token that is read at the end of a line, or behind the file, is empty.
LEMMA TokenAtEnd ==
    ASSUME file \in Seq(Symbols), NEW at, at.token \in Buffers, NEW z \in 1 .. Len(file) + 1,
           at.pos = z, z = Len(file) + 1 \/ file[z] = LineEnd
    PROVE  /\ NextToken(at).pos = z /\ NextToken(at).token \in Buffers
           /\ z <= Len(file) => String(NextToken(at).token) = <<>>
           /\ String(at.token) # Type => String(NextToken(at).token) # Type
<1> DEFINE s == SubSeq(file, z, z - 1)
           read == WithoutSpaces(s)
<1>1. s = <<>> /\ Len(s) = 0
    <2>1. s \in Seq(Symbols) /\ Len(s) = 0
        OBVIOUS
    <2> QED BY <2>1
<1>2. <<>> \in Seq(Symbols) /\ Len(<<>>) = 0
    OBVIOUS
<1> HIDE DEF s
<1>3. read = <<>>
    <2>1. s \in Seq(Symbols) /\ Len(s) <= 3 /\ Len(s) # 3
        BY ONLY <1>1, <1>2
    <2> QED BY <1>1, <2>1, Spaceless
<1> HIDE DEF read
<1>4. read \in Seq(Symbols) /\ Len(read) <= 2 /\ \A k \in 1 .. Len(read) : read[k] # NUL
    BY <1>2, <1>3
<1>5. /\ z \in Nat \ {0} /\ z \in z .. Len(file) + 1 /\ \A j \in z .. z - 1 : file[j] \notin Separators
      /\ z = Len(file) + 1 \/ file[z] \in Separators
    BY DEF Separators
<1>6. read = WithoutSpaces(SubSeq(file, z, z - 1))
    BY DEF s, read
<1>7. /\ NextToken(at).pos = IF z <= Len(file) /\ file[z] = Comma THEN z + 1 ELSE z
      /\ NextToken(at).token \in Buffers
      /\ z <= Len(file) \/ Len(read) = 2 => String(NextToken(at).token) = read
      /\ z > Len(file) /\ read = <<>> => NextToken(at).token = at.token
    BY ONLY file \in Seq(Symbols), at.token \in Buffers, at.pos = z, <1>4, <1>5, <1>6, TokenIs
<1>8. NextToken(at).pos = z
    <2>1. ~(z <= Len(file) /\ file[z] = Comma)
        BY SymbolFacts
    <2> QED BY <1>7, <2>1
<1>9. <<>> # Type
    <2>1. Len(Type) = 2
        BY FilesAssumption
    <2> QED BY ONLY <1>2, <2>1
<1>10. z <= Len(file) \/ z > Len(file)
    OBVIOUS
<1> QED BY <1>3, <1>7, <1>8, <1>9, <1>10

\* What a token is that is read in a cell: the field, if it is read from the start of the cell,
\* and the pool's type only in that case.
LEMMA TokenInCell ==
    ASSUME file \in Seq(Symbols),
           NEW l \in Seq(Fields), OnlyFirst(l), NEW k \in 1 .. Len(l), NEW c \in Nat \ {0},
           NEW f, NEW z, Cell(l, k, c, f, z), z <= Len(file) + 1,
           z = Len(file) + 1 \/ file[z] \in Separators,
           NEW p \in c .. z, NEW at, at.pos = p, at.token \in Buffers
    PROVE  /\ NextToken(at).pos = IF z <= Len(file) /\ file[z] = Comma THEN z + 1 ELSE z
           /\ NextToken(at).token \in Buffers
           /\ p = c /\ (z <= Len(file) \/ Len(l[k]) = 2) => String(NextToken(at).token) = l[k]
           /\ String(at.token) # Type /\ ~(p = c /\ k = 1 /\ l[k] = Type)
                 => String(NextToken(at).token) # Type
<1> DEFINE read == WithoutSpaces(SubSeq(file, p, z - 1))
           next == NextToken(at)
           field == l[k]
<1>1. /\ read \in Seq(Symbols) /\ Len(read) <= 2
      /\ \A i \in 1 .. Len(read) : \E j \in p .. z - 1 : read[i] = file[j]
      /\ p = z => read = <<>>
      /\ p = c => read = field
    <2>1. /\ file \in Seq(Symbols) /\ l \in Seq(Fields) /\ OnlyFirst(l) /\ k \in 1 .. Len(l)
          /\ c \in Nat \ {0} /\ Cell(l, k, c, f, z) /\ z <= Len(file) + 1 /\ p \in c .. z
        OBVIOUS
    <2> QED BY ONLY <2>1, CellPart
<1>2. /\ z \in Nat /\ z - c \in 1 .. 3
      /\ \A j \in c .. z - 1 : /\ file[j] \in Symbols /\ file[j] \notin {Comma, LineEnd, NUL}
                               /\ file[j] = Type[1] => k = 1 /\ j = c /\ Len(field) = 2
    <2>1. /\ l \in Seq(Fields) /\ OnlyFirst(l) /\ k \in 1 .. Len(l)
          /\ c \in Nat \ {0} /\ Cell(l, k, c, f, z)
        OBVIOUS
    <2>2. /\ z \in Nat /\ z - c \in 1 .. 3
          /\ \A j \in c .. z - 1 : /\ file[j] \in Symbols /\ file[j] \notin {Comma, LineEnd, NUL}
                                   /\ file[j] = Type[1] => k = 1 /\ j = c /\ Len(l[k]) = 2
        <3> HIDE DEF field
        <3> QED BY ONLY <2>1, CellSymbols, SMTT(30)
    <2> QED BY <2>2
<1>3. field \in Seq(Symbols) /\ Len(field) \in {1, 2} /\ Type \in Fields /\ Len(Type) = 2
    BY FieldFacts, FilesAssumption
<1>4. /\ p \in Nat \ {0} /\ z \in p .. Len(file) + 1 /\ \A j \in p .. z - 1 : j \in c .. z - 1
    BY <1>2
<1>5. read = WithoutSpaces(SubSeq(file, p, z - 1))
    OBVIOUS
<1> HIDE DEF read
<1>6. \A j \in p .. z - 1 : file[j] \notin Separators
    BY <1>2, <1>4 DEF Separators
<1>7. \A i \in 1 .. Len(read) : read[i] # NUL
    BY <1>1, <1>2, <1>4
<1>8. /\ next.pos = IF z <= Len(file) /\ file[z] = Comma THEN z + 1 ELSE z
      /\ next.token \in Buffers
      /\ z <= Len(file) \/ Len(read) = 2 => String(next.token) = read
      /\ z > Len(file) /\ read = <<>> => next.token = at.token
      /\ read # <<>> => next.token[1] = read[1]
    BY <1>1, <1>4, <1>5, <1>6, <1>7, TokenIs
<1>9. \A j \in 1 .. Len(field) : field[j] = Type[1] => k = 1 /\ j = 1 /\ Len(field) = 2
    BY DEF OnlyFirst
<1> HIDE DEF next, field
<1>10. ASSUME p = c, String(at.token) # Type, ~(k = 1 /\ field = Type)
       PROVE  String(next.token) # Type
    <2>1. read = field
        BY <1>1, <1>10
    <2>2. field # Type
        <3>1. SUFFICES ASSUME field = Type PROVE FALSE
            OBVIOUS
        <3>2. 1 \in 1 .. Len(field) /\ field[1] = Type[1]
            <4>1. Len(field) = 2
                BY ONLY <1>3, <3>1, Zenon
            <4>2. 1 \in 1 .. 2
                OBVIOUS
            <4> QED BY ONLY <3>1, <4>1, <4>2, Zenon
        <3> QED BY <1>9, <1>10, <3>1, <3>2
    <2>3. CASE Len(field) = 2
        BY <1>8, <2>1, <2>2, <2>3
    <2>4. CASE Len(field) = 1
        <3>1. 1 \in 1 .. Len(field) /\ Len(field) # 2
            BY ONLY <2>4
        <3>2. field[1] # Type[1]
            BY <1>9, <3>1
        <3>3. field # <<>>
            BY <3>1
        <3> QED BY <1>8, <2>1, <3>2, <3>3, NotType
    <2> QED BY <1>3, <2>3, <2>4
<1>11. ASSUME p # c, String(at.token) # Type PROVE String(next.token) # Type
    <2>1. CASE read # <<>>
        <3>1. 1 \in 1 .. Len(read)
            BY <1>1, <2>1
        <3>2. PICK j \in p .. z - 1 : read[1] = file[j]
            BY <1>1, <3>1
        <3>3. j # c /\ j \in c .. z - 1
            BY <1>2, <1>4, <1>11
        <3>4. read[1] # Type[1]
            BY <1>2, <3>2, <3>3
        <3> QED BY <1>8, <2>1, <3>4, NotType
    <2>2. CASE read = <<>>
        <3>1. Len(read) = 0
            BY <2>2
        <3>2. read # Type
            <4>1. Len(Type) = 2
                BY ONLY <1>3, Zenon
            <4>2. 0 # 2
                OBVIOUS
            <4> QED BY ONLY <3>1, <4>1, <4>2, Zenon
        <3>3. z <= Len(file) \/ z > Len(file)
            BY <1>2
        <3> QED BY <1>8, <1>11, <2>2, <3>2, <3>3
    <2> QED BY <2>1, <2>2
<1>12. p = c /\ (z <= Len(file) \/ Len(field) = 2) => String(next.token) = field
    BY <1>1, <1>8
<1>13. String(at.token) # Type /\ ~(p = c /\ k = 1 /\ field = Type) => String(next.token) # Type
    BY <1>10, <1>11
<1> QED BY <1>8, <1>12, <1>13 DEF next, field

\* Where lines end.
LEMMA LineEnds ==
    ASSUME written \in Files, NEW E, Anatomy(E), NEW n \in 0 .. Len(written.lines)
    PROVE  /\ E[n] \in Nat \ {0} /\ E[n] <= Len(file) + 1
           /\ n # Len(written.lines) \/ written.ended => E[n] <= Len(file) /\ file[E[n]] = LineEnd
           /\ n = Len(written.lines) /\ ~written.ended => E[n] = Len(file) + 1
           /\ n # 0 => E[n - 1] \in Nat /\ E[n - 1] < E[n]
<1> DEFINE N == Len(written.lines)
<1>1. N \in Nat
    BY WrittenFacts
<1>2. /\ file \in Seq(Symbols) /\ E \in [0 .. N -> Nat] /\ E[0] = 3
      /\ \A k \in 1 .. N :
            /\ LineOf(k) \in Seq(Symbols) /\ E[k] = E[k - 1] + 1 + Len(LineOf(k))
            /\ E[k - 1] <= Len(file) /\ file[E[k - 1]] = LineEnd
      /\ IF written.ended THEN Len(file) = E[N] /\ file[E[N]] = LineEnd ELSE Len(file) + 1 = E[N]
    BY DEF Anatomy
<1> HIDE DEF N
<1>3. Len(file) \in Nat
    BY <1>2
<1>4. ASSUME n # 0 PROVE E[n - 1] \in Nat /\ E[n - 1] < E[n]
    <2>1. n \in 1 .. N /\ n - 1 \in 0 .. N
        BY <1>1, <1>4 DEF N
    <2>2. E[n - 1] \in Nat /\ E[n] = E[n - 1] + 1 + Len(LineOf(n)) /\ LineOf(n) \in Seq(Symbols)
        BY <1>2, <2>1
    <2>3. Len(LineOf(n)) \in Nat
        BY <2>2
    <2> DEFINE a == E[n - 1]
               b == Len(LineOf(n))
    <2>4. a \in Nat /\ b \in Nat /\ E[n] = a + 1 + b
        BY <2>2, <2>3
    <2> HIDE DEF a, b
    <2>5. a < E[n]
        BY <2>4
    <2> QED BY <2>2, <2>5 DEF a
<1>5. ASSUME n # N PROVE E[n] <= Len(file) /\ file[E[n]] = LineEnd
    <2>1. n + 1 \in 1 .. N /\ (n + 1) - 1 = n
        BY <1>1, <1>5 DEF N
    <2>2. E[(n + 1) - 1] <= Len(file) /\ file[E[(n + 1) - 1]] = LineEnd
        BY <1>2, <2>1
    <2> QED BY <2>1, <2>2
<1>6. E[n] \in Nat
    BY <1>2 DEF N
<1>7. n # N \/ written.ended => E[n] <= Len(file) /\ file[E[n]] = LineEnd
    <2>1. CASE n = N /\ written.ended
        BY <1>2, <1>6, <2>1
    <2> QED BY <1>5, <2>1
<1>8. n = N /\ ~written.ended => E[n] = Len(file) + 1
    BY <1>2
<1>9. E[n] # 0
    <2>1. CASE n = 0
        BY <1>2, <2>1
    <2>2. CASE n # 0
        BY <1>4, <1>6, <2>2
    <2> QED BY <2>1, <2>2
<1>10. E[n] <= Len(file) + 1
    BY <1>3, <1>6, <1>7, <1>8
<1> QED BY <1>4, <1>6, <1>7, <1>8, <1>9, <1>10 DEF N

\* Cells follow each other.
LEMMA CellsOrdered ==
    ASSUME NEW l \in Seq(Fields), OnlyFirst(l), NEW from \in Nat, NEW to \in Nat,
           NEW Z, NEW F, Cells(l, from, to, Z, F)
    PROVE  /\ \A k \in 0 .. Len(l) : Z[k] \in Nat /\ from <= Z[k] /\ Z[k] <= to
           /\ \A k \in 1 .. Len(l) : Z[k - 1] \in Nat /\ Z[k - 1] + 2 <= Z[k]
           /\ \A k \in 1 .. Len(l) : k # Len(l) => Z[k] + 2 <= to
<1> DEFINE m == Len(l)
<1>1. m \in Nat
    OBVIOUS
<1>2. /\ Z \in [0 .. m -> Nat] /\ Z[0] = from /\ Z[m] = to
      /\ \A k \in 1 .. m : Cell(l, k, Z[k - 1] + 1, F[k], Z[k])
    BY DEF Cells
<1>3. ASSUME NEW k \in 1 .. m PROVE Z[k - 1] \in Nat /\ Z[k - 1] + 2 <= Z[k]
    <2>1. k - 1 \in 0 .. m /\ Z[k - 1] \in Nat
        <3>1. k - 1 \in 0 .. m
            BY <1>1
        <3> QED BY <1>2, <3>1
    <2> DEFINE c == Z[k - 1] + 1
               z == Z[k]
               f == F[k]
    <2>2. c \in Nat \ {0} /\ Cell(l, k, c, f, z)
        BY <1>2, <2>1
    <2> HIDE DEF c, z, f
    <2>3. z \in Nat /\ z - c \in 1 .. 3
        BY <2>2, CellSymbols
    <2>4. c + 1 <= z
        BY <2>2, <2>3
    <2>5. Z[k - 1] + 2 <= z
        <3> DEFINE a == Z[k - 1]
        <3>1. a \in Nat /\ a + 1 + 1 <= z
            BY <2>1, <2>4 DEF c
        <3> HIDE DEF a
        <3>2. a + 2 <= z
            BY <2>3, <3>1
        <3> QED BY <3>2 DEF a
    <2> QED BY <2>1, <2>5 DEF z
<1> HIDE DEF m
<1>4. \A k \in 0 .. m : Z[k] \in Nat
    BY <1>2
<1>5. \A k \in 0 .. m : from <= Z[k]
    <2> DEFINE G == {k \in 0 .. m : from <= Z[k]}
    <2>1. 0 \in G
        BY <1>1, <1>2
    <2>2. ASSUME NEW k \in 1 .. m, k - 1 \in G PROVE k \in G
        BY <1>3, <1>4, <2>2
    <2> HIDE DEF G
    <2>3. \A k \in 0 .. m : k \in G
        BY <1>1, <2>1, <2>2, UpTo
    <2> QED BY <2>3 DEF G
<1>6. \A k \in 0 .. m : Z[k] <= to
    <2> DEFINE G == {j \in 0 .. m : Z[m - j] <= to}
    <2>1. 0 \in G
        BY <1>1, <1>2
    <2>2. ASSUME NEW j \in 1 .. m, j - 1 \in G PROVE j \in G
        <3> DEFINE k == m - (j - 1)
        <3>1. k \in 1 .. m /\ k - 1 = m - j /\ k \in 0 .. m /\ j \in 0 .. m
            BY <1>1
        <3>2. Z[k] <= to
            BY <2>2
        <3> HIDE DEF k
        <3>3. Z[k - 1] <= to
            BY <1>3, <1>4, <3>1, <3>2
        <3> QED BY <3>1, <3>3
    <2> HIDE DEF G
    <2>3. \A j \in 0 .. m : j \in G
        BY <1>1, <2>1, <2>2, UpTo
    <2>4. ASSUME NEW k \in 0 .. m PROVE Z[k] <= to
        <3>1. m - k \in 0 .. m /\ m - (m - k) = k
            BY <1>1
        <3>2. Z[m - (m - k)] <= to
            BY <2>3, <3>1 DEF G
        <3> QED BY <3>1, <3>2
    <2> QED BY <2>4
<1>7. ASSUME NEW k \in 1 .. m, k # m PROVE Z[k] + 2 <= to
    <2>1. k + 1 \in 1 .. m /\ (k + 1) - 1 = k /\ k \in 0 .. m /\ k + 1 \in 0 .. m
        BY <1>1, <1>7
    <2>2. Z[(k + 1) - 1] + 2 <= Z[k + 1]
        BY <1>3, <2>1
    <2>3. Z[k] + 2 <= Z[k + 1] /\ Z[k + 1] <= to /\ Z[k] \in Nat /\ Z[k + 1] \in Nat
        BY <1>4, <1>6, <2>1, <2>2
    <2> QED BY <2>3
<1> QED BY <1>3, <1>4, <1>5, <1>6, <1>7 DEF m

\* Every place in a line that is not blank is in a cell.
LEMMA InSomeCell ==
    ASSUME NEW m \in Nat, NEW Z \in [0 .. m -> Nat], NEW p \in Z[0] + 1 .. Z[m]
    PROVE  \E k \in 1 .. m : p \in Z[k - 1] + 1 .. Z[k]
<1>1. SUFFICES ASSUME \A k \in 1 .. m : p \notin Z[k - 1] + 1 .. Z[k] PROVE FALSE
    OBVIOUS
<1> DEFINE G == {k \in 0 .. m : p > Z[k]}
<1>2. Z[0] \in Nat /\ Z[m] \in Nat /\ p \in Nat /\ p > Z[0] /\ p <= Z[m]
    <2>1. 0 \in 0 .. m /\ m \in 0 .. m
        OBVIOUS
    <2>2. Z[0] \in Nat /\ Z[m] \in Nat
        BY <2>1
    <2> QED BY <2>2
<1>3. 0 \in G
    BY <1>2
<1>4. ASSUME NEW k \in 1 .. m, k - 1 \in G PROVE k \in G
    <2>1. k \in 0 .. m /\ k - 1 \in 0 .. m
        OBVIOUS
    <2>2. Z[k] \in Nat /\ Z[k - 1] \in Nat /\ p > Z[k - 1] /\ p \notin Z[k - 1] + 1 .. Z[k]
        BY <1>1, <1>4, <2>1
    <2>3. p > Z[k]
        BY <1>2, <2>2
    <2> QED BY <2>1, <2>3
<1> HIDE DEF G
<1>5. \A k \in 0 .. m : k \in G
    BY <1>3, <1>4, UpTo
<1>6. p > Z[m]
    BY <1>5 DEF G
<1> QED BY <1>2, <1>6

\* The facts about line n of the file that the parser's steps in it rest on.
LineCells(l, from, to, Z, F) ==
    /\ l \in Seq(Fields) /\ OnlyFirst(l) /\ l # <<>>
    /\ from \in Nat /\ to \in Nat /\ to <= Len(file) + 1
    /\ to = Len(file) + 1 \/ file[to] = LineEnd
    /\ file \in Seq(Symbols)
    /\ Cells(l, from, to, Z, F)

\* Every line that is not blank has them.
LEMMA LineCellsExist ==
    ASSUME written \in Files, NEW E, Anatomy(E), NEW n \in 1 .. Len(written.lines),
           written.lines[n] # <<>>
    PROVE  \E Z, F : LineCells(written.lines[n], E[n - 1], E[n], Z, F)
<1>1. PICK Z, F : Cells(written.lines[n], E[n - 1], E[n], Z, F)
    BY CellsExist
<1>2. written.lines[n] \in Seq(Fields) /\ OnlyFirst(written.lines[n])
    BY WrittenFacts
<1>3. n \in 0 .. Len(written.lines) /\ n # 0
    OBVIOUS
<1>4. /\ E[n] \in Nat \ {0} /\ E[n] <= Len(file) + 1 /\ E[n - 1] \in Nat
      /\ n # Len(written.lines) \/ written.ended => E[n] <= Len(file) /\ file[E[n]] = LineEnd
      /\ n = Len(written.lines) /\ ~written.ended => E[n] = Len(file) + 1
    BY <1>3, LineEnds
<1>5. file \in Seq(Symbols)
    BY DEF Anatomy
<1> QED BY <1>1, <1>2, <1>4, <1>5 DEF LineCells

\* Where a cell ends.
LEMMA CellStop ==
    ASSUME NEW l, NEW from, NEW to, NEW Z, NEW F, LineCells(l, from, to, Z, F),
           NEW k \in 1 .. Len(l)
    PROVE  /\ Z[k - 1] \in Nat /\ Z[k - 1] + 1 \in Nat \ {0}
           /\ Z[k] \in Nat /\ Z[k] <= Len(file) + 1 /\ Z[k] <= to /\ Z[k - 1] + 2 <= Z[k]
           /\ from <= Z[k - 1]
           /\ Z[k] = Len(file) + 1 \/ file[Z[k]] \in Separators
           /\ Cell(l, k, Z[k - 1] + 1, F[k], Z[k])
           /\ k = Len(l) => Z[k] = to
           /\ k # Len(l) => Z[k] <= Len(file) /\ file[Z[k]] = Comma /\ Z[k] + 2 <= to
<1>1. /\ l \in Seq(Fields) /\ OnlyFirst(l) /\ from \in Nat /\ to \in Nat /\ to <= Len(file) + 1
      /\ to = Len(file) + 1 \/ file[to] = LineEnd
      /\ file \in Seq(Symbols) /\ Cells(l, from, to, Z, F)
    BY DEF LineCells
<1>2. /\ \A j \in 0 .. Len(l) : Z[j] \in Nat /\ from <= Z[j] /\ Z[j] <= to
      /\ \A j \in 1 .. Len(l) : Z[j - 1] \in Nat /\ Z[j - 1] + 2 <= Z[j]
      /\ \A j \in 1 .. Len(l) : j # Len(l) => Z[j] + 2 <= to
    BY <1>1, CellsOrdered
<1>3. k \in 0 .. Len(l) /\ k - 1 \in 0 .. Len(l) /\ Len(l) \in Nat /\ Len(file) \in Nat
    BY <1>1
<1>4. Z[k - 1] \in Nat /\ from <= Z[k - 1] /\ Z[k] \in Nat /\ Z[k] <= to /\ Z[k - 1] + 2 <= Z[k]
    BY <1>2, <1>3
<1>5. /\ Cell(l, k, Z[k - 1] + 1, F[k], Z[k]) /\ (k # Len(l) => file[Z[k]] = Comma)
      /\ Z[Len(l)] = to
    BY <1>1 DEF Cells
<1>6. k # Len(l) => Z[k] + 2 <= to
    BY <1>2
<1> DEFINE z == Z[k]
           y == Z[k - 1]
<1> HIDE DEF z, y
<1>7. y \in Nat => y + 1 \in Nat \ {0}
    OBVIOUS
<1>8. z \in Nat /\ z <= to => z <= Len(file) + 1
    BY <1>1, <1>3
<1>9. z \in Nat /\ z + 2 <= to => z <= Len(file)
    BY <1>1, <1>3
<1>10. Z[k] = Len(file) + 1 \/ file[Z[k]] \in Separators
    <2>1. CASE k = Len(l)
        BY <1>1, <1>5, <2>1 DEF Separators
    <2>2. CASE k # Len(l)
        BY <1>5, <2>2 DEF Separators
    <2> QED BY <2>1, <2>2
<1>11. k = Len(l) => Z[k] = to
    BY <1>5
<1> QED BY <1>4, <1>5, <1>6, <1>7, <1>8, <1>9, <1>10, <1>11 DEF z, y

\* A token that is read in a line, but not from the start of a line of the pool, is not the
\* pool's type, and the parser stays in the line.
LEMMA TokenInLine ==
    ASSUME written \in Files, NEW E, Anatomy(E), NEW n \in 1 .. Len(written.lines),
           NEW p \in E[n - 1] + 1 .. E[n], NEW at, at.pos = p, at.token \in Buffers,
           String(at.token) # Type, p = E[n - 1] + 1 => ~IsRow(written.lines[n])
    PROVE  /\ NextToken(at).token \in Buffers /\ String(NextToken(at).token) # Type
           /\ NextToken(at).pos \in p .. E[n]
<1> DEFINE l == written.lines[n]
           next == NextToken(at)
           to == E[n]
           from == E[n - 1]
<1>1. n \in 0 .. Len(written.lines) /\ n # 0
    OBVIOUS
<1>2. /\ to \in Nat \ {0} /\ to <= Len(file) + 1 /\ from \in Nat /\ from < to
      /\ n # Len(written.lines) \/ written.ended => to <= Len(file) /\ file[to] = LineEnd
      /\ n = Len(written.lines) /\ ~written.ended => to = Len(file) + 1
    BY <1>1, LineEnds
<1>3. file \in Seq(Symbols) /\ Len(file) \in Nat
    BY DEF Anatomy
<1>4. CASE p = to
    <2>1. to \in 1 .. Len(file) + 1 /\ (to = Len(file) + 1 \/ file[to] = LineEnd)
        BY <1>2, <1>3
    <2>2. /\ NextToken(at).pos = to /\ NextToken(at).token \in Buffers
          /\ String(at.token) # Type => String(NextToken(at).token) # Type
        BY <1>3, <1>4, <2>1, TokenAtEnd
    <2> QED BY <1>2, <1>4, <2>2
<1>5. CASE l = <<>>
    <2>1. Line(written.comma, l) = <<>> /\ Len(<<>>) = 0
        BY <1>5 DEF Line
    <2>2. to = from + 1 + Len(LineOf(n))
        BY DEF Anatomy
    <2>3. to = from + 1 + 0
        BY <2>1, <2>2 DEF LineOf
    <2>4. p = to
        BY <1>2, <2>3
    <2> QED BY <1>4, <2>4
<1>6. CASE p # to /\ l # <<>>
    <2>1. PICK Z, F : LineCells(l, from, to, Z, F)
        BY <1>6, LineCellsExist
    <2>2. /\ Z \in [0 .. Len(l) -> Nat] /\ Z[0] = from /\ Z[Len(l)] = to /\ Len(l) \in Nat
          /\ l \in Seq(Fields) /\ OnlyFirst(l)
        BY <2>1 DEF LineCells, Cells
    <2> HIDE DEF l, next, to, from
    <2>3. p \in Z[0] + 1 .. Z[Len(l)]
        BY <2>2 DEF to, from
    <2>4. PICK k \in 1 .. Len(l) : p \in Z[k - 1] + 1 .. Z[k]
        BY <2>2, <2>3, InSomeCell
    <2> DEFINE c == Z[k - 1] + 1
               z == Z[k]
               f == F[k]
    <2>5. /\ Z[k - 1] \in Nat /\ c \in Nat \ {0} /\ z \in Nat /\ z <= Len(file) + 1 /\ z <= to
          /\ from <= Z[k - 1] /\ Z[k - 1] + 2 <= z
          /\ z = Len(file) + 1 \/ file[z] \in Separators
          /\ Cell(l, k, c, f, z)
          /\ k = Len(l) => z = to
          /\ k # Len(l) => z <= Len(file) /\ file[z] = Comma /\ z + 2 <= to
        BY <2>1, CellStop
    <2>6. k # 1 => c # from + 1
        <3>1. CASE k # 1
            <4>1. k - 1 \in 1 .. Len(l)
                BY <2>2, <3>1
            <4>2. Z[(k - 1) - 1] \in Nat /\ from <= Z[(k - 1) - 1] /\ Z[(k - 1) - 1] + 2 <= Z[k - 1]
                BY <2>1, <4>1, CellStop
            <4> DEFINE x == Z[(k - 1) - 1]
                       y == Z[k - 1]
            <4>3. x \in Nat /\ from <= x /\ x + 2 <= y /\ y \in Nat
                BY <2>5, <4>2
            <4> HIDE DEF x, y
            <4>4. y + 1 # from + 1
                <5>1. from \in Nat
                    BY <1>2
                <5> HIDE DEF from
                <5> QED BY ONLY <4>3, <5>1
            <4> QED BY <4>4 DEF y
        <3> QED BY <3>1
    <2>7. p \in c .. z
        BY <2>4
    <2> HIDE DEF c, z, f
    <2>8. /\ next.pos = IF z <= Len(file) /\ file[z] = Comma THEN z + 1 ELSE z
          /\ next.token \in Buffers
          /\ String(at.token) # Type /\ ~(p = c /\ k = 1 /\ l[k] = Type)
                => String(next.token) # Type
        <3>1. /\ file \in Seq(Symbols) /\ l \in Seq(Fields) /\ OnlyFirst(l) /\ k \in 1 .. Len(l)
              /\ c \in Nat \ {0} /\ Cell(l, k, c, f, z) /\ z <= Len(file) + 1
              /\ z = Len(file) + 1 \/ file[z] \in Separators
              /\ p \in c .. z /\ at.pos = p /\ at.token \in Buffers
            BY <1>3, <2>2, <2>5, <2>7
        <3>2. /\ NextToken(at).pos = IF z <= Len(file) /\ file[z] = Comma THEN z + 1 ELSE z
              /\ NextToken(at).token \in Buffers
              /\ String(at.token) # Type /\ ~(p = c /\ k = 1 /\ l[k] = Type)
                    => String(NextToken(at).token) # Type
            BY ONLY <3>1, TokenInCell
        <3> QED BY <3>2 DEF next
    <2>9. ~(p = c /\ k = 1 /\ l[k] = Type)
        <3>1. SUFFICES ASSUME p = c, k = 1, l[k] = Type PROVE FALSE
            OBVIOUS
        <3>2. c = from + 1
            BY <2>2, <3>1 DEF c
        <3>3. IsRow(l)
            BY <1>6, <3>1 DEF IsRow
        <3> QED BY <3>1, <3>2, <3>3 DEF l, from
    <2>10. next.pos \in p .. to
        <3>1. CASE k = Len(l)
            <4>1. z = to /\ ~(file[z] = Comma /\ z <= Len(file))
                BY <1>2, <2>5, <3>1, SymbolFacts DEF to
            <4>2. next.pos = to
                BY <2>8, <4>1
            <4> QED BY <1>2, <4>2 DEF to
        <3>2. CASE k # Len(l)
            <4>1. next.pos = z + 1 /\ z + 2 <= to
                BY <2>5, <2>8, <3>2
            <4>2. z \in Nat /\ p \in Nat /\ p <= z /\ to \in Nat
                BY <1>2, <2>5, <2>7 DEF to
            <4> QED BY <4>1, <4>2
        <3> QED BY <3>1, <3>2
    <2> QED BY <2>8, <2>9, <2>10 DEF next, to
<1> QED BY <1>4, <1>5, <1>6

\* Where the parser is before it reads field k of a row.
StartOf(l, Z, to, k) == IF k <= Len(l) THEN Z[k - 1] + 1 ELSE to

\* From the start of a line its fields are read one by one, and nothing behind them.
LEMMA FieldToken ==
    ASSUME NEW l, NEW from, NEW to, NEW Z, NEW F, LineCells(l, from, to, Z, F),
           NEW k \in Nat \ {0}, NEW at, at.pos = StartOf(l, Z, to, k), at.token \in Buffers
    PROVE  /\ NextToken(at).pos = StartOf(l, Z, to, k + 1)
           /\ NextToken(at).token \in Buffers
           /\ to <= Len(file) => String(NextToken(at).token) = IF k <= Len(l) THEN l[k] ELSE <<>>
           /\ k <= Len(l) /\ Len(l[k]) = 2 => String(NextToken(at).token) = l[k]
<1> DEFINE next == NextToken(at)
<1>1. /\ l \in Seq(Fields) /\ OnlyFirst(l) /\ from \in Nat /\ to \in Nat /\ to <= Len(file) + 1
      /\ to = Len(file) + 1 \/ file[to] = LineEnd
      /\ file \in Seq(Symbols) /\ Len(file) \in Nat /\ Len(l) \in Nat /\ Len(l) # 0
    BY DEF LineCells
<1>2. ASSUME NEW j \in 1 .. Len(l)
      PROVE  /\ Z[j - 1] \in Nat /\ Z[j - 1] + 1 \in Nat \ {0}
             /\ Z[j] \in Nat /\ Z[j] <= Len(file) + 1 /\ Z[j] <= to /\ Z[j - 1] + 2 <= Z[j]
             /\ Z[j] = Len(file) + 1 \/ file[Z[j]] \in Separators
             /\ Cell(l, j, Z[j - 1] + 1, F[j], Z[j])
             /\ j = Len(l) => Z[j] = to
             /\ j # Len(l) => Z[j] <= Len(file) /\ file[Z[j]] = Comma
    BY CellStop
<1>3. CASE k <= Len(l)
    <2> DEFINE c == Z[k - 1] + 1
               z == Z[k]
               f == F[k]
    <2>1. k \in 1 .. Len(l)
        BY <1>1, <1>3
    <2>2. /\ c \in Nat \ {0} /\ z \in Nat /\ z <= Len(file) + 1 /\ Z[k - 1] \in Nat /\ Z[k - 1] + 2 <= z
          /\ z = Len(file) + 1 \/ file[z] \in Separators
          /\ Cell(l, k, c, f, z) /\ z <= to
          /\ k = Len(l) => z = to
          /\ k # Len(l) => z <= Len(file) /\ file[z] = Comma
        BY <1>2, <2>1
    <2>3. c <= z
        BY <2>2
    <2>4. at.pos = c
        BY <1>3 DEF StartOf
    <2>5. StartOf(l, Z, to, k + 1) = IF k # Len(l) THEN z + 1 ELSE to
        <3>1. k + 1 <= Len(l) <=> k # Len(l)
            BY <1>1, <1>3
        <3>2. (k + 1) - 1 = k
            OBVIOUS
        <3> QED BY <3>1, <3>2 DEF StartOf
    <2> HIDE DEF c, z, f
    <2>6. c \in c .. z
        BY <2>2, <2>3
    <2>7. /\ next.pos = IF z <= Len(file) /\ file[z] = Comma THEN z + 1 ELSE z
          /\ next.token \in Buffers
          /\ z <= Len(file) \/ Len(l[k]) = 2 => String(next.token) = l[k]
        <3>1. /\ file \in Seq(Symbols) /\ l \in Seq(Fields) /\ OnlyFirst(l) /\ k \in 1 .. Len(l)
              /\ c \in Nat \ {0} /\ Cell(l, k, c, f, z) /\ z <= Len(file) + 1
              /\ z = Len(file) + 1 \/ file[z] \in Separators
              /\ c \in c .. z /\ at.pos = c /\ at.token \in Buffers
            BY <1>1, <2>1, <2>2, <2>4, <2>6
        <3>2. /\ NextToken(at).pos = IF z <= Len(file) /\ file[z] = Comma THEN z + 1 ELSE z
              /\ NextToken(at).token \in Buffers
              /\ c = c /\ (z <= Len(file) \/ Len(l[k]) = 2) => String(NextToken(at).token) = l[k]
            BY ONLY <3>1, TokenInCell
        <3> QED BY <3>2
    <2>8. next.pos = StartOf(l, Z, to, k + 1)
        <3>1. CASE k = Len(l)
            <4>1. z = to /\ ~(z <= Len(file) /\ file[z] = Comma)
                BY <1>1, <2>2, <3>1, SymbolFacts
            <4> QED BY <2>5, <2>7, <3>1, <4>1
        <3>2. CASE k # Len(l)
            BY <2>2, <2>5, <2>7, <3>2
        <3> QED BY <3>1, <3>2
    <2>9. to <= Len(file) => z <= Len(file)
        BY <1>1, <2>2
    <2> QED BY <1>3, <2>7, <2>8, <2>9
<1>4. CASE ~(k <= Len(l))
    <2>1. at.pos = to
        BY <1>4 DEF StartOf
    <2>2. StartOf(l, Z, to, k + 1) = to
        BY <1>1, <1>4 DEF StartOf
    <2>3. to # 0
        <3>1. 1 \in 1 .. Len(l)
            BY <1>1
        <3>2. Z[1 - 1] \in Nat /\ Z[1] \in Nat /\ Z[1] <= to /\ Z[1 - 1] + 2 <= Z[1]
            BY <1>2, <3>1
        <3> DEFINE a == Z[1 - 1]
                   b == Z[1]
        <3>3. a \in Nat /\ b \in Nat /\ b <= to /\ a + 2 <= b
            BY <3>2
        <3> HIDE DEF a, b
        <3> QED BY <1>1, <3>3
    <2>4. to \in 1 .. Len(file) + 1
        BY <1>1, <2>3
    <2>5. /\ next.pos = to /\ next.token \in Buffers
          /\ to <= Len(file) => String(next.token) = <<>>
        BY <1>1, <2>1, <2>4, TokenAtEnd
    <2> QED BY <1>4, <2>2, <2>5
<1> QED BY <1>3, <1>4

\* The number that a field of a row is.
LEMMA AtollOfField ==
    ASSUME NEW l, NEW k, NEW s, s = IF k <= Len(l) THEN l[k] ELSE <<>>
    PROVE  atoll(s) = Field(l, k)
<1>1. CASE k <= Len(l)
    BY <1>1 DEF Field
<1>2. CASE ~(k <= Len(l))
    <2> DEFINE of == {n \in DOMAIN Digits : Digits[n] = <<>>}
    <2>1. ASSUME NEW n \in of PROVE FALSE
        <3>1. Digits[n] \in Fields /\ Digits[n] = <<>>
            BY FilesAssumption
        <3>2. Len(<<>>) \in {1, 2}
            BY <3>1, FieldFacts
        <3>3. Len(<<>>) = 0
            OBVIOUS
        <3> QED BY <3>2, <3>3
    <2>2. of = {}
        BY <2>1
    <2>3. atoll(<<>>) = IF of = {} THEN 0 ELSE CHOOSE n \in of : TRUE
        BY DEF atoll
    <2> HIDE DEF of
    <2>4. atoll(<<>>) = 0
        BY <2>2, <2>3
    <2> QED BY <1>2, <2>4 DEF Field
<1> QED BY <1>1, <1>2

\* What is read from the start of a line of the pool on: exactly what the line says, if it has
\* its line end, and up to there exactly if there are no more than four fields.
LEMMA RowIs ==
    ASSUME written \in Files, NEW E, Anatomy(E), NEW n \in 1 .. Len(written.lines),
           IsRow(written.lines[n]), pos = E[n - 1] + 1, token \in Buffers
    PROVE  LET l == written.lines[n]
               ended == n # Len(written.lines) \/ written.ended
           IN /\ String(First.token) = Type /\ Row.token \in Buffers
              /\ ended => /\ Row.page = Field(l, 2) /\ Row.start = Field(l, 3)
                          /\ Row.end = Field(l, 4) /\ String(Row.token) # Type
              /\ Row.pos <= Len(file) /\ file[Row.pos] = LineEnd <=> Len(l) <= 4 /\ ended
              /\ Row.pos <= Len(file) /\ file[Row.pos] = LineEnd => Row.pos = E[n]
<1> DEFINE l == written.lines[n]
           to == E[n]
           from == E[n - 1]
           ended == n # Len(written.lines) \/ written.ended
<1>1. l # <<>> /\ l[1] = Type
    BY DEF IsRow
<1>2. PICK Z, F : LineCells(l, from, to, Z, F)
    BY <1>1, LineCellsExist
<1>3. /\ l \in Seq(Fields) /\ OnlyFirst(l) /\ from \in Nat /\ to \in Nat /\ to <= Len(file) + 1
      /\ file \in Seq(Symbols) /\ Len(file) \in Nat /\ Len(l) \in Nat /\ Len(l) # 0 /\ Z[0] = from
    BY <1>1, <1>2 DEF LineCells, Cells
<1>4. (ended <=> to <= Len(file)) /\ (ended => file[to] = LineEnd)
    <2>1. n \in 0 .. Len(written.lines)
        OBVIOUS
    <2>2. /\ n # Len(written.lines) \/ written.ended => E[n] <= Len(file) /\ file[E[n]] = LineEnd
          /\ n = Len(written.lines) /\ ~written.ended => E[n] = Len(file) + 1
        BY <2>1, LineEnds
    <2> QED BY <1>3, <2>2
<1> HIDE DEF l, to, from, ended
<1> DEFINE at == [pos |-> pos, token |-> token]
           type == NextToken(at)
           page == NextToken(type)
           start == NextToken(page)
           end == NextToken(start)
<1>5. /\ First = type
      /\ Row = [page |-> atoll(String(page.token)), start |-> atoll(String(start.token)),
                end |-> atoll(String(end.token)), pos |-> end.pos, token |-> end.token]
    BY DEF First, Row
<1>6. at.pos = pos /\ at.token = token
    OBVIOUS
<1> HIDE DEF at
<1>7. at.pos = StartOf(l, Z, to, 1) /\ at.token \in Buffers
    <2>1. 1 <= Len(l) /\ 1 - 1 = 0
        BY <1>3
    <2> QED BY <1>3, <1>6, <2>1 DEF StartOf, from
<1>8. /\ type.pos = StartOf(l, Z, to, 1 + 1) /\ type.token \in Buffers
      /\ 1 <= Len(l) /\ Len(l[1]) = 2 => String(type.token) = l[1]
    BY ONLY <1>2, <1>7, 1 \in Nat \ {0}, FieldToken
<1> HIDE DEF type
<1>9. /\ page.pos = StartOf(l, Z, to, 2 + 1) /\ page.token \in Buffers
      /\ to <= Len(file) => String(page.token) = IF 2 <= Len(l) THEN l[2] ELSE <<>>
    <2>1. type.pos = StartOf(l, Z, to, 2)
        BY <1>8
    <2> QED BY ONLY <1>2, <1>8, <2>1, 2 \in Nat \ {0}, FieldToken
<1> HIDE DEF page
<1>10. /\ start.pos = StartOf(l, Z, to, 3 + 1) /\ start.token \in Buffers
       /\ to <= Len(file) => String(start.token) = IF 3 <= Len(l) THEN l[3] ELSE <<>>
    <2>1. page.pos = StartOf(l, Z, to, 3)
        BY <1>9
    <2> QED BY ONLY <1>2, <1>9, <2>1, 3 \in Nat \ {0}, FieldToken
<1> HIDE DEF start
<1>11. /\ end.pos = StartOf(l, Z, to, 4 + 1) /\ end.token \in Buffers
       /\ to <= Len(file) => String(end.token) = IF 4 <= Len(l) THEN l[4] ELSE <<>>
    <2>1. start.pos = StartOf(l, Z, to, 4)
        BY <1>10
    <2> QED BY ONLY <1>2, <1>10, <2>1, 4 \in Nat \ {0}, FieldToken
<1> HIDE DEF end
<1>12. /\ Row.page = atoll(String(page.token)) /\ Row.start = atoll(String(start.token))
       /\ Row.end = atoll(String(end.token)) /\ Row.pos = end.pos /\ Row.token = end.token
    BY <1>5
<1>13. String(First.token) = Type
    <2>1. Len(l[1]) = 2 /\ 1 <= Len(l)
        BY <1>1, <1>3, FilesAssumption DEF l
    <2> QED BY <1>1, <1>5, <1>8, <2>1 DEF l
<1>14. ASSUME to <= Len(file)
       PROVE  /\ Row.page = Field(l, 2) /\ Row.start = Field(l, 3) /\ Row.end = Field(l, 4)
              /\ String(Row.token) # Type
    <2>1. atoll(String(page.token)) = Field(l, 2)
        BY <1>9, <1>14, AtollOfField
    <2>2. atoll(String(start.token)) = Field(l, 3)
        BY <1>10, <1>14, AtollOfField
    <2>3. atoll(String(end.token)) = Field(l, 4)
        BY <1>11, <1>14, AtollOfField
    <2>4. String(end.token) # Type
        <3>1. Len(Type) = 2 /\ 1 \in 1 .. 2 /\ Len(<<>>) = 0
            BY FilesAssumption
        <3>2. <<>> # Type
            BY ONLY <3>1
        <3>3. CASE 4 <= Len(l)
            <4>1. 4 \in 1 .. Len(l) /\ 4 # 1
                BY <1>3, <3>3
            <4>2. \A j \in 1 .. Len(l[4]) : l[4][j] = Type[1] => 4 = 1
                BY <1>3, <4>1 DEF OnlyFirst
            <4>3. l[4] # Type
                BY <3>1, <4>1, <4>2
            <4> QED BY <1>11, <1>14, <3>3, <4>3
        <3>4. CASE ~(4 <= Len(l))
            BY <1>11, <1>14, <3>2, <3>4
        <3> QED BY <3>3, <3>4
    <2> QED BY <1>12, <2>1, <2>2, <2>3, <2>4
<1>15. CASE Len(l) <= 4
    <2>1. ~(5 <= Len(l))
        BY <1>3, <1>15
    <2>2. Row.pos = to
        BY <1>11, <1>12, <2>1 DEF StartOf
    <2> QED BY <1>4, <1>11, <1>12, <1>13, <1>14, <1>15, <2>2 DEF l, to, ended
<1>16. CASE ~(Len(l) <= 4)
    <2>1. 5 \in 1 .. Len(l)
        BY <1>3, <1>16
    <2> DEFINE c == Z[5 - 1] + 1
               z == Z[5]
               f == F[5]
    <2>2. c \in Nat \ {0} /\ Z[5 - 1] \in Nat /\ z \in Nat /\ Cell(l, 5, c, f, z)
        BY <1>2, <2>1, CellStop
    <2>3. Row.pos = c
        <3>1. 5 <= Len(l) /\ 4 + 1 = 5
            BY <2>1
        <3> QED BY <1>11, <1>12, <3>1 DEF StartOf
    <2> HIDE DEF c, z, f
    <2>4. z - c \in 1 .. 3 /\ \A j \in c .. z - 1 : file[j] \notin {Comma, LineEnd, NUL}
        BY <1>3, <2>1, <2>2, CellSymbols
    <2>5. c \in c .. z - 1
        BY <2>2, <2>4
    <2>6. file[Row.pos] # LineEnd
        BY <2>3, <2>4, <2>5
    <2> QED BY <1>4, <1>11, <1>12, <1>13, <1>14, <1>16, <2>6 DEF l, to, ended
<1> QED BY <1>15, <1>16

-------------------------------------------------------------------------------
(* What is accepted does not depend on the order of the intervals.         *)

\* A list of sound intervals is sound in any order.
LEMMA SoundElements ==
    ASSUME NEW list, NEW size, Sound(list, size), NEW t,
           \A k \in 1 .. Len(t) : \E a \in 1 .. Len(list) : t[k] = list[a]
    PROVE  Sound(t, size)
<1>1. ASSUME NEW k \in 1 .. Len(t)
      PROVE  /\ t[k].page_size \in {HUGE_2MB, HUGE_1GB}
             /\ IS_ALIGNED(t[k].start_offset, BASE_4KB)
             /\ t[k].start_offset < t[k].end_offset /\ t[k].end_offset <= size
             /\ IS_ALIGNED(t[k].end_offset - t[k].start_offset, t[k].page_size)
    <2>1. PICK a \in 1 .. Len(list) : t[k] = list[a]
        OBVIOUS
    <2>2. /\ list[a].page_size \in {HUGE_2MB, HUGE_1GB}
          /\ IS_ALIGNED(list[a].start_offset, BASE_4KB)
          /\ list[a].start_offset < list[a].end_offset /\ list[a].end_offset <= size
          /\ IS_ALIGNED(list[a].end_offset - list[a].start_offset, list[a].page_size)
        BY DEF Sound
    <2> QED BY <2>1, <2>2, Zenon
<1>2. ASSUME NEW k \in 1 .. Len(t), NEW m \in 1 .. Len(t), t[k].page_size <= t[m].page_size
      PROVE  IS_ALIGNED(t[k].start_offset - t[m].start_offset, t[k].page_size)
    <2>1. PICK a \in 1 .. Len(list) : t[k] = list[a]
        OBVIOUS
    <2>2. PICK b \in 1 .. Len(list) : t[m] = list[b]
        OBVIOUS
    <2>3. list[a].page_size <= list[b].page_size
          => IS_ALIGNED(list[a].start_offset - list[b].start_offset, list[a].page_size)
        BY DEF Sound
    <2> QED BY <1>2, <2>1, <2>2, <2>3, Zenon
<1> QED BY <1>1, <1>2 DEF Sound

\* Sorting changes nothing about it.
LEMMA SoundSorted ==
    ASSUME NEW list \in Seq(Interval), NEW size
    PROVE  Sound(list, size) <=> Sound(Sort(list), size)
<1> DEFINE n == Len(list)
           s == Sort(list)
<1>1. s \in Seq(Interval) /\ Len(s) = n
    BY SortedElements
<1>2. PICK f : Permutation(n, f) /\ \A k \in 1 .. n : s[k] = list[f[k]]
    BY SortedElements
<1>3. \A k \in 1 .. n : \E a \in 1 .. n : list[k] = s[a]
    BY <1>2 DEF Permutation
<1>4. \A k \in 1 .. n : \E a \in 1 .. n : s[k] = list[a]
    BY <1>2 DEF Permutation
<1> HIDE DEF s, n
<1>5. \A k \in 1 .. Len(s) : \E a \in 1 .. Len(list) : s[k] = list[a]
    BY <1>1, <1>4 DEF n
<1>6. \A k \in 1 .. Len(list) : \E a \in 1 .. Len(s) : list[k] = s[a]
    BY <1>1, <1>3 DEF n
<1>7. Sound(list, size) => Sound(s, size)
    BY <1>5, SoundElements
<1>8. Sound(s, size) => Sound(list, size)
    BY <1>6, SoundElements
<1> QED BY <1>7, <1>8 DEF s

\* A list of intervals of one page size is valid if they are aligned to each other.
LEMMA ValidIfAligned ==
    ASSUME NEW list \in Seq(Interval), NEW p \in Nat \ {0},
           \A k \in 1 .. Len(list) :
              /\ IS_ALIGNED(list[k].start_offset, BASE_4KB)
              /\ list[k].start_offset < list[k].end_offset
              /\ IS_ALIGNED(list[k].end_offset - list[k].start_offset, p),
           \A k, m \in 1 .. Len(list) : IS_ALIGNED(list[k].start_offset - list[m].start_offset, p)
    PROVE  ValidIntervalsOf(list, p)
<1> DEFINE n == Len(list)
           s == Sort(list)
<1>1. s \in Seq(Interval) /\ Len(s) = n /\ n \in Nat
    BY SortedElements
<1>2. PICK f : Permutation(n, f) /\ \A k \in 1 .. n : s[k] = list[f[k]]
    BY SortedElements
<1>3. \A k \in 1 .. n : f[k] \in 1 .. n
    BY <1>2 DEF Permutation
<1>4. \A k \in 1 .. n :
         /\ IS_ALIGNED(s[k].start_offset, BASE_4KB)
         /\ s[k].start_offset < s[k].end_offset
         /\ IS_ALIGNED(s[k].end_offset - s[k].start_offset, p)
    BY <1>2, <1>3
<1>5. \A k, m \in 1 .. n : IS_ALIGNED(s[k].start_offset - s[m].start_offset, p)
    BY <1>2, <1>3
<1> HIDE DEF s, n
<1>6. DOMAIN s = 1 .. n /\ \A k \in 1 .. n : s[k] \in Interval
    BY <1>1
<1>7. \A k \in 1 .. n : s[k].start_offset \in Nat /\ s[k].end_offset \in Nat
    BY <1>6 DEF Interval
<1>8. ASSUME NEW k \in 1 .. n
      PROVE  s[k].end_offset - s[k].start_offset > 0
    <2> DEFINE a == s[k].start_offset
               b == s[k].end_offset
    <2>1. a \in Nat /\ b \in Nat /\ a < b
        BY <1>4, <1>7
    <2> HIDE DEF a, b
    <2>2. b - a > 0
        BY <2>1
    <2> QED BY <2>2 DEF a, b
<1>9. ASSUME NEW k \in 1 .. n, k > 1
      PROVE  IS_ALIGNED(s[k].start_offset - s[k - 1].end_offset, p)
    <2> DEFINE a == s[k].start_offset
               b == s[k - 1].start_offset
               c == s[k - 1].end_offset
    <2>1. k - 1 \in 1 .. n
        BY <1>1, <1>9
    <2>2. a \in Nat /\ b \in Nat /\ c \in Nat /\ IS_ALIGNED(a - b, p) /\ IS_ALIGNED(c - b, p)
        BY <1>4, <1>5, <1>7, <2>1
    <2> HIDE DEF a, b, c
    <2>3. IS_ALIGNED((a - b) - (c - b), p) /\ (a - b) - (c - b) = a - c
        BY <2>2, AlignedSum
    <2>4. IS_ALIGNED(a - c, p)
        BY <2>3
    <2> QED BY <2>4 DEF a, c
<1>10. \A k \in DOMAIN s :
          /\ IS_ALIGNED(s[k].start_offset, BASE_4KB)
          /\ s[k].end_offset - s[k].start_offset > 0
          /\ IS_ALIGNED(s[k].end_offset - s[k].start_offset, p)
          /\ k > 1 => IS_ALIGNED(s[k].start_offset - s[k - 1].end_offset, p)
    BY <1>4, <1>6, <1>8, <1>9
<1> QED BY <1>10 DEF ValidIntervalsOf, s

\* The intervals of the two page sizes are all that there are.
LEMMA AllOfTwoSizes ==
    ASSUME NEW S, NEW list \in Seq(S),
           \A k \in 1 .. Len(list) : list[k].page_size \in {HUGE_2MB, HUGE_1GB}
    PROVE  Len(OfPageSize(list, HUGE_1GB)) + Len(OfPageSize(list, HUGE_2MB)) = Len(list)
<1> DEFINE n == Len(list)
<1>1. n \in Nat /\ \A k \in 1 .. n : list[k] \in S
    OBVIOUS
<1>2. PICK x :
          /\ x[0] = <<>>
          /\ \A k \in 1 .. n : x[k] = IF list[k].page_size = HUGE_1GB THEN Append(x[k - 1], list[k])
                                      ELSE x[k - 1]
          /\ OfPageSize(list, HUGE_1GB) = x[n]
    BY OfPageSizeRun
<1>3. PICK y :
          /\ y[0] = <<>>
          /\ \A k \in 1 .. n : y[k] = IF list[k].page_size = HUGE_2MB THEN Append(y[k - 1], list[k])
                                      ELSE y[k - 1]
          /\ OfPageSize(list, HUGE_2MB) = y[n]
    BY OfPageSizeRun
<1>4. HUGE_1GB # HUGE_2MB
    BY PageFacts
<1>5. \A k \in 1 .. n : list[k].page_size \in {HUGE_2MB, HUGE_1GB}
    OBVIOUS
<1> HIDE DEF n
<1> DEFINE G == {k \in 0 .. n : x[k] \in Seq(S) /\ y[k] \in Seq(S) /\ Len(x[k]) + Len(y[k]) = k}
<1>6. 0 \in G
    <2>1. <<>> \in Seq(S) /\ Len(<<>>) = 0
        OBVIOUS
    <2>2. x[0] = <<>> /\ y[0] = <<>> /\ 0 \in 0 .. n
        BY <1>1, <1>2, <1>3
    <2>3. Len(<<>>) + Len(<<>>) = 0
        BY <2>1
    <2> QED BY ONLY <2>1, <2>2, <2>3, Zenon
<1>7. ASSUME NEW k \in 1 .. n, k - 1 \in G PROVE k \in G
    <2> DEFINE a == x[k - 1]
               b == y[k - 1]
               i == list[k]
               c == x[k]
               d == y[k]
    <2>1. a \in Seq(S) /\ b \in Seq(S) /\ Len(a) + Len(b) = k - 1 /\ i \in S
        BY <1>1, <1>7
    <2>2. \/ c = Append(a, i) /\ d = b
          \/ c = a /\ d = Append(b, i)
        BY <1>2, <1>3, <1>4, <1>5
    <2> HIDE DEF a, b, i, c, d
    <2>3. /\ Append(a, i) \in Seq(S) /\ Len(Append(a, i)) = Len(a) + 1
          /\ Append(b, i) \in Seq(S) /\ Len(Append(b, i)) = Len(b) + 1
        BY <2>1, AppendProperties
    <2>4. Len(a) \in Nat /\ Len(b) \in Nat
        BY <2>1
    <2>5. c \in Seq(S) /\ d \in Seq(S) /\ Len(c) + Len(d) = k
        <3>1. CASE c = Append(a, i) /\ d = b
            <4>1. c \in Seq(S) /\ d \in Seq(S) /\ Len(c) = Len(a) + 1 /\ Len(d) = Len(b)
                BY ONLY <2>1, <2>3, <3>1, Zenon
            <4>2. Len(c) + Len(d) = k
                BY <2>1, <2>4, <4>1
            <4> QED BY <4>1, <4>2
        <3>2. CASE c = a /\ d = Append(b, i)
            <4>1. c \in Seq(S) /\ d \in Seq(S) /\ Len(c) = Len(a) /\ Len(d) = Len(b) + 1
                BY ONLY <2>1, <2>3, <3>2, Zenon
            <4>2. Len(c) + Len(d) = k
                BY <2>1, <2>4, <4>1
            <4> QED BY <4>1, <4>2
        <3> QED BY <2>2, <3>1, <3>2
    <2>6. k \in 0 .. n
        BY <1>1
    <2> QED BY <2>5, <2>6 DEF c, d
<1> HIDE DEF G
<1>8. \A k \in 0 .. n : k \in G
    BY <1>1, <1>6, <1>7, UpTo
<1>9. n \in G
    BY <1>1, <1>8
<1> QED BY <1>2, <1>3, <1>9 DEF G, n

\* FindMaxEndOffset is below every bound of the ends.
LEMMA MaxEndBelow ==
    ASSUME NEW list \in Seq(Interval), NEW size \in Nat,
           \A k \in 1 .. Len(list) : list[k].end_offset <= size
    PROVE  FindMaxEndOffset(list) <= size
<1> DEFINE n == Len(list)
           T == {0} \cup {i.end_offset : i \in ToSet(list)}
<1>1. ToSet(list) = {list[j] : j \in 1 .. n} /\ \A j \in 1 .. n : list[j] \in Interval
    BY DEF ToSet
<1>2. \A x \in T : x \in Nat /\ x <= size
    <2>1. \A x \in T : x = 0 \/ \E j \in 1 .. n : x = list[j].end_offset
        BY <1>1
    <2>2. \A j \in 1 .. n : list[j].end_offset \in Nat
        BY <1>1 DEF Interval
    <2> HIDE DEF T
    <2> QED BY <2>1, <2>2
<1>3. T \in SUBSET Nat /\ T # {} /\ \A x \in T : x <= size
    BY <1>2
<1>4. FindMaxEndOffset(list) = Max(T)
    BY DEF FindMaxEndOffset
<1> HIDE DEF T
<1>5. \E m \in T : \A x \in T : x <= m
    BY <1>3, GreatestNatural
<1>6. \E m \in T : \A x \in T : m >= x
    BY <1>3, <1>5
<1>7. Max(T) \in T
    BY <1>6 DEF Max
<1> QED BY <1>2, <1>4, <1>7

\* The intervals that OfPageSize picks from a sound list are valid.
LEMMA PickedAreValid ==
    ASSUME NEW s \in Seq(Interval), NEW size, Sound(s, size), NEW p \in {HUGE_2MB, HUGE_1GB}
    PROVE  /\ OfPageSize(s, p) \in Seq(Interval) /\ ValidIntervalsOf(OfPageSize(s, p), p)
           /\ \A k \in 1 .. Len(OfPageSize(s, p)) : \E j \in 1 .. Len(s) :
                 OfPageSize(s, p)[k] = s[j] /\ s[j].page_size = p
<1> DEFINE l == OfPageSize(s, p)
           n == Len(s)
<1>1. l \in Seq(Interval) /\ \E f : Picks(s, p, n, l, f)
    BY OfPageSizePicks
<1>2. PICK f : Picks(s, p, n, l, f)
    BY <1>1
<1>3. p \in Nat \ {0}
    BY PageFacts
<1> HIDE DEF l
<1>4. \A a \in 1 .. Len(l) : f[a] \in 1 .. n /\ l[a] = s[f[a]] /\ l[a].page_size = p
    BY <1>2 DEF Picks
<1>5. ASSUME NEW k \in 1 .. Len(l)
      PROVE  /\ IS_ALIGNED(l[k].start_offset, BASE_4KB)
             /\ l[k].start_offset < l[k].end_offset
             /\ IS_ALIGNED(l[k].end_offset - l[k].start_offset, p)
    <2> DEFINE a == f[k]
    <2>1. a \in 1 .. Len(s) /\ l[k] = s[a] /\ s[a].page_size = p
        BY <1>4
    <2> HIDE DEF a
    <2>2. /\ IS_ALIGNED(s[a].start_offset, BASE_4KB)
          /\ s[a].start_offset < s[a].end_offset
          /\ IS_ALIGNED(s[a].end_offset - s[a].start_offset, s[a].page_size)
        BY <2>1 DEF Sound
    <2> QED BY ONLY <2>1, <2>2, Zenon
<1>6. ASSUME NEW k \in 1 .. Len(l), NEW m \in 1 .. Len(l)
      PROVE  IS_ALIGNED(l[k].start_offset - l[m].start_offset, p)
    <2> DEFINE a == f[k]
               b == f[m]
    <2>1. a \in 1 .. Len(s) /\ l[k] = s[a] /\ s[a].page_size = p
        BY <1>4
    <2>2. b \in 1 .. Len(s) /\ l[m] = s[b] /\ s[b].page_size = p
        BY <1>4
    <2> HIDE DEF a, b
    <2>3. p <= p
        BY <1>3
    <2>4. s[a].page_size <= s[b].page_size
          => IS_ALIGNED(s[a].start_offset - s[b].start_offset, s[a].page_size)
        BY <2>1, <2>2 DEF Sound
    <2> QED BY ONLY <2>1, <2>2, <2>3, <2>4, Zenon
<1>7. ValidIntervalsOf(l, p)
    BY <1>1, <1>3, <1>5, <1>6, ValidIfAligned
<1> QED BY <1>1, <1>4, <1>7 DEF l

\* What Validate checks of neighbours and first intervals only holds of every pair of
\* intervals, and the other way round.
LEMMA SoundIsAccepted ==
    ASSUME NEW list \in Seq(Interval), NEW size \in Nat, Sound(list, size)
    PROVE  Accepted(list, size)
<1> DEFINE s == Sort(list)
           l1 == OfPageSize(s, HUGE_1GB)
           l2 == OfPageSize(s, HUGE_2MB)
<1>1. s \in Seq(Interval) /\ Len(s) = Len(list)
    BY SortedElements
<1>2. Sound(s, size)
    BY SoundSorted
<1>3. \A k \in 1 .. Len(list) : list[k].end_offset <= size
    BY DEF Sound
<1>4. FindMaxEndOffset(list) <= size
    BY <1>3, MaxEndBelow
<1>5. Validate(list) <=> /\ Len(l1) + Len(l2) = Len(list)
                         /\ ValidIntervalsOf(l1, HUGE_1GB) /\ ValidIntervalsOf(l2, HUGE_2MB)
                         /\ (l1 # <<>> /\ l2 # <<>>) =>
                               IS_ALIGNED(Sort(l1)[1].start_offset - Sort(l2)[1].start_offset, HUGE_2MB)
    BY DEF Validate, IntervalsOf1GB, IntervalsOf2MB
<1> HIDE DEF s
<1>6. Len(l1) + Len(l2) = Len(list)
    <2>1. \A k \in 1 .. Len(s) : s[k].page_size \in {HUGE_2MB, HUGE_1GB}
        BY <1>2 DEF Sound
    <2> QED BY <1>1, <2>1, AllOfTwoSizes
<1>7. /\ l1 \in Seq(Interval) /\ ValidIntervalsOf(l1, HUGE_1GB)
      /\ \A k \in 1 .. Len(l1) : \E j \in 1 .. Len(s) : l1[k] = s[j] /\ s[j].page_size = HUGE_1GB
    BY <1>1, <1>2, PickedAreValid
<1>8. /\ l2 \in Seq(Interval) /\ ValidIntervalsOf(l2, HUGE_2MB)
      /\ \A k \in 1 .. Len(l2) : \E j \in 1 .. Len(s) : l2[k] = s[j] /\ s[j].page_size = HUGE_2MB
    BY <1>1, <1>2, PickedAreValid
<1> HIDE DEF l1, l2
<1>9. ASSUME l1 # <<>>, l2 # <<>>
      PROVE  IS_ALIGNED(Sort(l1)[1].start_offset - Sort(l2)[1].start_offset, HUGE_2MB)
    <2>1. \E c \in 1 .. Len(l1) : Sort(l1)[1] = l1[c]
        <3>1. PICK f : Permutation(Len(l1), f) /\ \A k \in 1 .. Len(l1) : Sort(l1)[k] = l1[f[k]]
            BY <1>7, SortedElements
        <3>2. 1 \in 1 .. Len(l1)
            BY <1>7, <1>9
        <3>3. f[1] \in 1 .. Len(l1)
            BY <3>1, <3>2 DEF Permutation
        <3> QED BY <3>1, <3>2, <3>3
    <2>2. \E c \in 1 .. Len(l2) : Sort(l2)[1] = l2[c]
        <3>1. PICK f : Permutation(Len(l2), f) /\ \A k \in 1 .. Len(l2) : Sort(l2)[k] = l2[f[k]]
            BY <1>8, SortedElements
        <3>2. 1 \in 1 .. Len(l2)
            BY <1>8, <1>9
        <3>3. f[1] \in 1 .. Len(l2)
            BY <3>1, <3>2 DEF Permutation
        <3> QED BY <3>1, <3>2, <3>3
    <2>3. PICK a \in 1 .. Len(s) : Sort(l1)[1] = s[a] /\ s[a].page_size = HUGE_1GB
        BY <1>7, <2>1
    <2>4. PICK b \in 1 .. Len(s) : Sort(l2)[1] = s[b] /\ s[b].page_size = HUGE_2MB
        BY <1>8, <2>2
    <2>5. HUGE_2MB <= HUGE_1GB /\ HUGE_2MB \in Nat \ {0}
        BY PageFacts
    <2>6. IS_ALIGNED(s[b].start_offset - s[a].start_offset, HUGE_2MB)
        <3>1. s[b].page_size <= s[a].page_size
              => IS_ALIGNED(s[b].start_offset - s[a].start_offset, s[b].page_size)
            BY <1>2 DEF Sound
        <3> QED BY ONLY <2>3, <2>4, <2>5, <3>1, Zenon
    <2> DEFINE x == s[a].start_offset
               y == s[b].start_offset
    <2>7. x \in Nat /\ y \in Nat
        <3>1. s[a] \in Interval /\ s[b] \in Interval
            BY <1>1
        <3> QED BY <3>1 DEF Interval
    <2>8. IS_ALIGNED(y - x, HUGE_2MB) /\ Sort(l1)[1].start_offset = x /\ Sort(l2)[1].start_offset = y
        BY <2>3, <2>4, <2>6
    <2> HIDE DEF x, y
    <2>9. IS_ALIGNED(x - x, HUGE_2MB)
        BY <2>5, <2>7, ZeroAligned
    <2>10. x - x \in Int /\ y - x \in Int
        BY <2>7
    <2>11. IS_ALIGNED((x - x) - (y - x), HUGE_2MB)
        BY <2>5, <2>8, <2>9, <2>10, AlignedSum
    <2>12. (x - x) - (y - x) = x - y
        BY <2>7
    <2>13. IS_ALIGNED(x - y, HUGE_2MB)
        BY <2>11, <2>12
    <2> QED BY <2>8, <2>13
<1> QED BY <1>4, <1>5, <1>6, <1>7, <1>8, <1>9 DEF Accepted

\* No list, not even the empty one, is accepted for a size below zero.
LEMMA NothingBelowZero ==
    ASSUME NEW list \in Seq(Interval), NEW size \in Int, size \notin Nat
    PROVE  ~Accepted(list, size)
<1>1. FindMaxEndOffset(list) \in Nat
    BY MaxEnd
<1>2. ~(FindMaxEndOffset(list) <= size)
    BY <1>1
<1> QED BY <1>2 DEF Accepted

\* That a list is accepted does not depend on its order.
LEMMA AcceptedSorted ==
    ASSUME NEW list \in Seq(Interval), NEW size \in Int
    PROVE  Accepted(Sort(list), size) <=> Accepted(list, size)
<1>1. Sort(list) \in Seq(Interval)
    BY SortedElements
<1>2. CASE size \in Nat
    <2>1. Accepted(list, size) <=> Sound(list, size)
        BY <1>2, AcceptedIsSound, SoundIsAccepted
    <2>2. Accepted(Sort(list), size) <=> Sound(Sort(list), size)
        BY <1>1, <1>2, AcceptedIsSound, SoundIsAccepted
    <2> QED BY <2>1, <2>2, SoundSorted
<1>3. CASE size \notin Nat
    BY <1>1, <1>3, NothingBelowZero
<1> QED BY <1>2, <1>3

-------------------------------------------------------------------------------
(* What the first n lines of a file say.                                   *)

\* Line n has its line end.
HasEnd(w, n) == n # Len(w.lines) \/ w.ended
\* The rows with a size among the first n lines, and the size that a row says.
SizeRows(w, n) == {k \in 1 .. n : IsRow(w.lines[k]) /\ Field(w.lines[k], 2) = -1}
SizeOf(l) == (Field(l, 4) - Field(l, 3)) % SIZE_T

RowsGood(w, n) ==
    \A k \in 1 .. n : IsRow(w.lines[k]) => GoodRow(w.lines[k]) /\ HasEnd(w, k)
OneSize(w, n) == \A j, k \in SizeRows(w, n) : j = k
SizeIs(w, n, size) ==
    /\ SizeRows(w, n) = {} => size = 0
    /\ \A k \in SizeRows(w, n) : size = SizeOf(w.lines[k])
\* run[k] is the intervals that the first k lines say.
Runs(w, run) ==
    /\ run[0] = <<>>
    /\ \A k \in 1 .. Len(w.lines) :
          run[k] = IF IsInterval(w.lines[k]) THEN Append(run[k - 1], IntervalOf(w.lines[k]))
                   ELSE run[k - 1]

\* The first n lines are good and say this list and this size.
SoFar(w, n, list, size) ==
    /\ RowsGood(w, n) /\ OneSize(w, n) /\ SizeIs(w, n, size)
    /\ list \in Seq(Interval) /\ Len(list) <= n /\ size \in Nat
    /\ \E run : Runs(w, run) /\ list = run[n]

\* A number of bytes is a size_t.
LEMMA SizeOfIsNat ==
    ASSUME NEW l
    PROVE  SizeOf(l) \in Nat /\ SizeOf(l) < SIZE_T
<1> DEFINE a == Field(l, 4)
           b == Field(l, 3)
           d == a - b
<1>1. a \in Int /\ b \in Int
    BY FieldIsInt
<1> HIDE DEF a, b
<1>2. d \in Int
    BY <1>1
<1> HIDE DEF d
<1>3. SIZE_T \in Nat \ {0}
    BY FilesAssumption
<1>4. d % SIZE_T \in Nat /\ d % SIZE_T < SIZE_T
    BY <1>2, <1>3
<1> QED BY <1>4 DEF SizeOf, a, b, d

\* The size read so far is a size_t.
LEMMA SoFarFits ==
    ASSUME NEW w, NEW n, NEW list, NEW size, SoFar(w, n, list, size)
    PROVE  size < SIZE_T
<1>1. CASE SizeRows(w, n) = {}
    <2>1. size = 0
        BY <1>1 DEF SoFar, SizeIs
    <2> QED BY <2>1, FilesAssumption
<1>2. CASE SizeRows(w, n) # {}
    <2>1. PICK k : k \in SizeRows(w, n)
        BY <1>2
    <2>2. size = SizeOf(w.lines[k])
        BY <2>1 DEF SoFar, SizeIs
    <2> QED BY <2>2, SizeOfIsNat
<1> QED BY <1>1, <1>2

\* The empty beginning.
LEMMA SoFarNothing ==
    ASSUME written \in Files
    PROVE  SoFar(written, 0, <<>>, 0) /\ SizeRows(written, 0) = {}
<1> DEFINE lines == written.lines
<1>1. lines \in Seq(Seq(Fields))
    BY FilesAssumption
<1>2. SizeRows(written, 0) = {}
    BY DEF SizeRows
<1>3. RowsGood(written, 0) /\ OneSize(written, 0) /\ SizeIs(written, 0, 0)
    BY <1>2 DEF RowsGood, OneSize, SizeIs
<1>4. \E run : Runs(written, run) /\ <<>> = run[0]
    <2>1. PICK run \in [0 .. Len(lines) -> Seq(AnyInterval)] :
              /\ run[0] = <<>>
              /\ \A k \in 1 .. Len(lines) :
                    run[k] = IF IsInterval(lines[k]) THEN Append(run[k - 1], IntervalOf(lines[k]))
                             ELSE run[k - 1]
        BY <1>1, IntervalsRun
    <2> QED BY <2>1 DEF Runs
<1>5. <<>> \in Seq(Interval) /\ Len(<<>>) <= 0
    OBVIOUS
<1> QED BY <1>2, <1>3, <1>4, <1>5 DEF SoFar

\* A line that is not of the pool says nothing.
LEMMA SoFarOther ==
    ASSUME NEW w \in Files, NEW n \in 0 .. Len(w.lines) - 1, NEW list, NEW size,
           SoFar(w, n, list, size), ~IsRow(w.lines[n + 1])
    PROVE  SoFar(w, n + 1, list, size) /\ SizeRows(w, n + 1) = SizeRows(w, n)
<1>1. Len(w.lines) \in Nat /\ n \in Nat /\ n + 1 \in 1 .. Len(w.lines) /\ (n + 1) - 1 = n
    BY FilesAssumption
<1>2. \A k \in 1 .. n + 1 : k \in 1 .. n \/ k = n + 1
    BY <1>1
<1>3. \A k \in 1 .. n : k \in 1 .. n + 1
    BY <1>1
<1>4. SizeRows(w, n + 1) = SizeRows(w, n)
    BY <1>2, <1>3 DEF SizeRows
<1>5. RowsGood(w, n + 1) /\ OneSize(w, n + 1) /\ SizeIs(w, n + 1, size)
    <2>1. RowsGood(w, n) /\ OneSize(w, n) /\ SizeIs(w, n, size)
        BY DEF SoFar
    <2> QED BY <1>2, <1>4, <2>1 DEF RowsGood, OneSize, SizeIs
<1>6. \E run : Runs(w, run) /\ list = run[n + 1]
    <2>1. PICK run : Runs(w, run) /\ list = run[n]
        BY DEF SoFar
    <2>2. run[n + 1] = IF IsInterval(w.lines[n + 1])
                       THEN Append(run[(n + 1) - 1], IntervalOf(w.lines[n + 1]))
                       ELSE run[(n + 1) - 1]
        BY <1>1, <2>1 DEF Runs
    <2>3. run[n + 1] = run[n]
        BY <1>1, <2>2 DEF IsInterval
    <2> QED BY <2>1, <2>3
<1>7. list \in Seq(Interval) /\ Len(list) <= n + 1 /\ size \in Nat
    <2>1. list \in Seq(Interval) /\ Len(list) <= n /\ size \in Nat
        BY DEF SoFar
    <2>2. Len(list) \in Nat
        BY <2>1
    <2> QED BY <1>1, <2>1, <2>2
<1> QED BY <1>4, <1>5, <1>6, <1>7 DEF SoFar

\* A good row with an interval adds it.
LEMMA SoFarInterval ==
    ASSUME NEW w \in Files, NEW n \in 0 .. Len(w.lines) - 1, NEW list, NEW size,
           SoFar(w, n, list, size), IsInterval(w.lines[n + 1]),
           GoodRow(w.lines[n + 1]), HasEnd(w, n + 1)
    PROVE  /\ SoFar(w, n + 1, Append(list, IntervalOf(w.lines[n + 1])), size)
           /\ SizeRows(w, n + 1) = SizeRows(w, n)
<1> DEFINE l == w.lines[n + 1]
           next == Append(list, IntervalOf(l))
<1>1. Len(w.lines) \in Nat /\ n \in Nat /\ n + 1 \in 1 .. Len(w.lines) /\ (n + 1) - 1 = n
    BY FilesAssumption
<1>2. \A k \in 1 .. n + 1 : k \in 1 .. n \/ k = n + 1
    BY <1>1
<1>3. \A k \in 1 .. n : k \in 1 .. n + 1
    BY <1>1
<1>4. SizeRows(w, n + 1) = SizeRows(w, n)
    BY <1>2, <1>3 DEF SizeRows, IsInterval
<1>5. RowsGood(w, n + 1) /\ OneSize(w, n + 1) /\ SizeIs(w, n + 1, size)
    <2>1. RowsGood(w, n) /\ OneSize(w, n) /\ SizeIs(w, n, size)
        BY DEF SoFar
    <2> QED BY <1>2, <1>4, <2>1 DEF RowsGood, OneSize, SizeIs
<1>6. \E run : Runs(w, run) /\ next = run[n + 1]
    <2>1. PICK run : Runs(w, run) /\ list = run[n]
        BY DEF SoFar
    <2>2. run[n + 1] = IF IsInterval(w.lines[n + 1])
                       THEN Append(run[(n + 1) - 1], IntervalOf(w.lines[n + 1]))
                       ELSE run[(n + 1) - 1]
        BY <1>1, <2>1 DEF Runs
    <2>3. run[n + 1] = next
        BY <1>1, <2>1, <2>2
    <2> QED BY <2>1, <2>3
<1>7. IntervalOf(l) \in Interval
    <2>1. /\ Field(l, 2) \in {-1, HUGE_2MB, HUGE_1GB} /\ Field(l, 2) # -1
          /\ Field(l, 3) >= 0 /\ Field(l, 4) >= 0
        BY DEF GoodRow, IsInterval
    <2>2. Field(l, 3) \in Int /\ Field(l, 4) \in Int
        BY FieldIsInt
    <2>3. Field(l, 2) \in Nat /\ Field(l, 3) \in Nat /\ Field(l, 4) \in Nat
        BY <2>1, <2>2, PageFacts
    <2> QED BY <2>3 DEF IntervalOf, MemoryInterval, Interval
<1>8. list \in Seq(Interval) /\ Len(list) <= n /\ size \in Nat
    BY DEF SoFar
<1>9. next \in Seq(Interval) /\ Len(next) <= n + 1 /\ size \in Nat
    <2> DEFINE i == IntervalOf(l)
    <2> HIDE DEF i
    <2>1. next \in Seq(Interval) /\ Len(next) = Len(list) + 1
        BY <1>7, <1>8, AppendProperties DEF i
    <2>2. Len(list) \in Nat
        BY <1>8
    <2> HIDE DEF next
    <2> QED BY <1>1, <1>8, <2>1, <2>2
<1> HIDE DEF next
<1>10. SoFar(w, n + 1, next, size)
    BY <1>5, <1>6, <1>9 DEF SoFar
<1> QED BY <1>4, <1>10 DEF next

\* The first good row with a size sets it.
LEMMA SoFarSize ==
    ASSUME NEW w \in Files, NEW n \in 0 .. Len(w.lines) - 1, NEW list, NEW size,
           SoFar(w, n, list, size), IsRow(w.lines[n + 1]), Field(w.lines[n + 1], 2) = -1,
           GoodRow(w.lines[n + 1]), HasEnd(w, n + 1), SizeRows(w, n) = {}
    PROVE  SoFar(w, n + 1, list, SizeOf(w.lines[n + 1])) /\ SizeRows(w, n + 1) # {}
<1> DEFINE l == w.lines[n + 1]
           next == SizeOf(l)
<1>1. Len(w.lines) \in Nat /\ n \in Nat /\ n + 1 \in 1 .. Len(w.lines) /\ (n + 1) - 1 = n
    BY FilesAssumption
<1>2. \A k \in 1 .. n + 1 : k \in 1 .. n \/ k = n + 1
    BY <1>1
<1>3. n + 1 \in 1 .. n + 1
    BY <1>1
<1>4. SizeRows(w, n + 1) = {n + 1}
    <2>1. n + 1 \in SizeRows(w, n + 1)
        BY <1>3 DEF SizeRows
    <2>2. ASSUME NEW k \in SizeRows(w, n + 1) PROVE k = n + 1
        <3>1. k \in 1 .. n + 1 /\ IsRow(w.lines[k]) /\ Field(w.lines[k], 2) = -1
            BY DEF SizeRows
        <3>2. k \notin 1 .. n
            BY <3>1 DEF SizeRows
        <3> QED BY <1>2, <3>1, <3>2
    <2> QED BY <2>1, <2>2
<1>5. RowsGood(w, n + 1) /\ OneSize(w, n + 1) /\ SizeIs(w, n + 1, next)
    <2>1. RowsGood(w, n)
        BY DEF SoFar
    <2>2. RowsGood(w, n + 1)
        BY <1>2, <2>1 DEF RowsGood
    <2> QED BY <1>4, <2>2 DEF OneSize, SizeIs
<1>6. \E run : Runs(w, run) /\ list = run[n + 1]
    <2>1. PICK run : Runs(w, run) /\ list = run[n]
        BY DEF SoFar
    <2>2. run[n + 1] = IF IsInterval(w.lines[n + 1])
                       THEN Append(run[(n + 1) - 1], IntervalOf(w.lines[n + 1]))
                       ELSE run[(n + 1) - 1]
        BY <1>1, <2>1 DEF Runs
    <2>3. run[n + 1] = run[n]
        BY <1>1, <2>2 DEF IsInterval
    <2> QED BY <2>1, <2>3
<1>7. list \in Seq(Interval) /\ Len(list) <= n + 1 /\ next \in Nat
    <2>1. list \in Seq(Interval) /\ Len(list) <= n
        BY DEF SoFar
    <2>2. Len(list) \in Nat /\ next \in Nat
        BY <2>1, SizeOfIsNat
    <2> QED BY <1>1, <2>1, <2>2
<1> HIDE DEF next
<1>8. SoFar(w, n + 1, list, next)
    BY <1>5, <1>6, <1>7 DEF SoFar
<1> QED BY <1>4, <1>8 DEF next

\* A bad row, or a second size, is one for good.
LEMMA BadForGood ==
    ASSUME NEW w \in Files, NEW n \in 0 .. Len(w.lines) - 1, IsRow(w.lines[n + 1]),
           \/ ~GoodRow(w.lines[n + 1]) \/ ~HasEnd(w, n + 1)
           \/ Field(w.lines[n + 1], 2) = -1 /\ SizeRows(w, n) # {}
    PROVE  ~(RowsGood(w, Len(w.lines)) /\ OneSize(w, Len(w.lines)))
<1> DEFINE N == Len(w.lines)
<1>1. N \in Nat /\ n \in Nat /\ n + 1 \in 1 .. N
    BY FilesAssumption
<1>2. \A k \in 1 .. n : k \in 1 .. N /\ k # n + 1
    BY <1>1
<1> HIDE DEF N
<1>3. CASE ~GoodRow(w.lines[n + 1]) \/ ~HasEnd(w, n + 1)
    <2>1. ~RowsGood(w, N)
        BY <1>1, <1>3 DEF RowsGood
    <2> QED BY <2>1 DEF N
<1>4. CASE Field(w.lines[n + 1], 2) = -1 /\ SizeRows(w, n) # {}
    <2>1. PICK k \in 1 .. n : IsRow(w.lines[k]) /\ Field(w.lines[k], 2) = -1
        BY <1>4 DEF SizeRows
    <2>2. k \in SizeRows(w, N) /\ n + 1 \in SizeRows(w, N) /\ k # n + 1
        BY <1>1, <1>2, <1>4, <2>1 DEF SizeRows
    <2>3. ~OneSize(w, N)
        BY <2>2 DEF OneSize
    <2> QED BY <2>3 DEF N
<1> QED BY <1>3, <1>4

\* What all lines say is what the pool's rows say.
LEMMA SoFarAll ==
    ASSUME written \in Files, NEW list, NEW size, SoFar(written, Len(written.lines), list, size)
    PROVE  list = IntervalsOfPool /\ off_t(size) = SizeOfPool /\ SizeOfPool \in Int
<1> DEFINE lines == written.lines
           N == Len(lines)
<1>1. lines \in Seq(Seq(Fields)) /\ N \in Nat /\ DOMAIN lines = 1 .. N
    BY FilesAssumption
<1>2. list = IntervalsOfPool
    <2>1. PICK run : Runs(written, run) /\ list = run[N]
        BY DEF SoFar
    <2>2. PICK other \in [0 .. Len(lines) -> Seq(AnyInterval)] :
              /\ other[0] = <<>>
              /\ \A k \in 1 .. Len(lines) :
                    other[k] = IF IsInterval(lines[k]) THEN Append(other[k - 1], IntervalOf(lines[k]))
                               ELSE other[k - 1]
              /\ IntervalsOfPool = other[Len(lines)]
        BY <1>1, IntervalsRun
    <2>3. /\ run[0] = <<>>
          /\ \A k \in 1 .. N :
                run[k] = IF IsInterval(lines[k]) THEN Append(run[k - 1], IntervalOf(lines[k]))
                         ELSE run[k - 1]
        BY <2>1 DEF Runs
    <2> HIDE DEF N
    <2> DEFINE G == {k \in 0 .. N : run[k] = other[k]}
    <2>4. 0 \in G
        BY <1>1, <2>2, <2>3
    <2>5. ASSUME NEW k \in 1 .. N, k - 1 \in G PROVE k \in G
        <3>1. k \in 0 .. N /\ run[k - 1] = other[k - 1]
            BY <1>1, <2>5
        <3>2. run[k] = IF IsInterval(lines[k]) THEN Append(run[k - 1], IntervalOf(lines[k])) ELSE run[k - 1]
            BY <2>3
        <3>3. other[k] = IF IsInterval(lines[k]) THEN Append(other[k - 1], IntervalOf(lines[k])) ELSE other[k - 1]
            BY <2>2 DEF N
        <3>4. run[k] = other[k]
            BY ONLY <3>1, <3>2, <3>3
        <3> QED BY <3>1, <3>4
    <2> HIDE DEF G
    <2>6. \A k \in 0 .. N : k \in G
        BY <1>1, <2>4, <2>5, UpTo
    <2>7. run[N] = other[N]
        BY <1>1, <2>6 DEF G
    <2> QED BY <2>1, <2>2, <2>7 DEF N
<1>3. SizesOfPool = SizeRows(written, N)
    BY <1>1 DEF SizesOfPool, OfPool, SizeRows
<1>4. OneSize(written, N) /\ SizeIs(written, N, size)
    BY DEF SoFar
<1> HIDE DEF N
<1>5. CASE SizesOfPool = {}
    <2>1. SizeOfPool = 0 /\ size = 0
        BY <1>3, <1>4, <1>5 DEF SizeOfPool, SizeIs
    <2>2. off_t(0) = 0
        BY FilesAssumption DEF off_t
    <2> QED BY <1>2, <2>1, <2>2
<1>6. CASE SizesOfPool # {}
    <2>1. PICK k : k \in SizesOfPool
        BY <1>6
    <2>2. \A j \in SizesOfPool : j = k
        BY <1>3, <1>4, <2>1 DEF OneSize
    <2>3. k \in Nat
        BY <1>1, <1>3, <2>1 DEF SizeRows
    <2>4. \E m \in SizesOfPool : \A j \in SizesOfPool : m >= j
        <3>1. k >= k
            BY <2>3
        <3> QED BY <2>1, <2>2, <3>1
    <2>5. Max(SizesOfPool) \in SizesOfPool
        BY <2>4 DEF Max
    <2>6. Max(SizesOfPool) = k
        BY <2>2, <2>5
    <2>7. size = SizeOf(written.lines[k])
        BY <1>3, <1>4, <2>1 DEF SizeIs
    <2> DEFINE a == Field(written.lines[k], 3)
               b == Field(written.lines[k], 4)
    <2>8. a \in Nat /\ b \in Nat /\ 2 * a < SIZE_T /\ 2 * b < SIZE_T
        <3>1. a >= 0 /\ b >= 0
            BY <1>3, <2>1 DEF SoFar, RowsGood, SizeRows, GoodRow, N
        <3> QED BY <3>1, FieldIsInt, FieldFits
    <2>9. SizeOfPool = b - a /\ SizeOf(written.lines[k]) = (b - a) % SIZE_T
        BY <1>6, <2>6 DEF SizeOfPool, SizeOf
    <2> HIDE DEF a, b
    <2>10. b - a \in Int /\ -SIZE_T <= 2 * (b - a) /\ 2 * (b - a) < SIZE_T
        BY <2>8, FilesAssumption
    <2>11. off_t((b - a) % SIZE_T) = b - a
        BY <2>10, CastBack
    <2> QED BY <1>2, <2>7, <2>9, <2>10, <2>11
<1> QED BY <1>5, <1>6

\* And what is required of all lines is what Good says of them.
LEMMA GoodLines ==
    ASSUME written \in Files
    PROVE  RowsGood(written, Len(written.lines)) /\ OneSize(written, Len(written.lines))
           <=> /\ \A n \in OfPool : GoodRow(written.lines[n])
               /\ Cardinality(SizesOfPool) <= 1
               /\ GoodEnd
<1> DEFINE lines == written.lines
           N == Len(lines)
           S == SizeRows(written, N)
<1>1. N \in Nat /\ DOMAIN lines = 1 .. N
    BY FilesAssumption
<1>2. SizesOfPool = S /\ OfPool = {n \in 1 .. N : IsRow(lines[n])}
    BY <1>1 DEF SizesOfPool, OfPool, SizeRows
<1>3. RowsGood(written, N) <=> (\A n \in OfPool : GoodRow(lines[n])) /\ GoodEnd
    <2>1. (\A k \in 1 .. N : IsRow(lines[k]) => HasEnd(written, k)) <=> GoodEnd
        <3>1. ASSUME GoodEnd, NEW k \in 1 .. N, IsRow(lines[k]) PROVE HasEnd(written, k)
            BY <1>2, <3>1 DEF GoodEnd, HasEnd
        <3>2. ASSUME \A k \in 1 .. N : IsRow(lines[k]) => HasEnd(written, k) PROVE GoodEnd
            BY <1>2, <3>2 DEF GoodEnd, HasEnd
        <3> QED BY <3>1, <3>2
    <2> QED BY <1>2, <2>1 DEF RowsGood
<1>4. IsFiniteSet(S)
    <2>1. IsFiniteSet(1 .. N)
        <3>1. 1 \in Int /\ N \in Int
            BY <1>1
        <3> QED BY <3>1, FS_Interval
    <2>2. S \subseteq 1 .. N
        BY DEF SizeRows
    <2> QED BY <2>1, <2>2, FS_Subset
<1> HIDE DEF S
<1>5. OneSize(written, N) <=> \A j, k \in S : j = k
    BY DEF OneSize, S
<1>6. ASSUME Cardinality(S) <= 1, NEW j \in S, NEW k \in S PROVE j = k
    <2> SUFFICES ASSUME j # k PROVE FALSE
        OBVIOUS
    <2>1. IsFiniteSet(S \ {j}) /\ Cardinality(S \ {j}) = Cardinality(S) - 1
        BY <1>4, FS_RemoveElement
    <2>2. Cardinality(S) \in Nat /\ Cardinality(S \ {j}) \in Nat
        BY <1>4, <2>1, FS_CardinalityType
    <2>3. Cardinality(S \ {j}) = 0
        BY <1>6, <2>1, <2>2
    <2>4. S \ {j} = {}
        BY <2>1, <2>3, FS_EmptySet
    <2> QED BY <2>4
<1>7. ASSUME \A j, k \in S : j = k PROVE Cardinality(S) <= 1
    <2>1. CASE S = {}
        <3>1. Cardinality({}) = 0
            BY FS_EmptySet
        <3> QED BY <2>1, <3>1
    <2>2. CASE S # {}
        <3>1. PICK k : k \in S
            BY <2>2
        <3>2. S = {k}
            BY <1>7, <3>1
        <3>3. Cardinality({k}) = 1
            BY FS_Singleton
        <3> QED BY <3>2, <3>3
    <2> QED BY <2>1, <2>2
<1>8. OneSize(written, N) <=> Cardinality(SizesOfPool) <= 1
    BY <1>2, <1>5, <1>6, <1>7
<1> QED BY <1>3, <1>8

\* Later lines end later.
LEMMA LaterEnds ==
    ASSUME written \in Files, NEW E, Anatomy(E),
           NEW i \in 0 .. Len(written.lines), NEW j \in 0 .. Len(written.lines), i < j
    PROVE  E[i] < E[j]
<1> DEFINE N == Len(written.lines)
           G == {k \in 0 .. N : i < k => E[i] < E[k]}
<1>1. N \in Nat
    BY FilesAssumption
<1>2. \A n \in 0 .. N : /\ E[n] \in Nat
                        /\ n # 0 => E[n - 1] \in Nat /\ E[n - 1] < E[n]
    BY LineEnds
<1>3. i \in 0 .. N /\ j \in 0 .. N
    OBVIOUS
<1> HIDE DEF N
<1>4. 0 \in G
    BY <1>1, <1>3
<1>5. ASSUME NEW k \in 1 .. N, k - 1 \in G PROVE k \in G
    <2>1. k \in 0 .. N /\ k # 0
        BY <1>1
    <2> DEFINE a == E[i]
               b == E[k - 1]
               c == E[k]
    <2>2. a \in Nat /\ b \in Nat /\ c \in Nat /\ b < c /\ (i < k - 1 => a < b)
        BY <1>2, <1>3, <1>5, <2>1
    <2>3. i = k - 1 => a = b
        OBVIOUS
    <2> HIDE DEF a, b, c
    <2>4. i < k => i < k - 1 \/ i = k - 1
        BY <1>1, <1>3
    <2>5. i < k => a < c
        BY <2>2, <2>3, <2>4
    <2> QED BY <2>1, <2>5 DEF a, c
<1> HIDE DEF G
<1>6. \A k \in 0 .. N : k \in G
    BY <1>1, <1>4, <1>5, UpTo
<1> QED BY <1>3, <1>6 DEF G

\* The list has room for an interval of each line.
LEMMA RoomForAll ==
    ASSUME written \in Files, NEW E, Anatomy(E), NEW n \in 0 .. Len(written.lines) - 1,
           NEW len \in Nat, len <= n
    PROVE  len < Capacity
<1> DEFINE N == Len(written.lines)
           T == {k \in DOMAIN file : file[k] = LineEnd}
           f == [i \in 0 .. n |-> E[i]]
<1>1. N \in Nat /\ n \in Nat /\ \A i \in 0 .. n : i \in 0 .. N /\ i # N
    BY FilesAssumption
<1>2. file \in Seq(Symbols) /\ DOMAIN file = 1 .. Len(file) /\ Len(file) \in Nat
    BY DEF Anatomy
<1>3. \A i \in 0 .. n : E[i] \in T
    <2>1. ASSUME NEW i \in 0 .. n PROVE E[i] \in T
        <3>1. i \in 0 .. N /\ i # N
            BY <1>1
        <3>2. E[i] \in Nat \ {0} /\ E[i] <= Len(file) /\ file[E[i]] = LineEnd
            BY <3>1, LineEnds
        <3> QED BY <1>2, <3>2
    <2> QED BY <2>1
<1>4. IsFiniteSet(T)
    <2>1. IsFiniteSet(1 .. Len(file))
        <3>1. 1 \in Int /\ Len(file) \in Int
            BY <1>2
        <3> QED BY <3>1, FS_Interval
    <2>2. T \subseteq 1 .. Len(file)
        BY <1>2
    <2> HIDE DEF T
    <2> QED BY <2>1, <2>2, FS_Subset
<1>5. IsFiniteSet(0 .. n) /\ Cardinality(0 .. n) = n + 1
    <2>1. 0 \in Int /\ n \in Int /\ ~(0 > n) /\ n - 0 + 1 = n + 1
        BY <1>1
    <2> QED BY <2>1, FS_Interval
<1>6. Capacity = 2 * Cardinality(T) + 1
    BY DEF Capacity, GetConfigFileMaxWindows
<1> HIDE DEF T, N
<1>7. Cardinality(T) \in Nat
    BY <1>4, FS_CardinalityType
<1>8. ~(Cardinality(T) < n + 1)
    <2> SUFFICES ASSUME Cardinality(T) < n + 1 PROVE FALSE
        OBVIOUS
    <2>1. f \in [0 .. n -> T]
        BY <1>3
    <2>2. \A i \in 0 .. n : f[i] = E[i]
        OBVIOUS
    <2> HIDE DEF f
    <2>3. Cardinality(T) < Cardinality(0 .. n)
        BY <1>5
    <2>4. PICK x \in 0 .. n, y \in 0 .. n : x # y /\ f[x] = f[y]
        <3>1. \E x, y \in 0 .. n : x # y /\ f[x] = f[y]
            BY ONLY <1>4, <1>5, <2>1, <2>3, FS_PigeonHole
        <3> QED BY <3>1
    <2>5. x < y \/ y < x
        BY <1>1, <2>4
    <2>6. E[x] \in Nat /\ E[y] \in Nat
        BY <1>1, LineEnds DEF N
    <2>7. E[x] < E[y] \/ E[y] < E[x]
        BY <1>1, <2>5, LaterEnds DEF N
    <2> QED BY <2>2, <2>4, <2>6, <2>7
<1> QED BY <1>1, <1>6, <1>7, <1>8

-------------------------------------------------------------------------------
(* The invariant of the parser.                                            *)

\* n lines are done: the parser is at the start of the next line, or somewhere in it if it is
\* not of the pool, or behind the file.
Place(E, n, p) ==
    \/ n = Len(written.lines) /\ p > Len(file)
    \/ /\ n # Len(written.lines) /\ p \in E[n] + 1 .. E[n + 1]
       /\ p = E[n] + 1 \/ ~IsRow(written.lines[n + 1])

Reading ==
    \E E, n :
       /\ Anatomy(E) /\ n \in 0 .. Len(written.lines) /\ Place(E, n, pos)
       /\ SoFar(written, n, data.intervalList, data.size)
       /\ one_time_size <=> SizeRows(written, n) # {}

ReadInFull ==
    \E list : /\ SoFar(written, Len(written.lines), list, data.size)
              /\ data.intervalList = Sort(list) /\ Accepted(list, off_t(data.size))

Refused ==
    \/ ~(RowsGood(written, Len(written.lines)) /\ OneSize(written, Len(written.lines)))
    \/ \E list, size : /\ SoFar(written, Len(written.lines), list, size)
                       /\ ~Accepted(list, off_t(size))

ParseIInv ==
    /\ written \in Files /\ file = Text(written)
    /\ pos \in Nat
    /\ token \in Buffers /\ String(token) # Type
    /\ data = [intervalList |-> data.intervalList, size |-> data.size]
    /\ one_time_size \in BOOLEAN
    /\ outcome \in {"reading", "configured", "refused"}
    /\ outcome = "reading" => Reading
    /\ outcome = "configured" => ReadInFull
    /\ outcome = "refused" => Refused

\* The start of the next line, or the end of the file, comes behind a line.
LEMMA PlaceBehind ==
    ASSUME written \in Files, NEW E, Anatomy(E), NEW n \in 0 .. Len(written.lines)
    PROVE  E[n] <= Len(file) \/ n # 0 => Place(E, n, E[n] + 1)
<1> DEFINE N == Len(written.lines)
           e == E[n]
<1>1. N \in Nat /\ Len(file) \in Nat
    <2>1. file \in Seq(Symbols)
        BY DEF Anatomy
    <2> QED BY <2>1, FilesAssumption
<1>2. /\ e \in Nat \ {0} /\ e <= Len(file) + 1
      /\ n = N /\ ~written.ended => e = Len(file) + 1
    BY LineEnds
<1>3. CASE n = N
    <2>1. written.ended => e = Len(file)
        BY <1>3 DEF Anatomy
    <2> HIDE DEF e
    <2>2. e + 1 > Len(file)
        BY <1>1, <1>2, <1>3, <2>1
    <2> QED BY <1>3, <2>2 DEF Place, e
<1>4. CASE n # N
    <2>1. n + 1 \in 0 .. N /\ n + 1 # 0 /\ (n + 1) - 1 = n
        BY <1>1, <1>4
    <2>2. E[n + 1] \in Nat /\ E[(n + 1) - 1] < E[n + 1]
        BY <2>1, LineEnds
    <2> DEFINE b == E[n + 1]
    <2>3. b \in Nat /\ e < b
        BY <2>1, <2>2
    <2> HIDE DEF e, b
    <2>4. e + 1 \in e + 1 .. b
        BY <1>2, <2>3
    <2> QED BY <1>4, <2>4 DEF Place, e, b
<1> QED BY <1>3, <1>4

\* The parser starts behind the header.
LEMMA PlaceAtStart ==
    ASSUME written \in Files, NEW E, Anatomy(E)
    PROVE  NextLine(1) \in 1 .. Len(file) + 2 /\ Place(E, 0, NextLine(1))
<1> DEFINE N == Len(written.lines)
<1>1. N \in Nat /\ Len(file) \in Nat /\ file \in Seq(Symbols) /\ E[0] = 3
      /\ file[1] # LineEnd /\ file[2] # LineEnd
    BY FilesAssumption DEF Anatomy
<1>2. 0 \in 0 .. N
    BY <1>1
<1>3. /\ E[0] <= Len(file) + 1
      /\ 0 # N \/ written.ended => E[0] <= Len(file) /\ file[E[0]] = LineEnd
      /\ 0 = N /\ ~written.ended => E[0] = Len(file) + 1
    BY <1>2, LineEnds
<1>4. 3 <= Len(file) + 1 /\ (3 = Len(file) + 1 \/ file[3] = LineEnd)
    BY <1>1, <1>3
<1>5. \A j \in 1 .. 3 - 1 : file[j] \notin {LineEnd}
    <2>1. \A j \in 1 .. 3 - 1 : j = 1 \/ j = 2
        OBVIOUS
    <2> QED BY <1>1, <2>1
<1>6. FindFrom(1, {LineEnd}) = 3
    <2>1. 1 \in Nat \ {0} /\ 3 \in 1 .. Len(file) + 1
        BY <1>1, <1>4
    <2> QED BY ONLY <1>1, <1>4, <1>5, <2>1, file[3] \in {LineEnd} <=> file[3] = LineEnd, FindFromIs
<1>7. NextLine(1) = Min({3, Len(file)}) + 1
    BY <1>6 DEF NextLine
<1>8. ASSUME NEW a \in Nat, NEW b \in {3, a}, b <= 3, b <= a PROVE Min({3, a}) = b
    <2>1. b \in {3, a} /\ \A x \in {3, a} : b <= x
        BY <1>8
    <2>2. \A y \in {3, a} : (\A x \in {3, a} : y <= x) => y = b
        BY <1>8
    <2> QED BY <2>1, <2>2 DEF Min
<1>9. CASE E[0] <= Len(file)
    <2>1. Min({3, Len(file)}) = 3
        BY <1>1, <1>8, <1>9
    <2>2. NextLine(1) = E[0] + 1
        BY <1>1, <1>7, <2>1
    <2>3. Place(E, 0, E[0] + 1)
        BY <1>2, <1>9, PlaceBehind
    <2>4. NextLine(1) \in 1 .. Len(file) + 2
        BY <1>1, <1>9, <2>2
    <2> QED BY <2>2, <2>3, <2>4
<1>10. CASE ~(E[0] <= Len(file))
    <2> DEFINE e == E[0]
               len == Len(file)
    <2>1. 0 = N /\ Len(file) = 2
        <3>1. e = 3 /\ len \in Nat /\ ~(e <= len) /\ (0 # N \/ written.ended => e <= len)
              /\ (0 = N /\ ~written.ended => e = len + 1)
            BY <1>1, <1>3, <1>10
        <3>2. 0 = N /\ ~written.ended
            BY <3>1
        <3> HIDE DEF e, len
        <3>3. len = 2
            BY <3>1, <3>2
        <3> QED BY <3>2, <3>3 DEF len
    <2>2. Min({3, Len(file)}) = 2
        BY <1>1, <1>8, <2>1
    <2>3. NextLine(1) = 3
        BY <1>7, <2>2
    <2>4. NextLine(1) \in 1 .. Len(file) + 2
        BY <2>1, <2>3
    <2> QED BY <2>1, <2>3, <2>4 DEF Place
<1> QED BY <1>9, <1>10

\* A token is the pool's type exactly if the parser is at the start of a row of the pool.
LEMMA AtRow ==
    ASSUME written \in Files, NEW E, Anatomy(E), NEW n \in 0 .. Len(written.lines),
           pos \in Nat, pos <= Len(file), Place(E, n, pos),
           token \in Buffers, String(token) # Type
    PROVE  /\ n \in 0 .. Len(written.lines) - 1 /\ n + 1 \in 1 .. Len(written.lines)
           /\ String(First.token) = Type => pos = E[n] + 1 /\ IsRow(written.lines[n + 1])
           /\ String(First.token) # Type =>
                 /\ ~IsRow(written.lines[n + 1]) /\ First.token \in Buffers
                 /\ pos \in E[n] + 1 .. E[n + 1] /\ First.pos \in pos .. E[n + 1]
<1> DEFINE N == Len(written.lines)
           at == [pos |-> pos, token |-> token]
<1>1. N \in Nat /\ Len(file) \in Nat
    <2>1. file \in Seq(Symbols)
        BY DEF Anatomy
    <2> QED BY <2>1, FilesAssumption
<1>2. /\ n # N /\ pos \in E[n] + 1 .. E[n + 1]
      /\ pos = E[n] + 1 \/ ~IsRow(written.lines[n + 1])
    <2>1. ~(pos > Len(file))
        BY <1>1
    <2> QED BY <2>1 DEF Place
<1>3. n \in 0 .. N - 1 /\ n + 1 \in 1 .. N /\ (n + 1) - 1 = n
    BY <1>1, <1>2
<1>4. First = NextToken(at) /\ at.pos = pos /\ at.token = token
    BY DEF First
<1> HIDE DEF at, N
<1>5. CASE pos = E[n] + 1 /\ IsRow(written.lines[n + 1])
    <2>1. pos = E[(n + 1) - 1] + 1
        BY <1>3, <1>5
    <2>2. String(First.token) = Type
        BY <1>3, <1>5, <2>1, RowIs DEF N
    <2> QED BY <1>3, <1>5, <2>2 DEF N
<1>6. CASE ~(pos = E[n] + 1 /\ IsRow(written.lines[n + 1]))
    <2>1. pos \in E[(n + 1) - 1] + 1 .. E[n + 1]
        BY <1>2, <1>3
    <2>2. pos = E[(n + 1) - 1] + 1 => ~IsRow(written.lines[n + 1])
        BY <1>3, <1>6
    <2>3. n + 1 \in 1 .. Len(written.lines)
        BY <1>3 DEF N
    <2>4. /\ NextToken(at).token \in Buffers /\ String(NextToken(at).token) # Type
          /\ NextToken(at).pos \in pos .. E[n + 1]
        BY <1>4, <2>1, <2>2, <2>3, TokenInLine
    <2> QED BY <1>2, <1>3, <1>4, <1>6, <2>4 DEF N
<1> QED BY <1>5, <1>6

\* A row is readable exactly if the line is good, has its end and is no second size; the
\* parser is then at that end and has read what the line says.
LEMMA RowOutcome ==
    ASSUME written \in Files, NEW E, Anatomy(E), NEW n \in 0 .. Len(written.lines) - 1,
           pos = E[n] + 1, IsRow(written.lines[n + 1]), token \in Buffers,
           data.intervalList \in Seq(Interval), Len(data.intervalList) <= n
    PROVE  LET l == written.lines[n + 1]
           IN /\ Readable(Row) <=> /\ GoodRow(l) /\ HasEnd(written, n + 1)
                                   /\ Field(l, 2) = -1 => ~one_time_size
              /\ Readable(Row) =>
                    /\ Row.pos = E[n + 1] /\ Row.token \in Buffers /\ String(Row.token) # Type
                    /\ Row.page = Field(l, 2) /\ Row.start = Field(l, 3) /\ Row.end = Field(l, 4)
<1> DEFINE l == written.lines[n + 1]
           ended == HasEnd(written, n + 1)
           ends == Row.pos <= Len(file) /\ file[Row.pos] = LineEnd
<1>1. n + 1 \in 1 .. Len(written.lines) /\ (n + 1) - 1 = n /\ n \in Nat
    BY FilesAssumption
<1>2. pos = E[(n + 1) - 1] + 1
    BY <1>1
<1>3. /\ Row.token \in Buffers
      /\ ended => /\ Row.page = Field(l, 2) /\ Row.start = Field(l, 3)
                  /\ Row.end = Field(l, 4) /\ String(Row.token) # Type
      /\ ends <=> Len(l) <= 4 /\ ended
      /\ ends => Row.pos = E[n + 1]
    BY <1>1, <1>2, RowIs DEF HasEnd
<1>4. Len(data.intervalList) < Capacity
    <2>1. Len(data.intervalList) \in Nat
        OBVIOUS
    <2> QED BY <2>1, RoomForAll
<1>5. Readable(Row) <=> /\ Row.page \in {-1, HUGE_2MB, HUGE_1GB}
                        /\ Row.page = -1 => ~one_time_size
                        /\ Row.start >= 0 /\ Row.end >= 0 /\ ends
    BY <1>4 DEF Readable
<1>6. GoodRow(l) <=> /\ Len(l) <= 4 /\ Field(l, 2) \in {-1, HUGE_2MB, HUGE_1GB}
                     /\ Field(l, 3) >= 0 /\ Field(l, 4) >= 0
    BY DEF GoodRow
<1> HIDE DEF l, ended, ends
<1>7. Readable(Row) => ended /\ ends
    BY <1>3, <1>5
<1>8. Readable(Row) <=> GoodRow(l) /\ ended /\ (Field(l, 2) = -1 => ~one_time_size)
    <2>1. CASE ended
        BY <1>3, <1>5, <1>6, <2>1
    <2>2. CASE ~ended
        BY <1>7, <2>2
    <2> QED BY <2>1, <2>2
<1> QED BY <1>3, <1>7, <1>8 DEF l, ended

\* Behind the file every line is done.
LEMMA AllDone ==
    ASSUME written \in Files, NEW E, Anatomy(E), NEW n \in 0 .. Len(written.lines),
           pos \in Nat, pos > Len(file), Place(E, n, pos), NEW list, NEW size,
           SoFar(written, n, list, size)
    PROVE  SoFar(written, Len(written.lines), list, size)
<1> DEFINE N == Len(written.lines)
<1>1. N \in Nat /\ Len(file) \in Nat
    <2>1. file \in Seq(Symbols)
        BY DEF Anatomy
    <2> QED BY <2>1, FilesAssumption
<1>2. CASE n = N
    BY <1>2
<1>3. CASE n # N
    <2>1. /\ pos \in E[n] + 1 .. E[n + 1]
          /\ pos = E[n] + 1 \/ ~IsRow(written.lines[n + 1])
        BY <1>3 DEF Place
    <2>2. n \in 0 .. N - 1 /\ n + 1 \in 1 .. N /\ n + 1 \in 0 .. N /\ n + 1 # 0 /\ (n + 1) - 1 = n
        BY <1>1, <1>3
    <2> DEFINE a == E[n]
               b == E[n + 1]
    <2>3. /\ b \in Nat /\ b <= Len(file) + 1 /\ (n + 1 # N => b <= Len(file))
          /\ E[(n + 1) - 1] \in Nat /\ E[(n + 1) - 1] < E[n + 1]
        BY <2>2, LineEnds
    <2>4. a \in Nat /\ a < b
        BY <2>2, <2>3
    <2>5. ASSUME IsRow(written.lines[n + 1]) PROVE a + 2 <= b
        <3> DEFINE l == written.lines[n + 1]
        <3>1. l # <<>>
            BY <2>5 DEF IsRow
        <3>2. PICK Z, F : LineCells(l, E[(n + 1) - 1], E[n + 1], Z, F)
            BY <2>2, <3>1, LineCellsExist
        <3>3. LineCells(l, a, b, Z, F)
            BY <2>2, <3>2
        <3> HIDE DEF a, b, l
        <3>4. Z[0] = a /\ Len(l) \in Nat /\ Len(l) # 0
            BY <3>3 DEF LineCells, Cells
        <3>5. 1 \in 1 .. Len(l)
            BY <3>4
        <3>6. Z[1 - 1] \in Nat /\ Z[1] \in Nat /\ Z[1] <= b /\ Z[1 - 1] + 2 <= Z[1]
            BY <3>3, <3>5, CellStop
        <3> DEFINE y == Z[0]
                   z == Z[1]
        <3>7. y = a /\ z \in Nat /\ z <= b /\ y + 2 <= z
            BY <3>4, <3>6
        <3> HIDE DEF y, z
        <3> QED BY <2>3, <2>4, <3>7
    <2>6. pos \in a + 1 .. b
        BY <2>1
    <2>7. pos = a + 1 \/ ~IsRow(written.lines[n + 1])
        BY <2>1
    <2> HIDE DEF a, b, N
    <2>8. b = Len(file) + 1 /\ pos = b
        BY <1>1, <2>3, <2>4, <2>6
    <2>9. n + 1 = N
        BY <1>1, <2>3, <2>8
    <2>10. ~IsRow(written.lines[n + 1])
        BY <2>3, <2>4, <2>5, <2>7, <2>8
    <2>11. SoFar(written, n + 1, list, size)
        BY <2>2, <2>10, SoFarOther DEF N
    <2> QED BY <2>9, <2>11 DEF N
<1> QED BY <1>2, <1>3

\* One symbol on from the end of a token in line n + 1 the parser is in the same line still, or
\* at the next.
LEMMA PlaceAfter ==
    ASSUME written \in Files, NEW E, Anatomy(E), NEW n \in 0 .. Len(written.lines) - 1,
           ~IsRow(written.lines[n + 1]), NEW p \in E[n] + 1 .. E[n + 1]
    PROVE  \/ Place(E, n, p + 1)
           \/ p = E[n + 1] /\ Place(E, n + 1, p + 1)
<1> DEFINE N == Len(written.lines)
           b == E[n + 1]
<1>1. N \in Nat /\ n + 1 \in 0 .. N /\ n + 1 # 0 /\ n # N /\ n \in 0 .. N
    BY FilesAssumption
<1>2. b \in Nat /\ E[n] \in Nat
    BY <1>1, LineEnds
<1>3. CASE p = b
    BY <1>1, <1>3, PlaceBehind
<1>4. CASE p # b
    <2>1. p + 1 \in E[n] + 1 .. b
        <3> DEFINE a == E[n]
        <3>1. p \in a + 1 .. b /\ a \in Nat
            BY <1>2
        <3> HIDE DEF a, b
        <3>2. p + 1 \in a + 1 .. b
            BY <1>2, <1>4, <3>1
        <3> QED BY <3>2 DEF a
    <2> QED BY <1>1, <2>1 DEF Place
<1> QED BY <1>3, <1>4

\* The next state of a parser that reads on.
LEMMA ReadOn ==
    ASSUME ParseIInv, UNCHANGED <<written, file>>, outcome' = "reading",
           pos' \in Nat, token' \in Buffers, String(token') # Type,
           data' = [intervalList |-> data'.intervalList, size |-> data'.size],
           one_time_size' \in BOOLEAN,
           NEW E, Anatomy(E), NEW n \in 0 .. Len(written.lines), Place(E, n, pos'),
           SoFar(written, n, data'.intervalList, data'.size),
           one_time_size' <=> SizeRows(written, n) # {}
    PROVE  ParseIInv'
<1>1. Anatomy(E)'
    BY DEF Anatomy, LineOf
<1>2. Place(E, n, pos)'
    BY DEF Place
<1>3. SoFar(written, n, data.intervalList, data.size)'
    OBVIOUS
<1>4. Reading'
    BY <1>1, <1>2, <1>3 DEF Reading
<1>5. (written \in Files /\ file = Text(written))'
    BY DEF ParseIInv
<1>6. (String(token) # Type)'
    OBVIOUS
<1> QED BY <1>4, <1>5, <1>6 DEF ParseIInv

\* The beginning: no line is behind the parser.
LEMMA ParseStart ==
    ASSUME ParseInit
    PROVE  ParseIInv
<1>1. written \in Files /\ file = Text(written)
    BY DEF ParseInit
<1>2. PICK E : Anatomy(E)
    BY <1>1, AnatomyExists
<1>3. pos \in Nat /\ Place(E, 0, pos)
    <2>1. pos = NextLine(1)
        BY DEF ParseInit
    <2>2. NextLine(1) \in 1 .. Len(file) + 2 /\ Place(E, 0, NextLine(1))
        BY <1>1, <1>2, PlaceAtStart
    <2> QED BY <2>1, <2>2
<1>4. token \in Buffers /\ String(token) # Type
    <2>1. token = [k \in 1 .. 3 |-> NUL]
        BY DEF ParseInit, token_size
    <2>2. token \in [1 .. 3 -> Symbols] /\ token[3] = NUL /\ token[1] = NUL
        BY <2>1, SymbolFacts
    <2>3. String(token) = <<>>
        BY <2>2, StringIs
    <2>4. Len(Type) = 2 /\ Len(<<>>) = 0
        BY FilesAssumption
    <2> QED BY <2>2, <2>3, <2>4 DEF Buffers
<1>5. data.intervalList = <<>> /\ data.size = 0 /\ one_time_size = FALSE
      /\ data = [intervalList |-> data.intervalList, size |-> data.size]
    BY DEF ParseInit
<1>6. 0 \in 0 .. Len(written.lines)
    BY <1>1, FilesAssumption
<1>7. SoFar(written, 0, <<>>, 0) /\ SizeRows(written, 0) = {}
    BY <1>1, SoFarNothing
<1>8. Reading
    BY <1>2, <1>3, <1>5, <1>6, <1>7 DEF Reading
<1>9. outcome = "reading"
    BY DEF ParseInit
<1> QED BY <1>1, <1>3, <1>4, <1>5, <1>8, <1>9 DEF ParseIInv

\* A token that is not the type: still in the line, or at the next one.
LEMMA SkipStep ==
    ASSUME ParseIInv, Skip
    PROVE  ParseIInv'
<1>1. PICK E, n :
          /\ Anatomy(E) /\ n \in 0 .. Len(written.lines) /\ Place(E, n, pos)
          /\ SoFar(written, n, data.intervalList, data.size)
          /\ one_time_size <=> SizeRows(written, n) # {}
    BY DEF ParseIInv, Reading, Skip, AtToken
<1>2. written \in Files /\ pos \in Nat /\ token \in Buffers /\ String(token) # Type
    BY DEF ParseIInv
<1>3. pos <= Len(file) /\ String(First.token) # Type
    BY DEF Skip, AtToken
<1>4. /\ n \in 0 .. Len(written.lines) - 1 /\ ~IsRow(written.lines[n + 1])
      /\ First.token \in Buffers /\ pos \in E[n] + 1 .. E[n + 1] /\ First.pos \in pos .. E[n + 1]
    BY <1>1, <1>2, <1>3, AtRow
<1>5. Len(written.lines) \in Nat /\ n + 1 \in 0 .. Len(written.lines)
    BY <1>2, <1>4, FilesAssumption
<1>6. E[n] \in Nat /\ E[n + 1] \in Nat
    BY <1>1, <1>2, <1>5, LineEnds
<1>7. First.pos \in E[n] + 1 .. E[n + 1] /\ First.pos + 1 \in Nat
    <2> DEFINE a == E[n]
               b == E[n + 1]
               p == First.pos
    <2>1. a \in Nat /\ b \in Nat /\ pos \in a + 1 .. b /\ p \in pos .. b
        BY <1>4, <1>6
    <2> HIDE DEF a, b, p
    <2>2. p \in a + 1 .. b /\ p + 1 \in Nat
        BY <1>2, <2>1
    <2> QED BY <2>2 DEF a, b, p
<1>8. Place(E, n, First.pos + 1) \/ Place(E, n + 1, First.pos + 1)
    BY <1>1, <1>2, <1>4, <1>7, PlaceAfter
<1>9. /\ UNCHANGED <<written, file, data, one_time_size>> /\ outcome' = "reading"
      /\ pos' = First.pos + 1 /\ token' = First.token
    BY DEF Skip, AtToken
<1>10. /\ data' = [intervalList |-> data'.intervalList, size |-> data'.size]
       /\ one_time_size' \in BOOLEAN
    BY <1>9 DEF ParseIInv
<1>11. CASE Place(E, n, First.pos + 1)
    BY <1>1, <1>3, <1>4, <1>7, <1>9, <1>10, <1>11, ReadOn
<1>12. CASE Place(E, n + 1, First.pos + 1)
    <2>1. /\ SoFar(written, n + 1, data.intervalList, data.size)
          /\ SizeRows(written, n + 1) = SizeRows(written, n)
        BY <1>1, <1>2, <1>4, SoFarOther
    <2> QED BY <1>1, <1>3, <1>4, <1>5, <1>7, <1>9, <1>10, <1>12, <2>1, ReadOn
<1> QED BY <1>8, <1>11, <1>12

\* At a row of the pool.
LEMMA RowStep ==
    ASSUME ParseIInv, AtToken, String(First.token) = Type
    PROVE  \E E, n :
              /\ Anatomy(E) /\ n \in 0 .. Len(written.lines) - 1 /\ n + 1 \in 0 .. Len(written.lines)
              /\ IsRow(written.lines[n + 1])
              /\ SoFar(written, n, data.intervalList, data.size)
              /\ one_time_size <=> SizeRows(written, n) # {}
              /\ Readable(Row) <=>
                    /\ GoodRow(written.lines[n + 1]) /\ HasEnd(written, n + 1)
                    /\ Field(written.lines[n + 1], 2) = -1 => ~one_time_size
              /\ Readable(Row) =>
                    /\ Row.page = Field(written.lines[n + 1], 2)
                    /\ Row.start = Field(written.lines[n + 1], 3)
                    /\ Row.end = Field(written.lines[n + 1], 4)
                    /\ Row.pos \in Nat /\ Place(E, n + 1, Row.pos + 1)
                    /\ Row.token \in Buffers /\ String(Row.token) # Type
<1>1. PICK E, n :
          /\ Anatomy(E) /\ n \in 0 .. Len(written.lines) /\ Place(E, n, pos)
          /\ SoFar(written, n, data.intervalList, data.size)
          /\ one_time_size <=> SizeRows(written, n) # {}
    BY DEF ParseIInv, Reading, AtToken
<1>2. written \in Files /\ pos \in Nat /\ token \in Buffers /\ String(token) # Type
    BY DEF ParseIInv
<1>3. pos <= Len(file)
    BY DEF AtToken
<1>4. /\ n \in 0 .. Len(written.lines) - 1
      /\ pos = E[n] + 1 /\ IsRow(written.lines[n + 1])
    BY <1>1, <1>2, <1>3, AtRow
<1>5. Len(written.lines) \in Nat /\ n + 1 \in 0 .. Len(written.lines) /\ n + 1 # 0
    BY <1>2, <1>4, FilesAssumption
<1>6. data.intervalList \in Seq(Interval) /\ Len(data.intervalList) <= n
    BY <1>1 DEF SoFar
<1> DEFINE l == written.lines[n + 1]
<1>7. /\ Readable(Row) <=> /\ GoodRow(l) /\ HasEnd(written, n + 1)
                           /\ Field(l, 2) = -1 => ~one_time_size
      /\ Readable(Row) =>
            /\ Row.pos = E[n + 1] /\ Row.token \in Buffers /\ String(Row.token) # Type
            /\ Row.page = Field(l, 2) /\ Row.start = Field(l, 3) /\ Row.end = Field(l, 4)
    BY <1>1, <1>2, <1>4, <1>6, RowOutcome
<1>8. E[n + 1] \in Nat /\ Place(E, n + 1, E[n + 1] + 1)
    <2>1. E[n + 1] \in Nat
        BY <1>1, <1>2, <1>5, LineEnds
    <2>2. Place(E, n + 1, E[n + 1] + 1)
        BY <1>1, <1>2, <1>5, PlaceBehind
    <2> QED BY <2>1, <2>2
<1>9. Readable(Row) => Row.pos \in Nat /\ Place(E, n + 1, Row.pos + 1)
    BY <1>7, <1>8
<1> HIDE DEF l
<1> QED BY <1>1, <1>4, <1>5, <1>7, <1>9 DEF l

\* A row with an interval: one more line is done.
LEMMA AddIntervalStep ==
    ASSUME ParseIInv, AddInterval
    PROVE  ParseIInv'
<1>1. AtToken /\ String(First.token) = Type /\ Row.page # -1 /\ Readable(Row)
    BY DEF AddInterval
<1>2. PICK E, n :
          /\ Anatomy(E) /\ n \in 0 .. Len(written.lines) - 1 /\ n + 1 \in 0 .. Len(written.lines)
          /\ IsRow(written.lines[n + 1])
          /\ SoFar(written, n, data.intervalList, data.size)
          /\ one_time_size <=> SizeRows(written, n) # {}
          /\ GoodRow(written.lines[n + 1]) /\ HasEnd(written, n + 1)
          /\ Row.page = Field(written.lines[n + 1], 2)
          /\ Row.start = Field(written.lines[n + 1], 3)
          /\ Row.end = Field(written.lines[n + 1], 4)
          /\ Row.pos \in Nat /\ Place(E, n + 1, Row.pos + 1)
          /\ Row.token \in Buffers /\ String(Row.token) # Type
    BY <1>1, RowStep
<1>3. /\ data' = [data EXCEPT !.intervalList =
                     Append(@, MemoryInterval(Row.start, Row.end, Row.page))]
      /\ pos' = Row.pos + 1 /\ token' = Row.token
      /\ UNCHANGED <<written, file, one_time_size>> /\ outcome' = "reading"
    BY DEF AddInterval, AtToken
<1>4. written \in Files /\ one_time_size \in BOOLEAN
      /\ data = [intervalList |-> data.intervalList, size |-> data.size]
    BY DEF ParseIInv
<1> DEFINE l == written.lines[n + 1]
<1>5. IsInterval(l)
    BY <1>1, <1>2 DEF IsInterval
<1>6. /\ SoFar(written, n + 1, Append(data.intervalList, IntervalOf(l)), data.size)
      /\ SizeRows(written, n + 1) = SizeRows(written, n)
    BY <1>2, <1>4, <1>5, SoFarInterval
<1>7. MemoryInterval(Row.start, Row.end, Row.page) = IntervalOf(l)
    BY <1>2 DEF IntervalOf
<1>8. /\ data'.intervalList = Append(data.intervalList, IntervalOf(l)) /\ data'.size = data.size
      /\ data' = [intervalList |-> data'.intervalList, size |-> data'.size]
    <2> DEFINE v == IntervalOf(l)
           a == data.intervalList
           b == data.size
    <2>1. data' = [data EXCEPT !.intervalList = Append(@, v)]
        BY <1>3, <1>7
    <2>2. data = [intervalList |-> a, size |-> b]
        BY <1>4
    <2> HIDE DEF v, a, b
    <2>3. data' = [intervalList |-> Append(a, v), size |-> b]
        BY <2>1, <2>2
    <2>4. data'.intervalList = Append(a, v) /\ data'.size = b
        BY <2>3
    <2> QED BY <2>3, <2>4 DEF v, a, b
<1>9. SoFar(written, n + 1, data'.intervalList, data'.size)
    BY <1>6, <1>8
<1>10. one_time_size' <=> SizeRows(written, n + 1) # {}
    BY <1>2, <1>3, <1>6
<1>11. /\ pos' \in Nat /\ token' \in Buffers /\ String(token') # Type /\ one_time_size' \in BOOLEAN
       /\ Place(E, n + 1, pos')
    BY <1>2, <1>3, <1>4
<1> HIDE DEF l
<1> QED BY <1>2, <1>3, <1>8, <1>9, <1>10, <1>11, ReadOn

\* A row with the size: one more line is done.
LEMMA SetSizeStep ==
    ASSUME ParseIInv, SetSize
    PROVE  ParseIInv'
<1>1. AtToken /\ String(First.token) = Type /\ Row.page = -1 /\ Readable(Row)
    BY DEF SetSize
<1>2. PICK E, n :
          /\ Anatomy(E) /\ n \in 0 .. Len(written.lines) - 1 /\ n + 1 \in 0 .. Len(written.lines)
          /\ IsRow(written.lines[n + 1])
          /\ SoFar(written, n, data.intervalList, data.size)
          /\ one_time_size <=> SizeRows(written, n) # {}
          /\ GoodRow(written.lines[n + 1]) /\ HasEnd(written, n + 1)
          /\ Field(written.lines[n + 1], 2) = -1 => ~one_time_size
          /\ Row.page = Field(written.lines[n + 1], 2)
          /\ Row.start = Field(written.lines[n + 1], 3)
          /\ Row.end = Field(written.lines[n + 1], 4)
          /\ Row.pos \in Nat /\ Place(E, n + 1, Row.pos + 1)
          /\ Row.token \in Buffers /\ String(Row.token) # Type
    BY <1>1, RowStep
<1>3. /\ data' = [data EXCEPT !.size = (Row.end - Row.start) % SIZE_T]
      /\ pos' = Row.pos + 1 /\ token' = Row.token /\ one_time_size' = TRUE
      /\ UNCHANGED <<written, file>> /\ outcome' = "reading"
    BY DEF SetSize, AtToken
<1>4. written \in Files
      /\ data = [intervalList |-> data.intervalList, size |-> data.size]
    BY DEF ParseIInv
<1> DEFINE l == written.lines[n + 1]
<1>5. Field(l, 2) = -1 /\ SizeRows(written, n) = {}
    BY <1>1, <1>2
<1>6. SoFar(written, n + 1, data.intervalList, SizeOf(l)) /\ SizeRows(written, n + 1) # {}
    BY <1>2, <1>4, <1>5, SoFarSize
<1>7. (Row.end - Row.start) % SIZE_T = SizeOf(l)
    BY <1>2 DEF SizeOf
<1>8. /\ data'.intervalList = data.intervalList /\ data'.size = SizeOf(l)
      /\ data' = [intervalList |-> data'.intervalList, size |-> data'.size]
    <2> DEFINE v == SizeOf(l)
           a == data.intervalList
           b == data.size
    <2>1. data' = [data EXCEPT !.size = v]
        BY <1>3, <1>7
    <2>2. data = [intervalList |-> a, size |-> b]
        BY <1>4
    <2> HIDE DEF v, a, b
    <2>3. data' = [intervalList |-> a, size |-> v]
        BY <2>1, <2>2
    <2>4. data'.intervalList = a /\ data'.size = v
        BY <2>3
    <2> QED BY <2>3, <2>4 DEF v, a, b
<1>9. SoFar(written, n + 1, data'.intervalList, data'.size)
    BY <1>6, <1>8
<1>10. one_time_size' <=> SizeRows(written, n + 1) # {}
    BY <1>3, <1>6
<1>11. /\ pos' \in Nat /\ token' \in Buffers /\ String(token') # Type /\ one_time_size' \in BOOLEAN
       /\ Place(E, n + 1, pos')
    BY <1>2, <1>3
<1> HIDE DEF l
<1> QED BY <1>2, <1>3, <1>8, <1>9, <1>10, <1>11, ReadOn

\* A parser that has stopped: what it leaves behind is still what it says.
LEMMA Stopped ==
    ASSUME ParseIInv, UNCHANGED <<written, file, pos, token, one_time_size>>,
           data' = [intervalList |-> data'.intervalList, size |-> data'.size],
           \/ outcome' = "configured" /\ ReadInFull'
           \/ outcome' = "refused" /\ Refused'
    PROVE  ParseIInv'
BY DEF ParseIInv

\* An exception: the row is bad, whatever lines follow.
LEMMA RefuseStep ==
    ASSUME ParseIInv, Refuse
    PROVE  ParseIInv'
<1>1. AtToken /\ String(First.token) = Type /\ ~Readable(Row)
    BY DEF Refuse
<1>2. PICK E, n :
          /\ n \in 0 .. Len(written.lines) - 1
          /\ IsRow(written.lines[n + 1])
          /\ one_time_size <=> SizeRows(written, n) # {}
          /\ \/ ~GoodRow(written.lines[n + 1]) \/ ~HasEnd(written, n + 1)
             \/ Field(written.lines[n + 1], 2) = -1 /\ one_time_size
    BY <1>1, RowStep
<1>3. written \in Files /\ data = [intervalList |-> data.intervalList, size |-> data.size]
    BY DEF ParseIInv
<1>4. ~(RowsGood(written, Len(written.lines)) /\ OneSize(written, Len(written.lines)))
    BY <1>2, <1>3, BadForGood
<1>5. /\ UNCHANGED <<written, file, pos, token, data, one_time_size>>
      /\ outcome' = "refused"
    BY DEF Refuse
<1>6. Refused'
    BY <1>4, <1>5 DEF Refused
<1> QED BY <1>3, <1>5, <1>6, Stopped

\* The end of the file: all lines are done.
LEMMA FinishStep ==
    ASSUME ParseIInv, Finish
    PROVE  ParseIInv'
<1> DEFINE list == data.intervalList
           size == data.size
           N == Len(written.lines)
<1>1. outcome = "reading" /\ pos > Len(file)
    BY DEF Finish
<1>2. PICK E, n :
          /\ Anatomy(E) /\ n \in 0 .. Len(written.lines) /\ Place(E, n, pos)
          /\ SoFar(written, n, data.intervalList, data.size)
    BY <1>1 DEF ParseIInv, Reading
<1>3. written \in Files /\ pos \in Nat
      /\ data = [intervalList |-> data.intervalList, size |-> data.size]
    BY DEF ParseIInv
<1>4. SoFar(written, Len(written.lines), list, size)
    BY <1>1, <1>2, <1>3, AllDone
<1>5. list \in Seq(Interval) /\ off_t(size) \in Int
    BY <1>3, <1>4, SoFarAll DEF SoFar
<1>6. Accepted(Sort(list), off_t(size)) <=> Accepted(list, off_t(size))
    BY <1>5, AcceptedSorted
<1>7. /\ data' = [data EXCEPT !.intervalList = Sort(@)]
      /\ outcome' = IF Accepted(data'.intervalList, off_t(data.size))
                    THEN "configured" ELSE "refused"
      /\ UNCHANGED <<written, file, pos, token, one_time_size>>
    BY DEF Finish
<1>8. /\ data'.intervalList = Sort(list) /\ data'.size = size
      /\ data' = [intervalList |-> data'.intervalList, size |-> data'.size]
    BY <1>3, <1>7
<1>9. CASE Accepted(list, off_t(size))
    <2>1. outcome' = "configured"
        BY <1>6, <1>7, <1>8, <1>9
    <2>2. ReadInFull'
        BY <1>4, <1>7, <1>8, <1>9 DEF ReadInFull
    <2> QED BY <1>7, <1>8, <2>1, <2>2, Stopped
<1>10. CASE ~Accepted(list, off_t(size))
    <2>1. outcome' = "refused"
        BY <1>6, <1>7, <1>8, <1>10
    <2>2. Refused'
        BY <1>4, <1>7, <1>8, <1>10 DEF Refused
    <2> QED BY <1>7, <1>8, <2>1, <2>2, Stopped
<1> QED BY <1>9, <1>10

\* ParseIInv holds in every state.
THEOREM ParseInvariance == ParseSpec => []ParseIInv
<1>1. ParseInit => ParseIInv
    BY ParseStart
<1>2. ASSUME ParseIInv, [ParseNext]_parseVars PROVE ParseIInv'
    <2>1. CASE Skip
        BY <1>2, <2>1, SkipStep
    <2>2. CASE AddInterval
        BY <1>2, <2>2, AddIntervalStep
    <2>3. CASE SetSize
        BY <1>2, <2>3, SetSizeStep
    <2>4. CASE Refuse
        BY <1>2, <2>4, RefuseStep
    <2>5. CASE Finish
        BY <1>2, <2>5, FinishStep
    <2>6. CASE UNCHANGED parseVars
        <3>1. UNCHANGED <<written, file, pos, token, data, one_time_size, outcome>>
            BY <2>6 DEF parseVars
        <3>2. Reading => Reading'
            <4>1. ASSUME NEW E, NEW n PROVE (Anatomy(E) <=> Anatomy(E)') /\ (Place(E, n, pos) <=> Place(E, n, pos)')
                BY <3>1 DEF Anatomy, LineOf, Place
            <4>2. ASSUME NEW n
                  PROVE  /\ SoFar(written, n, data.intervalList, data.size)
                             <=> SoFar(written, n, data.intervalList, data.size)'
                         /\ (one_time_size <=> SizeRows(written, n) # {})
                             <=> (one_time_size <=> SizeRows(written, n) # {})'
                BY <3>1
            <4> QED BY <3>1, <4>1, <4>2 DEF Reading
        <3>3. (ReadInFull => ReadInFull') /\ (Refused => Refused')
            BY <3>1 DEF ReadInFull, Refused
        <3> QED BY <1>2, <3>1, <3>2, <3>3 DEF ParseIInv
    <2> QED BY <1>2, <2>1, <2>2, <2>3, <2>4, <2>5, <2>6 DEF ParseNext
<1> QED BY <1>1, <1>2, PTL DEF ParseSpec

-------------------------------------------------------------------------------
(* What the parser leaves behind.                                          *)

\* How often v is among the first n elements of s.
TimesIn(n, s, v) == Cardinality({k \in 1 .. n : s[k] = v})

\* A permutation has every element as often.
LEMMA SameTimes ==
    ASSUME NEW n \in Nat, NEW s, NEW t, NEW f, Permutation(n, f),
           \A k \in 1 .. n : t[k] = s[f[k]], NEW v
    PROVE  TimesIn(n, t, v) = TimesIn(n, s, v)
<1> DEFINE S == {k \in 1 .. n : s[k] = v}
           T == {k \in 1 .. n : t[k] = v}
           b == [k \in T |-> f[k]]
<1>1. /\ \A k \in 1 .. n : f[k] \in 1 .. n
      /\ \A j, k \in 1 .. n : j # k => f[j] # f[k]
      /\ \A k \in 1 .. n : \E j \in 1 .. n : f[j] = k
    BY DEF Permutation
<1>2. \A k \in T : k \in 1 .. n /\ b[k] = f[k] /\ f[k] \in S
    BY <1>1
<1>3. \A k \in S : \E j \in T : b[j] = k
    <2>1. ASSUME NEW k \in S PROVE \E j \in T : b[j] = k
        <3>1. PICK j \in 1 .. n : f[j] = k
            BY <1>1
        <3>2. j \in T
            BY <3>1
        <3> QED BY <1>2, <3>1, <3>2
    <2> QED BY <2>1
<1>4. IsFiniteSet(T)
    <2>1. IsFiniteSet(1 .. n)
        <3>1. 1 \in Int /\ n \in Int
            OBVIOUS
        <3> QED BY <3>1, FS_Interval
    <2>2. T \subseteq 1 .. n
        OBVIOUS
    <2> HIDE DEF T
    <2> QED BY <2>1, <2>2, FS_Subset
<1>5. b \in [T -> S]
    BY <1>2
<1>6. \A j, k \in T : b[j] = b[k] => j = k
    BY <1>1, <1>2
<1> HIDE DEF b, S, T
<1>7. b \in Bijection(T, S)
    BY <1>3, <1>5, <1>6 DEF Bijection, Injection, Surjection, IsInjective
<1>8. ExistsBijection(T, S)
    BY <1>7 DEF ExistsBijection
<1>9. Cardinality(S) = Cardinality(T)
    BY <1>4, <1>8, FS_Bijection
<1> QED BY <1>9 DEF S, T, TimesIn

\* A pool is configured with what its rows say (ReadAsWritten).
LEMMA ConfiguredAsWritten ==
    ASSUME written \in Files, ReadInFull, outcome = "configured"
    PROVE  ReadAsWritten
<1>1. PICK list : /\ SoFar(written, Len(written.lines), list, data.size)
                  /\ data.intervalList = Sort(list)
                  /\ Accepted(list, off_t(data.size))
    BY DEF ReadInFull
<1>2. list = IntervalsOfPool /\ data.size = SizeOfPool
    <2>1. list = IntervalsOfPool /\ off_t(data.size) = SizeOfPool /\ SizeOfPool \in Int
        BY <1>1, SoFarAll
    <2>2. SizeOfPool \in Nat
        <3>1. list \in Seq(Interval)
            BY <1>1 DEF SoFar
        <3> QED BY <1>1, <2>1, <3>1, NothingBelowZero
    <2> DEFINE size == data.size
    <2>3. size \in Nat /\ size < SIZE_T /\ SIZE_T \in Nat
        BY <1>1, SoFarFits, FilesAssumption DEF SoFar
    <2>4. off_t(size) = size \/ off_t(size) = size - SIZE_T
        BY DEF off_t
    <2>5. off_t(size) = size
        <3>1. off_t(size) \in Nat
            BY <2>1, <2>2
        <3> HIDE DEF size
        <3> QED BY <2>3, <2>4, <3>1
    <2> QED BY <2>1, <2>5
<1> DEFINE n == Len(list)
           s == Sort(list)
           times(v, u) == Cardinality({k \in DOMAIN u : u[k] = v})
<1>3. list \in Seq(Interval) /\ n \in Nat
    BY <1>1 DEF SoFar
<1>4. /\ s \in Seq(Interval) /\ Len(s) = n
      /\ \A a, b \in 1 .. n : a < b => s[a].start_offset <= s[b].start_offset
    BY <1>3, SortedElements
<1>5. PICK f : Permutation(n, f) /\ \A k \in 1 .. n : s[k] = list[f[k]]
    BY <1>3, SortedElements
<1>6. DOMAIN list = 1 .. n /\ DOMAIN s = 1 .. n
    BY <1>3, <1>4
<1> HIDE DEF n, s
<1>7. ASSUME NEW v PROVE times(v, s) = times(v, list)
    <2>1. TimesIn(n, s, v) = TimesIn(n, list, v)
        <3>1. n \in Nat /\ Permutation(n, f) /\ \A k \in 1 .. n : s[k] = list[f[k]]
            BY <1>3, <1>5
        <3> QED BY ONLY <3>1, SameTimes
    <2> QED BY <1>6, <2>1 DEF TimesIn
<1>8. \A k \in 2 .. Len(s) : ~LessThan(s[k], s[k - 1])
    <2>1. ASSUME NEW k \in 2 .. Len(s) PROVE ~LessThan(s[k], s[k - 1])
        <3>1. k \in 1 .. n /\ k - 1 \in 1 .. n /\ k - 1 < k
            BY <1>3, <1>4
        <3>2. s[k - 1].start_offset <= s[k].start_offset
            BY <1>4, <3>1
        <3>3. s[k].start_offset \in Nat /\ s[k - 1].start_offset \in Nat
            <4>1. s[k] \in Interval /\ s[k - 1] \in Interval
                BY <1>4, <3>1
            <4> QED BY <4>1 DEF Interval
        <3> DEFINE x == s[k - 1].start_offset
                   y == s[k].start_offset
        <3>4. x \in Nat /\ y \in Nat /\ x <= y
            BY <3>2, <3>3
        <3> HIDE DEF x, y
        <3>5. ~(y < x)
            BY <3>4
        <3> QED BY <3>5 DEF LessThan, x, y
    <2> QED BY <2>1
<1>9. data.intervalList = s
    BY <1>1 DEF s
<1> QED BY <1>2, <1>7, <1>8, <1>9 DEF ReadAsWritten

\* What a file is refused for is bad (RefusedIfBad).
LEMMA RefusedAsBad ==
    ASSUME written \in Files, outcome \in {"reading", "configured", "refused"},
           outcome = "configured" => ReadInFull, outcome = "refused" => Refused
    PROVE  RefusedIfBad
<1> DEFINE N == Len(written.lines)
           R == RowsGood(written, N) /\ OneSize(written, N)
<1>1. Good <=> R /\ Accepted(IntervalsOfPool, SizeOfPool)
    BY GoodLines DEF Good
<1>2. CASE outcome = "configured"
    <2>1. PICK list : SoFar(written, N, list, data.size) /\ Accepted(list, off_t(data.size))
        BY <1>2 DEF ReadInFull
    <2>2. list = IntervalsOfPool /\ off_t(data.size) = SizeOfPool
        BY <2>1, SoFarAll
    <2>3. R
        BY <2>1 DEF SoFar
    <2>4. Good
        BY <1>1, <2>1, <2>2, <2>3
    <2> QED BY <1>2, <2>4 DEF RefusedIfBad
<1>3. CASE outcome = "refused"
    <2>1. CASE ~R
        <3>1. ~Good
            BY <1>1, <2>1
        <3> QED BY <1>3, <3>1 DEF RefusedIfBad
    <2>2. CASE R
        <3>1. PICK list, size : SoFar(written, N, list, size) /\ ~Accepted(list, off_t(size))
            BY <1>3, <2>2 DEF Refused
        <3>2. list = IntervalsOfPool /\ off_t(size) = SizeOfPool
            BY <3>1, SoFarAll
        <3>3. ~Good
            BY <1>1, <3>1, <3>2
        <3> QED BY <1>3, <3>3 DEF RefusedIfBad
    <2> QED BY <2>1, <2>2
<1>4. CASE outcome = "reading"
    BY <1>4 DEF RefusedIfBad
<1> QED BY <1>2, <1>3, <1>4

\* Whatever stands in a file, a pool is configured with the intervals and the size that its
\* rows say, each row once and the intervals in ascending order (parseCsv).
THEOREM ConfiguredWithItsRows == ParseSpec => []ReadAsWritten
<1>1. ParseIInv => ReadAsWritten
    <2>1. outcome # "configured" => ReadAsWritten
        BY DEF ReadAsWritten
    <2>2. ParseIInv /\ outcome = "configured" => ReadAsWritten
        BY ConfiguredAsWritten DEF ParseIInv
    <2> QED BY <2>1, <2>2
<1> QED BY <1>1, ParseInvariance, PTL

\* Whatever stands in a file, it is refused exactly if a row of the pool is bad, its size is
\* given twice or, with its sign, is too small for the list, or the list is not valid (parseCsv and SetIntervalConfigList).
THEOREM RefusedOnlyIfBad == ParseSpec => []RefusedIfBad
<1>1. ParseIInv => RefusedIfBad
    BY RefusedAsBad DEF ParseIInv
<1> QED BY <1>1, ParseInvariance, PTL

-------------------------------------------------------------------------------
(* Type correctness.                                                       *)

\* The intervals that a row can say.
ReadInterval == [start_offset : Nat, end_offset : Nat, page_size : {HUGE_2MB, HUGE_1GB}]

\* ParseTypeOK without what ParseIInv has already.
Typed ==
    /\ pos \in 1 .. Len(file) + 2
    /\ data.intervalList \in Seq(ReadInterval) /\ data.size \in Nat

\* The beginning.
LEMMA TypedStart ==
    ASSUME ParseInit
    PROVE  Typed
<1>1. written \in Files /\ file = Text(written) /\ pos = NextLine(1)
    BY DEF ParseInit
<1>2. PICK E : Anatomy(E)
    BY <1>1, AnatomyExists
<1>3. pos \in 1 .. Len(file) + 2
    BY <1>1, <1>2, PlaceAtStart
<1>4. data.intervalList = <<>> /\ data.size = 0
    BY DEF ParseInit
<1> QED BY <1>3, <1>4 DEF Typed

\* A token that is not the type.
LEMMA TypedSkip ==
    ASSUME ParseIInv, Typed, Skip
    PROVE  Typed'
<1>1. PICK E, n :
          /\ Anatomy(E) /\ n \in 0 .. Len(written.lines) /\ Place(E, n, pos)
    BY DEF ParseIInv, Reading, Skip, AtToken
<1>2. written \in Files /\ pos \in Nat /\ token \in Buffers /\ String(token) # Type
    BY DEF ParseIInv
<1>3. pos <= Len(file) /\ String(First.token) # Type
    BY DEF Skip, AtToken
<1>4. n \in 0 .. Len(written.lines) - 1 /\ First.pos \in pos .. E[n + 1]
    BY <1>1, <1>2, <1>3, AtRow
<1>5. n + 1 \in 0 .. Len(written.lines)
    BY <1>2, <1>4, FilesAssumption
<1>6. E[n + 1] \in Nat /\ E[n + 1] <= Len(file) + 1
    BY <1>1, <1>2, <1>5, LineEnds
<1>7. pos \in 1 .. Len(file) + 2 /\ Len(file) \in Nat
    <2>1. file \in Seq(Symbols)
        BY <1>1 DEF Anatomy
    <2> QED BY <2>1 DEF Typed
<1>8. First.pos + 1 \in 1 .. Len(file) + 2
    <2> DEFINE p == First.pos
               b == E[n + 1]
    <2>1. p \in pos .. b /\ b \in Nat /\ b <= Len(file) + 1
        BY <1>4, <1>6
    <2> HIDE DEF p, b
    <2>2. p + 1 \in 1 .. Len(file) + 2
        BY <1>7, <2>1
    <2> QED BY <2>2 DEF p
<1>9. UNCHANGED <<file, data>> /\ pos' = First.pos + 1
    BY DEF Skip
<1> QED BY <1>8, <1>9 DEF Typed

\* What a row that is read says.
LEMMA RowTyped ==
    ASSUME ParseIInv, AtToken, String(First.token) = Type, Readable(Row)
    PROVE  /\ Row.page \in {-1, HUGE_2MB, HUGE_1GB} /\ Row.start \in Nat /\ Row.end \in Nat
           /\ Row.pos + 1 \in 1 .. Len(file) + 2
<1>1. /\ Row.page \in {-1, HUGE_2MB, HUGE_1GB} /\ Row.start >= 0 /\ Row.end >= 0
      /\ Row.pos <= Len(file)
    BY DEF Readable
<1>2. PICK E, n : /\ Anatomy(E) /\ Row.pos \in Nat
                  /\ Row.start = Field(written.lines[n + 1], 3)
                  /\ Row.end = Field(written.lines[n + 1], 4)
    BY RowStep
<1>3. Row.start \in Int /\ Row.end \in Int
    BY <1>2, FieldIsInt
<1>4. Len(file) \in Nat
    <2>1. file \in Seq(Symbols)
        BY <1>2 DEF Anatomy
    <2> QED BY <2>1
<1> DEFINE p == Row.pos
           a == Row.start
           b == Row.end
<1>5. p \in Nat /\ p <= Len(file) /\ a \in Int /\ a >= 0 /\ b \in Int /\ b >= 0
    BY <1>1, <1>2, <1>3
<1> HIDE DEF p, a, b
<1>6. p + 1 \in 1 .. Len(file) + 2 /\ a \in Nat /\ b \in Nat
    BY <1>4, <1>5
<1> QED BY <1>1, <1>6 DEF p, a, b

\* A row with an interval.
LEMMA TypedAddInterval ==
    ASSUME ParseIInv, Typed, AddInterval
    PROVE  Typed'
<1>1. AtToken /\ String(First.token) = Type /\ Row.page # -1 /\ Readable(Row)
    BY DEF AddInterval
<1>2. /\ Row.page \in {HUGE_2MB, HUGE_1GB} /\ Row.start \in Nat /\ Row.end \in Nat
      /\ Row.pos + 1 \in 1 .. Len(file) + 2
    BY <1>1, RowTyped
<1> DEFINE v == MemoryInterval(Row.start, Row.end, Row.page)
           a == data.intervalList
           b == data.size
<1>3. v \in ReadInterval
    BY <1>2 DEF MemoryInterval, ReadInterval
<1>4. data' = [data EXCEPT !.intervalList = Append(@, v)]
    BY DEF AddInterval
<1>5. data = [intervalList |-> a, size |-> b]
    BY DEF ParseIInv
<1>6. a \in Seq(ReadInterval) /\ b \in Nat
    BY DEF Typed
<1>7. pos' = Row.pos + 1 /\ file' = file
    BY DEF AddInterval
<1> HIDE DEF v, a, b
<1>8. data' = [intervalList |-> Append(a, v), size |-> b]
    BY <1>4, <1>5
<1>9. data'.intervalList = Append(a, v) /\ data'.size = b
    BY <1>8
<1>10. Append(a, v) \in Seq(ReadInterval)
    BY <1>3, <1>6, AppendProperties
<1>11. pos' \in 1 .. Len(file') + 2
    BY <1>2, <1>7
<1> QED BY <1>6, <1>9, <1>10, <1>11 DEF Typed

\* A row with the size.
LEMMA TypedSetSize ==
    ASSUME ParseIInv, Typed, SetSize
    PROVE  Typed'
<1>1. AtToken /\ String(First.token) = Type /\ Readable(Row)
    BY DEF SetSize
<1>2. Row.start \in Nat /\ Row.end \in Nat /\ Row.pos + 1 \in 1 .. Len(file) + 2
    BY <1>1, RowTyped
<1> DEFINE v == (Row.end - Row.start) % SIZE_T
           a == data.intervalList
           b == data.size
<1>3. v \in Nat
    <2> DEFINE d == Row.end - Row.start
    <2>1. d \in Int
        BY <1>2
    <2>2. SIZE_T \in Nat \ {0}
        BY FilesAssumption
    <2> HIDE DEF d
    <2>3. d % SIZE_T \in Nat
        BY <2>1, <2>2
    <2> QED BY <2>3 DEF d
<1>4. data' = [data EXCEPT !.size = v]
    BY DEF SetSize
<1>5. data = [intervalList |-> a, size |-> b]
    BY DEF ParseIInv
<1>6. a \in Seq(ReadInterval)
    BY DEF Typed
<1>7. pos' = Row.pos + 1 /\ file' = file
    BY DEF SetSize
<1> HIDE DEF v, a, b
<1>8. data' = [intervalList |-> a, size |-> v]
    BY <1>4, <1>5
<1>9. data'.intervalList = a /\ data'.size = v
    BY <1>8
<1>10. pos' \in 1 .. Len(file') + 2
    BY <1>2, <1>7
<1> QED BY <1>3, <1>6, <1>9, <1>10 DEF Typed

\* The end of the file: sorting keeps the types.
LEMMA TypedFinish ==
    ASSUME ParseIInv, Typed, Finish
    PROVE  Typed'
<1> DEFINE a == data.intervalList
           b == data.size
<1>1. a \in Seq(ReadInterval) /\ b \in Nat /\ pos \in 1 .. Len(file) + 2
    BY DEF Typed
<1>2. data' = [data EXCEPT !.intervalList = Sort(@)] /\ UNCHANGED <<file, pos>>
    BY DEF Finish
<1>3. data = [intervalList |-> a, size |-> b]
    BY DEF ParseIInv
<1> HIDE DEF a, b
<1>4. Sort(a) \in Seq(ReadInterval)
    <2>1. \A x \in ReadInterval : x.start_offset \in Int
        BY DEF ReadInterval
    <2> QED BY <1>1, <2>1, SortFacts
<1>5. data' = [intervalList |-> Sort(a), size |-> b]
    BY <1>2, <1>3
<1>6. data'.intervalList = Sort(a) /\ data'.size = b
    BY <1>5
<1> QED BY <1>1, <1>2, <1>4, <1>6 DEF Typed

\* The parser's position stays in the file, the symbol behind it or the next, its buffer always
\* holds a terminated token, and what it has read is of the types of the code (parseCsv).
THEOREM ParserTypeCorrect == ParseSpec => []ParseTypeOK
<1>1. ParseInit => Typed
    BY TypedStart
<1>2. ASSUME ParseIInv, Typed, [ParseNext]_parseVars PROVE Typed'
    <2>1. CASE Skip
        BY <1>2, <2>1, TypedSkip
    <2>2. CASE AddInterval
        BY <1>2, <2>2, TypedAddInterval
    <2>3. CASE SetSize
        BY <1>2, <2>3, TypedSetSize
    <2>4. CASE Refuse
        BY <1>2, <2>4 DEF Refuse, Typed
    <2>5. CASE Finish
        BY <1>2, <2>5, TypedFinish
    <2>6. CASE UNCHANGED parseVars
        BY <1>2, <2>6 DEF parseVars, Typed
    <2> QED BY <1>2, <2>1, <2>2, <2>3, <2>4, <2>5, <2>6 DEF ParseNext
<1>3. ASSUME ParseIInv, Typed PROVE ParseTypeOK
    <2>1. DOMAIN token = 1 .. token_size /\ NUL \in Range(token)
        <3>1. token \in [1 .. 3 -> Symbols] /\ token[3] = NUL
            BY <1>3 DEF ParseIInv, Buffers
        <3> QED BY <3>1 DEF token_size, Range
    <2>2. ASSUME NEW v \in ToSet(data.intervalList)
          PROVE  /\ v.start_offset \in Nat /\ v.end_offset \in Nat
                 /\ v.page_size \in {HUGE_2MB, HUGE_1GB}
        <3> DEFINE list == data.intervalList
        <3>1. list \in Seq(ReadInterval) /\ v \in ToSet(list)
            BY <1>3 DEF Typed
        <3> HIDE DEF list
        <3>2. v \in ReadInterval
            BY <3>1 DEF ToSet
        <3> QED BY <3>2 DEF ReadInterval
    <2> QED BY <1>3, <2>1, <2>2 DEF ParseTypeOK, ParseIInv, Typed
<1> QED BY <1>1, <1>2, <1>3, ParseInvariance, PTL DEF ParseSpec
================================================================================
